SPECIFICATION Spec
CONSTANTS
  Main = Main
  c1 = c1
  s1 = s1
  s2 = s2
  l1 = l1
  NULL = NULL
  Coros = {c1}
  Strings = {s1}
  Others = {}
  MaxRefs = 2
INVARIANTS TypeOK ListIsHeap NewbornKept VisitedChildrenKept
PROPERTIES CollectionEnds GarbageGoes
CHECK_DEADLOCK FALSE
