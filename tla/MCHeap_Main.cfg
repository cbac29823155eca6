SPECIFICATION Spec
CONSTANTS
  Main = Main
  c1 = c1
  s1 = s1
  s2 = s2
  l1 = l1
  NULL = NULL
  Coros = {c1}
  Strings = {s1}
  Others = {}
  MaxRefs = 1
INVARIANT MainKept
CHECK_DEADLOCK FALSE
