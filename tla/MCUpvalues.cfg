CONSTANTS
  Main = main
  Coros = {c1}
  Blocks = {1, 2}
  Size = 4
  MaxFrames = 2
  MaxUpvalues = 3
SPECIFICATION Spec
INVARIANTS ListSorted OpenInOwnStack ShareVariable
PROPERTIES ListOperationsEnd ImplementsOpenMap
CHECK_DEADLOCK FALSE
