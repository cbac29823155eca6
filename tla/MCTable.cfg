SPECIFICATION Spec
CONSTANTS
  a = a
  b = b
  c = c
  d = d
  Keys = {a, b, c, d}
  Nil = nil
  True = true
  Values = {nil, true}
  NULL = NULL
  Hash <- CollidingHash
  MinCapacity = 4
  MaxCapacity = 16
INVARIANTS TypeOK ProbesEnd Findable
PROPERTY ImplementsMap
CHECK_DEADLOCK FALSE
