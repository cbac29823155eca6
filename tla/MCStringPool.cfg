SPECIFICATION PoolSpec
CONSTANTS
  x1 = x1
  x2 = x2
  y1 = y1
  y2 = y2
  z1 = z1
  z2 = z2
  v1 = v1
  v2 = v2
  x = x
  y = y
  z = z
  v = v
  Keys = {x1, x2, y1, y2, z1, z2, v1, v2}
  Nil = nil
  True = true
  Values = {nil, true}
  NULL = NULL
  Hash <- StringHash
  MinCapacity = 4
  MaxCapacity = 16
  Texts = {x, y, z, v}
  Text <- Characters
  TextHash <- CollidingTexts
SYMMETRY Addresses
INVARIANTS UniqueStrings PoolHoldsLive
CHECK_DEADLOCK FALSE
