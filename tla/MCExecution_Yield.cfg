SPECIFICATION Spec
CONSTANTS
  Names = {x}
  MaxFuel = 4
  MaxItems = 1
  MaxStack = 8
  Cost <- ConstructCost
  Cheap = {"variable", "function", "parameter", "yield"}
  Dear = {}
PROPERTY OnlyArgumentsCleared
CHECK_DEADLOCK FALSE
