SPECIFICATION Spec
CONSTANTS
  Names = {x, y}
  MaxFuel = 5
  MaxItems = 1
  MaxStack = 8
  Cost <- ConstructCost
  Cheap = {"variable", "function", "parameter", "block", "break", "get", "expression"}
  Dear = {"while", "if", "for", "continue", "return", "yield", "set", "call"}
SYMMETRY Symmetry
INVARIANTS NamesResolve  VariablesInPlace StackMatchesScope OpenUpvaluesLive
CHECK_DEADLOCK FALSE
