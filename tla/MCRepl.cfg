CONSTANTS
  LineNumbers <- TwoLines
  MaxBytes = 40
  MinCapacity = 8
  MaxLines = 3
  MaxStatements = 2
SPECIFICATION ReplSpec
INVARIANTS HighestFound RunsOnlyTheLine SlotsAreLocals
CHECK_DEADLOCK FALSE
