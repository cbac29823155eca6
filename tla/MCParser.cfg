CONSTANTS
  Sources <- AllTexts
  LineNumbers <- Lines
  MaxBytes = 24
SPECIFICATION Spec
INVARIANTS AcceptsGrammar LineFound
PROPERTIES CompileEnds LinesInOrder
CHECK_DEADLOCK FALSE
