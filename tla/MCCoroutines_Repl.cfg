SPECIFICATION Spec
CONSTANTS
  Main = Main
  c1 = c1
  c2 = c2
  fn = fn
  Script = Script
  ResetFn = ResetFn
  Nil = Nil
  NULL = NULL
  Coros <- OneCoro
  Functions <- OneFunction
  Arity <- UnaryArity
  MaxTemps = 2
  MaxStack = 7
  FramesInitial = 1
  FramesMax = 2
  Repl = TRUE
CHECK_DEADLOCK FALSE
INVARIANTS TypeOK CurrentFrameIsTop FramesFit
