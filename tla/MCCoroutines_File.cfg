SPECIFICATION Spec
CONSTANTS
  Main = Main
  c1 = c1
  c2 = c2
  fn = fn
  Script = Script
  ResetFn = ResetFn
  Nil = Nil
  NULL = NULL
  Coros <- TwoCoros
  Functions <- OneFunction
  Arity <- UnaryArity
  MaxTemps = 2
  MaxStack = 8
  FramesInitial = 1
  FramesMax = 1
  Repl = FALSE
CHECK_DEADLOCK FALSE
SYMMETRY Symmetry
INVARIANTS ChainReachesMain RunningIsActive CalleeOnTop
PROPERTIES PausedUntouched ImplementsResumeStack
