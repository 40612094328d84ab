SPECIFICATION Spec
CONSTANTS
  Callers = {t1, t2, t3}
  Names = {channel, connection}
  Nil = nil
SYMMETRY LoggerSymmetry
INVARIANT OneLogger
INVARIANT FailsOnce
