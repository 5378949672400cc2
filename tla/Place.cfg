SPECIFICATION Spec
CONSTANTS
  f = f
  g = g
  Funcs <- MCFuncs
  Names = {"source", "<recursive-scc>"}
  Modules <- MCModules
INVARIANTS TypeOK SafeExactly Explained UnsafeIsGuarded HooksFollowStatus
CHECK_DEADLOCK FALSE
