SPECIFICATION Spec
CONSTANTS
  f1 = f1
  f2 = f2
  Funcs <- MCFuncs
  Externals <- MCExternals
  Names <- MCNames
  Vehicles = {"throw"}
  Sigs = {"none", "void()", "int()"}
  Args = {0, 1}
  Kinds = {"Alloc", "Lock", "Throw", "Unknown"}
  Programs <- MCPrograms
INVARIANTS TagsExact DirectExact DeferredOrUnknown EarlierCalleesKeep HandsOverWellFormed
CHECK_DEADLOCK FALSE
