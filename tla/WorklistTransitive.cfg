SPECIFICATION Spec
CONSTANTS
  f1 = f1
  f2 = f2
  f3 = f3
  Funcs <- MCFuncs
  Names <- MCNames
  Kinds = {"Block", "Alloc", "Recurse"}
  Inputs <- AcyclicInputs
  MaxChain = 6
INVARIANT PropagatesTransitively
CHECK_DEADLOCK FALSE
