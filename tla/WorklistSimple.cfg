SPECIFICATION Spec
CONSTANTS
  f1 = f1
  f2 = f2
  f3 = f3
  Funcs <- MCFuncs
  Names <- MCNames
  Kinds = {"Block", "Alloc", "Recurse"}
  Inputs <- CyclicInputs
  MaxChain = 6
INVARIANT ChainsAreSimple
CHECK_DEADLOCK FALSE
