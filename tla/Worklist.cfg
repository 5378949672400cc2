SPECIFICATION FairSpec
CONSTANTS
  f1 = f1
  f2 = f2
  f3 = f3
  Funcs <- MCFuncs
  Names <- MCNames
  Kinds = {"Block", "Alloc", "Recurse"}
  Inputs <- MCInputs
  MaxChain = 6
INVARIANTS TypeOK ChainsGenuine NotifiedCallersServed Settled TagsGenuine TagsComplete ExactAtTheEnd
PROPERTIES NeverRetracted PromiseKept Terminates
CHECK_DEADLOCK FALSE
