SPECIFICATION Spec
CONSTANTS
  f1 = f1
  f2 = f2
  f3 = f3
  f4 = f4
  Funcs <- MCFuncs
  Names = {"source"}
  Kinds = {"Alloc", "Block", "Lock", "Unknown"}
  MaxArg = 1
  Inputs <- MCInputs
  Chars <- MCChars
  Digits = {"0", "7"}
  Summaries <- MCSummaries
  KindCount = 2
  LastBlock = 3
  IntMax = 3
  Functions <- MCFunctions
  ExportKinds = {"Block", "Alloc", "Recurse", "Unknown"}
  Symbols = {"f", "g", "h", "malloc"}
  Scenarios <- MCScenarios
INVARIANTS TypeOK ScopeExact PolyExact RoundTrip AsIfLinked
PROPERTY ScopeEnds
CHECK_DEADLOCK FALSE
