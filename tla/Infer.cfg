SPECIFICATION Spec
CONSTANTS
  f1 = f1
  f2 = f2
  f3 = f3
  Funcs <- MCFuncs
  Externals <- MCExternals
  Names <- MCNames
  Vehicles = {}
  Sigs = {"none", "void()", "int()"}
  Args = {0}
  Kinds = {"Alloc", "Throw", "Recurse", "Unknown"}
  Programs <- MCPrograms
  MaxChain = 5
INVARIANTS TypeOK SummariesExact DepthSurvivesLoss CycleVisible MarksExact
CHECK_DEADLOCK FALSE
