SPECIFICATION Spec
CONSTANTS
  Nodes <- MCNodes
  Inputs <- AllGraphs
INVARIANTS ComponentsAreClasses CalleesFirst MeasuresExact
PROPERTY NothingTwice
