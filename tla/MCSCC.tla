-------------------------------- MODULE MCSCC --------------------------------
(***************************************************************************)
(* All call graphs over four functions of which three have a body (the     *)
(* fourth is a declaration that a resolved indirect call reaches), and all *)
(* over four functions with bodies that do not call themselves.  The       *)
(* functions are numbered by their addresses; every graph is there, so one *)
(* order is enough.                                                        *)
(***************************************************************************)
EXTENDS RTSCC

MCNodes == 1 .. 4

InOrder(S) ==
  LET upto[n \in 0 .. 4] ==
        IF n = 0 THEN <<>> ELSE IF n \in S THEN Append(upto[n-1], n) ELSE upto[n-1]
  IN  upto[4]

Graph(keys, edges) ==
  [keys |-> InOrder(keys),
   callees |-> <<InOrder(edges[1]), InOrder(edges[2]), InOrder(edges[3]), InOrder(edges[4])>>]

DeclaredTarget == {Graph(1 .. 3, [n \in MCNodes |-> IF n = 4 THEN {} ELSE e[n]]) :
                      e \in [1 .. 3 -> SUBSET MCNodes]}

FourBodies == {Graph(MCNodes, [n \in MCNodes |-> e[n] \ {n}]) :
                  e \in {x \in [MCNodes -> SUBSET MCNodes] : \A n \in MCNodes : n \notin x[n]}}

AllGraphs == DeclaredTarget \cup FourBodies
=============================================================================
