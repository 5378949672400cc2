SPECIFICATION Spec
CONSTANTS
  t1 = t1
  t2 = t2
  r1 = r1
  Self = t1
  Threads = {t1, t2}
  Resetters = {r1}
  Modulus = 3
  MaxNesting = 2
  Scenes <- MCScenes
INVARIANT OnTheEdges
CHECK_DEADLOCK FALSE
