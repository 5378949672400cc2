SPECIFICATION Spec
CONSTANT
  Sources <- MCSources
INVARIANTS TypeOK MarksArrive
CHECK_DEADLOCK FALSE
