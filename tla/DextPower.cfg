SPECIFICATION Spec
CONSTANTS
  MaxOffs = 2
  MaxResets = 2
  MaxFaults = 1
INVARIANTS
  TypeOK
  BringUpsInTurn
PROPERTIES
  ComesToRest
CHECK_DEADLOCK FALSE
