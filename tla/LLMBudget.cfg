SPECIFICATION Spec
CONSTANTS
  Turns = {t1, t2}
  Caution = 2
  Critical = 3
  Limit = 4
  MaxCost = 2
  Stored = {0, 3, 4}
SYMMETRY Symmetry
INVARIANTS
  TypeOK
  NeverOverstates
  TurnStopsAtLimit
PROPERTIES
  ImplementsLedger
CHECK_DEADLOCK FALSE
