SPECIFICATION Spec
CONSTANTS
  Notes = {"n1"}
  StartSessions <- MCStart
  EntityBatches <- MCEntityBatches
  UpdateBatches <- MCUpdateBatches
INVARIANTS
  LoopsAgree
CHECK_DEADLOCK FALSE
