SPECIFICATION Spec
CONSTANTS
  Notes = {"n1"}
  SessionIds = {s1}
  Turns <- MCTurns
  HostFields = {"brd_artifact_id", "hld_artifact_id", "client_signature_confirmed"}
  HostContexts = {}
  HostWaivers = {}
  MaxTurns = 2
  MaxRevisits = 2
INVARIANTS
  TypeOK
  AdvanceNeedsArtifacts
  SignedOffHasArtifacts
  AuditTrail
PROPERTIES
  NothingForgotten
  ImplementsJourney
