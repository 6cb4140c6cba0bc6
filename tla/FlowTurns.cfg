SPECIFICATION FlowSpec
CONSTANTS
  Notes = {"n1"}
  SessionIds = {s1}
  Turns = {}
  HostFields = {}
  HostContexts = {}
  HostWaivers = {}
  MaxTurns = 2
  MaxRevisits = 1
  Requests = {r1, r2}
  MessageSet <- MCMessages
SYMMETRY Symmetry
INVARIANTS
  EveryAppliedTurnOnce
  MetIsEvidenced
  AnswersAreHonest
  OnlyConstraintsComplete
PROPERTIES
  CompleteStaysComplete
