SPECIFICATION FlowSpec
CONSTANTS
  Notes = {"n1"}
  SessionIds = {s1}
  Turns = {}
  HostFields = {}
  HostContexts = {}
  HostWaivers = {}
  MaxTurns = 1
  MaxRevisits = 1
  Requests = {r1}
  MessageSet <- FiveWishes
INVARIANTS
  CountIsPrecise
