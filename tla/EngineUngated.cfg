SPECIFICATION Spec
CONSTANTS
  Notes = {"n1"}
  SessionIds = {s1}
  Turns <- MCTurns
  HostFields = {"documents_indexed", "problem_statement"}
  HostContexts = {"Named"}
  HostWaivers <- MCWaivers
  MaxTurns = 3
  MaxRevisits = 1
INVARIANTS
  NoAdvanceWithoutHost
PROPERTIES
  ReadinessIsSticky
