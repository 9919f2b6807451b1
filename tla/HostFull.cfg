SPECIFICATION Spec
CONSTANTS
  Client = {c1, c2}
  Type = {a1}
  Request = {r1, r2}
  Event = {e1}
  NoClient = NoClient
  NoRequest = NoRequest
SYMMETRY Symmetry
INVARIANTS ReachesItsParty AnswerIsAwaited
PROPERTIES TypesAreKept
CHECK_DEADLOCK FALSE
