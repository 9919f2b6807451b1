SPECIFICATION SteadySpec
CONSTANTS
  Client = {c1, c2}
  Type = {a1}
  Request = {r1, r2}
  Event = {e1}
  NoClient = NoClient
  NoRequest = NoRequest
PROPERTIES RequestEnds 
CHECK_DEADLOCK FALSE
