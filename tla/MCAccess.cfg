SPECIFICATION Spec
CONSTANTS
  Requests = {r1}
  Clients = {c1, c2, d}
  Providers = {c1, c2}
  NoClient = NoClient
  Lifetime = 1
  Skews <- MCSkews
  MaxTokens = 1
  MaxGen = 2
  MaxKey = 2
  MaxTime = 3
CHECK_DEADLOCK FALSE
SYMMETRY Symmetry
INVARIANTS TypeOK RetiredKeyIsRefused RevokedServedBriefly
PROPERTIES RefusedForCause
