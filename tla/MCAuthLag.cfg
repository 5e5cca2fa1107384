SPECIFICATION Spec
CONSTANTS
  Workers = {w1}
  Accounts = {a1}
  Clients = {c1}
  NoKey = NoKey
  MaxRequests = 3
CHECK_DEADLOCK FALSE
INVARIANT
  LiveTokenCanBeRevoked
