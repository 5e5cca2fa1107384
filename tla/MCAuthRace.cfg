SPECIFICATION Spec
CONSTANTS
  Workers = {w1, w2}
  Accounts = {a1}
  Clients = {c1}
  NoKey = NoKey
  MaxRequests = 4
CHECK_DEADLOCK FALSE
PROPERTIES
  RevokedGrantStaysRevoked
