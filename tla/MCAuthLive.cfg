SPECIFICATION ReadSpec
CONSTANTS
  Workers = {w1, w2}
  Accounts = {a1}
  Clients = {c1}
  NoKey = NoKey
  MaxRequests = 3
CHECK_DEADLOCK FALSE
INVARIANTS
  ShownOnceIndexed
PROPERTIES
  RevocationBecomesVisible
  LinkOutlivesRevocation
