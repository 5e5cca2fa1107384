SPECIFICATION Spec
CONSTANTS
  Workers = {w1, w2}
  Accounts = {a1}
  Clients = {c1, c2}
  NoKey = NoKey
  MaxRequests = 4
SYMMETRY Symmetry
CHECK_DEADLOCK FALSE
INVARIANTS
  TypeOK
  RowOfHeldToken
  ConfirmedIsRevoked
  NotifiedIsRevoked
  InHand
  GrantGoesForward
  OnlyNewerTokenWorks
  RevokingNewestEndsGrant
PROPERTIES
  ImplementsLedger
