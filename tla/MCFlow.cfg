SPECIFICATION Spec
CONSTANTS
  Flows = {f1, f2}
  RedirectUris = {u1, u2}
  NoUri = NoUri
  RequestTTL = 1
  CallbackTTL = 3
  MaxTime = 6
SYMMETRY Symmetry
CHECK_DEADLOCK FALSE
INVARIANTS TypeOK LoginTimeLeft ArrivesWhereAsked AnsweredEntriesExpire
PROPERTIES LostOnlyWhenLate
