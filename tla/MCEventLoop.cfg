SPECIFICATION LoopFairSpec
CONSTANTS
  Tasks = {w1, w2}
  Clients = {c1}
  NoCaller = NoCaller
  MaxRenewals = 2
  MaxRestarts = 1
INVARIANTS LoopTypeOK PostsAsAccepted NoFileOlderThanTask
PROPERTIES SendingEnds EveryoneHeard
