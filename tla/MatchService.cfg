\* Two threads serve four requests of two people and the moves of one NPC:
\* join, start, move and cancel, each perhaps repeated or under a reused key.
\* The threads are alike.  The model stops when all requests are answered.
SPECIFICATION Spec
CONSTANTS
  w1 = w1
  w2 = w2
  Workers <- MCWorkers
  Clients = {"ann", "bob"}
  Host = "ann"
  HiderCount = 2
  NpcSlots = {1}
  NpcAccount <- MCNpcAccount
  Keys = {1, 2, 3, 4}
  PendingCap = 1
  MaxRequests = 4
  MaxFaults = 0
SYMMETRY Threads
CHECK_DEADLOCK FALSE
INVARIANTS RecordAgrees
PROPERTIES KeepsLedger
