\* One person and one NPC, three requests, and one crash, failed save or failed
\* snapshot write at any point, under the fairness of running threads; no symmetry,
\* which liveness checking does not allow.
SPECIFICATION FairSpec
CONSTANTS
  w1 = w1
  w2 = w2
  Workers <- MCWorkers
  Clients = {"ann"}
  Host = "ann"
  HiderCount = 2
  NpcSlots = {1}
  NpcAccount <- MCNpcAccount
  Keys = {1, 2, 3}
  PendingCap = 1
  MaxRequests = 3
  MaxFaults = 1
CHECK_DEADLOCK FALSE
INVARIANTS SnapshotsCommitted
PROPERTIES KeepsLedger RequestAnswered
