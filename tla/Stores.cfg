\* Two matches, a cache of one, three saves and one crash or write error; two runs
\* of the tool on one version and one on another, two of them activating, one of
\* them killed or cut short.  The model stops when saves and tools are used up.
SPECIFICATION DeploymentSpec
CONSTANTS
  Names = {m1, m2}
  CacheCap = 1
  MaxSaves = 3
  MaxFaults = 1
  Tools = {"t1", "t2", "t3"}
  VersionOf <- MCVersionOf
  Activates = {"t1", "t3"}
  MaxUpsets = 1
SYMMETRY MCSymmetry
CHECK_DEADLOCK FALSE
INVARIANTS MatchesAreKept ModelIsTrusted
