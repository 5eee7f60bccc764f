\* Liveness: a bounded number of changes and disturbances, a platform that
\* settles every version, an operator who keeps applying.
SPECIFICATION DiligentSpec
CONSTANTS
  None = None
  Packs <- TwoPacks
  Configs <- TextOnly
  LiveProjects <- OneProject
  MaxVersions = 5
  MaxPriorVersions = 2
  Faults = {"refuse", "lose", "repeat", "crash", "timeout", "fail", "reap", "unblob"}
  MaxFaults = 3
  MaxChanges = 1
  MaxDestroys = 0
PROPERTY Convergence
