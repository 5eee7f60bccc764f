\* Refuted: an agent deleted out of band is created again.
SPECIFICATION Spec
CONSTANTS
  None = None
  Packs <- OnePack
  Configs <- TextOnly
  LiveProjects <- OneProject
  MaxVersions = 4
  MaxPriorVersions = 2
  Faults = {"delete"}
  MaxFaults = 1
  MaxChanges = 1
  MaxDestroys = 0
INVARIANTS DriftRepaired
