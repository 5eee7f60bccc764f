\* Refuted: a version the adapter stopped waiting for is recorded.
SPECIFICATION Spec
CONSTANTS
  None = None
  Packs <- OnePack
  Configs <- TextOnly
  LiveProjects <- OneProject
  MaxVersions = 4
  MaxPriorVersions = 2
  Faults = {"timeout"}
  MaxFaults = 1
  MaxChanges = 1
  MaxDestroys = 0
INVARIANTS UnfinishedRecorded
