\* Dry runs between real operations, a request that wanders to another project,
\* agent name or model endpoint, the document kept across all of it, while
\* someone else deletes an agent or moves its endpoint and the platform may never
\* settle a version.
SPECIFICATION FairSpec
CONSTANTS
  None = None
  Packs <- TwoNames
  Configs <- Wandering
  LiveProjects <- OneProject
  MaxVersions = 2
  MaxPriorVersions = 2
  Faults = {"refuse", "lose", "slow", "reap", "delete", "repoint"}
  MaxFaults = 1
  MaxChanges = 2
  MaxDestroys = 1
PROPERTIES QuietPlanTrue DryRunKeepsRecord Termination
CHECK_DEADLOCK FALSE
