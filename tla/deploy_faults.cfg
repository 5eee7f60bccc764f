\* One agent, calls refused, lost and repeated, crashes, failed provisioning.
SPECIFICATION Spec
CONSTANTS
  None = None
  Packs <- MorePacks
  Configs <- VoiceOnly
  LiveProjects <- OneProject
  MaxVersions = 7
  MaxPriorVersions = 1
  Faults = {"refuse", "lose", "repeat", "crash", "environment", "timeout", "fail", "reap", "delete"}
  MaxFaults = 2
  MaxChanges = 2
  MaxDestroys = 1
INVARIANTS TypeOK EndpointActive RecordMatchesServed RecordUsable StagedPackPresent BillingBound
PROPERTY PromiseKept
