\* Refuted: what the document says is staged is in the container.
SPECIFICATION Spec
CONSTANTS
  None = None
  Packs <- TwoPacks
  Configs <- DryAndReal
  LiveProjects <- OneProject
  MaxVersions = 4
  MaxPriorVersions = 2
  Faults = {}
  MaxFaults = 0
  MaxChanges = 2
  MaxDestroys = 0
INVARIANTS StagedPackPresent
