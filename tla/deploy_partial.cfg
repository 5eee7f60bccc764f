\* Steps fail one after the other, but every call is answered: what is left
\* behind is always recorded.
SPECIFICATION Spec
CONSTANTS
  None = None
  Packs <- TwoPacks
  Configs <- WithRejected
  LiveProjects <- OneProject
  MaxVersions = 8
  MaxPriorVersions = 2
  Faults = {"refuse", "environment", "timeout", "fail", "reap"}
  MaxFaults = 2
  MaxChanges = 3
  MaxDestroys = 1
INVARIANTS RecordHonest PlanHonoured
