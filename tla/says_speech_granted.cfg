\* Refuted: a voice version in service has been granted model access.
SPECIFICATION Spec
CONSTANTS
  None = None
  Packs <- OnePack
  Configs <- TextThenVoice
  LiveProjects <- OneProject
  MaxVersions = 4
  MaxPriorVersions = 2
  Faults = {}
  MaxFaults = 0
  MaxChanges = 1
  MaxDestroys = 0
INVARIANTS SpeechGranted
