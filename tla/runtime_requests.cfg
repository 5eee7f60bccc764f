\* Two requests, unary or streaming, on a conversation or on none, around a
\* shutdown.
SPECIFICATION FairSpec
CONSTANTS
  None = None
  Requests = {1, 2}
  Calls <- AllCalls
  Asks <- TwoCallers
  SessionID = None
  HasStore = TRUE
  MaxPieces = 2
INVARIANTS TypeOK StreamFaithful OutcomeTold CleanExit TracesKept
PROPERTIES TurnKept HistoryKept AbandonedTurnEnds TurnAnswered ServerExits
CHECK_DEADLOCK FALSE
