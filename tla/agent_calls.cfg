\* Calls on one agent, each request sent up to three times.
SPECIFICATION Spec
CONSTANTS
  None = None
  Subscriptions <- FirstPage
  Readable <- Open
  Accounts <- Found
  MaxVersions = 3
  MaxAgents = 2
  MaxTries = 3
  MaxTrouble = 3
  MaxDeeds = 2
  MaxCalls = 5
INVARIANTS TypeOK AnswersTrue GrantTold
CHECK_DEADLOCK FALSE
