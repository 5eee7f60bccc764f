\* Right and wrong requests in sound and unsound sandboxes.
SPECIFICATION Spec
CONSTANTS
  None = None
  Deployments <- DeploymentChoices
  Alien <- Aliens
  Sandboxes <- Boxes
  NameOrder <- Names
  MaxAgentNameLength = 5
INVARIANTS TypeOK AcceptedServes ModelAsConfigured RemembersAsConfigured RoutesWork ToolsArrive NameLegal NameKeepsId
CHECK_DEADLOCK FALSE
