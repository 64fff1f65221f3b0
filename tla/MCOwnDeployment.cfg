CONSTANTS
  MaxReplicas = 2
  MaxWrites = 0
  InitialManagers <- Alone
SPECIFICATION LiveSpec
PROPERTIES ReducesOwnDeployment
CHECK_DEADLOCK FALSE
