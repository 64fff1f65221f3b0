CONSTANTS
  Confs = {"c1", "c2"}
  InvalidConfs = {}
  Specs <- RolloutSpecs
  Presets = {"absent"}
  Claims <- OneNode
  MaxScale = 1
  Disturbances = {"edit"}
  MaxDisturbances = 1
SPECIFICATION LiveSpec
PROPERTIES ReadyFromObservedDeployment
CHECK_DEADLOCK FALSE
