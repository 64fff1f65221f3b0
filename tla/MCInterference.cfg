CONSTANTS
  Confs = {"c1", "c2"}
  InvalidConfs = {}
  Specs <- ScaleSpecs
  Presets = {"absent"}
  Claims <- OneNode
  MaxScale = 1
  Disturbances = {"edit", "pods", "remove", "delete", "restart"}
  MaxDisturbances = 1
SPECIFICATION LiveSpec
PROPERTIES DeletedLeavesNothing EventuallyReported
CHECK_DEADLOCK FALSE
