CONSTANTS
  Confs = {"c1", "c2"}
  InvalidConfs = {}
  Specs <- ScaleSpecs
  Presets = {"absent"}
  Claims <- OneNode
  MaxScale = 1
  Disturbances = {"edit"}
  MaxDisturbances = 1
SPECIFICATION LiveSpec
INVARIANTS ScaledToZeroHasNoEndpoint
CHECK_DEADLOCK FALSE
