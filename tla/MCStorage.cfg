CONSTANTS
  Confs = {"c1"}
  InvalidConfs = {}
  Specs <- SharedSpecs
  Presets = {"absent", "c1"}
  Claims <- ManyNodes
  MaxScale = 1
  Disturbances = {"edit", "scale", "preset", "lost"}
  MaxDisturbances = 1
SPECIFICATION Spec
INVARIANTS NoUnsafeFanout
CHECK_DEADLOCK FALSE
