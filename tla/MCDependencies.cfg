CONSTANTS
  Confs = {"c1", "bad"}
  InvalidConfs = {"bad"}
  Specs <- PresetSpecs
  Presets = {"c1", "bad", "absent"}
  Claims <- OneNode
  MaxScale = 1
  Disturbances = {"preset", "claim"}
  MaxDisturbances = 2
SPECIFICATION LiveSpec
INVARIANTS ReadyIsBacked RestIsTruthful
PROPERTIES EventuallyApplied EventuallyRefused
CHECK_DEADLOCK FALSE
