CONSTANTS
  Confs = {"c1"}
  InvalidConfs = {}
  Specs <- RaceSpecs
  Presets = {"c1"}
  Claims <- OneNode
  MaxScale = 1
  Disturbances = {"edit", "fault", "restart"}
  MaxDisturbances = 2
SPECIFICATION Spec
INVARIANTS TypeOK ObservedMeansApplied RestIsTruthful
PROPERTIES NoRollback
CHECK_DEADLOCK FALSE
