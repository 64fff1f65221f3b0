CONSTANTS
  Confs = {"c1", "c2", "unsafe"}
  InitialConfs = {"c1"}
  Refused = {"unsafe"}
  Unsafe = {"unsafe"}
  MaxLag = 2
  Disturbances = {"edit", "delete", "create", "scale", "fault", "handover"}
  MaxDisturbances = 2
SPECIFICATION Spec
INVARIANTS TypeOK RestIsServed
PROPERTIES SurvivorServed NothingOutlivesBoth
CHECK_DEADLOCK FALSE
