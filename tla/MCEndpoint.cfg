CONSTANTS
  NodeCount = 2
  AddressLists <- Lists
  InitialList <- Registered
  Conditions = {"True", "False"}
  PodCount = 2
  Placements <- Spread
  Ingresses <- Balancers
  Ports = {30001, 30002}
  Specs <- ServiceSwitch
  MaxChanges = 2
SPECIFICATION Spec
INVARIANTS TypeOK RestIsReachable
PROPERTIES EventuallyReachable EndpointSettles
CHECK_DEADLOCK FALSE
