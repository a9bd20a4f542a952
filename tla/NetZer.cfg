SPECIFICATION Spec
CONSTANTS
  Traffic <- MCTraffic
  Options <- MCOptions
  INFO_CHARS = 9
  MaxFaults = 1
  MaxConnections = 2
  PACKET_LIMIT = 2
  itemsPerPage = 1
INVARIANTS TypeOK InStep PcapFaithful JsonDamageBounded  PageExists Accounted 
CHECK_DEADLOCK FALSE
