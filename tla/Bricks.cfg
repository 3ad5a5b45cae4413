CONSTANTS
  Slots = {0, 1}
  Word = 2
  NoEntry = NoEntry
  SwitchMax <- MCSwitchMax
  SwitchMacs <- MCSwitchMacs
  SwitchOutput = "EAST"
  MaxTrouble = 1
  Multicast = Multicast
  Filtered = Filtered
  VtepMax = 2
  VtepVnis <- MCVtepVnis
  VtepMacs <- MCVtepMacs
  Broadcast <- MCBroadcast
  VtepInner <- MCVtepInner
  VtepOuter <- MCVtepOuter
  Group = Group
  VtepFlags <- MCVtepFlags
  VtepLife = 0
  MaxFaults = 1
  HubMax <- MCHubMax
  AntispoofIps = {"a", "b"}
  PG_ARP_MAX = 2
  FirewallRules <- MCFirewallRules
  FirewallFlows = {"f1", "f2"}
  FirewallMax = 2
  FirewallFaults = 1
  UdpFilters <- MCUdpFilters
  UdpPorts = {1, 256}
  GraphBricks = {1, 2, 3}
  GraphPollable = {2}
  QueueNames = {1, 9}
  GraphIds = {1, 2}
  MaxQueues = 2
  MaxGraphSteps = 3
  AccPollMins = {0, 1, 65538}
  AccPackets = 5
  TapFrames = 4
  BufferFaults = 2
  MaxVms = 3
  VhostFaults = 1
SPECIFICATION Spec
INVARIANTS
  SwitchExact
  VtepExact
  
  FilterExact
  
  
  VhostExclusive
PROPERTIES
  SwitchLearns
  VtepLearns
  AccumulatorLeaves
  VhostLeaves
CHECK_DEADLOCK FALSE
