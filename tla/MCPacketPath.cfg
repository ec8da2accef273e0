SPECIFICATION FairSpec
CONSTANTS
  Ifaces <- OneIface
  Configurations <- MCConfigurations
  MANAGEMENT_PORTS <- MCPorts
  Packets <- MCPackets
  Cpus = {c1}
  MaxIps = 2
  IFACE_MAX_ENTRIES = 1
  RingSize = 1
  MaxPackets = 2
  MaxChanges = 2
  MaxFailures = 1
INVARIANTS ManagementStaysFiltered OnlyControlPlaneIgnored EveryPacketBooked
PROPERTIES FilterConverges
