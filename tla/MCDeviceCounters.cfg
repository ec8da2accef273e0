SPECIFICATION FairSpec
CONSTANTS
  d1 = d1
  m1 = m1
  c1 = c1
  c2 = c2
  Devices = {d1}
  GroupMacs = {m1}
  Cpus = {c1}
  Steering <- OneCpu
  MaxEntries = 1
  IdleAge = 3
  PruneAge = 2
  MaxPackets = 2
INVARIANTS NeverOverbooked EveryByteOnce
PROPERTIES KnownDeviceNeverUnresolved IdleCountersDrain
