SPECIFICATION Spec
CONSTANTS
  d1 = d1
  m1 = m1
  c1 = c1
  c2 = c2
  Devices = {d1}
  GroupMacs = {}
  Cpus = {c1, c2}
  Steering <- TwoCpus
  MaxEntries = 1
  IdleAge = 1
  PruneAge = 1
  MaxPackets = 3
INVARIANT NeverOverbooked
