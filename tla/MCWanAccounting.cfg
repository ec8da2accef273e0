SPECIFICATION Spec
CONSTANTS
  None = None
  Link <- MCLink
  OptionSets <- MCOptionSets
  Firewall <- MCFirewall
  Network <- MCNetwork
  Addressed <- MCAddressed
  Provider <- MCProvider
  InitLinks <- MCInitLinks
  MaxChanges = 1
  MaxFaults = 1
  MaxPackets = 1
INVARIANTS ServingAsAsked AttributedOnce UpstreamNotADevice
PROPERTIES TrackingSettles
CHECK_DEADLOCK FALSE
