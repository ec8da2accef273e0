SPECIFICATION Spec
CONSTANTS
  Capacities = {2, 3}
  MaxRecords = 6
  MaxFaults = 1
INVARIANTS HeaderAccepted Chronological
PROPERTIES KeepsNewest PowerLossIsLocal
