CONSTANTS
  Names = {n1}
  Requests = {p1}
  MaxIndex = 2
  MaxEvents = 2
  NoName = NoName
  Leases = {Lease}
SPECIFICATION Spec
PROPERTIES OnlyUnseenRemoved
