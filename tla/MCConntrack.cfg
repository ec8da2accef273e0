SPECIFICATION FairConntrackSpec
CONSTANTS
  k1 = k1
  k2 = k2
  i1 = i1
  i2 = i2
  NoId = NoId
  Keys = {k1, k2}
  Ids = {i1, i2}
  MaxTracked = 1
  MaxQueue = 2
  MaxChanges = 3
  d1 = d1
  d2 = d2
  a1 = a1
  NoAddress = NoAddress
  Devices = {d1, d2}
  Addresses = {a1}
  Source <- MCSource
  MaxMoves = 2
INVARIANTS IndexComplete
PROPERTIES ViewConverges
