SPECIFICATION Spec
CONSTANTS
  a1 = a1
  d1 = d1
  d2 = d2
  lan = lan
  guest = guest
  iot = iot
  NoDevice = NoDevice
  Addresses = {a1}
  Devices = {d1, d2}
  Ifaces = {lan, guest, iot}
  Monitored = {lan, guest}
  WanListed = TRUE
  IfaceOf <- MCIfaceOf
  Places <- MCPlaces
  Idle = 2
  Fallback = 5
  PollInterval = 4
  FastPoll = 2
  MaxTime = 6
INVARIANTS EveryEcmByteOnce InterfaceIsSumOfParts OwnerIsSoleClaimant NewAddressPolled RateWithinLine
