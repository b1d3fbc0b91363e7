\* Interval, Window and RequestTimeout keep the order of 5 s, 60 s and 10 s.
SPECIFICATION ScopedSpec
CONSTANTS
  Node = {n1, n2}
  None = None
  Interval = 2
  Window = 5
  RequestTimeout = 2
  Discovery = {TRUE, FALSE}
  MaxSlow = 1
  MaxPanics = 1
  MaxRestarts = 1
  MaxDepartures = 1
  MaxFaults = 3
SYMMETRY Symmetry
INVARIANTS
  TypeOK
  ConnectedWhileReachable
  GoneIsNoticed
  AddressRecovers
