SPECIFICATION StartedSpec
CONSTANTS
  Node = {n1, n2, n3}
  RandomMeshId = {m1}
  MeshName = {x}
  Nickname = {a}
  MaxAdmissions = 3
  MaxGeneration = 1
  None = None
  NameOf <- OneName
  Secret = {s1}
  MaxDeparted = 1
  MaxAdds = 2
  MaxSyncs = 1
  MaxStops = 1
  MaxLosses = 1
  MaxFaults = 1

\* An idle node with its bounds used up may really stop.
CHECK_DEADLOCK FALSE
INVARIANTS
  ListedDevicesJoined
  TicketRedeemedOnce
