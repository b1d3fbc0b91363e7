SPECIFICATION Spec
CONSTANTS
  Node = {n1, n2}
  RandomMeshId = {m1}
  MeshName = {x}
  Nickname = {a}
  MaxAdmissions = 3
  MaxGeneration = 1
  None = None
  NameOf <- OneName
  Secret = {s1, s2}
  MaxDeparted = 2
  MaxAdds = 1
  MaxSyncs = 1
  MaxStops = 1
  MaxLosses = 1
  MaxFaults = 0
SYMMETRY Symmetry
\* An idle node with its bounds used up may really stop.
CHECK_DEADLOCK FALSE
PROPERTIES
  ReenrollmentRefused
