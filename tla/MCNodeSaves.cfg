SPECIFICATION Spec
CONSTANTS
  Node = {n1, n2}
  RandomMeshId = {m1, m2}
  MeshName = {x}
  Nickname = {a}
  MaxAdmissions = 3
  MaxGeneration = 0
  None = None
  NameOf <- OneName
  Secret = {s1, s2}
  MaxDeparted = 1
  MaxAdds = 1
  MaxSyncs = 1
  MaxStops = 3
  MaxLosses = 0
  MaxFaults = 1
SYMMETRY Symmetry
\* An idle node with its bounds used up may really stop.
CHECK_DEADLOCK FALSE
INVARIANTS
  SavedStateReopens
  ShownIsDurable
  TypeOK
PROPERTIES
  JoinsByInvitation
