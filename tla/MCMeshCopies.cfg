\* Devices that admit each other, leave and come back once, on two copies.
SPECIFICATION ScopedSpec
CONSTANTS
  Node = {n1, n2, n3}
  RandomMeshId = {m1}
  MeshName = {x}
  Nickname = {a, b}
  PlainName = a
  MaxAdmissions = 4
  MaxGeneration = 1
  None = None
  Copy = {c1, c2}
SYMMETRY Symmetry
INVARIANTS
  TypeOK
  AllVerify
  MergeBlockedOnlyByLimits
  MergeConverges
PROPERTIES
  ImplementsStanding
  DepartedStaysOut
  ConflictsAreFinal
