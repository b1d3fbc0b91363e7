SPECIFICATION AlgorithmsSpec
CONSTANTS
  Node = {n1, n2, n3, n4}
  RandomMeshId = {}
  MeshName = {x}
  Nickname = {a}
  MaxAdmissions = 4
  MaxGeneration = 0
  None = None
  Founder = n1
  MaxRecords = 4
  Hash <- TwoHashes
  NameText <- Names
  Attribute <- Attributes
  HashLength = 2
  LengthBase = 5
\* The loop stops when it has a verdict, the caller when it has its document.
CHECK_DEADLOCK FALSE
INVARIANTS
  VerdictIsTraceable
  HashIdentifiesDocument
