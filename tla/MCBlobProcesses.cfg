SPECIFICATION Spec
CONSTANTS
  Thread = {t1, t2}
  Process = {p1, p2}
  ProcessOf <- Separate
  Blob = {b1, b2}
  Inode = {1, 2, 3, 4, 5, 6, 7, 8}
  None = None
  MaxCrashes = 2
  MaxFaults = 1
INVARIANTS
  BlobsReadBack
  PutIsIdempotent
