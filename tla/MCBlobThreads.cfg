SPECIFICATION Spec
CONSTANTS
  Thread = {t1, t2}
  Process = {p1}
  ProcessOf <- Together
  Blob = {b1}
  Inode = {1, 2, 3, 4}
  None = None
  MaxCrashes = 0
  MaxFaults = 0
INVARIANTS
  PutIsIdempotent
