SPECIFICATION Spec
CONSTANTS
  Process = {p1, p2, p3}
  Port = {x1, x2}
  None = None
  MaxRuns = 5
  MaxCrashes = 2
  MaxFaults = 1
SYMMETRY Symmetry
\* Processes end, and programs are no longer started when the bound is reached.
CHECK_DEADLOCK FALSE
INVARIANTS
  TypeOK
  IdentityMatches
  ReportedMeshIsKept
  ServiceOwnsState
  ServiceIsReachable
