SPECIFICATION FairSpec
CONSTANTS
  Thread = {t1, t2, t3}
  MaxOpens = 2
  None = None
\* Without a thread in a call and with no node left to open, nothing happens.
CHECK_DEADLOCK FALSE
INVARIANTS
  TypeOK
  ClosedIsFinal
  ClosedIsOffline
PROPERTIES
  DirectoryReleased
