\* One user of a session: two invitations, a call of each kind and a fault.
SPECIFICATION FairSpec
CONSTANTS
  Runner = r
  Foreign = Foreign
  Malformed = Malformed
  None = None
  User = {u1}
  MaxTickets = 2
  MaxCalls = 1
  MaxFaults = 1
\* A session that has closed rests when the user's calls are used up.
CHECK_DEADLOCK FALSE
INVARIANTS
  TypeOK
  NodeInUseIsOpen
  ShownIsLatest
  ClosedShowsNothing
  BusyIsAccurate
PROPERTIES
  InvitationWithdrawn
  InitialTicketOffered
  MembershipShown
  SessionEnds
