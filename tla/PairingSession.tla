---------------------------- MODULE PairingSession ----------------------------
(* The pairing session of an app (kmp/mesh, PairingSession.kt): the coroutine *)
(* of run(), which opens the node, polls it and closes it, the coroutine that *)
(* ages what is shown, and the coroutines of the user interface that call     *)
(* refreshTicket() and pair().  They may run on several threads and, run()'s  *)
(* and the user's, be cancelled at any time.                                  *)
(*                                                                            *)
(* A step ends where a coroutine can suspend or take or leave a lock.  No     *)
(* coroutine suspends while it holds `tracking', and the updates made outside *)
(* it are of other fields: a section under `tracking' is one step, and the    *)
(* lock has no variable.  The node behind the MeshNode interface is external. *)
(*                                                                            *)
(* Simplifications: tickets are numbered as they are issued, and a ticket's   *)
(* expiry time is known by its number; names, peers, errors, notices and the  *)
(* loading flag, which nothing here depends on, are left out.                 *)
EXTENDS Naturals

CONSTANTS
  Runner,       \* the coroutine of run()
  User,         \* coroutines of the user interface
  Foreign,      \* a ticket of another device
  Malformed,    \* a text that is no ticket
  None,
  MaxTickets,   \* bound: tickets issued
  MaxCalls,     \* bound: actions started by the user
  MaxFaults     \* bound: calls of the node that fail

ASSUME PairingSessionAssumption ==
  /\ Runner \notin User
  /\ None \notin User \cup {Runner, Foreign, Malformed} \cup Nat
  /\ {Foreign, Malformed} \cap Nat = {}
  /\ {MaxTickets, MaxCalls, MaxFaults} \subseteq Nat

VARIABLES
  node,         \* whether the session has a node
  native,       \* the node itself
  ui,           \* the published state
  expiresAt,    \* the ticket whose expiry time is tracked
  offered,      \* offeredInitialTicket
  operations,   \* the coroutine that holds this lock
  actions,      \* the coroutine that holds this lock
  co,           \* what each coroutine is doing
  cancelled,    \* coroutines whose job was cancelled
  passed,       \* tickets whose tracked expiry time has passed
  lost,         \* history: tickets that were issued by a call that failed
  spent         \* how much of each bound is used up

locks == <<operations, actions>>
shown == <<ui, expiresAt, offered>>
clock == <<cancelled, passed>>
vars == <<node, native, shown, locks, co, clock, lost, spent>>

Coroutine == User \cup {Runner}
Ticket == 1 .. MaxTickets
Value == {Foreign, Malformed} \cup Ticket   \* what a user may paste

RunStep == {"open", "poll", "status", "accept", "delay", "close", "clear", "ended"}
ActionStep == {"begin", "busy", "check", "wait", "pair", "show", "mesh", "create",
               "record", "add", "added", "failed", "finish", "unlock"}
NativeStep == {"status", "pair", "mesh", "create", "add"}

Idle == [step |-> "idle", call |-> "none", value |-> None,
         enrolled |-> FALSE]

Init ==
  /\ node = FALSE
  /\ \E enrolled \in BOOLEAN :
       native = [open |-> FALSE, enrolled |-> enrolled, issued |-> 0, pending |-> None]
  /\ ui = [invitation |-> None, meshed |-> FALSE, busy |-> FALSE]
  /\ expiresAt = None /\ offered = FALSE
  /\ operations = None /\ actions = None
  /\ co = [c \in Coroutine |-> IF c = Runner THEN [Idle EXCEPT !.step = "open"] ELSE Idle]
  /\ cancelled = {} /\ passed = {} /\ lost = {}
  /\ spent = [calls |-> 0, faults |-> 0]

At(c, step) == co[c].step = step
Goto(c, step) == co' = [co EXCEPT ![c].step = step]
Live(c) == c \notin cancelled
Fault == spent.faults < MaxFaults /\ spent' = [spent EXCEPT !.faults = @ + 1]

-----------------------------------------------------------------------------
(* Locks and endings shared by all operations *)

\* Faulty variant: run() ends with the first action it took.
ReturnEndingRun(c) ==
  /\ co' = [co EXCEPT ![c] = Idle]
  /\ cancelled' = cancelled \ {c}

\* Back in run(), or at the end of the user's coroutine.
Return(c) ==
  /\ co' = [co EXCEPT ![c] = IF c = Runner THEN [Idle EXCEPT !.step = "delay"] ELSE Idle]
  /\ cancelled' = IF c = Runner THEN cancelled ELSE cancelled \ {c}

\* Faulty variant: the lock is released before the flag is cleared.
FinishUnlockingFirst(c) ==
  \/ /\ At(c, "finish")
     /\ actions' = None
     /\ Goto(c, "unlock")
     /\ UNCHANGED <<node, native, shown, operations, clock, lost, spent>>
  \/ /\ At(c, "unlock")
     /\ ui' = [ui EXCEPT !.busy = FALSE]
     /\ Return(c)
     /\ UNCHANGED <<node, native, expiresAt, offered, locks, passed, lost, spent>>

\* finishAction; then run() goes on, or the user's coroutine ends.
FinishAction(c) ==
  \/ /\ At(c, "finish")
     /\ ui' = [ui EXCEPT !.busy = FALSE]
     /\ Goto(c, "unlock")
     /\ UNCHANGED <<node, native, expiresAt, offered, locks, clock, lost, spent>>
  \/ /\ At(c, "unlock")
     /\ actions' = None
     /\ Return(c)
     /\ UNCHANGED <<node, native, shown, operations, passed, lost, spent>>

\* Faulty variant: `operations' is not released when the node fails.
FailKeepingLock(c) == Goto(c, "failed") /\ UNCHANGED operations

\* An exception leaves the block under `operations'; the action reports it.
Fail(c) == operations' = None /\ Goto(c, "failed")

\* Faulty variant: finishAction is not called after an exception.
ReportFailureOnly(c) ==
  /\ At(c, "failed") /\ Return(c)
  /\ UNCHANGED <<node, native, shown, locks, passed, lost, spent>>

ReportFailure(c) ==
  /\ At(c, "failed") /\ Goto(c, "finish")
  /\ UNCHANGED <<node, native, shown, locks, clock, lost, spent>>

-----------------------------------------------------------------------------
(* refreshTicket and pair: the beginning they share *)

Call(c, call, value) ==
  /\ c \in User /\ At(c, "idle")
  /\ spent.calls < MaxCalls
  /\ spent' = [spent EXCEPT !.calls = @ + 1]
  /\ co' = [co EXCEPT ![c] = [Idle EXCEPT !.step = "begin", !.call = call,
                                              !.value = value]]
  /\ UNCHANGED <<node, native, shown, locks, clock, lost>>

\* beginAction: an action that finds another one under way does nothing.
TryLock(c) ==
  /\ At(c, "begin")
  /\ IF Live(c) /\ actions = None
     THEN actions' = c /\ Goto(c, "busy") /\ UNCHANGED cancelled
     ELSE Return(c) /\ UNCHANGED actions
  /\ UNCHANGED <<node, native, shown, operations, passed, lost, spent>>

SetBusy(c) ==
  /\ At(c, "busy")
  /\ ui' = [ui EXCEPT !.busy = TRUE]
  /\ Goto(c, IF co[c].call = "pair" THEN "check" ELSE "wait")
  /\ UNCHANGED <<node, native, expiresAt, offered, locks, clock, lost, spent>>

\* pair refuses a value that is no ticket, or is the ticket on display.
CheckValue(c) ==
  /\ At(c, "check")
  /\ Goto(c, IF co[c].value \in {Malformed, ui.invitation} THEN "finish" ELSE "wait")
  /\ UNCHANGED <<node, native, shown, locks, clock, lost, spent>>

\* withActiveNode: what follows is not cancellable.
Acquire(c) ==
  /\ At(c, "wait") /\ Live(c)
  /\ operations = None
  /\ IF node
     THEN /\ operations' = c
          /\ Goto(c, IF co[c].call = "pair" THEN "mesh" ELSE "pair")
     ELSE Goto(c, "failed") /\ UNCHANGED operations
  /\ UNCHANGED <<node, native, shown, actions, clock, lost, spent>>

GiveUpWaiting(c) ==
  /\ At(c, "wait") /\ ~Live(c)
  /\ Goto(c, "finish")
  /\ UNCHANGED <<node, native, shown, locks, clock, lost, spent>>

-----------------------------------------------------------------------------
(* refreshTicket *)

\* Faulty variant: `operations' is released before the ticket is shown.
IssueTicketReleasing(c) ==
  /\ At(c, "pair")
  /\ native.issued < MaxTickets
  /\ native' = [native EXCEPT !.issued = @ + 1, !.pending = native.issued + 1]
  /\ operations' = None
  /\ Goto(c, "show")
  /\ UNCHANGED <<node, shown, actions, clock, lost, spent>>

\* The node replaces its pending ticket; the call may still fail afterwards,
\* when the ticket does not fit a QR code for instance (ffi/src/node.rs:136).
IssueTicket(c) ==
  /\ At(c, "pair")
  /\ native.issued < MaxTickets
  /\ native' = [native EXCEPT !.issued = @ + 1, !.pending = native.issued + 1]
  /\ \/ Goto(c, "show") /\ UNCHANGED <<operations, lost, spent>>
     \/ Fault /\ Fail(c) /\ lost' = lost \cup {native.issued + 1}
  /\ UNCHANGED <<node, shown, actions, clock>>

\* Also when no more tickets are left within the bound.
IssueFails(c) ==
  /\ At(c, "pair")
  /\ IF native.issued = MaxTickets THEN UNCHANGED spent ELSE Fault
  /\ Fail(c)
  /\ UNCHANGED <<node, native, shown, actions, clock, lost>>

\* Faulty variant: the expiry time is not recorded.
ShowTicketUntracked(c) ==
  /\ At(c, "show")
  /\ offered' = TRUE
  /\ ui' = [ui EXCEPT !.invitation = native.issued]
  /\ operations' = None /\ Goto(c, "finish")
  /\ UNCHANGED <<node, native, expiresAt, actions, clock, lost, spent>>

\* Faulty variant: a ticket that is on display is kept.
ShowFirstTicket(c) ==
  /\ At(c, "show")
  /\ LET kept == IF ui.invitation = None THEN native.issued ELSE ui.invitation
     IN  expiresAt' = kept /\ ui' = [ui EXCEPT !.invitation = kept]
  /\ offered' = TRUE
  /\ operations' = None /\ Goto(c, "finish")
  /\ UNCHANGED <<node, native, actions, clock, lost, spent>>

ShowTicket(c) ==
  /\ At(c, "show")
  /\ expiresAt' = native.issued
  /\ offered' = TRUE
  /\ ui' = [ui EXCEPT !.invitation = native.issued]
  /\ operations' = None /\ Goto(c, "finish")
  /\ UNCHANGED <<node, native, actions, clock, lost, spent>>

-----------------------------------------------------------------------------
(* pair *)

\* recordMeshMembership, under `tracking': on entering a mesh the invitation
\* and its expiry are withdrawn.
Recorded(meshed) ==
  LET entered == meshed /\ ~ui.meshed
  IN  /\ expiresAt' = IF entered THEN None ELSE expiresAt
      /\ ui' = [ui EXCEPT !.meshed = meshed,
                          !.invitation = IF entered THEN None ELSE @]
      /\ UNCHANGED offered

\* The status is read, and the mesh created, while the node may be enrolled.
ReadMembership(c) ==
  /\ At(c, "mesh")
  /\ \/ /\ Goto(c, IF native.enrolled THEN "add" ELSE "create")
        /\ UNCHANGED <<operations, spent>>
     \/ Fault /\ Fail(c)
  /\ UNCHANGED <<node, native, shown, actions, clock, lost>>

CreateMesh(c) ==
  /\ At(c, "create")
  /\ \/ /\ ~native.enrolled
        /\ native' = [native EXCEPT !.enrolled = TRUE]
        /\ Goto(c, "record") /\ UNCHANGED <<operations, spent>>
     \/ /\ IF native.enrolled THEN UNCHANGED spent ELSE Fault
        /\ Fail(c) /\ UNCHANGED native
  /\ UNCHANGED <<node, shown, actions, clock, lost>>

RecordMesh(c) ==
  /\ At(c, "record")
  /\ Recorded(TRUE)
  /\ Goto(c, "add")
  /\ UNCHANGED <<node, native, locks, clock, lost, spent>>

\* A ticket of this device that is no longer on display fails here.
AddDevice(c) ==
  /\ At(c, "add")
  /\ \/ co[c].value = Foreign /\ Goto(c, "added") /\ UNCHANGED <<operations, spent>>
     \/ (IF co[c].value = Foreign THEN Fault ELSE UNCHANGED spent) /\ Fail(c)
  /\ UNCHANGED <<node, native, shown, actions, clock, lost>>

ReportAdded(c) ==
  /\ At(c, "added")
  /\ expiresAt' = None
  /\ ui' = [ui EXCEPT !.invitation = None]
  /\ operations' = None /\ Goto(c, "finish")
  /\ UNCHANGED <<node, native, offered, actions, clock, lost, spent>>

-----------------------------------------------------------------------------
(* run *)

\* Cancelled before the node is opened, or the node does not open.
OpenFails ==
  /\ At(Runner, "open")
  /\ Goto(Runner, "close")
  /\ IF Live(Runner) THEN Fault ELSE UNCHANGED spent
  /\ UNCHANGED <<node, native, shown, locks, clock, lost>>

Open ==
  /\ At(Runner, "open") /\ Live(Runner) /\ operations = None
  /\ node' = TRUE
  /\ native' = [native EXCEPT !.open = TRUE]
  /\ Goto(Runner, "poll")
  /\ UNCHANGED <<shown, locks, clock, lost, spent>>

Poll ==
  /\ At(Runner, "poll") /\ Live(Runner) /\ operations = None
  /\ operations' = Runner
  /\ Goto(Runner, "status")
  /\ UNCHANGED <<node, native, shown, actions, clock, lost, spent>>

\* Faulty variant: `operations' is not released when the status fails.
ReadStatusKeepingLock ==
  /\ At(Runner, "status")
  /\ \/ /\ co' = [co EXCEPT ![Runner].step = "accept", ![Runner].enrolled = native.enrolled]
        /\ UNCHANGED spent
     \/ Fault /\ Goto(Runner, "delay")
  /\ UNCHANGED <<node, native, shown, locks, clock, lost>>

\* The status cannot be cancelled; a failure is shown until the next one.
ReadStatus ==
  /\ At(Runner, "status")
  /\ \/ /\ co' = [co EXCEPT ![Runner].step = "accept", ![Runner].enrolled = native.enrolled]
        /\ UNCHANGED <<operations, spent>>
     \/ Fault /\ operations' = None /\ Goto(Runner, "delay")
  /\ UNCHANGED <<node, native, shown, actions, clock, lost>>

AcceptSnapshot ==
  /\ At(Runner, "accept")
  /\ Recorded(co[Runner].enrolled)
  /\ operations' = None
  /\ co' = [co EXCEPT ![Runner] = IF offered THEN [Idle EXCEPT !.step = "delay"]
              ELSE [Idle EXCEPT !.step = "begin", !.call = "refresh"]]
  /\ UNCHANGED <<node, native, actions, clock, lost, spent>>

Delay ==
  /\ At(Runner, "delay") /\ Live(Runner)
  /\ Goto(Runner, "poll")
  /\ UNCHANGED <<node, native, shown, locks, clock, lost, spent>>

\* A cancelled run() stops where it waits and leaves what it holds.
StopRunning ==
  /\ ~Live(Runner) /\ co[Runner].step \in {"poll", "accept", "delay"}
  /\ operations' = IF operations = Runner THEN None ELSE operations
  /\ Goto(Runner, "close")
  /\ UNCHANGED <<node, native, shown, actions, clock, lost, spent>>

InScope == co[Runner].step \notin {"open", "close", "clear", "ended"}

\* One turn of ageState, which run() waits for before it closes the node.
AgeState ==
  /\ InScope
  /\ expiresAt \in passed
  /\ expiresAt' = None
  /\ ui' = [ui EXCEPT !.invitation = None]
  /\ UNCHANGED <<node, native, offered, locks, co, clock, lost, spent>>

\* Faulty variant: the node is closed without waiting for its users.
CloseNodeAtOnce ==
  /\ At(Runner, "close")
  /\ node' = FALSE
  /\ native' = [native EXCEPT !.open = FALSE, !.pending = None]
  /\ Goto(Runner, "clear")
  /\ UNCHANGED <<shown, locks, clock, lost, spent>>

CloseNode ==
  /\ At(Runner, "close") /\ operations = None
  /\ node' = FALSE
  /\ native' = [native EXCEPT !.open = FALSE, !.pending = None]
  /\ Goto(Runner, "clear")
  /\ UNCHANGED <<shown, locks, clock, lost, spent>>

ClearState ==
  /\ At(Runner, "clear")
  /\ expiresAt' = None
  /\ ui' = [ui EXCEPT !.invitation = None, !.busy = FALSE]
  /\ Goto(Runner, "ended")
  /\ UNCHANGED <<node, native, offered, locks, clock, lost, spent>>

-----------------------------------------------------------------------------
(* The environment *)

Cancel(c) ==
  /\ Live(c) /\ co[c].step \notin {"idle", "close", "clear", "ended"}
  /\ cancelled' = cancelled \cup {c}
  /\ UNCHANGED <<node, native, shown, locks, co, passed, lost, spent>>

\* Another device enrols this one with the pending ticket.
Redeem ==
  /\ native.open /\ native.pending # None
  /\ native' = [native EXCEPT !.enrolled = TRUE, !.pending = None]
  /\ UNCHANGED <<node, shown, locks, co, clock, lost, spent>>

Expire(t) ==
  /\ t <= native.issued /\ t \notin passed
  /\ passed' = passed \cup {t}
  /\ UNCHANGED <<node, native, shown, locks, co, cancelled, lost, spent>>

-----------------------------------------------------------------------------

ActionOf(c) ==
  \/ TryLock(c) \/ SetBusy(c) \/ CheckValue(c) \/ GiveUpWaiting(c)
  \/ IssueTicket(c) \/ IssueFails(c) \/ ShowTicket(c)
  \/ ReadMembership(c) \/ CreateMesh(c) \/ RecordMesh(c) \/ AddDevice(c)
  \/ ReportAdded(c) \/ ReportFailure(c) \/ FinishAction(c)

Run ==
  \/ OpenFails \/ Open \/ ReadStatus \/ AcceptSnapshot \/ Delay
  \/ StopRunning \/ ClearState

Next ==
  \/ \E c \in User :
       \/ Call(c, "refresh", None)
       \/ \E value \in Value : Call(c, "pair", value)
  \/ \E c \in Coroutine : ActionOf(c) \/ Acquire(c) \/ Cancel(c)
  \/ Run \/ Poll \/ CloseNode \/ AgeState \/ Redeem
  \/ \E t \in Ticket : Expire(t)

Spec == Init /\ [][Next]_vars

(* Fairness: a coroutine that can go on is resumed, its delays end, and a      *)
(* mutex is given to those that wait in their order, so that a coroutine that  *)
(* waits is not passed over for ever (strong fairness).  Nothing makes a user  *)
(* act, a job be cancelled or a ticket expire.                                 *)
Fairness ==
  /\ \A c \in Coroutine : WF_vars(ActionOf(c)) /\ SF_vars(Acquire(c))
  /\ WF_vars(Run) /\ SF_vars(Poll) /\ SF_vars(CloseNode)
  /\ WF_vars(AgeState)

FairSpec == Spec /\ Fairness

-----------------------------------------------------------------------------
(* Properties *)

TypeOK ==
  /\ node \in BOOLEAN
  /\ native \in [open : BOOLEAN, enrolled : BOOLEAN, issued : 0 .. MaxTickets,
                 pending : Ticket \cup {None}]
  /\ ui \in [invitation : Ticket \cup {None}, meshed : BOOLEAN, busy : BOOLEAN]
  /\ expiresAt \in Ticket \cup {None}
  /\ offered \in BOOLEAN
  /\ operations \in Coroutine \cup {None}
  /\ actions \in Coroutine \cup {None}
  /\ co \in [Coroutine -> [step : RunStep \cup ActionStep \cup {"idle"},
                           call : {"none", "refresh", "pair"},
                           value : Value \cup {None}, enrolled : BOOLEAN]]
  /\ co[Runner].step # "idle"
  /\ cancelled \subseteq Coroutine
  /\ passed \subseteq Ticket /\ lost \subseteq Ticket
  /\ spent \in [calls : 0 .. MaxCalls, faults : 0 .. MaxFaults]

Acting(c) == co[c].step \in ActionStep \ {"begin", "busy", "unlock"}

\* The node is never called once it is shut down, nor by two coroutines at a
\* time, however the session is cancelled while actions are under way
\* (PairingSession.kt:173, PairingSession.kt:285).
NodeInUseIsOpen ==
  /\ \A c \in Coroutine : co[c].step \in NativeStep => native.open
  /\ \A c, d \in Coroutine :
       co[c].step \in NativeStep /\ co[d].step \in NativeStep => c = d

\* The ticket on display is the one the node accepts or accepted last: a newer
\* one exists only while it is about to be shown, or was lost in a call that
\* reported a failure (PairingSession.kt:86).
ShownIsLatest ==
  ui.invitation # None =>
    \A t \in ui.invitation + 1 .. native.issued :
      t \in lost \/ \E c \in Coroutine : At(c, "show")

\* A session that is over shows no invitation and leaves no node open, even
\* if an action was issuing a ticket when it was cancelled (PairingSession.kt:183).
ClosedShowsNothing ==
  At(Runner, "ended") => ui.invitation = None /\ ~node /\ ~native.open

\* The busy flag is up from the beginning of an action to its end, unless the
\* session has closed, and it never stays up after the last action: actions
\* that end and begin at the same time do not undo each other's flag
\* (PairingSession.kt:273).
BusyIsAccurate ==
  /\ ui.busy => actions # None
  /\ \A c \in Coroutine :
       Acting(c) => actions = c /\ (ui.busy \/ At(Runner, "ended"))

\* An expired invitation does not stay on display: its expiry is tracked as
\* long as it is shown, through joining, adding, refreshing and closing
\* (PairingSession.kt:254).
InvitationWithdrawn ==
  \A t \in Ticket : (ui.invitation = t /\ t \in passed) ~> (ui.invitation # t)

\* A session that keeps running offers a first ticket, although its attempts
\* are skipped while the user acts and may fail (PairingSession.kt:214).
InitialTicketOffered == <>(offered \/ ~Live(Runner) \/ At(Runner, "ended"))

\* Membership that another device brought about is shown, whatever the user
\* does meanwhile (PairingSession.kt:241).
MembershipShown ==
  (native.enrolled /\ node) ~> (ui.meshed \/ ~Live(Runner))

\* A cancelled session ends: no action or failed call keeps the lock that
\* closing the node waits for (PairingSession.kt:174).
SessionEnds == ~Live(Runner) ~> At(Runner, "ended")
=============================================================================
