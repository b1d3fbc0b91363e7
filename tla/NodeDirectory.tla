----------------------------- MODULE NodeDirectory -----------------------------
(* One node directory and the processes that use it: `node init', the service *)
(* `node serve', and commands such as `mesh create' that go to the running    *)
(* service if there is one and work on the files otherwise                    *)
(* (rust/crates/node/src/storage.rs, rust/crates/cli/src/control.rs).         *)
(*                                                                            *)
(* Simplifications: the state file is the identity it was written for and the *)
(* mesh that was created in it; a fresh key, mesh or credential is named by   *)
(* the run that drew it; the service answers one command atomically.          *)
(* Connections that time out or are dropped are failed requests.              *)
EXTENDS Naturals, FiniteSets

CONSTANTS
  Process,     \* processes; each runs one program after the other
  Port,        \* loopback ports the system hands out
  None,
  MaxRuns,     \* bound: programs started
  MaxCrashes,  \* bound: processes killed
  MaxFaults    \* bound: saves that return an error

Run == 1 .. MaxRuns
State == [id : Run, mesh : Run \cup {None}]
ControlFile == [port : Port, token : Run]

ASSUME NodeDirectoryAssumption ==
  /\ {MaxRuns, MaxCrashes, MaxFaults} \subseteq Nat
  /\ None \notin Process \cup Port \cup Nat \cup State

VARIABLES
  key,       \* secret.key
  state,     \* state.json
  control,   \* control.json
  lock,      \* the process that holds node.lock
  listener,  \* the process that listens on each port
  proc,      \* what each process is doing
  reported,  \* history: runs of `mesh create' that reported success
  spent      \* how much of each bound is used up

vars == <<key, state, control, lock, listener, proc, reported, spent>>
files == <<key, state, control>>

Program == {"none", "init", "serve", "create"}
Step == {"idle", "lock", "key", "new key", "state", "new state", "check",
         "open", "read", "save", "bind", "publish", "serving", "guard", "close", "unlock",
         "control", "connect", "request"}

Idle == [program |-> "none", run |-> None, step |-> "idle", key |-> None,
         mem |-> None, port |-> None, token |-> None, server |-> None]

\* The process goes on to another step, or ends and lets go of what it holds.
Goto(p, step) == proc' = [proc EXCEPT ![p].step = step]
Release(p) ==
  /\ lock' = IF lock = p THEN None ELSE lock
  /\ listener' = [x \in Port |-> IF listener[x] = p THEN None ELSE listener[x]]
End(p) == Release(p) /\ proc' = [proc EXCEPT ![p] = Idle]

\* A save replaces the file ("saved"), leaves it ("failed"), or replaces it
\* and returns an error because the directory was not synced ("landed").
Outcome == {"saved", "failed", "landed"}
Fault(outcome) ==
  IF outcome = "saved" THEN UNCHANGED spent
  ELSE /\ spent.faults < MaxFaults
       /\ spent' = [spent EXCEPT !.faults = @ + 1]
Replaced(file, content, outcome) == IF outcome = "failed" THEN file ELSE content

Init ==
  /\ key = None /\ state = None /\ control = None /\ lock = None
  /\ listener = [x \in Port |-> None]
  /\ proc = [p \in Process |-> Idle]
  /\ reported = {}
  /\ spent = [runs |-> 0, crashes |-> 0, faults |-> 0]

Start(p, program, step) ==
  /\ proc[p] = Idle /\ spent.runs < MaxRuns
  /\ spent' = [spent EXCEPT !.runs = @ + 1]
  /\ proc' = [proc EXCEPT ![p] = [Idle EXCEPT !.program = program,
                                              !.run = spent.runs + 1,
                                              !.step = step]]
  /\ UNCHANGED files /\ UNCHANGED <<lock, listener, reported>>

-----------------------------------------------------------------------------
(* Storage::init *)

\* Faulty variant: whether the lock was obtained is not checked.
InitWithoutLock(p) ==
  /\ proc[p].step = "lock"
  /\ Goto(p, "key") /\ UNCHANGED <<lock, listener>>
  /\ UNCHANGED files /\ UNCHANGED <<reported, spent>>

InitLock(p) ==
  /\ proc[p].step = "lock"
  /\ IF lock = None
     THEN lock' = p /\ Goto(p, "key") /\ UNCHANGED listener
     ELSE End(p)
  /\ UNCHANGED files /\ UNCHANGED <<reported, spent>>

\* Faulty variant: a key that exists is not read.
InitKeyUnread(p) ==
  /\ proc[p].step = "key"
  /\ IF key = None /\ state # None THEN End(p)
     ELSE /\ Goto(p, IF key # None THEN "state" ELSE "new key")
          /\ UNCHANGED <<lock, listener>>
  /\ UNCHANGED files /\ UNCHANGED <<reported, spent>>

\* A key that exists is kept; one that is missing beside a state is an error.
InitKey(p) ==
  /\ proc[p].step = "key"
  /\ IF key = None /\ state # None THEN End(p)
     ELSE /\ proc' = [proc EXCEPT ![p].step = IF key # None THEN "state" ELSE "new key",
                                  ![p].key = key]
          /\ UNCHANGED <<lock, listener>>
  /\ UNCHANGED files /\ UNCHANGED <<reported, spent>>

NewKey(p, outcome) ==
  /\ proc[p].step = "new key"
  /\ Fault(outcome)
  /\ key' = Replaced(key, proc[p].run, outcome)
  /\ IF outcome = "saved"
     THEN /\ proc' = [proc EXCEPT ![p].step = "state", ![p].key = proc[p].run]
          /\ UNCHANGED <<lock, listener>>
     ELSE End(p)
  /\ UNCHANGED <<state, control, reported>>

InitState(p) ==
  /\ proc[p].step = "state"
  /\ IF state = None THEN Goto(p, "new state") /\ UNCHANGED <<lock, listener>>
     ELSE End(p)
  /\ UNCHANGED files /\ UNCHANGED <<reported, spent>>

NewState(p, outcome) ==
  /\ proc[p].step = "new state"
  /\ Fault(outcome)
  /\ state' = Replaced(state, [id |-> proc[p].key, mesh |-> None], outcome)
  /\ End(p)
  /\ UNCHANGED <<key, control, reported>>

-----------------------------------------------------------------------------
(* Storage::open, by the service and by a command that found no service *)

OpenCheck(p) ==
  /\ proc[p].step = "check"
  /\ IF state # None THEN Goto(p, "open") /\ UNCHANGED <<lock, listener>> ELSE End(p)
  /\ UNCHANGED files /\ UNCHANGED <<reported, spent>>

\* Faulty variant: whether the lock was obtained is not checked.
OpenWithoutLock(p) ==
  /\ proc[p].step = "open"
  /\ Goto(p, "read")
  /\ UNCHANGED files /\ UNCHANGED <<lock, listener, reported, spent>>

OpenLock(p) ==
  /\ proc[p].step = "open"
  /\ IF lock = None
     THEN lock' = p /\ Goto(p, "read") /\ UNCHANGED listener
     ELSE End(p)
  /\ UNCHANGED files /\ UNCHANGED <<reported, spent>>

OpenRead(p) ==
  /\ proc[p].step = "read"
  /\ IF key = state.id
     THEN /\ proc' = [proc EXCEPT
                ![p].step = IF proc[p].program = "serve" THEN "bind" ELSE "save",
                ![p].mem = state]
          /\ UNCHANGED <<lock, listener>>
     ELSE End(p)
  /\ UNCHANGED files /\ UNCHANGED <<reported, spent>>

-----------------------------------------------------------------------------
(* The service *)

Listen(p, port) ==
  /\ proc[p].step = "bind"
  /\ listener[port] = None
  /\ listener' = [listener EXCEPT ![port] = p]
  /\ proc' = [proc EXCEPT ![p].step = "publish", ![p].port = port,
                          ![p].token = proc[p].run]
  /\ UNCHANGED files /\ UNCHANGED <<lock, reported, spent>>

\* The guard that removes the file is created only when the save returned Ok.
WriteControl(p, outcome) ==
  /\ proc[p].step = "publish"
  /\ Fault(outcome)
  /\ control' = Replaced(control, [port |-> proc[p].port, token |-> proc[p].token],
                         outcome)
  /\ IF outcome = "saved" THEN Goto(p, "serving") /\ UNCHANGED <<lock, listener>>
     ELSE End(p)
  /\ UNCHANGED <<key, state, reported>>

\* Faulty variant: the node is dropped before the guard.
InterruptDroppingNode(p) ==
  /\ proc[p].step = "serving"
  /\ Goto(p, "guard") /\ Release(p)
  /\ UNCHANGED files /\ UNCHANGED <<reported, spent>>

\* On a signal, or when accept fails, commands under way are aborted.
Interrupt(p) ==
  /\ proc[p].step = "serving"
  /\ Goto(p, "guard")
  /\ UNCHANGED files /\ UNCHANGED <<lock, listener, reported, spent>>

\* Locals are dropped in reverse order: the guard, the listener, the node.
RemoveControl(p) ==
  /\ proc[p].step = "guard"
  /\ control' = None
  /\ Goto(p, "close")
  /\ UNCHANGED <<key, state, lock, listener, reported, spent>>

CloseListener(p) ==
  /\ proc[p].step = "close"
  /\ listener' = [x \in Port |-> IF listener[x] = p THEN None ELSE listener[x]]
  /\ Goto(p, "unlock")
  /\ UNCHANGED files /\ UNCHANGED <<lock, reported, spent>>

DropNode(p) ==
  /\ proc[p].step = "unlock"
  /\ End(p)
  /\ UNCHANGED files /\ UNCHANGED <<reported, spent>>

-----------------------------------------------------------------------------
(* mesh create *)

ReadControl(p) ==
  /\ proc[p].step = "control"
  /\ proc' = IF control = None THEN [proc EXCEPT ![p].step = "check"]
             ELSE [proc EXCEPT ![p].step = "connect", ![p].port = control.port,
                               ![p].token = control.token]
  /\ UNCHANGED files /\ UNCHANGED <<lock, listener, reported, spent>>

\* A refused connection means there is no service.
Connect(p) ==
  /\ proc[p].step = "connect"
  /\ LET server == listener[proc[p].port]
     IN  proc' = IF server = None THEN [proc EXCEPT ![p].step = "check"]
                 ELSE [proc EXCEPT ![p].step = "request",
                                   ![p].server = proc[server].run]
  /\ UNCHANGED files /\ UNCHANGED <<lock, listener, reported, spent>>

\* Faulty variant: the service does not see that it has a mesh already.
NoMeshEver(mem) == TRUE

NoMesh(mem) == mem.mesh = None

\* The service checks the credential and runs Node::new_mesh: its memory
\* changes only when the save returned Ok.  The reply may still be lost.
Execute(p, s, outcome, delivered) ==
  /\ proc[p].step = "request" /\ proc[s].step = "serving"
  /\ proc[p].server = proc[s].run /\ proc[p].token = proc[s].token
  /\ IF NoMesh(proc[s].mem)
     THEN LET next == [proc[s].mem EXCEPT !.mesh = proc[p].run]
          IN  /\ Fault(outcome)
              /\ state' = Replaced(state, next, outcome)
              /\ IF outcome = "saved"
                 THEN /\ proc' = [proc EXCEPT ![p] = Idle, ![s].mem = next]
                      /\ reported' = IF delivered THEN reported \cup {proc[p].run}
                                     ELSE reported
                 ELSE proc' = [proc EXCEPT ![p] = Idle] /\ UNCHANGED reported
     ELSE /\ outcome = "saved"
          /\ proc' = [proc EXCEPT ![p] = Idle]
          /\ UNCHANGED <<state, reported, spent>>
  /\ UNCHANGED <<key, control, lock, listener>>

\* A wrong credential, a service that stopped or is busy, a timeout.
RequestFails(p) ==
  /\ proc[p].step = "request"
  /\ proc' = [proc EXCEPT ![p] = Idle]
  /\ UNCHANGED files /\ UNCHANGED <<lock, listener, reported, spent>>

\* Node::create_mesh on the files, with the lock held.
CreateOffline(p, outcome) ==
  /\ proc[p].step = "save"
  /\ IF NoMesh(proc[p].mem)
     THEN /\ Fault(outcome)
          /\ state' = Replaced(state, [proc[p].mem EXCEPT !.mesh = proc[p].run], outcome)
          /\ reported' = IF outcome = "saved" THEN reported \cup {proc[p].run}
                         ELSE reported
     ELSE outcome = "saved" /\ UNCHANGED <<state, reported, spent>>
  /\ End(p)
  /\ UNCHANGED <<key, control>>

-----------------------------------------------------------------------------

\* The process is killed, or the service fails to bind its endpoint: the
\* system releases its lock and its port, its files stay.
Crash(p) ==
  /\ proc[p] # Idle
  /\ spent.crashes < MaxCrashes
  /\ spent' = [spent EXCEPT !.crashes = @ + 1]
  /\ End(p)
  /\ UNCHANGED files /\ UNCHANGED reported

Next ==
  \E p \in Process :
    \/ Start(p, "init", "lock")
    \/ Start(p, "serve", "check")
    \/ Start(p, "create", "control")
    \/ InitLock(p) \/ InitKey(p) \/ InitState(p)
    \/ OpenCheck(p) \/ OpenLock(p) \/ OpenRead(p)
    \/ \E port \in Port : Listen(p, port)
    \/ Interrupt(p) \/ RemoveControl(p) \/ CloseListener(p) \/ DropNode(p)
    \/ ReadControl(p) \/ Connect(p) \/ RequestFails(p)
    \/ \E outcome \in Outcome :
         \/ NewKey(p, outcome) \/ NewState(p, outcome)
         \/ WriteControl(p, outcome) \/ CreateOffline(p, outcome)
         \/ \E s \in Process, delivered \in BOOLEAN : Execute(p, s, outcome, delivered)
    \/ Crash(p)

Spec == Init /\ [][Next]_vars

-----------------------------------------------------------------------------
(* Properties *)

TypeOK ==
  /\ key \in Run \cup {None}
  /\ state \in State \cup {None}
  /\ control \in ControlFile \cup {None}
  /\ lock \in Process \cup {None}
  /\ listener \in [Port -> Process \cup {None}]
  /\ proc \in [Process ->
       [program : Program, run : Run \cup {None}, step : Step,
        key : Run \cup {None}, mem : State \cup {None}, port : Port \cup {None},
        token : Run \cup {None}, server : Run \cup {None}]]
  /\ reported \subseteq Run
  /\ spent \in [runs : 0 .. MaxRuns, crashes : 0 .. MaxCrashes, faults : 0 .. MaxFaults]

\* The state belongs to the key beside it, whichever initialisations ran at
\* the same time or were killed half-way: no directory is left for ever with
\* "identity does not match state" (storage.rs:97-128).
IdentityMatches == state # None => key = state.id

\* A mesh whose creation was reported stays on disk, whether the service or a
\* command on the files created it and whatever runs at the same time: no
\* stale copy of the state is ever saved over it (lib.rs:148, lib.rs:223).
ReportedMeshIsKept == \A r \in reported : state # None /\ state.mesh = r

\* What a service works from is what is on disk: while it holds the
\* directory no other program changes the state (storage.rs:51, 134).
ServiceOwnsState ==
  \A p \in Process :
    proc[p].program = "serve" /\ proc[p].step \in {"bind", "publish", "serving"} =>
      /\ state # None
      /\ proc[p].mem.id = state.id
      /\ proc[p].mem.mesh # None => proc[p].mem.mesh = state.mesh

\* Commands find a service that is up: control.json has its port and its
\* credential until it is told to stop, and no earlier service that is still
\* shutting down removes it (control.rs:53, 185-190).
ServiceIsReachable ==
  \A p \in Process :
    proc[p].step = "serving" =>
      /\ control = [port |-> proc[p].port, token |-> proc[p].token]
      /\ listener[control.port] = p
=============================================================================
