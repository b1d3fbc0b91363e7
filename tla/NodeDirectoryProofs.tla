-------------------------- MODULE NodeDirectoryProofs --------------------------
(* Proofs about NodeDirectory for any processes, ports and bounds: whoever    *)
(* works on the files holds the lock, so that the key, the state, the memory  *)
(* of the service and control.json stay together.                             *)
EXTENDS NodeDirectory, TLAPS

\* The steps between obtaining the lock and giving it back.
Inside == {"key", "new key", "state", "new state", "read", "save",
           "bind", "publish", "serving", "guard", "close", "unlock"}

At(p, steps) == proc[p].step \in steps

\* A process between these steps holds the lock.
LockHeld == \A p \in Process : At(p, Inside) => lock = p

\* A process that runs a program has the number of its run.
RunKnown == \A p \in Process : proc[p].step # "idle" => proc[p].run \in Run

\* Initialisation knows the key of the directory, and writes what is missing.
InitKnows ==
  \A p \in Process :
    /\ At(p, {"new key"}) => key = None /\ state = None
    /\ At(p, {"state", "new state"}) => key # None /\ proc[p].key = key
    /\ At(p, {"new state"}) => state = None

\* Opening has seen a state, and nothing removes one.
StateStays == \A p \in Process : At(p, {"open", "read", "save"}) => state # None

\* Whoever may save the state works from the one on disk; its mesh may be
\* missing in the memory of a service where a save returned an error, but not
\* when its creation was reported.
Current(p) ==
  /\ At(p, {"save"}) => proc[p].mem = state
  /\ At(p, {"bind", "publish", "serving"}) =>
       /\ state # None /\ proc[p].mem # None
       /\ proc[p].mem.id = state.id
       /\ proc[p].mem.mesh # None => proc[p].mem.mesh = state.mesh
  /\ At(p, {"save", "bind", "publish", "serving"}) =>
       \A r \in reported : proc[p].mem.mesh = r

MemoryIsCurrent == \A p \in Process : Current(p)

\* A service listens on its port until it has removed control.json.
Listens(p) ==
  At(p, {"publish", "serving", "guard", "close"}) =>
    /\ proc[p].port \in Port /\ proc[p].token \in Run
    /\ listener[proc[p].port] = p

Listening == \A p \in Process : Listens(p)

\* control.json named the port that a command connects to.
Connecting == \A p \in Process : At(p, {"connect"}) => proc[p].port \in Port

\* What control.json says is what the service listens for.
Published ==
  \A p \in Process : At(p, {"serving"}) =>
    control = [port |-> proc[p].port, token |-> proc[p].token]

DirectoryInv ==
  /\ TypeOK /\ LockHeld /\ RunKnown /\ InitKnows /\ StateStays /\ MemoryIsCurrent
  /\ Listening /\ Connecting /\ Published /\ IdentityMatches /\ ReportedMeshIsKept

-----------------------------------------------------------------------------
(* What processes are doing *)

ProcState ==
  [program : Program, run : Run \cup {None}, step : Step,
   key : Run \cup {None}, mem : State \cup {None}, port : Port \cup {None},
   token : Run \cup {None}, server : Run \cup {None}]

\* An idle process has the shape of one.
LEMMA IdleType == Idle \in ProcState /\ Idle.step = "idle"
  BY DEF Idle, ProcState, Program, Step

\* Assigning the program keeps the shape of a process and the other fields.
LEMMA SetProgram ==
  ASSUME NEW r \in ProcState, NEW x \in Program, NEW s, s = [r EXCEPT !.program = x]
  PROVE  /\ s \in ProcState /\ s.program = x
         /\ s.run = r.run /\ s.step = r.step /\ s.key = r.key /\ s.mem = r.mem
         /\ s.port = r.port /\ s.token = r.token /\ s.server = r.server
<1> HIDE DEF Step, Program, State, Run
<1> QED
  BY DEF ProcState

\* Assigning the run keeps the shape of a process and the other fields.
LEMMA SetRun ==
  ASSUME NEW r \in ProcState, NEW x \in Run \cup {None}, NEW s, s = [r EXCEPT !.run = x]
  PROVE  /\ s \in ProcState /\ s.run = x
         /\ s.program = r.program /\ s.step = r.step /\ s.key = r.key /\ s.mem = r.mem
         /\ s.port = r.port /\ s.token = r.token /\ s.server = r.server
<1> HIDE DEF Step, Program, State, Run
<1> QED
  BY DEF ProcState

\* Assigning the step keeps the shape of a process and the other fields.
LEMMA SetStep ==
  ASSUME NEW r \in ProcState, NEW x \in Step, NEW s, s = [r EXCEPT !.step = x]
  PROVE  /\ s \in ProcState /\ s.step = x
         /\ s.program = r.program /\ s.run = r.run /\ s.key = r.key /\ s.mem = r.mem
         /\ s.port = r.port /\ s.token = r.token /\ s.server = r.server
<1> HIDE DEF Step, Program, State, Run
<1> QED
  BY DEF ProcState

\* Assigning the key keeps the shape of a process and the other fields.
LEMMA SetKey ==
  ASSUME NEW r \in ProcState, NEW x \in Run \cup {None}, NEW s, s = [r EXCEPT !.key = x]
  PROVE  /\ s \in ProcState /\ s.key = x
         /\ s.program = r.program /\ s.run = r.run /\ s.step = r.step /\ s.mem = r.mem
         /\ s.port = r.port /\ s.token = r.token /\ s.server = r.server
<1> HIDE DEF Step, Program, State, Run
<1> QED
  BY DEF ProcState

\* Assigning the mem keeps the shape of a process and the other fields.
LEMMA SetMem ==
  ASSUME NEW r \in ProcState, NEW x \in State \cup {None}, NEW s, s = [r EXCEPT !.mem = x]
  PROVE  /\ s \in ProcState /\ s.mem = x
         /\ s.program = r.program /\ s.run = r.run /\ s.step = r.step /\ s.key = r.key
         /\ s.port = r.port /\ s.token = r.token /\ s.server = r.server
<1> HIDE DEF Step, Program, State, Run
<1> QED
  BY DEF ProcState

\* Assigning the port keeps the shape of a process and the other fields.
LEMMA SetPort ==
  ASSUME NEW r \in ProcState, NEW x \in Port \cup {None}, NEW s, s = [r EXCEPT !.port = x]
  PROVE  /\ s \in ProcState /\ s.port = x
         /\ s.program = r.program /\ s.run = r.run /\ s.step = r.step /\ s.key = r.key
         /\ s.mem = r.mem /\ s.token = r.token /\ s.server = r.server
<1> HIDE DEF Step, Program, State, Run
<1> QED
  BY DEF ProcState

\* Assigning the token keeps the shape of a process and the other fields.
LEMMA SetToken ==
  ASSUME NEW r \in ProcState, NEW x \in Run \cup {None}, NEW s, s = [r EXCEPT !.token = x]
  PROVE  /\ s \in ProcState /\ s.token = x
         /\ s.program = r.program /\ s.run = r.run /\ s.step = r.step /\ s.key = r.key
         /\ s.mem = r.mem /\ s.port = r.port /\ s.server = r.server
<1> HIDE DEF Step, Program, State, Run
<1> QED
  BY DEF ProcState

\* Assigning the server keeps the shape of a process and the other fields.
LEMMA SetServer ==
  ASSUME NEW r \in ProcState, NEW x \in Run \cup {None}, NEW s, s = [r EXCEPT !.server = x]
  PROVE  /\ s \in ProcState /\ s.server = x
         /\ s.program = r.program /\ s.run = r.run /\ s.step = r.step /\ s.key = r.key
         /\ s.mem = r.mem /\ s.port = r.port /\ s.token = r.token
<1> HIDE DEF Step, Program, State, Run
<1> QED
  BY DEF ProcState

\* Only process p moves.
Moves(p) ==
  /\ proc' \in [Process -> ProcState]
  /\ \A q \in Process : q # p => proc'[q] = proc[q]

\* It goes to another step with the run, key and memory it has.
Goes(p, step) ==
  /\ Moves(p) /\ proc'[p].step = step
  /\ proc'[p].run = proc[p].run /\ proc'[p].key = proc[p].key
  /\ proc'[p].mem = proc[p].mem /\ proc'[p].port = proc[p].port
  /\ proc'[p].token = proc[p].token

Ends(p) == Moves(p) /\ proc'[p].step = "idle"

Started(p) ==
  Start(p, "init", "lock") \/ Start(p, "serve", "check") \/ Start(p, "create", "control")

\* What the type invariant says of processes.
LEMMA TypedFacts ==
  ASSUME TypeOK
  PROVE  /\ proc \in [Process -> ProcState]
         /\ \A p \in Process : proc[p] \in ProcState
         /\ \A p \in Process : proc[p].step \in Step
  BY DEF TypeOK, ProcState

\* Replacing the state of one process moves that process.
LEMMA Replaces ==
  ASSUME TypeOK, NEW p \in Process, NEW r \in ProcState, proc' = [proc EXCEPT ![p] = r]
  PROVE  Moves(p) /\ proc'[p] = r
  BY TypedFacts DEF Moves

\* Going to another step changes the step.
LEMMA GotoGoes ==
  ASSUME TypeOK, NEW p \in Process, NEW step \in Step, Goto(p, step)
  PROVE  Goes(p, step)
<1> DEFINE r == [proc[p] EXCEPT !.step = step]
<1>1. proc[p] \in ProcState /\ r \in ProcState
  BY TypedFacts, SetStep
<1>2. Moves(p) /\ proc'[p] = r
  BY <1>1, Replaces DEF Goto
<1> QED
  BY <1>1, <1>2 DEF Goes, ProcState

\* A process that ends is idle.
LEMMA EndEnds ==
  ASSUME TypeOK, NEW p \in Process, proc' = [proc EXCEPT ![p] = Idle]
  PROVE  Ends(p)
  BY IdleType, Replaces DEF Ends

\* What InitLock does to processes.
LEMMA InitLockMoves ==
  ASSUME TypeOK, NEW p \in Process, InitLock(p)
  PROVE  IF lock = None THEN Goes(p, "key") ELSE Ends(p)
  BY GotoGoes, EndEnds DEF InitLock, End, Step

\* What InitState does to processes.
LEMMA InitStateMoves ==
  ASSUME TypeOK, NEW p \in Process, InitState(p)
  PROVE  IF state = None THEN Goes(p, "new state") ELSE Ends(p)
  BY GotoGoes, EndEnds DEF InitState, End, Step

\* What NewState does to processes.
LEMMA NewStateMoves ==
  ASSUME TypeOK, NEW p \in Process, NEW outcome \in Outcome, NewState(p, outcome)
  PROVE  Ends(p)
  BY GotoGoes, EndEnds DEF NewState, End, Step

\* What OpenCheck does to processes.
LEMMA OpenCheckMoves ==
  ASSUME TypeOK, NEW p \in Process, OpenCheck(p)
  PROVE  IF state # None THEN Goes(p, "open") ELSE Ends(p)
  BY GotoGoes, EndEnds DEF OpenCheck, End, Step

\* What OpenLock does to processes.
LEMMA OpenLockMoves ==
  ASSUME TypeOK, NEW p \in Process, OpenLock(p)
  PROVE  IF lock = None THEN Goes(p, "read") ELSE Ends(p)
  BY GotoGoes, EndEnds DEF OpenLock, End, Step

\* What WriteControl does to processes.
LEMMA WriteControlMoves ==
  ASSUME TypeOK, NEW p \in Process, NEW outcome \in Outcome, WriteControl(p, outcome)
  PROVE  IF outcome = "saved" THEN Goes(p, "serving") ELSE Ends(p)
  BY GotoGoes, EndEnds DEF WriteControl, End, Step

\* What Interrupt does to processes.
LEMMA InterruptMoves ==
  ASSUME TypeOK, NEW p \in Process, Interrupt(p)
  PROVE  Goes(p, "guard")
  BY GotoGoes, EndEnds DEF Interrupt, End, Step

\* What RemoveControl does to processes.
LEMMA RemoveControlMoves ==
  ASSUME TypeOK, NEW p \in Process, RemoveControl(p)
  PROVE  Goes(p, "close")
  BY GotoGoes, EndEnds DEF RemoveControl, End, Step

\* What CloseListener does to processes.
LEMMA CloseListenerMoves ==
  ASSUME TypeOK, NEW p \in Process, CloseListener(p)
  PROVE  Goes(p, "unlock")
  BY GotoGoes, EndEnds DEF CloseListener, End, Step

\* What DropNode does to processes.
LEMMA DropNodeMoves ==
  ASSUME TypeOK, NEW p \in Process, DropNode(p)
  PROVE  Ends(p)
  BY GotoGoes, EndEnds DEF DropNode, End, Step

\* What RequestFails does to processes.
LEMMA RequestFailsMoves ==
  ASSUME TypeOK, NEW p \in Process, RequestFails(p)
  PROVE  Ends(p)
  BY GotoGoes, EndEnds DEF RequestFails, End, Step

\* What CreateOffline does to processes.
LEMMA CreateOfflineMoves ==
  ASSUME TypeOK, NEW p \in Process, NEW outcome \in Outcome, CreateOffline(p, outcome)
  PROVE  Ends(p)
  BY GotoGoes, EndEnds DEF CreateOffline, End, Step

\* What Crash does to processes.
LEMMA CrashMoves ==
  ASSUME TypeOK, NEW p \in Process, Crash(p)
  PROVE  Ends(p)
  BY GotoGoes, EndEnds DEF Crash, End, Step

\* What Started does to processes.
LEMMA StartedMoves ==
  ASSUME TypeOK, NEW p \in Process, Started(p)
  PROVE  Moves(p) /\ proc'[p].step \in {"lock", "check", "control"} /\ proc'[p].run \in Run
<1>1. PICK program \in Program, step \in {"lock", "check", "control"} :
        Start(p, program, step)
  BY DEF Started, Program
<1> DEFINE a == [Idle EXCEPT !.program = program]
           b == [a EXCEPT !.run = spent.runs + 1]
           c == [b EXCEPT !.step = step]
<1>2. Idle \in ProcState /\ step \in Step
  BY IdleType DEF Step
<1>3. spent.runs + 1 \in Run
  BY <1>1, NodeDirectoryAssumption DEF Start, TypeOK, Run
<1>4. proc' = [proc EXCEPT ![p] = c]
  BY <1>1 DEF Start
<1>5. a \in ProcState
  BY <1>2, SetProgram
<1> HIDE DEF a
<1>6. b \in ProcState /\ b.run = spent.runs + 1
  BY <1>3, <1>5, SetRun
<1> HIDE DEF b
<1>7. c \in ProcState /\ c.run = spent.runs + 1 /\ c.step = step
  BY <1>2, <1>6, SetStep
<1> HIDE DEF c
<1> QED
  BY <1>3, <1>4, <1>7, Replaces

\* What InitKey does to processes.
LEMMA InitKeyMoves ==
  ASSUME TypeOK, NEW p \in Process, InitKey(p)
  PROVE  IF key = None /\ state # None THEN Ends(p)
         ELSE /\ Moves(p) /\ proc'[p].run = proc[p].run /\ proc'[p].key = key
              /\ proc'[p].step = IF key # None THEN "state" ELSE "new key"
<1>1. CASE key = None /\ state # None
  BY <1>1, EndEnds DEF InitKey, End
<1>2. CASE ~(key = None /\ state # None)
  <2> DEFINE step == IF key # None THEN "state" ELSE "new key"
  <2> DEFINE a == [proc[p] EXCEPT !.step = step]
             b == [a EXCEPT !.key = key]
  <2>1. /\ proc[p] \in ProcState
        /\ step \in Step
        /\ key \in Run \cup {None}
    BY <1>2, TypedFacts DEF TypeOK, Step
  <2>2. proc' = [proc EXCEPT ![p] = b]
    BY <1>2, <2>1 DEF InitKey
  <2> HIDE DEF step
  <2>3. /\ a \in ProcState /\ a.step = step /\ a.run = proc[p].run
        /\ a.key = proc[p].key /\ a.mem = proc[p].mem
        /\ a.port = proc[p].port /\ a.token = proc[p].token
    BY <2>1, SetStep
  <2> HIDE DEF a
  <2>4. /\ b \in ProcState /\ b.step = step /\ b.key = key
        /\ b.run = proc[p].run /\ b.mem = proc[p].mem
        /\ b.port = proc[p].port /\ b.token = proc[p].token
    BY <2>1, <2>3, SetKey
  <2> HIDE DEF b
  <2>5. Moves(p) /\ proc'[p] = b
    BY <2>2, <2>4, Replaces
  <2> QED
    BY <1>2, <2>1, <2>4, <2>5 DEF step
<1> QED
  BY <1>1, <1>2

\* What NewKey does to processes.
LEMMA NewKeyMoves ==
  ASSUME TypeOK, RunKnown, NEW p \in Process, NEW outcome \in Outcome, NewKey(p, outcome)
  PROVE  IF outcome = "saved"
         THEN /\ Moves(p) /\ proc'[p].run = proc[p].run /\ proc'[p].key = proc[p].run
              /\ proc'[p].step = "state"
         ELSE Ends(p)
<1>1. CASE outcome # "saved"
  BY <1>1, EndEnds DEF NewKey, End
<1>2. CASE outcome = "saved"
  <2> DEFINE a == [proc[p] EXCEPT !.step = "state"]
             b == [a EXCEPT !.key = proc[p].run]
  <2>1. /\ proc[p] \in ProcState
        /\ "state" \in Step
        /\ proc[p].run \in Run \cup {None}
    BY <1>2, TypedFacts DEF RunKnown, NewKey, Step
  <2>2. proc' = [proc EXCEPT ![p] = b]
    BY <1>2, <2>1 DEF NewKey
  <2>3. /\ a \in ProcState /\ a.step = "state" /\ a.run = proc[p].run
        /\ a.key = proc[p].key /\ a.mem = proc[p].mem
        /\ a.port = proc[p].port /\ a.token = proc[p].token
    BY <2>1, SetStep
  <2> HIDE DEF a
  <2>4. /\ b \in ProcState /\ b.step = "state" /\ b.key = proc[p].run
        /\ b.run = proc[p].run /\ b.mem = proc[p].mem
        /\ b.port = proc[p].port /\ b.token = proc[p].token
    BY <2>1, <2>3, SetKey
  <2> HIDE DEF b
  <2>5. Moves(p) /\ proc'[p] = b
    BY <2>2, <2>4, Replaces
  <2> QED
    BY <1>2, <2>1, <2>4, <2>5
<1> QED
  BY <1>1, <1>2

\* What OpenRead does to processes.
LEMMA OpenReadMoves ==
  ASSUME TypeOK, NEW p \in Process, OpenRead(p)
  PROVE  IF key = state.id
         THEN /\ Moves(p) /\ proc'[p].run = proc[p].run /\ proc'[p].mem = state
              /\ proc'[p].step \in {"bind", "save"}
         ELSE Ends(p)
<1>1. CASE key # state.id
  BY <1>1, EndEnds DEF OpenRead, End
<1>2. CASE key = state.id
  <2> DEFINE step == IF proc[p].program = "serve" THEN "bind" ELSE "save"
  <2> DEFINE a == [proc[p] EXCEPT !.step = step]
             b == [a EXCEPT !.mem = state]
  <2>1. /\ proc[p] \in ProcState
        /\ step \in Step
        /\ state \in State \cup {None}
    BY <1>2, TypedFacts DEF TypeOK, Step
  <2>2. proc' = [proc EXCEPT ![p] = b]
    BY <1>2, <2>1 DEF OpenRead
  <2> HIDE DEF step
  <2>3. /\ a \in ProcState /\ a.step = step /\ a.run = proc[p].run
        /\ a.key = proc[p].key /\ a.mem = proc[p].mem
        /\ a.port = proc[p].port /\ a.token = proc[p].token
    BY <2>1, SetStep
  <2> HIDE DEF a
  <2>4. /\ b \in ProcState /\ b.step = step /\ b.mem = state
        /\ b.run = proc[p].run /\ b.key = proc[p].key
        /\ b.port = proc[p].port /\ b.token = proc[p].token
    BY <2>1, <2>3, SetMem
  <2> HIDE DEF b
  <2>5. Moves(p) /\ proc'[p] = b
    BY <2>2, <2>4, Replaces
  <2> QED
    BY <1>2, <2>1, <2>4, <2>5 DEF step
<1> QED
  BY <1>1, <1>2

\* What Listen does to processes.
LEMMA ListenMoves ==
  ASSUME TypeOK, RunKnown, NEW p \in Process, NEW port \in Port, Listen(p, port)
  PROVE  /\ Moves(p) /\ proc'[p].step = "publish" /\ proc'[p].run = proc[p].run
         /\ proc'[p].mem = proc[p].mem /\ proc'[p].port = port
         /\ proc'[p].token = proc[p].run
<1> DEFINE a == [proc[p] EXCEPT !.step = "publish"]
           b == [a EXCEPT !.port = port]
           c == [b EXCEPT !.token = proc[p].run]
<1>1. /\ proc[p] \in ProcState
      /\ "publish" \in Step
      /\ port \in Port \cup {None}
      /\ proc[p].run \in Run \cup {None}
  BY TypedFacts DEF RunKnown, Listen, Step
<1>2. proc' = [proc EXCEPT ![p] = c]
  BY <1>1 DEF Listen
<1>3. /\ a \in ProcState /\ a.step = "publish" /\ a.run = proc[p].run
      /\ a.key = proc[p].key /\ a.mem = proc[p].mem
      /\ a.port = proc[p].port /\ a.token = proc[p].token
  BY <1>1, SetStep
<1> HIDE DEF a
<1>4. /\ b \in ProcState /\ b.step = "publish" /\ b.port = port
      /\ b.run = proc[p].run /\ b.key = proc[p].key
      /\ b.mem = proc[p].mem /\ b.token = proc[p].token
  BY <1>1, <1>3, SetPort
<1> HIDE DEF b
<1>5. /\ c \in ProcState /\ c.step = "publish" /\ c.port = port
      /\ c.token = proc[p].run /\ c.run = proc[p].run
      /\ c.key = proc[p].key /\ c.mem = proc[p].mem
  BY <1>1, <1>4, SetToken
<1> HIDE DEF c
<1>6. Moves(p) /\ proc'[p] = c
  BY <1>2, <1>5, Replaces
<1> QED
  BY <1>1, <1>5, <1>6

\* What ReadControl does to processes.
LEMMA ReadControlMoves ==
  ASSUME TypeOK, NEW p \in Process, ReadControl(p)
  PROVE  /\ Moves(p) /\ proc'[p].run = proc[p].run
         /\ proc'[p].step \in {"check", "connect"}
         /\ proc'[p].step = "connect" => proc'[p].port \in Port
<1>1. CASE control = None
  <2> DEFINE a == [proc[p] EXCEPT !.step = "check"]
  <2>1. /\ proc[p] \in ProcState
        /\ "check" \in Step
    BY <1>1, TypedFacts DEF Step
  <2>2. proc' = [proc EXCEPT ![p] = a]
    BY <1>1, <2>1 DEF ReadControl
  <2>3. /\ a \in ProcState /\ a.step = "check" /\ a.run = proc[p].run
        /\ a.key = proc[p].key /\ a.mem = proc[p].mem
        /\ a.port = proc[p].port /\ a.token = proc[p].token
    BY <2>1, SetStep
  <2> HIDE DEF a
  <2>4. Moves(p) /\ proc'[p] = a
    BY <2>2, <2>3, Replaces
  <2> QED
    BY <1>1, <2>1, <2>3, <2>4
<1>2. CASE control # None
  <2> DEFINE a == [proc[p] EXCEPT !.step = "connect"]
             b == [a EXCEPT !.port = control.port]
             c == [b EXCEPT !.token = control.token]
  <2>1. /\ proc[p] \in ProcState
        /\ "connect" \in Step
        /\ control.port \in Port
        /\ control.token \in Run \cup {None}
    BY <1>2, TypedFacts DEF TypeOK, ControlFile, Step
  <2>2. proc' = [proc EXCEPT ![p] = c]
    BY <1>2, <2>1 DEF ReadControl
  <2>3. /\ a \in ProcState /\ a.step = "connect" /\ a.run = proc[p].run
        /\ a.key = proc[p].key /\ a.mem = proc[p].mem
        /\ a.port = proc[p].port /\ a.token = proc[p].token
    BY <2>1, SetStep
  <2> HIDE DEF a
  <2>4. /\ b \in ProcState /\ b.step = "connect" /\ b.port = control.port
        /\ b.run = proc[p].run /\ b.key = proc[p].key
        /\ b.mem = proc[p].mem /\ b.token = proc[p].token
    BY <2>1, <2>3, SetPort
  <2> HIDE DEF b
  <2>5. /\ c \in ProcState /\ c.step = "connect" /\ c.port = control.port
        /\ c.token = control.token /\ c.run = proc[p].run
        /\ c.key = proc[p].key /\ c.mem = proc[p].mem
    BY <2>1, <2>4, SetToken
  <2> HIDE DEF c
  <2>6. Moves(p) /\ proc'[p] = c
    BY <2>2, <2>5, Replaces
  <2> QED
    BY <1>2, <2>1, <2>5, <2>6
<1> QED
  BY <1>1, <1>2

\* What Connect does to processes.
LEMMA ConnectMoves ==
  ASSUME TypeOK, Connecting, NEW p \in Process, Connect(p)
  PROVE  Moves(p) /\ proc'[p].step \in {"check", "request"} /\ proc'[p].run = proc[p].run
<1> DEFINE server == listener[proc[p].port]
<1>1. CASE server = None
  <2> DEFINE a == [proc[p] EXCEPT !.step = "check"]
  <2>1. /\ proc[p] \in ProcState
        /\ "check" \in Step
    BY <1>1, TypedFacts DEF Step
  <2>2. proc' = [proc EXCEPT ![p] = a]
    BY <1>1, <2>1 DEF Connect
  <2>3. /\ a \in ProcState /\ a.step = "check" /\ a.run = proc[p].run
        /\ a.key = proc[p].key /\ a.mem = proc[p].mem
        /\ a.port = proc[p].port /\ a.token = proc[p].token
    BY <2>1, SetStep
  <2> HIDE DEF a
  <2>4. Moves(p) /\ proc'[p] = a
    BY <2>2, <2>3, Replaces
  <2> QED
    BY <1>1, <2>1, <2>3, <2>4
<1>2. CASE server # None
  <2> DEFINE a == [proc[p] EXCEPT !.step = "request"]
             b == [a EXCEPT !.server = proc[server].run]
  <2>1. /\ proc[p] \in ProcState
        /\ "request" \in Step
        /\ proc[server].run \in Run \cup {None}
    BY <1>2, TypedFacts DEF TypeOK, Step, Connect, Connecting, At
  <2>2. proc' = [proc EXCEPT ![p] = b]
    BY <1>2, <2>1 DEF Connect
  <2>3. /\ a \in ProcState /\ a.step = "request" /\ a.run = proc[p].run
        /\ a.key = proc[p].key /\ a.mem = proc[p].mem
        /\ a.port = proc[p].port /\ a.token = proc[p].token
    BY <2>1, SetStep
  <2> HIDE DEF a
  <2>4. /\ b \in ProcState /\ b.step = "request"
        /\ b.server = proc[server].run /\ b.run = proc[p].run
        /\ b.key = proc[p].key /\ b.mem = proc[p].mem
        /\ b.port = proc[p].port /\ b.token = proc[p].token
    BY <2>1, <2>3, SetServer
  <2> HIDE DEF b
  <2>5. Moves(p) /\ proc'[p] = b
    BY <2>2, <2>4, Replaces
  <2> QED
    BY <1>2, <2>1, <2>4, <2>5
<1> QED
  BY <1>1, <1>2

\* A service that answers has a state in memory, and stores the run of the command.
LEMMA NextState ==
  ASSUME TypeOK, RunKnown, MemoryIsCurrent, NEW p \in Process, NEW s \in Process,
         proc[p].step = "request", proc[s].step = "serving"
  PROVE  /\ proc[s].mem \in State /\ proc[p].run \in Run
         /\ [proc[s].mem EXCEPT !.mesh = proc[p].run] \in State
         /\ [proc[s].mem EXCEPT !.mesh = proc[p].run].id = proc[s].mem.id
         /\ [proc[s].mem EXCEPT !.mesh = proc[p].run].mesh = proc[p].run
<1>1. proc[s].mem \in State /\ proc[p].run \in Run
  BY TypedFacts DEF RunKnown, MemoryIsCurrent, Current, At, ProcState
<1> QED
  BY <1>1 DEF State

\* What Execute does to processes.
LEMMA ExecuteMoves ==
  ASSUME TypeOK, RunKnown, MemoryIsCurrent, NEW p \in Process, NEW s \in Process,
         NEW outcome \in Outcome, NEW delivered \in BOOLEAN,
         Execute(p, s, outcome, delivered)
  PROVE  /\ proc' \in [Process -> ProcState]
         /\ proc'[p].step = "idle" /\ proc'[s].step = "serving" /\ p # s
         /\ proc'[s].run = proc[s].run /\ proc'[s].port = proc[s].port
         /\ proc'[s].token = proc[s].token
         /\ proc'[s].mem = IF NoMesh(proc[s].mem) /\ outcome = "saved"
                           THEN [proc[s].mem EXCEPT !.mesh = proc[p].run]
                           ELSE proc[s].mem
         /\ \A q \in Process : q # p /\ q # s => proc'[q] = proc[q]
<1> DEFINE next == [proc[s].mem EXCEPT !.mesh = proc[p].run]
           r == [proc[s] EXCEPT !.mem = next]
<1>1. /\ proc[p].step = "request" /\ proc[s].step = "serving" /\ p # s
      /\ proc[p] \in ProcState /\ proc[s] \in ProcState
  BY TypedFacts DEF Execute
<1>2. next \in State \cup {None}
  BY <1>1, NextState
<1>3. \/ /\ NoMesh(proc[s].mem) /\ outcome = "saved"
         /\ proc' = [proc EXCEPT ![p] = Idle, ![s] = r]
      \/ /\ ~(NoMesh(proc[s].mem) /\ outcome = "saved")
         /\ proc' = [proc EXCEPT ![p] = Idle]
  BY <1>1 DEF Execute
<1> HIDE DEF next
<1>4. /\ r \in ProcState /\ r.mem = next /\ r.step = "serving" /\ r.run = proc[s].run
      /\ r.port = proc[s].port /\ r.token = proc[s].token
  BY <1>1, <1>2, SetMem
<1> HIDE DEF r
<1>5. CASE ~(NoMesh(proc[s].mem) /\ outcome = "saved")
  BY <1>1, <1>3, <1>5, EndEnds DEF Ends, Moves
<1>6. CASE NoMesh(proc[s].mem) /\ outcome = "saved"
  <2>1. proc' = [proc EXCEPT ![p] = Idle, ![s] = r]
    BY <1>3, <1>6
  <2>2. /\ proc' \in [Process -> ProcState] /\ proc'[p] = Idle /\ proc'[s] = r
        /\ \A q \in Process : q # p /\ q # s => proc'[q] = proc[q]
    BY <1>1, <1>4, <2>1, TypedFacts, IdleType
  <2> QED
    BY <1>1, <1>4, <1>6, <2>2, IdleType DEF next
<1> QED
  BY <1>5, <1>6

\* None is nothing else.
LEMMA NoneFacts == None \notin Run \cup Port \cup Process \cup State
  BY NodeDirectoryAssumption DEF Run

\* What NewState saves.
LEMMA NewStateSaves ==
  ASSUME TypeOK, InitKnows, NEW p \in Process, NEW outcome \in Outcome, NewState(p,
         outcome)
  PROVE  /\ state = None
         /\ state' # None => /\ state' \in State /\ key # None /\ state'.id = key
                            /\ state'.mesh = None
<1> DEFINE next == [id |-> proc[p].key, mesh |-> None]
<1>1. state = None /\ key \in Run /\ proc[p].key = key
  BY DEF NewState, InitKnows, At, TypeOK
<1>2. next \in State
  BY <1>1 DEF State
<1>3. state' \in {state, next}
  BY DEF NewState, Replaced
<1> QED
  BY <1>1, <1>2, <1>3, NoneFacts

\* What CreateOffline saves.
LEMMA CreateOfflineSaves ==
  ASSUME TypeOK, RunKnown, StateStays, MemoryIsCurrent, NEW p \in Process,
         NEW outcome \in Outcome, CreateOffline(p, outcome)
  PROVE  /\ state # None /\ proc[p].mem = state
         /\ \/ state' = state /\ reported' = reported
            \/ /\ state.mesh = None /\ proc[p].run \in Run
               /\ state' \in State /\ state'.id = state.id /\ state'.mesh = proc[p].run
               /\ reported' \in {reported, reported \cup {proc[p].run}}
<1> DEFINE next == [proc[p].mem EXCEPT !.mesh = proc[p].run]
<1>1. state \in State /\ proc[p].mem = state /\ proc[p].run \in Run
  BY DEF CreateOffline, StateStays, MemoryIsCurrent, Current, RunKnown, At, TypeOK
<1>2. next \in State /\ next.id = state.id /\ next.mesh = proc[p].run
  BY <1>1 DEF State
<1>3. \/ state' = state /\ reported' = reported
      \/ /\ state.mesh = None /\ state' \in {state, next}
         /\ state' = next \/ reported' = reported
         /\ reported' \in {reported, reported \cup {proc[p].run}}
  BY <1>1 DEF CreateOffline, NoMesh, Replaced, Outcome
<1> HIDE DEF next
<1> QED
  BY <1>1, <1>2, <1>3, NoneFacts

\* What Execute saves.
LEMMA ExecuteSaves ==
  ASSUME TypeOK, RunKnown, MemoryIsCurrent, NEW p \in Process, NEW s \in Process,
         NEW outcome \in Outcome, NEW delivered \in BOOLEAN,
         Execute(p, s, outcome, delivered)
  PROVE  /\ state # None /\ proc[s].mem \in State /\ proc'[s].mem \in State
         /\ proc'[s].mem.id = proc[s].mem.id
         /\ \/ /\ state' = state /\ reported' = reported
               /\ proc'[s].mem = proc[s].mem
            \/ /\ proc[s].mem.mesh = None /\ proc[p].run \in Run
               /\ state' \in State /\ state'.id = state.id /\ state'.mesh = proc[p].run
               /\ \/ proc'[s].mem = proc[s].mem /\ reported' = reported
                  \/ /\ proc'[s].mem.mesh = proc[p].run
                     /\ reported' \in {reported, reported \cup {proc[p].run}}
<1> DEFINE next == [proc[s].mem EXCEPT !.mesh = proc[p].run]
<1>1. proc[p].step = "request" /\ proc[s].step = "serving"
  BY DEF Execute
<1>2. /\ proc[s].mem \in State /\ proc[p].run \in Run
      /\ next \in State /\ next.id = proc[s].mem.id /\ next.mesh = proc[p].run
  BY <1>1, NextState
<1>3. state # None /\ state.id = proc[s].mem.id
  BY <1>1 DEF MemoryIsCurrent, Current, At
<1>4. proc'[s].mem = IF NoMesh(proc[s].mem) /\ outcome = "saved" THEN next
                    ELSE proc[s].mem
  BY ExecuteMoves
<1>5. \/ state' = state /\ reported' = reported /\ proc'[s].mem = proc[s].mem
      \/ /\ proc[s].mem.mesh = None
         /\ \/ state' = next /\ reported' = reported /\ proc'[s].mem = proc[s].mem
            \/ /\ state' = next /\ proc'[s].mem = next
               /\ reported' \in {reported, reported \cup {proc[p].run}}
  BY <1>4 DEF Execute, NoMesh, Replaced, Outcome
<1> HIDE DEF next
<1> QED
  BY <1>2, <1>3, <1>5

-----------------------------------------------------------------------------
(* Every action with what it does to the processes and what it saves, as the  *)
(* lemmas above show it *)

StartedDone(p) ==
  /\ Started(p)
  /\ Moves(p) /\ proc'[p].step \in {"lock", "check", "control"} /\ proc'[p].run \in Run

InitLockDone(p) ==
  /\ InitLock(p)
  /\ IF lock = None THEN Goes(p, "key") ELSE Ends(p)

InitKeyDone(p) ==
  /\ InitKey(p)
  /\ IF key = None /\ state # None THEN Ends(p)
     ELSE /\ Moves(p) /\ proc'[p].run = proc[p].run /\ proc'[p].key = key
          /\ proc'[p].step = IF key # None THEN "state" ELSE "new key"

InitStateDone(p) ==
  /\ InitState(p)
  /\ IF state = None THEN Goes(p, "new state") ELSE Ends(p)

OpenCheckDone(p) ==
  /\ OpenCheck(p)
  /\ IF state # None THEN Goes(p, "open") ELSE Ends(p)

OpenLockDone(p) ==
  /\ OpenLock(p)
  /\ IF lock = None THEN Goes(p, "read") ELSE Ends(p)

OpenReadDone(p) ==
  /\ OpenRead(p)
  /\ IF key = state.id
     THEN /\ Moves(p) /\ proc'[p].run = proc[p].run /\ proc'[p].mem = state
          /\ proc'[p].step \in {"bind", "save"}
     ELSE Ends(p)

ListenDone(p, port) ==
  /\ Listen(p, port)
  /\ Moves(p) /\ proc'[p].step = "publish" /\ proc'[p].run = proc[p].run
  /\ proc'[p].mem = proc[p].mem /\ proc'[p].port = port
  /\ proc'[p].token = proc[p].run

InterruptDone(p) ==
  /\ Interrupt(p)
  /\ Goes(p, "guard")

RemoveControlDone(p) ==
  /\ RemoveControl(p)
  /\ Goes(p, "close")

CloseListenerDone(p) ==
  /\ CloseListener(p)
  /\ Goes(p, "unlock")

DropNodeDone(p) ==
  /\ DropNode(p)
  /\ Ends(p)

ReadControlDone(p) ==
  /\ ReadControl(p)
  /\ Moves(p) /\ proc'[p].run = proc[p].run
  /\ proc'[p].step \in {"check", "connect"}
  /\ proc'[p].step = "connect" => proc'[p].port \in Port

ConnectDone(p) ==
  /\ Connect(p)
  /\ Moves(p) /\ proc'[p].step \in {"check", "request"} /\ proc'[p].run = proc[p].run

RequestFailsDone(p) ==
  /\ RequestFails(p)
  /\ Ends(p)

NewKeyDone(p, outcome) ==
  /\ NewKey(p, outcome)
  /\ IF outcome = "saved"
     THEN /\ Moves(p) /\ proc'[p].run = proc[p].run /\ proc'[p].key = proc[p].run
          /\ proc'[p].step = "state"
     ELSE Ends(p)

NewStateDone(p, outcome) ==
  /\ NewState(p, outcome)
  /\ Ends(p)
  /\ state = None
  /\ state' # None => /\ state' \in State /\ key # None /\ state'.id = key
                     /\ state'.mesh = None

WriteControlDone(p, outcome) ==
  /\ WriteControl(p, outcome)
  /\ IF outcome = "saved" THEN Goes(p, "serving") ELSE Ends(p)

CreateOfflineDone(p, outcome) ==
  /\ CreateOffline(p, outcome)
  /\ Ends(p)
  /\ state # None /\ proc[p].mem = state
  /\ \/ state' = state /\ reported' = reported
     \/ /\ state.mesh = None /\ proc[p].run \in Run
        /\ state' \in State /\ state'.id = state.id /\ state'.mesh = proc[p].run
        /\ reported' \in {reported, reported \cup {proc[p].run}}

ExecuteDone(p, s, outcome, delivered) ==
  /\ Execute(p, s, outcome, delivered)
  /\ proc' \in [Process -> ProcState]
  /\ proc'[p].step = "idle" /\ proc'[s].step = "serving" /\ p # s
  /\ proc'[s].run = proc[s].run /\ proc'[s].port = proc[s].port
  /\ proc'[s].token = proc[s].token
  /\ proc'[s].mem = IF NoMesh(proc[s].mem) /\ outcome = "saved"
                    THEN [proc[s].mem EXCEPT !.mesh = proc[p].run]
                    ELSE proc[s].mem
  /\ \A q \in Process : q # p /\ q # s => proc'[q] = proc[q]
  /\ state # None /\ proc[s].mem \in State /\ proc'[s].mem \in State
  /\ proc'[s].mem.id = proc[s].mem.id
  /\ \/ /\ state' = state /\ reported' = reported
        /\ proc'[s].mem = proc[s].mem
     \/ /\ proc[s].mem.mesh = None /\ proc[p].run \in Run
        /\ state' \in State /\ state'.id = state.id /\ state'.mesh = proc[p].run
        /\ \/ proc'[s].mem = proc[s].mem /\ reported' = reported
           \/ /\ proc'[s].mem.mesh = proc[p].run
              /\ reported' \in {reported, reported \cup {proc[p].run}}

CrashDone(p) ==
  /\ Crash(p)
  /\ Ends(p)

Moved ==
  \E p \in Process :
    \/ StartedDone(p)
    \/ InitLockDone(p) \/ InitKeyDone(p) \/ InitStateDone(p)
    \/ OpenCheckDone(p) \/ OpenLockDone(p) \/ OpenReadDone(p)
    \/ \E port \in Port : ListenDone(p, port)
    \/ InterruptDone(p) \/ RemoveControlDone(p) \/ CloseListenerDone(p) \/ DropNodeDone(p)
    \/ ReadControlDone(p) \/ ConnectDone(p) \/ RequestFailsDone(p)
    \/ \E outcome \in Outcome :
         \/ NewKeyDone(p, outcome) \/ NewStateDone(p, outcome)
         \/ WriteControlDone(p, outcome) \/ CreateOfflineDone(p, outcome)
         \/ \E s \in Process, delivered \in BOOLEAN :
              ExecuteDone(p, s, outcome, delivered)
    \/ CrashDone(p)

\* The actions do what is stated of them.
LEMMA NextMoves ==
  /\ TypeOK /\ RunKnown /\ InitKnows /\ StateStays /\ MemoryIsCurrent /\ Connecting
  /\ [Next]_vars
  => Moved \/ UNCHANGED vars
<1> SUFFICES ASSUME TypeOK, RunKnown, InitKnows, StateStays, MemoryIsCurrent, Connecting,
                    Next
             PROVE  Moved
  OBVIOUS
<1>1. \A p \in Process :
        Started(p) => StartedDone(p)
  BY StartedMoves DEF StartedDone
<1>2. \A p \in Process :
        InitLock(p) => InitLockDone(p)
  BY InitLockMoves DEF InitLockDone
<1>3. \A p \in Process :
        InitKey(p) => InitKeyDone(p)
  BY InitKeyMoves DEF InitKeyDone
<1>4. \A p \in Process :
        InitState(p) => InitStateDone(p)
  BY InitStateMoves DEF InitStateDone
<1>5. \A p \in Process :
        OpenCheck(p) => OpenCheckDone(p)
  BY OpenCheckMoves DEF OpenCheckDone
<1>6. \A p \in Process :
        OpenLock(p) => OpenLockDone(p)
  BY OpenLockMoves DEF OpenLockDone
<1>7. \A p \in Process :
        OpenRead(p) => OpenReadDone(p)
  BY OpenReadMoves DEF OpenReadDone
<1>8. \A p \in Process, port \in Port :
        Listen(p, port) => ListenDone(p, port)
  BY ListenMoves DEF ListenDone
<1>9. \A p \in Process :
        Interrupt(p) => InterruptDone(p)
  BY InterruptMoves DEF InterruptDone
<1>10. \A p \in Process :
        RemoveControl(p) => RemoveControlDone(p)
  BY RemoveControlMoves DEF RemoveControlDone
<1>11. \A p \in Process :
        CloseListener(p) => CloseListenerDone(p)
  BY CloseListenerMoves DEF CloseListenerDone
<1>12. \A p \in Process :
        DropNode(p) => DropNodeDone(p)
  BY DropNodeMoves DEF DropNodeDone
<1>13. \A p \in Process :
        ReadControl(p) => ReadControlDone(p)
  BY ReadControlMoves DEF ReadControlDone
<1>14. \A p \in Process :
        Connect(p) => ConnectDone(p)
  BY ConnectMoves DEF ConnectDone
<1>15. \A p \in Process :
        RequestFails(p) => RequestFailsDone(p)
  BY RequestFailsMoves DEF RequestFailsDone
<1>16. \A p \in Process, outcome \in Outcome :
        NewKey(p, outcome) => NewKeyDone(p, outcome)
  BY NewKeyMoves DEF NewKeyDone
<1>17. \A p \in Process, outcome \in Outcome :
        NewState(p, outcome) => NewStateDone(p, outcome)
  BY NewStateMoves, NewStateSaves DEF NewStateDone
<1>18. \A p \in Process, outcome \in Outcome :
        WriteControl(p, outcome) => WriteControlDone(p, outcome)
  BY WriteControlMoves DEF WriteControlDone
<1>19. \A p \in Process, outcome \in Outcome :
        CreateOffline(p, outcome) => CreateOfflineDone(p, outcome)
  BY CreateOfflineMoves, CreateOfflineSaves DEF CreateOfflineDone
<1>20. \A p \in Process, s \in Process, outcome \in Outcome, delivered \in BOOLEAN :
        Execute(p, s, outcome, delivered) => ExecuteDone(p, s, outcome, delivered)
  BY ExecuteMoves, ExecuteSaves DEF ExecuteDone
<1>21. \A p \in Process :
        Crash(p) => CrashDone(p)
  BY CrashMoves DEF CrashDone
<1> QED
  BY <1>1, <1>2, <1>3, <1>4, <1>5, <1>6, <1>7, <1>8, <1>9, <1>10, <1>11,
     <1>12, <1>13, <1>14, <1>15, <1>16, <1>17, <1>18, <1>19, <1>20,
     <1>21 DEF Next, Started, Moved

\* A process inside holds the lock.
LEMMA LockHeldStep ==
  LockHeld /\ (Moved \/ UNCHANGED vars) => LockHeld'
<1> SUFFICES ASSUME LockHeld, Moved \/ UNCHANGED vars
             PROVE  LockHeld'
  OBVIOUS
<1> USE NoneFacts
<1>1. ASSUME NEW p \in Process, StartedDone(p)  PROVE  LockHeld'
  BY <1>1 DEF StartedDone, LockHeld, At, Inside, Started, Start, files, Moves
<1>2. ASSUME NEW p \in Process, InitLockDone(p)  PROVE  LockHeld'
  <2>1. CASE lock = None
    <3>1. \A q \in Process : ~At(q, Inside)
      BY <2>1, NoneFacts DEF LockHeld
    <3>2. lock' = p /\ Goes(p, "key")
      BY <1>2, <2>1 DEF InitLock, InitLockDone
    <3> QED
      BY <3>1, <3>2 DEF LockHeld, At, Goes, Moves
  <2>2. CASE lock # None
    <3>1. Ends(p) /\ lock' = IF lock = p THEN None ELSE lock
      BY <1>2, <2>2 DEF InitLock, End, Release, InitLockDone
    <3> QED
      BY <3>1 DEF LockHeld, At, Inside, Ends, Moves
  <2> QED
    BY <2>1, <2>2
<1>3. ASSUME NEW p \in Process, InitKeyDone(p)  PROVE  LockHeld'
  BY <1>3
  DEF InitKeyDone, LockHeld, At, Inside, InitKey, files, End, Release, Moves, Ends
<1>4. ASSUME NEW p \in Process, InitStateDone(p)  PROVE  LockHeld'
  BY <1>4
  DEF InitStateDone, LockHeld, At, Inside, InitState, files, End, Release, Moves,
      Goes, Ends
<1>5. ASSUME NEW p \in Process, OpenCheckDone(p)  PROVE  LockHeld'
  BY <1>5
  DEF OpenCheckDone, LockHeld, At, Inside, OpenCheck, files, End, Release, Moves,
      Goes, Ends
<1>6. ASSUME NEW p \in Process, OpenLockDone(p)  PROVE  LockHeld'
  <2>1. CASE lock = None
    <3>1. \A q \in Process : ~At(q, Inside)
      BY <2>1, NoneFacts DEF LockHeld
    <3>2. lock' = p /\ Goes(p, "read")
      BY <1>6, <2>1 DEF OpenLock, OpenLockDone
    <3> QED
      BY <3>1, <3>2 DEF LockHeld, At, Goes, Moves
  <2>2. CASE lock # None
    <3>1. Ends(p) /\ lock' = IF lock = p THEN None ELSE lock
      BY <1>6, <2>2 DEF OpenLock, End, Release, OpenLockDone
    <3> QED
      BY <3>1 DEF LockHeld, At, Inside, Ends, Moves
  <2> QED
    BY <2>1, <2>2
<1>7. ASSUME NEW p \in Process, OpenReadDone(p)  PROVE  LockHeld'
  BY <1>7
  DEF OpenReadDone, LockHeld, At, Inside, OpenRead, files, End, Release, Moves,
      Ends
<1>8. ASSUME NEW p \in Process, NEW port \in Port, ListenDone(p, port)
     PROVE  LockHeld'
  BY <1>8 DEF ListenDone, LockHeld, At, Inside, Listen, files, Moves
<1>9. ASSUME NEW p \in Process, InterruptDone(p)  PROVE  LockHeld'
  BY <1>9 DEF InterruptDone, LockHeld, At, Inside, Interrupt, files, Moves, Goes
<1>10. ASSUME NEW p \in Process, RemoveControlDone(p)  PROVE  LockHeld'
  BY <1>10
  DEF RemoveControlDone, LockHeld, At, Inside, RemoveControl, files, Moves, Goes
<1>11. ASSUME NEW p \in Process, CloseListenerDone(p)  PROVE  LockHeld'
  BY <1>11
  DEF CloseListenerDone, LockHeld, At, Inside, CloseListener, files, Moves, Goes
<1>12. ASSUME NEW p \in Process, DropNodeDone(p)  PROVE  LockHeld'
  BY <1>12
  DEF DropNodeDone, LockHeld, At, Inside, DropNode, files, End, Release, Moves,
      Ends
<1>13. ASSUME NEW p \in Process, ReadControlDone(p)  PROVE  LockHeld'
  BY <1>13 DEF ReadControlDone, LockHeld, At, Inside, ReadControl, files, Moves
<1>14. ASSUME NEW p \in Process, ConnectDone(p)  PROVE  LockHeld'
  BY <1>14 DEF ConnectDone, LockHeld, At, Inside, Connect, files, Moves
<1>15. ASSUME NEW p \in Process, RequestFailsDone(p)  PROVE  LockHeld'
  BY <1>15
  DEF RequestFailsDone, LockHeld, At, Inside, RequestFails, files, Moves, Ends
<1>16. ASSUME NEW p \in Process, NEW outcome \in Outcome, NewKeyDone(p, outcome)
     PROVE  LockHeld'
  BY <1>16
  DEF NewKeyDone, LockHeld, At, Inside, NewKey, files, End, Release, Replaced,
      Outcome, Moves, Ends
<1>17. ASSUME NEW p \in Process, NEW outcome \in Outcome, NewStateDone(p, outcome)
     PROVE  LockHeld'
  BY <1>17
  DEF NewStateDone, LockHeld, At, Inside, NewState, files, End, Release, Replaced,
      Outcome, Moves, Ends
<1>18. ASSUME NEW p \in Process, NEW outcome \in Outcome, WriteControlDone(p, outcome)
     PROVE  LockHeld'
  BY <1>18
  DEF WriteControlDone, LockHeld, At, Inside, WriteControl, files, End, Release,
      Replaced, Outcome, Moves, Goes, Ends
<1>19. ASSUME NEW p \in Process, NEW outcome \in Outcome, CreateOfflineDone(p, outcome)
     PROVE  LockHeld'
  BY <1>19
  DEF CreateOfflineDone, LockHeld, At, Inside, CreateOffline, files, End, Release,
      Replaced, Outcome, Moves, Ends, NoMesh
<1>20. ASSUME NEW p \in Process, NEW s \in Process, NEW outcome \in Outcome,
              NEW delivered \in BOOLEAN, ExecuteDone(p, s, outcome, delivered)
     PROVE  LockHeld'
  BY <1>20
  DEF ExecuteDone, LockHeld, At, Inside, Execute, files, Replaced, Outcome, Moves
<1>21. ASSUME NEW p \in Process, CrashDone(p)  PROVE  LockHeld'
  BY <1>21
  DEF CrashDone, LockHeld, At, Inside, Crash, files, End, Release, Moves, Ends
<1>22. CASE UNCHANGED vars
  BY <1>22 DEF vars, LockHeld, At, Inside
<1>23. QED
  BY <1>1, <1>2, <1>3, <1>4, <1>5, <1>6, <1>7, <1>8, <1>9, <1>10, <1>11,
     <1>12, <1>13, <1>14, <1>15, <1>16, <1>17, <1>18, <1>19, <1>20,
     <1>21, <1>22
  DEF Moved

\* Every program has a run.
LEMMA RunKnownStep ==
  RunKnown /\ (Moved \/ UNCHANGED vars) => RunKnown'
<1> SUFFICES ASSUME RunKnown, Moved \/ UNCHANGED vars
             PROVE  RunKnown'
  OBVIOUS
<1> USE NoneFacts
<1>1. ASSUME NEW p \in Process, StartedDone(p)  PROVE  RunKnown'
  BY <1>1 DEF StartedDone, RunKnown, Started, Start, files, Moves
<1>2. ASSUME NEW p \in Process, InitLockDone(p)  PROVE  RunKnown'
  BY <1>2 DEF InitLockDone, RunKnown, InitLock, files, End, Release, Moves, Goes, Ends
<1>3. ASSUME NEW p \in Process, InitKeyDone(p)  PROVE  RunKnown'
  BY <1>3 DEF InitKeyDone, RunKnown, InitKey, files, End, Release, Moves, Ends
<1>4. ASSUME NEW p \in Process, InitStateDone(p)  PROVE  RunKnown'
  BY <1>4
  DEF InitStateDone, RunKnown, InitState, files, End, Release, Moves, Goes, Ends
<1>5. ASSUME NEW p \in Process, OpenCheckDone(p)  PROVE  RunKnown'
  BY <1>5
  DEF OpenCheckDone, RunKnown, OpenCheck, files, End, Release, Moves, Goes, Ends
<1>6. ASSUME NEW p \in Process, OpenLockDone(p)  PROVE  RunKnown'
  BY <1>6 DEF OpenLockDone, RunKnown, OpenLock, files, End, Release, Moves, Goes, Ends
<1>7. ASSUME NEW p \in Process, OpenReadDone(p)  PROVE  RunKnown'
  BY <1>7 DEF OpenReadDone, RunKnown, OpenRead, files, End, Release, Moves, Ends
<1>8. ASSUME NEW p \in Process, NEW port \in Port, ListenDone(p, port)
     PROVE  RunKnown'
  BY <1>8 DEF ListenDone, RunKnown, Listen, files, Moves
<1>9. ASSUME NEW p \in Process, InterruptDone(p)  PROVE  RunKnown'
  BY <1>9 DEF InterruptDone, RunKnown, Interrupt, files, Moves, Goes
<1>10. ASSUME NEW p \in Process, RemoveControlDone(p)  PROVE  RunKnown'
  BY <1>10 DEF RemoveControlDone, RunKnown, RemoveControl, files, Moves, Goes
<1>11. ASSUME NEW p \in Process, CloseListenerDone(p)  PROVE  RunKnown'
  BY <1>11 DEF CloseListenerDone, RunKnown, CloseListener, files, Moves, Goes
<1>12. ASSUME NEW p \in Process, DropNodeDone(p)  PROVE  RunKnown'
  BY <1>12 DEF DropNodeDone, RunKnown, DropNode, files, End, Release, Moves, Ends
<1>13. ASSUME NEW p \in Process, ReadControlDone(p)  PROVE  RunKnown'
  BY <1>13 DEF ReadControlDone, RunKnown, ReadControl, files, Moves
<1>14. ASSUME NEW p \in Process, ConnectDone(p)  PROVE  RunKnown'
  BY <1>14 DEF ConnectDone, RunKnown, Connect, files, Moves
<1>15. ASSUME NEW p \in Process, RequestFailsDone(p)  PROVE  RunKnown'
  BY <1>15 DEF RequestFailsDone, RunKnown, RequestFails, files, Moves, Ends
<1>16. ASSUME NEW p \in Process, NEW outcome \in Outcome, NewKeyDone(p, outcome)
     PROVE  RunKnown'
  BY <1>16
  DEF NewKeyDone, RunKnown, NewKey, files, End, Release, Replaced, Outcome, Moves,
      Ends
<1>17. ASSUME NEW p \in Process, NEW outcome \in Outcome, NewStateDone(p, outcome)
     PROVE  RunKnown'
  BY <1>17
  DEF NewStateDone, RunKnown, NewState, files, End, Release, Replaced, Outcome,
      Moves, Ends
<1>18. ASSUME NEW p \in Process, NEW outcome \in Outcome, WriteControlDone(p, outcome)
     PROVE  RunKnown'
  BY <1>18
  DEF WriteControlDone, RunKnown, WriteControl, files, End, Release, Replaced,
      Outcome, Moves, Goes, Ends
<1>19. ASSUME NEW p \in Process, NEW outcome \in Outcome, CreateOfflineDone(p, outcome)
     PROVE  RunKnown'
  BY <1>19
  DEF CreateOfflineDone, RunKnown, CreateOffline, files, End, Release, Replaced,
      Outcome, Moves, Ends, NoMesh
<1>20. ASSUME NEW p \in Process, NEW s \in Process, NEW outcome \in Outcome,
              NEW delivered \in BOOLEAN, ExecuteDone(p, s, outcome, delivered)
     PROVE  RunKnown'
  BY <1>20 DEF ExecuteDone, RunKnown, Execute, files, Replaced, Outcome, Moves
<1>21. ASSUME NEW p \in Process, CrashDone(p)  PROVE  RunKnown'
  BY <1>21 DEF CrashDone, RunKnown, Crash, files, End, Release, Moves, Ends
<1>22. CASE UNCHANGED vars
  BY <1>22 DEF vars, RunKnown
<1>23. QED
  BY <1>1, <1>2, <1>3, <1>4, <1>5, <1>6, <1>7, <1>8, <1>9, <1>10, <1>11,
     <1>12, <1>13, <1>14, <1>15, <1>16, <1>17, <1>18, <1>19, <1>20,
     <1>21, <1>22
  DEF Moved

\* Initialisation sees the key and the state that nobody else writes.
LEMMA InitKnowsStep ==
  RunKnown /\ LockHeld /\ InitKnows /\ (Moved \/ UNCHANGED vars) => InitKnows'
<1> SUFFICES ASSUME RunKnown, LockHeld, InitKnows, Moved \/ UNCHANGED vars
             PROVE  InitKnows'
  OBVIOUS
<1> USE NoneFacts
<1>1. ASSUME NEW p \in Process, StartedDone(p)  PROVE  InitKnows'
  BY <1>1
  DEF StartedDone, RunKnown, LockHeld, InitKnows, At, Inside, Started, Start,
      files, Moves
<1>2. ASSUME NEW p \in Process, InitLockDone(p)  PROVE  InitKnows'
  BY <1>2
  DEF InitLockDone, RunKnown, LockHeld, InitKnows, At, Inside, InitLock, files,
      End, Release, Moves, Goes, Ends
<1>3. ASSUME NEW p \in Process, InitKeyDone(p)  PROVE  InitKnows'
  BY <1>3
  DEF InitKeyDone, RunKnown, LockHeld, InitKnows, At, Inside, InitKey, files, End,
      Release, Moves, Ends
<1>4. ASSUME NEW p \in Process, InitStateDone(p)  PROVE  InitKnows'
  BY <1>4
  DEF InitStateDone, RunKnown, LockHeld, InitKnows, At, Inside, InitState, files,
      End, Release, Moves, Goes, Ends
<1>5. ASSUME NEW p \in Process, OpenCheckDone(p)  PROVE  InitKnows'
  BY <1>5
  DEF OpenCheckDone, RunKnown, LockHeld, InitKnows, At, Inside, OpenCheck, files,
      End, Release, Moves, Goes, Ends
<1>6. ASSUME NEW p \in Process, OpenLockDone(p)  PROVE  InitKnows'
  BY <1>6
  DEF OpenLockDone, RunKnown, LockHeld, InitKnows, At, Inside, OpenLock, files,
      End, Release, Moves, Goes, Ends
<1>7. ASSUME NEW p \in Process, OpenReadDone(p)  PROVE  InitKnows'
  BY <1>7
  DEF OpenReadDone, RunKnown, LockHeld, InitKnows, At, Inside, OpenRead, files,
      End, Release, Moves, Ends
<1>8. ASSUME NEW p \in Process, NEW port \in Port, ListenDone(p, port)
     PROVE  InitKnows'
  BY <1>8
  DEF ListenDone, RunKnown, LockHeld, InitKnows, At, Inside, Listen, files, Moves
<1>9. ASSUME NEW p \in Process, InterruptDone(p)  PROVE  InitKnows'
  BY <1>9
  DEF InterruptDone, RunKnown, LockHeld, InitKnows, At, Inside, Interrupt, files,
      Moves, Goes
<1>10. ASSUME NEW p \in Process, RemoveControlDone(p)  PROVE  InitKnows'
  BY <1>10
  DEF RemoveControlDone, RunKnown, LockHeld, InitKnows, At, Inside, RemoveControl,
      files, Moves, Goes
<1>11. ASSUME NEW p \in Process, CloseListenerDone(p)  PROVE  InitKnows'
  BY <1>11
  DEF CloseListenerDone, RunKnown, LockHeld, InitKnows, At, Inside, CloseListener,
      files, Moves, Goes
<1>12. ASSUME NEW p \in Process, DropNodeDone(p)  PROVE  InitKnows'
  BY <1>12
  DEF DropNodeDone, RunKnown, LockHeld, InitKnows, At, Inside, DropNode, files,
      End, Release, Moves, Ends
<1>13. ASSUME NEW p \in Process, ReadControlDone(p)  PROVE  InitKnows'
  BY <1>13
  DEF ReadControlDone, RunKnown, LockHeld, InitKnows, At, Inside, ReadControl,
      files, Moves
<1>14. ASSUME NEW p \in Process, ConnectDone(p)  PROVE  InitKnows'
  BY <1>14
  DEF ConnectDone, RunKnown, LockHeld, InitKnows, At, Inside, Connect, files,
      Moves
<1>15. ASSUME NEW p \in Process, RequestFailsDone(p)  PROVE  InitKnows'
  BY <1>15
  DEF RequestFailsDone, RunKnown, LockHeld, InitKnows, At, Inside, RequestFails,
      files, Moves, Ends
<1>16. ASSUME NEW p \in Process, NEW outcome \in Outcome, NewKeyDone(p, outcome)
     PROVE  InitKnows'
  BY <1>16
  DEF NewKeyDone, RunKnown, LockHeld, InitKnows, At, Inside, NewKey, files, End,
      Release, Replaced, Outcome, Moves, Ends
<1>17. ASSUME NEW p \in Process, NEW outcome \in Outcome, NewStateDone(p, outcome)
     PROVE  InitKnows'
  BY <1>17
  DEF NewStateDone, RunKnown, LockHeld, InitKnows, At, Inside, NewState, files,
      End, Release, Replaced, Outcome, Moves, Ends
<1>18. ASSUME NEW p \in Process, NEW outcome \in Outcome, WriteControlDone(p, outcome)
     PROVE  InitKnows'
  BY <1>18
  DEF WriteControlDone, RunKnown, LockHeld, InitKnows, At, Inside, WriteControl,
      files, End, Release, Replaced, Outcome, Moves, Goes, Ends
<1>19. ASSUME NEW p \in Process, NEW outcome \in Outcome, CreateOfflineDone(p, outcome)
     PROVE  InitKnows'
  BY <1>19
  DEF CreateOfflineDone, RunKnown, LockHeld, InitKnows, At, Inside, CreateOffline,
      files, End, Release, Replaced, Outcome, Moves, Ends, NoMesh
<1>20. ASSUME NEW p \in Process, NEW s \in Process, NEW outcome \in Outcome,
              NEW delivered \in BOOLEAN, ExecuteDone(p, s, outcome, delivered)
     PROVE  InitKnows'
  BY <1>20
  DEF ExecuteDone, RunKnown, LockHeld, InitKnows, At, Inside, Execute, files,
      Replaced, Outcome, Moves
<1>21. ASSUME NEW p \in Process, CrashDone(p)  PROVE  InitKnows'
  BY <1>21
  DEF CrashDone, RunKnown, LockHeld, InitKnows, At, Inside, Crash, files, End,
      Release, Moves, Ends
<1>22. CASE UNCHANGED vars
  BY <1>22 DEF vars, RunKnown, LockHeld, InitKnows, At, Inside
<1>23. QED
  BY <1>1, <1>2, <1>3, <1>4, <1>5, <1>6, <1>7, <1>8, <1>9, <1>10, <1>11,
     <1>12, <1>13, <1>14, <1>15, <1>16, <1>17, <1>18, <1>19, <1>20,
     <1>21, <1>22
  DEF Moved

\* A state that was seen stays.
LEMMA StateStaysStep ==
  StateStays /\ (Moved \/ UNCHANGED vars) => StateStays'
<1> SUFFICES ASSUME StateStays, Moved \/ UNCHANGED vars
             PROVE  StateStays'
  OBVIOUS
<1> USE NoneFacts
<1>1. ASSUME NEW p \in Process, StartedDone(p)  PROVE  StateStays'
  BY <1>1 DEF StartedDone, StateStays, At, Started, Start, files, Moves
<1>2. ASSUME NEW p \in Process, InitLockDone(p)  PROVE  StateStays'
  BY <1>2
  DEF InitLockDone, StateStays, At, InitLock, files, End, Release, Moves, Goes,
      Ends
<1>3. ASSUME NEW p \in Process, InitKeyDone(p)  PROVE  StateStays'
  BY <1>3 DEF InitKeyDone, StateStays, At, InitKey, files, End, Release, Moves, Ends
<1>4. ASSUME NEW p \in Process, InitStateDone(p)  PROVE  StateStays'
  BY <1>4
  DEF InitStateDone, StateStays, At, InitState, files, End, Release, Moves, Goes,
      Ends
<1>5. ASSUME NEW p \in Process, OpenCheckDone(p)  PROVE  StateStays'
  BY <1>5
  DEF OpenCheckDone, StateStays, At, OpenCheck, files, End, Release, Moves, Goes,
      Ends
<1>6. ASSUME NEW p \in Process, OpenLockDone(p)  PROVE  StateStays'
  BY <1>6
  DEF OpenLockDone, StateStays, At, OpenLock, files, End, Release, Moves, Goes,
      Ends
<1>7. ASSUME NEW p \in Process, OpenReadDone(p)  PROVE  StateStays'
  BY <1>7 DEF OpenReadDone, StateStays, At, OpenRead, files, End, Release, Moves, Ends
<1>8. ASSUME NEW p \in Process, NEW port \in Port, ListenDone(p, port)
     PROVE  StateStays'
  BY <1>8 DEF ListenDone, StateStays, At, Listen, files, Moves
<1>9. ASSUME NEW p \in Process, InterruptDone(p)  PROVE  StateStays'
  BY <1>9 DEF InterruptDone, StateStays, At, Interrupt, files, Moves, Goes
<1>10. ASSUME NEW p \in Process, RemoveControlDone(p)  PROVE  StateStays'
  BY <1>10 DEF RemoveControlDone, StateStays, At, RemoveControl, files, Moves, Goes
<1>11. ASSUME NEW p \in Process, CloseListenerDone(p)  PROVE  StateStays'
  BY <1>11 DEF CloseListenerDone, StateStays, At, CloseListener, files, Moves, Goes
<1>12. ASSUME NEW p \in Process, DropNodeDone(p)  PROVE  StateStays'
  BY <1>12
  DEF DropNodeDone, StateStays, At, DropNode, files, End, Release, Moves, Ends
<1>13. ASSUME NEW p \in Process, ReadControlDone(p)  PROVE  StateStays'
  BY <1>13 DEF ReadControlDone, StateStays, At, ReadControl, files, Moves
<1>14. ASSUME NEW p \in Process, ConnectDone(p)  PROVE  StateStays'
  BY <1>14 DEF ConnectDone, StateStays, At, Connect, files, Moves
<1>15. ASSUME NEW p \in Process, RequestFailsDone(p)  PROVE  StateStays'
  BY <1>15 DEF RequestFailsDone, StateStays, At, RequestFails, files, Moves, Ends
<1>16. ASSUME NEW p \in Process, NEW outcome \in Outcome, NewKeyDone(p, outcome)
     PROVE  StateStays'
  BY <1>16
  DEF NewKeyDone, StateStays, At, NewKey, files, End, Release, Replaced, Outcome,
      Moves, Ends
<1>17. ASSUME NEW p \in Process, NEW outcome \in Outcome, NewStateDone(p, outcome)
     PROVE  StateStays'
  <2> QED
    BY <1>17 DEF StateStays, At, Moves, Ends, NewState, NewStateDone
<1>18. ASSUME NEW p \in Process, NEW outcome \in Outcome, WriteControlDone(p, outcome)
     PROVE  StateStays'
  BY <1>18
  DEF WriteControlDone, StateStays, At, WriteControl, files, End, Release,
      Replaced, Outcome, Moves, Goes, Ends
<1>19. ASSUME NEW p \in Process, NEW outcome \in Outcome, CreateOfflineDone(p, outcome)
     PROVE  StateStays'
  <2> QED
    BY <1>19 DEF StateStays, At, Moves, Ends, CreateOffline, CreateOfflineDone
<1>20. ASSUME NEW p \in Process, NEW s \in Process, NEW outcome \in Outcome,
              NEW delivered \in BOOLEAN, ExecuteDone(p, s, outcome, delivered)
     PROVE  StateStays'
  <2> QED
    BY <1>20 DEF StateStays, At, Moves, Execute, ExecuteDone
<1>21. ASSUME NEW p \in Process, CrashDone(p)  PROVE  StateStays'
  BY <1>21 DEF CrashDone, StateStays, At, Crash, files, End, Release, Moves, Ends
<1>22. CASE UNCHANGED vars
  BY <1>22 DEF vars, StateStays, At
<1>23. QED
  BY <1>1, <1>2, <1>3, <1>4, <1>5, <1>6, <1>7, <1>8, <1>9, <1>10, <1>11,
     <1>12, <1>13, <1>14, <1>15, <1>16, <1>17, <1>18, <1>19, <1>20,
     <1>21, <1>22
  DEF Moved

\* Commands connect to ports.
LEMMA ConnectingStep ==
  Connecting /\ (Moved \/ UNCHANGED vars) => Connecting'
<1> SUFFICES ASSUME Connecting, Moved \/ UNCHANGED vars
             PROVE  Connecting'
  OBVIOUS
<1> USE NoneFacts
<1>1. ASSUME NEW p \in Process, StartedDone(p)  PROVE  Connecting'
  BY <1>1 DEF StartedDone, Connecting, At, Started, Start, files, Moves
<1>2. ASSUME NEW p \in Process, InitLockDone(p)  PROVE  Connecting'
  BY <1>2
  DEF InitLockDone, Connecting, At, InitLock, files, End, Release, Moves, Goes,
      Ends
<1>3. ASSUME NEW p \in Process, InitKeyDone(p)  PROVE  Connecting'
  BY <1>3 DEF InitKeyDone, Connecting, At, InitKey, files, End, Release, Moves, Ends
<1>4. ASSUME NEW p \in Process, InitStateDone(p)  PROVE  Connecting'
  BY <1>4
  DEF InitStateDone, Connecting, At, InitState, files, End, Release, Moves, Goes,
      Ends
<1>5. ASSUME NEW p \in Process, OpenCheckDone(p)  PROVE  Connecting'
  BY <1>5
  DEF OpenCheckDone, Connecting, At, OpenCheck, files, End, Release, Moves, Goes,
      Ends
<1>6. ASSUME NEW p \in Process, OpenLockDone(p)  PROVE  Connecting'
  BY <1>6
  DEF OpenLockDone, Connecting, At, OpenLock, files, End, Release, Moves, Goes,
      Ends
<1>7. ASSUME NEW p \in Process, OpenReadDone(p)  PROVE  Connecting'
  BY <1>7 DEF OpenReadDone, Connecting, At, OpenRead, files, End, Release, Moves, Ends
<1>8. ASSUME NEW p \in Process, NEW port \in Port, ListenDone(p, port)
     PROVE  Connecting'
  BY <1>8 DEF ListenDone, Connecting, At, Listen, files, Moves
<1>9. ASSUME NEW p \in Process, InterruptDone(p)  PROVE  Connecting'
  BY <1>9 DEF InterruptDone, Connecting, At, Interrupt, files, Moves, Goes
<1>10. ASSUME NEW p \in Process, RemoveControlDone(p)  PROVE  Connecting'
  BY <1>10 DEF RemoveControlDone, Connecting, At, RemoveControl, files, Moves, Goes
<1>11. ASSUME NEW p \in Process, CloseListenerDone(p)  PROVE  Connecting'
  BY <1>11 DEF CloseListenerDone, Connecting, At, CloseListener, files, Moves, Goes
<1>12. ASSUME NEW p \in Process, DropNodeDone(p)  PROVE  Connecting'
  BY <1>12
  DEF DropNodeDone, Connecting, At, DropNode, files, End, Release, Moves, Ends
<1>13. ASSUME NEW p \in Process, ReadControlDone(p)  PROVE  Connecting'
  BY <1>13 DEF ReadControlDone, Connecting, At, ReadControl, files, Moves
<1>14. ASSUME NEW p \in Process, ConnectDone(p)  PROVE  Connecting'
  BY <1>14 DEF ConnectDone, Connecting, At, Connect, files, Moves
<1>15. ASSUME NEW p \in Process, RequestFailsDone(p)  PROVE  Connecting'
  BY <1>15 DEF RequestFailsDone, Connecting, At, RequestFails, files, Moves, Ends
<1>16. ASSUME NEW p \in Process, NEW outcome \in Outcome, NewKeyDone(p, outcome)
     PROVE  Connecting'
  BY <1>16
  DEF NewKeyDone, Connecting, At, NewKey, files, End, Release, Replaced, Outcome,
      Moves, Ends
<1>17. ASSUME NEW p \in Process, NEW outcome \in Outcome, NewStateDone(p, outcome)
     PROVE  Connecting'
  BY <1>17
  DEF NewStateDone, Connecting, At, NewState, files, End, Release, Replaced,
      Outcome, Moves, Ends
<1>18. ASSUME NEW p \in Process, NEW outcome \in Outcome, WriteControlDone(p, outcome)
     PROVE  Connecting'
  BY <1>18
  DEF WriteControlDone, Connecting, At, WriteControl, files, End, Release,
      Replaced, Outcome, Moves, Goes, Ends
<1>19. ASSUME NEW p \in Process, NEW outcome \in Outcome, CreateOfflineDone(p, outcome)
     PROVE  Connecting'
  BY <1>19
  DEF CreateOfflineDone, Connecting, At, CreateOffline, files, End, Release,
      Replaced, Outcome, Moves, Ends, NoMesh
<1>20. ASSUME NEW p \in Process, NEW s \in Process, NEW outcome \in Outcome,
              NEW delivered \in BOOLEAN, ExecuteDone(p, s, outcome, delivered)
     PROVE  Connecting'
  BY <1>20 DEF ExecuteDone, Connecting, At, Execute, files, Replaced, Outcome, Moves
<1>21. ASSUME NEW p \in Process, CrashDone(p)  PROVE  Connecting'
  BY <1>21 DEF CrashDone, Connecting, At, Crash, files, End, Release, Moves, Ends
<1>22. CASE UNCHANGED vars
  BY <1>22 DEF vars, Connecting, At
<1>23. QED
  BY <1>1, <1>2, <1>3, <1>4, <1>5, <1>6, <1>7, <1>8, <1>9, <1>10, <1>11,
     <1>12, <1>13, <1>14, <1>15, <1>16, <1>17, <1>18, <1>19, <1>20,
     <1>21, <1>22
  DEF Moved

\* Who does not move keeps a current memory when nothing is saved.
LEMMA OthersStayCurrent ==
  ASSUME MemoryIsCurrent, NEW p \in Process, Moves(p), UNCHANGED <<state, reported>>,
         Current(p)'
  PROVE  MemoryIsCurrent'
  BY DEF MemoryIsCurrent, Current, At, Moves

\* Who may save works from the state on disk.
LEMMA MemoryIsCurrentStep ==
  TypeOK /\ LockHeld /\ StateStays /\ MemoryIsCurrent /\ ReportedMeshIsKept /\
    (Moved \/ UNCHANGED vars) => MemoryIsCurrent'
<1> SUFFICES ASSUME TypeOK, LockHeld, StateStays, MemoryIsCurrent,
                    ReportedMeshIsKept, Moved \/ UNCHANGED vars
             PROVE  MemoryIsCurrent'
  OBVIOUS
<1> USE NoneFacts
<1>1. ASSUME NEW p \in Process, StartedDone(p)  PROVE  MemoryIsCurrent'
  <2>1. Moves(p) /\ UNCHANGED <<state, reported>>
    BY <1>1 DEF Started, Start, files, StartedDone
  <2>2. Current(p)'
    BY <1>1, <2>1 DEF MemoryIsCurrent, Current, At, StartedDone
  <2> QED
    BY <2>1, <2>2, OthersStayCurrent
<1>2. ASSUME NEW p \in Process, InitLockDone(p)  PROVE  MemoryIsCurrent'
  <2>1. Moves(p) /\ UNCHANGED <<state, reported>>
    BY <1>2 DEF InitLock, files, End, Goes, Ends, InitLockDone
  <2>2. Current(p)'
    BY <1>2, <2>1 DEF MemoryIsCurrent, Current, At, Goes, Ends, InitLockDone
  <2> QED
    BY <2>1, <2>2, OthersStayCurrent
<1>3. ASSUME NEW p \in Process, InitKeyDone(p)  PROVE  MemoryIsCurrent'
  <2>1. Moves(p) /\ UNCHANGED <<state, reported>>
    BY <1>3 DEF InitKey, files, End, Ends, InitKeyDone
  <2>2. Current(p)'
    BY <1>3, <2>1 DEF MemoryIsCurrent, Current, At, Ends, InitKeyDone
  <2> QED
    BY <2>1, <2>2, OthersStayCurrent
<1>4. ASSUME NEW p \in Process, InitStateDone(p)  PROVE  MemoryIsCurrent'
  <2>1. Moves(p) /\ UNCHANGED <<state, reported>>
    BY <1>4 DEF InitState, files, End, Goes, Ends, InitStateDone
  <2>2. Current(p)'
    BY <1>4, <2>1 DEF MemoryIsCurrent, Current, At, Goes, Ends, InitStateDone
  <2> QED
    BY <2>1, <2>2, OthersStayCurrent
<1>5. ASSUME NEW p \in Process, OpenCheckDone(p)  PROVE  MemoryIsCurrent'
  <2>1. Moves(p) /\ UNCHANGED <<state, reported>>
    BY <1>5 DEF OpenCheck, files, End, Goes, Ends, OpenCheckDone
  <2>2. Current(p)'
    BY <1>5, <2>1 DEF MemoryIsCurrent, Current, At, Goes, Ends, OpenCheckDone
  <2> QED
    BY <2>1, <2>2, OthersStayCurrent
<1>6. ASSUME NEW p \in Process, OpenLockDone(p)  PROVE  MemoryIsCurrent'
  <2>1. Moves(p) /\ UNCHANGED <<state, reported>>
    BY <1>6 DEF OpenLock, files, End, Goes, Ends, OpenLockDone
  <2>2. Current(p)'
    BY <1>6, <2>1 DEF MemoryIsCurrent, Current, At, Goes, Ends, OpenLockDone
  <2> QED
    BY <2>1, <2>2, OthersStayCurrent
<1>7. ASSUME NEW p \in Process, OpenReadDone(p)  PROVE  MemoryIsCurrent'
  <2>1. Moves(p) /\ UNCHANGED <<state, reported>>
    BY <1>7 DEF OpenRead, files, End, Ends, OpenReadDone
  <2>2. Current(p)'
    BY <1>7, <2>1
    DEF MemoryIsCurrent, Current, At, OpenRead, ReportedMeshIsKept, StateStays,
        Ends, OpenReadDone
  <2> QED
    BY <2>1, <2>2, OthersStayCurrent
<1>8. ASSUME NEW p \in Process, NEW port \in Port, ListenDone(p, port)
     PROVE  MemoryIsCurrent'
  <2>1. Moves(p) /\ UNCHANGED <<state, reported>>
    BY <1>8 DEF Listen, files, ListenDone
  <2>2. Current(p) /\ proc[p].step = "bind"
    BY <1>8 DEF MemoryIsCurrent, Listen, ListenDone
  <2>3. Current(p)'
    BY <1>8, <2>1, <2>2 DEF Current, At, ListenDone
  <2> QED
    BY <2>1, <2>3, OthersStayCurrent
<1>9. ASSUME NEW p \in Process, InterruptDone(p)  PROVE  MemoryIsCurrent'
  <2>1. Moves(p) /\ UNCHANGED <<state, reported>>
    BY <1>9 DEF Interrupt, files, Goes, InterruptDone
  <2>2. Current(p)'
    BY <1>9, <2>1 DEF MemoryIsCurrent, Current, At, Goes, InterruptDone
  <2> QED
    BY <2>1, <2>2, OthersStayCurrent
<1>10. ASSUME NEW p \in Process, RemoveControlDone(p)  PROVE  MemoryIsCurrent'
  <2>1. Moves(p) /\ UNCHANGED <<state, reported>>
    BY <1>10 DEF RemoveControl, files, Goes, RemoveControlDone
  <2>2. Current(p)'
    BY <1>10, <2>1 DEF MemoryIsCurrent, Current, At, Goes, RemoveControlDone
  <2> QED
    BY <2>1, <2>2, OthersStayCurrent
<1>11. ASSUME NEW p \in Process, CloseListenerDone(p)  PROVE  MemoryIsCurrent'
  <2>1. Moves(p) /\ UNCHANGED <<state, reported>>
    BY <1>11 DEF CloseListener, files, Goes, CloseListenerDone
  <2>2. Current(p)'
    BY <1>11, <2>1 DEF MemoryIsCurrent, Current, At, Goes, CloseListenerDone
  <2> QED
    BY <2>1, <2>2, OthersStayCurrent
<1>12. ASSUME NEW p \in Process, DropNodeDone(p)  PROVE  MemoryIsCurrent'
  <2>1. Moves(p) /\ UNCHANGED <<state, reported>>
    BY <1>12 DEF DropNode, files, End, Ends, DropNodeDone
  <2>2. Current(p)'
    BY <1>12, <2>1 DEF MemoryIsCurrent, Current, At, Ends, DropNodeDone
  <2> QED
    BY <2>1, <2>2, OthersStayCurrent
<1>13. ASSUME NEW p \in Process, ReadControlDone(p)  PROVE  MemoryIsCurrent'
  <2>1. Moves(p) /\ UNCHANGED <<state, reported>>
    BY <1>13 DEF ReadControl, files, ReadControlDone
  <2>2. Current(p)'
    BY <1>13, <2>1 DEF MemoryIsCurrent, Current, At, ReadControlDone
  <2> QED
    BY <2>1, <2>2, OthersStayCurrent
<1>14. ASSUME NEW p \in Process, ConnectDone(p)  PROVE  MemoryIsCurrent'
  <2>1. Moves(p) /\ UNCHANGED <<state, reported>>
    BY <1>14 DEF Connect, files, ConnectDone
  <2>2. Current(p)'
    BY <1>14, <2>1 DEF MemoryIsCurrent, Current, At, ConnectDone
  <2> QED
    BY <2>1, <2>2, OthersStayCurrent
<1>15. ASSUME NEW p \in Process, RequestFailsDone(p)  PROVE  MemoryIsCurrent'
  <2>1. Moves(p) /\ UNCHANGED <<state, reported>>
    BY <1>15 DEF RequestFails, files, Ends, RequestFailsDone
  <2>2. Current(p)'
    BY <1>15, <2>1 DEF MemoryIsCurrent, Current, At, Ends, RequestFailsDone
  <2> QED
    BY <2>1, <2>2, OthersStayCurrent
<1>16. ASSUME NEW p \in Process, NEW outcome \in Outcome, NewKeyDone(p, outcome)
     PROVE  MemoryIsCurrent'
  <2>1. Moves(p) /\ UNCHANGED <<state, reported>>
    BY <1>16 DEF NewKey, files, Outcome, End, Ends, NewKeyDone
  <2>2. Current(p)'
    BY <1>16, <2>1 DEF MemoryIsCurrent, Current, At, Ends, NewKeyDone
  <2> QED
    BY <2>1, <2>2, OthersStayCurrent
<1>17. ASSUME NEW p \in Process, NEW outcome \in Outcome, NewStateDone(p, outcome)
     PROVE  MemoryIsCurrent'
  <2> QED
    BY <1>17
    DEF MemoryIsCurrent, Current, At, LockHeld, Inside, Moves, Ends, NewState,
        NewStateDone
<1>18. ASSUME NEW p \in Process, NEW outcome \in Outcome, WriteControlDone(p, outcome)
     PROVE  MemoryIsCurrent'
  <2>1. Moves(p) /\ UNCHANGED <<state, reported>>
    BY <1>18 DEF WriteControl, files, End, Goes, Ends, WriteControlDone
  <2>2. Current(p)'
    BY <1>18, <2>1
    DEF MemoryIsCurrent, Current, At, WriteControl, Goes, Ends, WriteControlDone
  <2> QED
    BY <2>1, <2>2, OthersStayCurrent
<1>19. ASSUME NEW p \in Process, NEW outcome \in Outcome, CreateOfflineDone(p, outcome)
     PROVE  MemoryIsCurrent'
  <2> QED
    BY <1>19
    DEF MemoryIsCurrent, Current, At, LockHeld, Inside, Moves, Ends,
        CreateOffline, CreateOfflineDone
<1>20. ASSUME NEW p \in Process, NEW s \in Process, NEW outcome \in Outcome,
              NEW delivered \in BOOLEAN, ExecuteDone(p, s, outcome, delivered)
     PROVE  MemoryIsCurrent'
  <2>1. \A q \in Process : q # s /\ q # p => Current(q)'
    <3> SUFFICES ASSUME NEW q \in Process, q # s, q # p  PROVE Current(q)'
      OBVIOUS
    <3>1. proc'[q] = proc[q]
      BY <1>20 DEF ExecuteDone
    <3>2. ~At(q, Inside)
      BY <1>20 DEF LockHeld, At, Inside, Execute, ExecuteDone
    <3> QED
      BY <3>1, <3>2 DEF Current, At, Inside
  <2>2. Current(p)'
    BY <1>20 DEF Current, At, ExecuteDone
  <2>3. Current(s)'
    <3>1. /\ proc[s].mem.id = state.id /\ \A r \in reported : proc[s].mem.mesh = r
          /\ proc[s].mem.mesh # None => proc[s].mem.mesh = state.mesh
      BY <1>20 DEF MemoryIsCurrent, Current, At, Execute, ExecuteDone
    <3>2. reported \subseteq Run
      BY DEF TypeOK
    <3> QED
      BY <1>20, <3>1, <3>2 DEF Current, At, ExecuteDone
  <2> QED
    BY <2>1, <2>2, <2>3 DEF MemoryIsCurrent
<1>21. ASSUME NEW p \in Process, CrashDone(p)  PROVE  MemoryIsCurrent'
  <2>1. Moves(p) /\ UNCHANGED <<state, reported>>
    BY <1>21 DEF Crash, files, End, Ends, CrashDone
  <2>2. Current(p)'
    BY <1>21, <2>1 DEF MemoryIsCurrent, Current, At, Ends, CrashDone
  <2> QED
    BY <2>1, <2>2, OthersStayCurrent
<1>22. CASE UNCHANGED vars
  BY <1>22 DEF vars, MemoryIsCurrent, Current, At
<1>23. QED
  BY <1>1, <1>2, <1>3, <1>4, <1>5, <1>6, <1>7, <1>8, <1>9, <1>10, <1>11,
     <1>12, <1>13, <1>14, <1>15, <1>16, <1>17, <1>18, <1>19, <1>20,
     <1>21, <1>22
  DEF Moved

\* Who does not move listens on as long as nobody else gets its port.
LEMMA OthersListenOn ==
  ASSUME Listening, NEW p \in Process, Moves(p), listener' = listener \/ Release(p),
         Listens(p)'
  PROVE  Listening'
  BY DEF Listening, Listens, At, Moves, Release

\* The port of a service is its own until it closes it.
LEMMA ListeningStep ==
  TypeOK /\ RunKnown /\ Listening /\ (Moved \/ UNCHANGED vars) => Listening'
<1> SUFFICES ASSUME TypeOK, RunKnown, Listening, Moved \/ UNCHANGED vars
             PROVE  Listening'
  OBVIOUS
<1> USE NoneFacts
<1>1. ASSUME NEW p \in Process, StartedDone(p)  PROVE  Listening'
  BY <1>1
  DEF StartedDone, Listening, Listens, At, RunKnown, Started, Start, files, Moves
<1>2. ASSUME NEW p \in Process, InitLockDone(p)  PROVE  Listening'
  <2>1. Moves(p) /\ (listener' = listener \/ Release(p))
    BY <1>2 DEF InitLock, End, Goes, Ends, InitLockDone
  <2>2. Listens(p)'
    BY <1>2, <2>1 DEF Listens, At, Goes, Ends, InitLockDone
  <2> QED
    BY <2>1, <2>2, OthersListenOn
<1>3. ASSUME NEW p \in Process, InitKeyDone(p)  PROVE  Listening'
  <2>1. Moves(p) /\ (listener' = listener \/ Release(p))
    BY <1>3 DEF InitKey, End, Ends, InitKeyDone
  <2>2. Listens(p)'
    BY <1>3, <2>1 DEF Listens, At, Ends, InitKeyDone
  <2> QED
    BY <2>1, <2>2, OthersListenOn
<1>4. ASSUME NEW p \in Process, InitStateDone(p)  PROVE  Listening'
  <2>1. Moves(p) /\ (listener' = listener \/ Release(p))
    BY <1>4 DEF InitState, End, Goes, Ends, InitStateDone
  <2>2. Listens(p)'
    BY <1>4, <2>1 DEF Listens, At, Goes, Ends, InitStateDone
  <2> QED
    BY <2>1, <2>2, OthersListenOn
<1>5. ASSUME NEW p \in Process, OpenCheckDone(p)  PROVE  Listening'
  <2>1. Moves(p) /\ (listener' = listener \/ Release(p))
    BY <1>5 DEF OpenCheck, End, Goes, Ends, OpenCheckDone
  <2>2. Listens(p)'
    BY <1>5, <2>1 DEF Listens, At, Goes, Ends, OpenCheckDone
  <2> QED
    BY <2>1, <2>2, OthersListenOn
<1>6. ASSUME NEW p \in Process, OpenLockDone(p)  PROVE  Listening'
  <2>1. Moves(p) /\ (listener' = listener \/ Release(p))
    BY <1>6 DEF OpenLock, End, Goes, Ends, OpenLockDone
  <2>2. Listens(p)'
    BY <1>6, <2>1 DEF Listens, At, Goes, Ends, OpenLockDone
  <2> QED
    BY <2>1, <2>2, OthersListenOn
<1>7. ASSUME NEW p \in Process, OpenReadDone(p)  PROVE  Listening'
  <2>1. Moves(p) /\ (listener' = listener \/ Release(p))
    BY <1>7 DEF OpenRead, End, Ends, OpenReadDone
  <2>2. Listens(p)'
    BY <1>7, <2>1 DEF Listens, At, Ends, OpenReadDone
  <2> QED
    BY <2>1, <2>2, OthersListenOn
<1>8. ASSUME NEW p \in Process, NEW port \in Port, ListenDone(p, port)
     PROVE  Listening'
  <2>1. /\ listener \in [Port -> Process \cup {None}] /\ listener[port] = None
        /\ listener' = [listener EXCEPT ![port] = p]
    BY <1>8 DEF Listen, TypeOK, ListenDone
  <2>2. proc[p].run \in Run
    BY <1>8 DEF RunKnown, Listen, ListenDone
  <2> QED
    BY <1>8, <2>1, <2>2 DEF Listening, Listens, At, Moves, ListenDone
<1>9. ASSUME NEW p \in Process, InterruptDone(p)  PROVE  Listening'
  BY <1>9
  DEF InterruptDone, Listening, Listens, At, RunKnown, Interrupt, files, Moves,
      Goes
<1>10. ASSUME NEW p \in Process, RemoveControlDone(p)  PROVE  Listening'
  BY <1>10
  DEF RemoveControlDone, Listening, Listens, At, RunKnown, RemoveControl, files,
      Moves, Goes
<1>11. ASSUME NEW p \in Process, CloseListenerDone(p)  PROVE  Listening'
  BY <1>11
  DEF CloseListenerDone, Listening, Listens, At, RunKnown, CloseListener, files,
      Moves, Goes
<1>12. ASSUME NEW p \in Process, DropNodeDone(p)  PROVE  Listening'
  <2>1. Moves(p) /\ (listener' = listener \/ Release(p))
    BY <1>12 DEF DropNode, End, Ends, DropNodeDone
  <2>2. Listens(p)'
    BY <1>12, <2>1 DEF Listens, At, Ends, DropNodeDone
  <2> QED
    BY <2>1, <2>2, OthersListenOn
<1>13. ASSUME NEW p \in Process, ReadControlDone(p)  PROVE  Listening'
  BY <1>13
  DEF ReadControlDone, Listening, Listens, At, RunKnown, ReadControl, files, Moves
<1>14. ASSUME NEW p \in Process, ConnectDone(p)  PROVE  Listening'
  BY <1>14 DEF ConnectDone, Listening, Listens, At, RunKnown, Connect, files, Moves
<1>15. ASSUME NEW p \in Process, RequestFailsDone(p)  PROVE  Listening'
  BY <1>15
  DEF RequestFailsDone, Listening, Listens, At, RunKnown, RequestFails, files,
      Moves, Ends
<1>16. ASSUME NEW p \in Process, NEW outcome \in Outcome, NewKeyDone(p, outcome)
     PROVE  Listening'
  <2>1. Moves(p) /\ (listener' = listener \/ Release(p))
    BY <1>16 DEF NewKey, Outcome, End, Ends, NewKeyDone
  <2>2. Listens(p)'
    BY <1>16, <2>1 DEF Listens, At, Ends, NewKeyDone
  <2> QED
    BY <2>1, <2>2, OthersListenOn
<1>17. ASSUME NEW p \in Process, NEW outcome \in Outcome, NewStateDone(p, outcome)
     PROVE  Listening'
  <2>1. Moves(p) /\ (listener' = listener \/ Release(p))
    BY <1>17 DEF NewState, End, Ends, NewStateDone
  <2>2. Listens(p)'
    BY <1>17, <2>1 DEF Listens, At, Ends, NewStateDone
  <2> QED
    BY <2>1, <2>2, OthersListenOn
<1>18. ASSUME NEW p \in Process, NEW outcome \in Outcome, WriteControlDone(p, outcome)
     PROVE  Listening'
  <2>1. Moves(p) /\ (listener' = listener \/ Release(p))
    BY <1>18 DEF WriteControl, End, Goes, Ends, WriteControlDone
  <2>2. Listens(p)'
    BY <1>18, <2>1 DEF Listening, Listens, At, WriteControl, Goes, Ends, WriteControlDone
  <2> QED
    BY <2>1, <2>2, OthersListenOn
<1>19. ASSUME NEW p \in Process, NEW outcome \in Outcome, CreateOfflineDone(p, outcome)
     PROVE  Listening'
  <2>1. Moves(p) /\ (listener' = listener \/ Release(p))
    BY <1>19 DEF CreateOffline, End, Ends, CreateOfflineDone
  <2>2. Listens(p)'
    BY <1>19, <2>1 DEF Listens, At, Ends, CreateOfflineDone
  <2> QED
    BY <2>1, <2>2, OthersListenOn
<1>20. ASSUME NEW p \in Process, NEW s \in Process, NEW outcome \in Outcome,
              NEW delivered \in BOOLEAN, ExecuteDone(p, s, outcome, delivered)
     PROVE  Listening'
  BY <1>20
  DEF ExecuteDone, Listening, Listens, At, RunKnown, Execute, files, Replaced,
      Outcome, Moves
<1>21. ASSUME NEW p \in Process, CrashDone(p)  PROVE  Listening'
  <2>1. Moves(p) /\ (listener' = listener \/ Release(p))
    BY <1>21 DEF Crash, End, Ends, CrashDone
  <2>2. Listens(p)'
    BY <1>21, <2>1 DEF Listens, At, Ends, CrashDone
  <2> QED
    BY <2>1, <2>2, OthersListenOn
<1>22. CASE UNCHANGED vars
  BY <1>22 DEF vars, Listening, Listens, At, RunKnown
<1>23. QED
  BY <1>1, <1>2, <1>3, <1>4, <1>5, <1>6, <1>7, <1>8, <1>9, <1>10, <1>11,
     <1>12, <1>13, <1>14, <1>15, <1>16, <1>17, <1>18, <1>19, <1>20,
     <1>21, <1>22
  DEF Moved

\* The service that has the lock wrote control.json.
LEMMA PublishedStep ==
  LockHeld /\ Published /\ (Moved \/ UNCHANGED vars) => Published'
<1> SUFFICES ASSUME LockHeld, Published, Moved \/ UNCHANGED vars
             PROVE  Published'
  OBVIOUS
<1> USE NoneFacts
<1>1. ASSUME NEW p \in Process, StartedDone(p)  PROVE  Published'
  BY <1>1
  DEF StartedDone, Published, At, LockHeld, Inside, Started, Start, files, Moves
<1>2. ASSUME NEW p \in Process, InitLockDone(p)  PROVE  Published'
  BY <1>2
  DEF InitLockDone, Published, At, LockHeld, Inside, InitLock, files, End,
      Release, Moves, Goes, Ends
<1>3. ASSUME NEW p \in Process, InitKeyDone(p)  PROVE  Published'
  BY <1>3
  DEF InitKeyDone, Published, At, LockHeld, Inside, InitKey, files, End, Release,
      Moves, Ends
<1>4. ASSUME NEW p \in Process, InitStateDone(p)  PROVE  Published'
  BY <1>4
  DEF InitStateDone, Published, At, LockHeld, Inside, InitState, files, End,
      Release, Moves, Goes, Ends
<1>5. ASSUME NEW p \in Process, OpenCheckDone(p)  PROVE  Published'
  BY <1>5
  DEF OpenCheckDone, Published, At, LockHeld, Inside, OpenCheck, files, End,
      Release, Moves, Goes, Ends
<1>6. ASSUME NEW p \in Process, OpenLockDone(p)  PROVE  Published'
  BY <1>6
  DEF OpenLockDone, Published, At, LockHeld, Inside, OpenLock, files, End,
      Release, Moves, Goes, Ends
<1>7. ASSUME NEW p \in Process, OpenReadDone(p)  PROVE  Published'
  BY <1>7
  DEF OpenReadDone, Published, At, LockHeld, Inside, OpenRead, files, End,
      Release, Moves, Ends
<1>8. ASSUME NEW p \in Process, NEW port \in Port, ListenDone(p, port)
     PROVE  Published'
  BY <1>8 DEF ListenDone, Published, At, LockHeld, Inside, Listen, files, Moves
<1>9. ASSUME NEW p \in Process, InterruptDone(p)  PROVE  Published'
  BY <1>9
  DEF InterruptDone, Published, At, LockHeld, Inside, Interrupt, files, Moves,
      Goes
<1>10. ASSUME NEW p \in Process, RemoveControlDone(p)  PROVE  Published'
  BY <1>10
  DEF RemoveControlDone, Published, At, LockHeld, Inside, RemoveControl, files,
      Moves, Goes
<1>11. ASSUME NEW p \in Process, CloseListenerDone(p)  PROVE  Published'
  BY <1>11
  DEF CloseListenerDone, Published, At, LockHeld, Inside, CloseListener, files,
      Moves, Goes
<1>12. ASSUME NEW p \in Process, DropNodeDone(p)  PROVE  Published'
  BY <1>12
  DEF DropNodeDone, Published, At, LockHeld, Inside, DropNode, files, End,
      Release, Moves, Ends
<1>13. ASSUME NEW p \in Process, ReadControlDone(p)  PROVE  Published'
  BY <1>13
  DEF ReadControlDone, Published, At, LockHeld, Inside, ReadControl, files, Moves
<1>14. ASSUME NEW p \in Process, ConnectDone(p)  PROVE  Published'
  BY <1>14 DEF ConnectDone, Published, At, LockHeld, Inside, Connect, files, Moves
<1>15. ASSUME NEW p \in Process, RequestFailsDone(p)  PROVE  Published'
  BY <1>15
  DEF RequestFailsDone, Published, At, LockHeld, Inside, RequestFails, files,
      Moves, Ends
<1>16. ASSUME NEW p \in Process, NEW outcome \in Outcome, NewKeyDone(p, outcome)
     PROVE  Published'
  BY <1>16
  DEF NewKeyDone, Published, At, LockHeld, Inside, NewKey, files, End, Release,
      Replaced, Outcome, Moves, Ends
<1>17. ASSUME NEW p \in Process, NEW outcome \in Outcome, NewStateDone(p, outcome)
     PROVE  Published'
  BY <1>17
  DEF NewStateDone, Published, At, LockHeld, Inside, NewState, files, End,
      Release, Replaced, Outcome, Moves, Ends
<1>18. ASSUME NEW p \in Process, NEW outcome \in Outcome, WriteControlDone(p, outcome)
     PROVE  Published'
  BY <1>18
  DEF WriteControlDone, Published, At, LockHeld, Inside, WriteControl, files, End,
      Release, Replaced, Outcome, Moves, Goes, Ends
<1>19. ASSUME NEW p \in Process, NEW outcome \in Outcome, CreateOfflineDone(p, outcome)
     PROVE  Published'
  BY <1>19
  DEF CreateOfflineDone, Published, At, LockHeld, Inside, CreateOffline, files,
      End, Release, Replaced, Outcome, Moves, Ends, NoMesh
<1>20. ASSUME NEW p \in Process, NEW s \in Process, NEW outcome \in Outcome,
              NEW delivered \in BOOLEAN, ExecuteDone(p, s, outcome, delivered)
     PROVE  Published'
  <2>1. control' = control /\ proc[s].step = "serving"
    BY <1>20 DEF Execute, ExecuteDone
  <2>2. ASSUME NEW q \in Process, proc'[q].step = "serving"
        PROVE  control' = [port |-> proc'[q].port, token |-> proc'[q].token]
    BY <1>20, <2>1, <2>2 DEF Published, At, ExecuteDone
  <2> QED
    BY <2>2 DEF Published, At
<1>21. ASSUME NEW p \in Process, CrashDone(p)  PROVE  Published'
  BY <1>21
  DEF CrashDone, Published, At, LockHeld, Inside, Crash, files, End, Release,
      Moves, Ends
<1>22. CASE UNCHANGED vars
  BY <1>22 DEF vars, Published, At, LockHeld, Inside
<1>23. QED
  BY <1>1, <1>2, <1>3, <1>4, <1>5, <1>6, <1>7, <1>8, <1>9, <1>10, <1>11,
     <1>12, <1>13, <1>14, <1>15, <1>16, <1>17, <1>18, <1>19, <1>20,
     <1>21, <1>22
  DEF Moved

\* Key and state are written for each other.
LEMMA IdentityMatchesStep ==
  InitKnows /\ IdentityMatches /\ (Moved \/ UNCHANGED vars) => IdentityMatches'
<1> SUFFICES ASSUME InitKnows, IdentityMatches, Moved \/ UNCHANGED vars
             PROVE  IdentityMatches'
  OBVIOUS
<1> USE NoneFacts
<1>1. ASSUME NEW p \in Process, StartedDone(p)  PROVE  IdentityMatches'
  BY <1>1
  DEF StartedDone, IdentityMatches, InitKnows, At, Started, Start, files, Moves
<1>2. ASSUME NEW p \in Process, InitLockDone(p)  PROVE  IdentityMatches'
  BY <1>2
  DEF InitLockDone, IdentityMatches, InitKnows, At, InitLock, files, End, Release,
      Moves, Goes, Ends
<1>3. ASSUME NEW p \in Process, InitKeyDone(p)  PROVE  IdentityMatches'
  BY <1>3
  DEF InitKeyDone, IdentityMatches, InitKnows, At, InitKey, files, End, Release,
      Moves, Ends
<1>4. ASSUME NEW p \in Process, InitStateDone(p)  PROVE  IdentityMatches'
  BY <1>4
  DEF InitStateDone, IdentityMatches, InitKnows, At, InitState, files, End,
      Release, Moves, Goes, Ends
<1>5. ASSUME NEW p \in Process, OpenCheckDone(p)  PROVE  IdentityMatches'
  BY <1>5
  DEF OpenCheckDone, IdentityMatches, InitKnows, At, OpenCheck, files, End,
      Release, Moves, Goes, Ends
<1>6. ASSUME NEW p \in Process, OpenLockDone(p)  PROVE  IdentityMatches'
  BY <1>6
  DEF OpenLockDone, IdentityMatches, InitKnows, At, OpenLock, files, End, Release,
      Moves, Goes, Ends
<1>7. ASSUME NEW p \in Process, OpenReadDone(p)  PROVE  IdentityMatches'
  BY <1>7
  DEF OpenReadDone, IdentityMatches, InitKnows, At, OpenRead, files, End, Release,
      Moves, Ends
<1>8. ASSUME NEW p \in Process, NEW port \in Port, ListenDone(p, port)
     PROVE  IdentityMatches'
  BY <1>8 DEF ListenDone, IdentityMatches, InitKnows, At, Listen, files, Moves
<1>9. ASSUME NEW p \in Process, InterruptDone(p)  PROVE  IdentityMatches'
  BY <1>9
  DEF InterruptDone, IdentityMatches, InitKnows, At, Interrupt, files, Moves, Goes
<1>10. ASSUME NEW p \in Process, RemoveControlDone(p)  PROVE  IdentityMatches'
  BY <1>10
  DEF RemoveControlDone, IdentityMatches, InitKnows, At, RemoveControl, files,
      Moves, Goes
<1>11. ASSUME NEW p \in Process, CloseListenerDone(p)  PROVE  IdentityMatches'
  BY <1>11
  DEF CloseListenerDone, IdentityMatches, InitKnows, At, CloseListener, files,
      Moves, Goes
<1>12. ASSUME NEW p \in Process, DropNodeDone(p)  PROVE  IdentityMatches'
  BY <1>12
  DEF DropNodeDone, IdentityMatches, InitKnows, At, DropNode, files, End, Release,
      Moves, Ends
<1>13. ASSUME NEW p \in Process, ReadControlDone(p)  PROVE  IdentityMatches'
  BY <1>13
  DEF ReadControlDone, IdentityMatches, InitKnows, At, ReadControl, files, Moves
<1>14. ASSUME NEW p \in Process, ConnectDone(p)  PROVE  IdentityMatches'
  BY <1>14 DEF ConnectDone, IdentityMatches, InitKnows, At, Connect, files, Moves
<1>15. ASSUME NEW p \in Process, RequestFailsDone(p)  PROVE  IdentityMatches'
  BY <1>15
  DEF RequestFailsDone, IdentityMatches, InitKnows, At, RequestFails, files,
      Moves, Ends
<1>16. ASSUME NEW p \in Process, NEW outcome \in Outcome, NewKeyDone(p, outcome)
     PROVE  IdentityMatches'
  BY <1>16
  DEF NewKeyDone, IdentityMatches, InitKnows, At, NewKey, files, End, Release,
      Replaced, Outcome, Moves, Ends
<1>17. ASSUME NEW p \in Process, NEW outcome \in Outcome, NewStateDone(p, outcome)
     PROVE  IdentityMatches'
  <2> QED
    BY <1>17 DEF IdentityMatches, Moves, Ends, NewState, NewStateDone
<1>18. ASSUME NEW p \in Process, NEW outcome \in Outcome, WriteControlDone(p, outcome)
     PROVE  IdentityMatches'
  BY <1>18
  DEF WriteControlDone, IdentityMatches, InitKnows, At, WriteControl, files, End,
      Release, Replaced, Outcome, Moves, Goes, Ends
<1>19. ASSUME NEW p \in Process, NEW outcome \in Outcome, CreateOfflineDone(p, outcome)
     PROVE  IdentityMatches'
  <2> QED
    BY <1>19 DEF IdentityMatches, Moves, Ends, CreateOffline, CreateOfflineDone
<1>20. ASSUME NEW p \in Process, NEW s \in Process, NEW outcome \in Outcome,
              NEW delivered \in BOOLEAN, ExecuteDone(p, s, outcome, delivered)
     PROVE  IdentityMatches'
  <2> QED
    BY <1>20 DEF IdentityMatches, Moves, Execute, ExecuteDone
<1>21. ASSUME NEW p \in Process, CrashDone(p)  PROVE  IdentityMatches'
  BY <1>21
  DEF CrashDone, IdentityMatches, InitKnows, At, Crash, files, End, Release,
      Moves, Ends
<1>22. CASE UNCHANGED vars
  BY <1>22 DEF vars, IdentityMatches, InitKnows, At
<1>23. QED
  BY <1>1, <1>2, <1>3, <1>4, <1>5, <1>6, <1>7, <1>8, <1>9, <1>10, <1>11,
     <1>12, <1>13, <1>14, <1>15, <1>16, <1>17, <1>18, <1>19, <1>20,
     <1>21, <1>22
  DEF Moved

\* A reported mesh is not replaced.
LEMMA ReportedStep ==
  TypeOK /\ MemoryIsCurrent /\ ReportedMeshIsKept /\ (Moved \/ UNCHANGED vars)
    => ReportedMeshIsKept'
<1> SUFFICES ASSUME TypeOK, MemoryIsCurrent, ReportedMeshIsKept, Moved \/ UNCHANGED
                    vars
             PROVE  ReportedMeshIsKept'
  OBVIOUS
<1> USE NoneFacts
<1>1. ASSUME NEW p \in Process, StartedDone(p)  PROVE  ReportedMeshIsKept'
  BY <1>1 DEF StartedDone, ReportedMeshIsKept, Started, Start, files, Moves
<1>2. ASSUME NEW p \in Process, InitLockDone(p)  PROVE  ReportedMeshIsKept'
  BY <1>2
  DEF InitLockDone, ReportedMeshIsKept, InitLock, files, End, Release, Moves,
      Goes, Ends
<1>3. ASSUME NEW p \in Process, InitKeyDone(p)  PROVE  ReportedMeshIsKept'
  BY <1>3
  DEF InitKeyDone, ReportedMeshIsKept, InitKey, files, End, Release, Moves, Ends
<1>4. ASSUME NEW p \in Process, InitStateDone(p)  PROVE  ReportedMeshIsKept'
  BY <1>4
  DEF InitStateDone, ReportedMeshIsKept, InitState, files, End, Release, Moves,
      Goes, Ends
<1>5. ASSUME NEW p \in Process, OpenCheckDone(p)  PROVE  ReportedMeshIsKept'
  BY <1>5
  DEF OpenCheckDone, ReportedMeshIsKept, OpenCheck, files, End, Release, Moves,
      Goes, Ends
<1>6. ASSUME NEW p \in Process, OpenLockDone(p)  PROVE  ReportedMeshIsKept'
  BY <1>6
  DEF OpenLockDone, ReportedMeshIsKept, OpenLock, files, End, Release, Moves,
      Goes, Ends
<1>7. ASSUME NEW p \in Process, OpenReadDone(p)  PROVE  ReportedMeshIsKept'
  BY <1>7
  DEF OpenReadDone, ReportedMeshIsKept, OpenRead, files, End, Release, Moves, Ends
<1>8. ASSUME NEW p \in Process, NEW port \in Port, ListenDone(p, port)
     PROVE  ReportedMeshIsKept'
  BY <1>8 DEF ListenDone, ReportedMeshIsKept, Listen, files, Moves
<1>9. ASSUME NEW p \in Process, InterruptDone(p)  PROVE  ReportedMeshIsKept'
  BY <1>9 DEF InterruptDone, ReportedMeshIsKept, Interrupt, files, Moves, Goes
<1>10. ASSUME NEW p \in Process, RemoveControlDone(p)  PROVE  ReportedMeshIsKept'
  BY <1>10
  DEF RemoveControlDone, ReportedMeshIsKept, RemoveControl, files, Moves, Goes
<1>11. ASSUME NEW p \in Process, CloseListenerDone(p)  PROVE  ReportedMeshIsKept'
  BY <1>11
  DEF CloseListenerDone, ReportedMeshIsKept, CloseListener, files, Moves, Goes
<1>12. ASSUME NEW p \in Process, DropNodeDone(p)  PROVE  ReportedMeshIsKept'
  BY <1>12
  DEF DropNodeDone, ReportedMeshIsKept, DropNode, files, End, Release, Moves, Ends
<1>13. ASSUME NEW p \in Process, ReadControlDone(p)  PROVE  ReportedMeshIsKept'
  BY <1>13 DEF ReadControlDone, ReportedMeshIsKept, ReadControl, files, Moves
<1>14. ASSUME NEW p \in Process, ConnectDone(p)  PROVE  ReportedMeshIsKept'
  BY <1>14 DEF ConnectDone, ReportedMeshIsKept, Connect, files, Moves
<1>15. ASSUME NEW p \in Process, RequestFailsDone(p)  PROVE  ReportedMeshIsKept'
  BY <1>15 DEF RequestFailsDone, ReportedMeshIsKept, RequestFails, files, Moves, Ends
<1>16. ASSUME NEW p \in Process, NEW outcome \in Outcome, NewKeyDone(p, outcome)
     PROVE  ReportedMeshIsKept'
  BY <1>16
  DEF NewKeyDone, ReportedMeshIsKept, NewKey, files, End, Release, Replaced,
      Outcome, Moves, Ends
<1>17. ASSUME NEW p \in Process, NEW outcome \in Outcome, NewStateDone(p, outcome)
     PROVE  ReportedMeshIsKept'
  <2> QED
    BY <1>17
    DEF ReportedMeshIsKept, MemoryIsCurrent, Current, TypeOK, At, Moves, Ends,
        NewState, NewStateDone
<1>18. ASSUME NEW p \in Process, NEW outcome \in Outcome, WriteControlDone(p, outcome)
     PROVE  ReportedMeshIsKept'
  BY <1>18
  DEF WriteControlDone, ReportedMeshIsKept, WriteControl, files, End, Release,
      Replaced, Outcome, Moves, Goes, Ends
<1>19. ASSUME NEW p \in Process, NEW outcome \in Outcome, CreateOfflineDone(p, outcome)
     PROVE  ReportedMeshIsKept'
  <2> QED
    BY <1>19
    DEF ReportedMeshIsKept, MemoryIsCurrent, Current, TypeOK, At, Moves, Ends,
        CreateOffline, CreateOfflineDone
<1>20. ASSUME NEW p \in Process, NEW s \in Process, NEW outcome \in Outcome,
              NEW delivered \in BOOLEAN, ExecuteDone(p, s, outcome, delivered)
     PROVE  ReportedMeshIsKept'
  <2> QED
    BY <1>20
    DEF ReportedMeshIsKept, MemoryIsCurrent, Current, TypeOK, At, Moves, Execute,
        ExecuteDone
<1>21. ASSUME NEW p \in Process, CrashDone(p)  PROVE  ReportedMeshIsKept'
  BY <1>21 DEF CrashDone, ReportedMeshIsKept, Crash, files, End, Release, Moves, Ends
<1>22. CASE UNCHANGED vars
  BY <1>22 DEF vars, ReportedMeshIsKept
<1>23. QED
  BY <1>1, <1>2, <1>3, <1>4, <1>5, <1>6, <1>7, <1>8, <1>9, <1>10, <1>11,
     <1>12, <1>13, <1>14, <1>15, <1>16, <1>17, <1>18, <1>19, <1>20,
     <1>21, <1>22
  DEF Moved

\* Every variable but what processes are doing has its type.
RestTyped ==
  /\ key \in Run \cup {None} /\ state \in State \cup {None}
  /\ control \in ControlFile \cup {None} /\ lock \in Process \cup {None}
  /\ listener \in [Port -> Process \cup {None}] /\ reported \subseteq Run
  /\ spent \in [runs : 0 .. MaxRuns, crashes : 0 .. MaxCrashes, faults : 0 .. MaxFaults]

\* The parts of the type invariant.
LEMMA TypeParts ==
  /\ TypeOK => RestTyped
  /\ RestTyped' /\ proc' \in [Process -> ProcState] => TypeOK'
  BY DEF TypeOK, RestTyped, ProcState

\* The bounds are kept.
LEMMA SpentTypes ==
  ASSUME RestTyped
  PROVE  /\ spent.runs < MaxRuns => [spent EXCEPT !.runs = @ + 1] \in
              [runs : 0 .. MaxRuns, crashes : 0 .. MaxCrashes, faults : 0 .. MaxFaults]
         /\ spent.crashes < MaxCrashes => [spent EXCEPT !.crashes = @ + 1] \in
              [runs : 0 .. MaxRuns, crashes : 0 .. MaxCrashes, faults : 0 .. MaxFaults]
         /\ spent.faults < MaxFaults => [spent EXCEPT !.faults = @ + 1] \in
              [runs : 0 .. MaxRuns, crashes : 0 .. MaxCrashes, faults : 0 .. MaxFaults]
  BY NodeDirectoryAssumption DEF RestTyped

\* Every step keeps the types.
LEMMA TypeStep ==
  TypeOK /\ RunKnown /\ Listening /\ (Moved \/ UNCHANGED vars) => TypeOK'
<1> SUFFICES ASSUME TypeOK, RunKnown, Listening, Moved \/ UNCHANGED vars
             PROVE  TypeOK'
  OBVIOUS
<1>0. RestTyped
  BY TypeParts
<1> USE NoneFacts, <1>0
<1>1. ASSUME NEW p \in Process, StartedDone(p)  PROVE  TypeOK'
  <2>1. RestTyped'
    BY <1>1, SpentTypes DEF RestTyped, Started, Start, files, StartedDone
  <2> QED
    BY <1>1, <2>1, TypeParts DEF Moves, StartedDone
<1>2. ASSUME NEW p \in Process, InitLockDone(p)  PROVE  TypeOK'
  <2>1. RestTyped'
    BY <1>2 DEF RestTyped, InitLock, files, End, Release, InitLockDone
  <2> QED
    BY <1>2, <2>1, TypeParts DEF Moves, Goes, Ends, InitLockDone
<1>3. ASSUME NEW p \in Process, InitKeyDone(p)  PROVE  TypeOK'
  <2>1. RestTyped'
    BY <1>3 DEF RestTyped, InitKey, files, End, Release, InitKeyDone
  <2> QED
    BY <1>3, <2>1, TypeParts DEF Moves, Ends, InitKeyDone
<1>4. ASSUME NEW p \in Process, InitStateDone(p)  PROVE  TypeOK'
  <2>1. RestTyped'
    BY <1>4 DEF RestTyped, InitState, files, End, Release, InitStateDone
  <2> QED
    BY <1>4, <2>1, TypeParts DEF Moves, Goes, Ends, InitStateDone
<1>5. ASSUME NEW p \in Process, OpenCheckDone(p)  PROVE  TypeOK'
  <2>1. RestTyped'
    BY <1>5 DEF RestTyped, OpenCheck, files, End, Release, OpenCheckDone
  <2> QED
    BY <1>5, <2>1, TypeParts DEF Moves, Goes, Ends, OpenCheckDone
<1>6. ASSUME NEW p \in Process, OpenLockDone(p)  PROVE  TypeOK'
  <2>1. RestTyped'
    BY <1>6 DEF RestTyped, OpenLock, files, End, Release, OpenLockDone
  <2> QED
    BY <1>6, <2>1, TypeParts DEF Moves, Goes, Ends, OpenLockDone
<1>7. ASSUME NEW p \in Process, OpenReadDone(p)  PROVE  TypeOK'
  <2>1. RestTyped'
    BY <1>7 DEF RestTyped, OpenRead, files, End, Release, OpenReadDone
  <2> QED
    BY <1>7, <2>1, TypeParts DEF Moves, Ends, OpenReadDone
<1>8. ASSUME NEW p \in Process, NEW port \in Port, ListenDone(p, port)
     PROVE  TypeOK'
  <2>1. RestTyped'
    BY <1>8 DEF RestTyped, Listen, files, ListenDone
  <2> QED
    BY <1>8, <2>1, TypeParts DEF Moves, ListenDone
<1>9. ASSUME NEW p \in Process, InterruptDone(p)  PROVE  TypeOK'
  <2>1. RestTyped'
    BY <1>9 DEF RestTyped, Interrupt, files, InterruptDone
  <2> QED
    BY <1>9, <2>1, TypeParts DEF Moves, Goes, InterruptDone
<1>10. ASSUME NEW p \in Process, RemoveControlDone(p)  PROVE  TypeOK'
  <2>1. RestTyped'
    BY <1>10 DEF RestTyped, RemoveControl, files, RemoveControlDone
  <2> QED
    BY <1>10, <2>1, TypeParts DEF Moves, Goes, RemoveControlDone
<1>11. ASSUME NEW p \in Process, CloseListenerDone(p)  PROVE  TypeOK'
  <2>1. RestTyped'
    BY <1>11 DEF RestTyped, CloseListener, files, CloseListenerDone
  <2> QED
    BY <1>11, <2>1, TypeParts DEF Moves, Goes, CloseListenerDone
<1>12. ASSUME NEW p \in Process, DropNodeDone(p)  PROVE  TypeOK'
  <2>1. RestTyped'
    BY <1>12 DEF RestTyped, DropNode, files, End, Release, DropNodeDone
  <2> QED
    BY <1>12, <2>1, TypeParts DEF Moves, Ends, DropNodeDone
<1>13. ASSUME NEW p \in Process, ReadControlDone(p)  PROVE  TypeOK'
  <2>1. RestTyped'
    BY <1>13 DEF RestTyped, ReadControl, files, ReadControlDone
  <2> QED
    BY <1>13, <2>1, TypeParts DEF Moves, ReadControlDone
<1>14. ASSUME NEW p \in Process, ConnectDone(p)  PROVE  TypeOK'
  <2>1. RestTyped'
    BY <1>14 DEF RestTyped, Connect, files, ConnectDone
  <2> QED
    BY <1>14, <2>1, TypeParts DEF Moves, ConnectDone
<1>15. ASSUME NEW p \in Process, RequestFailsDone(p)  PROVE  TypeOK'
  <2>1. RestTyped'
    BY <1>15 DEF RestTyped, RequestFails, files, RequestFailsDone
  <2> QED
    BY <1>15, <2>1, TypeParts DEF Moves, Ends, RequestFailsDone
<1>16. ASSUME NEW p \in Process, NEW outcome \in Outcome, NewKeyDone(p, outcome)
     PROVE  TypeOK'
  <2>1. proc[p].run \in Run
    BY <1>16 DEF NewKeyDone, NewKey, RunKnown
  <2>2. key' \in Run \cup {None}
    BY <1>16, <2>1 DEF RestTyped, NewKeyDone, NewKey, Replaced
  <2>3. spent' \in [runs : 0 .. MaxRuns, crashes : 0 .. MaxCrashes,
                     faults : 0 .. MaxFaults]
    BY <1>16, SpentTypes DEF RestTyped, NewKeyDone, NewKey, Fault
  <2>4. lock' \in Process \cup {None} /\ listener' \in [Port -> Process \cup {None}]
    BY <1>16 DEF RestTyped, NewKeyDone, NewKey, End, Release
  <2>5. RestTyped'
    BY <1>16, <2>2, <2>3, <2>4 DEF RestTyped, NewKeyDone, NewKey
  <2> QED
    BY <1>16, <2>5, TypeParts DEF Moves, Ends, NewKeyDone
<1>17. ASSUME NEW p \in Process, NEW outcome \in Outcome, NewStateDone(p, outcome)
     PROVE  TypeOK'
  <2>1. RestTyped'
    BY <1>17, SpentTypes
    DEF RestTyped, NewState, files, Fault, End, Release, NewStateDone
  <2> QED
    BY <1>17, <2>1, TypeParts DEF Moves, Ends, NewStateDone
<1>18. ASSUME NEW p \in Process, NEW outcome \in Outcome, WriteControlDone(p, outcome)
     PROVE  TypeOK'
  <2>1. RestTyped'
    BY <1>18, SpentTypes
    DEF RestTyped, WriteControl, files, Fault, Replaced, End, Release, Listening,
        Listens, At, ControlFile, WriteControlDone
  <2> QED
    BY <1>18, <2>1, TypeParts DEF Moves, Goes, Ends, WriteControlDone
<1>19. ASSUME NEW p \in Process, NEW outcome \in Outcome, CreateOfflineDone(p, outcome)
     PROVE  TypeOK'
  <2>1. RestTyped'
    BY <1>19, SpentTypes
    DEF RestTyped, CreateOffline, files, Fault, End, Release, CreateOfflineDone
  <2> QED
    BY <1>19, <2>1, TypeParts DEF Moves, Ends, CreateOfflineDone
<1>20. ASSUME NEW p \in Process, NEW s \in Process, NEW outcome \in Outcome,
              NEW delivered \in BOOLEAN, ExecuteDone(p, s, outcome, delivered)
     PROVE  TypeOK'
  <2>1. RestTyped'
    BY <1>20, SpentTypes DEF RestTyped, Execute, files, Fault, ExecuteDone
  <2> QED
    BY <1>20, <2>1, TypeParts DEF ExecuteDone
<1>21. ASSUME NEW p \in Process, CrashDone(p)  PROVE  TypeOK'
  <2>1. RestTyped'
    BY <1>21, SpentTypes DEF RestTyped, Crash, files, End, Release, CrashDone
  <2> QED
    BY <1>21, <2>1, TypeParts DEF Moves, Ends, CrashDone
<1>22. CASE UNCHANGED vars
  BY <1>22 DEF vars, TypeOK
<1>23. QED
  BY <1>1, <1>2, <1>3, <1>4, <1>5, <1>6, <1>7, <1>8, <1>9, <1>10, <1>11,
     <1>12, <1>13, <1>14, <1>15, <1>16, <1>17, <1>18, <1>19, <1>20,
     <1>21, <1>22
  DEF Moved

-----------------------------------------------------------------------------
(* The theorems *)

\* Initially nothing exists and nothing runs.
LEMMA DirectoryInit == Init => DirectoryInv
<1> SUFFICES ASSUME Init  PROVE DirectoryInv
  OBVIOUS
<1>1. proc \in [Process -> ProcState] /\ \A p \in Process : proc[p].step = "idle"
  BY IdleType DEF Init
<1>2. TypeOK
  BY <1>1, NodeDirectoryAssumption DEF Init, TypeOK, ProcState
<1>3. LockHeld /\ RunKnown /\ InitKnows /\ StateStays
  BY <1>1 DEF LockHeld, RunKnown, InitKnows, StateStays, At, Inside
<1>4. MemoryIsCurrent /\ Listening /\ Connecting /\ Published
  BY <1>1 DEF MemoryIsCurrent, Current, Listening, Listens, Connecting, Published, At
<1>5. IdentityMatches /\ ReportedMeshIsKept
  BY DEF Init, IdentityMatches, ReportedMeshIsKept
<1> QED
  BY <1>2, <1>3, <1>4, <1>5 DEF DirectoryInv

LEMMA DirectoryStep == DirectoryInv /\ [Next]_vars => DirectoryInv'
  BY NextMoves, TypeStep, LockHeldStep, RunKnownStep, InitKnowsStep, StateStaysStep,
     MemoryIsCurrentStep, ListeningStep, ConnectingStep, PublishedStep,
     IdentityMatchesStep, ReportedStep
  DEF DirectoryInv

\* The inductive invariant holds in every state.
THEOREM DirectoryInvariant == Spec => []DirectoryInv
  BY DirectoryInit, DirectoryStep, PTL DEF Spec

\* Every variable keeps its type.
THEOREM DirectoryTypes == Spec => []TypeOK
<1>1. DirectoryInv => TypeOK
  BY DEF DirectoryInv
<1> QED
  BY <1>1, DirectoryInvariant, PTL

\* However many initialisations run at the same time, are killed half-way or
\* fail to save, the state belongs to the key beside it.
THEOREM DirectoryIdentity == Spec => []IdentityMatches
<1>1. DirectoryInv => IdentityMatches
  BY DEF DirectoryInv
<1> QED
  BY <1>1, DirectoryInvariant, PTL

\* A mesh whose creation was reported is on disk, whatever commands, services
\* and failed saves follow: no stale copy of the state is saved over it.
THEOREM DirectoryKeepsMesh == Spec => []ReportedMeshIsKept
<1>1. DirectoryInv => ReportedMeshIsKept
  BY DEF DirectoryInv
<1> QED
  BY <1>1, DirectoryInvariant, PTL

\* A running service works from what is on disk.
THEOREM DirectoryOwned == Spec => []ServiceOwnsState
<1>1. DirectoryInv => ServiceOwnsState
  BY DEF DirectoryInv, MemoryIsCurrent, Current, At, ServiceOwnsState
<1> QED
  BY <1>1, DirectoryInvariant, PTL

\* control.json leads to the service that is up, also while an earlier one is
\* still shutting down.
THEOREM DirectoryReachable == Spec => []ServiceIsReachable
<1>1. DirectoryInv => ServiceIsReachable
  <2> SUFFICES ASSUME DirectoryInv, NEW p \in Process, proc[p].step = "serving"
               PROVE  /\ control = [port |-> proc[p].port, token |-> proc[p].token]
                      /\ listener[control.port] = p
    BY DEF ServiceIsReachable
  <2>1. control = [port |-> proc[p].port, token |-> proc[p].token]
    BY DEF DirectoryInv, Published, At
  <2>2. listener[proc[p].port] = p
    BY DEF DirectoryInv, Listening, Listens, At
  <2> QED
    BY <2>1, <2>2
<1> QED
  BY <1>1, DirectoryInvariant, PTL
=============================================================================
