------------------------- MODULE PairingSessionProofs -------------------------
(* Proofs about PairingSession for any number of coroutines of the user       *)
(* interface, of tickets, of calls and of faults.  Everything rests on who    *)
(* holds which lock: a coroutine that is past a lock has it, and the node is  *)
(* open for whoever holds `operations'.                                       *)
EXTENDS PairingSession, TLAPS

\* Steps taken with `operations', and with `actions'.
Holding == {"status", "accept", "pair", "show", "mesh", "create", "record",
            "add", "added"}
Locked == ActionStep \ {"begin"}

\* The steps of run() between opening and closing the node.
Running == {"poll", "status", "accept", "delay"} \cup ActionStep

OperationsHeld == \A c \in Coroutine : co[c].step \in Holding => operations = c

ActionsHeld == \A c \in Coroutine : co[c].step \in Locked => actions = c

NodeOpen ==
  /\ node = native.open
  /\ co[Runner].step \in Running => node
  /\ co[Runner].step \in {"clear", "ended"} => ~node
  /\ \A c \in Coroutine : co[c].step \in Holding => node

LastFlag == \A c \in Coroutine : At(c, "unlock") => ~ui.busy

\* The records of the state, as TypeOK has them.
Step == RunStep \cup ActionStep \cup {"idle"}
CoState == [step : Step, call : {"none", "refresh", "pair"},
            value : Value \cup {None}, enrolled : BOOLEAN]
Native == [open : BOOLEAN, enrolled : BOOLEAN, issued : 0 .. MaxTickets,
           pending : Ticket \cup {None}]
Ui == [invitation : Ticket \cup {None}, meshed : BOOLEAN, busy : BOOLEAN]

\* A ticket that is about to be shown was issued.
IssuedOnShow == \A c \in Coroutine : At(c, "show") => native.issued # 0

-----------------------------------------------------------------------------
(* Types *)

\* A coroutine that begins or ends an action keeps its type.
LEMMA SetType ==
  ASSUME co \in [Coroutine -> CoState], NEW c \in Coroutine, NEW s \in CoState,
         co' = [co EXCEPT ![c] = s]
  PROVE  co' \in [Coroutine -> CoState]
OBVIOUS

\* What a coroutine is given at the beginning and the end of an action.
LEMMA IdleType ==
  /\ Idle \in CoState
  /\ \A s \in Step : [Idle EXCEPT !.step = s] \in CoState
  /\ \A s \in Step, call \in {"refresh", "pair"}, value \in Value \cup {None} :
       [Idle EXCEPT !.step = s, !.call = call, !.value = value] \in CoState
  /\ \A s \in Step, call \in {"refresh", "pair"} :
       [Idle EXCEPT !.step = s, !.call = call] \in CoState
BY DEF Idle, CoState, Step, RunStep

\* TypeOK with the sets of records named, so that they need no expanding.
Typed ==
  /\ node \in BOOLEAN /\ native \in Native /\ ui \in Ui
  /\ expiresAt \in Ticket \cup {None} /\ offered \in BOOLEAN
  /\ operations \in Coroutine \cup {None} /\ actions \in Coroutine \cup {None}
  /\ co \in [Coroutine -> CoState] /\ co[Runner].step # "idle"
  /\ cancelled \subseteq Coroutine /\ passed \subseteq Ticket /\ lost \subseteq Ticket
  /\ spent \in [calls : 0 .. MaxCalls, faults : 0 .. MaxFaults]

\* Typed is the type invariant of the model.
LEMMA TypedIsTypeOK == Typed <=> TypeOK
BY DEF Typed, TypeOK, Native, Ui, CoState, Step

\* Opening, closing, enrolling and issuing give a node of its type.
LEMMA NativeType ==
  ASSUME native \in Native
  PROVE  /\ [native EXCEPT !.open = TRUE] \in Native
         /\ [native EXCEPT !.open = FALSE, !.pending = None] \in Native
         /\ [native EXCEPT !.enrolled = TRUE] \in Native
         /\ [native EXCEPT !.enrolled = TRUE, !.pending = None] \in Native
         /\ native.issued < MaxTickets =>
              [native EXCEPT !.issued = @ + 1, !.pending = native.issued + 1] \in Native
         /\ native.issued \in 0 .. MaxTickets
         /\ native.issued # 0 => native.issued \in Ticket
<1>1. MaxTickets \in Nat /\ native.issued \in 0 .. MaxTickets
  BY PairingSessionAssumption DEF Native
<1>2. native.issued # 0 => native.issued \in Ticket
  BY <1>1 DEF Ticket
<1>3. native.issued < MaxTickets =>
        native.issued + 1 \in 0 .. MaxTickets /\ native.issued + 1 \in Ticket
  BY <1>1 DEF Ticket
<1> QED
  BY <1>1, <1>2, <1>3 DEF Native

\* Changing the flags and the invitation gives a state of its type.
LEMMA UiType ==
  ASSUME ui \in Ui
  PROVE  /\ \A b \in BOOLEAN : [ui EXCEPT !.busy = b] \in Ui
         /\ \A t \in Ticket \cup {None} : [ui EXCEPT !.invitation = t] \in Ui
         /\ \A t \in Ticket \cup {None}, b \in BOOLEAN :
              /\ [ui EXCEPT !.meshed = b, !.invitation = t] \in Ui
              /\ [ui EXCEPT !.invitation = t, !.busy = b] \in Ui
         /\ ui.invitation \in Ticket \cup {None}
BY DEF Ui

\* Going back to run(), or ending, gives a coroutine of its type; run() never
\* ends with an action.
LEMMA ReturnType ==
  ASSUME Typed, NEW c \in Coroutine, Return(c)
  PROVE  co' \in [Coroutine -> CoState] /\ co'[Runner].step # "idle"
<1>1. [Idle EXCEPT !.step = "delay"] \in CoState /\ Idle \in CoState
  BY IdleType DEF Step, RunStep
<1>2. co' \in [Coroutine -> CoState]
  BY <1>1, SetType DEF Return, Typed
<1>3. [Idle EXCEPT !.step = "delay"].step = "delay"
  BY DEF Idle
<1> QED
  BY <1>2, <1>3 DEF Return, Typed, Coroutine

\* Every step keeps the types.
LEMMA TypeStep == Typed /\ IssuedOnShow /\ [Next]_vars => Typed'
<1> SUFFICES ASSUME Typed, IssuedOnShow, [Next]_vars PROVE Typed' OBVIOUS
<1> USE PairingSessionAssumption DEF Typed, At, shown, locks, clock
<1>1. ASSUME NEW c \in User, NEW call \in {"refresh", "pair"},
            NEW value \in Value \cup {None}, Call(c, call, value)
     PROVE  Typed'
  <2>1. co' \in [Coroutine -> CoState] /\ co'[Runner].step # "idle"
    BY <1>1
    DEF Call, Goto, Coroutine, CoState, Step, RunStep, ActionStep, Idle, Value,
        Ticket
  <2>2. QED
    BY <1>1, <2>1 DEF Call, Coroutine, Ticket, Native
<1>2. ASSUME NEW c \in Coroutine, TryLock(c)
     PROVE  Typed'
  <2>1. CASE Live(c) /\ actions = None
    BY <1>2, <2>1
    DEF TryLock, Goto, Coroutine, CoState, Step, RunStep, ActionStep, Idle, Value,
        Ticket
  <2>2. CASE ~(Live(c) /\ actions = None)
    <3>1. Return(c) /\ UNCHANGED actions
      BY <1>2, <2>2 DEF TryLock
    <3> QED
      BY <1>2, <3>1, ReturnType DEF TryLock, Return
  <2> QED
    BY <2>1, <2>2
<1>3. ASSUME NEW c \in Coroutine, SetBusy(c)
     PROVE  Typed'
  <2>1. co' \in [Coroutine -> CoState] /\ co'[Runner].step # "idle"
    BY <1>3
    DEF SetBusy, Goto, Coroutine, CoState, Step, RunStep, ActionStep, Idle, Value,
        Ticket
  <2>2. ui' \in Ui /\ expiresAt' \in Ticket \cup {None}
    BY <1>3, UiType, NativeType DEF SetBusy
  <2>3. QED
    BY <1>3, <2>1, <2>2 DEF SetBusy, Coroutine, Ticket, Native
<1>4. ASSUME NEW c \in Coroutine, CheckValue(c)
     PROVE  Typed'
  BY <1>4
  DEF CheckValue, Goto, Coroutine, CoState, Step, RunStep, ActionStep, Idle, Value,
      Ticket
<1>5. ASSUME NEW c \in Coroutine, GiveUpWaiting(c)
     PROVE  Typed'
  BY <1>5
  DEF GiveUpWaiting, Goto, Coroutine, CoState, Step, RunStep, ActionStep, Idle,
      Value, Ticket
<1>6. ASSUME NEW c \in Coroutine, IssueTicket(c)
     PROVE  Typed'
  <2>1. co' \in [Coroutine -> CoState] /\ co'[Runner].step # "idle"
    BY <1>6
    DEF IssueTicket, Fail, Fault, Goto, Coroutine, CoState, Step, RunStep,
        ActionStep, Idle, Value, Ticket
  <2>2. native' \in Native
    BY <1>6, NativeType DEF IssueTicket, Fail, Fault
  <2>3. QED
    BY <1>6, <2>1, <2>2 DEF IssueTicket, Fail, Fault, Coroutine, Ticket, Native
<1>7. ASSUME NEW c \in Coroutine, IssueFails(c)
     PROVE  Typed'
  BY <1>7
  DEF IssueFails, Fail, Fault, Goto, Coroutine, CoState, Step, RunStep, ActionStep,
      Idle, Value, Ticket
<1>8. ASSUME NEW c \in Coroutine, ShowTicket(c)
     PROVE  Typed'
  <2>1. co' \in [Coroutine -> CoState] /\ co'[Runner].step # "idle"
    BY <1>8
    DEF ShowTicket, Goto, Coroutine, CoState, Step, RunStep, ActionStep, Idle,
        Value, Ticket
  <2>2. ui' \in Ui /\ expiresAt' \in Ticket \cup {None}
    BY <1>8, UiType, NativeType DEF ShowTicket, IssuedOnShow
  <2>3. QED
    BY <1>8, <2>1, <2>2 DEF ShowTicket, Coroutine, Ticket, Native
<1>9. ASSUME NEW c \in Coroutine, ReadMembership(c)
     PROVE  Typed'
  BY <1>9
  DEF ReadMembership, Fail, Fault, Goto, Coroutine, CoState, Step, RunStep,
      ActionStep, Idle, Value, Ticket
<1>10. ASSUME NEW c \in Coroutine, CreateMesh(c)
     PROVE  Typed'
  <2>1. co' \in [Coroutine -> CoState] /\ co'[Runner].step # "idle"
    BY <1>10
    DEF CreateMesh, Fail, Fault, Goto, Coroutine, CoState, Step, RunStep,
        ActionStep, Idle, Value, Ticket
  <2>2. native' \in Native
    BY <1>10, NativeType DEF CreateMesh, Fail, Fault
  <2>3. QED
    BY <1>10, <2>1, <2>2 DEF CreateMesh, Fail, Fault, Coroutine, Ticket, Native
<1>11. ASSUME NEW c \in Coroutine, RecordMesh(c)
     PROVE  Typed'
  <2>1. co' \in [Coroutine -> CoState] /\ co'[Runner].step # "idle"
    BY <1>11
    DEF RecordMesh, Recorded, Goto, Coroutine, CoState, Step, RunStep, ActionStep,
        Idle, Value, Ticket
  <2>2. ui' \in Ui /\ expiresAt' \in Ticket \cup {None}
    BY <1>11, UiType, NativeType DEF RecordMesh, Recorded
  <2>3. QED
    BY <1>11, <2>1, <2>2 DEF RecordMesh, Recorded, Coroutine, Ticket, Native
<1>12. ASSUME NEW c \in Coroutine, AddDevice(c)
     PROVE  Typed'
  BY <1>12
  DEF AddDevice, Fail, Fault, Goto, Coroutine, CoState, Step, RunStep, ActionStep,
      Idle, Value, Ticket
<1>13. ASSUME NEW c \in Coroutine, ReportAdded(c)
     PROVE  Typed'
  <2>1. co' \in [Coroutine -> CoState] /\ co'[Runner].step # "idle"
    BY <1>13
    DEF ReportAdded, Goto, Coroutine, CoState, Step, RunStep, ActionStep, Idle,
        Value, Ticket
  <2>2. ui' \in Ui /\ expiresAt' \in Ticket \cup {None}
    BY <1>13, UiType, NativeType DEF ReportAdded
  <2>3. QED
    BY <1>13, <2>1, <2>2 DEF ReportAdded, Coroutine, Ticket, Native
<1>14. ASSUME NEW c \in Coroutine, ReportFailure(c)
     PROVE  Typed'
  BY <1>14
  DEF ReportFailure, Goto, Coroutine, CoState, Step, RunStep, ActionStep, Idle,
      Value, Ticket
<1>15. ASSUME NEW c \in Coroutine, FinishAction(c)
     PROVE  Typed'
  <2>1. CASE At(c, "finish")
    <3>1. co' \in [Coroutine -> CoState] /\ co'[Runner].step # "idle"
      BY <1>15, <2>1
      DEF FinishAction, Goto, Coroutine, CoState, Step, RunStep, ActionStep, Idle,
          Value, Ticket
    <3> QED
      BY <1>15, <2>1, <3>1, UiType DEF FinishAction
  <2>2. CASE At(c, "unlock")
    <3>1. co' \in [Coroutine -> CoState] /\ co'[Runner].step # "idle"
      BY <1>15, <2>2, ReturnType DEF FinishAction
    <3> QED
      BY <1>15, <2>2, <3>1 DEF FinishAction, Return
  <2> QED
    BY <1>15, <2>1, <2>2 DEF FinishAction
<1>16. ASSUME NEW c \in Coroutine, Acquire(c)
     PROVE  Typed'
  BY <1>16
  DEF Acquire, Goto, Coroutine, CoState, Step, RunStep, ActionStep, Idle, Value,
      Ticket
<1>17. ASSUME NEW c \in Coroutine, Cancel(c)
     PROVE  Typed'
  BY <1>17
  DEF Cancel, Goto, Coroutine, CoState, Step, RunStep, ActionStep, Idle, Value,
      Ticket
<1>18. ASSUME OpenFails
     PROVE  Typed'
  BY <1>18
  DEF OpenFails, Fault, Goto, Coroutine, CoState, Step, RunStep, ActionStep, Idle,
      Value, Ticket
<1>19. ASSUME Open
     PROVE  Typed'
  <2>1. co' \in [Coroutine -> CoState] /\ co'[Runner].step # "idle"
    BY <1>19
    DEF Open, Goto, Coroutine, CoState, Step, RunStep, ActionStep, Idle, Value,
        Ticket
  <2>2. native' \in Native
    BY <1>19, NativeType DEF Open
  <2>3. QED
    BY <1>19, <2>1, <2>2 DEF Open, Coroutine, Ticket, Native
<1>20. ASSUME ReadStatus
     PROVE  Typed'
  BY <1>20
  DEF ReadStatus, Fault, Goto, Coroutine, CoState, Step, RunStep, ActionStep, Idle,
      Value, Ticket
<1>21. ASSUME AcceptSnapshot
     PROVE  Typed'
  <2>1. Runner \in Coroutine
    BY DEF Coroutine
  <2>2. PICK s \in CoState : co' = [co EXCEPT ![Runner] = s] /\ s.step # "idle"
    <3>1. [Idle EXCEPT !.step = "delay"].step = "delay"
      BY DEF Idle
    <3>2. [Idle EXCEPT !.step = "begin", !.call = "refresh"].step = "begin"
      BY DEF Idle
    <3> QED
      BY <1>21, <3>1, <3>2, IdleType DEF AcceptSnapshot, Step, RunStep, ActionStep
  <2>3. co' \in [Coroutine -> CoState] /\ co'[Runner].step # "idle"
    BY <2>1, <2>2
  <2>4. co[Runner].enrolled \in BOOLEAN
    BY <2>1 DEF CoState
  <2>5. ui' \in Ui /\ expiresAt' \in Ticket \cup {None}
    BY <1>21, <2>4, UiType DEF AcceptSnapshot, Recorded
  <2> QED
    BY <1>21, <2>3, <2>5 DEF AcceptSnapshot, Recorded
<1>22. ASSUME Delay
     PROVE  Typed'
  BY <1>22
  DEF Delay, Goto, Coroutine, CoState, Step, RunStep, ActionStep, Idle, Value,
      Ticket
<1>23. ASSUME StopRunning
     PROVE  Typed'
  BY <1>23
  DEF StopRunning, Goto, Coroutine, CoState, Step, RunStep, ActionStep, Idle, Value,
      Ticket
<1>24. ASSUME ClearState
     PROVE  Typed'
  <2>1. co' \in [Coroutine -> CoState] /\ co'[Runner].step # "idle"
    BY <1>24
    DEF ClearState, Goto, Coroutine, CoState, Step, RunStep, ActionStep, Idle,
        Value, Ticket
  <2>2. ui' \in Ui /\ expiresAt' \in Ticket \cup {None}
    BY <1>24, UiType, NativeType DEF ClearState
  <2>3. QED
    BY <1>24, <2>1, <2>2 DEF ClearState, Coroutine, Ticket, Native
<1>25. ASSUME Poll
     PROVE  Typed'
  BY <1>25
  DEF Poll, Goto, Coroutine, CoState, Step, RunStep, ActionStep, Idle, Value, Ticket
<1>26. ASSUME CloseNode
     PROVE  Typed'
  <2>1. co' \in [Coroutine -> CoState] /\ co'[Runner].step # "idle"
    BY <1>26
    DEF CloseNode, Goto, Coroutine, CoState, Step, RunStep, ActionStep, Idle, Value,
        Ticket
  <2>2. native' \in Native
    BY <1>26, NativeType DEF CloseNode
  <2>3. QED
    BY <1>26, <2>1, <2>2 DEF CloseNode, Coroutine, Ticket, Native
<1>27. ASSUME AgeState
     PROVE  Typed'
  <2>1. co' \in [Coroutine -> CoState] /\ co'[Runner].step # "idle"
    BY <1>27
    DEF AgeState, Goto, Coroutine, CoState, Step, RunStep, ActionStep, Idle, Value,
        Ticket
  <2>2. ui' \in Ui /\ expiresAt' \in Ticket \cup {None}
    BY <1>27, UiType, NativeType DEF AgeState
  <2>3. QED
    BY <1>27, <2>1, <2>2 DEF AgeState, Coroutine, Ticket, Native
<1>28. ASSUME Redeem
     PROVE  Typed'
  <2>1. co' \in [Coroutine -> CoState] /\ co'[Runner].step # "idle"
    BY <1>28
    DEF Redeem, Goto, Coroutine, CoState, Step, RunStep, ActionStep, Idle, Value,
        Ticket
  <2>2. native' \in Native
    BY <1>28, NativeType DEF Redeem
  <2>3. QED
    BY <1>28, <2>1, <2>2 DEF Redeem, Coroutine, Ticket, Native
<1>29. ASSUME NEW t \in Ticket, Expire(t)
     PROVE  Typed'
  BY <1>29
  DEF Expire, Goto, Coroutine, CoState, Step, RunStep, ActionStep, Idle, Value,
      Ticket
<1>30. CASE UNCHANGED vars
  BY <1>30 DEF vars
<1>31. QED
  BY <1>1, <1>2, <1>3, <1>4, <1>5, <1>6, <1>7, <1>8, <1>9, <1>10, <1>11,
     <1>12, <1>13, <1>14, <1>15, <1>16, <1>17, <1>18, <1>19, <1>20,
     <1>21, <1>22, <1>23, <1>24, <1>25, <1>26, <1>27, <1>28, <1>29,
     <1>30
  DEF Next, ActionOf, Run

\* Every step leaves `operations' with the coroutine that is past it.
LEMMA OperationsStep == Typed /\ OperationsHeld /\ [Next]_vars => OperationsHeld'
<1> SUFFICES ASSUME Typed, OperationsHeld, [Next]_vars PROVE OperationsHeld' OBVIOUS
<1> USE PairingSessionAssumption DEF Typed, OperationsHeld, At, shown, locks, clock
<1>1. ASSUME NEW c \in User, NEW call \in {"refresh", "pair"},
            NEW value \in Value \cup {None}, Call(c, call, value)
     PROVE  OperationsHeld'
  BY <1>1 DEF Call, Goto, Coroutine, CoState, Holding, Idle
<1>2. ASSUME NEW c \in Coroutine, TryLock(c)
     PROVE  OperationsHeld'
  BY <1>2 DEF TryLock, Return, Goto, Coroutine, CoState, Holding, Idle
<1>3. ASSUME NEW c \in Coroutine, SetBusy(c)
     PROVE  OperationsHeld'
  BY <1>3 DEF SetBusy, Goto, Coroutine, CoState, Holding, Idle
<1>4. ASSUME NEW c \in Coroutine, CheckValue(c)
     PROVE  OperationsHeld'
  BY <1>4 DEF CheckValue, Goto, Coroutine, CoState, Holding, Idle
<1>5. ASSUME NEW c \in Coroutine, GiveUpWaiting(c)
     PROVE  OperationsHeld'
  BY <1>5 DEF GiveUpWaiting, Goto, Coroutine, CoState, Holding, Idle
<1>6. ASSUME NEW c \in Coroutine, IssueTicket(c)
     PROVE  OperationsHeld'
  BY <1>6 DEF IssueTicket, Fail, Fault, Goto, Coroutine, CoState, Holding, Idle
<1>7. ASSUME NEW c \in Coroutine, IssueFails(c)
     PROVE  OperationsHeld'
  BY <1>7 DEF IssueFails, Fail, Fault, Goto, Coroutine, CoState, Holding, Idle
<1>8. ASSUME NEW c \in Coroutine, ShowTicket(c)
     PROVE  OperationsHeld'
  BY <1>8 DEF ShowTicket, Goto, Coroutine, CoState, Holding, Idle
<1>9. ASSUME NEW c \in Coroutine, ReadMembership(c)
     PROVE  OperationsHeld'
  BY <1>9 DEF ReadMembership, Fail, Fault, Goto, Coroutine, CoState, Holding, Idle
<1>10. ASSUME NEW c \in Coroutine, CreateMesh(c)
     PROVE  OperationsHeld'
  BY <1>10 DEF CreateMesh, Fail, Fault, Goto, Coroutine, CoState, Holding, Idle
<1>11. ASSUME NEW c \in Coroutine, RecordMesh(c)
     PROVE  OperationsHeld'
  BY <1>11 DEF RecordMesh, Recorded, Goto, Coroutine, CoState, Holding, Idle
<1>12. ASSUME NEW c \in Coroutine, AddDevice(c)
     PROVE  OperationsHeld'
  BY <1>12 DEF AddDevice, Fail, Fault, Goto, Coroutine, CoState, Holding, Idle
<1>13. ASSUME NEW c \in Coroutine, ReportAdded(c)
     PROVE  OperationsHeld'
  BY <1>13 DEF ReportAdded, Goto, Coroutine, CoState, Holding, Idle
<1>14. ASSUME NEW c \in Coroutine, ReportFailure(c)
     PROVE  OperationsHeld'
  BY <1>14 DEF ReportFailure, Goto, Coroutine, CoState, Holding, Idle
<1>15. ASSUME NEW c \in Coroutine, FinishAction(c)
     PROVE  OperationsHeld'
  BY <1>15 DEF FinishAction, Return, Goto, Coroutine, CoState, Holding, Idle
<1>16. ASSUME NEW c \in Coroutine, Acquire(c)
     PROVE  OperationsHeld'
  BY <1>16 DEF Acquire, Goto, Coroutine, CoState, Holding, Idle
<1>17. ASSUME NEW c \in Coroutine, Cancel(c)
     PROVE  OperationsHeld'
  BY <1>17 DEF Cancel, Goto, Coroutine, CoState, Holding, Idle
<1>18. ASSUME OpenFails
     PROVE  OperationsHeld'
  BY <1>18 DEF OpenFails, Fault, Goto, Coroutine, CoState, Holding, Idle
<1>19. ASSUME Open
     PROVE  OperationsHeld'
  BY <1>19 DEF Open, Goto, Coroutine, CoState, Holding, Idle
<1>20. ASSUME ReadStatus
     PROVE  OperationsHeld'
  BY <1>20 DEF ReadStatus, Fault, Goto, Coroutine, CoState, Holding, Idle
<1>21. ASSUME AcceptSnapshot
     PROVE  OperationsHeld'
  BY <1>21 DEF AcceptSnapshot, Recorded, Goto, Coroutine, CoState, Holding, Idle
<1>22. ASSUME Delay
     PROVE  OperationsHeld'
  BY <1>22 DEF Delay, Goto, Coroutine, CoState, Holding, Idle
<1>23. ASSUME StopRunning
     PROVE  OperationsHeld'
  BY <1>23 DEF StopRunning, Goto, Coroutine, CoState, Holding, Idle
<1>24. ASSUME ClearState
     PROVE  OperationsHeld'
  BY <1>24 DEF ClearState, Goto, Coroutine, CoState, Holding, Idle
<1>25. ASSUME Poll
     PROVE  OperationsHeld'
  BY <1>25 DEF Poll, Goto, Coroutine, CoState, Holding, Idle
<1>26. ASSUME CloseNode
     PROVE  OperationsHeld'
  BY <1>26 DEF CloseNode, Goto, Coroutine, CoState, Holding, Idle
<1>27. ASSUME AgeState
     PROVE  OperationsHeld'
  BY <1>27 DEF AgeState, Goto, Coroutine, CoState, Holding, Idle
<1>28. ASSUME Redeem
     PROVE  OperationsHeld'
  BY <1>28 DEF Redeem, Goto, Coroutine, CoState, Holding, Idle
<1>29. ASSUME NEW t \in Ticket, Expire(t)
     PROVE  OperationsHeld'
  BY <1>29 DEF Expire, Goto, Coroutine, CoState, Holding, Idle
<1>30. CASE UNCHANGED vars
  BY <1>30 DEF vars, Goto, Coroutine, CoState, Holding, Idle
<1>31. QED
  BY <1>1, <1>2, <1>3, <1>4, <1>5, <1>6, <1>7, <1>8, <1>9, <1>10, <1>11,
     <1>12, <1>13, <1>14, <1>15, <1>16, <1>17, <1>18, <1>19, <1>20,
     <1>21, <1>22, <1>23, <1>24, <1>25, <1>26, <1>27, <1>28, <1>29,
     <1>30
  DEF Next, ActionOf, Run

\* Every step leaves `actions' with the coroutine that is past it.
LEMMA ActionsStep == Typed /\ ActionsHeld /\ [Next]_vars => ActionsHeld'
<1> SUFFICES ASSUME Typed, ActionsHeld, [Next]_vars PROVE ActionsHeld' OBVIOUS
<1> USE PairingSessionAssumption DEF Typed, ActionsHeld, At, shown, locks, clock
<1>1. ASSUME NEW c \in User, NEW call \in {"refresh", "pair"},
            NEW value \in Value \cup {None}, Call(c, call, value)
     PROVE  ActionsHeld'
  BY <1>1 DEF Call, Goto, Coroutine, CoState, Locked, ActionStep, Idle
<1>2. ASSUME NEW c \in Coroutine, TryLock(c)
     PROVE  ActionsHeld'
  BY <1>2 DEF TryLock, Return, Goto, Coroutine, CoState, Locked, ActionStep, Idle
<1>3. ASSUME NEW c \in Coroutine, SetBusy(c)
     PROVE  ActionsHeld'
  BY <1>3 DEF SetBusy, Goto, Coroutine, CoState, Locked, ActionStep, Idle
<1>4. ASSUME NEW c \in Coroutine, CheckValue(c)
     PROVE  ActionsHeld'
  BY <1>4 DEF CheckValue, Goto, Coroutine, CoState, Locked, ActionStep, Idle
<1>5. ASSUME NEW c \in Coroutine, GiveUpWaiting(c)
     PROVE  ActionsHeld'
  BY <1>5 DEF GiveUpWaiting, Goto, Coroutine, CoState, Locked, ActionStep, Idle
<1>6. ASSUME NEW c \in Coroutine, IssueTicket(c)
     PROVE  ActionsHeld'
  BY <1>6 DEF IssueTicket, Fail, Fault, Goto, Coroutine, CoState, Locked, ActionStep, Idle
<1>7. ASSUME NEW c \in Coroutine, IssueFails(c)
     PROVE  ActionsHeld'
  BY <1>7 DEF IssueFails, Fail, Fault, Goto, Coroutine, CoState, Locked, ActionStep, Idle
<1>8. ASSUME NEW c \in Coroutine, ShowTicket(c)
     PROVE  ActionsHeld'
  BY <1>8 DEF ShowTicket, Goto, Coroutine, CoState, Locked, ActionStep, Idle
<1>9. ASSUME NEW c \in Coroutine, ReadMembership(c)
     PROVE  ActionsHeld'
  BY <1>9
  DEF ReadMembership, Fail, Fault, Goto, Coroutine, CoState, Locked, ActionStep,
      Idle
<1>10. ASSUME NEW c \in Coroutine, CreateMesh(c)
     PROVE  ActionsHeld'
  BY <1>10 DEF CreateMesh, Fail, Fault, Goto, Coroutine, CoState, Locked, ActionStep, Idle
<1>11. ASSUME NEW c \in Coroutine, RecordMesh(c)
     PROVE  ActionsHeld'
  BY <1>11 DEF RecordMesh, Recorded, Goto, Coroutine, CoState, Locked, ActionStep, Idle
<1>12. ASSUME NEW c \in Coroutine, AddDevice(c)
     PROVE  ActionsHeld'
  BY <1>12 DEF AddDevice, Fail, Fault, Goto, Coroutine, CoState, Locked, ActionStep, Idle
<1>13. ASSUME NEW c \in Coroutine, ReportAdded(c)
     PROVE  ActionsHeld'
  BY <1>13 DEF ReportAdded, Goto, Coroutine, CoState, Locked, ActionStep, Idle
<1>14. ASSUME NEW c \in Coroutine, ReportFailure(c)
     PROVE  ActionsHeld'
  BY <1>14 DEF ReportFailure, Goto, Coroutine, CoState, Locked, ActionStep, Idle
<1>15. ASSUME NEW c \in Coroutine, FinishAction(c)
     PROVE  ActionsHeld'
  BY <1>15 DEF FinishAction, Return, Goto, Coroutine, CoState, Locked, ActionStep, Idle
<1>16. ASSUME NEW c \in Coroutine, Acquire(c)
     PROVE  ActionsHeld'
  BY <1>16 DEF Acquire, Goto, Coroutine, CoState, Locked, ActionStep, Idle
<1>17. ASSUME NEW c \in Coroutine, Cancel(c)
     PROVE  ActionsHeld'
  BY <1>17 DEF Cancel, Goto, Coroutine, CoState, Locked, ActionStep, Idle
<1>18. ASSUME OpenFails
     PROVE  ActionsHeld'
  BY <1>18 DEF OpenFails, Fault, Goto, Coroutine, CoState, Locked, ActionStep, Idle
<1>19. ASSUME Open
     PROVE  ActionsHeld'
  BY <1>19 DEF Open, Goto, Coroutine, CoState, Locked, ActionStep, Idle
<1>20. ASSUME ReadStatus
     PROVE  ActionsHeld'
  BY <1>20 DEF ReadStatus, Fault, Goto, Coroutine, CoState, Locked, ActionStep, Idle
<1>21. ASSUME AcceptSnapshot
     PROVE  ActionsHeld'
  BY <1>21 DEF AcceptSnapshot, Recorded, Goto, Coroutine, CoState, Locked, ActionStep, Idle
<1>22. ASSUME Delay
     PROVE  ActionsHeld'
  BY <1>22 DEF Delay, Goto, Coroutine, CoState, Locked, ActionStep, Idle
<1>23. ASSUME StopRunning
     PROVE  ActionsHeld'
  BY <1>23 DEF StopRunning, Goto, Coroutine, CoState, Locked, ActionStep, Idle
<1>24. ASSUME ClearState
     PROVE  ActionsHeld'
  BY <1>24 DEF ClearState, Goto, Coroutine, CoState, Locked, ActionStep, Idle
<1>25. ASSUME Poll
     PROVE  ActionsHeld'
  BY <1>25 DEF Poll, Goto, Coroutine, CoState, Locked, ActionStep, Idle
<1>26. ASSUME CloseNode
     PROVE  ActionsHeld'
  BY <1>26 DEF CloseNode, Goto, Coroutine, CoState, Locked, ActionStep, Idle
<1>27. ASSUME AgeState
     PROVE  ActionsHeld'
  BY <1>27 DEF AgeState, Goto, Coroutine, CoState, Locked, ActionStep, Idle
<1>28. ASSUME Redeem
     PROVE  ActionsHeld'
  BY <1>28 DEF Redeem, Goto, Coroutine, CoState, Locked, ActionStep, Idle
<1>29. ASSUME NEW t \in Ticket, Expire(t)
     PROVE  ActionsHeld'
  BY <1>29 DEF Expire, Goto, Coroutine, CoState, Locked, ActionStep, Idle
<1>30. CASE UNCHANGED vars
  BY <1>30 DEF vars, Goto, Coroutine, CoState, Locked, ActionStep, Idle
<1>31. QED
  BY <1>1, <1>2, <1>3, <1>4, <1>5, <1>6, <1>7, <1>8, <1>9, <1>10, <1>11,
     <1>12, <1>13, <1>14, <1>15, <1>16, <1>17, <1>18, <1>19, <1>20,
     <1>21, <1>22, <1>23, <1>24, <1>25, <1>26, <1>27, <1>28, <1>29,
     <1>30
  DEF Next, ActionOf, Run

\* The node has issued the ticket that is about to be shown.
LEMMA IssuedStep == Typed /\ IssuedOnShow /\ [Next]_vars => IssuedOnShow'
<1> SUFFICES ASSUME Typed, IssuedOnShow, [Next]_vars PROVE IssuedOnShow' OBVIOUS
<1> USE PairingSessionAssumption DEF Typed, IssuedOnShow, At, shown, locks, clock
<1>1. ASSUME NEW c \in User, NEW call \in {"refresh", "pair"},
            NEW value \in Value \cup {None}, Call(c, call, value)
     PROVE  IssuedOnShow'
  BY <1>1 DEF Call, Goto, CoState, Native, Idle
<1>2. ASSUME NEW c \in Coroutine, TryLock(c)
     PROVE  IssuedOnShow'
  BY <1>2 DEF TryLock, Return, Goto, CoState, Native, Idle
<1>3. ASSUME NEW c \in Coroutine, SetBusy(c)
     PROVE  IssuedOnShow'
  BY <1>3 DEF SetBusy, Goto, CoState, Native, Idle
<1>4. ASSUME NEW c \in Coroutine, CheckValue(c)
     PROVE  IssuedOnShow'
  BY <1>4 DEF CheckValue, Goto, CoState, Native, Idle
<1>5. ASSUME NEW c \in Coroutine, GiveUpWaiting(c)
     PROVE  IssuedOnShow'
  BY <1>5 DEF GiveUpWaiting, Goto, CoState, Native, Idle
<1>6. ASSUME NEW c \in Coroutine, IssueTicket(c)
     PROVE  IssuedOnShow'
  BY <1>6 DEF IssueTicket, Fail, Fault, Goto, CoState, Native, Idle
<1>7. ASSUME NEW c \in Coroutine, IssueFails(c)
     PROVE  IssuedOnShow'
  BY <1>7 DEF IssueFails, Fail, Fault, Goto, CoState, Native, Idle
<1>8. ASSUME NEW c \in Coroutine, ShowTicket(c)
     PROVE  IssuedOnShow'
  BY <1>8 DEF ShowTicket, Goto, CoState, Native, Idle
<1>9. ASSUME NEW c \in Coroutine, ReadMembership(c)
     PROVE  IssuedOnShow'
  BY <1>9 DEF ReadMembership, Fail, Fault, Goto, CoState, Native, Idle
<1>10. ASSUME NEW c \in Coroutine, CreateMesh(c)
     PROVE  IssuedOnShow'
  BY <1>10 DEF CreateMesh, Fail, Fault, Goto, CoState, Native, Idle
<1>11. ASSUME NEW c \in Coroutine, RecordMesh(c)
     PROVE  IssuedOnShow'
  BY <1>11 DEF RecordMesh, Recorded, Goto, CoState, Native, Idle
<1>12. ASSUME NEW c \in Coroutine, AddDevice(c)
     PROVE  IssuedOnShow'
  BY <1>12 DEF AddDevice, Fail, Fault, Goto, CoState, Native, Idle
<1>13. ASSUME NEW c \in Coroutine, ReportAdded(c)
     PROVE  IssuedOnShow'
  BY <1>13 DEF ReportAdded, Goto, CoState, Native, Idle
<1>14. ASSUME NEW c \in Coroutine, ReportFailure(c)
     PROVE  IssuedOnShow'
  BY <1>14 DEF ReportFailure, Goto, CoState, Native, Idle
<1>15. ASSUME NEW c \in Coroutine, FinishAction(c)
     PROVE  IssuedOnShow'
  BY <1>15 DEF FinishAction, Return, Goto, CoState, Native, Idle
<1>16. ASSUME NEW c \in Coroutine, Acquire(c)
     PROVE  IssuedOnShow'
  BY <1>16 DEF Acquire, Goto, CoState, Native, Idle
<1>17. ASSUME NEW c \in Coroutine, Cancel(c)
     PROVE  IssuedOnShow'
  BY <1>17 DEF Cancel, Goto, CoState, Native, Idle
<1>18. ASSUME OpenFails
     PROVE  IssuedOnShow'
  BY <1>18 DEF OpenFails, Fault, Goto, CoState, Native, Idle
<1>19. ASSUME Open
     PROVE  IssuedOnShow'
  BY <1>19 DEF Open, Goto, CoState, Native, Idle
<1>20. ASSUME ReadStatus
     PROVE  IssuedOnShow'
  BY <1>20 DEF ReadStatus, Fault, Goto, CoState, Native, Idle
<1>21. ASSUME AcceptSnapshot
     PROVE  IssuedOnShow'
  BY <1>21 DEF AcceptSnapshot, Recorded, Goto, CoState, Native, Idle
<1>22. ASSUME Delay
     PROVE  IssuedOnShow'
  BY <1>22 DEF Delay, Goto, CoState, Native, Idle
<1>23. ASSUME StopRunning
     PROVE  IssuedOnShow'
  BY <1>23 DEF StopRunning, Goto, CoState, Native, Idle
<1>24. ASSUME ClearState
     PROVE  IssuedOnShow'
  BY <1>24 DEF ClearState, Goto, CoState, Native, Idle
<1>25. ASSUME Poll
     PROVE  IssuedOnShow'
  BY <1>25 DEF Poll, Goto, CoState, Native, Idle
<1>26. ASSUME CloseNode
     PROVE  IssuedOnShow'
  BY <1>26 DEF CloseNode, Goto, CoState, Native, Idle
<1>27. ASSUME AgeState
     PROVE  IssuedOnShow'
  BY <1>27 DEF AgeState, Goto, CoState, Native, Idle
<1>28. ASSUME Redeem
     PROVE  IssuedOnShow'
  BY <1>28 DEF Redeem, Goto, CoState, Native, Idle
<1>29. ASSUME NEW t \in Ticket, Expire(t)
     PROVE  IssuedOnShow'
  BY <1>29 DEF Expire, Goto, CoState, Native, Idle
<1>30. CASE UNCHANGED vars
  BY <1>30 DEF vars, Goto, CoState, Native, Idle
<1>31. QED
  BY <1>1, <1>2, <1>3, <1>4, <1>5, <1>6, <1>7, <1>8, <1>9, <1>10, <1>11,
     <1>12, <1>13, <1>14, <1>15, <1>16, <1>17, <1>18, <1>19, <1>20,
     <1>21, <1>22, <1>23, <1>24, <1>25, <1>26, <1>27, <1>28, <1>29,
     <1>30
  DEF Next, ActionOf, Run

\* The node is open for run() between its opening and closing, and for whoever
\* holds `operations': closing waits for the lock.
LEMMA NodeOpenStep == Typed /\ OperationsHeld /\ NodeOpen /\ [Next]_vars => NodeOpen'
<1> SUFFICES ASSUME Typed, OperationsHeld, NodeOpen, [Next]_vars PROVE NodeOpen' OBVIOUS
<1> USE PairingSessionAssumption
        DEF Typed, OperationsHeld, NodeOpen, At, shown, locks, clock
<1>1. ASSUME NEW c \in User, NEW call \in {"refresh", "pair"},
            NEW value \in Value \cup {None}, Call(c, call, value)
     PROVE  NodeOpen'
  BY <1>1 DEF Call, Goto, Coroutine, CoState, Native, Holding, Running, ActionStep, Idle
<1>2. ASSUME NEW c \in Coroutine, TryLock(c)
     PROVE  NodeOpen'
  BY <1>2
  DEF TryLock, Return, Goto, Coroutine, CoState, Native, Holding, Running,
      ActionStep, Idle
<1>3. ASSUME NEW c \in Coroutine, SetBusy(c)
     PROVE  NodeOpen'
  BY <1>3 DEF SetBusy, Goto, Coroutine, CoState, Native, Holding, Running, ActionStep, Idle
<1>4. ASSUME NEW c \in Coroutine, CheckValue(c)
     PROVE  NodeOpen'
  BY <1>4
  DEF CheckValue, Goto, Coroutine, CoState, Native, Holding, Running, ActionStep,
      Idle
<1>5. ASSUME NEW c \in Coroutine, GiveUpWaiting(c)
     PROVE  NodeOpen'
  BY <1>5
  DEF GiveUpWaiting, Goto, Coroutine, CoState, Native, Holding, Running, ActionStep,
      Idle
<1>6. ASSUME NEW c \in Coroutine, IssueTicket(c)
     PROVE  NodeOpen'
  BY <1>6
  DEF IssueTicket, Fail, Fault, Goto, Coroutine, CoState, Native, Holding, Running,
      ActionStep, Idle
<1>7. ASSUME NEW c \in Coroutine, IssueFails(c)
     PROVE  NodeOpen'
  BY <1>7
  DEF IssueFails, Fail, Fault, Goto, Coroutine, CoState, Native, Holding, Running,
      ActionStep, Idle
<1>8. ASSUME NEW c \in Coroutine, ShowTicket(c)
     PROVE  NodeOpen'
  BY <1>8
  DEF ShowTicket, Goto, Coroutine, CoState, Native, Holding, Running, ActionStep,
      Idle
<1>9. ASSUME NEW c \in Coroutine, ReadMembership(c)
     PROVE  NodeOpen'
  BY <1>9
  DEF ReadMembership, Fail, Fault, Goto, Coroutine, CoState, Native, Holding,
      Running, ActionStep, Idle
<1>10. ASSUME NEW c \in Coroutine, CreateMesh(c)
     PROVE  NodeOpen'
  BY <1>10
  DEF CreateMesh, Fail, Fault, Goto, Coroutine, CoState, Native, Holding, Running,
      ActionStep, Idle
<1>11. ASSUME NEW c \in Coroutine, RecordMesh(c)
     PROVE  NodeOpen'
  BY <1>11
  DEF RecordMesh, Recorded, Goto, Coroutine, CoState, Native, Holding, Running,
      ActionStep, Idle
<1>12. ASSUME NEW c \in Coroutine, AddDevice(c)
     PROVE  NodeOpen'
  BY <1>12
  DEF AddDevice, Fail, Fault, Goto, Coroutine, CoState, Native, Holding, Running,
      ActionStep, Idle
<1>13. ASSUME NEW c \in Coroutine, ReportAdded(c)
     PROVE  NodeOpen'
  BY <1>13
  DEF ReportAdded, Goto, Coroutine, CoState, Native, Holding, Running, ActionStep,
      Idle
<1>14. ASSUME NEW c \in Coroutine, ReportFailure(c)
     PROVE  NodeOpen'
  BY <1>14
  DEF ReportFailure, Goto, Coroutine, CoState, Native, Holding, Running, ActionStep,
      Idle
<1>15. ASSUME NEW c \in Coroutine, FinishAction(c)
     PROVE  NodeOpen'
  BY <1>15
  DEF FinishAction, Return, Goto, Coroutine, CoState, Native, Holding, Running,
      ActionStep, Idle
<1>16. ASSUME NEW c \in Coroutine, Acquire(c)
     PROVE  NodeOpen'
  BY <1>16 DEF Acquire, Goto, Coroutine, CoState, Native, Holding, Running, ActionStep, Idle
<1>17. ASSUME NEW c \in Coroutine, Cancel(c)
     PROVE  NodeOpen'
  BY <1>17 DEF Cancel, Goto, Coroutine, CoState, Native, Holding, Running, ActionStep, Idle
<1>18. ASSUME OpenFails
     PROVE  NodeOpen'
  BY <1>18
  DEF OpenFails, Fault, Goto, Coroutine, CoState, Native, Holding, Running,
      ActionStep, Idle
<1>19. ASSUME Open
     PROVE  NodeOpen'
  BY <1>19 DEF Open, Goto, Coroutine, CoState, Native, Holding, Running, ActionStep, Idle
<1>20. ASSUME ReadStatus
     PROVE  NodeOpen'
  BY <1>20
  DEF ReadStatus, Fault, Goto, Coroutine, CoState, Native, Holding, Running,
      ActionStep, Idle
<1>21. ASSUME AcceptSnapshot
     PROVE  NodeOpen'
  BY <1>21
  DEF AcceptSnapshot, Recorded, Goto, Coroutine, CoState, Native, Holding, Running,
      ActionStep, Idle
<1>22. ASSUME Delay
     PROVE  NodeOpen'
  BY <1>22 DEF Delay, Goto, Coroutine, CoState, Native, Holding, Running, ActionStep, Idle
<1>23. ASSUME StopRunning
     PROVE  NodeOpen'
  BY <1>23
  DEF StopRunning, Goto, Coroutine, CoState, Native, Holding, Running, ActionStep,
      Idle
<1>24. ASSUME ClearState
     PROVE  NodeOpen'
  BY <1>24
  DEF ClearState, Goto, Coroutine, CoState, Native, Holding, Running, ActionStep,
      Idle
<1>25. ASSUME Poll
     PROVE  NodeOpen'
  BY <1>25 DEF Poll, Goto, Coroutine, CoState, Native, Holding, Running, ActionStep, Idle
<1>26. ASSUME CloseNode
     PROVE  NodeOpen'
  <2>1. \A c \in Coroutine : co[c].step \notin Holding
    BY <1>26 DEF CloseNode, Coroutine
  <2>2. native' = [native EXCEPT !.open = FALSE, !.pending = None] /\ node' = FALSE
    BY <1>26 DEF CloseNode
  <2>3. co' = [co EXCEPT ![Runner].step = "clear"]
    BY <1>26 DEF CloseNode, Goto
  <2>4. co'[Runner].step = "clear" /\ \A c \in Coroutine : co'[c].step \notin Holding
    BY <2>1, <2>3 DEF Coroutine, CoState, Holding
  <2>5. native'.open = FALSE
    BY <2>2 DEF Native
  <2> QED
    BY <2>2, <2>4, <2>5 DEF Running, ActionStep
<1>27. ASSUME AgeState
     PROVE  NodeOpen'
  BY <1>27
  DEF AgeState, Goto, Coroutine, CoState, Native, Holding, Running, ActionStep, Idle
<1>28. ASSUME Redeem
     PROVE  NodeOpen'
  BY <1>28 DEF Redeem, Goto, Coroutine, CoState, Native, Holding, Running, ActionStep, Idle
<1>29. ASSUME NEW t \in Ticket, Expire(t)
     PROVE  NodeOpen'
  BY <1>29 DEF Expire, Goto, Coroutine, CoState, Native, Holding, Running, ActionStep, Idle
<1>30. CASE UNCHANGED vars
  BY <1>30 DEF vars, Goto, Coroutine, CoState, Native, Holding, Running, ActionStep, Idle
<1>31. QED
  BY <1>1, <1>2, <1>3, <1>4, <1>5, <1>6, <1>7, <1>8, <1>9, <1>10, <1>11,
     <1>12, <1>13, <1>14, <1>15, <1>16, <1>17, <1>18, <1>19, <1>20,
     <1>21, <1>22, <1>23, <1>24, <1>25, <1>26, <1>27, <1>28, <1>29,
     <1>30
  DEF Next, ActionOf, Run

\* The busy flag follows `actions': it is cleared before the lock is released.
LEMMA FlagStep ==
  Typed /\ ActionsHeld /\ NodeOpen /\ LastFlag /\ BusyIsAccurate /\ [Next]_vars
    => (LastFlag /\ BusyIsAccurate)'
<1> SUFFICES ASSUME Typed, ActionsHeld, NodeOpen, LastFlag, BusyIsAccurate, [Next]_vars
             PROVE  (LastFlag /\ BusyIsAccurate)' OBVIOUS
<1> USE PairingSessionAssumption
        DEF Typed, LastFlag, BusyIsAccurate, Acting, At, shown, locks, clock
<1>1. ASSUME NEW c \in User, NEW call \in {"refresh", "pair"},
            NEW value \in Value \cup {None}, Call(c, call, value)
     PROVE  (LastFlag /\ BusyIsAccurate)'
  BY <1>1
  DEF Call, ActionsHeld, Goto, Coroutine, CoState, Ui, Locked, ActionStep, RunStep,
      Idle
<1>2. ASSUME NEW c \in Coroutine, TryLock(c)
     PROVE  (LastFlag /\ BusyIsAccurate)'
  BY <1>2
  DEF TryLock, Return, ActionsHeld, Goto, Coroutine, CoState, Ui, Locked,
      ActionStep, RunStep, Idle
<1>3. ASSUME NEW c \in Coroutine, SetBusy(c)
     PROVE  (LastFlag /\ BusyIsAccurate)'
  BY <1>3
  DEF SetBusy, ActionsHeld, Goto, Coroutine, CoState, Ui, Locked, ActionStep,
      RunStep, Idle
<1>4. ASSUME NEW c \in Coroutine, CheckValue(c)
     PROVE  (LastFlag /\ BusyIsAccurate)'
  BY <1>4
  DEF CheckValue, ActionsHeld, Goto, Coroutine, CoState, Ui, Locked, ActionStep,
      RunStep, Idle
<1>5. ASSUME NEW c \in Coroutine, GiveUpWaiting(c)
     PROVE  (LastFlag /\ BusyIsAccurate)'
  BY <1>5
  DEF GiveUpWaiting, ActionsHeld, Goto, Coroutine, CoState, Ui, Locked, ActionStep,
      RunStep, Idle
<1>6. ASSUME NEW c \in Coroutine, IssueTicket(c)
     PROVE  (LastFlag /\ BusyIsAccurate)'
  BY <1>6
  DEF IssueTicket, Fail, Fault, ActionsHeld, Goto, Coroutine, CoState, Ui, Locked,
      ActionStep, RunStep, Idle
<1>7. ASSUME NEW c \in Coroutine, IssueFails(c)
     PROVE  (LastFlag /\ BusyIsAccurate)'
  BY <1>7
  DEF IssueFails, Fail, Fault, ActionsHeld, Goto, Coroutine, CoState, Ui, Locked,
      ActionStep, RunStep, Idle
<1>8. ASSUME NEW c \in Coroutine, ShowTicket(c)
     PROVE  (LastFlag /\ BusyIsAccurate)'
  BY <1>8
  DEF ShowTicket, ActionsHeld, Goto, Coroutine, CoState, Ui, Locked, ActionStep,
      RunStep, Idle
<1>9. ASSUME NEW c \in Coroutine, ReadMembership(c)
     PROVE  (LastFlag /\ BusyIsAccurate)'
  BY <1>9
  DEF ReadMembership, Fail, Fault, ActionsHeld, Goto, Coroutine, CoState, Ui,
      Locked, ActionStep, RunStep, Idle
<1>10. ASSUME NEW c \in Coroutine, CreateMesh(c)
     PROVE  (LastFlag /\ BusyIsAccurate)'
  BY <1>10
  DEF CreateMesh, Fail, Fault, ActionsHeld, Goto, Coroutine, CoState, Ui, Locked,
      ActionStep, RunStep, Idle
<1>11. ASSUME NEW c \in Coroutine, RecordMesh(c)
     PROVE  (LastFlag /\ BusyIsAccurate)'
  BY <1>11
  DEF RecordMesh, Recorded, ActionsHeld, Goto, Coroutine, CoState, Ui, Locked,
      ActionStep, RunStep, Idle
<1>12. ASSUME NEW c \in Coroutine, AddDevice(c)
     PROVE  (LastFlag /\ BusyIsAccurate)'
  BY <1>12
  DEF AddDevice, Fail, Fault, ActionsHeld, Goto, Coroutine, CoState, Ui, Locked,
      ActionStep, RunStep, Idle
<1>13. ASSUME NEW c \in Coroutine, ReportAdded(c)
     PROVE  (LastFlag /\ BusyIsAccurate)'
  BY <1>13
  DEF ReportAdded, ActionsHeld, Goto, Coroutine, CoState, Ui, Locked, ActionStep,
      RunStep, Idle
<1>14. ASSUME NEW c \in Coroutine, ReportFailure(c)
     PROVE  (LastFlag /\ BusyIsAccurate)'
  BY <1>14
  DEF ReportFailure, ActionsHeld, Goto, Coroutine, CoState, Ui, Locked, ActionStep,
      RunStep, Idle
<1>15. ASSUME NEW c \in Coroutine, FinishAction(c)
     PROVE  (LastFlag /\ BusyIsAccurate)'
  BY <1>15
  DEF FinishAction, Return, ActionsHeld, Goto, Coroutine, CoState, Ui, Locked,
      ActionStep, RunStep, Idle
<1>16. ASSUME NEW c \in Coroutine, Acquire(c)
     PROVE  (LastFlag /\ BusyIsAccurate)'
  BY <1>16
  DEF Acquire, ActionsHeld, Goto, Coroutine, CoState, Ui, Locked, ActionStep,
      RunStep, Idle
<1>17. ASSUME NEW c \in Coroutine, Cancel(c)
     PROVE  (LastFlag /\ BusyIsAccurate)'
  BY <1>17
  DEF Cancel, ActionsHeld, Goto, Coroutine, CoState, Ui, Locked, ActionStep,
      RunStep, Idle
<1>18. ASSUME OpenFails
     PROVE  (LastFlag /\ BusyIsAccurate)'
  BY <1>18
  DEF OpenFails, Fault, ActionsHeld, Goto, Coroutine, CoState, Ui, Locked,
      ActionStep, RunStep, Idle
<1>19. ASSUME Open
     PROVE  (LastFlag /\ BusyIsAccurate)'
  BY <1>19
  DEF Open, ActionsHeld, Goto, Coroutine, CoState, Ui, Locked, ActionStep, RunStep,
      Idle
<1>20. ASSUME ReadStatus
     PROVE  (LastFlag /\ BusyIsAccurate)'
  BY <1>20
  DEF ReadStatus, Fault, ActionsHeld, Goto, Coroutine, CoState, Ui, Locked,
      ActionStep, RunStep, Idle
<1>21. ASSUME AcceptSnapshot
     PROVE  (LastFlag /\ BusyIsAccurate)'
  BY <1>21
  DEF AcceptSnapshot, Recorded, ActionsHeld, Goto, Coroutine, CoState, Ui, Locked,
      ActionStep, RunStep, Idle
<1>22. ASSUME Delay
     PROVE  (LastFlag /\ BusyIsAccurate)'
  BY <1>22
  DEF Delay, ActionsHeld, Goto, Coroutine, CoState, Ui, Locked, ActionStep, RunStep,
      Idle
<1>23. ASSUME StopRunning
     PROVE  (LastFlag /\ BusyIsAccurate)'
  BY <1>23
  DEF StopRunning, ActionsHeld, Goto, Coroutine, CoState, Ui, Locked, ActionStep,
      RunStep, Idle
<1>24. ASSUME ClearState
     PROVE  (LastFlag /\ BusyIsAccurate)'
  BY <1>24
  DEF ClearState, ActionsHeld, Goto, Coroutine, CoState, Ui, Locked, ActionStep,
      RunStep, Idle
<1>25. ASSUME Poll
     PROVE  (LastFlag /\ BusyIsAccurate)'
  BY <1>25
  DEF Poll, ActionsHeld, Goto, Coroutine, CoState, Ui, Locked, ActionStep, RunStep,
      Idle
<1>26. ASSUME CloseNode
     PROVE  (LastFlag /\ BusyIsAccurate)'
  BY <1>26
  DEF CloseNode, ActionsHeld, Goto, Coroutine, CoState, Ui, Locked, ActionStep,
      RunStep, Idle
<1>27. ASSUME AgeState
     PROVE  (LastFlag /\ BusyIsAccurate)'
  BY <1>27
  DEF AgeState, ActionsHeld, Goto, Coroutine, CoState, Ui, Locked, ActionStep,
      RunStep, Idle
<1>28. ASSUME Redeem
     PROVE  (LastFlag /\ BusyIsAccurate)'
  BY <1>28
  DEF Redeem, ActionsHeld, Goto, Coroutine, CoState, Ui, Locked, ActionStep,
      RunStep, Idle
<1>29. ASSUME NEW t \in Ticket, Expire(t)
     PROVE  (LastFlag /\ BusyIsAccurate)'
  BY <1>29
  DEF Expire, ActionsHeld, Goto, Coroutine, CoState, Ui, Locked, ActionStep,
      RunStep, Idle
<1>30. CASE UNCHANGED vars
  BY <1>30
  DEF vars, ActionsHeld, Goto, Coroutine, CoState, Ui, Locked, ActionStep, RunStep,
      Idle
<1>31. QED
  BY <1>1, <1>2, <1>3, <1>4, <1>5, <1>6, <1>7, <1>8, <1>9, <1>10, <1>11,
     <1>12, <1>13, <1>14, <1>15, <1>16, <1>17, <1>18, <1>19, <1>20,
     <1>21, <1>22, <1>23, <1>24, <1>25, <1>26, <1>27, <1>28, <1>29,
     <1>30
  DEF Next, ActionOf, Run

\* Nothing is shown once the session has ended: whoever could show it is under
\* `operations', where the node is open.
LEMMA ClosedStep ==
  Typed /\ NodeOpen /\ ClosedShowsNothing /\ [Next]_vars => ClosedShowsNothing'
<1> SUFFICES ASSUME Typed, NodeOpen, ClosedShowsNothing, [Next]_vars
             PROVE  ClosedShowsNothing' OBVIOUS
<1> USE PairingSessionAssumption
        DEF Typed, NodeOpen, ClosedShowsNothing, InScope, At, shown, locks, clock
<1>1. ASSUME NEW c \in User, NEW call \in {"refresh", "pair"},
            NEW value \in Value \cup {None}, Call(c, call, value)
     PROVE  ClosedShowsNothing'
  BY <1>1 DEF Call, Goto, Coroutine, CoState, Ui, Native, Holding, Idle
<1>2. ASSUME NEW c \in Coroutine, TryLock(c)
     PROVE  ClosedShowsNothing'
  BY <1>2 DEF TryLock, Return, Goto, Coroutine, CoState, Ui, Native, Holding, Idle
<1>3. ASSUME NEW c \in Coroutine, SetBusy(c)
     PROVE  ClosedShowsNothing'
  BY <1>3 DEF SetBusy, Goto, Coroutine, CoState, Ui, Native, Holding, Idle
<1>4. ASSUME NEW c \in Coroutine, CheckValue(c)
     PROVE  ClosedShowsNothing'
  BY <1>4 DEF CheckValue, Goto, Coroutine, CoState, Ui, Native, Holding, Idle
<1>5. ASSUME NEW c \in Coroutine, GiveUpWaiting(c)
     PROVE  ClosedShowsNothing'
  BY <1>5 DEF GiveUpWaiting, Goto, Coroutine, CoState, Ui, Native, Holding, Idle
<1>6. ASSUME NEW c \in Coroutine, IssueTicket(c)
     PROVE  ClosedShowsNothing'
  BY <1>6 DEF IssueTicket, Fail, Fault, Goto, Coroutine, CoState, Ui, Native, Holding, Idle
<1>7. ASSUME NEW c \in Coroutine, IssueFails(c)
     PROVE  ClosedShowsNothing'
  BY <1>7 DEF IssueFails, Fail, Fault, Goto, Coroutine, CoState, Ui, Native, Holding, Idle
<1>8. ASSUME NEW c \in Coroutine, ShowTicket(c)
     PROVE  ClosedShowsNothing'
  BY <1>8 DEF ShowTicket, Goto, Coroutine, CoState, Ui, Native, Holding, Idle
<1>9. ASSUME NEW c \in Coroutine, ReadMembership(c)
     PROVE  ClosedShowsNothing'
  BY <1>9
  DEF ReadMembership, Fail, Fault, Goto, Coroutine, CoState, Ui, Native, Holding,
      Idle
<1>10. ASSUME NEW c \in Coroutine, CreateMesh(c)
     PROVE  ClosedShowsNothing'
  BY <1>10 DEF CreateMesh, Fail, Fault, Goto, Coroutine, CoState, Ui, Native, Holding, Idle
<1>11. ASSUME NEW c \in Coroutine, RecordMesh(c)
     PROVE  ClosedShowsNothing'
  BY <1>11 DEF RecordMesh, Recorded, Goto, Coroutine, CoState, Ui, Native, Holding, Idle
<1>12. ASSUME NEW c \in Coroutine, AddDevice(c)
     PROVE  ClosedShowsNothing'
  BY <1>12 DEF AddDevice, Fail, Fault, Goto, Coroutine, CoState, Ui, Native, Holding, Idle
<1>13. ASSUME NEW c \in Coroutine, ReportAdded(c)
     PROVE  ClosedShowsNothing'
  BY <1>13 DEF ReportAdded, Goto, Coroutine, CoState, Ui, Native, Holding, Idle
<1>14. ASSUME NEW c \in Coroutine, ReportFailure(c)
     PROVE  ClosedShowsNothing'
  BY <1>14 DEF ReportFailure, Goto, Coroutine, CoState, Ui, Native, Holding, Idle
<1>15. ASSUME NEW c \in Coroutine, FinishAction(c)
     PROVE  ClosedShowsNothing'
  BY <1>15 DEF FinishAction, Return, Goto, Coroutine, CoState, Ui, Native, Holding, Idle
<1>16. ASSUME NEW c \in Coroutine, Acquire(c)
     PROVE  ClosedShowsNothing'
  BY <1>16 DEF Acquire, Goto, Coroutine, CoState, Ui, Native, Holding, Idle
<1>17. ASSUME NEW c \in Coroutine, Cancel(c)
     PROVE  ClosedShowsNothing'
  BY <1>17 DEF Cancel, Goto, Coroutine, CoState, Ui, Native, Holding, Idle
<1>18. ASSUME OpenFails
     PROVE  ClosedShowsNothing'
  BY <1>18 DEF OpenFails, Fault, Goto, Coroutine, CoState, Ui, Native, Holding, Idle
<1>19. ASSUME Open
     PROVE  ClosedShowsNothing'
  BY <1>19 DEF Open, Goto, Coroutine, CoState, Ui, Native, Holding, Idle
<1>20. ASSUME ReadStatus
     PROVE  ClosedShowsNothing'
  BY <1>20 DEF ReadStatus, Fault, Goto, Coroutine, CoState, Ui, Native, Holding, Idle
<1>21. ASSUME AcceptSnapshot
     PROVE  ClosedShowsNothing'
  BY <1>21 DEF AcceptSnapshot, Recorded, Goto, Coroutine, CoState, Ui, Native, Holding, Idle
<1>22. ASSUME Delay
     PROVE  ClosedShowsNothing'
  BY <1>22 DEF Delay, Goto, Coroutine, CoState, Ui, Native, Holding, Idle
<1>23. ASSUME StopRunning
     PROVE  ClosedShowsNothing'
  BY <1>23 DEF StopRunning, Goto, Coroutine, CoState, Ui, Native, Holding, Idle
<1>24. ASSUME ClearState
     PROVE  ClosedShowsNothing'
  BY <1>24 DEF ClearState, Goto, Coroutine, CoState, Ui, Native, Holding, Idle
<1>25. ASSUME Poll
     PROVE  ClosedShowsNothing'
  BY <1>25 DEF Poll, Goto, Coroutine, CoState, Ui, Native, Holding, Idle
<1>26. ASSUME CloseNode
     PROVE  ClosedShowsNothing'
  BY <1>26 DEF CloseNode, Goto, Coroutine, CoState, Ui, Native, Holding, Idle
<1>27. ASSUME AgeState
     PROVE  ClosedShowsNothing'
  BY <1>27 DEF AgeState, Goto, Coroutine, CoState, Ui, Native, Holding, Idle
<1>28. ASSUME Redeem
     PROVE  ClosedShowsNothing'
  BY <1>28 DEF Redeem, Goto, Coroutine, CoState, Ui, Native, Holding, Idle
<1>29. ASSUME NEW t \in Ticket, Expire(t)
     PROVE  ClosedShowsNothing'
  BY <1>29 DEF Expire, Goto, Coroutine, CoState, Ui, Native, Holding, Idle
<1>30. CASE UNCHANGED vars
  BY <1>30 DEF vars, Goto, Coroutine, CoState, Ui, Native, Holding, Idle
<1>31. QED
  BY <1>1, <1>2, <1>3, <1>4, <1>5, <1>6, <1>7, <1>8, <1>9, <1>10, <1>11,
     <1>12, <1>13, <1>14, <1>15, <1>16, <1>17, <1>18, <1>19, <1>20,
     <1>21, <1>22, <1>23, <1>24, <1>25, <1>26, <1>27, <1>28, <1>29,
     <1>30
  DEF Next, ActionOf, Run

\* A ticket that the node no longer accepts does not stay on display.
LEMMA LatestStep == Typed /\ ShownIsLatest /\ [Next]_vars => ShownIsLatest'
<1> SUFFICES ASSUME Typed, ShownIsLatest, [Next]_vars PROVE ShownIsLatest' OBVIOUS
<1> USE PairingSessionAssumption DEF Typed, ShownIsLatest, At, shown, locks, clock
<1>1. ASSUME NEW c \in User, NEW call \in {"refresh", "pair"},
            NEW value \in Value \cup {None}, Call(c, call, value)
     PROVE  ShownIsLatest'
  BY <1>1 DEF Call, Goto, CoState, Ui, Native, Ticket, Idle
<1>2. ASSUME NEW c \in Coroutine, TryLock(c)
     PROVE  ShownIsLatest'
  BY <1>2 DEF TryLock, Return, Goto, CoState, Ui, Native, Ticket, Idle
<1>3. ASSUME NEW c \in Coroutine, SetBusy(c)
     PROVE  ShownIsLatest'
  BY <1>3 DEF SetBusy, Goto, CoState, Ui, Native, Ticket, Idle
<1>4. ASSUME NEW c \in Coroutine, CheckValue(c)
     PROVE  ShownIsLatest'
  BY <1>4 DEF CheckValue, Goto, CoState, Ui, Native, Ticket, Idle
<1>5. ASSUME NEW c \in Coroutine, GiveUpWaiting(c)
     PROVE  ShownIsLatest'
  BY <1>5 DEF GiveUpWaiting, Goto, CoState, Ui, Native, Ticket, Idle
<1>6. ASSUME NEW c \in Coroutine, IssueTicket(c)
     PROVE  ShownIsLatest'
  <2>1. /\ native'.issued = native.issued + 1 /\ ui' = ui
        /\ native.issued \in Nat /\ (ui.invitation # None => ui.invitation \in Nat)
    BY <1>6 DEF IssueTicket, Native, Ui, Ticket
  <2>2. \/ native'.issued \in lost'
        \/ co'[c].step = "show"
    BY <1>6, <2>1 DEF IssueTicket, Fail, Goto, CoState
  <2>3. \A d \in Coroutine : co[d].step = "show" => co'[d].step = "show" \/ d = c
    BY <1>6 DEF IssueTicket, Fail, Goto
  <2>4. lost \subseteq lost' /\ co[c].step # "show"
    BY <1>6 DEF IssueTicket
  <2>5. SUFFICES ASSUME ui.invitation # None, NEW t \in ui.invitation + 1 .. native.issued + 1
                 PROVE  t \in lost' \/ \E d \in Coroutine : co'[d].step = "show"
    BY <2>1
  <2>6. CASE t = native.issued + 1
    BY <2>1, <2>2, <2>6
  <2>7. CASE t # native.issued + 1
    <3>1. t \in ui.invitation + 1 .. native.issued
      BY <2>1, <2>5, <2>7
    <3> QED
      BY <3>1, <2>3, <2>4, <2>5
  <2> QED
    BY <2>6, <2>7
<1>7. ASSUME NEW c \in Coroutine, IssueFails(c)
     PROVE  ShownIsLatest'
  BY <1>7 DEF IssueFails, Fail, Fault, Goto, CoState, Ui, Native, Ticket, Idle
<1>8. ASSUME NEW c \in Coroutine, ShowTicket(c)
     PROVE  ShownIsLatest'
  BY <1>8 DEF ShowTicket, Goto, CoState, Ui, Native, Ticket, Idle
<1>9. ASSUME NEW c \in Coroutine, ReadMembership(c)
     PROVE  ShownIsLatest'
  BY <1>9 DEF ReadMembership, Fail, Fault, Goto, CoState, Ui, Native, Ticket, Idle
<1>10. ASSUME NEW c \in Coroutine, CreateMesh(c)
     PROVE  ShownIsLatest'
  BY <1>10 DEF CreateMesh, Fail, Fault, Goto, CoState, Ui, Native, Ticket, Idle
<1>11. ASSUME NEW c \in Coroutine, RecordMesh(c)
     PROVE  ShownIsLatest'
  BY <1>11 DEF RecordMesh, Recorded, Goto, CoState, Ui, Native, Ticket, Idle
<1>12. ASSUME NEW c \in Coroutine, AddDevice(c)
     PROVE  ShownIsLatest'
  BY <1>12 DEF AddDevice, Fail, Fault, Goto, CoState, Ui, Native, Ticket, Idle
<1>13. ASSUME NEW c \in Coroutine, ReportAdded(c)
     PROVE  ShownIsLatest'
  BY <1>13 DEF ReportAdded, Goto, CoState, Ui, Native, Ticket, Idle
<1>14. ASSUME NEW c \in Coroutine, ReportFailure(c)
     PROVE  ShownIsLatest'
  BY <1>14 DEF ReportFailure, Goto, CoState, Ui, Native, Ticket, Idle
<1>15. ASSUME NEW c \in Coroutine, FinishAction(c)
     PROVE  ShownIsLatest'
  BY <1>15 DEF FinishAction, Return, Goto, CoState, Ui, Native, Ticket, Idle
<1>16. ASSUME NEW c \in Coroutine, Acquire(c)
     PROVE  ShownIsLatest'
  BY <1>16 DEF Acquire, Goto, CoState, Ui, Native, Ticket, Idle
<1>17. ASSUME NEW c \in Coroutine, Cancel(c)
     PROVE  ShownIsLatest'
  BY <1>17 DEF Cancel, Goto, CoState, Ui, Native, Ticket, Idle
<1>18. ASSUME OpenFails
     PROVE  ShownIsLatest'
  BY <1>18 DEF OpenFails, Fault, Goto, CoState, Ui, Native, Ticket, Idle
<1>19. ASSUME Open
     PROVE  ShownIsLatest'
  BY <1>19 DEF Open, Goto, CoState, Ui, Native, Ticket, Idle
<1>20. ASSUME ReadStatus
     PROVE  ShownIsLatest'
  BY <1>20 DEF ReadStatus, Fault, Goto, CoState, Ui, Native, Ticket, Idle
<1>21. ASSUME AcceptSnapshot
     PROVE  ShownIsLatest'
  BY <1>21 DEF AcceptSnapshot, Recorded, Goto, CoState, Ui, Native, Ticket, Idle
<1>22. ASSUME Delay
     PROVE  ShownIsLatest'
  BY <1>22 DEF Delay, Goto, CoState, Ui, Native, Ticket, Idle
<1>23. ASSUME StopRunning
     PROVE  ShownIsLatest'
  BY <1>23 DEF StopRunning, Goto, CoState, Ui, Native, Ticket, Idle
<1>24. ASSUME ClearState
     PROVE  ShownIsLatest'
  BY <1>24 DEF ClearState, Goto, CoState, Ui, Native, Ticket, Idle
<1>25. ASSUME Poll
     PROVE  ShownIsLatest'
  BY <1>25 DEF Poll, Goto, CoState, Ui, Native, Ticket, Idle
<1>26. ASSUME CloseNode
     PROVE  ShownIsLatest'
  BY <1>26 DEF CloseNode, Goto, CoState, Ui, Native, Ticket, Idle
<1>27. ASSUME AgeState
     PROVE  ShownIsLatest'
  BY <1>27 DEF AgeState, Goto, CoState, Ui, Native, Ticket, Idle
<1>28. ASSUME Redeem
     PROVE  ShownIsLatest'
  BY <1>28 DEF Redeem, Goto, CoState, Ui, Native, Ticket, Idle
<1>29. ASSUME NEW t \in Ticket, Expire(t)
     PROVE  ShownIsLatest'
  BY <1>29 DEF Expire, Goto, CoState, Ui, Native, Ticket, Idle
<1>30. CASE UNCHANGED vars
  BY <1>30 DEF vars, Goto, CoState, Ui, Native, Ticket, Idle
<1>31. QED
  BY <1>1, <1>2, <1>3, <1>4, <1>5, <1>6, <1>7, <1>8, <1>9, <1>10, <1>11,
     <1>12, <1>13, <1>14, <1>15, <1>16, <1>17, <1>18, <1>19, <1>20,
     <1>21, <1>22, <1>23, <1>24, <1>25, <1>26, <1>27, <1>28, <1>29,
     <1>30
  DEF Next, ActionOf, Run

-----------------------------------------------------------------------------
(* The invariant *)

SessionInv ==
  /\ Typed /\ IssuedOnShow /\ OperationsHeld /\ ActionsHeld /\ NodeOpen
  /\ LastFlag /\ BusyIsAccurate /\ ClosedShowsNothing /\ ShownIsLatest

\* The invariant holds when the session starts.
LEMMA SessionInit == Init => SessionInv
<1> SUFFICES ASSUME Init PROVE SessionInv OBVIOUS
<1>1. Runner \in Coroutine /\ \A c \in Coroutine : co[c].step \in {"idle", "open"}
  BY DEF Init, Coroutine, Idle
<1>2. MaxTickets \in Nat /\ MaxCalls \in Nat /\ MaxFaults \in Nat
  BY PairingSessionAssumption
<1>3. /\ native \in Native /\ ui \in Ui /\ ui.invitation = None /\ ~ui.busy
      /\ node = native.open /\ ~node
  <2>1. PICK enrolled \in BOOLEAN :
          native = [open |-> FALSE, enrolled |-> enrolled, issued |-> 0, pending |-> None]
    BY DEF Init
  <2>2. native \in Native /\ native.open = FALSE
    BY <1>2, <2>1 DEF Native
  <2>3. ui \in Ui /\ ui.invitation = None /\ ~ui.busy
    BY DEF Init, Ui
  <2> QED
    BY <2>2, <2>3 DEF Init
<1>4. co \in [Coroutine -> CoState] /\ co[Runner].step = "open"
  <2>1. [Idle EXCEPT !.step = "open"] \in CoState /\ Idle \in CoState
    BY IdleType DEF Step, RunStep
  <2>2. [Idle EXCEPT !.step = "open"].step = "open"
    BY DEF Idle
  <2>3. co = [c \in Coroutine |-> IF c = Runner THEN [Idle EXCEPT !.step = "open"] ELSE Idle]
    BY DEF Init
  <2>4. \A c \in Coroutine : co[c] \in CoState
    BY <2>1, <2>3
  <2> QED
    BY <2>1, <2>2, <2>3, <2>4, <1>1
<1>5. spent \in [calls : 0 .. MaxCalls, faults : 0 .. MaxFaults]
  BY <1>2 DEF Init
<1>6. Typed
  <2>1. node \in BOOLEAN /\ offered \in BOOLEAN /\ expiresAt = None
    BY DEF Init
  <2>2. operations = None /\ actions = None /\ cancelled = {} /\ passed = {} /\ lost = {}
    BY DEF Init
  <2> QED
    BY <1>3, <1>4, <1>5, <2>1, <2>2 DEF Typed
<1>7. /\ IssuedOnShow /\ OperationsHeld /\ ActionsHeld
      /\ \A c \in Coroutine : co[c].step \notin Holding
  BY <1>1 DEF IssuedOnShow, OperationsHeld, ActionsHeld, Holding, Locked, ActionStep, At
<1>8. NodeOpen
  BY <1>3, <1>4, <1>7 DEF NodeOpen, Running, ActionStep
<1>9. LastFlag /\ BusyIsAccurate
  BY <1>1, <1>3 DEF LastFlag, BusyIsAccurate, Acting, ActionStep, At
<1>10. ClosedShowsNothing /\ ShownIsLatest
  BY <1>3, <1>4 DEF ClosedShowsNothing, ShownIsLatest, At
<1> QED
  BY <1>6, <1>7, <1>8, <1>9, <1>10 DEF SessionInv

\* However the coroutines of the session and of its user interface interleave
\* and are cancelled, the locks are held by whoever is past them, and what the
\* session shows agrees with the node (PairingSession.kt:173, :185, :254, :273).
THEOREM SessionSafety == Spec => []SessionInv
<1>1. Init => SessionInv
  BY SessionInit
<1>2. SessionInv /\ [Next]_vars => SessionInv'
  BY TypeStep, IssuedStep, OperationsStep, ActionsStep, NodeOpenStep, FlagStep,
     ClosedStep, LatestStep
  DEF SessionInv
<1> QED
  BY <1>1, <1>2, PTL DEF Spec

\* Every variable has its type: in particular a ticket that is shown or tracked
\* was issued (PairingSession.kt:86).
THEOREM SessionTypes == Spec => []TypeOK
<1>1. SessionInv => TypeOK
  BY TypedIsTypeOK DEF SessionInv
<1> QED
  BY <1>1, SessionSafety, PTL

\* No call reaches a node that is shut down, and no two calls are under way at
\* a time: `operations' is held from the check that the node is there to the
\* end of its use, and closing waits for it (PairingSession.kt:173, :285).
THEOREM SessionUsesOpenNode == Spec => []NodeInUseIsOpen
<1>1. SessionInv => NodeInUseIsOpen
  BY DEF SessionInv, OperationsHeld, NodeOpen, NodeInUseIsOpen, NativeStep, Holding
<1> QED
  BY <1>1, SessionSafety, PTL

\* The flag that disables the buttons follows the lock of the actions
\* (PairingSession.kt:273).
THEOREM SessionBusyIsAccurate == Spec => []BusyIsAccurate
<1>1. SessionInv => BusyIsAccurate
  BY DEF SessionInv
<1> QED
  BY <1>1, SessionSafety, PTL

\* A session that has ended shows no invitation and has shut the node down
\* (PairingSession.kt:183).
THEOREM SessionClosedShowsNothing == Spec => []ClosedShowsNothing
<1>1. SessionInv => ClosedShowsNothing
  BY DEF SessionInv
<1> QED
  BY <1>1, SessionSafety, PTL

\* A ticket on display that the node no longer accepts is about to be replaced,
\* or was superseded by a call that reported a failure (PairingSession.kt:86).
THEOREM SessionShownIsLatest == Spec => []ShownIsLatest
<1>1. SessionInv => ShownIsLatest
  BY DEF SessionInv
<1> QED
  BY <1>1, SessionSafety, PTL
=============================================================================
