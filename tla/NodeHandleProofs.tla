--------------------------- MODULE NodeHandleProofs ---------------------------
(* Proofs about NodeHandle for any threads and any number of opens: the       *)
(* directory is locked for exactly the node that something still refers to,   *)
(* a handle that was closed is closed for good, and whoever closed it left    *)
(* the node off the network.                                                  *)
EXTENDS NodeHandle, TLAPS

\* What a thread is doing on a handle.
Place == {"idle", "opening", "binding", "opened", "io", "checked", "entered",
          "using", "shutdown", "stopping", "destroying"}
ThreadState == [at : Place, handle : Handle \cup {None}, late : BOOLEAN]

\* The types of the variables.
Typed ==
  /\ opens \in 0 .. MaxOpens
  /\ kotlin \in [Handle -> {"none", "open", "cancelled", "forgotten"}]
  /\ closed \in [Handle -> BOOLEAN] /\ destroyed \in [Handle -> BOOLEAN]
  /\ slot \in [Handle -> BOOLEAN] /\ aborted \in [Handle -> BOOLEAN]
  /\ inside \in [Handle -> SUBSET Thread]
  /\ arcs \in [Handle -> SUBSET (Thread \cup {"drop"})]
  /\ tasks \in [Handle -> SUBSET Task]
  /\ lock \in Handle \cup {None}
  /\ thread \in [Thread -> ThreadState]
  /\ \A t \in Thread : thread[t].at # "idle" => thread[t].handle \in Handle

\* The application has not got the handle yet, and the node does not run yet.
Unknown(h) == kotlin[h] = "none" /\ ~closed[h] /\ ~destroyed[h]
Empty(h) == ~slot[h] /\ arcs[h] = {} /\ tasks[h] = {}

\* A handle that is being opened belongs to the thread that opens it.
NotOpened ==
  \A h \in Handle : h > opens =>
    Unknown(h) /\ Empty(h) /\ \A t \in Thread : thread[t].handle # h
OpenedByOne ==
  \A t \in Thread : thread[t].at \in {"opening", "binding", "opened"} =>
    /\ Unknown(thread[t].handle)
    /\ \A u \in Thread : thread[u].handle = thread[t].handle => u = t
NotStarted ==
  \A t \in Thread : thread[t].at \in {"opening", "binding"} => Empty(thread[t].handle)
Opening == NotOpened /\ OpenedByOne /\ NotStarted

\* The lock follows the references.
LockIsHeld == \A h \in Handle : Held(h) <=> lock = h

\* A call that began after the handle was closed is not past the check.
LateStops ==
  \A t \in Thread : thread[t].late => thread[t].at = "io" /\ closed[thread[t].handle]

\* The node is off the network and starts no heartbeat.
Offline(h) == "router" \notin tasks[h] /\ aborted[h]

\* The handle was closed, or nobody will get it.
Over(h) == closed[h] \/ kotlin[h] = "cancelled"

\* Whoever closes a handle is at work on one that is over, and goes from step
\* to step with the node as the step before left it.
CloserIsClosing ==
  \A t \in Thread :
    thread[t].at \in {"shutdown", "stopping", "destroying"} => Over(thread[t].handle)
StoppingIsAborted ==
  \A t \in Thread : thread[t].at = "stopping" => aborted[thread[t].handle]
DestroyingIsOffline ==
  \A t \in Thread : thread[t].at = "destroying" => Offline(thread[t].handle)

\* A node that is over is off the network, or somebody is about to take it off.
OverIsStopped ==
  \A h \in Handle : Over(h) =>
    \/ Offline(h)
    \/ \E t \in Thread : thread[t].handle = h /\ thread[t].at \in {"shutdown", "stopping"}

\* Only a handle the application has is closed, and one it has and did not close
\* still works.
OpenWorks ==
  \A h \in Handle : /\ closed[h] => kotlin[h] = "open"
                    /\ kotlin[h] = "open" /\ ~closed[h] => ~destroyed[h]

\* What closing a node relies on.
Closing ==
  /\ CloserIsClosing /\ StoppingIsAborted /\ DestroyingIsOffline
  /\ OverIsStopped /\ OpenWorks

\* The inductive invariant.
HandleInv == Typed /\ Opening /\ LockIsHeld /\ LateStops /\ Closing /\ ClosedIsOffline

-----------------------------------------------------------------------------
(* Steps *)

\* Handles are numbers, and None is not one of them.
LEMMA HandleFacts == None \notin Handle /\ \A h \in Handle : h \in Nat
  BY NodeHandleAssumption DEF Handle

\* Thread t is now there, and no other thread has moved.
Moved(t, at, h, late) ==
  /\ thread' \in [Thread -> ThreadState]
  /\ thread'[t].at = at /\ thread'[t].handle = h /\ thread'[t].late = late
  /\ \A u \in Thread : u # t => thread'[u] = thread[u]

\* Replacing the state of one thread moves that thread.
LEMMA Replaced ==
  ASSUME thread \in [Thread -> ThreadState], NEW t \in Thread,
         NEW at \in Place, NEW h \in Handle \cup {None}, NEW late \in BOOLEAN,
         thread' = [thread EXCEPT ![t] = [at |-> at, handle |-> h, late |-> late]]
  PROVE  Moved(t, at, h, late)
<1> DEFINE s == [at |-> at, handle |-> h, late |-> late]
<1>1. s \in ThreadState /\ s.at = at /\ s.handle = h /\ s.late = late
  BY DEF ThreadState
<1> HIDE DEF s
<1>2. thread' = [thread EXCEPT ![t] = s]
  BY DEF s
<1>3. /\ thread' \in [Thread -> ThreadState] /\ thread'[t] = s
      /\ \A u \in Thread : u # t => thread'[u] = thread[u]
  BY <1>1, <1>2
<1> QED
  BY <1>1, <1>3 DEF Moved

\* A thread that returns is idle and refers to no handle.
LEMMA Returned ==
  ASSUME thread \in [Thread -> ThreadState], NEW t \in Thread, Return(t)
  PROVE  Moved(t, "idle", None, FALSE)
  BY Replaced DEF Return, Rest, Place

\* A thread that goes on keeps its handle.
LEMMA Went ==
  ASSUME thread \in [Thread -> ThreadState], NEW t \in Thread, NEW at \in Place, Go(t, at)
  PROVE  Moved(t, at, thread[t].handle, thread[t].late)
<1>1. /\ thread[t] \in ThreadState
      /\ thread' = [thread EXCEPT ![t] = [thread[t] EXCEPT !.at = at]]
  BY DEF Go
<1>2. [thread[t] EXCEPT !.at = at] =
        [at |-> at, handle |-> thread[t].handle, late |-> thread[t].late]
  BY <1>1 DEF ThreadState
<1>3. thread[t].handle \in Handle \cup {None} /\ thread[t].late \in BOOLEAN
  BY <1>1 DEF ThreadState
<1>4. thread' = [thread EXCEPT ![t] =
        [at |-> at, handle |-> thread[t].handle, late |-> thread[t].late]]
  BY <1>1, <1>2
<1> QED
  BY <1>3, <1>4, Replaced

\* Where BeginOpen takes its thread.
LEMMA BeginOpenMoves ==
  ASSUME Typed, NEW t \in Thread, BeginOpen(t)
  PROVE  Moved(t, "opening", opens', FALSE)
<1>1. opens' \in Handle
  BY NodeHandleAssumption DEF Typed, BeginOpen, Handle
<1> QED
  BY <1>1, Replaced DEF Typed, BeginOpen, Place

\* Where LockDirectory takes its thread.
LEMMA LockDirectoryMoves ==
  ASSUME Typed, NEW t \in Thread, LockDirectory(t)
  PROVE  IF lock = None
         THEN Moved(t, "binding", thread[t].handle, thread[t].late)
         ELSE Moved(t, "idle", None, FALSE)
  BY Returned, Went DEF Typed, LockDirectory, Place

\* Where Bind takes its thread.
LEMMA BindMoves ==
  ASSUME Typed, NEW t \in Thread, Bind(t)
  PROVE  \/ Moved(t, "opened", thread[t].handle, thread[t].late)
         \/ Moved(t, "idle", None, FALSE)
  BY Returned, Went DEF Typed, Bind, Place

\* Where Deliver takes its thread.
LEMMA DeliverMoves ==
  ASSUME Typed, NEW t \in Thread, Deliver(t)
  PROVE  Moved(t, "idle", None, FALSE)
  BY Returned, Went DEF Typed, Deliver, Place

\* Where OpenCancelled takes its thread.
LEMMA OpenCancelledMoves ==
  ASSUME Typed, NEW t \in Thread, OpenCancelled(t)
  PROVE  Moved(t, "shutdown", thread[t].handle, thread[t].late)
  BY Returned, Went DEF Typed, OpenCancelled, Place

\* Where Check takes its thread.
LEMMA CheckMoves ==
  ASSUME Typed, NEW t \in Thread, Check(t)
  PROVE  IF closed[thread[t].handle]
         THEN Moved(t, "idle", None, FALSE)
         ELSE Moved(t, "checked", thread[t].handle, thread[t].late)
  BY Returned, Went DEF Typed, Check, Place

\* Where Enter takes its thread.
LEMMA EnterMoves ==
  ASSUME Typed, NEW t \in Thread, Enter(t)
  PROVE  IF destroyed[thread[t].handle]
         THEN Moved(t, "idle", None, FALSE)
         ELSE Moved(t, "entered", thread[t].handle, thread[t].late)
  BY Returned, Went DEF Typed, Enter, Place

\* Where Active takes its thread.
LEMMA ActiveMoves ==
  ASSUME Typed, NEW t \in Thread, Active(t)
  PROVE  IF slot[thread[t].handle]
         THEN Moved(t, "using", thread[t].handle, thread[t].late)
         ELSE Moved(t, "idle", None, FALSE)
  BY Returned, Went DEF Typed, Active, Place

\* Where Take takes its thread.
LEMMA TakeMoves ==
  ASSUME Typed, NEW t \in Thread, Take(t)
  PROVE  Moved(t, "stopping", thread[t].handle, thread[t].late)
  BY Returned, Went DEF Typed, Take, Place

\* Where Destroy takes its thread.
LEMMA DestroyMoves ==
  ASSUME Typed, NEW t \in Thread, Destroy(t)
  PROVE  Moved(t, "idle", None, FALSE)
  BY Returned, Went DEF Typed, Destroy, Place

\* Where BeginCall takes its thread.
LEMMA BeginCallMoves ==
  ASSUME Typed, NEW t \in Thread, NEW h \in Handle, BeginCall(t, h)
  PROVE  Moved(t, "io", h, closed[h])
  BY Replaced DEF Typed, BeginCall, Place

\* Where BeginClose takes its thread.
LEMMA BeginCloseMoves ==
  ASSUME Typed, NEW t \in Thread, NEW h \in Handle, BeginClose(t, h)
  PROVE  Moved(t, "shutdown", h, FALSE)
<1>1. h \in Handle
  BY NodeHandleAssumption DEF Typed, BeginClose, Handle
<1> QED
  BY <1>1, Replaced DEF Typed, BeginClose, Place

\* Where FinishCall takes its thread.
LEMMA FinishCallMoves ==
  ASSUME Typed, NEW t \in Thread, NEW h \in Handle, FinishCall(t, h)
  PROVE  Moved(t, "idle", None, FALSE)
  BY Returned, Went DEF Typed, FinishCall, Place

\* Where StopRouter takes its thread.
LEMMA StopRouterMoves ==
  ASSUME Typed, NEW t \in Thread, NEW h \in Handle, StopRouter(t, h)
  PROVE  Moved(t, "destroying", thread[t].handle, thread[t].late)
  BY Returned, Went DEF Typed, StopRouter, Place

\* Every step keeps the types.
LEMMA TypeStep ==
  Typed /\ [Next]_vars => Typed'
<1> SUFFICES ASSUME Typed, [Next]_vars
             PROVE  Typed'
  OBVIOUS
<1> USE NodeHandleAssumption, HandleFacts DEF Typed, At, Handle, Place
<1>1. ASSUME NEW t \in Thread, BeginOpen(t)
     PROVE  Typed'
  <2>1. Moved(t, "opening", opens', FALSE)
    BY <1>1, BeginOpenMoves
  <2> QED
    BY <1>1, <2>1 DEF BeginOpen, Task, Moved
<1>2. ASSUME NEW t \in Thread, LockDirectory(t)
     PROVE  Typed'
  <2>1. IF lock = None THEN Moved(t, "binding", thread[t].handle, thread[t].late)
        ELSE Moved(t, "idle", None, FALSE)
    BY <1>2, LockDirectoryMoves
  <2> QED
    BY <1>2, <2>1 DEF LockDirectory, Task, Moved
<1>3. ASSUME NEW t \in Thread, Bind(t)
     PROVE  Typed'
  <2> DEFINE o == thread[t].handle
  <2>1. \/ Moved(t, "opened", thread[t].handle, thread[t].late)
        \/ Moved(t, "idle", None, FALSE)
    BY <1>3, BindMoves
  <2>2. o \in Handle
    BY <1>3 DEF Bind
  <2>3. /\ slot' = slot \/ slot' = [slot EXCEPT ![o] = TRUE]
        /\ tasks' = tasks \/ tasks' = [tasks EXCEPT ![o] = {"gossip", "router"}]
        /\ lock' \in {lock, None}
    BY <1>3 DEF Bind
  <2>4. UNCHANGED <<opens, kotlin, closed, destroyed, inside, arcs, aborted>>
    BY <1>3 DEF Bind
  <2> HIDE DEF o
  <2>5. slot' \in [Handle -> BOOLEAN]
    BY <2>2, <2>3
  <2>6. tasks' \in [Handle -> SUBSET Task]
    BY <2>2, <2>3 DEF Task
  <2>7. /\ thread' \in [Thread -> ThreadState]
        /\ \A u \in Thread : thread'[u].at # "idle" => thread'[u].handle \in Handle
    BY <2>1, <2>2 DEF Moved, o
  <2> QED
    BY <2>3, <2>4, <2>5, <2>6, <2>7
<1>4. ASSUME NEW t \in Thread, Deliver(t)
     PROVE  Typed'
  <2>1. Moved(t, "idle", None, FALSE)
    BY <1>4, DeliverMoves
  <2> QED
    BY <1>4, <2>1 DEF Deliver, Task, Moved
<1>5. ASSUME NEW t \in Thread, OpenCancelled(t)
     PROVE  Typed'
  <2>1. Moved(t, "shutdown", thread[t].handle, thread[t].late)
    BY <1>5, OpenCancelledMoves
  <2> QED
    BY <1>5, <2>1 DEF OpenCancelled, Task, Moved
<1>6. ASSUME NEW t \in Thread, Check(t)
     PROVE  Typed'
  <2>1. IF closed[thread[t].handle] THEN Moved(t, "idle", None, FALSE)
        ELSE Moved(t, "checked", thread[t].handle, thread[t].late)
    BY <1>6, CheckMoves
  <2> QED
    BY <1>6, <2>1 DEF Check, Task, Moved
<1>7. ASSUME NEW t \in Thread, Enter(t)
     PROVE  Typed'
  <2> DEFINE o == thread[t].handle
  <2>1. IF destroyed[thread[t].handle] THEN Moved(t, "idle", None, FALSE)
        ELSE Moved(t, "entered", thread[t].handle, thread[t].late)
    BY <1>7, EnterMoves
  <2>2. o \in Handle
    BY <1>7 DEF Enter
  <2>3. inside' = inside \/ inside' = [inside EXCEPT ![o] = @ \cup {t}]
    BY <1>7 DEF Enter
  <2>4. UNCHANGED <<opens, kotlin, closed, destroyed, slot, arcs, aborted, tasks, lock>>
    BY <1>7 DEF Enter
  <2> HIDE DEF o
  <2>5. inside' \in [Handle -> SUBSET Thread]
    BY <2>2, <2>3
  <2>6. /\ thread' \in [Thread -> ThreadState]
        /\ \A u \in Thread : thread'[u].at # "idle" => thread'[u].handle \in Handle
    BY <2>1, <2>2 DEF Moved, o
  <2> QED
    BY <2>4, <2>5, <2>6
<1>8. ASSUME NEW t \in Thread, Active(t)
     PROVE  Typed'
  <2> DEFINE o == thread[t].handle
  <2>1. IF slot[thread[t].handle] THEN Moved(t, "using", thread[t].handle, thread[t].late)
        ELSE Moved(t, "idle", None, FALSE)
    BY <1>8, ActiveMoves
  <2>2. o \in Handle
    BY <1>8 DEF Active
  <2>3. /\ arcs' = arcs \/ arcs' = [arcs EXCEPT ![o] = @ \cup {t}]
        /\ inside' = inside \/ inside' = [inside EXCEPT ![o] = @ \ {t}]
    BY <1>8 DEF Active
  <2>4. UNCHANGED <<opens, kotlin, closed, destroyed, slot, aborted, tasks, lock>>
    BY <1>8 DEF Active
  <2> HIDE DEF o
  <2>5. inside' \in [Handle -> SUBSET Thread]
    BY <2>2, <2>3
  <2>6. arcs' \in [Handle -> SUBSET (Thread \cup {"drop"})]
    BY <2>2, <2>3
  <2>7. /\ thread' \in [Thread -> ThreadState]
        /\ \A u \in Thread : thread'[u].at # "idle" => thread'[u].handle \in Handle
    BY <2>1, <2>2 DEF Moved, o
  <2> QED
    BY <2>4, <2>5, <2>6, <2>7
<1>9. ASSUME NEW t \in Thread, Take(t)
     PROVE  Typed'
  <2> DEFINE o == thread[t].handle
  <2>1. Moved(t, "stopping", thread[t].handle, thread[t].late)
    BY <1>9, TakeMoves
  <2>2. o \in Handle
    BY <1>9 DEF Take
  <2>3. inside' = [inside EXCEPT ![o] = @ \cup {t}] /\ slot' = [slot EXCEPT ![o] = FALSE]
        /\ arcs' = [arcs EXCEPT ![o] = @ \cup {t}]
        /\ aborted' = [aborted EXCEPT ![o] = TRUE]
    BY <1>9 DEF Take
  <2> HIDE DEF o
  <2>4. inside' \in [Handle -> SUBSET Thread] /\ slot' \in [Handle -> BOOLEAN]
        /\ arcs' \in [Handle -> SUBSET (Thread \cup {"drop"})]
        /\ aborted' \in [Handle -> BOOLEAN]
    BY <2>2, <2>3
  <2>5. UNCHANGED <<opens, kotlin, closed, destroyed, tasks, lock>>
    BY <1>9 DEF Take
  <2>6. \A u \in Thread : thread'[u].at # "idle" => thread'[u].handle \in Handle
    BY <2>1, <2>2 DEF Moved, o
  <2> QED
    BY <2>1, <2>4, <2>5, <2>6 DEF Moved
<1>10. ASSUME NEW t \in Thread, Destroy(t)
     PROVE  Typed'
  <2>1. Moved(t, "idle", None, FALSE)
    BY <1>10, DestroyMoves
  <2> QED
    BY <1>10, <2>1 DEF Destroy, Task, Moved
<1>11. ASSUME NEW t \in Thread, NEW h \in Handle, BeginCall(t, h)
     PROVE  Typed'
  <2>1. Moved(t, "io", h, closed[h])
    BY <1>11, BeginCallMoves
  <2> QED
    BY <1>11, <2>1 DEF BeginCall, Task, Moved
<1>12. ASSUME NEW t \in Thread, NEW h \in Handle, BeginClose(t, h)
     PROVE  Typed'
  <2>1. Moved(t, "shutdown", h, FALSE)
    BY <1>12, BeginCloseMoves
  <2> QED
    BY <1>12, <2>1 DEF BeginClose, Task, Moved
<1>13. ASSUME NEW t \in Thread, NEW h \in Handle, FinishCall(t, h)
     PROVE  Typed'
  <2>1. Moved(t, "idle", None, FALSE)
    BY <1>13, FinishCallMoves
  <2> QED
    BY <1>13, <2>1 DEF FinishCall, Unlock, AbortWithLast, Task, Moved
<1>14. ASSUME NEW t \in Thread, NEW h \in Handle, StopRouter(t, h)
     PROVE  Typed'
  <2>1. Moved(t, "destroying", thread[t].handle, thread[t].late)
    BY <1>14, StopRouterMoves
  <2> QED
    BY <1>14, <2>1 DEF StopRouter, Unlock, AbortWithLast, Task, Moved
<1>15. ASSUME NEW h \in Handle, Forget(h)
     PROVE  Typed'
  BY <1>15 DEF Forget, Task
<1>16. ASSUME NEW h \in Handle, Collect(h)
     PROVE  Typed'
  BY <1>16 DEF Collect, Task
<1>17. ASSUME NEW h \in Handle, FreeObject(h)
     PROVE  Typed'
  BY <1>17 DEF FreeObject, Task
<1>18. ASSUME NEW h \in Handle, DropShutsDown(h)
     PROVE  Typed'
  BY <1>18 DEF DropShutsDown, Unlock, Task
<1>19. ASSUME NEW h \in Handle, HeartbeatStarts(h)
     PROVE  Typed'
  BY <1>19 DEF HeartbeatStarts, Task
<1>20. ASSUME NEW h \in Handle, HeartbeatEnds(h)
     PROVE  Typed'
  BY <1>20 DEF HeartbeatEnds, Unlock, Task
<1>21. ASSUME NEW h \in Handle, GossipEnds(h)
     PROVE  Typed'
  BY <1>21 DEF GossipEnds, Unlock, Task
<1>22. CASE UNCHANGED vars
  BY <1>22 DEF vars, Task
<1>23. QED
  BY <1>1, <1>2, <1>3, <1>4, <1>5, <1>6, <1>7, <1>8, <1>9, <1>10, <1>11,
     <1>12, <1>13, <1>14, <1>15, <1>16, <1>17, <1>18, <1>19, <1>20,
     <1>21, <1>22
  DEF Next, ThreadStep, TaskStep

\* A handle with a number not reached is untouched.
LEMMA NotOpenedStep ==
  Typed /\ Opening /\ [Next]_vars => NotOpened'
<1> SUFFICES ASSUME Typed, Opening, [Next]_vars
             PROVE  NotOpened'
  OBVIOUS
<1> USE NodeHandleAssumption, HandleFacts
    DEF Typed, NotOpened, OpenedByOne, NotStarted, Opening, At, Place, Unknown,
        Empty
<1>1. ASSUME NEW t \in Thread, BeginOpen(t)
     PROVE  NotOpened'
  <2>1. Moved(t, "opening", opens', FALSE)
    BY <1>1, BeginOpenMoves
  <2> QED
    BY <1>1, <2>1 DEF BeginOpen, Moved
<1>2. ASSUME NEW t \in Thread, LockDirectory(t)
     PROVE  NotOpened'
  <2>1. IF lock = None THEN Moved(t, "binding", thread[t].handle, thread[t].late)
        ELSE Moved(t, "idle", None, FALSE)
    BY <1>2, LockDirectoryMoves
  <2> QED
    BY <1>2, <2>1 DEF LockDirectory, Moved
<1>3. ASSUME NEW t \in Thread, Bind(t)
     PROVE  NotOpened'
  <2>1. \/ Moved(t, "opened", thread[t].handle, thread[t].late)
      \/ Moved(t, "idle", None, FALSE)
    BY <1>3, BindMoves
  <2> QED
    BY <1>3, <2>1 DEF Bind, Moved
<1>4. ASSUME NEW t \in Thread, Deliver(t)
     PROVE  NotOpened'
  <2>1. Moved(t, "idle", None, FALSE)
    BY <1>4, DeliverMoves
  <2> QED
    BY <1>4, <2>1 DEF Deliver, Moved
<1>5. ASSUME NEW t \in Thread, OpenCancelled(t)
     PROVE  NotOpened'
  <2>1. Moved(t, "shutdown", thread[t].handle, thread[t].late)
    BY <1>5, OpenCancelledMoves
  <2> QED
    BY <1>5, <2>1 DEF OpenCancelled, Moved
<1>6. ASSUME NEW t \in Thread, Check(t)
     PROVE  NotOpened'
  <2>1. IF closed[thread[t].handle] THEN Moved(t, "idle", None, FALSE)
        ELSE Moved(t, "checked", thread[t].handle, thread[t].late)
    BY <1>6, CheckMoves
  <2> QED
    BY <1>6, <2>1 DEF Check, Moved
<1>7. ASSUME NEW t \in Thread, Enter(t)
     PROVE  NotOpened'
  <2>1. IF destroyed[thread[t].handle] THEN Moved(t, "idle", None, FALSE)
        ELSE Moved(t, "entered", thread[t].handle, thread[t].late)
    BY <1>7, EnterMoves
  <2> QED
    BY <1>7, <2>1 DEF Enter, Moved
<1>8. ASSUME NEW t \in Thread, Active(t)
     PROVE  NotOpened'
  <2>1. IF slot[thread[t].handle] THEN Moved(t, "using", thread[t].handle, thread[t].late)
        ELSE Moved(t, "idle", None, FALSE)
    BY <1>8, ActiveMoves
  <2> QED
    BY <1>8, <2>1 DEF Active, Moved
<1>9. ASSUME NEW t \in Thread, Take(t)
     PROVE  NotOpened'
  <2>1. Moved(t, "stopping", thread[t].handle, thread[t].late)
    BY <1>9, TakeMoves
  <2> QED
    BY <1>9, <2>1 DEF Take, Moved
<1>10. ASSUME NEW t \in Thread, Destroy(t)
     PROVE  NotOpened'
  <2>1. Moved(t, "idle", None, FALSE)
    BY <1>10, DestroyMoves
  <2> QED
    BY <1>10, <2>1 DEF Destroy, Moved
<1>11. ASSUME NEW t \in Thread, NEW h \in Handle, BeginCall(t, h)
     PROVE  NotOpened'
  <2>1. Moved(t, "io", h, closed[h])
    BY <1>11, BeginCallMoves
  <2> QED
    BY <1>11, <2>1 DEF BeginCall, Moved
<1>12. ASSUME NEW t \in Thread, NEW h \in Handle, BeginClose(t, h)
     PROVE  NotOpened'
  <2>1. Moved(t, "shutdown", h, FALSE)
    BY <1>12, BeginCloseMoves
  <2> QED
    BY <1>12, <2>1 DEF BeginClose, Moved
<1>13. ASSUME NEW t \in Thread, NEW h \in Handle, FinishCall(t, h)
     PROVE  NotOpened'
  <2>1. Moved(t, "idle", None, FALSE)
    BY <1>13, FinishCallMoves
  <2> QED
    BY <1>13, <2>1 DEF FinishCall, Moved
<1>14. ASSUME NEW t \in Thread, NEW h \in Handle, StopRouter(t, h)
     PROVE  NotOpened'
  <2>1. Moved(t, "destroying", thread[t].handle, thread[t].late)
    BY <1>14, StopRouterMoves
  <2> QED
    BY <1>14, <2>1 DEF StopRouter, Moved
<1>15. ASSUME NEW h \in Handle, Forget(h)
     PROVE  NotOpened'
  BY <1>15 DEF Forget
<1>16. ASSUME NEW h \in Handle, Collect(h)
     PROVE  NotOpened'
  BY <1>16 DEF Collect
<1>17. ASSUME NEW h \in Handle, FreeObject(h)
     PROVE  NotOpened'
  BY <1>17 DEF FreeObject
<1>18. ASSUME NEW h \in Handle, DropShutsDown(h)
     PROVE  NotOpened'
  BY <1>18 DEF DropShutsDown
<1>19. ASSUME NEW h \in Handle, HeartbeatStarts(h)
     PROVE  NotOpened'
  BY <1>19 DEF HeartbeatStarts
<1>20. ASSUME NEW h \in Handle, HeartbeatEnds(h)
     PROVE  NotOpened'
  BY <1>20 DEF HeartbeatEnds
<1>21. ASSUME NEW h \in Handle, GossipEnds(h)
     PROVE  NotOpened'
  BY <1>21 DEF GossipEnds
<1>22. CASE UNCHANGED vars
  BY <1>22 DEF vars
<1>23. QED
  BY <1>1, <1>2, <1>3, <1>4, <1>5, <1>6, <1>7, <1>8, <1>9, <1>10, <1>11,
     <1>12, <1>13, <1>14, <1>15, <1>16, <1>17, <1>18, <1>19, <1>20,
     <1>21, <1>22
  DEF Next, ThreadStep, TaskStep

\* A handle that is being opened stays with the thread that opens it.
LEMMA OpenedByOneStep ==
  Typed /\ Opening /\ [Next]_vars => OpenedByOne'
<1> SUFFICES ASSUME Typed, Opening, [Next]_vars
             PROVE  OpenedByOne'
  OBVIOUS
<1> USE NodeHandleAssumption, HandleFacts
    DEF Typed, NotOpened, OpenedByOne, NotStarted, Opening, At, Place, Unknown,
        Empty
<1>1. ASSUME NEW t \in Thread, BeginOpen(t)
     PROVE  OpenedByOne'
  <2>1. Moved(t, "opening", opens', FALSE)
    BY <1>1, BeginOpenMoves
  <2>2. opens' \in Handle /\ opens' > opens
    BY <1>1 DEF BeginOpen, Handle
  <2>3. UNCHANGED <<kotlin, closed, destroyed, slot, arcs, tasks>>
    BY <1>1 DEF BeginOpen
  <2> QED
    BY <2>1, <2>2, <2>3 DEF Moved
<1>2. ASSUME NEW t \in Thread, LockDirectory(t)
     PROVE  OpenedByOne'
  <2>1. IF lock = None THEN Moved(t, "binding", thread[t].handle, thread[t].late)
        ELSE Moved(t, "idle", None, FALSE)
    BY <1>2, LockDirectoryMoves
  <2> QED
    BY <1>2, <2>1 DEF LockDirectory, Moved
<1>3. ASSUME NEW t \in Thread, Bind(t)
     PROVE  OpenedByOne'
  <2>1. \/ Moved(t, "opened", thread[t].handle, thread[t].late)
      \/ Moved(t, "idle", None, FALSE)
    BY <1>3, BindMoves
  <2> QED
    BY <1>3, <2>1 DEF Bind, Moved
<1>4. ASSUME NEW t \in Thread, Deliver(t)
     PROVE  OpenedByOne'
  <2>1. Moved(t, "idle", None, FALSE)
    BY <1>4, DeliverMoves
  <2> QED
    BY <1>4, <2>1 DEF Deliver, Moved
<1>5. ASSUME NEW t \in Thread, OpenCancelled(t)
     PROVE  OpenedByOne'
  <2>1. Moved(t, "shutdown", thread[t].handle, thread[t].late)
    BY <1>5, OpenCancelledMoves
  <2> QED
    BY <1>5, <2>1 DEF OpenCancelled, Moved
<1>6. ASSUME NEW t \in Thread, Check(t)
     PROVE  OpenedByOne'
  <2>1. IF closed[thread[t].handle] THEN Moved(t, "idle", None, FALSE)
        ELSE Moved(t, "checked", thread[t].handle, thread[t].late)
    BY <1>6, CheckMoves
  <2> QED
    BY <1>6, <2>1 DEF Check, Moved
<1>7. ASSUME NEW t \in Thread, Enter(t)
     PROVE  OpenedByOne'
  <2>1. IF destroyed[thread[t].handle] THEN Moved(t, "idle", None, FALSE)
        ELSE Moved(t, "entered", thread[t].handle, thread[t].late)
    BY <1>7, EnterMoves
  <2> QED
    BY <1>7, <2>1 DEF Enter, Moved
<1>8. ASSUME NEW t \in Thread, Active(t)
     PROVE  OpenedByOne'
  <2>1. IF slot[thread[t].handle] THEN Moved(t, "using", thread[t].handle, thread[t].late)
        ELSE Moved(t, "idle", None, FALSE)
    BY <1>8, ActiveMoves
  <2> QED
    BY <1>8, <2>1 DEF Active, Moved
<1>9. ASSUME NEW t \in Thread, Take(t)
     PROVE  OpenedByOne'
  <2>1. Moved(t, "stopping", thread[t].handle, thread[t].late)
    BY <1>9, TakeMoves
  <2> QED
    BY <1>9, <2>1 DEF Take, Moved
<1>10. ASSUME NEW t \in Thread, Destroy(t)
     PROVE  OpenedByOne'
  <2>1. Moved(t, "idle", None, FALSE)
    BY <1>10, DestroyMoves
  <2> QED
    BY <1>10, <2>1 DEF Destroy, Moved
<1>11. ASSUME NEW t \in Thread, NEW h \in Handle, BeginCall(t, h)
     PROVE  OpenedByOne'
  <2>1. Moved(t, "io", h, closed[h])
    BY <1>11, BeginCallMoves
  <2> QED
    BY <1>11, <2>1 DEF BeginCall, Moved
<1>12. ASSUME NEW t \in Thread, NEW h \in Handle, BeginClose(t, h)
     PROVE  OpenedByOne'
  <2>1. Moved(t, "shutdown", h, FALSE)
    BY <1>12, BeginCloseMoves
  <2> QED
    BY <1>12, <2>1 DEF BeginClose, Moved
<1>13. ASSUME NEW t \in Thread, NEW h \in Handle, FinishCall(t, h)
     PROVE  OpenedByOne'
  <2>1. Moved(t, "idle", None, FALSE)
    BY <1>13, FinishCallMoves
  <2> QED
    BY <1>13, <2>1 DEF FinishCall, Moved
<1>14. ASSUME NEW t \in Thread, NEW h \in Handle, StopRouter(t, h)
     PROVE  OpenedByOne'
  <2>1. Moved(t, "destroying", thread[t].handle, thread[t].late)
    BY <1>14, StopRouterMoves
  <2> QED
    BY <1>14, <2>1 DEF StopRouter, Moved
<1>15. ASSUME NEW h \in Handle, Forget(h)
     PROVE  OpenedByOne'
  BY <1>15 DEF Forget
<1>16. ASSUME NEW h \in Handle, Collect(h)
     PROVE  OpenedByOne'
  BY <1>16 DEF Collect
<1>17. ASSUME NEW h \in Handle, FreeObject(h)
     PROVE  OpenedByOne'
  BY <1>17 DEF FreeObject
<1>18. ASSUME NEW h \in Handle, DropShutsDown(h)
     PROVE  OpenedByOne'
  BY <1>18 DEF DropShutsDown
<1>19. ASSUME NEW h \in Handle, HeartbeatStarts(h)
     PROVE  OpenedByOne'
  BY <1>19 DEF HeartbeatStarts
<1>20. ASSUME NEW h \in Handle, HeartbeatEnds(h)
     PROVE  OpenedByOne'
  BY <1>20 DEF HeartbeatEnds
<1>21. ASSUME NEW h \in Handle, GossipEnds(h)
     PROVE  OpenedByOne'
  BY <1>21 DEF GossipEnds
<1>22. CASE UNCHANGED vars
  BY <1>22 DEF vars
<1>23. QED
  BY <1>1, <1>2, <1>3, <1>4, <1>5, <1>6, <1>7, <1>8, <1>9, <1>10, <1>11,
     <1>12, <1>13, <1>14, <1>15, <1>16, <1>17, <1>18, <1>19, <1>20,
     <1>21, <1>22
  DEF Next, ThreadStep, TaskStep

\* Nothing runs for a handle before Bind.
LEMMA NotStartedStep ==
  Typed /\ Opening /\ [Next]_vars => NotStarted'
<1> SUFFICES ASSUME Typed, Opening, [Next]_vars
             PROVE  NotStarted'
  OBVIOUS
<1> USE NodeHandleAssumption, HandleFacts
    DEF Typed, NotOpened, OpenedByOne, NotStarted, Opening, At, Place, Unknown,
        Empty
<1>1. ASSUME NEW t \in Thread, BeginOpen(t)
     PROVE  NotStarted'
  <2>1. Moved(t, "opening", opens', FALSE)
    BY <1>1, BeginOpenMoves
  <2>2. opens' \in Handle /\ opens' > opens
    BY <1>1 DEF BeginOpen, Handle
  <2>3. UNCHANGED <<kotlin, closed, destroyed, slot, arcs, tasks>>
    BY <1>1 DEF BeginOpen
  <2> QED
    BY <2>1, <2>2, <2>3 DEF Moved
<1>2. ASSUME NEW t \in Thread, LockDirectory(t)
     PROVE  NotStarted'
  <2>1. IF lock = None THEN Moved(t, "binding", thread[t].handle, thread[t].late)
        ELSE Moved(t, "idle", None, FALSE)
    BY <1>2, LockDirectoryMoves
  <2> QED
    BY <1>2, <2>1 DEF LockDirectory, Moved
<1>3. ASSUME NEW t \in Thread, Bind(t)
     PROVE  NotStarted'
  <2>1. \/ Moved(t, "opened", thread[t].handle, thread[t].late)
      \/ Moved(t, "idle", None, FALSE)
    BY <1>3, BindMoves
  <2> QED
    BY <1>3, <2>1 DEF Bind, Moved
<1>4. ASSUME NEW t \in Thread, Deliver(t)
     PROVE  NotStarted'
  <2>1. Moved(t, "idle", None, FALSE)
    BY <1>4, DeliverMoves
  <2> QED
    BY <1>4, <2>1 DEF Deliver, Moved
<1>5. ASSUME NEW t \in Thread, OpenCancelled(t)
     PROVE  NotStarted'
  <2>1. Moved(t, "shutdown", thread[t].handle, thread[t].late)
    BY <1>5, OpenCancelledMoves
  <2> QED
    BY <1>5, <2>1 DEF OpenCancelled, Moved
<1>6. ASSUME NEW t \in Thread, Check(t)
     PROVE  NotStarted'
  <2>1. IF closed[thread[t].handle] THEN Moved(t, "idle", None, FALSE)
        ELSE Moved(t, "checked", thread[t].handle, thread[t].late)
    BY <1>6, CheckMoves
  <2> QED
    BY <1>6, <2>1 DEF Check, Moved
<1>7. ASSUME NEW t \in Thread, Enter(t)
     PROVE  NotStarted'
  <2>1. IF destroyed[thread[t].handle] THEN Moved(t, "idle", None, FALSE)
        ELSE Moved(t, "entered", thread[t].handle, thread[t].late)
    BY <1>7, EnterMoves
  <2> QED
    BY <1>7, <2>1 DEF Enter, Moved
<1>8. ASSUME NEW t \in Thread, Active(t)
     PROVE  NotStarted'
  <2>1. IF slot[thread[t].handle] THEN Moved(t, "using", thread[t].handle, thread[t].late)
        ELSE Moved(t, "idle", None, FALSE)
    BY <1>8, ActiveMoves
  <2> QED
    BY <1>8, <2>1 DEF Active, Moved
<1>9. ASSUME NEW t \in Thread, Take(t)
     PROVE  NotStarted'
  <2>1. Moved(t, "stopping", thread[t].handle, thread[t].late)
    BY <1>9, TakeMoves
  <2> QED
    BY <1>9, <2>1 DEF Take, Moved
<1>10. ASSUME NEW t \in Thread, Destroy(t)
     PROVE  NotStarted'
  <2>1. Moved(t, "idle", None, FALSE)
    BY <1>10, DestroyMoves
  <2> QED
    BY <1>10, <2>1 DEF Destroy, Moved
<1>11. ASSUME NEW t \in Thread, NEW h \in Handle, BeginCall(t, h)
     PROVE  NotStarted'
  <2>1. Moved(t, "io", h, closed[h])
    BY <1>11, BeginCallMoves
  <2> QED
    BY <1>11, <2>1 DEF BeginCall, Moved
<1>12. ASSUME NEW t \in Thread, NEW h \in Handle, BeginClose(t, h)
     PROVE  NotStarted'
  <2>1. Moved(t, "shutdown", h, FALSE)
    BY <1>12, BeginCloseMoves
  <2> QED
    BY <1>12, <2>1 DEF BeginClose, Moved
<1>13. ASSUME NEW t \in Thread, NEW h \in Handle, FinishCall(t, h)
     PROVE  NotStarted'
  <2>1. Moved(t, "idle", None, FALSE)
    BY <1>13, FinishCallMoves
  <2> QED
    BY <1>13, <2>1 DEF FinishCall, Moved
<1>14. ASSUME NEW t \in Thread, NEW h \in Handle, StopRouter(t, h)
     PROVE  NotStarted'
  <2>1. Moved(t, "destroying", thread[t].handle, thread[t].late)
    BY <1>14, StopRouterMoves
  <2> QED
    BY <1>14, <2>1 DEF StopRouter, Moved
<1>15. ASSUME NEW h \in Handle, Forget(h)
     PROVE  NotStarted'
  BY <1>15 DEF Forget
<1>16. ASSUME NEW h \in Handle, Collect(h)
     PROVE  NotStarted'
  BY <1>16 DEF Collect
<1>17. ASSUME NEW h \in Handle, FreeObject(h)
     PROVE  NotStarted'
  BY <1>17 DEF FreeObject
<1>18. ASSUME NEW h \in Handle, DropShutsDown(h)
     PROVE  NotStarted'
  BY <1>18 DEF DropShutsDown
<1>19. ASSUME NEW h \in Handle, HeartbeatStarts(h)
     PROVE  NotStarted'
  BY <1>19 DEF HeartbeatStarts
<1>20. ASSUME NEW h \in Handle, HeartbeatEnds(h)
     PROVE  NotStarted'
  BY <1>20 DEF HeartbeatEnds
<1>21. ASSUME NEW h \in Handle, GossipEnds(h)
     PROVE  NotStarted'
  BY <1>21 DEF GossipEnds
<1>22. CASE UNCHANGED vars
  BY <1>22 DEF vars
<1>23. QED
  BY <1>1, <1>2, <1>3, <1>4, <1>5, <1>6, <1>7, <1>8, <1>9, <1>10, <1>11,
     <1>12, <1>13, <1>14, <1>15, <1>16, <1>17, <1>18, <1>19, <1>20,
     <1>21, <1>22
  DEF Next, ThreadStep, TaskStep

\* A call that is late stays out.
LEMMA LateStep ==
  Typed /\ LateStops /\ [Next]_vars => LateStops'
<1> SUFFICES ASSUME Typed, LateStops, [Next]_vars
             PROVE  LateStops'
  OBVIOUS
<1> USE NodeHandleAssumption, HandleFacts DEF Typed, LateStops, At, Place
<1>1. ASSUME NEW t \in Thread, BeginOpen(t)
     PROVE  LateStops'
  <2>1. Moved(t, "opening", opens', FALSE)
    BY <1>1, BeginOpenMoves
  <2> QED
    BY <1>1, <2>1 DEF BeginOpen, Moved
<1>2. ASSUME NEW t \in Thread, LockDirectory(t)
     PROVE  LateStops'
  <2>1. IF lock = None THEN Moved(t, "binding", thread[t].handle, thread[t].late)
        ELSE Moved(t, "idle", None, FALSE)
    BY <1>2, LockDirectoryMoves
  <2> QED
    BY <1>2, <2>1 DEF LockDirectory, Moved
<1>3. ASSUME NEW t \in Thread, Bind(t)
     PROVE  LateStops'
  <2>1. \/ Moved(t, "opened", thread[t].handle, thread[t].late)
      \/ Moved(t, "idle", None, FALSE)
    BY <1>3, BindMoves
  <2> QED
    BY <1>3, <2>1 DEF Bind, Moved
<1>4. ASSUME NEW t \in Thread, Deliver(t)
     PROVE  LateStops'
  <2>1. Moved(t, "idle", None, FALSE)
    BY <1>4, DeliverMoves
  <2> QED
    BY <1>4, <2>1 DEF Deliver, Moved
<1>5. ASSUME NEW t \in Thread, OpenCancelled(t)
     PROVE  LateStops'
  <2>1. Moved(t, "shutdown", thread[t].handle, thread[t].late)
    BY <1>5, OpenCancelledMoves
  <2> QED
    BY <1>5, <2>1 DEF OpenCancelled, Moved
<1>6. ASSUME NEW t \in Thread, Check(t)
     PROVE  LateStops'
  <2>1. IF closed[thread[t].handle] THEN Moved(t, "idle", None, FALSE)
        ELSE Moved(t, "checked", thread[t].handle, thread[t].late)
    BY <1>6, CheckMoves
  <2> QED
    BY <1>6, <2>1 DEF Check, Moved
<1>7. ASSUME NEW t \in Thread, Enter(t)
     PROVE  LateStops'
  <2>1. IF destroyed[thread[t].handle] THEN Moved(t, "idle", None, FALSE)
        ELSE Moved(t, "entered", thread[t].handle, thread[t].late)
    BY <1>7, EnterMoves
  <2> QED
    BY <1>7, <2>1 DEF Enter, Moved
<1>8. ASSUME NEW t \in Thread, Active(t)
     PROVE  LateStops'
  <2>1. IF slot[thread[t].handle] THEN Moved(t, "using", thread[t].handle, thread[t].late)
        ELSE Moved(t, "idle", None, FALSE)
    BY <1>8, ActiveMoves
  <2> QED
    BY <1>8, <2>1 DEF Active, Moved
<1>9. ASSUME NEW t \in Thread, Take(t)
     PROVE  LateStops'
  <2>1. Moved(t, "stopping", thread[t].handle, thread[t].late)
    BY <1>9, TakeMoves
  <2> QED
    BY <1>9, <2>1 DEF Take, Moved
<1>10. ASSUME NEW t \in Thread, Destroy(t)
     PROVE  LateStops'
  <2>1. Moved(t, "idle", None, FALSE)
    BY <1>10, DestroyMoves
  <2> QED
    BY <1>10, <2>1 DEF Destroy, Moved
<1>11. ASSUME NEW t \in Thread, NEW h \in Handle, BeginCall(t, h)
     PROVE  LateStops'
  <2>1. Moved(t, "io", h, closed[h])
    BY <1>11, BeginCallMoves
  <2> QED
    BY <1>11, <2>1 DEF BeginCall, Moved
<1>12. ASSUME NEW t \in Thread, NEW h \in Handle, BeginClose(t, h)
     PROVE  LateStops'
  <2>1. Moved(t, "shutdown", h, FALSE)
    BY <1>12, BeginCloseMoves
  <2> QED
    BY <1>12, <2>1 DEF BeginClose, Moved
<1>13. ASSUME NEW t \in Thread, NEW h \in Handle, FinishCall(t, h)
     PROVE  LateStops'
  <2>1. Moved(t, "idle", None, FALSE)
    BY <1>13, FinishCallMoves
  <2> QED
    BY <1>13, <2>1 DEF FinishCall, Moved
<1>14. ASSUME NEW t \in Thread, NEW h \in Handle, StopRouter(t, h)
     PROVE  LateStops'
  <2>1. Moved(t, "destroying", thread[t].handle, thread[t].late)
    BY <1>14, StopRouterMoves
  <2> QED
    BY <1>14, <2>1 DEF StopRouter, Moved
<1>15. ASSUME NEW h \in Handle, Forget(h)
     PROVE  LateStops'
  BY <1>15 DEF Forget
<1>16. ASSUME NEW h \in Handle, Collect(h)
     PROVE  LateStops'
  BY <1>16 DEF Collect
<1>17. ASSUME NEW h \in Handle, FreeObject(h)
     PROVE  LateStops'
  BY <1>17 DEF FreeObject
<1>18. ASSUME NEW h \in Handle, DropShutsDown(h)
     PROVE  LateStops'
  BY <1>18 DEF DropShutsDown
<1>19. ASSUME NEW h \in Handle, HeartbeatStarts(h)
     PROVE  LateStops'
  BY <1>19 DEF HeartbeatStarts
<1>20. ASSUME NEW h \in Handle, HeartbeatEnds(h)
     PROVE  LateStops'
  BY <1>20 DEF HeartbeatEnds
<1>21. ASSUME NEW h \in Handle, GossipEnds(h)
     PROVE  LateStops'
  BY <1>21 DEF GossipEnds
<1>22. CASE UNCHANGED vars
  BY <1>22 DEF vars
<1>23. QED
  BY <1>1, <1>2, <1>3, <1>4, <1>5, <1>6, <1>7, <1>8, <1>9, <1>10, <1>11,
     <1>12, <1>13, <1>14, <1>15, <1>16, <1>17, <1>18, <1>19, <1>20,
     <1>21, <1>22
  DEF Next, ThreadStep, TaskStep

\* The directory stays locked for exactly the node that something refers to.
LEMMA LockStep ==
  Typed /\ Opening /\ LockIsHeld /\ [Next]_vars => LockIsHeld'
<1> SUFFICES ASSUME Typed, Opening, LockIsHeld, [Next]_vars
             PROVE  LockIsHeld'
  OBVIOUS
<1> USE NodeHandleAssumption, HandleFacts
    DEF Typed, Opening, OpenedByOne, At, Place, Unknown, NotStarted, Empty,
        LockIsHeld, Held, NodeAlive
<1>1. ASSUME NEW t \in Thread, BeginOpen(t)
     PROVE  LockIsHeld'
  <2>1. Moved(t, "opening", opens', FALSE)
    BY <1>1, BeginOpenMoves
  <2> QED
    BY <1>1, <2>1 DEF BeginOpen, Moved
<1>2. ASSUME NEW t \in Thread, LockDirectory(t)
     PROVE  LockIsHeld'
  <2>1. IF lock = None THEN Moved(t, "binding", thread[t].handle, thread[t].late)
        ELSE Moved(t, "idle", None, FALSE)
    BY <1>2, LockDirectoryMoves
  <2> QED
    BY <1>2, <2>1 DEF LockDirectory, Moved
<1>3. ASSUME NEW t \in Thread, Bind(t)
     PROVE  LockIsHeld'
  <2>1. \/ Moved(t, "opened", thread[t].handle, thread[t].late)
      \/ Moved(t, "idle", None, FALSE)
    BY <1>3, BindMoves
  <2> QED
    BY <1>3, <2>1 DEF Bind, Moved
<1>4. ASSUME NEW t \in Thread, Deliver(t)
     PROVE  LockIsHeld'
  <2>1. Moved(t, "idle", None, FALSE)
    BY <1>4, DeliverMoves
  <2> QED
    BY <1>4, <2>1 DEF Deliver, Moved
<1>5. ASSUME NEW t \in Thread, OpenCancelled(t)
     PROVE  LockIsHeld'
  <2>1. Moved(t, "shutdown", thread[t].handle, thread[t].late)
    BY <1>5, OpenCancelledMoves
  <2> QED
    BY <1>5, <2>1 DEF OpenCancelled, Moved
<1>6. ASSUME NEW t \in Thread, Check(t)
     PROVE  LockIsHeld'
  <2>1. IF closed[thread[t].handle] THEN Moved(t, "idle", None, FALSE)
        ELSE Moved(t, "checked", thread[t].handle, thread[t].late)
    BY <1>6, CheckMoves
  <2> QED
    BY <1>6, <2>1 DEF Check, Moved
<1>7. ASSUME NEW t \in Thread, Enter(t)
     PROVE  LockIsHeld'
  <2>1. IF destroyed[thread[t].handle] THEN Moved(t, "idle", None, FALSE)
        ELSE Moved(t, "entered", thread[t].handle, thread[t].late)
    BY <1>7, EnterMoves
  <2> QED
    BY <1>7, <2>1 DEF Enter, Moved
<1>8. ASSUME NEW t \in Thread, Active(t)
     PROVE  LockIsHeld'
  <2>1. IF slot[thread[t].handle] THEN Moved(t, "using", thread[t].handle, thread[t].late)
        ELSE Moved(t, "idle", None, FALSE)
    BY <1>8, ActiveMoves
  <2> QED
    BY <1>8, <2>1 DEF Active, Moved
<1>9. ASSUME NEW t \in Thread, Take(t)
     PROVE  LockIsHeld'
  <2>1. Moved(t, "stopping", thread[t].handle, thread[t].late)
    BY <1>9, TakeMoves
  <2>2. thread[t].handle \in Handle /\ slot[thread[t].handle] /\ thread[t].at = "shutdown"
    BY <1>9 DEF Take
  <2>3. /\ t \in arcs'[thread[t].handle]
        /\ \A x \in Handle : x # thread[t].handle =>
             slot'[x] = slot[x] /\ arcs'[x] = arcs[x]
    BY <1>9, <2>2 DEF Take
  <2>4. \A x \in Handle : NodeAlive(x)' <=> NodeAlive(x)
    BY <2>2, <2>3
  <2>5. \A u \in Thread :
          /\ thread'[u].at = "binding" <=> thread[u].at = "binding"
          /\ thread'[u].handle = thread[u].handle
    BY <2>1, <2>2 DEF Moved
  <2>6. tasks' = tasks /\ lock' = lock
    BY <1>9 DEF Take
  <2> QED
    BY <2>4, <2>5, <2>6
<1>10. ASSUME NEW t \in Thread, Destroy(t)
     PROVE  LockIsHeld'
  <2>1. Moved(t, "idle", None, FALSE)
    BY <1>10, DestroyMoves
  <2> QED
    BY <1>10, <2>1 DEF Destroy, Moved
<1>11. ASSUME NEW t \in Thread, NEW h \in Handle, BeginCall(t, h)
     PROVE  LockIsHeld'
  <2>1. Moved(t, "io", h, closed[h])
    BY <1>11, BeginCallMoves
  <2> QED
    BY <1>11, <2>1 DEF BeginCall, Moved
<1>12. ASSUME NEW t \in Thread, NEW h \in Handle, BeginClose(t, h)
     PROVE  LockIsHeld'
  <2>1. Moved(t, "shutdown", h, FALSE)
    BY <1>12, BeginCloseMoves
  <2> QED
    BY <1>12, <2>1 DEF BeginClose, Moved
<1>13. ASSUME NEW t \in Thread, NEW h \in Handle, FinishCall(t, h)
     PROVE  LockIsHeld'
  <2>1. Moved(t, "idle", None, FALSE)
    BY <1>13, FinishCallMoves
  <2> QED
    BY <1>13, <2>1 DEF FinishCall, Unlock, Moved
<1>14. ASSUME NEW t \in Thread, NEW h \in Handle, StopRouter(t, h)
     PROVE  LockIsHeld'
  <2>1. Moved(t, "destroying", thread[t].handle, thread[t].late)
    BY <1>14, StopRouterMoves
  <2> QED
    BY <1>14, <2>1 DEF StopRouter, Unlock, Moved
<1>15. ASSUME NEW h \in Handle, Forget(h)
     PROVE  LockIsHeld'
  BY <1>15 DEF Forget
<1>16. ASSUME NEW h \in Handle, Collect(h)
     PROVE  LockIsHeld'
  BY <1>16 DEF Collect
<1>17. ASSUME NEW h \in Handle, FreeObject(h)
     PROVE  LockIsHeld'
  <2>1. /\ slot[h] /\ "drop" \in arcs'[h]
        /\ \A x \in Handle : x # h => slot'[x] = slot[x] /\ arcs'[x] = arcs[x]
    BY <1>17 DEF FreeObject
  <2>2. \A x \in Handle : NodeAlive(x)' <=> NodeAlive(x)
    BY <2>1
  <2>3. UNCHANGED <<tasks, lock, thread>>
    BY <1>17 DEF FreeObject
  <2> QED
    BY <2>2, <2>3
<1>18. ASSUME NEW h \in Handle, DropShutsDown(h)
     PROVE  LockIsHeld'
  BY <1>18 DEF DropShutsDown, Unlock
<1>19. ASSUME NEW h \in Handle, HeartbeatStarts(h)
     PROVE  LockIsHeld'
  BY <1>19 DEF HeartbeatStarts
<1>20. ASSUME NEW h \in Handle, HeartbeatEnds(h)
     PROVE  LockIsHeld'
  BY <1>20 DEF HeartbeatEnds, Unlock
<1>21. ASSUME NEW h \in Handle, GossipEnds(h)
     PROVE  LockIsHeld'
  BY <1>21 DEF GossipEnds, Unlock
<1>22. CASE UNCHANGED vars
  BY <1>22 DEF vars
<1>23. QED
  BY <1>1, <1>2, <1>3, <1>4, <1>5, <1>6, <1>7, <1>8, <1>9, <1>10, <1>11,
     <1>12, <1>13, <1>14, <1>15, <1>16, <1>17, <1>18, <1>19, <1>20,
     <1>21, <1>22
  DEF Next, ThreadStep, TaskStep

\* Whoever closes a handle goes on with one that is over.
LEMMA CloserStep ==
  Typed /\ Opening /\ CloserIsClosing /\ [Next]_vars => CloserIsClosing'
<1> SUFFICES ASSUME Typed, Opening, CloserIsClosing, [Next]_vars
             PROVE  CloserIsClosing'
  OBVIOUS
<1> USE NodeHandleAssumption, HandleFacts
    DEF Typed, Opening, OpenedByOne, At, Place, Unknown, CloserIsClosing, Over
<1>1. ASSUME NEW t \in Thread, BeginOpen(t)
     PROVE  CloserIsClosing'
  <2>1. Moved(t, "opening", opens', FALSE)
    BY <1>1, BeginOpenMoves
  <2> QED
    BY <1>1, <2>1 DEF BeginOpen, Moved
<1>2. ASSUME NEW t \in Thread, LockDirectory(t)
     PROVE  CloserIsClosing'
  <2>1. IF lock = None THEN Moved(t, "binding", thread[t].handle, thread[t].late)
        ELSE Moved(t, "idle", None, FALSE)
    BY <1>2, LockDirectoryMoves
  <2> QED
    BY <1>2, <2>1 DEF LockDirectory, Moved
<1>3. ASSUME NEW t \in Thread, Bind(t)
     PROVE  CloserIsClosing'
  <2>1. \/ Moved(t, "opened", thread[t].handle, thread[t].late)
      \/ Moved(t, "idle", None, FALSE)
    BY <1>3, BindMoves
  <2> QED
    BY <1>3, <2>1 DEF Bind, Moved
<1>4. ASSUME NEW t \in Thread, Deliver(t)
     PROVE  CloserIsClosing'
  <2>1. Moved(t, "idle", None, FALSE)
    BY <1>4, DeliverMoves
  <2> QED
    BY <1>4, <2>1 DEF Deliver, Moved
<1>5. ASSUME NEW t \in Thread, OpenCancelled(t)
     PROVE  CloserIsClosing'
  <2>1. Moved(t, "shutdown", thread[t].handle, thread[t].late)
    BY <1>5, OpenCancelledMoves
  <2> QED
    BY <1>5, <2>1 DEF OpenCancelled, Moved
<1>6. ASSUME NEW t \in Thread, Check(t)
     PROVE  CloserIsClosing'
  <2>1. IF closed[thread[t].handle] THEN Moved(t, "idle", None, FALSE)
        ELSE Moved(t, "checked", thread[t].handle, thread[t].late)
    BY <1>6, CheckMoves
  <2> QED
    BY <1>6, <2>1 DEF Check, Moved
<1>7. ASSUME NEW t \in Thread, Enter(t)
     PROVE  CloserIsClosing'
  <2>1. IF destroyed[thread[t].handle] THEN Moved(t, "idle", None, FALSE)
        ELSE Moved(t, "entered", thread[t].handle, thread[t].late)
    BY <1>7, EnterMoves
  <2> QED
    BY <1>7, <2>1 DEF Enter, Moved
<1>8. ASSUME NEW t \in Thread, Active(t)
     PROVE  CloserIsClosing'
  <2>1. IF slot[thread[t].handle] THEN Moved(t, "using", thread[t].handle, thread[t].late)
        ELSE Moved(t, "idle", None, FALSE)
    BY <1>8, ActiveMoves
  <2> QED
    BY <1>8, <2>1 DEF Active, Moved
<1>9. ASSUME NEW t \in Thread, Take(t)
     PROVE  CloserIsClosing'
  <2>1. Moved(t, "stopping", thread[t].handle, thread[t].late)
    BY <1>9, TakeMoves
  <2> QED
    BY <1>9, <2>1 DEF Take, Moved
<1>10. ASSUME NEW t \in Thread, Destroy(t)
     PROVE  CloserIsClosing'
  <2>1. Moved(t, "idle", None, FALSE)
    BY <1>10, DestroyMoves
  <2> QED
    BY <1>10, <2>1 DEF Destroy, Moved
<1>11. ASSUME NEW t \in Thread, NEW h \in Handle, BeginCall(t, h)
     PROVE  CloserIsClosing'
  <2>1. Moved(t, "io", h, closed[h])
    BY <1>11, BeginCallMoves
  <2> QED
    BY <1>11, <2>1 DEF BeginCall, Moved
<1>12. ASSUME NEW t \in Thread, NEW h \in Handle, BeginClose(t, h)
     PROVE  CloserIsClosing'
  <2>1. Moved(t, "shutdown", h, FALSE)
    BY <1>12, BeginCloseMoves
  <2> QED
    BY <1>12, <2>1 DEF BeginClose, Moved
<1>13. ASSUME NEW t \in Thread, NEW h \in Handle, FinishCall(t, h)
     PROVE  CloserIsClosing'
  <2>1. Moved(t, "idle", None, FALSE)
    BY <1>13, FinishCallMoves
  <2> QED
    BY <1>13, <2>1 DEF FinishCall, Moved
<1>14. ASSUME NEW t \in Thread, NEW h \in Handle, StopRouter(t, h)
     PROVE  CloserIsClosing'
  <2>1. Moved(t, "destroying", thread[t].handle, thread[t].late)
    BY <1>14, StopRouterMoves
  <2> QED
    BY <1>14, <2>1 DEF StopRouter, Moved
<1>15. ASSUME NEW h \in Handle, Forget(h)
     PROVE  CloserIsClosing'
  BY <1>15 DEF Forget
<1>16. ASSUME NEW h \in Handle, Collect(h)
     PROVE  CloserIsClosing'
  BY <1>16 DEF Collect
<1>17. ASSUME NEW h \in Handle, FreeObject(h)
     PROVE  CloserIsClosing'
  BY <1>17 DEF FreeObject
<1>18. ASSUME NEW h \in Handle, DropShutsDown(h)
     PROVE  CloserIsClosing'
  BY <1>18 DEF DropShutsDown
<1>19. ASSUME NEW h \in Handle, HeartbeatStarts(h)
     PROVE  CloserIsClosing'
  BY <1>19 DEF HeartbeatStarts
<1>20. ASSUME NEW h \in Handle, HeartbeatEnds(h)
     PROVE  CloserIsClosing'
  BY <1>20 DEF HeartbeatEnds
<1>21. ASSUME NEW h \in Handle, GossipEnds(h)
     PROVE  CloserIsClosing'
  BY <1>21 DEF GossipEnds
<1>22. CASE UNCHANGED vars
  BY <1>22 DEF vars
<1>23. QED
  BY <1>1, <1>2, <1>3, <1>4, <1>5, <1>6, <1>7, <1>8, <1>9, <1>10, <1>11,
     <1>12, <1>13, <1>14, <1>15, <1>16, <1>17, <1>18, <1>19, <1>20,
     <1>21, <1>22
  DEF Next, ThreadStep, TaskStep

\* A node that is being stopped stays aborted.
LEMMA StoppingStep ==
  Typed /\ Opening /\ StoppingIsAborted /\ [Next]_vars => StoppingIsAborted'
<1> SUFFICES ASSUME Typed, Opening, StoppingIsAborted, [Next]_vars
             PROVE  StoppingIsAborted'
  OBVIOUS
<1> USE NodeHandleAssumption, HandleFacts
    DEF Typed, Opening, OpenedByOne, At, Place, Unknown, StoppingIsAborted
<1>1. ASSUME NEW t \in Thread, BeginOpen(t)
     PROVE  StoppingIsAborted'
  <2>1. Moved(t, "opening", opens', FALSE)
    BY <1>1, BeginOpenMoves
  <2> QED
    BY <1>1, <2>1 DEF BeginOpen, Moved
<1>2. ASSUME NEW t \in Thread, LockDirectory(t)
     PROVE  StoppingIsAborted'
  <2>1. IF lock = None THEN Moved(t, "binding", thread[t].handle, thread[t].late)
        ELSE Moved(t, "idle", None, FALSE)
    BY <1>2, LockDirectoryMoves
  <2> QED
    BY <1>2, <2>1 DEF LockDirectory, Moved
<1>3. ASSUME NEW t \in Thread, Bind(t)
     PROVE  StoppingIsAborted'
  <2>1. \/ Moved(t, "opened", thread[t].handle, thread[t].late)
      \/ Moved(t, "idle", None, FALSE)
    BY <1>3, BindMoves
  <2> QED
    BY <1>3, <2>1 DEF Bind, Moved
<1>4. ASSUME NEW t \in Thread, Deliver(t)
     PROVE  StoppingIsAborted'
  <2>1. Moved(t, "idle", None, FALSE)
    BY <1>4, DeliverMoves
  <2> QED
    BY <1>4, <2>1 DEF Deliver, Moved
<1>5. ASSUME NEW t \in Thread, OpenCancelled(t)
     PROVE  StoppingIsAborted'
  <2>1. Moved(t, "shutdown", thread[t].handle, thread[t].late)
    BY <1>5, OpenCancelledMoves
  <2> QED
    BY <1>5, <2>1 DEF OpenCancelled, Moved
<1>6. ASSUME NEW t \in Thread, Check(t)
     PROVE  StoppingIsAborted'
  <2>1. IF closed[thread[t].handle] THEN Moved(t, "idle", None, FALSE)
        ELSE Moved(t, "checked", thread[t].handle, thread[t].late)
    BY <1>6, CheckMoves
  <2> QED
    BY <1>6, <2>1 DEF Check, Moved
<1>7. ASSUME NEW t \in Thread, Enter(t)
     PROVE  StoppingIsAborted'
  <2>1. IF destroyed[thread[t].handle] THEN Moved(t, "idle", None, FALSE)
        ELSE Moved(t, "entered", thread[t].handle, thread[t].late)
    BY <1>7, EnterMoves
  <2> QED
    BY <1>7, <2>1 DEF Enter, Moved
<1>8. ASSUME NEW t \in Thread, Active(t)
     PROVE  StoppingIsAborted'
  <2>1. IF slot[thread[t].handle] THEN Moved(t, "using", thread[t].handle, thread[t].late)
        ELSE Moved(t, "idle", None, FALSE)
    BY <1>8, ActiveMoves
  <2> QED
    BY <1>8, <2>1 DEF Active, Moved
<1>9. ASSUME NEW t \in Thread, Take(t)
     PROVE  StoppingIsAborted'
  <2>1. Moved(t, "stopping", thread[t].handle, thread[t].late)
    BY <1>9, TakeMoves
  <2> QED
    BY <1>9, <2>1 DEF Take, Moved
<1>10. ASSUME NEW t \in Thread, Destroy(t)
     PROVE  StoppingIsAborted'
  <2>1. Moved(t, "idle", None, FALSE)
    BY <1>10, DestroyMoves
  <2> QED
    BY <1>10, <2>1 DEF Destroy, Moved
<1>11. ASSUME NEW t \in Thread, NEW h \in Handle, BeginCall(t, h)
     PROVE  StoppingIsAborted'
  <2>1. Moved(t, "io", h, closed[h])
    BY <1>11, BeginCallMoves
  <2> QED
    BY <1>11, <2>1 DEF BeginCall, Moved
<1>12. ASSUME NEW t \in Thread, NEW h \in Handle, BeginClose(t, h)
     PROVE  StoppingIsAborted'
  <2>1. Moved(t, "shutdown", h, FALSE)
    BY <1>12, BeginCloseMoves
  <2> QED
    BY <1>12, <2>1 DEF BeginClose, Moved
<1>13. ASSUME NEW t \in Thread, NEW h \in Handle, FinishCall(t, h)
     PROVE  StoppingIsAborted'
  <2>1. Moved(t, "idle", None, FALSE)
    BY <1>13, FinishCallMoves
  <2> QED
    BY <1>13, <2>1 DEF FinishCall, AbortWithLast, Moved
<1>14. ASSUME NEW t \in Thread, NEW h \in Handle, StopRouter(t, h)
     PROVE  StoppingIsAborted'
  <2>1. Moved(t, "destroying", thread[t].handle, thread[t].late)
    BY <1>14, StopRouterMoves
  <2> QED
    BY <1>14, <2>1 DEF StopRouter, AbortWithLast, Moved
<1>15. ASSUME NEW h \in Handle, Forget(h)
     PROVE  StoppingIsAborted'
  BY <1>15 DEF Forget
<1>16. ASSUME NEW h \in Handle, Collect(h)
     PROVE  StoppingIsAborted'
  BY <1>16 DEF Collect
<1>17. ASSUME NEW h \in Handle, FreeObject(h)
     PROVE  StoppingIsAborted'
  BY <1>17 DEF FreeObject
<1>18. ASSUME NEW h \in Handle, DropShutsDown(h)
     PROVE  StoppingIsAborted'
  BY <1>18 DEF DropShutsDown
<1>19. ASSUME NEW h \in Handle, HeartbeatStarts(h)
     PROVE  StoppingIsAborted'
  BY <1>19 DEF HeartbeatStarts
<1>20. ASSUME NEW h \in Handle, HeartbeatEnds(h)
     PROVE  StoppingIsAborted'
  BY <1>20 DEF HeartbeatEnds
<1>21. ASSUME NEW h \in Handle, GossipEnds(h)
     PROVE  StoppingIsAborted'
  BY <1>21 DEF GossipEnds
<1>22. CASE UNCHANGED vars
  BY <1>22 DEF vars
<1>23. QED
  BY <1>1, <1>2, <1>3, <1>4, <1>5, <1>6, <1>7, <1>8, <1>9, <1>10, <1>11,
     <1>12, <1>13, <1>14, <1>15, <1>16, <1>17, <1>18, <1>19, <1>20,
     <1>21, <1>22
  DEF Next, ThreadStep, TaskStep

\* A node that was stopped stays off the network.
LEMMA DestroyingStep ==
  Typed /\ Opening /\ StoppingIsAborted /\ DestroyingIsOffline /\ [Next]_vars
    => DestroyingIsOffline'
<1> SUFFICES ASSUME Typed, Opening, StoppingIsAborted, DestroyingIsOffline, [Next]_vars
             PROVE  DestroyingIsOffline'
  OBVIOUS
<1> USE NodeHandleAssumption, HandleFacts
    DEF Typed, Opening, OpenedByOne, At, Place, Unknown, StoppingIsAborted,
        DestroyingIsOffline, Offline
<1>1. ASSUME NEW t \in Thread, BeginOpen(t)
     PROVE  DestroyingIsOffline'
  <2>1. Moved(t, "opening", opens', FALSE)
    BY <1>1, BeginOpenMoves
  <2> QED
    BY <1>1, <2>1 DEF BeginOpen, Moved
<1>2. ASSUME NEW t \in Thread, LockDirectory(t)
     PROVE  DestroyingIsOffline'
  <2>1. IF lock = None THEN Moved(t, "binding", thread[t].handle, thread[t].late)
        ELSE Moved(t, "idle", None, FALSE)
    BY <1>2, LockDirectoryMoves
  <2> QED
    BY <1>2, <2>1 DEF LockDirectory, Moved
<1>3. ASSUME NEW t \in Thread, Bind(t)
     PROVE  DestroyingIsOffline'
  <2>1. \/ Moved(t, "opened", thread[t].handle, thread[t].late)
      \/ Moved(t, "idle", None, FALSE)
    BY <1>3, BindMoves
  <2> QED
    BY <1>3, <2>1 DEF Bind, Moved
<1>4. ASSUME NEW t \in Thread, Deliver(t)
     PROVE  DestroyingIsOffline'
  <2>1. Moved(t, "idle", None, FALSE)
    BY <1>4, DeliverMoves
  <2> QED
    BY <1>4, <2>1 DEF Deliver, Moved
<1>5. ASSUME NEW t \in Thread, OpenCancelled(t)
     PROVE  DestroyingIsOffline'
  <2>1. Moved(t, "shutdown", thread[t].handle, thread[t].late)
    BY <1>5, OpenCancelledMoves
  <2> QED
    BY <1>5, <2>1 DEF OpenCancelled, Moved
<1>6. ASSUME NEW t \in Thread, Check(t)
     PROVE  DestroyingIsOffline'
  <2>1. IF closed[thread[t].handle] THEN Moved(t, "idle", None, FALSE)
        ELSE Moved(t, "checked", thread[t].handle, thread[t].late)
    BY <1>6, CheckMoves
  <2> QED
    BY <1>6, <2>1 DEF Check, Moved
<1>7. ASSUME NEW t \in Thread, Enter(t)
     PROVE  DestroyingIsOffline'
  <2>1. IF destroyed[thread[t].handle] THEN Moved(t, "idle", None, FALSE)
        ELSE Moved(t, "entered", thread[t].handle, thread[t].late)
    BY <1>7, EnterMoves
  <2> QED
    BY <1>7, <2>1 DEF Enter, Moved
<1>8. ASSUME NEW t \in Thread, Active(t)
     PROVE  DestroyingIsOffline'
  <2>1. IF slot[thread[t].handle] THEN Moved(t, "using", thread[t].handle, thread[t].late)
        ELSE Moved(t, "idle", None, FALSE)
    BY <1>8, ActiveMoves
  <2> QED
    BY <1>8, <2>1 DEF Active, Moved
<1>9. ASSUME NEW t \in Thread, Take(t)
     PROVE  DestroyingIsOffline'
  <2>1. Moved(t, "stopping", thread[t].handle, thread[t].late)
    BY <1>9, TakeMoves
  <2> QED
    BY <1>9, <2>1 DEF Take, Moved
<1>10. ASSUME NEW t \in Thread, Destroy(t)
     PROVE  DestroyingIsOffline'
  <2>1. Moved(t, "idle", None, FALSE)
    BY <1>10, DestroyMoves
  <2> QED
    BY <1>10, <2>1 DEF Destroy, Moved
<1>11. ASSUME NEW t \in Thread, NEW h \in Handle, BeginCall(t, h)
     PROVE  DestroyingIsOffline'
  <2>1. Moved(t, "io", h, closed[h])
    BY <1>11, BeginCallMoves
  <2> QED
    BY <1>11, <2>1 DEF BeginCall, Moved
<1>12. ASSUME NEW t \in Thread, NEW h \in Handle, BeginClose(t, h)
     PROVE  DestroyingIsOffline'
  <2>1. Moved(t, "shutdown", h, FALSE)
    BY <1>12, BeginCloseMoves
  <2> QED
    BY <1>12, <2>1 DEF BeginClose, Moved
<1>13. ASSUME NEW t \in Thread, NEW h \in Handle, FinishCall(t, h)
     PROVE  DestroyingIsOffline'
  <2>1. Moved(t, "idle", None, FALSE)
    BY <1>13, FinishCallMoves
  <2> QED
    BY <1>13, <2>1 DEF FinishCall, AbortWithLast, Moved
<1>14. ASSUME NEW t \in Thread, NEW h \in Handle, StopRouter(t, h)
     PROVE  DestroyingIsOffline'
  <2>1. Moved(t, "destroying", thread[t].handle, thread[t].late)
    BY <1>14, StopRouterMoves
  <2> QED
    BY <1>14, <2>1 DEF StopRouter, AbortWithLast, Moved
<1>15. ASSUME NEW h \in Handle, Forget(h)
     PROVE  DestroyingIsOffline'
  BY <1>15 DEF Forget
<1>16. ASSUME NEW h \in Handle, Collect(h)
     PROVE  DestroyingIsOffline'
  BY <1>16 DEF Collect
<1>17. ASSUME NEW h \in Handle, FreeObject(h)
     PROVE  DestroyingIsOffline'
  BY <1>17 DEF FreeObject
<1>18. ASSUME NEW h \in Handle, DropShutsDown(h)
     PROVE  DestroyingIsOffline'
  BY <1>18 DEF DropShutsDown
<1>19. ASSUME NEW h \in Handle, HeartbeatStarts(h)
     PROVE  DestroyingIsOffline'
  BY <1>19 DEF HeartbeatStarts
<1>20. ASSUME NEW h \in Handle, HeartbeatEnds(h)
     PROVE  DestroyingIsOffline'
  BY <1>20 DEF HeartbeatEnds
<1>21. ASSUME NEW h \in Handle, GossipEnds(h)
     PROVE  DestroyingIsOffline'
  BY <1>21 DEF GossipEnds
<1>22. CASE UNCHANGED vars
  BY <1>22 DEF vars
<1>23. QED
  BY <1>1, <1>2, <1>3, <1>4, <1>5, <1>6, <1>7, <1>8, <1>9, <1>10, <1>11,
     <1>12, <1>13, <1>14, <1>15, <1>16, <1>17, <1>18, <1>19, <1>20,
     <1>21, <1>22
  DEF Next, ThreadStep, TaskStep

\* A node that is over is stopped by somebody.
LEMMA OverStep ==
  Typed /\ Opening /\ StoppingIsAborted /\ OverIsStopped /\ [Next]_vars => OverIsStopped'
<1> SUFFICES ASSUME Typed, Opening, StoppingIsAborted, OverIsStopped, [Next]_vars
             PROVE  OverIsStopped'
  OBVIOUS
<1> USE NodeHandleAssumption, HandleFacts
    DEF Typed, Opening, OpenedByOne, At, Place, Unknown, StoppingIsAborted,
        OverIsStopped, Over, Offline
<1>1. ASSUME NEW t \in Thread, BeginOpen(t)
     PROVE  OverIsStopped'
  <2>1. Moved(t, "opening", opens', FALSE)
    BY <1>1, BeginOpenMoves
  <2> QED
    BY <1>1, <2>1 DEF BeginOpen, Moved
<1>2. ASSUME NEW t \in Thread, LockDirectory(t)
     PROVE  OverIsStopped'
  <2>1. IF lock = None THEN Moved(t, "binding", thread[t].handle, thread[t].late)
        ELSE Moved(t, "idle", None, FALSE)
    BY <1>2, LockDirectoryMoves
  <2> QED
    BY <1>2, <2>1 DEF LockDirectory, Moved
<1>3. ASSUME NEW t \in Thread, Bind(t)
     PROVE  OverIsStopped'
  <2>1. \/ Moved(t, "opened", thread[t].handle, thread[t].late)
      \/ Moved(t, "idle", None, FALSE)
    BY <1>3, BindMoves
  <2> QED
    BY <1>3, <2>1 DEF Bind, Moved
<1>4. ASSUME NEW t \in Thread, Deliver(t)
     PROVE  OverIsStopped'
  <2>1. Moved(t, "idle", None, FALSE)
    BY <1>4, DeliverMoves
  <2> QED
    BY <1>4, <2>1 DEF Deliver, Moved
<1>5. ASSUME NEW t \in Thread, OpenCancelled(t)
     PROVE  OverIsStopped'
  <2>1. Moved(t, "shutdown", thread[t].handle, thread[t].late)
    BY <1>5, OpenCancelledMoves
  <2> QED
    BY <1>5, <2>1 DEF OpenCancelled, Moved
<1>6. ASSUME NEW t \in Thread, Check(t)
     PROVE  OverIsStopped'
  <2>1. IF closed[thread[t].handle] THEN Moved(t, "idle", None, FALSE)
        ELSE Moved(t, "checked", thread[t].handle, thread[t].late)
    BY <1>6, CheckMoves
  <2> QED
    BY <1>6, <2>1 DEF Check, Moved
<1>7. ASSUME NEW t \in Thread, Enter(t)
     PROVE  OverIsStopped'
  <2>1. IF destroyed[thread[t].handle] THEN Moved(t, "idle", None, FALSE)
        ELSE Moved(t, "entered", thread[t].handle, thread[t].late)
    BY <1>7, EnterMoves
  <2> QED
    BY <1>7, <2>1 DEF Enter, Moved
<1>8. ASSUME NEW t \in Thread, Active(t)
     PROVE  OverIsStopped'
  <2>1. IF slot[thread[t].handle] THEN Moved(t, "using", thread[t].handle, thread[t].late)
        ELSE Moved(t, "idle", None, FALSE)
    BY <1>8, ActiveMoves
  <2> QED
    BY <1>8, <2>1 DEF Active, Moved
<1>9. ASSUME NEW t \in Thread, Take(t)
     PROVE  OverIsStopped'
  <2>1. Moved(t, "stopping", thread[t].handle, thread[t].late)
    BY <1>9, TakeMoves
  <2> QED
    BY <1>9, <2>1 DEF Take, Moved
<1>10. ASSUME NEW t \in Thread, Destroy(t)
     PROVE  OverIsStopped'
  <2>1. Moved(t, "idle", None, FALSE)
    BY <1>10, DestroyMoves
  <2> QED
    BY <1>10, <2>1 DEF Destroy, Moved
<1>11. ASSUME NEW t \in Thread, NEW h \in Handle, BeginCall(t, h)
     PROVE  OverIsStopped'
  <2>1. Moved(t, "io", h, closed[h])
    BY <1>11, BeginCallMoves
  <2> QED
    BY <1>11, <2>1 DEF BeginCall, Moved
<1>12. ASSUME NEW t \in Thread, NEW h \in Handle, BeginClose(t, h)
     PROVE  OverIsStopped'
  <2>1. Moved(t, "shutdown", h, FALSE)
    BY <1>12, BeginCloseMoves
  <2> QED
    BY <1>12, <2>1 DEF BeginClose, Moved
<1>13. ASSUME NEW t \in Thread, NEW h \in Handle, FinishCall(t, h)
     PROVE  OverIsStopped'
  <2>1. Moved(t, "idle", None, FALSE)
    BY <1>13, FinishCallMoves
  <2> QED
    BY <1>13, <2>1 DEF FinishCall, AbortWithLast, Moved
<1>14. ASSUME NEW t \in Thread, NEW h \in Handle, StopRouter(t, h)
     PROVE  OverIsStopped'
  <2>1. Moved(t, "destroying", thread[t].handle, thread[t].late)
    BY <1>14, StopRouterMoves
  <2> QED
    BY <1>14, <2>1 DEF StopRouter, AbortWithLast, Moved
<1>15. ASSUME NEW h \in Handle, Forget(h)
     PROVE  OverIsStopped'
  BY <1>15 DEF Forget
<1>16. ASSUME NEW h \in Handle, Collect(h)
     PROVE  OverIsStopped'
  BY <1>16 DEF Collect
<1>17. ASSUME NEW h \in Handle, FreeObject(h)
     PROVE  OverIsStopped'
  BY <1>17 DEF FreeObject
<1>18. ASSUME NEW h \in Handle, DropShutsDown(h)
     PROVE  OverIsStopped'
  BY <1>18 DEF DropShutsDown
<1>19. ASSUME NEW h \in Handle, HeartbeatStarts(h)
     PROVE  OverIsStopped'
  BY <1>19 DEF HeartbeatStarts
<1>20. ASSUME NEW h \in Handle, HeartbeatEnds(h)
     PROVE  OverIsStopped'
  BY <1>20 DEF HeartbeatEnds
<1>21. ASSUME NEW h \in Handle, GossipEnds(h)
     PROVE  OverIsStopped'
  BY <1>21 DEF GossipEnds
<1>22. CASE UNCHANGED vars
  BY <1>22 DEF vars
<1>23. QED
  BY <1>1, <1>2, <1>3, <1>4, <1>5, <1>6, <1>7, <1>8, <1>9, <1>10, <1>11,
     <1>12, <1>13, <1>14, <1>15, <1>16, <1>17, <1>18, <1>19, <1>20,
     <1>21, <1>22
  DEF Next, ThreadStep, TaskStep

\* Closing comes before destroying.
LEMMA OpenWorksStep ==
  Typed /\ Opening /\ CloserIsClosing /\ OpenWorks /\ [Next]_vars => OpenWorks'
<1> SUFFICES ASSUME Typed, Opening, CloserIsClosing, OpenWorks, [Next]_vars
             PROVE  OpenWorks'
  OBVIOUS
<1> USE NodeHandleAssumption, HandleFacts
    DEF Typed, Opening, OpenedByOne, At, Place, Unknown, CloserIsClosing, OpenWorks,
        Over
<1>1. ASSUME NEW t \in Thread, BeginOpen(t)
     PROVE  OpenWorks'
  <2>1. Moved(t, "opening", opens', FALSE)
    BY <1>1, BeginOpenMoves
  <2> QED
    BY <1>1, <2>1 DEF BeginOpen, Moved
<1>2. ASSUME NEW t \in Thread, LockDirectory(t)
     PROVE  OpenWorks'
  <2>1. IF lock = None THEN Moved(t, "binding", thread[t].handle, thread[t].late)
        ELSE Moved(t, "idle", None, FALSE)
    BY <1>2, LockDirectoryMoves
  <2> QED
    BY <1>2, <2>1 DEF LockDirectory, Moved
<1>3. ASSUME NEW t \in Thread, Bind(t)
     PROVE  OpenWorks'
  <2>1. \/ Moved(t, "opened", thread[t].handle, thread[t].late)
      \/ Moved(t, "idle", None, FALSE)
    BY <1>3, BindMoves
  <2> QED
    BY <1>3, <2>1 DEF Bind, Moved
<1>4. ASSUME NEW t \in Thread, Deliver(t)
     PROVE  OpenWorks'
  <2>1. Moved(t, "idle", None, FALSE)
    BY <1>4, DeliverMoves
  <2> QED
    BY <1>4, <2>1 DEF Deliver, Moved
<1>5. ASSUME NEW t \in Thread, OpenCancelled(t)
     PROVE  OpenWorks'
  <2>1. Moved(t, "shutdown", thread[t].handle, thread[t].late)
    BY <1>5, OpenCancelledMoves
  <2> QED
    BY <1>5, <2>1 DEF OpenCancelled, Moved
<1>6. ASSUME NEW t \in Thread, Check(t)
     PROVE  OpenWorks'
  <2>1. IF closed[thread[t].handle] THEN Moved(t, "idle", None, FALSE)
        ELSE Moved(t, "checked", thread[t].handle, thread[t].late)
    BY <1>6, CheckMoves
  <2> QED
    BY <1>6, <2>1 DEF Check, Moved
<1>7. ASSUME NEW t \in Thread, Enter(t)
     PROVE  OpenWorks'
  <2>1. IF destroyed[thread[t].handle] THEN Moved(t, "idle", None, FALSE)
        ELSE Moved(t, "entered", thread[t].handle, thread[t].late)
    BY <1>7, EnterMoves
  <2> QED
    BY <1>7, <2>1 DEF Enter, Moved
<1>8. ASSUME NEW t \in Thread, Active(t)
     PROVE  OpenWorks'
  <2>1. IF slot[thread[t].handle] THEN Moved(t, "using", thread[t].handle, thread[t].late)
        ELSE Moved(t, "idle", None, FALSE)
    BY <1>8, ActiveMoves
  <2> QED
    BY <1>8, <2>1 DEF Active, Moved
<1>9. ASSUME NEW t \in Thread, Take(t)
     PROVE  OpenWorks'
  <2>1. Moved(t, "stopping", thread[t].handle, thread[t].late)
    BY <1>9, TakeMoves
  <2> QED
    BY <1>9, <2>1 DEF Take, Moved
<1>10. ASSUME NEW t \in Thread, Destroy(t)
     PROVE  OpenWorks'
  <2>1. Moved(t, "idle", None, FALSE)
    BY <1>10, DestroyMoves
  <2> QED
    BY <1>10, <2>1 DEF Destroy, Moved
<1>11. ASSUME NEW t \in Thread, NEW h \in Handle, BeginCall(t, h)
     PROVE  OpenWorks'
  <2>1. Moved(t, "io", h, closed[h])
    BY <1>11, BeginCallMoves
  <2> QED
    BY <1>11, <2>1 DEF BeginCall, Moved
<1>12. ASSUME NEW t \in Thread, NEW h \in Handle, BeginClose(t, h)
     PROVE  OpenWorks'
  <2>1. Moved(t, "shutdown", h, FALSE)
    BY <1>12, BeginCloseMoves
  <2> QED
    BY <1>12, <2>1 DEF BeginClose, Moved
<1>13. ASSUME NEW t \in Thread, NEW h \in Handle, FinishCall(t, h)
     PROVE  OpenWorks'
  <2>1. Moved(t, "idle", None, FALSE)
    BY <1>13, FinishCallMoves
  <2> QED
    BY <1>13, <2>1 DEF FinishCall, Moved
<1>14. ASSUME NEW t \in Thread, NEW h \in Handle, StopRouter(t, h)
     PROVE  OpenWorks'
  <2>1. Moved(t, "destroying", thread[t].handle, thread[t].late)
    BY <1>14, StopRouterMoves
  <2> QED
    BY <1>14, <2>1 DEF StopRouter, Moved
<1>15. ASSUME NEW h \in Handle, Forget(h)
     PROVE  OpenWorks'
  BY <1>15 DEF Forget
<1>16. ASSUME NEW h \in Handle, Collect(h)
     PROVE  OpenWorks'
  BY <1>16 DEF Collect
<1>17. ASSUME NEW h \in Handle, FreeObject(h)
     PROVE  OpenWorks'
  BY <1>17 DEF FreeObject
<1>18. ASSUME NEW h \in Handle, DropShutsDown(h)
     PROVE  OpenWorks'
  BY <1>18 DEF DropShutsDown
<1>19. ASSUME NEW h \in Handle, HeartbeatStarts(h)
     PROVE  OpenWorks'
  BY <1>19 DEF HeartbeatStarts
<1>20. ASSUME NEW h \in Handle, HeartbeatEnds(h)
     PROVE  OpenWorks'
  BY <1>20 DEF HeartbeatEnds
<1>21. ASSUME NEW h \in Handle, GossipEnds(h)
     PROVE  OpenWorks'
  BY <1>21 DEF GossipEnds
<1>22. CASE UNCHANGED vars
  BY <1>22 DEF vars
<1>23. QED
  BY <1>1, <1>2, <1>3, <1>4, <1>5, <1>6, <1>7, <1>8, <1>9, <1>10, <1>11,
     <1>12, <1>13, <1>14, <1>15, <1>16, <1>17, <1>18, <1>19, <1>20,
     <1>21, <1>22
  DEF Next, ThreadStep, TaskStep

\* A destroyed node that was closed stays off the network.
LEMMA OfflineStep ==
  Typed /\ Opening /\ Closing /\ ClosedIsOffline /\ [Next]_vars => ClosedIsOffline'
<1> SUFFICES ASSUME Typed, Opening, Closing, ClosedIsOffline, [Next]_vars
             PROVE  ClosedIsOffline'
  OBVIOUS
<1> USE NodeHandleAssumption, HandleFacts
    DEF Typed, Opening, OpenedByOne, At, Place, Unknown, Closing, StoppingIsAborted,
        DestroyingIsOffline, OverIsStopped, OpenWorks, ClosedIsOffline, Over,
        Offline
<1>1. ASSUME NEW t \in Thread, BeginOpen(t)
     PROVE  ClosedIsOffline'
  <2>1. Moved(t, "opening", opens', FALSE)
    BY <1>1, BeginOpenMoves
  <2> QED
    BY <1>1, <2>1 DEF BeginOpen, Moved
<1>2. ASSUME NEW t \in Thread, LockDirectory(t)
     PROVE  ClosedIsOffline'
  <2>1. IF lock = None THEN Moved(t, "binding", thread[t].handle, thread[t].late)
        ELSE Moved(t, "idle", None, FALSE)
    BY <1>2, LockDirectoryMoves
  <2> QED
    BY <1>2, <2>1 DEF LockDirectory, Moved
<1>3. ASSUME NEW t \in Thread, Bind(t)
     PROVE  ClosedIsOffline'
  <2>1. \/ Moved(t, "opened", thread[t].handle, thread[t].late)
      \/ Moved(t, "idle", None, FALSE)
    BY <1>3, BindMoves
  <2> QED
    BY <1>3, <2>1 DEF Bind, Moved
<1>4. ASSUME NEW t \in Thread, Deliver(t)
     PROVE  ClosedIsOffline'
  <2>1. Moved(t, "idle", None, FALSE)
    BY <1>4, DeliverMoves
  <2> QED
    BY <1>4, <2>1 DEF Deliver, Moved
<1>5. ASSUME NEW t \in Thread, OpenCancelled(t)
     PROVE  ClosedIsOffline'
  <2>1. Moved(t, "shutdown", thread[t].handle, thread[t].late)
    BY <1>5, OpenCancelledMoves
  <2> QED
    BY <1>5, <2>1 DEF OpenCancelled, Moved
<1>6. ASSUME NEW t \in Thread, Check(t)
     PROVE  ClosedIsOffline'
  <2>1. IF closed[thread[t].handle] THEN Moved(t, "idle", None, FALSE)
        ELSE Moved(t, "checked", thread[t].handle, thread[t].late)
    BY <1>6, CheckMoves
  <2> QED
    BY <1>6, <2>1 DEF Check, Moved
<1>7. ASSUME NEW t \in Thread, Enter(t)
     PROVE  ClosedIsOffline'
  <2>1. IF destroyed[thread[t].handle] THEN Moved(t, "idle", None, FALSE)
        ELSE Moved(t, "entered", thread[t].handle, thread[t].late)
    BY <1>7, EnterMoves
  <2> QED
    BY <1>7, <2>1 DEF Enter, Moved
<1>8. ASSUME NEW t \in Thread, Active(t)
     PROVE  ClosedIsOffline'
  <2>1. IF slot[thread[t].handle] THEN Moved(t, "using", thread[t].handle, thread[t].late)
        ELSE Moved(t, "idle", None, FALSE)
    BY <1>8, ActiveMoves
  <2> QED
    BY <1>8, <2>1 DEF Active, Moved
<1>9. ASSUME NEW t \in Thread, Take(t)
     PROVE  ClosedIsOffline'
  <2>1. Moved(t, "stopping", thread[t].handle, thread[t].late)
    BY <1>9, TakeMoves
  <2> QED
    BY <1>9, <2>1 DEF Take, Moved
<1>10. ASSUME NEW t \in Thread, Destroy(t)
     PROVE  ClosedIsOffline'
  <2>1. Moved(t, "idle", None, FALSE)
    BY <1>10, DestroyMoves
  <2> QED
    BY <1>10, <2>1 DEF Destroy, Moved
<1>11. ASSUME NEW t \in Thread, NEW h \in Handle, BeginCall(t, h)
     PROVE  ClosedIsOffline'
  <2>1. Moved(t, "io", h, closed[h])
    BY <1>11, BeginCallMoves
  <2> QED
    BY <1>11, <2>1 DEF BeginCall, Moved
<1>12. ASSUME NEW t \in Thread, NEW h \in Handle, BeginClose(t, h)
     PROVE  ClosedIsOffline'
  <2>1. Moved(t, "shutdown", h, FALSE)
    BY <1>12, BeginCloseMoves
  <2> QED
    BY <1>12, <2>1 DEF BeginClose, Moved
<1>13. ASSUME NEW t \in Thread, NEW h \in Handle, FinishCall(t, h)
     PROVE  ClosedIsOffline'
  <2>1. Moved(t, "idle", None, FALSE)
    BY <1>13, FinishCallMoves
  <2> QED
    BY <1>13, <2>1 DEF FinishCall, AbortWithLast, Moved
<1>14. ASSUME NEW t \in Thread, NEW h \in Handle, StopRouter(t, h)
     PROVE  ClosedIsOffline'
  <2>1. Moved(t, "destroying", thread[t].handle, thread[t].late)
    BY <1>14, StopRouterMoves
  <2> QED
    BY <1>14, <2>1 DEF StopRouter, AbortWithLast, Moved
<1>15. ASSUME NEW h \in Handle, Forget(h)
     PROVE  ClosedIsOffline'
  BY <1>15 DEF Forget
<1>16. ASSUME NEW h \in Handle, Collect(h)
     PROVE  ClosedIsOffline'
  BY <1>16 DEF Collect
<1>17. ASSUME NEW h \in Handle, FreeObject(h)
     PROVE  ClosedIsOffline'
  BY <1>17 DEF FreeObject
<1>18. ASSUME NEW h \in Handle, DropShutsDown(h)
     PROVE  ClosedIsOffline'
  BY <1>18 DEF DropShutsDown
<1>19. ASSUME NEW h \in Handle, HeartbeatStarts(h)
     PROVE  ClosedIsOffline'
  BY <1>19 DEF HeartbeatStarts
<1>20. ASSUME NEW h \in Handle, HeartbeatEnds(h)
     PROVE  ClosedIsOffline'
  BY <1>20 DEF HeartbeatEnds
<1>21. ASSUME NEW h \in Handle, GossipEnds(h)
     PROVE  ClosedIsOffline'
  BY <1>21 DEF GossipEnds
<1>22. CASE UNCHANGED vars
  BY <1>22 DEF vars
<1>23. QED
  BY <1>1, <1>2, <1>3, <1>4, <1>5, <1>6, <1>7, <1>8, <1>9, <1>10, <1>11,
     <1>12, <1>13, <1>14, <1>15, <1>16, <1>17, <1>18, <1>19, <1>20,
     <1>21, <1>22
  DEF Next, ThreadStep, TaskStep

-----------------------------------------------------------------------------
(* Theorems *)

\* The invariant holds before the first open.
LEMMA HandleInit == Init => HandleInv
<1> SUFFICES ASSUME Init PROVE HandleInv
  OBVIOUS
<1>1. \A t \in Thread :
        thread[t].at = "idle" /\ thread[t].handle = None /\ thread[t].late = FALSE
  BY DEF Init, Rest
<1>2. thread \in [Thread -> ThreadState]
  BY DEF Init, Rest, ThreadState, Place
<1>3. \A h \in Handle : Unknown(h) /\ Empty(h)
  BY DEF Init, Unknown, Empty
<1>4. Typed
  BY <1>1, <1>2, NodeHandleAssumption DEF Init, Typed
<1>5. Opening
  BY <1>1, <1>3, HandleFacts DEF Opening, NotOpened, OpenedByOne, NotStarted
<1>6. LockIsHeld
  BY <1>1, <1>3, HandleFacts DEF Init, LockIsHeld, Held, NodeAlive, Empty, At
<1>7. LateStops
  BY <1>1 DEF LateStops
<1>8. \A h \in Handle : ~Over(h)
  BY DEF Init, Over
<1>9. Closing
  BY <1>1, <1>3, <1>8
  DEF Closing, CloserIsClosing, StoppingIsAborted, DestroyingIsOffline, OverIsStopped,
      OpenWorks, Unknown
<1>10. ClosedIsOffline
  BY <1>3 DEF ClosedIsOffline, Unknown
<1> QED
  BY <1>4, <1>5, <1>6, <1>7, <1>9, <1>10 DEF HandleInv

\* Every step keeps the invariant.
LEMMA HandleStep == HandleInv /\ [Next]_vars => HandleInv'
<1> SUFFICES ASSUME HandleInv, [Next]_vars PROVE HandleInv'
  OBVIOUS
<1> USE DEF HandleInv
<1>1. Typed'
  BY TypeStep
<1>2. Opening'
  BY NotOpenedStep, OpenedByOneStep, NotStartedStep DEF Opening
<1>3. LockIsHeld' /\ LateStops'
  BY LockStep, LateStep
<1>4. Closing'
  BY CloserStep, StoppingStep, DestroyingStep, OverStep, OpenWorksStep DEF Closing
<1>5. ClosedIsOffline'
  BY OfflineStep
<1> QED
  BY <1>1, <1>2, <1>3, <1>4, <1>5

\* The invariant holds of every behaviour.
LEMMA HandleInvariant == Spec => []HandleInv
  BY HandleInit, HandleStep, PTL DEF Spec

\* The handles and threads keep their types, and the directory is locked exactly
\* while something refers to the node that opened it: a node that shuts down
\* gives it back with its last reference and no earlier (ffi/src/node.rs:150).
THEOREM HandleTypes == Spec => []TypeOK
<1>1. HandleInv => TypeOK
  BY DEF HandleInv, Typed, LockIsHeld, TypeOK, ThreadState, Place
<1> QED
  BY <1>1, HandleInvariant, PTL

\* No call that began after the handle was closed reaches the node
\* (SpiritNode.kt:40).
THEOREM HandleClosedIsFinal == Spec => []ClosedIsFinal
<1>1. HandleInv => ClosedIsFinal
  BY DEF HandleInv, LateStops, ClosedIsFinal, At
<1> QED
  BY <1>1, HandleInvariant, PTL

\* A node that was closed or cancelled, and destroyed, is off the network and
\* stays off it (ffi/src/node.rs:157).
THEOREM HandleClosedIsOffline == Spec => []ClosedIsOffline
  BY HandleInvariant, PTL DEF HandleInv
=============================================================================
