------------------------------ MODULE NodeHandle ------------------------------
(* The life of a node behind its handles: the SpiritNode of the Kotlin SDK,   *)
(* the uniffi object it calls, and the Rust node with the tasks it spawned.   *)
(* Threads open a node on one directory, call it, close it and open it again, *)
(* each in steps that interleave.  The directory stays locked until the last  *)
(* reference to the node's shared state is gone, whoever holds it: the handle, *)
(* a call in flight, the gossip loop, a heartbeat, the router.                *)
(* What a call does to the node is in MeshNode and NodeDirectory.             *)
EXTENDS Naturals

CONSTANTS
  Thread,     \* threads of the application
  MaxOpens,   \* bound: nodes opened
  None

ASSUME NodeHandleAssumption == MaxOpens \in Nat /\ None \notin Nat

Handle == 1 .. MaxOpens

Task == {"gossip", "router", "heartbeat"}

VARIABLES
  opens,      \* nodes opened so far: their handles are numbered
  kotlin,     \* what the application has of each SpiritNode
  closed,     \* SpiritNode.closed, the Kotlin AtomicBoolean
  destroyed,  \* the uniffi object takes no more calls
  inside,     \* threads inside a call of the uniffi object
  slot,       \* the FFI's Mutex<Option<Arc<Node>>> holds the node
  arcs,       \* who holds a clone of the Arc<Node>, or took it
  aborted,    \* the gossip loop has been told to stop
  tasks,      \* spawned tasks, each with an Arc of the shared state
  lock,       \* the node that has the directory, or None
  thread      \* where each thread is, on which handle, and whether its call
              \* began after the handle was closed

vars == <<opens, kotlin, closed, destroyed, inside, slot, arcs, aborted,
          tasks, lock, thread>>

At(t, at) == thread[t].at = at

Go(t, at) == thread' = [thread EXCEPT ![t].at = at]

Rest == [at |-> "idle", handle |-> None, late |-> FALSE]

Return(t) == thread' = [thread EXCEPT ![t] = Rest]

\* Some Arc<Node> is left.  Dropping the last one aborts the gossip loop
\* (Node::drop) and the router (iroh).
NodeAlive(h) == slot[h] \/ arcs[h] # {}

\* Some Arc<Shared> is left, or the thread that opens the directory has it.
Held(h) ==
  \/ NodeAlive(h) \/ tasks[h] # {}
  \/ \E t \in Thread : At(t, "binding") /\ thread[t].handle = h

Init ==
  /\ opens = 0
  /\ kotlin = [h \in Handle |-> "none"]
  /\ closed = [h \in Handle |-> FALSE]
  /\ destroyed = [h \in Handle |-> FALSE]
  /\ inside = [h \in Handle |-> {}]
  /\ slot = [h \in Handle |-> FALSE]
  /\ arcs = [h \in Handle |-> {}]
  /\ aborted = [h \in Handle |-> FALSE]
  /\ tasks = [h \in Handle |-> {}]
  /\ lock = None
  /\ thread = [t \in Thread |-> Rest]

-----------------------------------------------------------------------------
(* Opening *)

\* SpiritNode.open, on the dispatcher.
BeginOpen(t) ==
  /\ At(t, "idle") /\ opens < MaxOpens
  /\ opens' = opens + 1
  /\ thread' = [thread EXCEPT ![t] = [at |-> "opening", handle |-> opens', late |-> FALSE]]
  /\ UNCHANGED <<kotlin, closed, destroyed, inside, slot, arcs, aborted, tasks, lock>>

\* Storage::open: "node is already running" while the directory is locked.
LockDirectory(t) ==
  /\ At(t, "opening")
  /\ \/ lock = None /\ lock' = thread[t].handle /\ Go(t, "binding")
     \/ lock # None /\ Return(t) /\ UNCHANGED lock
  /\ UNCHANGED <<opens, kotlin, closed, destroyed, inside, slot, arcs, aborted, tasks>>

\* The rest of Node::bind, which may fail and then drops the storage.
Bind(t) ==
  LET h == thread[t].handle IN
  /\ At(t, "binding")
  /\ \/ /\ slot' = [slot EXCEPT ![h] = TRUE]
        /\ tasks' = [tasks EXCEPT ![h] = {"gossip", "router"}]
        /\ Go(t, "opened")
        /\ UNCHANGED lock
     \/ /\ lock' = None
        /\ Return(t)
        /\ UNCHANGED <<slot, tasks>>
  /\ UNCHANGED <<opens, kotlin, closed, destroyed, inside, arcs, aborted>>

Deliver(t) ==
  /\ At(t, "opened")
  /\ kotlin' = [kotlin EXCEPT ![thread[t].handle] = "open"]
  /\ Return(t)
  /\ UNCHANGED <<opens, closed, destroyed, inside, slot, arcs, aborted, tasks, lock>>

\* Faulty variant: a cancelled open leaves what it opened to the collector.
OpenCancelledLeaking(t) ==
  /\ At(t, "opened")
  /\ kotlin' = [kotlin EXCEPT ![thread[t].handle] = "cancelled"]
  /\ Return(t)
  /\ UNCHANGED <<opens, closed, destroyed, inside, slot, arcs, aborted, tasks, lock>>

\* The caller was cancelled while the node was opened: withContext throws, and
\* the node is shut down and destroyed like one that is closed.
OpenCancelled(t) ==
  /\ At(t, "opened")
  /\ kotlin' = [kotlin EXCEPT ![thread[t].handle] = "cancelled"]
  /\ Go(t, "shutdown")
  /\ UNCHANGED <<opens, closed, destroyed, inside, slot, arcs, aborted, tasks, lock>>

-----------------------------------------------------------------------------
(* Calls: status, createMesh, pair, add and ping *)

BeginCall(t, h) ==
  /\ At(t, "idle") /\ kotlin[h] = "open"
  /\ thread' = [thread EXCEPT ![t] = [at |-> "io", handle |-> h, late |-> closed[h]]]
  /\ UNCHANGED <<opens, kotlin, closed, destroyed, inside, slot, arcs, aborted, tasks, lock>>

\* Faulty variant: the handle is not checked.
Unchecked(t) ==
  /\ At(t, "io")
  /\ Go(t, "checked")
  /\ UNCHANGED <<opens, kotlin, closed, destroyed, inside, slot, arcs, aborted, tasks, lock>>

\* check(!closed.get()) on the dispatcher.
Check(t) ==
  /\ At(t, "io")
  /\ IF closed[thread[t].handle] THEN Return(t) ELSE Go(t, "checked")
  /\ UNCHANGED <<opens, kotlin, closed, destroyed, inside, slot, arcs, aborted, tasks, lock>>

\* The uniffi object counts the calls in flight and refuses new ones once it is
\* destroyed.
Enter(t) ==
  LET h == thread[t].handle IN
  /\ At(t, "checked")
  /\ IF destroyed[h] THEN Return(t) /\ UNCHANGED inside
     ELSE Go(t, "entered") /\ inside' = [inside EXCEPT ![h] = @ \cup {t}]
  /\ UNCHANGED <<opens, kotlin, closed, destroyed, slot, arcs, aborted, tasks, lock>>

\* SpiritNode::active.
Active(t) ==
  LET h == thread[t].handle IN
  /\ At(t, "entered")
  /\ IF slot[h]
     THEN /\ arcs' = [arcs EXCEPT ![h] = @ \cup {t}]
          /\ Go(t, "using")
          /\ UNCHANGED inside
     ELSE /\ inside' = [inside EXCEPT ![h] = @ \ {t}]
          /\ Return(t)
          /\ UNCHANGED arcs
  /\ UNCHANGED <<opens, kotlin, closed, destroyed, slot, aborted, tasks, lock>>

Unlock(h) == lock' = IF lock = h /\ ~Held(h)' THEN None ELSE lock

\* The last Arc<Node> goes: Node::drop.
AbortWithLast(h) == aborted' = [aborted EXCEPT ![h] = @ \/ ~NodeAlive(h)']

\* The call succeeds or fails; its clone of the node goes either way.
FinishCall(t, h) ==
  /\ At(t, "using") /\ thread[t].handle = h
  /\ arcs' = [arcs EXCEPT ![h] = @ \ {t}]
  /\ inside' = [inside EXCEPT ![h] = @ \ {t}]
  /\ Return(t)
  /\ UNCHANGED <<opens, kotlin, closed, destroyed, slot, tasks>>
  /\ AbortWithLast(h) /\ Unlock(h)

-----------------------------------------------------------------------------
(* Closing *)

\* closed.compareAndSet; whoever loses returns at once.
BeginClose(t, h) ==
  /\ At(t, "idle") /\ kotlin[h] = "open" /\ ~closed[h]
  /\ closed' = [closed EXCEPT ![h] = TRUE]
  /\ thread' = [thread EXCEPT ![t] = [at |-> "shutdown", handle |-> h, late |-> FALSE]]
  /\ UNCHANGED <<opens, kotlin, destroyed, inside, slot, arcs, aborted, tasks, lock>>

\* Faulty variant: shutting down releases the directory at once.
TakeUnlocking(t) ==
  LET h == thread[t].handle IN
  /\ At(t, "shutdown") /\ slot[h]
  /\ inside' = [inside EXCEPT ![h] = @ \cup {t}]
  /\ slot' = [slot EXCEPT ![h] = FALSE]
  /\ arcs' = [arcs EXCEPT ![h] = @ \cup {t}]
  /\ aborted' = [aborted EXCEPT ![h] = TRUE]
  /\ lock' = None
  /\ Go(t, "stopping")
  /\ UNCHANGED <<opens, kotlin, closed, destroyed, tasks>>

\* SpiritNode::shutdown takes the node, and Node::shutdown aborts the gossip
\* loop without waiting for it.
Take(t) ==
  LET h == thread[t].handle IN
  /\ At(t, "shutdown") /\ slot[h]
  /\ inside' = [inside EXCEPT ![h] = @ \cup {t}]
  /\ slot' = [slot EXCEPT ![h] = FALSE]
  /\ arcs' = [arcs EXCEPT ![h] = @ \cup {t}]
  /\ aborted' = [aborted EXCEPT ![h] = TRUE]
  /\ Go(t, "stopping")
  /\ UNCHANGED <<opens, kotlin, closed, destroyed, tasks, lock>>

\* Faulty variant: the router is not waited for.
StopRouterLater(t, h) ==
  /\ At(t, "stopping") /\ thread[t].handle = h
  /\ arcs' = [arcs EXCEPT ![h] = @ \ {t}]
  /\ inside' = [inside EXCEPT ![h] = @ \ {t}]
  /\ Go(t, "destroying")
  /\ UNCHANGED <<opens, kotlin, closed, destroyed, slot, tasks>>
  /\ AbortWithLast(h) /\ Unlock(h)

\* router.shutdown() ends the handlers and closes the endpoint; the Arc<Node>
\* goes when the call returns, with an error or without.
StopRouter(t, h) ==
  /\ At(t, "stopping") /\ thread[t].handle = h
  /\ tasks' = [tasks EXCEPT ![h] = @ \ {"router"}]
  /\ arcs' = [arcs EXCEPT ![h] = @ \ {t}]
  /\ inside' = [inside EXCEPT ![h] = @ \ {t}]
  /\ Go(t, "destroying")
  /\ UNCHANGED <<opens, kotlin, closed, destroyed, slot>>
  /\ AbortWithLast(h) /\ Unlock(h)

\* ffi.close(), in the finally block.
Destroy(t) ==
  /\ At(t, "destroying")
  /\ destroyed' = [destroyed EXCEPT ![thread[t].handle] = TRUE]
  /\ Return(t)
  /\ UNCHANGED <<opens, kotlin, closed, inside, slot, arcs, aborted, tasks, lock>>

-----------------------------------------------------------------------------
(* Handles that nobody closes *)

\* The application drops a SpiritNode that no thread is in.
Forget(h) ==
  /\ kotlin[h] = "open" /\ ~closed[h]
  /\ \A t \in Thread : thread[t].handle # h
  /\ kotlin' = [kotlin EXCEPT ![h] = "forgotten"]
  /\ UNCHANGED <<opens, closed, destroyed, inside, slot, arcs, aborted, tasks, lock, thread>>

\* The collector finds an object that nobody refers to.
Collect(h) ==
  /\ \/ kotlin[h] = "forgotten"
     \/ kotlin[h] = "cancelled" /\ \A t \in Thread : thread[t].handle # h
  /\ ~destroyed[h]
  /\ destroyed' = [destroyed EXCEPT ![h] = TRUE]
  /\ UNCHANGED <<opens, kotlin, closed, inside, slot, arcs, aborted, tasks, lock, thread>>

\* The object is freed after the last call; its Drop has a task shut the node
\* down where nobody did.
FreeObject(h) ==
  /\ destroyed[h] /\ inside[h] = {} /\ slot[h]
  /\ slot' = [slot EXCEPT ![h] = FALSE]
  /\ arcs' = [arcs EXCEPT ![h] = @ \cup {"drop"}]
  /\ aborted' = [aborted EXCEPT ![h] = TRUE]
  /\ UNCHANGED <<opens, kotlin, closed, destroyed, inside, tasks, lock, thread>>

DropShutsDown(h) ==
  /\ "drop" \in arcs[h]
  /\ tasks' = [tasks EXCEPT ![h] = @ \ {"router"}]
  /\ arcs' = [arcs EXCEPT ![h] = @ \ {"drop"}]
  /\ UNCHANGED <<opens, kotlin, closed, destroyed, inside, slot, aborted, thread>>
  /\ Unlock(h)

-----------------------------------------------------------------------------
(* Tasks *)

HeartbeatStarts(h) ==
  /\ "gossip" \in tasks[h] /\ ~aborted[h] /\ "heartbeat" \notin tasks[h]
  /\ tasks' = [tasks EXCEPT ![h] = @ \cup {"heartbeat"}]
  /\ UNCHANGED <<opens, kotlin, closed, destroyed, inside, slot, arcs, aborted, lock, thread>>

\* It is done, or it was aborted with the JoinSet of the gossip loop.
HeartbeatEnds(h) ==
  /\ "heartbeat" \in tasks[h]
  /\ tasks' = [tasks EXCEPT ![h] = @ \ {"heartbeat"}]
  /\ UNCHANGED <<opens, kotlin, closed, destroyed, inside, slot, arcs, aborted, thread>>
  /\ Unlock(h)

\* An aborted task is dropped when the runtime gets to it.
GossipEnds(h) ==
  /\ "gossip" \in tasks[h] /\ aborted[h]
  /\ tasks' = [tasks EXCEPT ![h] = @ \ {"gossip"}]
  /\ UNCHANGED <<opens, kotlin, closed, destroyed, inside, slot, arcs, aborted, thread>>
  /\ Unlock(h)

TaskStep(h) == HeartbeatStarts(h) \/ HeartbeatEnds(h) \/ GossipEnds(h)

ThreadStep(t) ==
  \/ LockDirectory(t) \/ Bind(t) \/ Deliver(t) \/ OpenCancelled(t)
  \/ Check(t) \/ Enter(t) \/ Active(t) \/ Take(t) \/ Destroy(t)
  \/ \E h \in Handle : FinishCall(t, h) \/ StopRouter(t, h)

Next ==
  \/ \E t \in Thread :
       \/ BeginOpen(t) \/ ThreadStep(t)
       \/ \E h \in Handle : BeginCall(t, h) \/ BeginClose(t, h)
  \/ \E h \in Handle :
       \/ Forget(h) \/ Collect(h) \/ FreeObject(h) \/ DropShutsDown(h)
       \/ TaskStep(h)

Spec == Init /\ [][Next]_vars

\* What has begun goes on: requests time out, so every call ends, and the
\* runtime gets to every task.  Nothing makes the application close a handle,
\* and nothing makes the collector run.
FairSpec ==
  /\ Spec
  /\ \A t \in Thread : WF_vars(ThreadStep(t))
  /\ \A h \in Handle :
       /\ WF_vars(FreeObject(h)) /\ WF_vars(DropShutsDown(h))
       /\ WF_vars(HeartbeatEnds(h)) /\ WF_vars(GossipEnds(h))

-----------------------------------------------------------------------------
(* Properties *)

\* Handles, threads and tasks are in the states named above, and the directory
\* is locked for exactly the node that something still refers to.
TypeOK ==
  /\ opens \in 0 .. MaxOpens
  /\ kotlin \in [Handle -> {"none", "open", "cancelled", "forgotten"}]
  /\ {closed, destroyed, slot, aborted} \subseteq [Handle -> BOOLEAN]
  /\ inside \in [Handle -> SUBSET Thread]
  /\ arcs \in [Handle -> SUBSET (Thread \cup {"drop"})]
  /\ tasks \in [Handle -> SUBSET Task]
  /\ lock \in Handle \cup {None}
  /\ thread \in [Thread ->
       [at : {"idle", "opening", "binding", "opened", "io", "checked", "entered",
              "using", "shutdown", "stopping", "destroying"},
        handle : Handle \cup {None}, late : BOOLEAN]]
  /\ \A h \in Handle : Held(h) <=> lock = h

\* A call that began after the handle was closed never gets to the node, not
\* even while the thread that closes it has yet to take the node from the FFI
\* (SpiritNode.kt:40, ffi/src/node.rs:63).
ClosedIsFinal == \A t \in Thread : At(t, "using") => ~thread[t].late

\* When close, or the cleanup of a cancelled open, is done, the node is off the
\* network and starts no heartbeat, although calls that began earlier may still
\* be using it (ffi/src/node.rs:157).
ClosedIsOffline ==
  \A h \in Handle :
    destroyed[h] /\ (closed[h] \/ kotlin[h] = "cancelled") =>
      "router" \notin tasks[h] /\ aborted[h]

\* A node that was closed, or whose open was cancelled, lets go of its directory
\* in the end: no call in flight, second close, late heartbeat or forgotten
\* reference keeps it, so that it can be opened again (SpiritNode.kt:30).
DirectoryReleased ==
  \A h \in Handle :
    (closed[h] \/ kotlin[h] = "cancelled") ~> (lock # h)
=============================================================================
