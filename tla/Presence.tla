------------------------------- MODULE Presence -------------------------------
(* Presence and heartbeats of two devices of one mesh, and the address each  *)
(* keeps of the other.  Every node runs a gossip loop that wakes at every    *)
(* interval and, unless the last heartbeat is still under way, spawns a task *)
(* that exchanges membership with the peer and then pings it, all within a   *)
(* deadline.  A ping refreshes the presence on both sides.  Addresses travel *)
(* with the exchanged membership; a restarted node has a new one.            *)
(*                                                                           *)
(* Time is discrete: `Tick' lets one unit pass once nothing has to happen    *)
(* before it.  Computation and a prompt network take no time; the network     *)
(* may delay or lose heartbeats for ever, but only so many of one node in a  *)
(* row; a panicking task, a restart and a departure are bounded faults.      *)
(* Other devices of the mesh are environment: they forward addresses,        *)
(* current or old, and news of departures.  Error texts kept for diagnosis   *)
(* are left out, they do not influence anything.                             *)
EXTENDS Integers, FiniteSets

CONSTANTS
  Node,            \* the two devices
  None,            \* Option::None
  Interval,        \* HEARTBEAT_INTERVAL, 5 s
  Window,          \* CONNECTED_WINDOW, 60 s
  RequestTimeout,  \* NodeConfig.request_timeout, 10 s (3 s for local nodes)
  Discovery,       \* whether iroh finds a device by its id: not for local nodes
  MaxSlow,         \* bound: heartbeats in a row the network delays or loses
  MaxPanics,       \* bound: heartbeat tasks that panic
  MaxRestarts,     \* bound: restarts of each node
  MaxDepartures,   \* bound: devices leaving the mesh
  MaxFaults        \* bound: panics, restarts and departures together

ASSUME PresenceAssumption ==
  /\ IsFiniteSet(Node) /\ Cardinality(Node) = 2
  /\ None \notin Nat
  /\ Interval \in Nat /\ Interval >= 2
  /\ Window \in Nat /\ RequestTimeout \in Nat \ {0}
  /\ Discovery \subseteq BOOLEAN
  /\ {MaxSlow, MaxPanics, MaxRestarts, MaxDepartures, MaxFaults} \subseteq Nat

VARIABLES
  up,        \* the process runs
  discovery, \* ~NodeConfig.local of both nodes
  address,   \* of its endpoint: a new one for every run
  book,      \* State.addresses of the peer, kept in the state file
  standing,  \* what the node's records say of each device, see `Listed'
  seen,      \* age of Presence.received of the peer, Window when older
  timer,     \* time to the next tick of the gossip loop
  beat,      \* the heartbeat task for the peer, in_flight unless idle
  late,      \* at the node: a request whose sender has given up or crashed
  lost,      \* heartbeats of the node, up to now, that were not prompt in a row
  faults,    \* how many of each other kind there have been
  gone,      \* history: time since the peer was last up and enrolled
  route      \* history: time since the node's heartbeats can reach the peer

vars == <<up, discovery, address, book, standing, seen, timer, beat, late, lost,
          faults, gone, route>>

Peer(n) == CHOOSE m \in Node : m # n

\* Faulty variant: the deadline is the interval.
DeadlineIsInterval == Interval

\* tokio::time::timeout around a heartbeat.
Deadline == Interval - 1

\* The time a request may linger at the peer after its sender gave it up.
Grace == IF RequestTimeout > Deadline THEN RequestTimeout ELSE Deadline

\* A heartbeat gets through to a reachable peer in this time.
Settle == (MaxSlow + 1) * Interval + Deadline

-----------------------------------------------------------------------------
(* Membership, as module Standing has it: a device's records only ever move  *)
(* from admitted (even) to departed (odd) to readmitted, and merging keeps   *)
(* the later one.                                                            *)

Listed(s, k) == s[k] % 2 = 0

Later(s, t) == [k \in Node |-> IF s[k] > t[k] THEN s[k] ELSE t[k]]

\* The node is enrolled and its mesh lists the peer.
Lists(n) == \A k \in Node : Listed(standing[n], k)

\* Faulty variant: the window is closed.
ConnectedAtWindow(n) == Lists(n) /\ seen[n] # None /\ seen[n] <= Window

\* PeerStatus.connected, for the members that `peers' goes through.
Connected(n) == Lists(n) /\ seen[n] # None /\ seen[n] < Window

\* iroh connects to the address that the task read when it started.
Reaches(n) == up[Peer(n)] /\ (discovery \/ beat[n].to = address[Peer(n)])

\* The peer is up and a heartbeat started now would reach it.
Route(n) ==
  /\ \A k \in Node : up[k] /\ Lists(k)
  /\ discovery \/ book[n] = address[Peer(n)]
  /\ beat[n].stage # "panicked"

\* Faulty variant: the sender's address is taken only where there is none.
MergeIfMissing(n, snapshot, a) ==
  /\ \A k \in Node : Listed(snapshot, k)
  /\ standing' = [standing EXCEPT ![n] = Later(@, snapshot)]
  /\ book' = [book EXCEPT ![n] =
       IF Listed(standing'[n], Peer(n)) /\ @ = None THEN a ELSE @]

\* State::merge of a snapshot the peer sent with its address `a': it must
\* list both devices; only addresses of members are kept.
Merge(n, snapshot, a) ==
  /\ \A k \in Node : Listed(snapshot, k)
  /\ standing' = [standing EXCEPT ![n] = Later(@, snapshot)]
  /\ book' = [book EXCEPT ![n] =
                IF Listed(standing'[n], Peer(n)) THEN a ELSE None]

\* Another device's snapshot adds an address only where there is none.
Forwarded(n, a) == IF book[n] = None THEN a ELSE book[n]

Idle == [stage |-> "idle", to |-> None, left |-> 0, slow |-> FALSE,
         carries |-> None]

AllFaults == faults.panics + faults.departures + faults.restarts

MayFail == AllFaults < MaxFaults

InFlight(n) == beat[n].stage \in {"sync", "merged", "ping", "pong"}

-----------------------------------------------------------------------------
\* Both devices are enrolled and run; each may have learned an address of the
\* other from a third device, or none.
Init ==
  /\ up = [n \in Node |-> TRUE]
  /\ discovery \in Discovery
  /\ address = [n \in Node |-> 0]
  /\ book \in [Node -> {None, 0}]
  /\ standing = [n \in Node |-> [k \in Node |-> 0]]
  /\ seen = [n \in Node |-> None]
  /\ timer \in [Node -> 0 .. Interval - 1]
  /\ \E n \in Node : timer[n] = 0
  /\ beat = [n \in Node |-> Idle]
  /\ late = [n \in Node |-> None]
  /\ lost = [n \in Node |-> 0]
  /\ faults = [panics |-> 0, departures |-> 0, restarts |-> 0]
  /\ gone = [n \in Node |-> 0]
  /\ route = [n \in Node |-> 0]

-----------------------------------------------------------------------------
(* The gossip loop and the heartbeat task *)

\* interval.tick(): a peer whose last task is not joined is skipped.
GossipTick(n) ==
  /\ up[n] /\ timer[n] = 0
  /\ timer' = [timer EXCEPT ![n] = Interval]
  /\ IF Lists(n) /\ beat[n].stage = "idle"
     THEN \E s \in BOOLEAN :
            /\ s => lost[n] < MaxSlow
            /\ lost' = [lost EXCEPT ![n] = IF s THEN @ + 1 ELSE 0]
            /\ beat' = [beat EXCEPT ![n] =
                 [stage |-> "sync", to |-> book[n], left |-> Deadline,
                  slow |-> s, carries |-> standing[n]]]
     ELSE UNCHANGED <<lost, beat>>
  /\ UNCHANGED <<up, address, book, standing, seen, late, faults>>

\* Kind::Sync at the peer: it merges the snapshot and answers with its own.
ServeSync(n) ==
  LET m == Peer(n) IN
  /\ up[n] /\ beat[n].stage = "sync" /\ Reaches(n)
  /\ Listed(standing[m], m)
  /\ Merge(m, beat[n].carries, address[n])
  /\ beat' = [beat EXCEPT ![n].stage = "merged", ![n].to = address[m],
                          ![n].carries = standing'[m]]
  /\ UNCHANGED <<up, address, seen, timer, late, lost, faults>>

\* The answer is merged, and the ping gets a connection of its own.
FinishSync(n) ==
  /\ up[n] /\ beat[n].stage = "merged"
  /\ Merge(n, beat[n].carries, beat[n].to)
  /\ beat' = [beat EXCEPT ![n].stage = "ping", ![n].carries = None]
  /\ UNCHANGED <<up, address, seen, timer, late, lost, faults>>

\* Kind::Ping at the peer: the sender must be a member.
ServePing(n) ==
  LET m == Peer(n) IN
  /\ up[n] /\ beat[n].stage = "ping" /\ Reaches(n)
  /\ Lists(m)
  /\ seen' = [seen EXCEPT ![m] = 0]
  /\ beat' = [beat EXCEPT ![n].stage = "pong"]
  /\ UNCHANGED <<up, address, book, standing, timer, late, lost, faults>>

FinishPing(n) ==
  /\ up[n] /\ beat[n].stage = "pong"
  /\ seen' = [seen EXCEPT ![n] = 0]
  /\ beat' = [beat EXCEPT ![n].stage = "done"]
  /\ UNCHANGED <<up, address, book, standing, timer, late, lost, faults>>

\* The peer has the request and has not refused it.
Served(n) ==
  LET m == Peer(n) IN
  /\ Reaches(n)
  /\ beat[n].stage = "sync" => /\ Listed(standing[m], m)
                               /\ \A k \in Node : Listed(beat[n].carries, k)
  /\ beat[n].stage = "ping" => Lists(m)

\* A prompt heartbeat whose peer answers goes on without delay; any other may
\* fail at any time, and does at the deadline.
Prompt(n) ==
  /\ ~beat[n].slow
  /\ \/ beat[n].stage = "merged" /\ \A k \in Node : Listed(beat[n].carries, k)
     \/ beat[n].stage = "pong"
     \/ beat[n].stage \in {"sync", "ping"} /\ Served(n)

\* A request that is given up may still be under way to the peer, whose
\* handler goes on for at most the request timeout (bound: one at a time).
Lingering(n) ==
  LET m == Peer(n) IN
  {late[m]} \cup
    {[stage |-> st, from |-> address[n], carries |-> beat[n].carries,
      left |-> RequestTimeout] :
       st \in {beat[n].stage} \cap
              (IF Served(n) /\ late[m] = None THEN {"sync", "ping"} ELSE {})}

HeartbeatFails(n) ==
  /\ up[n] /\ InFlight(n) /\ ~Prompt(n)
  /\ \E l \in Lingering(n) : late' = [late EXCEPT ![Peer(n)] = l]
  /\ beat' = [beat EXCEPT ![n] = [Idle EXCEPT !.stage = "done"]]
  /\ UNCHANGED <<up, address, book, standing, seen, timer, lost, faults>>

\* The join of a task that panicked does not name the peer.
HeartbeatPanics(n) ==
  /\ up[n] /\ InFlight(n) /\ faults.panics < MaxPanics /\ MayFail
  /\ \E l \in Lingering(n) : late' = [late EXCEPT ![Peer(n)] = l]
  /\ faults' = [faults EXCEPT !.panics = @ + 1]
  /\ beat' = [beat EXCEPT ![n] = [Idle EXCEPT !.stage = "panicked"]]
  /\ UNCHANGED <<up, address, book, standing, seen, timer, lost>>

\* tasks.join_next().
Join(n) ==
  /\ up[n] /\ beat[n].stage = "done"
  /\ beat' = [beat EXCEPT ![n] = Idle]
  /\ UNCHANGED <<up, address, book, standing, seen, timer, late, lost, faults>>

\* The handler of a request that its sender gave up; a ping has passed the
\* check of membership.
ServeLate(n) ==
  /\ up[n] /\ late[n] # None
  /\ late' = [late EXCEPT ![n] = None]
  /\ \/ /\ late[n].stage = "sync"
        /\ Listed(standing[n], n)
        /\ Merge(n, late[n].carries, late[n].from)
        /\ UNCHANGED seen
     \/ /\ late[n].stage = "ping"
        /\ seen' = [seen EXCEPT ![n] = 0]
        /\ UNCHANGED <<book, standing>>
  /\ UNCHANGED <<up, address, timer, beat, lost, faults>>

-----------------------------------------------------------------------------
(* The rest of the node, and its environment *)

\* Faulty variant: presence outlives the run.
StopKeepingPresence(n) ==
  /\ up[n] /\ address[n] < MaxRestarts /\ MayFail
  /\ faults' = [faults EXCEPT !.restarts = @ + 1]
  /\ up' = [up EXCEPT ![n] = FALSE]
  /\ beat' = [beat EXCEPT ![n] = Idle]
  /\ timer' = [timer EXCEPT ![n] = 0]
  /\ lost' = [lost EXCEPT ![n] = 0]
  /\ \E l \in Lingering(n) : late' = [late EXCEPT ![n] = None, ![Peer(n)] = l]
  /\ UNCHANGED <<address, book, standing, seen>>

\* A node stops or crashes: presence and tasks go, the state file stays.
Stop(n) ==
  /\ up[n] /\ address[n] < MaxRestarts /\ MayFail
  /\ faults' = [faults EXCEPT !.restarts = @ + 1]
  /\ up' = [up EXCEPT ![n] = FALSE]
  /\ seen' = [seen EXCEPT ![n] = None]
  /\ beat' = [beat EXCEPT ![n] = Idle]
  /\ timer' = [timer EXCEPT ![n] = 0]
  /\ lost' = [lost EXCEPT ![n] = 0]
  /\ \E l \in Lingering(n) : late' = [late EXCEPT ![n] = None, ![Peer(n)] = l]
  /\ UNCHANGED <<address, book, standing>>

\* Node::bind: the first tick of an interval is immediate.
Start(n) ==
  /\ ~up[n]
  /\ up' = [up EXCEPT ![n] = TRUE]
  /\ address' = [address EXCEPT ![n] = @ + 1]
  /\ UNCHANGED <<book, standing, seen, timer, beat, late, lost, faults>>

\* Node::leave_mesh needs the directory, so the node does not run.
Leave(n) ==
  /\ ~up[n] /\ Listed(standing[n], n)
  /\ faults.departures < MaxDepartures /\ MayFail
  /\ standing' = [standing EXCEPT ![n][n] = @ + 1]
  /\ book' = [book EXCEPT ![n] = None]
  /\ faults' = [faults EXCEPT !.departures = @ + 1]
  /\ UNCHANGED <<up, address, seen, timer, beat, late, lost>>

\* Enrolment by a device that knows of the departure.
Rejoin(n) ==
  /\ up[n] /\ ~Listed(standing[n], n)
  /\ standing' = [standing EXCEPT ![n][n] = @ + 1]
  /\ \E a \in {None} \cup 0 .. address[Peer(n)] :
       book' = [book EXCEPT ![n] = a]
  /\ UNCHANGED <<up, address, seen, timer, beat, late, lost, faults>>

\* An exchange with a third device, which has heard of what the peer did up to
\* some point and knows an address of it, or none.
HearFromThird(n) ==
  LET m == Peer(n) IN
  /\ up[n] /\ Listed(standing[n], n)
  /\ \E s \in standing[n][m] .. standing[m][m], a \in {None} \cup 0 .. address[m] :
       /\ standing' = [standing EXCEPT ![n][m] = s]
       /\ book' = [book EXCEPT ![n] =
                     IF Listed(standing'[n], m) THEN Forwarded(n, a) ELSE None]
  /\ UNCHANGED <<up, address, seen, timer, beat, late, lost, faults>>

-----------------------------------------------------------------------------
(* Time *)

CanWait(n) ==
  up[n] =>
    /\ timer[n] > 0
    /\ beat[n].stage # "done"
    /\ InFlight(n) => beat[n].left > 0 /\ ~Prompt(n)

Capped(t, bound) == IF t < bound THEN t + 1 ELSE bound

Tick ==
  /\ \A n \in Node : CanWait(n)
  /\ timer' = [n \in Node |-> IF up[n] THEN timer[n] - 1 ELSE 0]
  /\ beat' = [n \in Node |->
       IF InFlight(n) THEN [beat[n] EXCEPT !.left = @ - 1] ELSE beat[n]]
  /\ late' = [n \in Node |->
       IF late[n] = None \/ late[n].left = 0 THEN None
       ELSE [late[n] EXCEPT !.left = @ - 1]]
  /\ seen' = [n \in Node |->
       IF seen[n] = None THEN None ELSE Capped(seen[n], Window)]
  /\ UNCHANGED <<up, address, book, standing, lost, faults>>

\* The peer is up and enrolled.
PeerPresent(n) == up[Peer(n)] /\ Listed(standing[Peer(n)], Peer(n))

NodeStep(n) ==
  \/ GossipTick(n) \/ ServeSync(n) \/ FinishSync(n) \/ ServePing(n)
  \/ FinishPing(n) \/ HeartbeatFails(n) \/ HeartbeatPanics(n) \/ Join(n)
  \/ ServeLate(n) \/ Stop(n) \/ Start(n) \/ Leave(n) \/ Rejoin(n)
  \/ HearFromThird(n)

Next ==
  /\ UNCHANGED discovery
  /\ \/ /\ Tick
        /\ gone' = [n \in Node |->
             IF PeerPresent(n) THEN 0 ELSE Capped(gone[n], Window + Grace)]
        /\ route' = [n \in Node |->
             IF Route(n) THEN Capped(route[n], RequestTimeout + Settle) ELSE 0]
     \/ /\ \E n \in Node : NodeStep(n)
        /\ gone' = [n \in Node |-> IF PeerPresent(n)' THEN 0 ELSE gone[n]]
        /\ route' = [n \in Node |-> IF Route(n)' THEN route[n] ELSE 0]

Spec == Init /\ [][Next]_vars

-----------------------------------------------------------------------------
(* Properties *)

Time(bound) == 0 .. bound

Standings == [Node -> Time(2 * MaxDepartures + 1)]

\* Ages, deadlines and addresses stay within their bounds, and nothing of a
\* node that is down is left in memory.
TypeOK ==
  /\ up \in [Node -> BOOLEAN]
  /\ discovery \in Discovery
  /\ address \in [Node -> Time(MaxRestarts)]
  /\ book \in [Node -> Time(MaxRestarts) \cup {None}]
  /\ standing \in [Node -> Standings]
  /\ seen \in [Node -> Time(Window) \cup {None}]
  /\ timer \in [Node -> Time(Interval)]
  /\ beat \in [Node -> [
       stage : {"idle", "sync", "merged", "ping", "pong", "done", "panicked"},
       to : Time(MaxRestarts) \cup {None}, left : Time(Deadline),
       slow : BOOLEAN, carries : Standings \cup {None}]]
  /\ late \in [Node -> {None} \cup [
       stage : {"sync", "ping"}, from : Time(MaxRestarts),
       carries : Standings \cup {None}, left : Time(RequestTimeout)]]
  /\ lost \in [Node -> Time(MaxSlow)]
  /\ faults \in [panics : Time(MaxPanics), departures : Time(MaxDepartures),
                  restarts : Time(MaxFaults)]
  /\ gone \in [Node -> Time(Window + Grace)]
  /\ route \in [Node -> Time(RequestTimeout + Settle)]
  /\ \A n \in Node : ~up[n] => beat[n] = Idle /\ seen[n] = None /\ late[n] = None

\* While one of two enrolled devices can reach the other, both show each other
\* connected: from the time a heartbeat needs, and from then on, although some
\* heartbeats are lost or late and a task that panicked is never started again
\* (network.rs:319).
ConnectedWhileReachable ==
  \A n \in Node : route[n] >= Settle => Connected(n) /\ Connected(Peer(n))

\* A device that stopped or left the mesh is no longer shown connected when
\* the window has passed, plus the time that a handler may still take: no late
\* ping, and no ping that was checked before the departure was merged, keeps
\* it connected any longer (network.rs:249, presence.rs:33).
GoneIsNoticed ==
  \A n \in Node : gone[n] >= Window + Grace => ~Connected(n)

\* A device that reaches its peer has its current address there: neither a
\* third device that forwards an old address nor a late request of an earlier
\* run keeps it wrong (storage.rs:260).
AddressRecovers ==
  \A n \in Node :
    route[n] >= RequestTimeout + Settle => book[Peer(n)] = address[n]
=============================================================================
