---------------------------- MODULE PresenceProofs ----------------------------
(* Proofs about Presence for any interval, window, deadline and number of    *)
(* faults: how old what a node knows of its peer can be follows from the     *)
(* timers of the two, and from nothing that happens to be in scope of a run. *)
EXTENDS Presence, FiniteSetTheorems, TLAPS

\* A heartbeat under way ends before the next tick of the gossip loop, and its
\* task is joined before that tick.
Running(n) ==
  /\ InFlight(n) => beat[n].left + 1 = timer[n]
  /\ beat[n].stage = "done" => timer[n] # 0
  /\ beat[n].stage \in {"sync", "merged"} => beat[n].carries \in Standings
  /\ ~up[n] => address[n] < MaxRestarts

\* It is of a member that runs.
Enrolled(n) == InFlight(n) => up[n] /\ Listed(standing[n], n)

\* Nobody knows more of a device than the device itself.
Known(s) == \A k \in Node : s[k] <= standing[k][k]

Knowledge ==
  \A n \in Node :
    /\ standing[n][n] <= 2 * faults.departures
    /\ Known(standing[n])
    /\ beat[n].stage \in {"sync", "merged"} => Known(beat[n].carries)
    /\ late[n] # None /\ late[n].stage = "sync" =>
         late[n].carries \in Standings /\ Known(late[n].carries)

\* The histories start again when what they measure does.
Measured(n) ==
  /\ ~Route(n) => route[n] = 0
  /\ PeerPresent(n) => gone[n] = 0

\* A prompt heartbeat that will refresh the presence at k without delay.
Refreshes(n, k) ==
  /\ ~beat[n].slow
  /\ beat[n].stage \in {"sync", "merged", "ping"} \cup (IF k = n THEN {"pong"} ELSE {})
  /\ beat[n].stage \in {"sync", "merged"} => \A j \in Node : Listed(beat[n].carries, j)
  /\ discovery \/ beat[n].to = address[Peer(n)]
  /\ timer[n] = Interval

\* The time in which a number of heartbeats may be lost, one after another.
Span(losses) == (losses + 1) * Interval

\* The presence at k is no older than this, or the route is.
Fresh(n, k, age) == route[n] <= age \/ (seen[k] # None /\ seen[k] <= age)

Refreshed(n, k) ==
  \/ Fresh(n, k, Span(lost[n]) - timer[n])
  \/ Refreshes(n, k) /\ Fresh(n, k, Span(MaxSlow))

\* Old addresses of the node at its peer are used up in time.
Outdated(n) ==
  LET m == Peer(n) IN
  /\ late[m] # None /\ late[m].stage = "sync" /\ late[m].from # address[n] =>
       route[n] + late[m].left <= RequestTimeout
  /\ beat[m].stage = "merged" /\ beat[m].to # address[n] =>
       route[n] + beat[m].left <= Deadline

\* Then the next prompt heartbeat brings the current one.
Learned(n) ==
  \/ book[Peer(n)] = address[n]
  \/ route[n] + timer[n] <= Grace + Span(lost[n])
  \/ /\ Refreshes(n, n) /\ beat[n].stage = "sync"
     /\ route[n] <= Grace + Span(MaxSlow)

\* A ping that is still to be counted was sent when the peer was there.
Lingers(n) ==
  /\ late[n] # None => gone[n] + late[n].left <= RequestTimeout
  /\ beat[n].stage = "pong" => gone[n] + beat[n].left <= Deadline
  /\ seen[n] # None => gone[n] <= seen[n] + Grace

PresenceInv ==
  /\ TypeOK /\ Knowledge
  /\ \A n \in Node : /\ Running(n) /\ Enrolled(n) /\ Measured(n)
                     /\ Outdated(n) /\ Learned(n) /\ Lingers(n)
  /\ \A n, k \in Node : Refreshed(n, k)

\* The heartbeats that the network may lose in a row are fewer than the window
\* has room for: with 5 s and 60 s, ten of them.
WindowOutlastsLosses == Span(MaxSlow) < Window

-----------------------------------------------------------------------------
(* Nodes and numbers *)

\* Each of the two devices is the peer of the other.
LEMMA Peers ==
  \A n \in Node : /\ Peer(n) \in Node /\ Peer(n) # n /\ Peer(Peer(n)) = n
                  /\ \A k \in Node : k = n \/ k = Peer(n)
<1>1. \A n \in Node : \E m : Node \ {n} = {m}
  <2> TAKE n \in Node
  <2>1. IsFiniteSet(Node \ {n}) /\ Cardinality(Node \ {n}) = 1
    BY PresenceAssumption, FS_RemoveElement
  <2> QED
    BY <2>1, FS_Singleton
<1>2. \A n \in Node : Node \ {n} = {Peer(n)}
  BY <1>1 DEF Peer
<1> QED
  BY <1>2

\* The spans of lost heartbeats are numbers that grow by an interval each.
LEMMA Spans ==
  /\ \A i \in Nat : Span(i) \in Nat /\ Span(i) >= Interval
  /\ \A i \in Nat : Span(i + 1) = Span(i) + Interval
  /\ \A i, j \in Nat : i <= j => Span(i) <= Span(j)
<1>1. \A i \in Nat : Span(i) \in Nat /\ Span(i) >= Interval
  BY PresenceAssumption DEF Span
<1>2. \A i \in Nat : Span(i + 1) = Span(i) + Interval
  BY PresenceAssumption DEF Span
<1>3. \A i, j \in Nat : i <= j => Span(i) <= Span(j)
  BY PresenceAssumption DEF Span
<1> QED
  BY <1>1, <1>2, <1>3

\* The deadlines.
LEMMA Deadlines ==
  /\ Deadline \in Nat /\ Deadline >= 1 /\ Interval = Deadline + 1
  /\ RequestTimeout \in Nat /\ RequestTimeout >= 1 /\ Window \in Nat
  /\ Grace \in Nat /\ Grace >= Deadline /\ Grace >= RequestTimeout
  /\ Grace = Deadline \/ Grace = RequestTimeout
  /\ Settle \in Nat /\ Settle = Span(MaxSlow) + Deadline
  /\ MaxSlow \in Nat /\ MaxPanics \in Nat /\ MaxRestarts \in Nat
  /\ MaxDepartures \in Nat /\ MaxFaults \in Nat
  /\ None \notin Nat
<1>1. MaxSlow \in Nat /\ Interval \in Nat
  BY PresenceAssumption
<1>2. Settle = Span(MaxSlow) + Deadline
  BY DEF Settle, Span
<1>3. Span(MaxSlow) \in Nat
  BY <1>1, Spans
<1> QED
  BY <1>1, <1>2, <1>3, PresenceAssumption DEF Deadline, Grace

-----------------------------------------------------------------------------
(* Types *)

Stage == {"idle", "sync", "merged", "ping", "pong", "done", "panicked"}

Beat == [stage : Stage, to : Time(MaxRestarts) \cup {None}, left : Time(Deadline),
         slow : BOOLEAN, carries : Standings \cup {None}]

Request == [stage : {"sync", "ping"}, from : Time(MaxRestarts),
            carries : Standings \cup {None}, left : Time(RequestTimeout)]

Counts == [panics : Time(MaxPanics), departures : Time(MaxDepartures),
           restarts : Time(MaxFaults)]

\* The types of what the steps of the nodes change, and of what time changes.
NodesTyped ==
  /\ up \in [Node -> BOOLEAN] /\ address \in [Node -> Time(MaxRestarts)]
  /\ book \in [Node -> Time(MaxRestarts) \cup {None}]
  /\ standing \in [Node -> Standings]
  /\ beat \in [Node -> Beat] /\ faults \in Counts /\ lost \in [Node -> Time(MaxSlow)]

TimesTyped ==
  /\ discovery \in Discovery
  /\ seen \in [Node -> Time(Window) \cup {None}]
  /\ timer \in [Node -> Time(Interval)]
  /\ late \in [Node -> {None} \cup Request]
  /\ gone \in [Node -> Time(Window + Grace)]
  /\ route \in [Node -> Time(RequestTimeout + Settle)]

DownIsEmpty ==
  \A n \in Node : ~up[n] => beat[n] = Idle /\ seen[n] = None /\ late[n] = None

\* The type invariant, in three parts.
LEMMA TypeParts == TypeOK <=> NodesTyped /\ TimesTyped /\ DownIsEmpty
  BY DEF TypeOK, NodesTyped, TimesTyped, DownIsEmpty, Beat, Stage, Request, Counts

\* Numbers up to a bound.
LEMMA Times ==
  /\ \A b \in Nat, t \in Nat : t \in Time(b) <=> t <= b
  /\ \A b \in Nat : Time(b) \subseteq Nat /\ 0 \in Time(b)
  /\ \A b \in Nat : \A t \in Time(b) : Capped(t, b) \in Time(b)
  BY DEF Time, Capped

\* The later of what two nodes say is a standing, and a merge keeps one.
LEMMA MergeDoes ==
  ASSUME NodesTyped, NEW n \in Node, NEW s \in Standings,
         NEW a \in Time(MaxRestarts) \cup {None}, Merge(n, s, a)
  PROVE  /\ \A k \in Node : Listed(s, k)
         /\ standing' \in [Node -> Standings]
         /\ book' \in [Node -> Time(MaxRestarts) \cup {None}]
         /\ standing'[n] = Later(standing[n], s) /\ standing'[Peer(n)] = standing[Peer(n)]
         /\ book'[Peer(n)] = book[Peer(n)]
         /\ book'[n] = IF Listed(standing'[n], Peer(n)) THEN a ELSE None
<1> HIDE DEF Standings
<1>1. standing[n] \in Standings /\ Peer(n) \in Node /\ Peer(n) # n
  BY Peers DEF NodesTyped
<1>2. Later(standing[n], s) \in Standings
  BY <1>1 DEF Later, Standings
<1>3. standing' = [standing EXCEPT ![n] = Later(standing[n], s)]
  BY DEF Merge
<1>4. standing' \in [Node -> Standings]
  BY <1>2, <1>3 DEF NodesTyped
<1>5. standing'[n] = Later(standing[n], s) /\ standing'[Peer(n)] = standing[Peer(n)]
  BY <1>1, <1>3 DEF NodesTyped
<1>6. /\ book' \in [Node -> Time(MaxRestarts) \cup {None}]
      /\ book'[Peer(n)] = book[Peer(n)]
      /\ book'[n] = IF Listed(standing'[n], Peer(n)) THEN a ELSE None
  BY <1>1 DEF NodesTyped, Merge
<1> QED
  BY <1>4, <1>5, <1>6 DEF Merge

\* A heartbeat that goes on keeps its deadline and its luck.
LEMMA StageDoes ==
  ASSUME beat \in [Node -> Beat], NEW n \in Node, NEW st \in Stage,
         beat' = [beat EXCEPT ![n].stage = st]
  PROVE  /\ beat' \in [Node -> Beat] /\ beat'[Peer(n)] = beat[Peer(n)]
         /\ beat'[n] = [stage |-> st, to |-> beat[n].to, left |-> beat[n].left,
                        slow |-> beat[n].slow, carries |-> beat[n].carries]
<1> DEFINE b == [stage |-> st, to |-> beat[n].to, left |-> beat[n].left,
                 slow |-> beat[n].slow, carries |-> beat[n].carries]
<1>1. b \in Beat
  BY DEF Beat
<1>2. beat'[n] = b
  BY DEF Beat
<1>3. beat' = [beat EXCEPT ![n] = beat'[n]]
  OBVIOUS
<1> QED
  BY <1>1, <1>2, <1>3, Peers

\* So does one that has its answer.
LEMMA FinishSyncDoes ==
  ASSUME beat \in [Node -> Beat], NEW n \in Node,
         beat' = [beat EXCEPT ![n].stage = "ping", ![n].carries = None]
  PROVE  /\ beat' \in [Node -> Beat] /\ beat'[Peer(n)] = beat[Peer(n)]
         /\ beat'[n] = [stage |-> "ping", to |-> beat[n].to, left |-> beat[n].left,
                        slow |-> beat[n].slow, carries |-> None]
<1> DEFINE b == [stage |-> "ping", to |-> beat[n].to, left |-> beat[n].left,
                 slow |-> beat[n].slow, carries |-> None]
<1>1. b \in Beat
  BY DEF Beat, Stage
<1>2. beat'[n] = b
  BY DEF Beat
<1>3. beat' = [beat EXCEPT ![n] = beat'[n]]
  OBVIOUS
<1> QED
  BY <1>1, <1>2, <1>3, Peers

-----------------------------------------------------------------------------
(* What the steps of a node do to the two nodes *)

\* Of the two nodes, only n has a new value.
Sets(new, old, n, value) == new[n] = value /\ new[Peer(n)] = old[Peer(n)]

\* A request of n may stay behind at the peer.
Leaves(n, request) ==
  \/ request = late[Peer(n)]
  \/ /\ beat[n].stage \in {"sync", "ping"} /\ up[Peer(n)]
     /\ request = [stage |-> beat[n].stage, from |-> address[n],
                   carries |-> beat[n].carries, left |-> RequestTimeout]

GossipTickDone(n) ==
  /\ up[n] /\ timer[n] = 0 /\ Sets(timer', timer, n, Interval)
  /\ \/ /\ Lists(n) /\ beat[n].stage = "idle"
        /\ \E s \in BOOLEAN :
             /\ Sets(lost', lost, n, IF s THEN lost[n] + 1 ELSE 0)
             /\ Sets(beat', beat, n,
                     [stage |-> "sync", to |-> book[n], left |-> Deadline,
                      slow |-> s, carries |-> standing[n]])
     \/ ~(Lists(n) /\ beat[n].stage = "idle") /\ UNCHANGED <<lost, beat>>
  /\ UNCHANGED <<up, address, book, standing, seen, late, faults>>

ServeSyncDone(n) ==
  LET m == Peer(n) IN
  /\ up[n] /\ beat[n].stage = "sync" /\ Reaches(n) /\ Listed(standing[m], m)
  /\ \A k \in Node : Listed(beat[n].carries, k)
  /\ Sets(standing', standing, m, Later(standing[m], beat[n].carries))
  /\ Sets(book', book, m, IF Listed(standing'[m], n) THEN address[n] ELSE None)
  /\ Sets(beat', beat, n, [stage |-> "merged", to |-> address[m], left |-> beat[n].left,
                           slow |-> beat[n].slow, carries |-> standing'[m]])
  /\ UNCHANGED <<up, address, seen, timer, late, lost, faults>>

FinishSyncDone(n) ==
  /\ up[n] /\ beat[n].stage = "merged"
  /\ \A k \in Node : Listed(beat[n].carries, k)
  /\ Sets(standing', standing, n, Later(standing[n], beat[n].carries))
  /\ Sets(book', book, n, IF Listed(standing'[n], Peer(n)) THEN beat[n].to ELSE None)
  /\ Sets(beat', beat, n, [stage |-> "ping", to |-> beat[n].to, left |-> beat[n].left,
                           slow |-> beat[n].slow, carries |-> None])
  /\ UNCHANGED <<up, address, seen, timer, late, lost, faults>>

ServePingDone(n) ==
  LET m == Peer(n) IN
  /\ up[n] /\ beat[n].stage = "ping" /\ Reaches(n) /\ Lists(m)
  /\ Sets(seen', seen, m, 0)
  /\ Sets(beat', beat, n, [stage |-> "pong", to |-> beat[n].to, left |-> beat[n].left,
                           slow |-> beat[n].slow, carries |-> beat[n].carries])
  /\ UNCHANGED <<up, address, book, standing, timer, late, lost, faults>>

FinishPingDone(n) ==
  /\ up[n] /\ beat[n].stage = "pong"
  /\ Sets(seen', seen, n, 0)
  /\ Sets(beat', beat, n, [stage |-> "done", to |-> beat[n].to, left |-> beat[n].left,
                           slow |-> beat[n].slow, carries |-> beat[n].carries])
  /\ UNCHANGED <<up, address, book, standing, timer, late, lost, faults>>

\* Its end is joined, or it panicked.
HeartbeatEndsDone(n, stage) ==
  /\ up[n] /\ InFlight(n) /\ stage \in {"done", "panicked"}
  /\ stage = "done" => ~Prompt(n)
  /\ Sets(late', late, Peer(n), late'[Peer(n)]) /\ Leaves(n, late'[Peer(n)])
  /\ Sets(beat', beat, n, [stage |-> stage, to |-> None, left |-> 0, slow |-> FALSE,
                           carries |-> None])
  /\ faults'.departures = faults.departures
  /\ UNCHANGED <<up, address, book, standing, seen, timer, lost>>

JoinDone(n) ==
  /\ up[n] /\ beat[n].stage = "done"
  /\ Sets(beat', beat, n, Idle)
  /\ UNCHANGED <<up, address, book, standing, seen, timer, late, lost, faults>>

ServeLateDone(n) ==
  /\ up[n] /\ late[n] # None /\ Sets(late', late, n, None)
  /\ \/ /\ late[n].stage = "sync" /\ Listed(standing[n], n)
        /\ \A k \in Node : Listed(late[n].carries, k)
        /\ Sets(standing', standing, n, Later(standing[n], late[n].carries))
        /\ Sets(book', book, n,
                IF Listed(standing'[n], Peer(n)) THEN late[n].from ELSE None)
        /\ UNCHANGED seen
     \/ /\ late[n].stage = "ping" /\ Sets(seen', seen, n, 0)
        /\ UNCHANGED <<book, standing>>
  /\ UNCHANGED <<up, address, timer, beat, lost, faults>>

StopDone(n) ==
  /\ up[n] /\ Sets(up', up, n, FALSE) /\ address[n] < MaxRestarts
  /\ Sets(seen', seen, n, None) /\ Sets(beat', beat, n, Idle) /\ Sets(timer', timer, n, 0)
  /\ late'[n] = None /\ Leaves(n, late'[Peer(n)])
  /\ Sets(lost', lost, n, 0) /\ faults'.departures = faults.departures
  /\ UNCHANGED <<address, book, standing>>

StartDone(n) ==
  /\ ~up[n] /\ Sets(up', up, n, TRUE) /\ Sets(address', address, n, address[n] + 1)
  /\ UNCHANGED <<book, standing, seen, timer, beat, late, lost, faults>>

\* The node alone says something new of itself.
Renews(n) ==
  /\ standing'[Peer(n)] = standing[Peer(n)]
  /\ Sets(standing'[n], standing[n], n, standing[n][n] + 1)

LeaveDone(n) ==
  /\ ~up[n] /\ Renews(n) /\ Sets(book', book, n, None)
  /\ faults'.departures = faults.departures + 1
  /\ UNCHANGED <<up, address, seen, timer, beat, late, lost>>

RejoinDone(n) ==
  /\ up[n] /\ ~Listed(standing[n], n) /\ Renews(n) /\ Sets(book', book, n, book'[n])
  /\ UNCHANGED <<up, address, seen, timer, beat, late, lost, faults>>

HearFromThirdDone(n) ==
  LET m == Peer(n) IN
  /\ up[n] /\ Listed(standing[n], n)
  /\ standing'[m] = standing[m] /\ Sets(standing'[n], standing[n], m, standing'[n][m])
  /\ standing'[n][m] \in standing[n][m] .. standing[m][m]
  /\ \E a \in {None} \cup Time(address[m]) :
       Sets(book', book, n, IF Listed(standing'[n], m) THEN Forwarded(n, a) ELSE None)
  /\ UNCHANGED <<up, address, seen, timer, beat, late, lost, faults>>

\* Each action of a node does what its name and `Done' say: a lemma for each.
LEMMA GossipTickMoves ==
  ASSUME TypeOK, Knowledge, \A k \in Node : Running(k), NEW n \in Node, GossipTick(n)
  PROVE  GossipTickDone(n)
<1>1. NodesTyped /\ TimesTyped
  BY TypeParts
<1>2. Peer(n) \in Node /\ Peer(n) # n /\ Peer(Peer(n)) = n
  BY Peers
<1> QED
  BY <1>1, <1>2
  DEF GossipTick, Lists, GossipTickDone, Sets, Leaves, Renews, NodesTyped, TimesTyped,
      Counts, Time

\* The task that ended is joined.
LEMMA JoinMoves ==
  ASSUME TypeOK, Knowledge, \A k \in Node : Running(k), NEW n \in Node, Join(n)
  PROVE  JoinDone(n)
<1>1. NodesTyped /\ TimesTyped
  BY TypeParts
<1>2. Peer(n) \in Node /\ Peer(n) # n /\ Peer(Peer(n)) = n
  BY Peers
<1> QED
  BY <1>1, <1>2
  DEF Join, Idle, JoinDone, Sets, Leaves, Renews, NodesTyped, TimesTyped, Counts, Time

\* A request that stayed behind is served.
LEMMA ServeLateMoves ==
  ASSUME TypeOK, Knowledge, \A k \in Node : Running(k), NEW n \in Node, ServeLate(n)
  PROVE  ServeLateDone(n)
<1>1. NodesTyped /\ TimesTyped
  BY TypeParts
<1>2. Peer(n) \in Node /\ Peer(n) # n /\ Peer(Peer(n)) = n
  BY Peers
<1> QED
  BY <1>1, <1>2
  DEF ServeLate, Merge, ServeLateDone, Sets, Leaves, Renews, NodesTyped, TimesTyped,
      Counts, Time

\* A stop takes the presence and the tasks of the node with it.
LEMMA StopMoves ==
  ASSUME TypeOK, Knowledge, \A k \in Node : Running(k), NEW n \in Node, Stop(n)
  PROVE  StopDone(n)
<1>1. NodesTyped /\ TimesTyped
  BY TypeParts
<1>2. Peer(n) \in Node /\ Peer(n) # n /\ Peer(Peer(n)) = n
  BY Peers
<1> QED
  BY <1>1, <1>2
  DEF Stop, Lingering, Served, Reaches, Idle, MayFail, AllFaults, StopDone, Sets,
      Leaves, Renews, NodesTyped, TimesTyped, Counts, Time

\* A start gives the node a new address.
LEMMA StartMoves ==
  ASSUME TypeOK, Knowledge, \A k \in Node : Running(k), NEW n \in Node, Start(n)
  PROVE  StartDone(n)
<1>1. NodesTyped /\ TimesTyped
  BY TypeParts
<1>2. Peer(n) \in Node /\ Peer(n) # n /\ Peer(Peer(n)) = n
  BY Peers
<1> QED
  BY <1>1, <1>2
  DEF Start, StartDone, Sets, Leaves, Renews, NodesTyped, TimesTyped, Counts, Time

\* The peer merges what a heartbeat carries and answers.
LEMMA ServeSyncMoves ==
  ASSUME TypeOK, Knowledge, \A k \in Node : Running(k), NEW n \in Node, ServeSync(n)
  PROVE  ServeSyncDone(n)
<1>1. NodesTyped /\ TimesTyped
  BY TypeParts
<1>2. Peer(n) \in Node /\ Peer(n) # n /\ Peer(Peer(n)) = n
  BY Peers
<1> DEFINE m == Peer(n)
<1>3. /\ up[n] /\ beat[n].stage = "sync" /\ Reaches(n) /\ Listed(standing[m], m)
      /\ Merge(m, beat[n].carries, address[n])
      /\ beat' = [beat EXCEPT ![n].stage = "merged", ![n].to = address[m],
                              ![n].carries = standing'[m]]
      /\ UNCHANGED <<up, address, seen, timer, late, lost, faults>>
  BY DEF ServeSync
<1>4. beat[n].carries \in Standings
  BY <1>3 DEF Running
<1>5. address[n] \in Time(MaxRestarts) /\ address[m] \in Time(MaxRestarts)
  BY <1>1, <1>2 DEF NodesTyped
<1>6. /\ \A k \in Node : Listed(beat[n].carries, k)
      /\ standing' \in [Node -> Standings]
      /\ standing'[m] = Later(standing[m], beat[n].carries)
      /\ standing'[Peer(m)] = standing[Peer(m)] /\ book'[Peer(m)] = book[Peer(m)]
      /\ book'[m] = IF Listed(standing'[m], Peer(m)) THEN address[n] ELSE None
  BY <1>1, <1>2, <1>3, <1>4, <1>5, MergeDoes
<1>7. standing'[m] \in Standings /\ beat \in [Node -> Beat]
  BY <1>1, <1>2, <1>6 DEF NodesTyped
<1>8. beat'[Peer(n)] = beat[Peer(n)]
  BY <1>2, <1>3, <1>7
<1>9. beat'[n] = [stage |-> "merged", to |-> address[m], left |-> beat[n].left,
                  slow |-> beat[n].slow, carries |-> standing'[m]]
  BY <1>3, <1>7 DEF Beat
<1> QED
  BY <1>2, <1>3, <1>6, <1>8, <1>9 DEF ServeSyncDone, Sets

\* The answer is merged.
LEMMA FinishSyncMoves ==
  ASSUME TypeOK, Knowledge, \A k \in Node : Running(k), NEW n \in Node, FinishSync(n)
  PROVE  FinishSyncDone(n)
<1>1. NodesTyped /\ TimesTyped
  BY TypeParts
<1>2. Peer(n) \in Node /\ Peer(n) # n /\ Peer(Peer(n)) = n
  BY Peers
<1>3. /\ up[n] /\ beat[n].stage = "merged"
      /\ Merge(n, beat[n].carries, beat[n].to)
      /\ beat' = [beat EXCEPT ![n].stage = "ping", ![n].carries = None]
      /\ UNCHANGED <<up, address, seen, timer, late, lost, faults>>
  BY DEF FinishSync
<1>4. beat[n].carries \in Standings
  BY <1>3 DEF Running
<1>5. beat \in [Node -> Beat] /\ beat[n].to \in Time(MaxRestarts) \cup {None}
  BY <1>1 DEF NodesTyped, Beat
<1>6. /\ \A k \in Node : Listed(beat[n].carries, k)
      /\ standing'[n] = Later(standing[n], beat[n].carries)
      /\ standing'[Peer(n)] = standing[Peer(n)] /\ book'[Peer(n)] = book[Peer(n)]
      /\ book'[n] = IF Listed(standing'[n], Peer(n)) THEN beat[n].to ELSE None
  BY <1>1, <1>3, <1>4, <1>5, MergeDoes
<1>7. /\ beat'[Peer(n)] = beat[Peer(n)]
      /\ beat'[n] = [stage |-> "ping", to |-> beat[n].to, left |-> beat[n].left,
                     slow |-> beat[n].slow, carries |-> None]
  BY <1>3, <1>5, FinishSyncDoes
<1> QED
  BY <1>3, <1>6, <1>7 DEF FinishSyncDone, Sets

\* The peer counts the ping.
LEMMA ServePingMoves ==
  ASSUME TypeOK, Knowledge, \A k \in Node : Running(k), NEW n \in Node, ServePing(n)
  PROVE  ServePingDone(n)
<1>1. NodesTyped /\ TimesTyped
  BY TypeParts
<1>2. Peer(n) \in Node /\ Peer(n) # n /\ Peer(Peer(n)) = n
  BY Peers
<1>3. beat \in [Node -> Beat] /\ "pong" \in Stage
  BY <1>1 DEF NodesTyped, Stage
<1>4. beat' = [beat EXCEPT ![n].stage = "pong"]
  BY DEF ServePing
<1>5. /\ beat'[Peer(n)] = beat[Peer(n)]
      /\ beat'[n] = [stage |-> "pong", to |-> beat[n].to, left |-> beat[n].left,
                     slow |-> beat[n].slow, carries |-> beat[n].carries]
  BY <1>3, <1>4, StageDoes
<1>6. Sets(seen', seen, Peer(n), 0)
  BY <1>1, <1>2 DEF ServePing, Sets, TimesTyped
<1> QED
  BY <1>5, <1>6 DEF ServePing, ServePingDone, Sets

\* The pong is counted.
LEMMA FinishPingMoves ==
  ASSUME TypeOK, Knowledge, \A k \in Node : Running(k), NEW n \in Node, FinishPing(n)
  PROVE  FinishPingDone(n)
<1>1. NodesTyped /\ TimesTyped
  BY TypeParts
<1>2. Peer(n) \in Node /\ Peer(n) # n /\ Peer(Peer(n)) = n
  BY Peers
<1>3. beat \in [Node -> Beat] /\ "done" \in Stage
  BY <1>1 DEF NodesTyped, Stage
<1>4. beat' = [beat EXCEPT ![n].stage = "done"]
  BY DEF FinishPing
<1>5. /\ beat'[Peer(n)] = beat[Peer(n)]
      /\ beat'[n] = [stage |-> "done", to |-> beat[n].to, left |-> beat[n].left,
                     slow |-> beat[n].slow, carries |-> beat[n].carries]
  BY <1>3, <1>4, StageDoes
<1>6. Sets(seen', seen, n, 0)
  BY <1>1, <1>2 DEF FinishPing, Sets, TimesTyped
<1> QED
  BY <1>5, <1>6 DEF FinishPing, FinishPingDone, Sets

\* A heartbeat that is given up may leave its request behind.
LEMMA HeartbeatFailsMoves ==
  ASSUME TypeOK, Knowledge, \A k \in Node : Running(k), NEW n \in Node,
         HeartbeatFails(n)
  PROVE  HeartbeatEndsDone(n, "done")
<1>1. NodesTyped /\ TimesTyped
  BY TypeParts
<1>2. Peer(n) \in Node /\ Peer(n) # n /\ Peer(Peer(n)) = n
  BY Peers
<1>3. /\ Sets(late', late, Peer(n), late'[Peer(n)]) /\ Leaves(n, late'[Peer(n)])
  BY <1>1, <1>2 DEF HeartbeatFails, Lingering, Served, Reaches, Sets, Leaves, TimesTyped
<1>4. faults'.departures = faults.departures
  BY <1>1 DEF HeartbeatFails
<1>5. Sets(beat', beat, n, [stage |-> "done", to |-> None, left |-> 0,
                            slow |-> FALSE, carries |-> None])
  BY <1>1, <1>2 DEF HeartbeatFails, Sets, Idle, NodesTyped
<1> QED
  BY <1>3, <1>4, <1>5 DEF HeartbeatFails, HeartbeatEndsDone

\* A task that panics may leave its request behind, too.
LEMMA HeartbeatPanicsMoves ==
  ASSUME TypeOK, Knowledge, \A k \in Node : Running(k), NEW n \in Node,
         HeartbeatPanics(n)
  PROVE  HeartbeatEndsDone(n, "panicked")
<1>1. NodesTyped /\ TimesTyped
  BY TypeParts
<1>2. Peer(n) \in Node /\ Peer(n) # n /\ Peer(Peer(n)) = n
  BY Peers
<1>3. /\ Sets(late', late, Peer(n), late'[Peer(n)]) /\ Leaves(n, late'[Peer(n)])
  BY <1>1, <1>2
  DEF HeartbeatPanics, Lingering, Served, Reaches, Sets, Leaves, TimesTyped
<1>4. faults'.departures = faults.departures
  BY <1>1 DEF HeartbeatPanics, NodesTyped, Counts
<1>5. Sets(beat', beat, n, [stage |-> "panicked", to |-> None, left |-> 0,
                            slow |-> FALSE, carries |-> None])
  BY <1>1, <1>2 DEF HeartbeatPanics, Sets, Idle, NodesTyped
<1> QED
  BY <1>3, <1>4, <1>5 DEF HeartbeatPanics, HeartbeatEndsDone

\* A device that leaves says so of itself.
LEMMA LeaveMoves ==
  ASSUME TypeOK, Knowledge, \A k \in Node : Running(k), NEW n \in Node, Leave(n)
  PROVE  LeaveDone(n)
<1>1. NodesTyped /\ TimesTyped
  BY TypeParts
<1>2. Peer(n) \in Node /\ Peer(n) # n /\ Peer(Peer(n)) = n
  BY Peers
<1>3. /\ standing[n] \in [Node -> Time(2 * MaxDepartures + 1)]
      /\ standing \in [Node -> Standings]
  BY <1>1 DEF NodesTyped, Standings
<1>4. standing' = [standing EXCEPT ![n] = [standing[n] EXCEPT ![n] = standing[n][n] + 1]]
  BY DEF Leave
<1>5. standing'[n] = [standing[n] EXCEPT ![n] = standing[n][n] + 1]
  BY <1>3, <1>4
<1>6. Renews(n)
  BY <1>2, <1>3, <1>4, <1>5 DEF Renews, Sets
<1>7. faults'.departures = faults.departures + 1
  BY <1>1 DEF Leave, NodesTyped, Counts
<1>8. Sets(book', book, n, None)
  BY <1>1, <1>2 DEF Leave, NodesTyped, Sets
<1> QED
  BY <1>6, <1>7, <1>8 DEF Leave, LeaveDone

\* A device that is enrolled again says so of itself.
LEMMA RejoinMoves ==
  ASSUME TypeOK, Knowledge, \A k \in Node : Running(k), NEW n \in Node, Rejoin(n)
  PROVE  RejoinDone(n)
<1>1. NodesTyped /\ TimesTyped
  BY TypeParts
<1>2. Peer(n) \in Node /\ Peer(n) # n /\ Peer(Peer(n)) = n
  BY Peers
<1>3. /\ standing[n] \in [Node -> Time(2 * MaxDepartures + 1)]
      /\ standing \in [Node -> Standings]
  BY <1>1 DEF NodesTyped, Standings
<1>4. standing' = [standing EXCEPT ![n] = [standing[n] EXCEPT ![n] = standing[n][n] + 1]]
  BY DEF Rejoin
<1>5. standing'[n] = [standing[n] EXCEPT ![n] = standing[n][n] + 1]
  BY <1>3, <1>4
<1>6. Renews(n)
  BY <1>2, <1>3, <1>4, <1>5 DEF Renews, Sets
<1>7. Sets(book', book, n, book'[n])
  BY <1>1, <1>2 DEF Rejoin, NodesTyped, Sets
<1> QED
  BY <1>6, <1>7 DEF Rejoin, RejoinDone

\* News of the peer by a third device are not newer than the peer.
LEMMA HearFromThirdMoves ==
  ASSUME TypeOK, Knowledge, \A k \in Node : Running(k), NEW n \in Node, HearFromThird(n)
  PROVE  HearFromThirdDone(n)
<1>1. NodesTyped /\ TimesTyped
  BY TypeParts
<1>2. Peer(n) \in Node /\ Peer(n) # n /\ Peer(Peer(n)) = n
  BY Peers
<1> DEFINE m == Peer(n)
<1>3. /\ standing[n] \in [Node -> Time(2 * MaxDepartures + 1)]
      /\ standing \in [Node -> Standings] /\ address[m] \in Nat
  BY <1>1, <1>2, Deadlines, Times DEF NodesTyped, Standings
<1>4. PICK s \in standing[n][m] .. standing[m][m], a \in {None} \cup 0 .. address[m] :
        /\ standing' = [standing EXCEPT ![n][m] = s]
        /\ book' = [book EXCEPT ![n] =
                      IF Listed(standing'[n], m) THEN Forwarded(n, a) ELSE None]
  BY DEF HearFromThird
<1>5. standing' = [standing EXCEPT ![n] = [standing[n] EXCEPT ![m] = s]]
  BY <1>4
<1>6. standing'[n] = [standing[n] EXCEPT ![m] = s]
  BY <1>3, <1>5
<1>7. /\ standing'[m] = standing[m] /\ standing'[n][m] = s
      /\ standing'[n][n] = standing[n][n]
  BY <1>2, <1>3, <1>5, <1>6
<1>8. a \in {None} \cup Time(address[m])
  BY <1>4 DEF Time
<1>9. Sets(book', book, n, IF Listed(standing'[n], m) THEN Forwarded(n, a) ELSE None)
  BY <1>1, <1>2, <1>4 DEF NodesTyped, Sets
<1> QED
  BY <1>2, <1>4, <1>7, <1>8, <1>9 DEF HearFromThird, HearFromThirdDone, Sets

-----------------------------------------------------------------------------
(* The types are kept *)

\* The steps of a node keep the types.
LEMMA NodesStep ==
  ASSUME TypeOK, Knowledge, \A k \in Node : Running(k), NEW n \in Node, NodeStep(n)
  PROVE NodesTyped'
<1>1. NodesTyped /\ TimesTyped
  BY TypeParts
<1>2. Peer(n) \in Node /\ Peer(n) # n /\ Peer(Peer(n)) = n
  BY Peers
<1> HIDE DEF Beat, Counts
<1>3. CASE GossipTick(n)
  <2>1. beat' \in [Node -> Beat]
    <3>1. standing[n] \in Standings /\ book[n] \in Time(MaxRestarts) \cup {None}
      BY <1>1 DEF NodesTyped
    <3>2. Deadline \in Time(Deadline)
      BY Deadlines DEF Time
    <3> QED
      BY <1>3, <1>1, <3>1, <3>2 DEF NodesTyped, GossipTick, Beat, Stage
  <2>2. lost' \in [Node -> Time(MaxSlow)]
    <3>1. lost[n] \in Time(MaxSlow) /\ lost \in [Node -> Time(MaxSlow)]
      BY <1>1 DEF NodesTyped
    <3>2. 0 \in Time(MaxSlow) /\ (lost[n] < MaxSlow => lost[n] + 1 \in Time(MaxSlow))
      BY <3>1, Deadlines DEF Time
    <3> QED
      BY <1>3, <3>1, <3>2 DEF GossipTick
  <2> QED
    BY <1>3, <1>1, <2>1, <2>2 DEF NodesTyped, GossipTick
<1>4. CASE ServeSync(n)
  <2>0. /\ standing' \in [Node -> Standings]
        /\ book' \in [Node -> Time(MaxRestarts) \cup {None}]
    <3>1. beat[n].carries \in Standings
      BY <1>4 DEF Running, ServeSync
    <3>2. address[n] \in Time(MaxRestarts) \cup {None}
      BY <1>4, <1>1, <1>2 DEF NodesTyped, Beat, ServeSync
    <3> QED
      BY <1>4, <1>1, <1>2, <3>1, <3>2, MergeDoes DEF ServeSync
  <2>1. beat' \in [Node -> Beat]
    <3> DEFINE b == [stage |-> "merged", to |-> address[Peer(n)],
                     left |-> beat[n].left, slow |-> beat[n].slow,
                     carries |-> standing'[Peer(n)]]
    <3>1. b \in Beat
      BY <1>1, <1>2, <2>0 DEF NodesTyped, Beat, Stage
    <3>2. beat'[n] = b
      BY <1>4, ServeSyncMoves DEF ServeSyncDone, Sets
    <3>3. beat' = [beat EXCEPT ![n] = beat'[n]]
      BY <1>4, <1>1 DEF ServeSync, NodesTyped
    <3> QED
      BY <1>1, <3>1, <3>2, <3>3 DEF NodesTyped
  <2> QED
    BY <1>4, <1>1, <2>0, <2>1 DEF NodesTyped, ServeSync
<1>5. CASE FinishSync(n)
  <2>0. /\ standing' \in [Node -> Standings]
        /\ book' \in [Node -> Time(MaxRestarts) \cup {None}]
    <3>1. beat[n].carries \in Standings
      BY <1>5 DEF Running, FinishSync
    <3>2. beat[n].to \in Time(MaxRestarts) \cup {None}
      BY <1>5, <1>1, <1>2 DEF NodesTyped, Beat, FinishSync
    <3> QED
      BY <1>5, <1>1, <1>2, <3>1, <3>2, MergeDoes DEF FinishSync
  <2>1. beat' \in [Node -> Beat]
    BY <1>5, <1>1, FinishSyncDoes DEF NodesTyped, FinishSync
  <2> QED
    BY <1>5, <1>1, <2>0, <2>1 DEF NodesTyped, FinishSync
<1>6. CASE ServePing(n)
  <2>1. beat' \in [Node -> Beat]
    <3>1. "pong" \in Stage
      BY DEF Stage
    <3> QED
      BY <1>6, <1>1, <3>1, StageDoes DEF NodesTyped, ServePing
  <2> QED
    BY <1>6, <1>1, <2>1 DEF NodesTyped, ServePing
<1>7. CASE FinishPing(n)
  <2>1. beat' \in [Node -> Beat]
    <3>1. "done" \in Stage
      BY DEF Stage
    <3> QED
      BY <1>7, <1>1, <3>1, StageDoes DEF NodesTyped, FinishPing
  <2> QED
    BY <1>7, <1>1, <2>1 DEF NodesTyped, FinishPing
<1>8. CASE HeartbeatFails(n)
  <2>1. beat' \in [Node -> Beat]
    BY <1>8, <1>1, <1>2, Deadlines, Times
    DEF NodesTyped, HeartbeatFails, Lingering, Served, Reaches, InFlight, Idle, Beat,
        Stage
  <2> QED
    BY <1>8, <1>1, <2>1 DEF NodesTyped, HeartbeatFails
<1>9. CASE HeartbeatPanics(n)
  <2>1. beat' \in [Node -> Beat]
    BY <1>9, <1>1, <1>2, Deadlines, Times
    DEF NodesTyped, HeartbeatPanics, Lingering, InFlight, Idle, MayFail, AllFaults,
        Beat, Stage
  <2>2. faults' \in Counts
    BY <1>9, <1>1, <1>2, Deadlines, Times
    DEF NodesTyped, HeartbeatPanics, Lingering, InFlight, Idle, MayFail, AllFaults,
        Counts, Time
  <2> QED
    BY <1>9, <1>1, <2>1, <2>2 DEF NodesTyped, HeartbeatPanics
<1>10. CASE Join(n)
  <2>1. beat' \in [Node -> Beat]
    BY <1>10, <1>1, <1>2, Deadlines, Times DEF NodesTyped, Join, Idle, Beat, Stage
  <2> QED
    BY <1>10, <1>1, <2>1 DEF NodesTyped, Join
<1>11. CASE ServeLate(n)
  <2>0. /\ standing' \in [Node -> Standings]
        /\ book' \in [Node -> Time(MaxRestarts) \cup {None}]
    <3>1. CASE late[n].stage = "ping" /\ UNCHANGED <<book, standing>>
      BY <3>1, <1>1 DEF NodesTyped
    <3>2. CASE late[n].stage = "sync" /\ Merge(n, late[n].carries, late[n].from)
      <4>1. /\ late[n].carries \in Standings
            /\ late[n].from \in Time(MaxRestarts) \cup {None}
        BY <1>11, <1>1, <3>2 DEF ServeLate, Knowledge, TimesTyped, Request
      <4> QED
        BY <1>1, <3>2, <4>1, MergeDoes
    <3> QED
      BY <1>11, <3>1, <3>2 DEF ServeLate
  <2> QED
    BY <1>11, <1>1, <2>0 DEF NodesTyped, ServeLate
<1>12. CASE Stop(n)
  <2>1. up' \in [Node -> BOOLEAN]
    BY <1>12, <1>1, <1>2, Deadlines, Times
    DEF NodesTyped, Stop, Lingering, Served, Reaches, Idle, MayFail, AllFaults
  <2>2. beat' \in [Node -> Beat]
    BY <1>12, <1>1, <1>2, Deadlines, Times
    DEF NodesTyped, Stop, Lingering, Served, Reaches, Idle, MayFail, AllFaults, Beat,
        Stage
  <2>3. faults' \in Counts
    BY <1>12, <1>1, <1>2, Deadlines, Times
    DEF NodesTyped, Stop, Lingering, Served, Reaches, Idle, MayFail, AllFaults,
        Counts, Time
  <2>4. lost' \in [Node -> Time(MaxSlow)]
    BY <1>12, <1>1, Deadlines, Times DEF NodesTyped, Stop
  <2> QED
    BY <1>12, <1>1, <2>1, <2>2, <2>3, <2>4 DEF NodesTyped, Stop
<1>13. CASE Start(n)
  <2>1. up' \in [Node -> BOOLEAN]
    BY <1>13, <1>1, <1>2, Deadlines, Times DEF NodesTyped, Start
  <2>2. address' \in [Node -> Time(MaxRestarts)]
    <3>1. address[n] \in Time(MaxRestarts) /\ address[n] < MaxRestarts
      BY <1>13, <1>1 DEF Start, Running, NodesTyped
    <3>2. address[n] + 1 \in Time(MaxRestarts)
      BY <3>1, Deadlines DEF Time
    <3> QED
      BY <1>13, <1>1, <3>2 DEF Start, NodesTyped
  <2> QED
    BY <1>13, <1>1, <2>1, <2>2 DEF NodesTyped, Start
<1>14. CASE Leave(n)
  <2>1. book' \in [Node -> Time(MaxRestarts) \cup {None}]
    BY <1>14, <1>1, <1>2, Deadlines, Times DEF NodesTyped, Leave, MayFail, AllFaults
  <2>2. standing' \in [Node -> Standings]
    <3>1. standing[n] \in Standings /\ standing[n] \in Standings
      BY <1>1, <1>2 DEF NodesTyped
    <3>2. /\ standing[n][n] <= 2 * faults.departures
          /\ faults.departures \in Time(MaxDepartures)
      BY <1>1 DEF Knowledge, NodesTyped, Counts
    <3>3. standing[n][n] + 1 \in Time(2 * MaxDepartures + 1)
      BY <3>1, <3>2, Deadlines DEF Standings, Time
    <3>4. [standing[n] EXCEPT ![n] = standing[n][n] + 1] \in Standings
      BY <3>1, <3>3 DEF Standings
    <3> QED
      BY <1>14, <1>1, <3>4 DEF NodesTyped, Leave
  <2>3. faults' \in Counts
    BY <1>14, <1>1, <1>2, Deadlines, Times
    DEF NodesTyped, Leave, MayFail, AllFaults, Counts, Time
  <2> QED
    BY <1>14, <1>1, <2>1, <2>2, <2>3 DEF NodesTyped, Leave
<1>15. CASE Rejoin(n)
  <2>1. book' \in [Node -> Time(MaxRestarts) \cup {None}]
    BY <1>15, <1>1, <1>2, Deadlines, Times DEF NodesTyped, Rejoin
  <2>2. standing' \in [Node -> Standings]
    <3>1. standing[n] \in Standings /\ standing[n] \in Standings
      BY <1>1, <1>2 DEF NodesTyped
    <3>2. /\ standing[n][n] <= 2 * faults.departures
          /\ faults.departures \in Time(MaxDepartures)
      BY <1>1 DEF Knowledge, NodesTyped, Counts
    <3>3. standing[n][n] + 1 \in Time(2 * MaxDepartures + 1)
      BY <3>1, <3>2, Deadlines DEF Standings, Time
    <3>4. [standing[n] EXCEPT ![n] = standing[n][n] + 1] \in Standings
      BY <3>1, <3>3 DEF Standings
    <3> QED
      BY <1>15, <1>1, <3>4 DEF NodesTyped, Rejoin
  <2> QED
    BY <1>15, <1>1, <2>1, <2>2 DEF NodesTyped, Rejoin
<1>16. CASE HearFromThird(n)
  <2>1. book' \in [Node -> Time(MaxRestarts) \cup {None}]
    BY <1>16, <1>1, <1>2, Deadlines, Times DEF NodesTyped, HearFromThird, Forwarded
  <2>2. standing' \in [Node -> Standings]
    <3>1. standing[n] \in Standings /\ standing[Peer(n)] \in Standings
      BY <1>1, <1>2 DEF NodesTyped
    <3>2. PICK t \in standing[n][Peer(n)] .. standing[Peer(n)][Peer(n)] :
            standing' = [standing EXCEPT ![n][Peer(n)] = t]
      BY <1>16 DEF HearFromThird
    <3>3. t \in Time(2 * MaxDepartures + 1)
      BY <1>2, <3>1, Deadlines DEF Standings, Time
    <3>4. [standing[n] EXCEPT ![Peer(n)] = t] \in Standings
      BY <3>1, <3>3 DEF Standings
    <3> QED
      BY <1>1, <3>2, <3>4 DEF NodesTyped
  <2> QED
    BY <1>16, <1>1, <2>1, <2>2 DEF NodesTyped, HearFromThird
<1> QED
  BY <1>3, <1>4, <1>5, <1>6, <1>7, <1>8, <1>9, <1>10, <1>11, <1>12, <1>13, <1>14,
     <1>15, <1>16
  DEF NodeStep

\* The steps of a node keep what time changes within bounds.
LEMMA TimesStep ==
  ASSUME TypeOK, Knowledge, \A k \in Node : Running(k), NEW n \in Node, NodeStep(n),
         UNCHANGED discovery,
         gone' = [k \in Node |-> IF PeerPresent(k)' THEN 0 ELSE gone[k]],
         route' = [k \in Node |-> IF Route(k)' THEN route[k] ELSE 0]
  PROVE TimesTyped'
<1>1. NodesTyped /\ TimesTyped
  BY TypeParts
<1>2. Peer(n) \in Node /\ Peer(n) # n /\ Peer(Peer(n)) = n
  BY Peers
<1>3. /\ gone' \in [Node -> Time(Window + Grace)]
      /\ route' \in [Node -> Time(RequestTimeout + Settle)]
  BY <1>1, Deadlines, Times DEF TimesTyped
<1>4. /\ 0 \in Time(Window) /\ 0 \in Time(Interval) /\ Interval \in Time(Interval)
      /\ RequestTimeout \in Time(RequestTimeout)
  BY Deadlines, PresenceAssumption DEF Time
<1>5. ASSUME NEW l \in Lingering(n)  PROVE l \in {None} \cup Request
  <2>1. beat[n] \in Beat
    BY <1>1 DEF NodesTyped
  <2> QED
    BY <1>1, <1>2, <1>4, <1>5, <2>1 DEF Lingering, NodesTyped, TimesTyped, Request, Beat
<1> HIDE DEF Beat, Counts, Request
<1>6. CASE GossipTick(n)
  <2>1. timer' \in [Node -> Time(Interval)]
    BY <1>6, <1>1, <1>2, <1>4 DEF TimesTyped, GossipTick
  <2> QED
    BY <1>6, <1>1, <1>3, <2>1 DEF TimesTyped, GossipTick
<1>7. CASE ServeSync(n)
  BY <1>7, <1>1, <1>3 DEF TimesTyped, ServeSync
<1>8. CASE FinishSync(n)
  BY <1>8, <1>1, <1>3 DEF TimesTyped, FinishSync
<1>9. CASE ServePing(n)
  <2>1. seen' \in [Node -> Time(Window) \cup {None}]
    BY <1>9, <1>1, <1>2, <1>4 DEF TimesTyped, ServePing
  <2> QED
    BY <1>9, <1>1, <1>3, <2>1 DEF TimesTyped, ServePing
<1>10. CASE FinishPing(n)
  <2>1. seen' \in [Node -> Time(Window) \cup {None}]
    BY <1>10, <1>1, <1>2, <1>4 DEF TimesTyped, FinishPing
  <2> QED
    BY <1>10, <1>1, <1>3, <2>1 DEF TimesTyped, FinishPing
<1>11. CASE HeartbeatFails(n)
  <2>1. late' \in [Node -> {None} \cup Request]
    BY <1>11, <1>1, <1>2, <1>4, <1>5 DEF TimesTyped, HeartbeatFails
  <2> QED
    BY <1>11, <1>1, <1>3, <2>1 DEF TimesTyped, HeartbeatFails
<1>12. CASE HeartbeatPanics(n)
  <2>1. late' \in [Node -> {None} \cup Request]
    BY <1>12, <1>1, <1>2, <1>4, <1>5 DEF TimesTyped, HeartbeatPanics
  <2> QED
    BY <1>12, <1>1, <1>3, <2>1 DEF TimesTyped, HeartbeatPanics
<1>13. CASE Join(n)
  BY <1>13, <1>1, <1>3 DEF TimesTyped, Join
<1>14. CASE ServeLate(n)
  <2>1. seen' \in [Node -> Time(Window) \cup {None}]
    BY <1>14, <1>1, <1>2, <1>4 DEF TimesTyped, ServeLate
  <2>2. late' \in [Node -> {None} \cup Request]
    BY <1>14, <1>1, <1>2, <1>4, <1>5 DEF TimesTyped, ServeLate
  <2> QED
    BY <1>14, <1>1, <1>3, <2>1, <2>2 DEF TimesTyped, ServeLate
<1>15. CASE Stop(n)
  <2>1. timer' \in [Node -> Time(Interval)]
    BY <1>15, <1>1, <1>2, <1>4 DEF TimesTyped, Stop
  <2>2. seen' \in [Node -> Time(Window) \cup {None}]
    BY <1>15, <1>1, <1>2, <1>4 DEF TimesTyped, Stop
  <2>3. late' \in [Node -> {None} \cup Request]
    BY <1>15, <1>1, <1>2, <1>4, <1>5 DEF TimesTyped, Stop
  <2> QED
    BY <1>15, <1>1, <1>3, <2>1, <2>2, <2>3 DEF TimesTyped, Stop
<1>16. CASE Start(n)
  BY <1>16, <1>1, <1>3 DEF TimesTyped, Start
<1>17. CASE Leave(n)
  BY <1>17, <1>1, <1>3 DEF TimesTyped, Leave
<1>18. CASE Rejoin(n)
  BY <1>18, <1>1, <1>3 DEF TimesTyped, Rejoin
<1>19. CASE HearFromThird(n)
  BY <1>19, <1>1, <1>3 DEF TimesTyped, HearFromThird
<1> QED
  BY <1>6, <1>7, <1>8, <1>9, <1>10, <1>11, <1>12, <1>13, <1>14, <1>15, <1>16, <1>17,
     <1>18, <1>19
  DEF NodeStep

\* What the types say of the parts of each node.
Facts ==
  /\ faults.departures \in Nat
  /\ \A k \in Node :
       /\ lost[k] \in Nat /\ lost[k] <= MaxSlow
       /\ seen[k] # None => seen[k] \in Nat /\ seen[k] <= Window
       /\ timer[k] \in Nat /\ timer[k] <= Interval
       /\ route[k] \in Nat /\ route[k] <= RequestTimeout + Settle
       /\ gone[k] \in Nat /\ gone[k] <= Window + Grace
       /\ beat[k].stage \in Stage
       /\ beat[k].left \in Nat /\ beat[k].left <= Deadline
       /\ late[k] # None => late[k].left \in Nat /\ late[k].left <= RequestTimeout
       /\ address[k] \in Nat
       /\ standing[k] \in Standings /\ \A j \in Node : standing[k][j] \in Nat

\* They hold before a step and after it.
LEMMA TypeFacts ==
  /\ NodesTyped /\ TimesTyped => Facts
  /\ NodesTyped' /\ TimesTyped' => Facts'
<1>1. ASSUME NEW s \in Standings  PROVE \A j \in Node : s[j] \in Nat
  BY Deadlines, Times DEF Standings
<1>2. ASSUME NEW k \in Node, NodesTyped, TimesTyped
      PROVE  /\ lost[k] \in Nat /\ lost[k] <= MaxSlow
             /\ seen[k] # None => seen[k] \in Nat /\ seen[k] <= Window
             /\ timer[k] \in Nat /\ timer[k] <= Interval
             /\ route[k] \in Nat /\ route[k] <= RequestTimeout + Settle
             /\ gone[k] \in Nat /\ gone[k] <= Window + Grace
             /\ beat[k].stage \in Stage
             /\ beat[k].left \in Nat /\ beat[k].left <= Deadline
             /\ late[k] # None => late[k].left \in Nat /\ late[k].left <= RequestTimeout
             /\ address[k] \in Nat
             /\ standing[k] \in Standings /\ \A j \in Node : standing[k][j] \in Nat
  BY <1>1, <1>2, Deadlines DEF NodesTyped, TimesTyped, Beat, Request, Time
<1>3. ASSUME NEW k \in Node, NodesTyped', TimesTyped'
      PROVE  (/\ lost[k] \in Nat /\ lost[k] <= MaxSlow
              /\ seen[k] # None => seen[k] \in Nat /\ seen[k] <= Window
              /\ timer[k] \in Nat /\ timer[k] <= Interval
              /\ route[k] \in Nat /\ route[k] <= RequestTimeout + Settle
              /\ gone[k] \in Nat /\ gone[k] <= Window + Grace
              /\ beat[k].stage \in Stage
              /\ beat[k].left \in Nat /\ beat[k].left <= Deadline
              /\ late[k] # None => late[k].left \in Nat /\ late[k].left <= RequestTimeout
              /\ address[k] \in Nat
              /\ standing[k] \in Standings /\ \A j \in Node : standing[k][j] \in Nat)'
  BY <1>1, <1>3, Deadlines DEF NodesTyped, TimesTyped, Beat, Request, Time
<1> QED
  BY <1>2, <1>3, Deadlines DEF Facts, NodesTyped, Counts, Time

\* What a step of node n does; its number of faults is counted by its actions.
NodeDone(n) ==
  \/ GossipTickDone(n) \/ ServeSyncDone(n) \/ FinishSyncDone(n) \/ ServePingDone(n)
  \/ FinishPingDone(n) \/ JoinDone(n) \/ ServeLateDone(n) \/ StopDone(n)
  \/ StartDone(n) \/ LeaveDone(n) \/ RejoinDone(n) \/ HearFromThirdDone(n)
  \/ \E stage \in {"done", "panicked"} : HeartbeatEndsDone(n, stage)

\* The histories over a step of a node.
Counted ==
  \A k \in Node : /\ gone'[k] = IF PeerPresent(k)' THEN 0 ELSE gone[k]
                  /\ route'[k] = IF Route(k)' THEN route[k] ELSE 0

TickDone ==
  /\ UNCHANGED <<up, address, book, standing, lost, faults>>
  /\ \A k \in Node :
       /\ CanWait(k)
       /\ timer'[k] = IF up[k] THEN timer[k] - 1 ELSE 0
       /\ beat'[k].stage = beat[k].stage /\ beat'[k].to = beat[k].to
       /\ beat'[k].slow = beat[k].slow /\ beat'[k].carries = beat[k].carries
       /\ beat'[k].left = IF InFlight(k) THEN beat[k].left - 1 ELSE beat[k].left
       /\ ~InFlight(k) => beat'[k] = beat[k]
       /\ late[k] = None \/ late[k].left = 0 => late'[k] = None
       /\ late[k] # None /\ late[k].left # 0 =>
            /\ late'[k].stage = late[k].stage /\ late'[k].from = late[k].from
            /\ late'[k].carries = late[k].carries /\ late'[k].left = late[k].left - 1
       /\ seen'[k] = IF seen[k] = None THEN None ELSE Capped(seen[k], Window)
       /\ gone'[k] = IF PeerPresent(k) THEN 0 ELSE Capped(gone[k], Window + Grace)
       /\ route'[k] = IF Route(k) THEN Capped(route[k], RequestTimeout + Settle) ELSE 0

Moved ==
  /\ discovery' = discovery /\ Facts /\ Facts'
  /\ \/ TickDone
     \/ Counted /\ \E n \in Node : NodeDone(n)

\* Time passes within the bounds.
LEMMA NodesTick ==
  ASSUME TypeOK, \A k \in Node : Running(k), Tick
  PROVE  NodesTyped'
<1>1. NodesTyped /\ TimesTyped /\ Facts
  BY TypeParts, TypeFacts
<1>2. ASSUME NEW k \in Node, InFlight(k)
      PROVE  /\ beat[k].left > 0
             /\ [beat[k] EXCEPT !.left = beat[k].left - 1] \in Beat
  <2>1. beat[k].left > 0
    <3>1. up[k]
      BY <1>2 DEF TypeOK, InFlight, Idle
    <3> QED
      BY <1>2, <3>1 DEF Tick, CanWait
  <2>2. beat[k].left - 1 \in Time(Deadline)
    BY <2>1, <1>1, Deadlines DEF Facts, Time
  <2>3. beat[k] \in Beat
    BY <1>1 DEF NodesTyped
  <2> QED
    BY <2>1, <2>2, <2>3 DEF Beat
<1>3. beat' \in [Node -> Beat]
  BY <1>1, <1>2 DEF Tick, NodesTyped
<1> QED
  BY <1>1, <1>3 DEF Tick, NodesTyped

\* The timers, ages and lingering requests stay within theirs.
LEMMA TimesTick ==
  ASSUME TypeOK, \A k \in Node : Running(k), Tick,
         gone' = [n \in Node |->
                    IF PeerPresent(n) THEN 0 ELSE Capped(gone[n], Window + Grace)],
         route' = [n \in Node |->
                     IF Route(n) THEN Capped(route[n], RequestTimeout + Settle) ELSE 0],
         UNCHANGED discovery
  PROVE  TimesTyped'
<1>1. NodesTyped /\ TimesTyped /\ Facts
  BY TypeParts, TypeFacts
<1>2. ASSUME NEW k \in Node, late[k] # None, late[k].left # 0
      PROVE  [late[k] EXCEPT !.left = late[k].left - 1] \in Request
  <2>1. late[k].left \in Nat /\ late[k].left <= RequestTimeout
    BY <1>2, <1>1 DEF Facts
  <2>2. late[k].left - 1 \in Time(RequestTimeout)
    BY <1>2, <2>1, Deadlines DEF Time
  <2>3. late[k] \in Request
    BY <1>1, <1>2 DEF TimesTyped
  <2> QED
    BY <2>2, <2>3 DEF Request
<1>3. late' \in [Node -> {None} \cup Request]
  BY <1>1, <1>2 DEF Tick, TimesTyped
<1>4. timer' \in [Node -> Time(Interval)]
  BY <1>1, Deadlines DEF Tick, CanWait, Facts, Time
<1>5. seen' \in [Node -> Time(Window) \cup {None}]
  BY <1>1, Deadlines, Times DEF Tick, TimesTyped
<1>6. /\ gone' \in [Node -> Time(Window + Grace)]
      /\ route' \in [Node -> Time(RequestTimeout + Settle)]
  BY <1>1, Deadlines, Times DEF TimesTyped
<1> QED
  BY <1>1, <1>3, <1>4, <1>5, <1>6 DEF TimesTyped

\* What time does to each node.
LEMMA TickMoves ==
  ASSUME TypeOK, \A k \in Node : Running(k), Tick,
         gone' = [n \in Node |->
                    IF PeerPresent(n) THEN 0 ELSE Capped(gone[n], Window + Grace)],
         route' = [n \in Node |->
                     IF Route(n) THEN Capped(route[n], RequestTimeout + Settle) ELSE 0]
  PROVE  TickDone
<1>1. NodesTyped /\ TimesTyped
  BY TypeParts
<1>2. ASSUME NEW k \in Node
      PROVE  /\ beat'[k].stage = beat[k].stage /\ beat'[k].to = beat[k].to
             /\ beat'[k].slow = beat[k].slow /\ beat'[k].carries = beat[k].carries
             /\ beat'[k].left = IF InFlight(k) THEN beat[k].left - 1 ELSE beat[k].left
             /\ ~InFlight(k) => beat'[k] = beat[k]
  <2>1. beat[k] \in Beat
    BY <1>1 DEF NodesTyped
  <2> QED
    BY <2>1 DEF Tick, Beat
<1>3. ASSUME NEW k \in Node, late[k] # None, late[k].left # 0
      PROVE  /\ late'[k].stage = late[k].stage /\ late'[k].from = late[k].from
             /\ late'[k].carries = late[k].carries /\ late'[k].left = late[k].left - 1
  <2>1. late[k] \in Request
    BY <1>1, <1>3 DEF TimesTyped
  <2> QED
    BY <1>3, <2>1 DEF Tick, Request
<1> QED
  BY <1>2, <1>3 DEF TickDone, Tick

\* Every step is one of these.
LEMMA NextMoves ==
  ASSUME TypeOK, Knowledge, \A k \in Node : Running(k), Next
  PROVE  Moved /\ NodesTyped' /\ TimesTyped'
<1>1. NodesTyped /\ TimesTyped /\ Facts
  BY TypeParts, TypeFacts
<1>2. CASE /\ Tick
           /\ gone' = [n \in Node |->
                IF PeerPresent(n) THEN 0 ELSE Capped(gone[n], Window + Grace)]
           /\ route' = [n \in Node |->
                IF Route(n) THEN Capped(route[n], RequestTimeout + Settle) ELSE 0]
  <2>1. NodesTyped' /\ TimesTyped' /\ TickDone
    BY <1>2, NodesTick, TimesTick, TickMoves DEF Next
  <2> QED
    BY <1>1, <2>1, TypeFacts DEF Next, Moved
<1>3. CASE /\ \E n \in Node : NodeStep(n)
           /\ gone' = [n \in Node |-> IF PeerPresent(n)' THEN 0 ELSE gone[n]]
           /\ route' = [n \in Node |-> IF Route(n)' THEN route[n] ELSE 0]
  <2>1. PICK n \in Node : NodeStep(n)
    BY <1>3
  <2>2. NodesTyped' /\ TimesTyped'
    BY <1>3, <2>1, NodesStep, TimesStep DEF Next
  <2>3. NodeDone(n)
    <3>1. CASE GossipTick(n)
      BY <3>1, GossipTickMoves DEF NodeDone
    <3>2. CASE ServeSync(n)
      BY <3>2, ServeSyncMoves DEF NodeDone
    <3>3. CASE FinishSync(n)
      BY <3>3, FinishSyncMoves DEF NodeDone
    <3>4. CASE ServePing(n)
      BY <3>4, ServePingMoves DEF NodeDone
    <3>5. CASE FinishPing(n)
      BY <3>5, FinishPingMoves DEF NodeDone
    <3>6. CASE HeartbeatFails(n)
      BY <3>6, HeartbeatFailsMoves DEF NodeDone
    <3>7. CASE HeartbeatPanics(n)
      BY <3>7, HeartbeatPanicsMoves DEF NodeDone
    <3>8. CASE Join(n)
      BY <3>8, JoinMoves DEF NodeDone
    <3>9. CASE ServeLate(n)
      BY <3>9, ServeLateMoves DEF NodeDone
    <3>10. CASE Stop(n)
      BY <3>10, StopMoves DEF NodeDone
    <3>11. CASE Start(n)
      BY <3>11, StartMoves DEF NodeDone
    <3>12. CASE Leave(n)
      BY <3>12, LeaveMoves DEF NodeDone
    <3>13. CASE Rejoin(n)
      BY <3>13, RejoinMoves DEF NodeDone
    <3>14. CASE HearFromThird(n)
      BY <3>14, HearFromThirdMoves DEF NodeDone
    <3> QED
      BY <2>1, <3>1, <3>2, <3>3, <3>4, <3>5, <3>6, <3>7, <3>8, <3>9, <3>10, <3>11,
         <3>12, <3>13, <3>14 DEF NodeStep
  <2>4. Counted
    BY <1>3 DEF Counted
  <2> QED
    BY <1>1, <2>2, <2>3, <2>4, TypeFacts DEF Next, Moved
<1> QED
  BY <1>2, <1>3 DEF Next

\* The later of two standings.
LEMMA LaterIs ==
  ASSUME NEW s \in Standings, NEW t \in Standings
  PROVE  \A k \in Node :
           /\ Later(s, t)[k] = IF s[k] > t[k] THEN s[k] ELSE t[k]
           /\ s[k] \in Nat /\ t[k] \in Nat
           /\ t[k] <= s[k] => Later(s, t)[k] = s[k]
           /\ Listed(s, k) /\ Listed(t, k) => Listed(Later(s, t), k)
<1>1. \A k \in Node : s[k] \in Nat /\ t[k] \in Nat
  BY Deadlines, Times DEF Standings
<1> QED
  BY <1>1 DEF Later, Listed

\* Merging does not tell a node anything of itself.
LEMMA MergeKeepsOwn ==
  ASSUME Facts, Knowledge, \A k \in Node : Running(k), NEW n \in Node,
         ServeSyncDone(n) \/ FinishSyncDone(n) \/ ServeLateDone(n), NEW q \in Node
  PROVE  standing'[q][q] = standing[q][q]
<1>1. /\ Peer(n) \in Node /\ Peer(n) # n /\ Peer(Peer(n)) = n
      /\ q = n \/ q = Peer(n)
      /\ standing[n] \in Standings /\ standing[Peer(n)] \in Standings
  BY Peers DEF Facts
<1>2. CASE ServeSyncDone(n)
  <2>1. /\ beat[n].carries \in Standings
        /\ \A k \in Node : beat[n].carries[k] <= standing[k][k]
    BY <1>2 DEF ServeSyncDone, Running, Knowledge, Known
  <2> QED
    BY <1>1, <1>2, <2>1, LaterIs DEF ServeSyncDone, Sets
<1>3. CASE FinishSyncDone(n)
  <2>1. /\ beat[n].carries \in Standings
        /\ \A k \in Node : beat[n].carries[k] <= standing[k][k]
    BY <1>3 DEF FinishSyncDone, Running, Knowledge, Known
  <2> QED
    BY <1>1, <1>3, <2>1, LaterIs DEF FinishSyncDone, Sets
<1>4. CASE ServeLateDone(n) /\ late[n].stage = "sync"
  <2>1. /\ late[n].carries \in Standings
        /\ \A k \in Node : late[n].carries[k] <= standing[k][k]
    BY <1>4 DEF ServeLateDone, Knowledge, Known
  <2> QED
    BY <1>1, <1>4, <2>1, LaterIs DEF ServeLateDone, Sets
<1> QED
  BY <1>2, <1>3, <1>4 DEF ServeLateDone

\* Only by leaving and by being enrolled again a node has something new to say
\* of itself, and neither while a heartbeat is under way.
LEMMA OwnStanding ==
  ASSUME Knowledge, \A k \in Node : Running(k), Moved, NEW q \in Node
  PROVE  \/ standing'[q][q] = standing[q][q] /\ faults'.departures >= faults.departures
         \/ /\ standing'[q][q] = standing[q][q] + 1 /\ UNCHANGED <<up, beat>>
            /\ \/ ~up[q] /\ faults'.departures = faults.departures + 1
               \/ ~Listed(standing[q], q) /\ faults'.departures = faults.departures
<1>1. /\ Peer(q) \in Node /\ Peer(q) # q /\ Peer(Peer(q)) = q
      /\ \A k \in Node : k = q \/ k = Peer(q)
      /\ Facts /\ faults.departures \in Nat
  BY Peers DEF Moved, Facts
<1>2. CASE TickDone
  BY <1>1, <1>2 DEF TickDone
<1>3. ASSUME NEW n \in Node, ServeSyncDone(n) \/ FinishSyncDone(n) \/ ServeLateDone(n)
      PROVE  standing'[q][q] = standing[q][q] /\ faults' = faults
  BY <1>1, <1>3, MergeKeepsOwn DEF ServeSyncDone, FinishSyncDone, ServeLateDone
<1>4. ASSUME NEW n \in Node,
             \/ ServePingDone(n) \/ FinishPingDone(n) \/ JoinDone(n) \/ StartDone(n)
             \/ StopDone(n) \/ GossipTickDone(n)
             \/ \E stage \in {"done", "panicked"} : HeartbeatEndsDone(n, stage)
      PROVE  standing' = standing /\ faults'.departures = faults.departures
  BY <1>4
  DEF ServePingDone, FinishPingDone, JoinDone, StartDone, StopDone, GossipTickDone,
      HeartbeatEndsDone
<1>5. ASSUME NEW n \in Node, LeaveDone(n)
      PROVE  \/ standing'[q][q] = standing[q][q]
             \/ q = n /\ standing'[q][q] = standing[q][q] + 1
  BY <1>1, <1>5 DEF LeaveDone, Renews, Sets
<1>6. ASSUME NEW n \in Node, RejoinDone(n)
      PROVE  \/ standing'[q][q] = standing[q][q]
             \/ q = n /\ standing'[q][q] = standing[q][q] + 1
  BY <1>1, <1>6 DEF RejoinDone, Renews, Sets
<1>7. ASSUME NEW n \in Node, HearFromThirdDone(n)
      PROVE  standing'[q][q] = standing[q][q]
  BY <1>1, <1>7 DEF HearFromThirdDone, Sets
<1>8. CASE \E n \in Node : LeaveDone(n)
  BY <1>1, <1>5, <1>8 DEF LeaveDone
<1>9. CASE \E n \in Node : RejoinDone(n)
  BY <1>1, <1>6, <1>9 DEF RejoinDone
<1>10. CASE \E n \in Node : HearFromThirdDone(n)
  BY <1>1, <1>7, <1>10 DEF HearFromThirdDone
<1> QED
  BY <1>1, <1>2, <1>3, <1>4, <1>8, <1>9, <1>10 DEF Moved, NodeDone

\* What is of a node that is down is gone.
LEMMA DownStep ==
  ASSUME DownIsEmpty, \A k \in Node : Running(k), Moved, NEW q \in Node
  PROVE  (~up[q] => beat[q] = Idle /\ seen[q] = None /\ late[q] = None)'
<1>1. /\ Peer(q) \in Node /\ Peer(q) # q /\ Peer(Peer(q)) = q
      /\ \A k \in Node : k = q \/ k = Peer(q)
      /\ discovery' = discovery
  BY Peers DEF Moved
<1> USE <1>1
<1>2. CASE TickDone
  <2>1. ~up[q] => ~InFlight(q)
    BY DEF DownIsEmpty, InFlight, Idle
  <2>2. /\ up' = up /\ (~InFlight(q) => beat'[q] = beat[q])
        /\ late[q] = None => late'[q] = None
        /\ seen[q] = None => seen'[q] = None
    BY <1>2 DEF TickDone
  <2> QED
    BY <2>1, <2>2 DEF DownIsEmpty
<1>3. ASSUME NEW n \in Node, GossipTickDone(n)
      PROVE  (~up[q] => beat[q] = Idle /\ seen[q] = None /\ late[q] = None)'
  BY <1>3 DEF GossipTickDone, Sets, DownIsEmpty
<1>4. ASSUME NEW n \in Node, ServeSyncDone(n)
      PROVE  (~up[q] => beat[q] = Idle /\ seen[q] = None /\ late[q] = None)'
  BY <1>4 DEF ServeSyncDone, Sets, Reaches, DownIsEmpty
<1>5. ASSUME NEW n \in Node, FinishSyncDone(n)
      PROVE  (~up[q] => beat[q] = Idle /\ seen[q] = None /\ late[q] = None)'
  BY <1>5 DEF FinishSyncDone, Sets, DownIsEmpty
<1>6. ASSUME NEW n \in Node, ServePingDone(n)
      PROVE  (~up[q] => beat[q] = Idle /\ seen[q] = None /\ late[q] = None)'
  BY <1>6 DEF ServePingDone, Sets, Reaches, Lists, DownIsEmpty
<1>7. ASSUME NEW n \in Node, FinishPingDone(n)
      PROVE  (~up[q] => beat[q] = Idle /\ seen[q] = None /\ late[q] = None)'
  BY <1>7 DEF FinishPingDone, Sets, DownIsEmpty
<1>8. ASSUME NEW n \in Node, JoinDone(n)
      PROVE  (~up[q] => beat[q] = Idle /\ seen[q] = None /\ late[q] = None)'
  BY <1>8 DEF JoinDone, Sets, DownIsEmpty
<1>9. ASSUME NEW n \in Node, ServeLateDone(n)
      PROVE  (~up[q] => beat[q] = Idle /\ seen[q] = None /\ late[q] = None)'
  BY <1>9 DEF ServeLateDone, Sets, DownIsEmpty
<1>10. ASSUME NEW n \in Node, StopDone(n)
       PROVE  (~up[q] => beat[q] = Idle /\ seen[q] = None /\ late[q] = None)'
  BY <1>10 DEF StopDone, Sets, Leaves, DownIsEmpty
<1>11. ASSUME NEW n \in Node, StartDone(n)
      PROVE  (~up[q] => beat[q] = Idle /\ seen[q] = None /\ late[q] = None)'
  BY <1>11 DEF StartDone, Sets, DownIsEmpty
<1>12. ASSUME NEW n \in Node, LeaveDone(n)
      PROVE  (~up[q] => beat[q] = Idle /\ seen[q] = None /\ late[q] = None)'
  BY <1>12 DEF LeaveDone, Sets, DownIsEmpty
<1>13. ASSUME NEW n \in Node, RejoinDone(n)
      PROVE  (~up[q] => beat[q] = Idle /\ seen[q] = None /\ late[q] = None)'
  BY <1>13 DEF RejoinDone, Sets, DownIsEmpty
<1>14. ASSUME NEW n \in Node, HearFromThirdDone(n)
      PROVE  (~up[q] => beat[q] = Idle /\ seen[q] = None /\ late[q] = None)'
  BY <1>14 DEF HearFromThirdDone, Sets, DownIsEmpty
<1>15. ASSUME NEW n \in Node, NEW stage \in {"done", "panicked"}, HeartbeatEndsDone(n,
              stage)
      PROVE  (~up[q] => beat[q] = Idle /\ seen[q] = None /\ late[q] = None)'
  BY <1>15 DEF HeartbeatEndsDone, Sets, Leaves, DownIsEmpty
<1> QED
  BY <1>2, <1>3, <1>4, <1>5, <1>6, <1>7, <1>8, <1>9, <1>10, <1>11, <1>12, <1>13,
     <1>14, <1>15 DEF Moved, NodeDone

\* Heartbeats under way stay within the timer.
LEMMA RunningStep ==
  ASSUME DownIsEmpty, \A k \in Node : Running(k), Moved, NEW q \in Node
  PROVE  Running(q)'
<1>1. /\ Peer(q) \in Node /\ Peer(q) # q /\ Peer(Peer(q)) = q
      /\ \A k \in Node : k = q \/ k = Peer(q)
      /\ discovery' = discovery
  BY Peers DEF Moved
<1>2. /\ timer[q] \in Nat /\ timer[q] <= Interval /\ beat[q].left \in Nat
      /\ Interval \in Nat /\ Interval >= 2 /\ Deadline = Interval - 1
      /\ standing[q] \in Standings /\ standing'[q] \in Standings
      /\ standing'[Peer(q)] \in Standings
  <2>1. Facts /\ Facts'
    BY DEF Moved
  <2> QED
    BY <2>1, PresenceAssumption, <1>1 DEF Facts, Deadline
<1> USE <1>1, <1>2
<1>3. CASE TickDone
  <2>1. /\ up' = up /\ address' = address /\ CanWait(q)
        /\ timer'[q] = IF up[q] THEN timer[q] - 1 ELSE 0
        /\ beat'[q].stage = beat[q].stage /\ beat'[q].carries = beat[q].carries
        /\ beat'[q].left = IF InFlight(q) THEN beat[q].left - 1 ELSE beat[q].left
    BY <1>3 DEF TickDone
  <2>2. Running(q) /\ (InFlight(q) => up[q]) /\ (beat[q].stage = "done" => up[q])
    BY DEF DownIsEmpty, Idle, InFlight
  <2> QED
    BY <2>1, <2>2 DEF CanWait, Running, InFlight
<1>4. ASSUME NEW n \in Node, GossipTickDone(n)  PROVE  Running(q)'
  <2>1. CASE q = n
    <3>1. Running(n) /\ timer[n] = 0 /\ timer'[n] = Interval
      BY <1>4, <2>1 DEF GossipTickDone, Sets
    <3>2. CASE UNCHANGED beat
      BY <2>1, <3>1, <3>2, <1>4 DEF GossipTickDone, Running, InFlight
    <3>3. ASSUME NEW s \in BOOLEAN,
                 beat'[n] = [stage |-> "sync", to |-> book[n], left |-> Deadline,
                             slow |-> s, carries |-> standing[n]]
          PROVE  Running(n)'
      BY <2>1, <3>1, <3>3, <1>4 DEF GossipTickDone, Running, InFlight
    <3> QED
      BY <1>4, <2>1, <3>2, <3>3 DEF GossipTickDone, Sets
  <2>2. CASE q # n
    BY <1>4, <2>2 DEF GossipTickDone, Sets, Running, InFlight
  <2> QED
    BY <2>1, <2>2
<1>5. ASSUME NEW n \in Node, ServeSyncDone(n)  PROVE  Running(q)'
  BY <1>5 DEF ServeSyncDone, Sets, Running, InFlight
<1>6. ASSUME NEW n \in Node, FinishSyncDone(n)  PROVE  Running(q)'
  BY <1>6 DEF FinishSyncDone, Sets, Running, InFlight
<1>7. ASSUME NEW n \in Node, ServePingDone(n)  PROVE  Running(q)'
  BY <1>7 DEF ServePingDone, Sets, Running, InFlight
<1>8. ASSUME NEW n \in Node, FinishPingDone(n)  PROVE  Running(q)'
  BY <1>8 DEF FinishPingDone, Sets, Running, InFlight
<1>9. ASSUME NEW n \in Node, JoinDone(n)  PROVE  Running(q)'
  BY <1>9 DEF JoinDone, Sets, Idle, Running, InFlight
<1>10. ASSUME NEW n \in Node, ServeLateDone(n)  PROVE  Running(q)'
  BY <1>10 DEF ServeLateDone, Sets, Running, InFlight
<1>11. ASSUME NEW n \in Node, StopDone(n)  PROVE  Running(q)'
  BY <1>11 DEF StopDone, Sets, Idle, Running, InFlight
<1>12. ASSUME NEW n \in Node, StartDone(n)  PROVE  Running(q)'
  BY <1>12 DEF StartDone, Sets, Running, InFlight
<1>13. ASSUME NEW n \in Node, LeaveDone(n)  PROVE  Running(q)'
  BY <1>13 DEF LeaveDone, Sets, Running, InFlight
<1>14. ASSUME NEW n \in Node, RejoinDone(n)  PROVE  Running(q)'
  BY <1>14 DEF RejoinDone, Sets, Running, InFlight
<1>15. ASSUME NEW n \in Node, HearFromThirdDone(n)  PROVE  Running(q)'
  BY <1>15 DEF HearFromThirdDone, Sets, Running, InFlight
<1>16. ASSUME NEW n \in Node, NEW stage \in {"done", "panicked"}, HeartbeatEndsDone(n,
              stage)
      PROVE  Running(q)'
  BY <1>16 DEF HeartbeatEndsDone, Sets, Running, InFlight
<1> QED
  BY <1>3, <1>4, <1>5, <1>6, <1>7, <1>8, <1>9, <1>10, <1>11, <1>12, <1>13, <1>14,
     <1>15, <1>16 DEF Moved, NodeDone

\* They are of members that run.
LEMMA EnrolledStep ==
  ASSUME Knowledge, \A k \in Node : Running(k) /\ Enrolled(k), Moved, NEW q \in Node
  PROVE  Enrolled(q)'
<1>1. /\ Peer(q) \in Node /\ Peer(q) # q /\ Peer(Peer(q)) = q
      /\ \A k \in Node : k = q \/ k = Peer(q)
      /\ discovery' = discovery
  BY Peers DEF Moved
<1> USE <1>1
<1>2. Enrolled(q)
  OBVIOUS
<1>3. ~InFlight(q)' \/ standing'[q][q] = standing[q][q]
  BY OwnStanding, <1>2 DEF Enrolled, InFlight
<1>4. CASE TickDone
  <2>1. up'[q] = up[q] /\ beat'[q].stage = beat[q].stage
    BY <1>4 DEF TickDone
  <2> QED
    BY <2>1, <1>2, <1>3 DEF Enrolled, InFlight, Listed
<1>5. ASSUME NEW n \in Node, GossipTickDone(n)  PROVE  Enrolled(q)'
  BY <1>5, <1>2, <1>3 DEF GossipTickDone, Sets, Lists, Enrolled, InFlight, Listed
<1>6. ASSUME NEW n \in Node, ServeSyncDone(n)  PROVE  Enrolled(q)'
  BY <1>6, <1>2, <1>3 DEF ServeSyncDone, Sets, Enrolled, InFlight, Listed
<1>7. ASSUME NEW n \in Node, FinishSyncDone(n)  PROVE  Enrolled(q)'
  BY <1>7, <1>2, <1>3 DEF FinishSyncDone, Sets, Enrolled, InFlight, Listed
<1>8. ASSUME NEW n \in Node, ServePingDone(n)  PROVE  Enrolled(q)'
  BY <1>8, <1>2, <1>3 DEF ServePingDone, Sets, Enrolled, InFlight, Listed
<1>9. ASSUME NEW n \in Node, FinishPingDone(n)  PROVE  Enrolled(q)'
  BY <1>9, <1>2, <1>3 DEF FinishPingDone, Sets, Enrolled, InFlight, Listed
<1>10. ASSUME NEW n \in Node, JoinDone(n)  PROVE  Enrolled(q)'
  BY <1>10, <1>2, <1>3 DEF JoinDone, Sets, Idle, Enrolled, InFlight, Listed
<1>11. ASSUME NEW n \in Node, ServeLateDone(n)  PROVE  Enrolled(q)'
  BY <1>11, <1>2, <1>3 DEF ServeLateDone, Sets, Enrolled, InFlight, Listed
<1>12. ASSUME NEW n \in Node, StopDone(n)  PROVE  Enrolled(q)'
  BY <1>12, <1>2, <1>3 DEF StopDone, Sets, Idle, Enrolled, InFlight, Listed
<1>13. ASSUME NEW n \in Node, StartDone(n)  PROVE  Enrolled(q)'
  BY <1>13, <1>2, <1>3 DEF StartDone, Sets, Enrolled, InFlight, Listed
<1>14. ASSUME NEW n \in Node, LeaveDone(n)  PROVE  Enrolled(q)'
  BY <1>14, <1>2, <1>3 DEF LeaveDone, Sets, Enrolled, InFlight, Listed
<1>15. ASSUME NEW n \in Node, RejoinDone(n)  PROVE  Enrolled(q)'
  BY <1>15, <1>2, <1>3 DEF RejoinDone, Sets, Enrolled, InFlight, Listed
<1>16. ASSUME NEW n \in Node, HearFromThirdDone(n)  PROVE  Enrolled(q)'
  BY <1>16, <1>2, <1>3 DEF HearFromThirdDone, Sets, Enrolled, InFlight, Listed
<1>17. ASSUME NEW n \in Node, NEW stage \in {"done", "panicked"}, HeartbeatEndsDone(n,
              stage)
      PROVE  Enrolled(q)'
  BY <1>17, <1>2, <1>3 DEF HeartbeatEndsDone, Sets, Enrolled, InFlight, Listed
<1> QED
  BY <1>4, <1>5, <1>6, <1>7, <1>8, <1>9, <1>10, <1>11, <1>12, <1>13, <1>14, <1>15,
     <1>16, <1>17 DEF Moved, NodeDone

\* A heartbeat starts, or it does not.
LEMMA GossipDoes ==
  ASSUME NEW n \in Node, GossipTickDone(n)
  PROVE  /\ beat'[Peer(n)] = beat[Peer(n)]
         /\ \/ /\ beat' = beat /\ lost' = lost /\ ~(Lists(n) /\ beat[n].stage = "idle")
            \/ /\ Lists(n) /\ beat[n].stage = "idle" /\ beat'[n].stage = "sync"
               /\ beat'[n].to = book[n] /\ beat'[n].left = Deadline
               /\ beat'[n].carries = standing[n] /\ beat'[n].slow \in BOOLEAN
               /\ lost'[n] = IF beat'[n].slow THEN lost[n] + 1 ELSE 0
         /\ lost'[Peer(n)] = lost[Peer(n)]
<1>1. CASE ~(Lists(n) /\ beat[n].stage = "idle") /\ UNCHANGED <<lost, beat>>
  BY <1>1
<1>2. ASSUME NEW s \in BOOLEAN, Lists(n), beat[n].stage = "idle",
             Sets(lost', lost, n, IF s THEN lost[n] + 1 ELSE 0),
             Sets(beat', beat, n,
                  [stage |-> "sync", to |-> book[n], left |-> Deadline,
                   slow |-> s, carries |-> standing[n]])
      PROVE  /\ beat'[Peer(n)] = beat[Peer(n)] /\ beat'[n].stage = "sync"
             /\ beat'[n].to = book[n] /\ beat'[n].left = Deadline
             /\ beat'[n].carries = standing[n] /\ beat'[n].slow \in BOOLEAN
             /\ lost'[n] = IF beat'[n].slow THEN lost[n] + 1 ELSE 0
             /\ lost'[Peer(n)] = lost[Peer(n)]
  BY <1>2 DEF Sets
<1>3. \/ ~(Lists(n) /\ beat[n].stage = "idle") /\ UNCHANGED <<lost, beat>>
      \/ /\ Lists(n) /\ beat[n].stage = "idle"
         /\ \E s \in BOOLEAN :
              /\ Sets(lost', lost, n, IF s THEN lost[n] + 1 ELSE 0)
              /\ Sets(beat', beat, n,
                      [stage |-> "sync", to |-> book[n], left |-> Deadline,
                       slow |-> s, carries |-> standing[n]])
  BY DEF GossipTickDone
<1> QED
  BY <1>1, <1>2, <1>3

\* What a node knows of itself never goes back, and it departs at most as often as
\* departures are counted.
LEMMA OwnGrows ==
  ASSUME Knowledge, \A k \in Node : Running(k), Moved, NEW q \in Node
  PROVE  /\ standing[q][q] \in Nat /\ standing'[q][q] \in Nat
         /\ standing[q][q] <= standing'[q][q]
         /\ standing'[q][q] <= 2 * faults'.departures
<1>1. /\ standing[q][q] \in Nat /\ standing'[q][q] \in Nat
      /\ faults.departures \in Nat /\ faults'.departures \in Nat
  BY DEF Moved, Facts
<1>2. standing[q][q] <= 2 * faults.departures
  BY DEF Knowledge
<1>3. CASE standing'[q][q] = standing[q][q] /\ faults'.departures >= faults.departures
  BY <1>1, <1>2, <1>3
<1>4. CASE /\ standing'[q][q] = standing[q][q] + 1
           /\ faults'.departures = faults.departures + 1
  BY <1>1, <1>2, <1>4
<1>5. CASE /\ standing'[q][q] = standing[q][q] + 1
           /\ faults'.departures = faults.departures
           /\ ~Listed(standing[q], q)
  <2>1. standing[q][q] % 2 = 1
    BY <1>1, <1>5 DEF Listed
  <2> QED
    BY <1>1, <1>2, <1>5, <2>1
<1> QED
  BY <1>3, <1>4, <1>5, OwnStanding

\* What is known stays known.
LEMMA KnownStays ==
  ASSUME Knowledge, \A k \in Node : Running(k), Moved,
         NEW s \in Standings, Known(s)
  PROVE  \A k \in Node : s[k] <= standing'[k][k]
<1> SUFFICES ASSUME NEW k \in Node  PROVE s[k] <= standing'[k][k]
  OBVIOUS
<1>1. s[k] \in Nat /\ s[k] <= standing[k][k]
  BY LaterIs DEF Known
<1> QED
  BY <1>1, OwnGrows

\* Nobody knows more of a device than the device.
LEMMA KnownStep ==
  ASSUME Knowledge, \A k \in Node : Running(k), Moved, NEW q \in Node
  PROVE  Known(standing[q])'
<1>1. /\ Peer(q) \in Node /\ Peer(q) # q /\ Peer(Peer(q)) = q
      /\ \A k \in Node : k = q \/ k = Peer(q)
      /\ discovery' = discovery
  BY Peers DEF Moved
<1> USE <1>1
<1>2. /\ standing[q] \in Standings /\ standing[Peer(q)] \in Standings
      /\ \A k \in Node : standing[q][k] \in Nat
  <2>1. Facts
    BY DEF Moved
  <2> QED
    BY <1>1, <2>1 DEF Facts
<1>3. \A k \in Node : /\ standing[q][k] <= standing'[k][k]
                     /\ standing[k][k] <= standing'[k][k]
                     /\ standing'[k][k] \in Nat
  BY <1>2, OwnGrows, KnownStays DEF Knowledge
<1>4. CASE TickDone
  BY <1>4, <1>3 DEF TickDone, Known
<1>5. ASSUME NEW n \in Node, GossipTickDone(n)  PROVE  Known(standing[q])'
  BY <1>5, <1>2, <1>3 DEF GossipTickDone, Sets, Known
<1>6. ASSUME NEW n \in Node, ServeSyncDone(n)  PROVE  Known(standing[q])'
  <2>1. CASE q = Peer(n)
    <3>1. /\ beat[n].stage = "sync" /\ standing'[q] = Later(standing[q], beat[n].carries)
      BY <1>6, <2>1 DEF ServeSyncDone, Sets
    <3>2. beat[n].carries \in Standings /\ Known(beat[n].carries)
      BY <3>1 DEF Running, Knowledge
    <3> QED
      BY <3>1, <3>2, <1>2, <1>3, KnownStays, LaterIs DEF Known
  <2>2. CASE q = n
    BY <1>6, <2>2, <1>3 DEF ServeSyncDone, Sets, Known
  <2> QED
    BY <2>1, <2>2, Peers
<1>7. ASSUME NEW n \in Node, FinishSyncDone(n)  PROVE  Known(standing[q])'
  <2>1. CASE q = n
    <3>1. /\ beat[n].stage = "merged" /\ standing'[q] = Later(standing[q], beat[n].carries)
      BY <1>7, <2>1 DEF FinishSyncDone, Sets
    <3>2. beat[n].carries \in Standings /\ Known(beat[n].carries)
      BY <3>1 DEF Running, Knowledge
    <3> QED
      BY <3>1, <3>2, <1>2, <1>3, KnownStays, LaterIs DEF Known
  <2>2. CASE q = Peer(n)
    BY <1>7, <2>2, <1>3 DEF FinishSyncDone, Sets, Known
  <2> QED
    BY <2>1, <2>2, Peers
<1>8. ASSUME NEW n \in Node, ServePingDone(n)  PROVE  Known(standing[q])'
  BY <1>8, <1>2, <1>3 DEF ServePingDone, Sets, Known
<1>9. ASSUME NEW n \in Node, FinishPingDone(n)  PROVE  Known(standing[q])'
  BY <1>9, <1>2, <1>3 DEF FinishPingDone, Sets, Known
<1>10. ASSUME NEW n \in Node, JoinDone(n)  PROVE  Known(standing[q])'
  BY <1>10, <1>2, <1>3 DEF JoinDone, Sets, Known
<1>11. ASSUME NEW n \in Node, ServeLateDone(n)  PROVE  Known(standing[q])'
  <2>1. CASE q = n /\ late[n].stage = "sync"
    <3>1. /\ late[n] # None /\ standing'[q] = Later(standing[q], late[n].carries)
      BY <1>11, <2>1 DEF ServeLateDone, Sets
    <3>2. late[n].carries \in Standings /\ Known(late[n].carries)
      BY <2>1, <3>1 DEF Knowledge
    <3> QED
      BY <3>1, <3>2, <1>2, <1>3, KnownStays, LaterIs DEF Known
  <2>2. CASE standing'[q] = standing[q]
    BY <2>2, <1>3 DEF Known
  <2> QED
    BY <1>11, <2>1, <2>2, Peers DEF ServeLateDone, Sets
<1>12. ASSUME NEW n \in Node, StopDone(n)  PROVE  Known(standing[q])'
  BY <1>12, <1>2, <1>3 DEF StopDone, Sets, Known
<1>13. ASSUME NEW n \in Node, StartDone(n)  PROVE  Known(standing[q])'
  BY <1>13, <1>2, <1>3 DEF StartDone, Sets, Known
<1>14. ASSUME NEW n \in Node, LeaveDone(n)  PROVE  Known(standing[q])'
  <2>1. \A k \in Node : standing'[q][k] \in {standing[q][k], standing'[k][k]}
    BY <1>14 DEF LeaveDone, Renews, Sets
  <2> QED
    BY <2>1, <1>2, <1>3 DEF Known
<1>15. ASSUME NEW n \in Node, RejoinDone(n)  PROVE  Known(standing[q])'
  <2>1. \A k \in Node : standing'[q][k] \in {standing[q][k], standing'[k][k]}
    BY <1>15 DEF RejoinDone, Renews, Sets
  <2> QED
    BY <2>1, <1>2, <1>3 DEF Known
<1>16. ASSUME NEW n \in Node, HearFromThirdDone(n)  PROVE  Known(standing[q])'
  <2>1. CASE q = n
    <3>1. /\ standing'[q][q] = standing[q][q]
          /\ standing'[q][Peer(q)] <= standing[Peer(q)][Peer(q)]
      BY <1>16, <2>1 DEF HearFromThirdDone, Sets
    <3> QED
      BY <2>1, <3>1, <1>2, <1>3, <1>16 DEF Known, HearFromThirdDone, Sets
  <2>2. CASE q = Peer(n)
    BY <1>16, <2>2, <1>3 DEF HearFromThirdDone, Known
  <2> QED
    BY <2>1, <2>2, Peers
<1>17. ASSUME NEW n \in Node, NEW stage \in {"done", "panicked"}, HeartbeatEndsDone(n,
              stage)
      PROVE  Known(standing[q])'
  BY <1>17, <1>2, <1>3 DEF HeartbeatEndsDone, Sets, Known
<1> QED
  BY <1>4, <1>5, <1>6, <1>7, <1>8, <1>9, <1>10, <1>11, <1>12, <1>13, <1>14, <1>15,
     <1>16, <1>17 DEF Moved, NodeDone

\* So is what a heartbeat carries, or a request that lingers.
LEMMA CarriesStep ==
  ASSUME Knowledge, \A k \in Node : Running(k), Moved, \A k \in Node :
         Known(standing[k])',
         NEW q \in Node
  PROVE  (/\ beat[q].stage \in {"sync", "merged"} => Known(beat[q].carries)
          /\ late[q] # None /\ late[q].stage = "sync" =>
               late[q].carries \in Standings /\ Known(late[q].carries))'
<1>1. /\ Peer(q) \in Node /\ Peer(q) # q /\ Peer(Peer(q)) = q
      /\ \A k \in Node : k = q \/ k = Peer(q)
  BY Peers
<1> DEFINE Carried(c) == c \in Standings /\ \A k \in Node : c[k] <= standing'[k][k]
<1>2. Carried(standing[q]) /\ Carried(standing'[q]) /\ Carried(standing'[Peer(q)])
  <2>1. /\ standing[q] \in Standings /\ standing'[q] \in Standings
        /\ standing'[Peer(q)] \in Standings
    BY <1>1 DEF Moved, Facts
  <2>2. Known(standing[q])
    BY DEF Knowledge
  <2> QED
    BY <1>1, <2>1, <2>2, KnownStays DEF Known
<1>3. /\ beat[q].stage \in {"sync", "merged"} => Carried(beat[q].carries)
      /\ beat[Peer(q)].stage = "sync" => Carried(beat[Peer(q)].carries)
      /\ late[q] # None /\ late[q].stage = "sync" => Carried(late[q].carries)
  <2>1. /\ beat[q].stage \in {"sync", "merged"} =>
             beat[q].carries \in Standings /\ Known(beat[q].carries)
        /\ beat[Peer(q)].stage = "sync" =>
             beat[Peer(q)].carries \in Standings /\ Known(beat[Peer(q)].carries)
        /\ late[q] # None /\ late[q].stage = "sync" =>
             late[q].carries \in Standings /\ Known(late[q].carries)
    BY <1>1 DEF Running, Knowledge
  <2> QED
    BY <2>1, KnownStays
<1> HIDE DEF Carried
<1> DEFINE Goal == /\ beat'[q].stage \in {"sync", "merged"} => Carried(beat'[q].carries)
                   /\ late'[q] # None /\ late'[q].stage = "sync" => Carried(late'[q].carries)
<1>4. ASSUME TickDone  PROVE Goal
  <2>1. /\ beat'[q].stage = beat[q].stage /\ beat'[q].carries = beat[q].carries
        /\ late[q] = None \/ late[q].left = 0 => late'[q] = None
        /\ late[q] # None /\ late[q].left # 0 =>
             late'[q].stage = late[q].stage /\ late'[q].carries = late[q].carries
    BY <1>4 DEF TickDone
  <2>2. beat'[q].stage \in {"sync", "merged"} => Carried(beat'[q].carries)
    BY <2>1, <1>3
  <2>3. ASSUME late'[q] # None, late'[q].stage = "sync"  PROVE Carried(late'[q].carries)
    <3>1. late[q] # None /\ late[q].stage = "sync" /\ late'[q].carries = late[q].carries
      BY <2>1, <2>3
    <3> QED
      BY <3>1, <1>3
  <2> QED
    BY <2>2, <2>3
<1>5. ASSUME NEW n \in Node, GossipTickDone(n)  PROVE  Goal
  <2>1. late'[q] = late[q]
    BY <1>5 DEF GossipTickDone
  <2>2. \/ beat'[q] = beat[q]
        \/ beat'[q].carries = standing[q]
    BY <1>5, Peers, GossipDoes
  <2> QED
    BY <2>1, <2>2, <1>2, <1>3
<1>6. ASSUME NEW n \in Node, ServeSyncDone(n)  PROVE  Goal
  BY <1>6, <1>1, <1>2, <1>3 DEF ServeSyncDone, Sets
<1>7. ASSUME NEW n \in Node, FinishSyncDone(n)  PROVE  Goal
  BY <1>7, <1>1, <1>2, <1>3 DEF FinishSyncDone, Sets
<1>8. ASSUME NEW n \in Node, ServePingDone(n)  PROVE  Goal
  BY <1>8, <1>1, <1>2, <1>3 DEF ServePingDone, Sets
<1>9. ASSUME NEW n \in Node, FinishPingDone(n)  PROVE  Goal
  BY <1>9, <1>1, <1>2, <1>3 DEF FinishPingDone, Sets
<1>10. ASSUME NEW n \in Node, JoinDone(n)  PROVE  Goal
  BY <1>10, <1>1, <1>2, <1>3 DEF JoinDone, Sets, Idle
<1>11. ASSUME NEW n \in Node, ServeLateDone(n)  PROVE  Goal
  BY <1>11, <1>1, <1>2, <1>3 DEF ServeLateDone, Sets
<1>12. ASSUME NEW n \in Node, StopDone(n)  PROVE  Goal
  BY <1>12, <1>1, <1>2, <1>3 DEF StopDone, Sets, Idle, Leaves
<1>13. ASSUME NEW n \in Node, StartDone(n)  PROVE  Goal
  BY <1>13, <1>1, <1>2, <1>3 DEF StartDone, Sets
<1>14. ASSUME NEW n \in Node, LeaveDone(n)  PROVE  Goal
  BY <1>14, <1>1, <1>2, <1>3 DEF LeaveDone, Sets
<1>15. ASSUME NEW n \in Node, RejoinDone(n)  PROVE  Goal
  BY <1>15, <1>1, <1>2, <1>3 DEF RejoinDone, Sets
<1>16. ASSUME NEW n \in Node, HearFromThirdDone(n)  PROVE  Goal
  BY <1>16, <1>1, <1>2, <1>3 DEF HearFromThirdDone, Sets
<1>17. ASSUME NEW n \in Node, NEW stage \in {"done", "panicked"}, HeartbeatEndsDone(n,
              stage)
      PROVE  Goal
  BY <1>17, <1>1, <1>2, <1>3 DEF HeartbeatEndsDone, Sets, Leaves
<1> HIDE DEF Goal
<1>18. Goal
  BY <1>4, <1>5, <1>6, <1>7, <1>8, <1>9, <1>10, <1>11, <1>12, <1>13, <1>14, <1>15,
     <1>16, <1>17
  DEF Moved, NodeDone
<1> QED
  BY <1>18 DEF Goal, Carried, Known

\* Every step keeps what is known of a device behind the device.
LEMMA KnowledgeStep ==
  ASSUME Knowledge, \A k \in Node : Running(k), Moved
  PROVE  Knowledge'
<1>1. \A q \in Node : Known(standing[q])'
  BY KnownStep
<1>2. \A q \in Node : standing'[q][q] <= 2 * faults'.departures
  BY OwnGrows
<1>3. \A q \in Node :
        (/\ beat[q].stage \in {"sync", "merged"} => Known(beat[q].carries)
         /\ late[q] # None /\ late[q].stage = "sync" =>
              late[q].carries \in Standings /\ Known(late[q].carries))'
  BY <1>1, CarriesStep
<1> QED
  BY <1>1, <1>2, <1>3 DEF Knowledge

\* While time passes nothing else changes.
LEMMA TickKeeps ==
  ASSUME TickDone, discovery' = discovery
  PROVE  \A k \in Node : /\ Route(k)' <=> Route(k)
                         /\ PeerPresent(k)' <=> PeerPresent(k)
                         /\ Lists(k)' <=> Lists(k)
<1> SUFFICES ASSUME NEW k \in Node
             PROVE  /\ Route(k)' <=> Route(k)
                    /\ PeerPresent(k)' <=> PeerPresent(k)
                    /\ Lists(k)' <=> Lists(k)
  OBVIOUS
<1>1. UNCHANGED <<up, address, book, standing>> /\ beat'[k].stage = beat[k].stage
  BY DEF TickDone
<1> QED
  BY <1>1 DEF Route, PeerPresent, Lists, Listed

\* The histories start again in time.
LEMMA MeasuredStep ==
  ASSUME Moved, NEW q \in Node
  PROVE  Measured(q)'
<1>1. CASE TickDone
  <2>1. /\ gone'[q] = IF PeerPresent(q) THEN 0 ELSE Capped(gone[q], Window + Grace)
        /\ route'[q] = IF Route(q) THEN Capped(route[q], RequestTimeout + Settle) ELSE 0
    BY <1>1 DEF TickDone
  <2>2. (Route(q)' <=> Route(q)) /\ (PeerPresent(q)' <=> PeerPresent(q))
    BY <1>1, TickKeeps DEF Moved
  <2> QED
    BY <2>1, <2>2 DEF Measured
<1>2. CASE Counted
  BY <1>2 DEF Counted, Measured
<1> QED
  BY <1>1, <1>2 DEF Moved

\* A heartbeat that will refresh a presence goes on without delay.
LEMMA RefreshesIsPrompt ==
  ASSUME NEW n \in Node, NEW k \in Node, Route(n), Refreshes(n, k)
  PROVE  Prompt(n) /\ InFlight(n)
<1>1. /\ beat[n].stage \in {"sync", "merged", "ping", "pong"} /\ ~beat[n].slow
      /\ beat[n].stage \in {"sync", "merged"} => \A j \in Node : Listed(beat[n].carries, j)
      /\ discovery \/ beat[n].to = address[Peer(n)]
  BY DEF Refreshes
<1>2. up[Peer(n)] /\ Listed(standing[Peer(n)], Peer(n)) /\ Lists(Peer(n))
  BY Peers DEF Route, Lists
<1> QED
  BY <1>1, <1>2 DEF Prompt, Served, Reaches, InFlight

\* What is fresh stays fresh in a step that takes no time, unless a heartbeat that
\* was to refresh it is given up.
LEMMA StaysFresh ==
  ASSUME Moved, NEW q \in Node, NEW r \in Node, Refreshed(q, r), route'[q] = route[q],
         timer'[q] = timer[q], lost'[q] = lost[q],
         \/ seen'[r] = 0
         \/ seen'[r] = seen[r] /\ (Refreshes(q, r) => Refreshes(q, r)')
  PROVE  Refreshed(q, r)'
<1>1. /\ timer[q] \in Nat /\ timer[q] <= Interval /\ route[q] \in Nat
      /\ lost[q] \in Nat
      /\ seen[r] # None => seen[r] \in Nat
  BY DEF Moved, Facts
<1>2. /\ Span(lost[q]) \in Nat /\ Span(MaxSlow) \in Nat
      /\ Interval <= Span(lost[q]) /\ Interval \in Nat
  BY <1>1, Spans, Deadlines, PresenceAssumption
<1>3. 0 # None
  BY Deadlines
<1> HIDE DEF Span
<1>4. CASE seen'[r] = 0
  BY <1>3, <1>1, <1>2, <1>4 DEF Refreshed, Fresh
<1>5. CASE seen'[r] = seen[r] /\ (Refreshes(q, r) => Refreshes(q, r)')
  <2>1. ASSUME NEW a \in Int, NEW b \in Int, a <= b, Fresh(q, r, a)
        PROVE  Fresh(q, r, b)'
    BY <1>1, <1>5, <2>1 DEF Fresh
  <2>2. CASE Fresh(q, r, Span(lost[q]) - timer[q])
    <3>1. Fresh(q, r, Span(lost[q]) - timer[q])'
      BY <1>1, <1>2, <2>1, <2>2
    <3> QED
      BY <3>1 DEF Refreshed, Fresh
  <2>3. CASE Refreshes(q, r) /\ Fresh(q, r, Span(MaxSlow))
    <3>1. Fresh(q, r, Span(MaxSlow))'
      BY <1>1, <1>2, <2>1, <2>3
    <3> QED
      BY <1>5, <2>3, <3>1 DEF Refreshed, Fresh
  <2> QED
    BY <2>2, <2>3 DEF Refreshed
<1> QED
  BY <1>4, <1>5

\* A tick of the gossip loop starts a heartbeat where there is a route.
LEMMA GossipStarts ==
  ASSUME Moved, \A k \in Node : Running(k), NEW q \in Node, Route(q), Route(q)',
         GossipTickDone(q)
  PROVE  /\ timer[q] = 0 /\ timer'[q] = Interval /\ seen' = seen /\ book' = book
         /\ address' = address
         /\ \/ Span(lost'[q]) = Span(lost[q]) + Interval
            \/ /\ beat'[q].stage = "sync"
               /\ \A r \in Node : Refreshes(q, r)'
<1>1. /\ timer[q] = 0 /\ timer'[q] = Interval /\ seen' = seen
      /\ UNCHANGED <<up, address, book, standing>> /\ discovery' = discovery
  BY DEF GossipTickDone, Sets, Moved
<1>2. /\ lost[q] \in Nat /\ Interval \in Nat
      /\ Span(lost[q] + 1) = Span(lost[q]) + Interval
  BY PresenceAssumption, Spans DEF Moved, Facts
<1>3. Lists(q) /\ beat[q].stage # "panicked"
  BY DEF Route
<1>4. beat[q].stage = "idle"
  <2>1. Running(q) /\ beat[q].left \in Nat /\ beat[q].stage \in Stage
    BY DEF Moved, Facts
  <2> QED
    BY <1>1, <1>3, <2>1 DEF Running, InFlight, Stage
<1>5. /\ beat'[q].stage = "sync" /\ beat'[q].to = book[q]
      /\ beat'[q].carries = standing[q] /\ beat'[q].slow \in BOOLEAN
      /\ lost'[q] = IF beat'[q].slow THEN lost[q] + 1 ELSE 0
  BY <1>3, <1>4, GossipDoes
<1>6. CASE beat'[q].slow
  BY <1>1, <1>2, <1>5, <1>6
<1>7. CASE ~beat'[q].slow
  <2>1. discovery \/ book[q] = address[Peer(q)]
    BY DEF Route
  <2>2. \A r \in Node : Refreshes(q, r)'
    BY <1>1, <1>3, <1>5, <1>7, <2>1 DEF Refreshes, Lists
  <2> QED
    BY <1>1, <1>5, <1>7, <2>2
<1> QED
  BY <1>5, <1>6, <1>7

\* Such a tick keeps what is fresh, as it has become older by nothing.
LEMMA RefreshedByGossip ==
  ASSUME Moved, \A k \in Node : Running(k), NEW q \in Node, NEW r \in Node,
         Refreshed(q, r), Route(q), Route(q)', route'[q] = route[q], GossipTickDone(q)
  PROVE  Refreshed(q, r)'
<1>1. /\ timer[q] = 0 /\ timer'[q] = Interval /\ seen' = seen
      /\ Span(lost'[q]) = Span(lost[q]) + Interval \/ Refreshes(q, r)'
  BY GossipStarts
<1>2. /\ lost[q] \in Nat /\ Span(lost[q]) \in Nat
      /\ Span(MaxSlow) \in Nat /\ Span(lost[q]) <= Span(MaxSlow)
      /\ Interval \in Nat /\ Interval >= 2
  BY PresenceAssumption, Spans, Deadlines DEF Moved, Facts
<1>3. Fresh(q, r, Span(lost[q]))
  BY <1>1, <1>2 DEF Refreshed, Refreshes
<1> HIDE DEF Span
<1>4. CASE Span(lost'[q]) = Span(lost[q]) + Interval
  <2>1. Span(lost'[q]) - timer'[q] = Span(lost[q])
    BY <1>1, <1>2, <1>4
  <2> QED
    BY <1>1, <1>3, <2>1 DEF Refreshed, Fresh
<1>5. CASE Refreshes(q, r)'
  <2>1. /\ route[q] \in Nat /\ route'[q] = route[q]
        /\ seen[r] # None => seen[r] \in Nat
    BY DEF Moved, Facts
  <2> QED
    BY <1>1, <1>2, <1>3, <1>5, <2>1 DEF Refreshed, Fresh
<1> QED
  BY <1>1, <1>4, <1>5

\* While the route lasts, no other step of a node gives up what refreshes it.
LEMMA RefreshesStays ==
  ASSUME \A k \in Node : Running(k), Moved, Counted, NEW q \in Node, NEW r \in Node,
         Route(q), Route(q)', ~GossipTickDone(q), NEW p \in Node, NodeDone(p)
  PROVE  /\ timer'[q] = timer[q] /\ lost'[q] = lost[q]
         /\ \/ seen'[r] = 0
            \/ seen'[r] = seen[r] /\ (Refreshes(q, r) => Refreshes(q, r)')
<1>1. /\ Peer(q) \in Node /\ Peer(q) # q /\ Peer(Peer(q)) = q
      /\ \A k \in Node : k = q \/ k = Peer(q)
      /\ discovery' = discovery
  BY Peers DEF Moved
<1> USE <1>1
<1>2. /\ r = q \/ r = Peer(q)
     /\ up[q] /\ up[Peer(q)] /\ up'[q] /\ up'[Peer(q)]
     /\ Lists(q)' /\ Lists(Peer(q))' /\ Lists(q) /\ Lists(Peer(q))
     /\ beat'[q].stage # "panicked"
  BY DEF Route, Moved, Facts
<1>3. ASSUME NEW n \in Node, GossipTickDone(n)
      PROVE  /\ timer'[q] = timer[q] /\ lost'[q] = lost[q]
         /\ \/ seen'[r] = 0
            \/ seen'[r] = seen[r] /\ (Refreshes(q, r) => Refreshes(q, r)')
  <2>1. n = Peer(q)
    BY <1>3
  <2>2. lost'[q] = lost[q]
    BY <1>3, <2>1, GossipDoes
  <2> QED
    BY <1>3, <2>1, <2>2 DEF GossipTickDone, Sets, Refreshes
<1>4. ASSUME NEW n \in Node, ServeSyncDone(n)
      PROVE  /\ timer'[q] = timer[q] /\ lost'[q] = lost[q]
         /\ \/ seen'[r] = 0
            \/ seen'[r] = seen[r] /\ (Refreshes(q, r) => Refreshes(q, r)')
  BY <1>4, <1>2 DEF ServeSyncDone, Sets, Lists, Refreshes
<1>5. ASSUME NEW n \in Node, FinishSyncDone(n)
      PROVE  /\ timer'[q] = timer[q] /\ lost'[q] = lost[q]
         /\ \/ seen'[r] = 0
            \/ seen'[r] = seen[r] /\ (Refreshes(q, r) => Refreshes(q, r)')
  BY <1>5, <1>2 DEF FinishSyncDone, Sets, Refreshes
<1>6. ASSUME NEW n \in Node, ServePingDone(n)
      PROVE  /\ timer'[q] = timer[q] /\ lost'[q] = lost[q]
         /\ \/ seen'[r] = 0
            \/ seen'[r] = seen[r] /\ (Refreshes(q, r) => Refreshes(q, r)')
  BY <1>6, <1>2 DEF ServePingDone, Sets, Refreshes
<1>7. ASSUME NEW n \in Node, FinishPingDone(n)
      PROVE  /\ timer'[q] = timer[q] /\ lost'[q] = lost[q]
         /\ \/ seen'[r] = 0
            \/ seen'[r] = seen[r] /\ (Refreshes(q, r) => Refreshes(q, r)')
  BY <1>7, <1>2 DEF FinishPingDone, Sets, Refreshes
<1>8. ASSUME NEW n \in Node, JoinDone(n)
      PROVE  /\ timer'[q] = timer[q] /\ lost'[q] = lost[q]
         /\ \/ seen'[r] = 0
            \/ seen'[r] = seen[r] /\ (Refreshes(q, r) => Refreshes(q, r)')
  BY <1>8, <1>2 DEF JoinDone, Sets, Idle, Refreshes
<1>9. ASSUME NEW n \in Node, ServeLateDone(n)
      PROVE  /\ timer'[q] = timer[q] /\ lost'[q] = lost[q]
         /\ \/ seen'[r] = 0
            \/ seen'[r] = seen[r] /\ (Refreshes(q, r) => Refreshes(q, r)')
  BY <1>9, <1>2 DEF ServeLateDone, Sets, Refreshes
<1>10. ASSUME NEW n \in Node, StopDone(n)
       PROVE  /\ timer'[q] = timer[q] /\ lost'[q] = lost[q]
          /\ \/ seen'[r] = 0
             \/ seen'[r] = seen[r] /\ (Refreshes(q, r) => Refreshes(q, r)')
  BY <1>10, <1>2 DEF StopDone, Sets
<1>11. ASSUME NEW n \in Node, StartDone(n)
       PROVE  /\ timer'[q] = timer[q] /\ lost'[q] = lost[q]
          /\ \/ seen'[r] = 0
             \/ seen'[r] = seen[r] /\ (Refreshes(q, r) => Refreshes(q, r)')
  BY <1>11, <1>2 DEF StartDone, Sets
<1>12. ASSUME NEW n \in Node, LeaveDone(n)
      PROVE  /\ timer'[q] = timer[q] /\ lost'[q] = lost[q]
         /\ \/ seen'[r] = 0
            \/ seen'[r] = seen[r] /\ (Refreshes(q, r) => Refreshes(q, r)')
  BY <1>12, <1>2 DEF LeaveDone, Sets
<1>13. ASSUME NEW n \in Node, RejoinDone(n)
      PROVE  /\ timer'[q] = timer[q] /\ lost'[q] = lost[q]
         /\ \/ seen'[r] = 0
            \/ seen'[r] = seen[r] /\ (Refreshes(q, r) => Refreshes(q, r)')
  BY <1>13, <1>2 DEF RejoinDone, Lists
<1>14. ASSUME NEW n \in Node, HearFromThirdDone(n)
      PROVE  /\ timer'[q] = timer[q] /\ lost'[q] = lost[q]
         /\ \/ seen'[r] = 0
            \/ seen'[r] = seen[r] /\ (Refreshes(q, r) => Refreshes(q, r)')
  BY <1>14, <1>2 DEF HearFromThirdDone, Sets, Refreshes
<1>15. ASSUME NEW n \in Node, NEW stage \in {"done", "panicked"}, HeartbeatEndsDone(n,
              stage)
      PROVE  /\ timer'[q] = timer[q] /\ lost'[q] = lost[q]
         /\ \/ seen'[r] = 0
            \/ seen'[r] = seen[r] /\ (Refreshes(q, r) => Refreshes(q, r)')
  <2>1. UNCHANGED <<up, address, book, standing, seen, timer, lost>>
    BY <1>15 DEF HeartbeatEndsDone
  <2>2. Refreshes(q, r) => Refreshes(q, r)'
    <3>1. CASE q = n
      <4>1. ~Prompt(q)
        BY <1>15, <3>1, <1>2 DEF HeartbeatEndsDone, Sets
      <4> QED
        BY <4>1, RefreshesIsPrompt
    <3>2. CASE q # n
      BY <1>15, <2>1, <3>2 DEF HeartbeatEndsDone, Sets, Refreshes
    <3> QED
      BY <3>1, <3>2
  <2> QED
    BY <2>1, <2>2, <1>2
<1> QED
  BY <1>3, <1>4, <1>5, <1>6, <1>7, <1>8, <1>9, <1>10, <1>11, <1>12, <1>13, <1>14,
     <1>15 DEF Moved, NodeDone

\* A presence is refreshed in every span that some heartbeats may be lost in.
LEMMA RefreshedStep ==
  ASSUME Moved, \A k \in Node : Running(k), DownIsEmpty, NEW q \in Node, NEW r \in Node,
         Measured(q), Refreshed(q, r)
  PROVE  Refreshed(q, r)'
<1>1. /\ timer[q] \in Nat /\ timer'[q] \in Nat /\ timer'[q] <= Interval /\ route[q] \in Nat
      /\ lost[q] \in Nat /\ lost'[q] \in Nat /\ discovery' = discovery
      /\ seen[r] # None => seen[r] \in Nat
      /\ route[q] <= RequestTimeout + Settle
  BY DEF Moved, Facts
<1>2. /\ Span(lost[q]) \in Nat /\ Span(lost'[q]) \in Nat
      /\ Interval <= Span(lost'[q]) /\ Interval \in Nat
  BY <1>1, Spans, PresenceAssumption
<1>3. Window \in Nat /\ RequestTimeout + Settle \in Nat /\ 0 # None
  BY Deadlines
<1>4. CASE route'[q] = 0
  <2>1. Fresh(q, r, Span(lost[q]) - timer[q])'
    BY <1>1, <1>2, <1>4 DEF Fresh
  <2> QED
    BY <2>1 DEF Refreshed
<1>5. CASE TickDone /\ Route(q)'
  <2>1. Route(q) /\ up[q]
    BY <1>1, <1>5, TickKeeps DEF Route
  <2>2. /\ CanWait(q) /\ timer'[q] = timer[q] - 1 /\ lost' = lost
        /\ route'[q] = Capped(route[q], RequestTimeout + Settle)
        /\ seen'[r] = IF seen[r] = None THEN None ELSE Capped(seen[r], Window)
    BY <1>5, <2>1 DEF TickDone
  <2>3. ~Refreshes(q, r)
    BY <2>1, <2>2, RefreshesIsPrompt DEF CanWait
  <2>4. /\ route'[q] <= route[q] + 1
        /\ seen[r] # None => seen'[r] # None /\ seen'[r] <= seen[r] + 1
    BY <1>1, <1>3, <2>2, Deadlines DEF Capped
  <2>5. route'[q] \in Nat /\ (seen'[r] # None => seen'[r] \in Nat)
    BY DEF Moved, Facts
  <2> HIDE DEF Span
  <2>6. Fresh(q, r, Span(lost[q]) - timer[q])
    BY <2>3 DEF Refreshed
  <2>7. Fresh(q, r, Span(lost[q]) - timer[q])'
    BY <1>1, <1>2, <2>2, <2>4, <2>5, <2>6 DEF Fresh
  <2> QED
    BY <2>7 DEF Refreshed
<1>6. ASSUME Counted, NEW n \in Node, NodeDone(n), Route(q)', Route(q)
      PROVE  Refreshed(q, r)'
  <2>1. route'[q] = route[q]
    BY <1>6 DEF Counted
  <2>2. CASE GossipTickDone(q)
    BY <1>6, <2>1, <2>2, RefreshedByGossip
  <2>3. CASE ~GossipTickDone(q)
    BY <1>6, <2>1, <2>3, RefreshesStays, StaysFresh
  <2> QED
    BY <2>2, <2>3
<1>7. ~Route(q)' => route'[q] = 0
  BY MeasuredStep DEF Measured
<1>8. Counted /\ ~Route(q) => route'[q] = 0
  BY DEF Counted, Measured
<1> QED
  BY <1>4, <1>5, <1>6, <1>7, <1>8 DEF Moved

\* The peer of a node whose heartbeat is under way has that node before it.
LEMMA InFlightIsPresent ==
  ASSUME NEW q \in Node, Measured(q), Enrolled(Peer(q)), InFlight(Peer(q))
  PROVE  gone[q] = 0
  BY DEF Measured, Enrolled, PeerPresent

\* Pings are counted in time.
LEMMA LingersStep ==
  ASSUME \A k \in Node : Running(k) /\ Enrolled(k) /\ Measured(k) /\ Lingers(k),
         Moved, NEW q \in Node
  PROVE  Lingers(q)'
<1>1. /\ Peer(q) \in Node /\ Peer(q) # q /\ Peer(Peer(q)) = q
      /\ \A k \in Node : k = q \/ k = Peer(q)
      /\ discovery' = discovery
  BY Peers DEF Moved
<1>2. /\ gone[q] \in Nat /\ gone'[q] \in Nat /\ gone'[q] <= Window + Grace /\ Window \in Nat
      /\ beat[q].left \in Nat /\ beat[q].left <= Deadline
      /\ seen[q] # None => seen[q] \in Nat /\ seen[q] <= Window
      /\ late[q] # None => late[q].left \in Nat /\ late[q].left <= RequestTimeout
      /\ late'[q] # None => late'[q].left \in Nat /\ late'[q].left <= RequestTimeout
      /\ RequestTimeout \in Nat /\ Deadline \in Nat /\ Grace \in Nat
      /\ Grace >= Deadline /\ Grace >= RequestTimeout
  <2>1. Facts /\ Facts'
    BY DEF Moved
  <2> QED
    BY <2>1, Deadlines, <1>1 DEF Facts
<1> USE <1>1, <1>2
<1>3. Lingers(q) /\ Measured(q) /\ Enrolled(q)
  OBVIOUS
<1>4. InFlight(Peer(q)) => gone[q] = 0
  BY InFlightIsPresent
<1>5. Counted => gone'[q] <= gone[q]
  BY DEF Counted
<1>6. CASE TickDone
  <2>1. /\ gone'[q] = IF PeerPresent(q) THEN 0 ELSE Capped(gone[q], Window + Grace)
        /\ late[q] = None \/ late[q].left = 0 => late'[q] = None
        /\ late[q] # None /\ late[q].left # 0 => late'[q].left = late[q].left - 1
        /\ beat'[q].stage = beat[q].stage
        /\ beat'[q].left = IF InFlight(q) THEN beat[q].left - 1 ELSE beat[q].left
        /\ seen'[q] = IF seen[q] = None THEN None ELSE Capped(seen[q], Window)
    BY <1>6 DEF TickDone
  <2>2. gone'[q] <= gone[q] + 1
    BY <2>1 DEF Capped
  <2>3. late'[q] # None => gone'[q] + late'[q].left <= RequestTimeout
    BY <2>1, <2>2, <1>3 DEF Lingers
  <2>4. beat'[q].stage = "pong" => gone'[q] + beat'[q].left <= Deadline
    BY <2>1, <2>2, <1>3 DEF Lingers, InFlight
  <2>5. seen'[q] # None => gone'[q] <= seen'[q] + Grace
    BY <2>1, <2>2, <1>3 DEF Lingers, Capped
  <2> QED
    BY <2>3, <2>4, <2>5 DEF Lingers
<1>7. ASSUME NEW n \in Node, GossipTickDone(n), Counted  PROVE  Lingers(q)'
  <2>1. late' = late /\ seen' = seen
    BY <1>7 DEF GossipTickDone
  <2>2. beat'[q] = beat[q] \/ beat'[q].stage = "sync"
    BY <1>7, Peers, GossipDoes
  <2> QED
    BY <1>7, <2>1, <2>2, <1>3, <1>5 DEF Lingers
<1>8. ASSUME NEW n \in Node, ServeSyncDone(n), Counted  PROVE  Lingers(q)'
  BY <1>8, <1>3, <1>4, <1>5 DEF ServeSyncDone, Sets, Lingers
<1>9. ASSUME NEW n \in Node, FinishSyncDone(n), Counted  PROVE  Lingers(q)'
  BY <1>9, <1>3, <1>4, <1>5 DEF FinishSyncDone, Sets, Lingers
<1>10. ASSUME NEW n \in Node, ServePingDone(n), Counted  PROVE  Lingers(q)'
  BY <1>10, <1>3, <1>4, <1>5
  DEF ServePingDone, Sets, InFlight, Reaches, PeerPresent, Measured, Lists, Lingers
<1>11. ASSUME NEW n \in Node, FinishPingDone(n), Counted  PROVE  Lingers(q)'
  BY <1>11, <1>3, <1>4, <1>5 DEF FinishPingDone, Sets, Lingers
<1>12. ASSUME NEW n \in Node, JoinDone(n), Counted  PROVE  Lingers(q)'
  BY <1>12, <1>3, <1>4, <1>5 DEF JoinDone, Sets, Idle, Lingers
<1>13. ASSUME NEW n \in Node, ServeLateDone(n), Counted  PROVE  Lingers(q)'
  BY <1>13, <1>3, <1>4, <1>5 DEF ServeLateDone, Sets, Lingers
<1>14. ASSUME NEW n \in Node, StopDone(n), Counted  PROVE  Lingers(q)'
  BY <1>14, <1>3, <1>4, <1>5 DEF StopDone, Sets, Idle, Leaves, InFlight, Lingers
<1>15. ASSUME NEW n \in Node, StartDone(n), Counted  PROVE  Lingers(q)'
  BY <1>15, <1>3, <1>4, <1>5 DEF StartDone, Sets, Lingers
<1>16. ASSUME NEW n \in Node, LeaveDone(n), Counted  PROVE  Lingers(q)'
  BY <1>16, <1>3, <1>4, <1>5 DEF LeaveDone, Sets, Lingers
<1>17. ASSUME NEW n \in Node, RejoinDone(n), Counted  PROVE  Lingers(q)'
  BY <1>17, <1>3, <1>4, <1>5 DEF RejoinDone, Sets, Lingers
<1>18. ASSUME NEW n \in Node, HearFromThirdDone(n), Counted  PROVE  Lingers(q)'
  BY <1>18, <1>3, <1>4, <1>5 DEF HearFromThirdDone, Sets, Lingers
<1>19. ASSUME NEW n \in Node, NEW stage \in {"done", "panicked"}, HeartbeatEndsDone(n,
              stage), Counted
      PROVE  Lingers(q)'
  BY <1>19, <1>3, <1>4, <1>5 DEF HeartbeatEndsDone, Sets, Leaves, InFlight, Lingers
<1> QED
  BY <1>6, <1>7, <1>8, <1>9, <1>10, <1>11, <1>12, <1>13, <1>14, <1>15, <1>16, <1>17,
     <1>18, <1>19 DEF Moved, NodeDone

\* Old addresses are used up in time.
LEMMA OutdatedStep ==
  ASSUME \A k \in Node : Running(k) /\ Measured(k) /\ Outdated(k), Moved, NEW q \in
         Node
  PROVE  Outdated(q)'
<1>1. /\ Peer(q) \in Node /\ Peer(q) # q /\ Peer(Peer(q)) = q
      /\ \A k \in Node : k = q \/ k = Peer(q)
      /\ discovery' = discovery
  BY Peers DEF Moved
<1>2. /\ route[q] \in Nat /\ route'[q] \in Nat
      /\ beat'[Peer(q)].left \in Nat /\ beat'[Peer(q)].left <= Deadline
      /\ beat[Peer(q)].left \in Nat
      /\ late[Peer(q)] # None => late[Peer(q)].left \in Nat
      /\ late'[Peer(q)] # None =>
           late'[Peer(q)].left \in Nat /\ late'[Peer(q)].left <= RequestTimeout
      /\ RequestTimeout \in Nat /\ Deadline \in Nat /\ Settle \in Nat
  <2>1. Facts /\ Facts'
    BY DEF Moved
  <2> QED
    BY <2>1, Deadlines, <1>1 DEF Facts
<1> USE <1>1, <1>2
<1>3. Outdated(q) /\ Measured(q)
  OBVIOUS
<1>4. Counted => route'[q] <= route[q]
  BY DEF Counted
<1>5. CASE TickDone
  <2>1. /\ route'[q] = IF Route(q) THEN Capped(route[q], RequestTimeout + Settle) ELSE 0
        /\ late[Peer(q)] = None \/ late[Peer(q)].left = 0 => late'[Peer(q)] = None
        /\ late[Peer(q)] # None /\ late[Peer(q)].left # 0 =>
             /\ late'[Peer(q)].left = late[Peer(q)].left - 1
             /\ late'[Peer(q)].stage = late[Peer(q)].stage
             /\ late'[Peer(q)].from = late[Peer(q)].from
        /\ beat'[Peer(q)].stage = beat[Peer(q)].stage
        /\ beat'[Peer(q)].to = beat[Peer(q)].to
        /\ beat'[Peer(q)].left =
             IF InFlight(Peer(q)) THEN beat[Peer(q)].left - 1 ELSE beat[Peer(q)].left
        /\ address' = address
    BY <1>5 DEF TickDone
  <2>2. route'[q] <= route[q] + 1
    BY <2>1 DEF Capped
  <2>3. late'[Peer(q)] # None /\ late'[Peer(q)].stage = "sync"
          /\ late'[Peer(q)].from # address'[q]
          => route'[q] + late'[Peer(q)].left <= RequestTimeout
    BY <2>1, <2>2, <1>3 DEF Outdated
  <2>4. beat'[Peer(q)].stage = "merged" /\ beat'[Peer(q)].to # address'[q]
          => route'[q] + beat'[Peer(q)].left <= Deadline
    BY <2>1, <2>2, <1>3 DEF Outdated, InFlight
  <2> QED
    BY <2>3, <2>4 DEF Outdated
<1>6. ASSUME NEW n \in Node, GossipTickDone(n), Counted  PROVE  Outdated(q)'
  <2>1. late' = late /\ address' = address
    BY <1>6 DEF GossipTickDone
  <2>2. beat'[Peer(q)] = beat[Peer(q)] \/ beat'[Peer(q)].stage = "sync"
    BY <1>6, Peers, GossipDoes
  <2> QED
    BY <1>6, <2>1, <2>2, <1>3, <1>4 DEF Outdated
<1>7. ASSUME NEW n \in Node, ServeSyncDone(n), Counted  PROVE  Outdated(q)'
  BY <1>7, <1>3, <1>4 DEF ServeSyncDone, Sets, Outdated
<1>8. ASSUME NEW n \in Node, FinishSyncDone(n), Counted  PROVE  Outdated(q)'
  BY <1>8, <1>3, <1>4 DEF FinishSyncDone, Sets, Outdated
<1>9. ASSUME NEW n \in Node, ServePingDone(n), Counted  PROVE  Outdated(q)'
  BY <1>9, <1>3, <1>4 DEF ServePingDone, Sets, Outdated
<1>10. ASSUME NEW n \in Node, FinishPingDone(n), Counted  PROVE  Outdated(q)'
  BY <1>10, <1>3, <1>4 DEF FinishPingDone, Sets, Outdated
<1>11. ASSUME NEW n \in Node, JoinDone(n), Counted  PROVE  Outdated(q)'
  BY <1>11, <1>3, <1>4 DEF JoinDone, Sets, Idle, Outdated
<1>12. ASSUME NEW n \in Node, ServeLateDone(n), Counted  PROVE  Outdated(q)'
  BY <1>12, <1>3, <1>4 DEF ServeLateDone, Sets, Outdated
<1>13. ASSUME NEW n \in Node, StopDone(n), Counted  PROVE  Outdated(q)'
  BY <1>13, <1>3, <1>4 DEF StopDone, Sets, Idle, Leaves, Outdated
<1>14. ASSUME NEW n \in Node, StartDone(n), Counted  PROVE  Outdated(q)'
  <2>1. CASE q = n
    <3>1. route'[q] = 0
      BY <1>14, <2>1, <1>3, <1>4 DEF StartDone, Measured, Route
    <3> QED
      BY <3>1 DEF Outdated
  <2>2. CASE q # n
    BY <1>14, <2>2, <1>3, <1>4 DEF StartDone, Sets, Outdated
  <2> QED
    BY <2>1, <2>2
<1>15. ASSUME NEW n \in Node, LeaveDone(n), Counted  PROVE  Outdated(q)'
  BY <1>15, <1>3, <1>4 DEF LeaveDone, Sets, Outdated
<1>16. ASSUME NEW n \in Node, RejoinDone(n), Counted  PROVE  Outdated(q)'
  BY <1>16, <1>3, <1>4 DEF RejoinDone, Sets, Outdated
<1>17. ASSUME NEW n \in Node, HearFromThirdDone(n), Counted  PROVE  Outdated(q)'
  BY <1>17, <1>3, <1>4 DEF HearFromThirdDone, Sets, Outdated
<1>18. ASSUME NEW n \in Node, NEW stage \in {"done", "panicked"}, HeartbeatEndsDone(n,
              stage), Counted
      PROVE  Outdated(q)'
  BY <1>18, <1>3, <1>4 DEF HeartbeatEndsDone, Sets, Leaves, Outdated
<1> QED
  BY <1>5, <1>6, <1>7, <1>8, <1>9, <1>10, <1>11, <1>12, <1>13, <1>14, <1>15, <1>16,
     <1>17, <1>18 DEF Moved, NodeDone

\* While the route lasts, the peer learns the address and keeps it.
LEMMA LearnedStays ==
  ASSUME \A k \in Node : Running(k), Moved, Counted, NEW q \in Node, Outdated(q),
         Route(q), Route(q)', ~GossipTickDone(q), NEW p \in Node, NodeDone(p)
  PROVE  \/ book'[Peer(q)] = address'[q]
         \/ route[q] <= Grace
         \/ /\ book[Peer(q)] # address[q]
            /\ Refreshes(q, q) /\ beat[q].stage = "sync" =>
                 Refreshes(q, q)' /\ beat'[q].stage = "sync"
<1>1. /\ Peer(q) \in Node /\ Peer(q) # q /\ Peer(Peer(q)) = q
      /\ \A k \in Node : k = q \/ k = Peer(q)
      /\ discovery' = discovery
  BY Peers DEF Moved
<1> USE <1>1
<1>2. /\ up[q] /\ up[Peer(q)] /\ up'[q] /\ up'[Peer(q)]
     /\ Lists(q)' /\ Lists(Peer(q))' /\ Lists(q) /\ Lists(Peer(q))
     /\ Listed(standing'[Peer(q)], q) /\ Listed(standing'[q], Peer(q))
     /\ beat'[q].stage # "panicked" /\ address[q] # None
  BY Deadlines DEF Route, Lists, Moved, Facts
<1>3. ASSUME NEW n \in Node, GossipTickDone(n)
      PROVE  \/ book'[Peer(q)] = address'[q]
         \/ route[q] <= Grace
         \/ /\ book[Peer(q)] # address[q]
            /\ Refreshes(q, q) /\ beat[q].stage = "sync" =>
                 Refreshes(q, q)' /\ beat'[q].stage = "sync"
  <2>1. n = Peer(q)
    BY <1>3
  <2> QED
    BY <1>3, <2>1 DEF GossipTickDone, Sets, Refreshes
<1>4. ASSUME NEW n \in Node, ServeSyncDone(n)
      PROVE  \/ book'[Peer(q)] = address'[q]
         \/ route[q] <= Grace
         \/ /\ book[Peer(q)] # address[q]
            /\ Refreshes(q, q) /\ beat[q].stage = "sync" =>
                 Refreshes(q, q)' /\ beat'[q].stage = "sync"
  BY <1>4, <1>2 DEF ServeSyncDone, Sets, Refreshes
<1>5. ASSUME NEW n \in Node, FinishSyncDone(n)
      PROVE  \/ book'[Peer(q)] = address'[q]
         \/ route[q] <= Grace
         \/ /\ book[Peer(q)] # address[q]
            /\ Refreshes(q, q) /\ beat[q].stage = "sync" =>
                 Refreshes(q, q)' /\ beat'[q].stage = "sync"
  <2>1. CASE q = n
    BY <1>5, <2>1 DEF FinishSyncDone, Sets
  <2>2. CASE n = Peer(q) /\ beat[n].to = address[q]
    BY <1>5, <2>2, <1>2 DEF FinishSyncDone, Sets
  <2>3. CASE n = Peer(q) /\ beat[n].to # address[q]
    <3>1. beat[n].stage = "merged" /\ route[q] + beat[n].left <= Deadline
      BY <1>5, <2>3 DEF FinishSyncDone, Outdated
    <3>2. route[q] \in Nat /\ beat[n].left \in Nat
      BY <1>5 DEF Moved, Facts
    <3> QED
      BY <3>1, <3>2, Deadlines
  <2> QED
    BY <2>1, <2>2, <2>3, Peers
<1>6. ASSUME NEW n \in Node, ServePingDone(n)
      PROVE  \/ book'[Peer(q)] = address'[q]
         \/ route[q] <= Grace
         \/ /\ book[Peer(q)] # address[q]
            /\ Refreshes(q, q) /\ beat[q].stage = "sync" =>
                 Refreshes(q, q)' /\ beat'[q].stage = "sync"
  BY <1>6, <1>2 DEF ServePingDone, Sets, Refreshes
<1>7. ASSUME NEW n \in Node, FinishPingDone(n)
      PROVE  \/ book'[Peer(q)] = address'[q]
         \/ route[q] <= Grace
         \/ /\ book[Peer(q)] # address[q]
            /\ Refreshes(q, q) /\ beat[q].stage = "sync" =>
                 Refreshes(q, q)' /\ beat'[q].stage = "sync"
  BY <1>7, <1>2 DEF FinishPingDone, Sets, Refreshes
<1>8. ASSUME NEW n \in Node, JoinDone(n)
      PROVE  \/ book'[Peer(q)] = address'[q]
         \/ route[q] <= Grace
         \/ /\ book[Peer(q)] # address[q]
            /\ Refreshes(q, q) /\ beat[q].stage = "sync" =>
                 Refreshes(q, q)' /\ beat'[q].stage = "sync"
  BY <1>8, <1>2 DEF JoinDone, Sets, Idle, Refreshes
<1>9. ASSUME NEW n \in Node, ServeLateDone(n)
      PROVE  \/ book'[Peer(q)] = address'[q]
         \/ route[q] <= Grace
         \/ /\ book[Peer(q)] # address[q]
            /\ Refreshes(q, q) /\ beat[q].stage = "sync" =>
                 Refreshes(q, q)' /\ beat'[q].stage = "sync"
  <2>1. CASE late[n].stage = "ping" \/ q = n
    BY <1>9, <2>1 DEF ServeLateDone, Sets, Refreshes
  <2>2. CASE n = Peer(q) /\ late[n].stage = "sync" /\ late[n].from = address[q]
    BY <1>9, <2>2, <1>2 DEF ServeLateDone, Sets
  <2>3. CASE n = Peer(q) /\ late[n].stage = "sync" /\ late[n].from # address[q]
    <3>1. late[n] # None /\ route[q] + late[n].left <= RequestTimeout
      BY <1>9, <2>3 DEF ServeLateDone, Outdated
    <3>2. route[q] \in Nat /\ late[n].left \in Nat
      BY <1>9, <3>1 DEF Moved, Facts
    <3> QED
      BY <3>1, <3>2, Deadlines
  <2> QED
    BY <1>9, <2>1, <2>2, <2>3, Peers DEF ServeLateDone
<1>10. ASSUME NEW n \in Node, StopDone(n)
       PROVE  \/ book'[Peer(q)] = address'[q]
          \/ route[q] <= Grace
          \/ /\ book[Peer(q)] # address[q]
             /\ Refreshes(q, q) /\ beat[q].stage = "sync" =>
                  Refreshes(q, q)' /\ beat'[q].stage = "sync"
  BY <1>10, <1>2 DEF StopDone, Sets
<1>11. ASSUME NEW n \in Node, StartDone(n)
       PROVE  \/ book'[Peer(q)] = address'[q]
          \/ route[q] <= Grace
          \/ /\ book[Peer(q)] # address[q]
             /\ Refreshes(q, q) /\ beat[q].stage = "sync" =>
                  Refreshes(q, q)' /\ beat'[q].stage = "sync"
  BY <1>11, <1>2 DEF StartDone, Sets
<1>12. ASSUME NEW n \in Node, LeaveDone(n)
      PROVE  \/ book'[Peer(q)] = address'[q]
         \/ route[q] <= Grace
         \/ /\ book[Peer(q)] # address[q]
            /\ Refreshes(q, q) /\ beat[q].stage = "sync" =>
                 Refreshes(q, q)' /\ beat'[q].stage = "sync"
  BY <1>12, <1>2 DEF LeaveDone, Sets
<1>13. ASSUME NEW n \in Node, RejoinDone(n)
      PROVE  \/ book'[Peer(q)] = address'[q]
         \/ route[q] <= Grace
         \/ /\ book[Peer(q)] # address[q]
            /\ Refreshes(q, q) /\ beat[q].stage = "sync" =>
                 Refreshes(q, q)' /\ beat'[q].stage = "sync"
  BY <1>13, <1>2 DEF RejoinDone, Lists
<1>14. ASSUME NEW n \in Node, HearFromThirdDone(n)
      PROVE  \/ book'[Peer(q)] = address'[q]
         \/ route[q] <= Grace
         \/ /\ book[Peer(q)] # address[q]
            /\ Refreshes(q, q) /\ beat[q].stage = "sync" =>
                 Refreshes(q, q)' /\ beat'[q].stage = "sync"
  BY <1>14, <1>2 DEF HearFromThirdDone, Sets, Forwarded, Refreshes
<1>15. ASSUME NEW n \in Node, NEW stage \in {"done", "panicked"}, HeartbeatEndsDone(n,
              stage)
      PROVE  \/ book'[Peer(q)] = address'[q]
         \/ route[q] <= Grace
         \/ /\ book[Peer(q)] # address[q]
            /\ Refreshes(q, q) /\ beat[q].stage = "sync" =>
                 Refreshes(q, q)' /\ beat'[q].stage = "sync"
  <2>1. UNCHANGED <<up, address, book, standing, timer>>
    BY <1>15 DEF HeartbeatEndsDone
  <2>2. Refreshes(q, q) /\ beat[q].stage = "sync" =>
          Refreshes(q, q)' /\ beat'[q].stage = "sync"
    <3>1. CASE q = n
      <4>1. ~Prompt(q)
        BY <1>15, <3>1, <1>2 DEF HeartbeatEndsDone, Sets
      <4> QED
        BY <4>1, RefreshesIsPrompt
    <3>2. CASE q # n
      BY <1>15, <2>1, <3>2 DEF HeartbeatEndsDone, Sets, Refreshes
    <3> QED
      BY <3>1, <3>2
  <2> QED
    BY <2>1, <2>2
<1> QED
  BY <1>3, <1>4, <1>5, <1>6, <1>7, <1>8, <1>9, <1>10, <1>11, <1>12, <1>13, <1>14,
     <1>15 DEF Moved, NodeDone

\* The peer has the current address when the next prompt heartbeat is served.
LEMMA LearnedStep ==
  ASSUME Moved, \A k \in Node : Running(k), NEW q \in Node,
         Measured(q), Outdated(q), Learned(q)
  PROVE  Learned(q)'
<1> DEFINE Due == Grace + Span(lost[q])
           Late == Grace + Span(MaxSlow)
           Prompts == Refreshes(q, q) /\ beat[q].stage = "sync"
<1>1. /\ timer[q] \in Nat /\ timer[q] <= Interval /\ timer'[q] \in Nat
      /\ timer'[q] <= Interval /\ route[q] \in Nat /\ route'[q] \in Nat
      /\ lost[q] \in Nat /\ lost[q] <= MaxSlow /\ lost'[q] \in Nat /\ discovery' = discovery
      /\ route[q] <= RequestTimeout + Settle
  BY DEF Moved, Facts
<1>2. /\ Span(lost[q]) \in Nat /\ Span(lost'[q]) \in Nat /\ Span(MaxSlow) \in Nat
      /\ Interval <= Span(lost[q]) /\ Interval <= Span(lost'[q])
      /\ Span(lost[q]) <= Span(MaxSlow)
      /\ Interval \in Nat /\ Interval >= 2
  BY <1>1, Spans, Deadlines, PresenceAssumption
<1>3. Grace \in Nat /\ RequestTimeout + Settle \in Nat
  BY Deadlines
<1>4. \/ book[Peer(q)] = address[q]
      \/ route[q] + timer[q] <= Due
      \/ Prompts /\ route[q] <= Late
  BY DEF Learned
<1>5. ASSUME \/ book'[Peer(q)] = address'[q]
             \/ route'[q] + timer'[q] <= Due'
             \/ Prompts' /\ route'[q] <= Late
      PROVE  Learned(q)'
  BY <1>5 DEF Learned
<1> HIDE DEF Span, Prompts
<1>6. CASE route'[q] = 0
  BY <1>1, <1>2, <1>3, <1>5, <1>6
<1>7. CASE TickDone /\ Route(q)'
  <2>1. Route(q) /\ up[q]
    BY <1>1, <1>7, TickKeeps DEF Route
  <2>2. /\ CanWait(q) /\ timer'[q] = timer[q] - 1 /\ lost' = lost
        /\ UNCHANGED <<book, address>>
        /\ route'[q] = Capped(route[q], RequestTimeout + Settle)
    BY <1>7, <2>1 DEF TickDone
  <2>3. ~Prompts
    BY <2>1, <2>2, RefreshesIsPrompt DEF CanWait, Prompts
  <2>4. route'[q] <= route[q] + 1
    BY <1>1, <1>3, <2>2 DEF Capped
  <2> QED
    BY <1>1, <1>2, <1>3, <1>4, <1>5, <2>2, <2>3, <2>4
<1>8. ASSUME Counted, NEW n \in Node, NodeDone(n), Route(q)', Route(q)
      PROVE  Learned(q)'
  <2>1. route'[q] = route[q]
    BY <1>8 DEF Counted
  <2>2. CASE GossipTickDone(q)
    <3>1. /\ timer[q] = 0 /\ timer'[q] = Interval /\ book' = book /\ address' = address
          /\ Span(lost'[q]) = Span(lost[q]) + Interval \/ Prompts'
      BY <1>8, <2>2, GossipStarts DEF Prompts
    <3>2. Prompts => timer[q] = Interval
      BY DEF Prompts, Refreshes
    <3> QED
      BY <1>1, <1>2, <1>3, <1>4, <1>5, <2>1, <3>1, <3>2
  <2>3. CASE ~GossipTickDone(q)
    <3>1. timer'[q] = timer[q] /\ lost'[q] = lost[q]
      BY <1>8, <2>3, RefreshesStays
    <3>2. \/ book'[Peer(q)] = address'[q]
          \/ route[q] <= Grace
          \/ book[Peer(q)] # address[q] /\ (Prompts => Prompts')
      BY <1>8, <2>3, LearnedStays DEF Prompts
    <3> QED
      BY <1>1, <1>2, <1>3, <1>4, <1>5, <2>1, <3>1, <3>2
  <2> QED
    BY <2>2, <2>3
<1>9. ~Route(q)' => route'[q] = 0
  BY MeasuredStep DEF Measured
<1>10. Counted /\ ~Route(q) => route'[q] = 0
  BY DEF Counted, Measured
<1> QED
  BY <1>6, <1>7, <1>8, <1>9, <1>10 DEF Moved

-----------------------------------------------------------------------------
(* The invariant *)

\* The invariant holds at first.
LEMMA InitHolds ==
  ASSUME Init
  PROVE  PresenceInv
<1>1. NodesTyped /\ TimesTyped /\ DownIsEmpty
  <2>1. /\ 0 \in Time(MaxRestarts) /\ 0 \in Time(Window + Grace)
        /\ 0 \in Time(RequestTimeout + Settle) /\ 0 \in Time(2 * MaxDepartures + 1)
        /\ 0 \in Time(Deadline) /\ 0 \in Time(MaxSlow) /\ 0 \in Time(MaxPanics)
        /\ 0 \in Time(MaxDepartures) /\ 0 \in Time(MaxFaults)
    BY Deadlines DEF Time
  <2>2. [k \in Node |-> 0] \in Standings
    BY <2>1 DEF Standings
  <2>3. Idle \in Beat
    BY <2>1 DEF Idle, Beat, Stage
  <2>4. NodesTyped
    BY <2>1, <2>2, <2>3 DEF Init, NodesTyped, Counts
  <2>5. timer \in [Node -> Time(Interval)]
    BY PresenceAssumption DEF Init, Time
  <2>6. TimesTyped
    BY <2>1, <2>5 DEF Init, TimesTyped
  <2> QED
    BY <2>4, <2>6 DEF Init, DownIsEmpty
<1>2. TypeOK /\ Facts
  BY <1>1, TypeParts, TypeFacts
<1>3. Knowledge
  BY <1>2 DEF Init, Knowledge, Known, Idle, Facts
<1>4. ASSUME NEW n \in Node
      PROVE  /\ Running(n) /\ Enrolled(n) /\ Measured(n)
             /\ Outdated(n) /\ Learned(n) /\ Lingers(n)
  <2>1. /\ beat[n] = Idle /\ beat[Peer(n)] = Idle /\ up[n]
        /\ late[n] = None /\ late[Peer(n)] = None /\ seen[n] = None
        /\ gone[n] = 0 /\ route[n] = 0 /\ timer[n] \in Nat /\ timer[n] <= Interval
        /\ lost[n] = 0
    BY <1>2, Peers DEF Init, Facts
  <2>2. timer[n] <= Grace + Span(0)
    <3>1. Grace \in Nat /\ Span(0) \in Nat /\ Span(0) >= Interval /\ Interval \in Nat
      BY Deadlines, Spans, PresenceAssumption
    <3> QED
      BY <2>1, <3>1
  <2>3. Running(n) /\ Enrolled(n) /\ Measured(n)
    BY <2>1 DEF Running, Enrolled, Measured, InFlight, Idle
  <2>4. Outdated(n) /\ Lingers(n)
    BY <2>1 DEF Outdated, Lingers, Idle
  <2>5. Learned(n)
    BY <2>1, <2>2 DEF Learned
  <2> QED
    BY <2>3, <2>4, <2>5
<1>5. ASSUME NEW n \in Node, NEW k \in Node
      PROVE  Refreshed(n, k)
  <2>1. Span(0) \in Nat /\ Span(0) >= Interval /\ Interval \in Nat
    BY Spans, PresenceAssumption
  <2>2. route[n] = 0 /\ timer[n] \in Nat /\ timer[n] <= Interval /\ lost[n] = 0
    BY <1>2 DEF Init, Facts
  <2> QED
    BY <2>1, <2>2 DEF Refreshed, Fresh
<1> QED
  BY <1>2, <1>3, <1>4, <1>5 DEF PresenceInv

\* Every step keeps it.
LEMMA NextHolds ==
  ASSUME PresenceInv, Next
  PROVE  PresenceInv'
<1>1. /\ TypeOK /\ Knowledge /\ DownIsEmpty
      /\ \A k \in Node : /\ Running(k) /\ Enrolled(k) /\ Measured(k)
                         /\ Outdated(k) /\ Learned(k) /\ Lingers(k)
      /\ \A n, k \in Node : Refreshed(n, k)
  BY TypeParts DEF PresenceInv
<1>2. Moved /\ NodesTyped' /\ TimesTyped'
  BY <1>1, NextMoves
<1>3. TypeOK'
  <2>1. DownIsEmpty'
    BY <1>1, <1>2, DownStep DEF DownIsEmpty
  <2> QED
    BY <1>2, <2>1
    DEF TypeOK, NodesTyped, TimesTyped, DownIsEmpty, Beat, Stage, Request, Counts
<1>4. Knowledge'
  BY <1>1, <1>2, KnowledgeStep
<1>5. ASSUME NEW n \in Node
      PROVE  (/\ Running(n) /\ Enrolled(n) /\ Measured(n)
              /\ Outdated(n) /\ Learned(n) /\ Lingers(n))'
  BY <1>1, <1>2, RunningStep, EnrolledStep, MeasuredStep, OutdatedStep, LearnedStep,
     LingersStep
<1>6. ASSUME NEW n \in Node, NEW k \in Node
      PROVE  Refreshed(n, k)'
  BY <1>1, <1>2, RefreshedStep
<1> QED
  BY <1>3, <1>4, <1>5, <1>6 DEF PresenceInv

\* So does a step that changes nothing.
LEMMA StutterHolds ==
  ASSUME PresenceInv, UNCHANGED vars
  PROVE  PresenceInv'
<1>1. TypeOK' /\ Knowledge'
  BY DEF PresenceInv, vars, TypeOK, Knowledge, Known, Listed, Idle
<1>2. ASSUME NEW n \in Node
      PROVE  (/\ Running(n) /\ Enrolled(n) /\ Measured(n)
              /\ Outdated(n) /\ Learned(n) /\ Lingers(n))'
  <2>1. /\ Running(n) /\ Enrolled(n) /\ Measured(n)
        /\ Outdated(n) /\ Learned(n) /\ Lingers(n)
    BY DEF PresenceInv
  <2> QED
    BY <2>1
    DEF vars, Running, Enrolled, Measured, Outdated, Learned, Lingers, InFlight, Listed,
        Route, Lists, PeerPresent, Refreshes
<1>3. ASSUME NEW n \in Node, NEW k \in Node
      PROVE  Refreshed(n, k)'
  <2>1. Refreshed(n, k)
    BY DEF PresenceInv
  <2> QED
    BY <2>1 DEF vars, Refreshed, Refreshes, Fresh, Listed
<1> QED
  BY <1>1, <1>2, <1>3 DEF PresenceInv

\* In every reachable state what a node knows of its peer is as old as its
\* timers allow (network.rs:301, presence.rs:33).
THEOREM PresenceInvariant == Spec => []PresenceInv
<1>1. Init => PresenceInv
  BY InitHolds
<1>2. PresenceInv /\ [Next]_vars => PresenceInv'
  BY NextHolds, StutterHolds
<1> QED
  BY <1>1, <1>2, PTL DEF Spec

\* Ages, deadlines and addresses stay within their bounds.
THEOREM PresenceTypes == Spec => []TypeOK
<1>1. PresenceInv => TypeOK
  BY DEF PresenceInv
<1> QED
  BY <1>1, PresenceInvariant, PTL

\* A device that stopped or left the mesh is shown connected for no longer than
\* the window and the time a handler may still take, however late its requests
\* are served (network.rs:249, presence.rs:33).
THEOREM PeerGoneIsNoticed == Spec => []GoneIsNoticed
<1>1. ASSUME PresenceInv, NEW n \in Node, gone[n] >= Window + Grace
      PROVE  ~Connected(n)
  <2>1. Facts /\ Lingers(n)
    BY <1>1, TypeParts, TypeFacts DEF PresenceInv
  <2>2. gone[n] \in Nat /\ (seen[n] # None => seen[n] \in Nat /\ gone[n] <= seen[n] + Grace)
    BY <2>1 DEF Facts, Lingers
  <2>3. Window \in Nat /\ Grace \in Nat
    BY Deadlines
  <2> QED
    BY <1>1, <2>2, <2>3 DEF Connected
<1>2. PresenceInv => GoneIsNoticed
  BY <1>1 DEF GoneIsNoticed
<1> QED
  BY <1>2, PresenceInvariant, PTL

\* A device that reaches its peer has its current address there, whatever third
\* devices forward and whatever requests of its earlier runs are still served
\* (storage.rs:260).
THEOREM PeerLearnsAddress == Spec => []AddressRecovers
<1>1. ASSUME PresenceInv, NEW n \in Node, route[n] >= RequestTimeout + Settle
      PROVE  book[Peer(n)] = address[n]
  <2>1. Facts /\ Learned(n)
    BY <1>1, TypeParts, TypeFacts DEF PresenceInv
  <2>2. /\ route[n] \in Nat /\ timer[n] \in Nat
        /\ lost[n] \in Nat /\ lost[n] <= MaxSlow
    BY <2>1 DEF Facts
  <2>3. /\ Span(lost[n]) \in Nat /\ Span(MaxSlow) \in Nat
        /\ Span(lost[n]) <= Span(MaxSlow)
    BY <2>2, Spans, Deadlines
  <2>4. route[n] > Grace + Span(MaxSlow)
    <3>1. Settle = Span(MaxSlow) + Deadline
      BY Deadlines
    <3> HIDE DEF Span, Settle
    <3> QED
      BY <1>1, <2>2, <2>3, <3>1, Deadlines
  <2>5. Grace \in Nat
    BY Deadlines
  <2> HIDE DEF Span
  <2> QED
    BY <2>1, <2>2, <2>3, <2>4, <2>5 DEF Learned
<1>2. PresenceInv => AddressRecovers
  BY <1>1 DEF AddressRecovers
<1> QED
  BY <1>2, PresenceInvariant, PTL

\* Where the window outlasts the heartbeats that may be lost in a row, two devices
\* of which one reaches the other show each other connected, from the time that one
\* heartbeat needs and for as long as the route lasts (network.rs:319).
THEOREM ReachableIsConnected ==
  ASSUME WindowOutlastsLosses
  PROVE  Spec => []ConnectedWhileReachable
<1>1. ASSUME PresenceInv, NEW n \in Node, route[n] >= Settle, NEW k \in Node
      PROVE  Connected(k)
  <2>1. Facts /\ Refreshed(n, k) /\ Measured(n)
    BY <1>1, TypeParts, TypeFacts DEF PresenceInv
  <2>2. /\ route[n] \in Nat /\ timer[n] \in Nat
        /\ lost[n] \in Nat /\ lost[n] <= MaxSlow
        /\ seen[k] # None => seen[k] \in Nat
    BY <2>1 DEF Facts
  <2>3. /\ Span(lost[n]) \in Nat /\ Span(MaxSlow) \in Nat
        /\ Span(lost[n]) <= Span(MaxSlow)
    BY <2>2, Spans, Deadlines
  <2>4. /\ Settle = Span(MaxSlow) + Deadline /\ Deadline \in Nat /\ Deadline >= 1
        /\ Window \in Nat
    BY Deadlines
  <2>5. Span(MaxSlow) < Window
    BY DEF WindowOutlastsLosses
  <2> HIDE DEF Span, Settle, Deadline
  <2>6. seen[k] # None /\ seen[k] < Window
    <3>1. Fresh(n, k, Span(MaxSlow))
      BY <2>1, <2>2, <2>3 DEF Refreshed, Fresh
    <3> QED
      BY <1>1, <2>2, <2>3, <2>4, <2>5, <3>1 DEF Fresh
  <2>7. Lists(k)
    <3>1. Route(n)
      BY <1>1, <2>1, <2>4, <2>3 DEF Measured
    <3> QED
      BY <3>1 DEF Route
  <2> QED
    BY <2>6, <2>7 DEF Connected
<1>2. PresenceInv => ConnectedWhileReachable
  BY <1>1, Peers DEF ConnectedWhileReachable
<1> QED
  BY <1>2, PresenceInvariant, PTL

=============================================================================
