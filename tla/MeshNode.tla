------------------------------- MODULE MeshNode -------------------------------
(* Devices running spirit-node: the state each keeps on disk and in memory,  *)
(* and the protocol by which they enrol one another and exchange membership  *)
(* (rust/crates/node/src/lib.rs, network.rs, storage.rs).                    *)
(*                                                                           *)
(* A request is one connection: it is sent, handled at the receiver (merge   *)
(* and save), answered with a snapshot taken afterwards, and finished at the *)
(* sender (merge and save).  It may be lost at any point, and the sender may *)
(* stop waiting for a request that is handled later all the same.            *)
(*                                                                           *)
(* Simplifications: network addresses and heartbeats are left out (a save    *)
(* that only changes addresses shows only when it fails, as a request that is*)
(* lost), a ticket is its secret, and a device has one nickname for life.    *)
EXTENDS Membership, SequencesExt

CONSTANTS
  NameOf,        \* the nickname each device was initialised with
  Secret,        \* the secrets of all tickets ever issued
  MaxDeparted,   \* MAX_DEPARTED_MESHES, 64 in the code
  MaxAdds,       \* bound: enrolments under way at once
  MaxSyncs,      \* bound: membership exchanges under way at once
  MaxStops,      \* bound: stops and crashes
  MaxLosses,     \* bound: connections lost or given up
  MaxFaults      \* bound: saves that return an error

\* `departed' maps an id to the copy of the mesh that was left, None when the
\* map lacks the id; `order' lists those ids, the oldest departure first.
State == [mesh : Mesh \cup {None},
          departed : [MeshId -> Mesh \cup {None}],
          order : Seq(MeshId)]

ASSUME MeshNodeAssumption ==
  /\ NameOf \in [Node -> Nickname]
  /\ None \notin Secret \cup Mesh \cup State
  /\ MaxDeparted \in Nat \ {0}
  /\ {MaxAdds, MaxSyncs, MaxStops, MaxLosses, MaxFaults} \subseteq Nat

VARIABLES
  disk,      \* state.json of each device
  mem,       \* Shared.state of each running node, None for a stopped one
  pending,   \* the ticket a running node will accept, or None
  owner,     \* the device that issued each secret, None if not issued yet
  expired,   \* secrets past their lifetime on the issuing device's clock
  calls,     \* requests under way
  created,   \* history: random ids that were drawn
  left,      \* history: <<device, mesh id, generation>> that were departed
  redeemed,  \* history: how often each secret enrolled its device
  spent      \* how much of each bound is used up

vars == <<disk, mem, pending, owner, expired, calls, created, left, redeemed, spent>>
offline == <<mem, pending, owner, expired, calls, redeemed>>
history == <<created, left>>

Self(n) == [id |-> n, name |-> NameOf[n]]

Call == [kind : {"pair", "sync"}, from : Node, to : Node,
         secret : Secret \cup {None}, phase : {"sent", "merged", "answered"},
         mesh : Mesh \cup {None}, waiting : BOOLEAN]

Running(n) == mem[n] # None
Enrolled(state) == state.mesh # None

-----------------------------------------------------------------------------
(* Saving: write_private either replaces the file and syncs the directory    *)
(* ("saved"), fails before the rename ("failed"), or fails after it, when    *)
(* the new file is already in place ("landed").                              *)

Outcome == {"saved", "failed", "landed"}

Fault(outcome) ==
  IF outcome = "saved" THEN UNCHANGED spent
  ELSE /\ spent.faults < MaxFaults
       /\ spent' = [spent EXCEPT !.faults = @ + 1]

WriteDisk(n, next, outcome) ==
  /\ Fault(outcome)
  /\ disk' = IF outcome = "failed" THEN disk ELSE [disk EXCEPT ![n] = next]

\* Faulty variant: memory is assigned before the save is known to have worked.
SaveAfterAssign(n, next, outcome) ==
  /\ WriteDisk(n, next, outcome)
  /\ mem' = [mem EXCEPT ![n] = next]

\* A running node assigns its memory only when the save returned Ok.
SaveAndAssign(n, next, outcome) ==
  /\ WriteDisk(n, next, outcome)
  /\ mem' = IF outcome = "saved" THEN [mem EXCEPT ![n] = next] ELSE mem

-----------------------------------------------------------------------------
(* Storage::read, State::merge and State::leave *)

Kept(state) == {id \in MeshId : state.departed[id] # None}

\* The checks of Storage::read: without them the node does not open again.
Readable(n, state) ==
  /\ Enrolled(state) => Verify(state.mesh) /\ Self(n) \in Members(state.mesh)
  /\ Cardinality(Kept(state)) <= MaxDeparted
  /\ Range(state.order) \subseteq Kept(state)
  /\ \A i, j \in DOMAIN state.order : state.order[i] = state.order[j] => i = j
  /\ \A id \in Kept(state) :
       LET copy == state.departed[id]
       IN  /\ copy.identity.id = id
           /\ Verify(copy) /\ Departed(copy, n)
           /\ Enrolled(state) => state.mesh.identity.id # id

\* Departed meshes that the order lacks are put at its end.
Opened(state) ==
  [state EXCEPT !.order = @ \o SetToSeq(Kept(state) \ Range(@))]

\* `retain': the order lists an id once.
Without(order, id) ==
  IF id \in Range(order)
  THEN LET i == CHOOSE i \in DOMAIN order : order[i] = id
       IN  SubSeq(order, 1, i - 1) \o SubSeq(order, i + 1, Len(order))
  ELSE order

Combined(state, mesh) ==
  IF Enrolled(state) THEN Merged(state.mesh, mesh) ELSE mesh

\* Shared::merge and State::merge succeed for a snapshot sent by `source'.
Accepts(n, state, mesh, source) ==
  /\ Verify(mesh) /\ IsMember(mesh, source)
  /\ Self(n) \in Members(mesh)
  /\ Enrolled(state) => Mergeable(state.mesh, mesh)
  /\ mesh.identity.id \in Kept(state) =>
       LET base == Combined(state, mesh)
           own == state.departed[mesh.identity.id]
       IN  Mergeable(base, own) /\ IsMember(Merged(base, own), n)

MergeState(state, mesh) ==
  LET id == mesh.identity.id
      base == Combined(state, mesh)
  IN  IF id \in Kept(state)
      THEN [mesh |-> Merged(base, state.departed[id]),
            departed |-> [state.departed EXCEPT ![id] = None],
            order |-> Without(state.order, id)]
      ELSE [state EXCEPT !.mesh = base]

\* The oldest departed copy has to go before one of mesh `id' is put in.
Evicts(state, id) ==
  Cardinality(Kept(state)) = MaxDeparted /\ id \notin Kept(state)

\* Faulty variant: the copy that goes stays in the departure order.
LeaveLeavingOrder(n, state) ==
  LET mesh == Depart(state.mesh, n)
      id == mesh.identity.id
      rest == Without(state.order, id)
      others == IF Evicts(state, id) THEN [state.departed EXCEPT ![Head(rest)] = None]
                ELSE state.departed
  IN  IF Members(mesh) = {} THEN [state EXCEPT !.mesh = None]
      ELSE [mesh |-> None, departed |-> [others EXCEPT ![id] = mesh],
            order |-> Append(rest, id)]

\* The departed copy is kept only if this device knows of other members.
LeaveState(n, state) ==
  LET mesh == Depart(state.mesh, n)
      id == mesh.identity.id
      rest == Without(state.order, id)
      oldest == Head(rest)
  IN  IF Members(mesh) = {} THEN [state EXCEPT !.mesh = None]
      ELSE IF Evicts(state, id)
      THEN [mesh |-> None,
            departed |-> [state.departed EXCEPT ![oldest] = None, ![id] = mesh],
            order |-> Append(Without(rest, oldest), id)]
      ELSE [mesh |-> None,
            departed |-> [state.departed EXCEPT ![id] = mesh],
            order |-> Append(rest, id)]

\* State::leave succeeds: it fails with "missing oldest departure" when it
\* has to evict a copy and the order names none.
CanLeave(n, state) ==
  LET mesh == Depart(state.mesh, n)
      id == mesh.identity.id
  IN  /\ CanDepart(state.mesh, n)
      /\ Members(mesh) # {} /\ Evicts(state, id) => Without(state.order, id) # << >>

\* Shared::merge at a running node; an unchanged state is not saved again.
MergeAndSave(n, mesh, outcome) ==
  LET next == MergeState(mem[n], mesh)
  IN  IF next = mem[n]
      THEN outcome = "saved" /\ UNCHANGED <<disk, mem, spent>>
      ELSE SaveAndAssign(n, next, outcome)

-----------------------------------------------------------------------------
(* Operations on a stopped node: each takes the lock on its directory, works *)
(* on the saved state and saves it once.                                     *)

NoMesh == [mesh |-> None, departed |-> [id \in MeshId |-> None], order |-> <<>>]

Init ==
  /\ disk = [n \in Node |-> NoMesh]
  /\ mem = [n \in Node |-> None]
  /\ pending = [n \in Node |-> None]
  /\ owner = [s \in Secret |-> None]
  /\ expired = {}
  /\ calls = {}
  /\ created = {}
  /\ left = {}
  /\ redeemed = [s \in Secret |-> 0]
  /\ spent = [stops |-> 0, losses |-> 0, faults |-> 0]

NewIdentity(n, id, name) == [id |-> id, name |-> name, founder |-> n]

CreateMesh(n, id, name, outcome) ==
  /\ ~Running(n) /\ Readable(n, disk[n])
  /\ ~Enrolled(disk[n])
  /\ id \notin created
  /\ created' = created \cup {id}
  /\ WriteDisk(n, [Opened(disk[n]) EXCEPT !.mesh =
                     Founding(NewIdentity(n, id, name), Self(n))], outcome)
  /\ UNCHANGED offline /\ UNCHANGED left

LeaveMesh(n, outcome) ==
  /\ ~Running(n) /\ Readable(n, disk[n])
  /\ Enrolled(disk[n]) /\ CanLeave(n, Opened(disk[n]))
  /\ WriteDisk(n, LeaveState(n, Opened(disk[n])), outcome)
  /\ left' = IF outcome = "failed" THEN left
             ELSE left \cup {<<n, disk[n].mesh.identity.id,
                               LatestAdmission(disk[n].mesh, n).generation>>}
  /\ UNCHANGED offline /\ UNCHANGED created

Bind(n) ==
  /\ ~Running(n) /\ Readable(n, disk[n])
  /\ mem' = [mem EXCEPT ![n] = Opened(disk[n])]
  /\ UNCHANGED <<disk, pending, owner, expired, calls, redeemed, spent>>
  /\ UNCHANGED history

\* Requests of a node that stops are handled later if they were delivered;
\* requests being handled at a node that stops are lost.
Stop(n) ==
  /\ Running(n)
  /\ spent.stops < MaxStops
  /\ spent' = [spent EXCEPT !.stops = @ + 1]
  /\ mem' = [mem EXCEPT ![n] = None]
  /\ pending' = [pending EXCEPT ![n] = None]
  /\ calls' = {c \in calls : n \notin {c.from, c.to}}
         \cup {[c EXCEPT !.waiting = FALSE] :
                 c \in {x \in calls : x.from = n /\ x.phase = "sent"}}
  /\ UNCHANGED <<disk, owner, expired, redeemed>>
  /\ UNCHANGED history

-----------------------------------------------------------------------------
(* Operations of a running node *)

NewMesh(n, id, name, outcome) ==
  /\ Running(n)
  /\ ~Enrolled(mem[n])
  /\ id \notin created
  /\ created' = created \cup {id}
  /\ SaveAndAssign(n, [mem[n] EXCEPT !.mesh = Founding(NewIdentity(n, id, name), Self(n))],
                   outcome)
  /\ UNCHANGED <<pending, owner, expired, calls, redeemed, left>>

\* A new ticket replaces the one before it.
Pair(n, s) ==
  /\ Running(n)
  /\ owner[s] = None
  /\ owner' = [owner EXCEPT ![s] = n]
  /\ pending' = [pending EXCEPT ![n] = s]
  /\ UNCHANGED <<disk, mem, expired, calls, redeemed, spent>>
  /\ UNCHANGED history

\* Time passes the end of a ticket's lifetime.
Expire(s) ==
  /\ owner[s] # None /\ s \notin expired
  /\ expired' = expired \cup {s}
  /\ UNCHANGED <<disk, mem, pending, owner, calls, redeemed, spent>>
  /\ UNCHANGED history

Request(kind, n, p, secret, mesh) ==
  [kind |-> kind, from |-> n, to |-> p, secret |-> secret, phase |-> "sent",
   mesh |-> mesh, waiting |-> TRUE]

UnderWay(kind) == {c \in calls : c.kind = kind}

\* `add' signs the admission into the snapshot it sends and nowhere else.
Add(n, s) ==
  /\ Running(n) /\ Enrolled(mem[n])
  /\ owner[s] \in Node \ {n}
  /\ CanAdmit(mem[n].mesh, Self(owner[s]), n)
  /\ Cardinality(UnderWay("pair")) < MaxAdds
  /\ calls' = calls \cup {Request("pair", n, owner[s], s,
                                  Admit(mem[n].mesh, Self(owner[s]), n))}
  /\ UNCHANGED <<disk, mem, pending, owner, expired, redeemed, spent>>
  /\ UNCHANGED history

\* One heartbeat of `gossip' or one `ping': membership is exchanged first.
\* `in_flight' allows one to each peer at a time.
Gossip(n, p) ==
  /\ Running(n) /\ Enrolled(mem[n])
  /\ p \in MemberIds(mem[n].mesh) \ {n}
  /\ \A c \in calls : ~(c.kind = "sync" /\ c.from = n /\ c.to = p /\ c.waiting)
  /\ Cardinality(UnderWay("sync")) < MaxSyncs
  /\ calls' = calls \cup {Request("sync", n, p, None, mem[n].mesh)}
  /\ UNCHANGED <<disk, mem, pending, owner, expired, redeemed, spent>>
  /\ UNCHANGED history

-----------------------------------------------------------------------------
(* The receiving side *)

\* The reply is still owed to a sender that waits for it.
Handled(c) ==
  (calls \ {c}) \cup
    (IF c.waiting THEN {[c EXCEPT !.phase = "merged", !.mesh = None]} ELSE {})

\* The checks of Shared::enroll before the merge, made under the pending lock.
AdmissiblePair(c) ==
  pending[c.to] # None /\ pending[c.to] = c.secret /\ c.secret \notin expired

\* Faulty variant: the ticket stays valid after it enrolled the device.
EnrollWithoutConsuming(c, outcome) ==
  /\ c.kind = "pair" /\ c.phase = "sent" /\ Running(c.to)
  /\ AdmissiblePair(c)
  /\ Accepts(c.to, mem[c.to], c.mesh, c.from)
  /\ MergeAndSave(c.to, c.mesh, outcome)
  /\ redeemed' = [redeemed EXCEPT ![c.secret] = @ + 1]
  /\ calls' = Handled(c)
  /\ UNCHANGED <<pending, owner, expired>> /\ UNCHANGED history

\* The ticket is consumed once the membership it brought is saved.
Enroll(c, outcome) ==
  /\ c.kind = "pair" /\ c.phase = "sent" /\ Running(c.to)
  /\ AdmissiblePair(c)
  /\ Accepts(c.to, mem[c.to], c.mesh, c.from)
  /\ MergeAndSave(c.to, c.mesh, outcome)
  /\ IF outcome = "saved"
     THEN /\ pending' = [pending EXCEPT ![c.to] = None]
          /\ redeemed' = [redeemed EXCEPT ![c.secret] = @ + 1]
          /\ calls' = Handled(c)
     ELSE /\ UNCHANGED <<pending, redeemed>>
          /\ calls' = calls \ {c}
  /\ UNCHANGED <<owner, expired>> /\ UNCHANGED history

\* Faulty variant: the "device is not enrolled" check is missing.
AnswersSyncAlways(c) == Accepts(c.to, mem[c.to], c.mesh, c.from)

\* A device that is in no mesh never takes one over from a sync request.
AnswersSync(c) ==
  Enrolled(mem[c.to]) /\ Accepts(c.to, mem[c.to], c.mesh, c.from)

\* Faulty variant: the sender learns what the receiver knows, not the reverse.
AnswerSyncWithoutMerging(c, outcome) ==
  /\ c.kind = "sync" /\ c.phase = "sent" /\ Running(c.to)
  /\ AnswersSync(c)
  /\ outcome = "saved" /\ calls' = Handled(c)
  /\ UNCHANGED <<disk, mem, pending, owner, expired, redeemed, spent>>
  /\ UNCHANGED history

AnswerSync(c, outcome) ==
  /\ c.kind = "sync" /\ c.phase = "sent" /\ Running(c.to)
  /\ calls' = IF outcome = "saved" THEN Handled(c) ELSE calls \ {c}
  /\ AnswersSync(c)
  /\ MergeAndSave(c.to, c.mesh, outcome)
  /\ UNCHANGED <<pending, owner, expired, redeemed>> /\ UNCHANGED history

\* The receiver reports an error, or closes the connection without a reply.
Refuse(c) ==
  /\ c.phase = "sent" /\ Running(c.to)
  /\ calls' = calls \ {c}
  /\ IF c.kind = "pair"
     THEN ~(AdmissiblePair(c) /\ Accepts(c.to, mem[c.to], c.mesh, c.from))
     ELSE ~AnswersSync(c)
  /\ UNCHANGED <<disk, mem, pending, owner, expired, redeemed, spent>>
  /\ UNCHANGED history

\* The reply is a snapshot taken after the merge, under the lock again.
Reply(c) ==
  /\ c.phase = "merged"
  /\ calls' = (calls \ {c}) \cup
                {[c EXCEPT !.phase = "answered", !.mesh = mem[c.to].mesh]}
  /\ UNCHANGED <<disk, mem, pending, owner, expired, redeemed, spent>>
  /\ UNCHANGED history

-----------------------------------------------------------------------------
(* The sending side *)

\* `add' and `sync' merge the reply as a snapshot sent by the peer.
AcceptsReply(c) ==
  /\ c.kind = "pair" => Self(c.to) \in Members(c.mesh)
  /\ Accepts(c.from, mem[c.from], c.mesh, c.to)

Finish(c, outcome) ==
  /\ c.phase = "answered"
  /\ calls' = calls \ {c}
  /\ IF AcceptsReply(c) THEN MergeAndSave(c.from, c.mesh, outcome)
     ELSE outcome = "saved" /\ UNCHANGED <<disk, mem, spent>>
  /\ UNCHANGED <<pending, owner, expired, redeemed>> /\ UNCHANGED history

\* The connection fails, or the sender gives up when there is nothing to come.
Lose(c) ==
  /\ spent.losses < MaxLosses
  /\ spent' = [spent EXCEPT !.losses = @ + 1]
  /\ calls' = calls \ {c}
  /\ UNCHANGED <<disk, mem, pending, owner, expired, redeemed>>
  /\ UNCHANGED history

\* The sender gives up on a request that has been delivered.
Timeout(c) ==
  /\ c.phase = "sent" /\ c.waiting
  /\ spent.losses < MaxLosses
  /\ spent' = [spent EXCEPT !.losses = @ + 1]
  /\ calls' = (calls \ {c}) \cup {[c EXCEPT !.waiting = FALSE]}
  /\ UNCHANGED <<disk, mem, pending, owner, expired, redeemed>>
  /\ UNCHANGED history

-----------------------------------------------------------------------------

Deliver(c) ==
  \/ \E outcome \in Outcome : Enroll(c, outcome) \/ AnswerSync(c, outcome)
  \/ Refuse(c)

Next ==
  \/ \E n \in Node :
       \/ \E id \in RandomMeshId, name \in MeshName, outcome \in Outcome :
            CreateMesh(n, id, name, outcome) \/ NewMesh(n, id, name, outcome)
       \/ \E outcome \in Outcome : LeaveMesh(n, outcome)
       \/ Bind(n)
       \/ Stop(n)
       \/ \E s \in Secret : Pair(n, s) \/ Add(n, s)
       \/ \E p \in Node : Gossip(n, p)
  \/ \E s \in Secret : Expire(s)
  \/ \E c \in calls :
       \/ Deliver(c)
       \/ Reply(c)
       \/ \E outcome \in Outcome : Finish(c, outcome)
       \/ Lose(c)
       \/ Timeout(c)

Spec == Init /\ [][Next]_vars

(* Fairness: the gossip task of a running node ticks for each peer every five*)
(* seconds, and the runtime polls the task of every connection and every     *)
(* waiting sender.  The code has no bound like MaxSyncs: where that bound    *)
(* makes one exchange wait for another, strong fairness lets none wait for   *)
(* ever.  Nothing forces a stopped node to start again or a person to use a  *)
(* ticket.                                                                   *)
Exchange(n, p) ==
  \E c \in UnderWay("sync") :
    /\ c.from = n /\ c.to = p
    /\ \/ Deliver(c)
       \/ Reply(c)
       \/ \E outcome \in Outcome : Finish(c, outcome)

Fairness ==
  \A n \in Node : \A p \in Node \ {n} :
    SF_vars(Gossip(n, p)) /\ WF_vars(Exchange(n, p))

-----------------------------------------------------------------------------
(* Properties *)

TypeOK ==
  /\ disk \in [Node -> State]
  /\ mem \in [Node -> State \cup {None}]
  /\ pending \in [Node -> Secret \cup {None}]
  /\ owner \in [Secret -> Node \cup {None}]
  /\ expired \subseteq Secret
  /\ calls \subseteq Call
  /\ created \subseteq RandomMeshId
  /\ left \subseteq Node \X MeshId \X Generation
  /\ redeemed \in [Secret -> Nat]
  /\ spent \in [stops : 0 .. MaxStops, losses : 0 .. MaxLosses, faults : 0 .. MaxFaults]

\* Whatever was saved, by whichever operation and however the save ended,
\* passes every check of Storage::read: a device can always be started again
\* (storage.rs:156).
SavedStateReopens == \A n \in Node : Readable(n, disk[n])

\* What a running node shows, and has told its peers, survives a crash: its
\* file holds every record its memory holds, for the same mesh, even when
\* saves have failed before or after replacing the file (network.rs:115).
ShownIsDurable ==
  \A n \in Node :
    Running(n) /\ Enrolled(mem[n]) =>
      /\ Enrolled(disk[n])
      /\ mem[n].mesh.identity = disk[n].mesh.identity
      /\ mem[n].mesh.admissions \subseteq disk[n].mesh.admissions
      /\ mem[n].mesh.departures \subseteq disk[n].mesh.departures

\* Whoever lists a device, the device itself has saved that membership, or
\* has left it since: an introducer records a new member only after the
\* member's own save (network.rs:199, lib.rs:289).
ListedDevicesJoined ==
  \A n \in Node :
    \A state \in {disk[n], mem[n]} \ {None} :
      Enrolled(state) =>
        \A d \in MemberIds(state.mesh) :
          LET id == state.mesh.identity.id
          IN  \/ Enrolled(disk[d]) /\ disk[d].mesh.identity.id = id
              \/ <<d, id, LatestAdmission(state.mesh, d).generation>> \in left

\* One ticket enrols its device once, whoever holds it and however requests
\* with it are delayed or repeated (network.rs:200).
TicketRedeemedOnce == \A s \in Secret : redeemed[s] <= 1

\* A running device in no mesh comes into a mesh another device is in only
\* by consuming a ticket it has outstanding: neither a peer that still lists
\* it nor a request left over from before makes it join (network.rs:272).
JoinsByInvitation ==
  [][\A n \in Node :
       /\ Running(n) /\ ~Enrolled(mem[n])
       /\ mem'[n] # None /\ Enrolled(mem'[n])
       /\ mem'[n].mesh.identity.id \in created
       => pending[n] # None /\ pending'[n] = None]_vars

\* As the design states it (wiki/design/nodes.md:33): re-enrolment into a mesh
\* the device left is refused while the introducer has not learned of the
\* departure, so a device never comes back by an admission it has departed.
ReenrollmentRefused ==
  [][\A n \in Node :
       /\ Running(n) /\ ~Enrolled(mem[n])
       /\ mem'[n] # None /\ Enrolled(mem'[n])
       => <<n, mem'[n].mesh.identity.id,
            LatestAdmission(mem'[n].mesh, n).generation>> \notin left]_vars

\* A running device that lists another one in its mesh and can merge its
\* copy of that mesh lists the same members as it.  Copies whose union goes
\* beyond a limit stay apart (wiki/design/nodes.md:55).
Agreed ==
  \A n, p \in Node :
    /\ Running(n) /\ Enrolled(mem[n]) /\ Running(p) /\ Enrolled(mem[p])
    /\ p \in MemberIds(mem[n].mesh) /\ Mergeable(mem[n].mesh, mem[p].mesh)
    => Members(mem[n].mesh) = Members(mem[p].mesh)

\* When all devices stay up, a device and whoever it lists in its mesh come to
\* list the same members and keep doing so, also when the acknowledgment of an
\* enrolment was lost and only the new member knows of it
\* (wiki/design/nodes.md:25, 29).  It says nothing of two members who were never
\* told of each other: they come to agree only through a device that lists
\* both or is listed by both before it leaves (wiki/design/nodes.md:57).
MembershipConverges ==
  (\A n \in Node : <>[]Running(n)) => <>[]Agreed
=============================================================================
