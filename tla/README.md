# A verification project for spirit-library

Devices of one person form a *mesh*: a log of signed admissions and departures
that every member keeps a copy of and exchanges with the others. This directory
holds TLA+ models of the code that keeps and exchanges that log, of the files a
node and its local service share, of presence and heartbeats, of the handles and
sessions through which apps use a node, of transform documents, and of the
content-addressed blob store, with the runs that model-check them with TLC and proofs
that TLAPS checks.

Paths below are relative to the repository (`rust/crates/node/src/` where no
directory is given).

## The system

| component | state | operations | talks to |
| --- | --- | --- | --- |
| membership log (`membership.rs`, `mesh_id.rs`) | `Mesh`: id, name, founder, admissions, departures | `create`, `verify`, `admit`, `depart`, `merge`, `members` | values only |
| node state (`storage.rs`) | `state.json`: own member, mesh, addresses, departed meshes; `secret.key`; `node.lock` | `init`, `open`, `read`, `save`; `State::merge`, `leave` | file system |
| node (`lib.rs`, `network.rs`) | `Shared`: state, pending ticket, presence | `bind`, `new_mesh`, `pair`, `add`, `ping`, background `gossip`, `shutdown`; offline `create_mesh`, `leave_mesh` | peers, over three protocols (pair, sync, ping) |
| presence (`presence.rs`, `gossip` in `network.rs`) | last heartbeat and last error per peer, the set of peers in flight | `heartbeat_received`, `failed`, `status`; ticks, heartbeat tasks | node |
| address book (`State.addresses`) | an address per member | part of every exchange | node, presence |
| local control (`cli/src/control.rs`) | `control.json`, a loopback port, a credential | `serve`, `request_if_running` | the command line and the service |
| blob store (`core/src/store.rs`) | a directory of files named by hash | `put`, `get`, `has` | command line, FFI |
| transform documents (`core/src/transform.rs`) | none | encode, hash, parse | blob store |
| node handle (`ffi/src/node.rs`, `SpiritNode.kt`) | the open node or nothing, whether it was closed | `open`, forwarders, `shutdown`, `close` | node |
| pairing session (`PairingSession.kt`) | published state, ticket expiry, peer samples, three mutexes | `run`, `refreshTicket`, `pair`, `reportError` | node handle, user interface |
| command line, demo apps, build logic | none of their own | | |

What is hard here, and what makes each part correct:

* **Log.** Copies diverge and are merged in any order. They must stay mutually
  acceptable, list the same devices once merged, and never bring back a device
  that left by way of a stale copy. `admit` and `depart` do not verify their result.
* **Node.** An enrolment is a save on one device, an answer that may be lost, and a
  save on the other. Tickets are used once, replaced, expire and race. A save may fail
  before or after the file was replaced. What a node shows must survive its crash,
  what it saves must open again, and members who know of each other must come to agree.
* **Directory.** Several processes check, lock, read and write one directory and are
  killed between any two steps. Keys and states must fit together, reported results
  must last, a running service must be found.
* **Blob store.** Processes and threads share a directory without a lock.
* **Presence.** Heartbeats have deadlines, skip a peer whose last one is under way, and
  may arrive late; devices come back with another address, which only a device that
  reaches them, or a third one, can tell. A peer must be shown connected when it is
  reachable, soon, and not when it is gone.
* **Node handle.** Threads call, close and reopen a node; it keeps its directory locked
  until the last task that refers to it has ended.
* **Pairing session.** Coroutines share a node and are cancelled at any suspension.
* **Transform documents.** Two different documents must not have the same bytes.

`PROJECT.json` lists each hazard with its line and the properties that cover it.

## Modules

### Membership, MeshCopies, Standing

`Membership` has the log as operators with the names of the source: `Verify` is
`Mesh::verify` (one operator for each of its checks), `CanAdmit`/`Admit`,
`CanDepart`/`Depart` and `Mergeable`/`Merged` are the guard and the result of the
three operations. A record *carries* what its signature covers — the identity of the
mesh, `sealed` — so a record is valid in exactly the meshes its payload matches:
admissions of generation 0 and later ones are signed over different payloads, legacy
meshes (whose id is the founder's key) have no separate founder. Only the owner of a
key signs with it; this is the only assumption about cryptography. Admissions and
departures are sets: `verify` refuses duplicates, `merge` never adds one, and the order
matters only to the tracing loop, which `TrustLoop` models as it is written.
`MaxAdmissions` and `MaxGeneration` stand for 256 and 2^32 - 1.

`MeshCopies` lets any number of copies be changed by the three operations in any
order. A `Mesh` in a node's memory, in its file, in a snapshot on its way, or among
the meshes it left is such a copy, so what holds here holds for every exchange the
node may have. `Standing` is the abstract specification: in each copy, each device has
a number that only grows — never admitted, member of generation g, left generation
g — and merging takes the larger number. `MeshCopies` implements it.

Some copies cannot be merged: one (device, generation) was admitted under two
nicknames, or the union exceeds the limit on admissions (`wiki/design/nodes.md:55`).
`MergeBlockedOnlyByLimits` says that nothing else is in the way, and `ConflictsAreFinal` that
such a merge is refused on both sides, so that neither device goes on alone with a union
the other cannot take, and that nothing resolves the conflict later.

### TrustLoop

The loop at the end of `Mesh::verify`, over the records in stored order: `Visit` is the
body of the inner loop, for one record, `EndPass` what follows it, for every list of up to
`MaxRecords` records over the devices, duplicates and cycles included. It is compared with
`Traceable`, the least-set definition `Verify` uses.

### MeshNode

| code | model |
| --- | --- |
| `state.json`, `Shared.state` | `disk[n]`, `mem[n]` (`None` when stopped) |
| `State.mesh`, the map `departed`, the list `departure_order` | fields `mesh`, `departed` (a copy or `None` for each id), `order` |
| `Storage::read` with its checks, and the order it completes | `Readable`, `Opened` |
| `State::merge`, `State::leave` with the eviction of the oldest | `Accepts`, `MergeState`; `CanLeave`, `LeaveState`, `Evicts` |
| `Shared.pending`, ticket lifetime | `pending`, `owner`, `expired` |
| a connection and its two tasks | a record in `calls`, with phase `sent`, `merged`, `answered` |
| `create_mesh`, `leave_mesh`, `bind`, `shutdown` or a crash | `CreateMesh`, `LeaveMesh`, `Bind`, `Stop` |
| `new_mesh`, `pair`, `add`, `gossip` and `ping` | `NewMesh`, `Pair`, `Add`, `Gossip` |
| `enroll`, the sync branch of `respond`, error replies | `Enroll`, `AnswerSync`, `Refuse` |
| the snapshot in the reply, the sender's merge | `Reply`, `Finish` |
| connection lost, sender's timeout | `Lose`, `Timeout` |

The handlers do not await while they hold `state` or `pending`, so a merge with its
save is one action; the snapshot in the reply is taken under the lock again and is
another. A save has three outcomes: `saved`, `failed` before the rename, and `landed`,
when the rename was done but syncing the directory failed and the caller gets an error
although the file changed. `created`, `left` and `redeemed` are history. No operation
waits for one mutex while it holds another except `enroll`, which takes `state` inside
`pending`, so there is no deadlock to model.

The map of departed meshes and its order are kept apart, as in the code: an order that
names a mesh the map no longer has, or names one twice, makes `Storage::read` fail, and
`SavedStateReopens` says that no operation saves one. A leave that evicts the oldest copy
but leaves its id in the order is the mutant of that property.

`MembershipConverges` is about a device and whoever it lists, whether or not the latter
knows of it. Two members that were never told of each other need not come to agree. Say a
founder enrols n2 and n3 and loses both acknowledgments; it leaves offline, believing it
is alone, and starts again. n2 lists the founder and itself, n3 the founder and itself, and
the founder refuses their exchanges as it is not enrolled (`network.rs:272`). The design
has this as a premise: members "must have exchanged membership and usable addresses before
the introducer goes offline" (`wiki/design/nodes.md:57`); lines 25 and 29, on repair after a
lost acknowledgment and on every copy converging, do not repeat it. The property excepts
copies that cannot be merged, which `MeshCopies` is about.

Departures: at this commit a departure is signed by the offline `leave_mesh` and kept
on the device that left; nothing sends it. Readmissions (generation 1 and on) can
therefore hardly happen between running nodes (a device that joins again before it
told anyone brings its departed copy along); they are the subject of `MeshCopies`.

### NodeDirectory

One directory, and processes that run `node init`, `node serve` and `mesh create`.
Each file-system step is an action: `InitLock`, `InitKey`, `NewKey`, `InitState`,
`NewState` for `Storage::init`; `OpenCheck`, `OpenLock`, `OpenRead` for `Storage::open`;
`Listen`, `WriteControl`, `Interrupt`, `RemoveControl`, `CloseListener`, `DropNode` for
the service, the last three in the order in which Rust drops the locals of `serve`;
`ReadControl`, `Connect`, `Execute`, `RequestFails`, `CreateOffline` for the command. A
crash releases the lock and the port and leaves the files. `mesh create` stands for the
commands that change the state; `pair`, `add` and `ping` need the service and are
`MeshNode`'s.

### BlobStore

`put` and `get` by threads of processes over a directory of names and inodes. The bytes
of a blob are two pieces written one after the other; `fs::write` truncates an existing
file (`Create`), `fs::rename` moves whatever has the temporary name. Opening, writing and
renaming may each return an error (`WriteFails`), and a new file needs an inode that is
free. A process crash loses its threads and keeps its files.

### PairingSession

| code | model |
| --- | --- |
| `PairingState`: invitation, meshed or not, busy | `ui` |
| `ticketExpiresAtMillis`, `offeredInitialTicket` | `expiresAt` (the ticket it belongs to), `offered` |
| mutexes `operations`, `actions` | the coroutine that holds them |
| `tracking` | no variable: nothing suspends under it, each section is one action |
| where a coroutine is, what it was called with | `co[c]` |
| the node behind `MeshNode` (external) | `native`: open, enrolled, tickets issued, the pending one |

`run()` is `OpenFails`, `Open`, `Poll`, `ReadStatus`, `AcceptSnapshot`, `Delay`,
`StopRunning`, `CloseNode`, `ClearState`, with `AgeState` for the coroutine it launches.
The actions of the user, and of `run()` when it offers the first ticket, begin with
`TryLock`, `SetBusy` (`beginAction`) and `Acquire` (`withActiveNode`) and end with
`FinishAction`. Between them come `IssueTicket` and `ShowTicket`, or `CheckValue`,
`ReadMembership`, `CreateMesh`, `RecordMesh`, `AddDevice` and `ReportAdded`. Every
call of the node may fail; `IssueTicket` may fail after the node took the new ticket.
`Cancel` marks a coroutine: it stops at the next suspension that can be cancelled, and
what runs under `NonCancellable` has none. The environment enrols the device by its
pending ticket (`Redeem`, late redemptions included) and lets time pass (`Expire`).

### Presence

Two devices of one mesh, in discrete time.

| code | model |
| --- | --- |
| `Presence.received` of the peer | `seen[n]`, its age, up to the window |
| `interval.tick()` in `gossip` | `timer[n]`, `GossipTick` |
| the heartbeat task and `in_flight` | `beat[n]`: its stage, the address it was started with, the time left |
| the heartbeat's own steps | `ServeSync`, `FinishSync`, `ServePing`, `FinishPing`, `HeartbeatFails`, `HeartbeatPanics`, `Join` |
| a handler whose caller gave up | `late[n]`, `ServeLate` |
| `State.addresses` of the peer | `book[n]`; `Merge`, `Forwarded` are the rules of `State::merge` |
| membership | `standing[n]`, the numbers of module `Standing` |
| stop or crash, `bind`, `leave_mesh`, a new enrolment | `Stop`, `Start`, `Leave`, `Rejoin` |
| an exchange with another member | `HearFromThird` |

`Tick` lets one second pass once no step is due: a node's tick, a task to be joined, or
the next step of a heartbeat that is not slow. Computation takes no time; a heartbeat is
*slow* when the network may delay or lose it. `lost[n]` counts the slow heartbeats of a
node in a row: a prompt one, or stopping, sets it back to 0, and `MaxSlow` bounds it; how
many are slow in all has no bound. Panics, restarts and departures are faults, each with a
bound for the whole run. `discovery` tells whether iroh finds a device by its id: not in
`--local` mode, where only the address counts. `gone` and `route` are history: how long
the peer has been away, and how long a heartbeat could have reached it.

### NodeHandle

| code | model |
| --- | --- |
| `SpiritNode.closed` (Kotlin), the uniffi object and its calls in flight | `closed`, `destroyed`, `inside` |
| `Mutex<Option<Arc<Node>>>`, clones of the `Arc` | `slot`, `arcs` |
| gossip loop, heartbeat, router: each has the shared state | `tasks`, `aborted` |
| `node.lock` | `lock` |
| `SpiritNode.open` | `BeginOpen`, `LockDirectory`, `Bind`, `Deliver`, or `OpenCancelled` |
| `status`, `createMesh`, `pair`, `add`, `ping` | `BeginCall`, `Check`, `Enter`, `Active`, `FinishCall` |
| `close`, `shutdown` | `BeginClose`, `Take`, `StopRouter`, `Destroy` |
| a handle that nobody closes | `Forget`, `Collect`, `FreeObject`, `DropShutsDown` |

The lock goes with the last reference to the shared state (`Held`, `Unlock`). The
uniffi object (it refuses calls once destroyed and is freed after the last one) and the
abort of the router are external. `shutdown` aborts the gossip loop without waiting for
it, so the model has states in which a node is closed and its directory still locked:
opening it again right away may fail with "node is already running", which the tests do
not expect (`ffi/src/node.rs:201`, `network.rs:424`). What holds is that the directory
is released in the end.

### Transform

`InputName::new`, `TransformDocument::nix` and `canonical_bytes`, on bytes: a name and an
attribute are sequences of bytes, a hash has `HashLength` of them (32 in the code, two in
the run), a length one digit of base `LengthBase` (2^32 in the code, where a longer text
would wrap). `InOrder` is the iteration of the `BTreeMap`, byte by byte. `MCAlgorithms`
runs it after `TrustLoop`, with which it shares nothing, in one run: both are algorithms of a
single call, checked for every input up to a bound.

## Runs

| run | bounds | shows |
| --- | --- | --- |
| `mesh_copies` | 2 copies; either 2 devices that found meshes alone with 2 nicknames and 2 mesh ids (3 admissions), or 3 devices that start as clones of one mesh, two of which may leave and return (4 admissions, generation up to 1) | copies verify after every operation; only nickname conflicts and the admission limit keep two from merging, and then on both sides and for good; merged, they agree; merging never returns a departed device; every step is a step of `Standing` |
| `algorithms` | 4 devices, up to 4 records; documents of up to 4 inputs whose bytes imitate each other's | the loop makes no more passes than it finds devices, and its verdict does not depend on the order; no two documents have the same bytes |
| `node_saves` | 2 devices, 2 mesh ids, 2 secrets, 1 departed mesh kept, 3 stops, 1 failed save | saved states open again, their departed meshes and order included, what is shown is saved, joining takes an invitation |
| `node_introducers` | 3 devices from a mesh of 2, 1 secret, 2 enrolments at once, 1 stop, 1 loss, 1 failed save | whoever is listed has saved its membership; a ticket enrols once |
| `node_convergence` | 3 devices, the founder has enrolled one and lost the acknowledgment; 1 secret, 1 stop, 1 more loss | a device and whoever it lists come to agree (liveness) |
| `node_reenrollment` | 2 devices, 2 secrets, 1 stop, 1 loss | **violation**, see Findings |
| `node_directory` | 3 processes, 5 programs, 2 crashes, 1 failed save, 2 ports | key and state fit, reported meshes last, the service owns the state and is found |
| `blob_processes` | 2 processes of one thread, 2 blobs, 2 crashes, 1 failed write | a named blob is whole; `put` fails only when writing does |
| `blob_threads` | 2 threads of one process | **violation**, see Findings |
| `session` | 1 user coroutine and `run()`, 1 call, 2 tickets, 1 failed call | the node is used only while open and by one coroutine; the ticket shown is the last; a closed session shows nothing; the busy flag is right; an expired invitation goes, a first ticket is offered, membership is shown, a cancelled session ends (liveness) |
| `presence` | interval 2, window 5, request timeout 2; any number of slow heartbeats, 1 in a row at each node; 1 panic, 1 restart of each, 1 departure; at most 2 faults together, 3 with a panic, without discovery and departures; a node counts as one while its last heartbeat was slow | whoever is reachable is shown connected in time; whoever is gone is not; addresses recover |
| `node_handle` | 3 threads, 2 opens | a closed handle is final, a closed node is off the network, its directory is released (liveness) |

Why these bounds. Two nicknames make a conflict; three devices give a device
admitted by one introducer and unknown to another, and a trust chain through a device
that left. Generation 1 lets a device leave, return and leave again. Three devices of
which two leave and return make five records for a mesh of four: a merge reaches the limit
neither copy reached alone, and a union without conflicting names exceeds it. One departed mesh kept makes the
second leave evict the first. One lost
connection is the lost acknowledgment; one failed save is each of the two ways to fail
at each save. Five programs are two initialisations, an old and a new service and a
command, and two crashes stop initialisation half-way twice. In a session, `run()` and
one user contend for each lock, one action may begin while the other ends, and two
tickets are an old and a new one; for any number of users and calls the safety
properties are proved. In `presence` the window is longer than two intervals, so that
one lost heartbeat must not disconnect a peer and what a late one does shows at its
edge, and the request timeout is longer than a heartbeat's deadline, as in the code;
three faults are for instance a restart, a panic on the other side and a loss after it.
Three threads let one call while one closes and one opens again. Base 5 makes a length
look like a byte of a hash, and the names `a`, `b`, `a1`, `ab` with hashes that begin
with a letter's or a digit's byte could each be cut in two ways. The exact values are in
the `.cfg` files; symmetry is used where the devices or secrets start alike.
`MaxAdds` and `MaxSyncs` bound what is under way at once, not what happens over time.

Runs that state `CHECK_DEADLOCK FALSE` are those in which the program or the bounds let
everything come to rest.

Fairness in `node_convergence`: for each pair of devices the `gossip` task keeps
ticking and the runtime polls the tasks of a connection. The code has no limit on
connections; where `MaxSyncs` makes one exchange wait for another, strong fairness on
`Gossip` undoes that bound. Nothing forces a stopped node to start or a person to use a
ticket: the property is conditional on all devices staying up from some point on.
Losses and failed saves are finitely many by their bounds. With three devices and one ticket left after the start, the run has a third
device that learns of the second from the founder, or of the founder from the second, and
devices that leave before, during and after the repair; without the premise that one lists the
other, TLC finds the scenario told under `MeshNode`.

Fairness in `session`: a coroutine that can go on is resumed and its delays
end (weak fairness). Taking `operations` has strong fairness, since the mutex of
kotlinx.coroutines gives the lock to those that wait in their order. Nothing makes a
user act, a job be cancelled or a ticket expire.

Fairness in `node_handle`: a thread that is inside an operation goes on, since requests
have timeouts, and the runtime gets to every task and to what was spawned for a dropped
object (weak fairness). Nothing makes the application close a handle or the collector
run. In `presence` there is none: the properties bound the time instead of saying
"eventually", and `Tick` cannot pass over what is due.

## Findings

* **`put` is not idempotent across threads** (`core/src/store.rs:62`). The temporary name
  has the hash and the process id. Two threads of one process that put the same bytes
  share it, and the second rename fails with "not found" though the blob is stored
  (`docs/stories/cli.md:61` promises idempotence). Run `blob_threads`. With the same
  constants TLC also refutes `BlobsReadBack`: one thread truncates the file the other is
  about to rename, and the blob's name holds a part of it until the first has written on.
* **A departed device re-enrolled by its old admission** (`storage.rs:274`). An introducer
  that lost the acknowledgment of its first enrolment believes it is alone; leaving then
  keeps no departed copy, and the enrolled device admits it again at generation 0, which
  `wiki/design/nodes.md:33` says is refused. Run `node_reenrollment`.

## What the presence model says

* A panicking heartbeat is never joined by name, so its peer stays in flight until the
  node restarts (`network.rs:339`). Two devices stay connected all the same as long as the
  other side's heartbeats arrive: a ping counts on both sides. When both tasks panicked
  neither notices the other again; `ConnectedWhileReachable` asks for a route from one side.
* A handler that checked membership, or a request whose sender gave up, may refresh
  presence for as long as a handler may run. `GoneIsNoticed` gives the window plus that time.
* Snapshots have no sequence numbers: a request of an earlier run, handled late, may put
  back an old address. The next heartbeat that gets through corrects it
  (`AddressRecovers`). In `--local` mode two devices that both restarted never find each
  other again, since a third one's snapshot does not replace an address.

## Proofs

For any devices, copies, names and limits (`MembershipAssumption`: the sets of random
and legacy ids are disjoint, the limits are numbers and at least one admission is
allowed):

| theorem | says |
| --- | --- |
| `TypeCorrect` | `Spec => []TypeOK` |
| `CopiesVerify` | `Spec => []AllVerify` |
| `MergeOnlyBlockedByLimits` | `Spec => []MergeBlockedOnlyByLimits` |
| `RecordsImplementStanding` | `Spec => ImplementsStanding` |
| `DepartedNeverReturnsByMerge` | `Spec => DepartedStaysOut` |
| `MutualMergeConverges` | `Spec => []MergeConverges` |
| `ConflictsStay` | `Spec => ConflictsAreFinal` |
| `LoopTracesIssuers` | `LoopSpec => []VerdictIsTraceable` (of `TrustLoop`, with a founder among the devices) |
| `SessionTypes` | `Spec => []TypeOK` (of `PairingSession`, as the ones below) |
| `SessionUsesOpenNode` | `Spec => []NodeInUseIsOpen` |
| `SessionBusyIsAccurate` | `Spec => []BusyIsAccurate` |
| `SessionClosedShowsNothing` | `Spec => []ClosedShowsNothing` |
| `SessionShownIsLatest` | `Spec => []ShownIsLatest` |
| `HandleTypes` | `Spec => []TypeOK` (of `NodeHandle`, as the ones below; with the lock) |
| `HandleClosedIsFinal` | `Spec => []ClosedIsFinal` |
| `HandleClosedIsOffline` | `Spec => []ClosedIsOffline` |
| `NodeTypes` | `Spec => []TypeOK` (of `MeshNode`, as the ones below) |
| `NodeReopens` | `Spec => []SavedStateReopens` |
| `NodeShowsWhatIsSaved` | `Spec => []ShownIsDurable` |
| `TicketsEnrolOnce` | `Spec => []TicketRedeemedOnce` |
| `ListedHaveJoined` | `Spec => []ListedDevicesJoined` |
| `DevicesJoinByInvitation` | `Spec => JoinsByInvitation` |
| `DirectoryTypes` | `Spec => []TypeOK` (of `NodeDirectory`, as the ones below) |
| `DirectoryIdentity` | `Spec => []IdentityMatches` |
| `DirectoryKeepsMesh` | `Spec => []ReportedMeshIsKept` |
| `DirectoryOwned` | `Spec => []ServiceOwnsState` |
| `DirectoryReachable` | `Spec => []ServiceIsReachable` |
| `HashesIdentifyDocuments` | `TransformSpec => []HashIdentifiesDocument` (of `Transform`) |
| `BlobsAreWhole` | `OneThreadEach` implies `Spec => []BlobsReadBack` (of `BlobStore`) |
| `PutsAreIdempotent` | `OneThreadEach` implies `Spec => []PutIsIdempotent` |
| `PresenceTypes` | `Spec => []TypeOK` (of `Presence`, as the ones below) |
| `PeerGoneIsNoticed` | `Spec => []GoneIsNoticed` |
| `PeerLearnsAddress` | `Spec => []AddressRecovers` |
| `ReachableIsConnected` | `WindowOutlastsLosses` implies `Spec => []ConnectedWhileReachable` |

The argument. `MembershipProofs` has the facts about single operations: a new admission
is signed by a member whose own admission is already traced to the founder, a departure
matches an admission, a readmission follows a departure, and the union of two verified
meshes of one identity verifies unless names conflict or it is too large. The hard part is
tracing through the union: each side's least trusted set stays inside the union's.
`MeshCopiesProofs` first makes `TypeOK /\ AllVerify` inductive: `AllVerify` alone is not, since
the shapes of the records are needed to build the signed records, and `TypeOK` alone is
not, since the limits are checked by `Verify`. It then reads a standing off the
generations that were admitted and departed. In a mesh that verifies, every generation
below an admitted one was admitted and departed, so the latest generation decides; a
merge then takes the larger standing, an admission or departure adds one. That standings
only grow gives `DepartedStaysOut`, and that both merges hold the same generations gives
`MergeConverges`. That both merges are of one size (`MergedFits`: each holds one record for each
device and generation of either copy) makes a refused merge mutual (`MergesAreMutual`), and that
no step takes an admission from a copy (`CopiesGrow`), so that unions and conflicts only
grow, makes it final: `ConflictsAreFinal`.

Its last part is the tracing loop, for a list of any length. What the loop has found is
in every set of devices that has the founder and whomever its members admitted, so it is
in the least one: a list that is accepted is traceable. For the other direction the
invariant says what the pass has covered: whoever was admitted, in a record visited so
far, by a device that was known when the pass began, is known now. When a pass ends with
as many devices as it began with, the two finite sets are the same (`SameCardinality`),
the set is closed, and a list that is rejected has an issuer outside it. A pass that goes on
has found somebody, so there are at most as many passes as devices (`passes` is history).

`PairingSessionProofs` has the five safety properties of the session, for any number of
coroutines, tickets, calls and faults (`PairingSessionAssumption`: `run()` is no user's
coroutine, and tickets, foreign values and `None` differ). The invariant `SessionInv` says
who holds which lock: a coroutine past `operations` or `actions` has it, the node is open
between `run()`'s opening and closing and for whoever holds `operations`, the flag is down
before `actions` is released, and a ticket about to be shown was issued. None of the five
is inductive without it: that closing does not disturb a call follows from `CloseNode`
waiting for a lock the caller has. Each part has its own lemma with one step per action.

`NodeHandleProofs` has the three safety properties of the handles, for any threads and any
number of opens (`NodeHandleAssumption`: `None` is not a number). `HandleInv` adds to them
that a handle being opened belongs to one thread and runs nothing yet (`Opening`), so that
a `bind` that fails leaves nothing behind that would need the lock; that a late call stands
before the check (`LateStops`); and that closing goes step by step: whoever has aborted the
gossip loop leaves it aborted, whoever goes on to destroy the object leaves the router
stopped, and a node that is over is offline or has a thread about to take it off
(`Closing`). `ClosedIsOffline` alone would not survive `Collect`, which destroys an object
whose cancelled open may not have shut it down: `OverIsStopped` says it has. The lemmas
`*Moves` say where each step takes its thread, so the others need not look into records.

`MeshNodeProofs` has the five invariants of `MeshNode` and `JoinsByInvitation`, for any
devices, ids, secrets, limits and faults (`MeshNodeAssumption`: every device has a
nickname, at least one departed mesh is kept, and `None` is no secret, mesh or state).
`NodeInv` has five parts besides the types:

* `StatesGood`: what a device has on disk and in memory passes the checks of
  `Storage::read`, and the file extends the memory. That a merge keeps this rests on two
  facts about merged meshes: who is a member in both copies is one in their union
  (`MergedMember`, for an enrolled device), and a device that takes back the copy it kept
  when it left, and is a member all the same, is the member the sender listed
  (`ReadmittedMember`), since its own copy has departed from its latest admission. A leave
  makes room by dropping the oldest mesh, from the map and from the order: a good state's order
  lists each departed mesh once and no other (`OrderFacts`, `WithoutFacts`, `AppendFacts`). So
  opening a saved state adds nothing to its order (`OpenedFacts`), and a leave that has to
  evict always finds an oldest mesh.
* `TicketsFresh`: a pending ticket is the device's own and was not redeemed.
* `CallsLive`: who waits for a reply or owes one is running and in a mesh; so a reply never
  brings a device into one, which `JoinsByInvitation` needs.
* `StatesKnown` and `CallsKnown`: what the copies on devices and in requests say of the
  past. `ListedDevicesJoined` alone is not inductive: a listed device may leave, be
  admitted again from an older copy, or be known only by a snapshot on its way. `Known`
  says of every copy that its mesh was created, that departures in it were made, that who is
  admitted again had left, and that who is admitted goes by that admission or a later one,
  or has left — except the device that holds the copy, or is being invited with it, which
  need not have saved it yet. Nothing of this is ever undone (`Grown`): saves extend what a
  device goes by (`ShownGrows`), a crash puts it back to a file that has all of it, and a
  leave records what it takes away.

`NodeDirectoryProofs` has the five invariants of the directory, for any processes, ports
and bounds (`NodeDirectoryAssumption`: `None` is no process, port, number or state).
Its heart is `LockHeld`: a process between obtaining and releasing the lock is the one that
has it, so of two processes in that part one would be the other. On it rest `InitKnows`
(initialisation under the lock sees the key it will name in the state), `MemoryIsCurrent`
(who may save works from the file as it is; after a save that returned an error the memory
of a service may lack the mesh, but not one whose creation was reported), `Listening` and
`Published` (the service removes `control.json` before it closes its port, and drops the
lock last, so the next service publishes after that). `ReportedMeshIsKept` needs all of
them at `Execute` and `CreateOffline`.

`ContentProofs` is about the two components of the core crate. For `BlobStore` it assumes
`OneThreadEach`, one thread in each process that uses the store,
as on the command line: it is what the code relies on, and `blob_threads` shows that both
theorems are false without it. A writer's pieces are then under its temporary name when it
comes to rename it (`Writing`), and no two names share a file (`NamesApart`), so truncating
a temporary file never touches a blob. A file left by a killed process is truncated by the
next writer with that name.

Its second part is the encoding of documents, for any names and attributes of bytes, any
number of inputs and any length of hashes (`TransformAssumption`); that lengths fit into
their fields is a premise of the property, `Fits`, as it is false without it. Bytes are
read from the left: a length has a fixed width and says where the text after it ends
(`TextCut`), and a hash has a fixed length, so of two equal documents the first fields are
equal and what follows them is equal too. For the inputs, of which there may be any
number, this is an induction along the iteration (`Unflatten`): two sequences of entries
that join to the same bytes are the same if each entry tells where it ends. That `InOrder`
visits every name (`InOrderDoes`) needs that the order of names is strict and total
(`BeforeOrders`): the rank of a name is then a bijection. The library's induction theorems
take an operator as a parameter, which the provers cannot instantiate; here the induction
is over a set (`Climb`: a set with 0 and each successor up to n has all of them), from the
minimum of a well-founded order. `Join` hides concatenation from steps that use only its
laws, which the solvers otherwise unfold for ever.

`PresenceProofs` has the invariants of `Presence`, for any interval, window, timeout and
numbers of faults (`PresenceAssumption`: two devices, a request timeout, an interval longer
than a heartbeat's deadline, and `None` no number), and for the unrestricted `Spec`: the
run limits which faults come together, the proofs do not. The three properties speak of
how long a route has been open (`route`) or a peer gone (`gone`). They are not inductive,
since the age of a presence depends on what the tasks may still do. `PresenceInv` says so
in nine parts:

* `Running` and `Enrolled`: a heartbeat under way ends one tick before the next is due,
  and is a member's; `Knowledge`: nobody knows more of a device than the device itself, so
  a snapshot that lists a device is never newer than what that device did.
* `Measured` ties the two histories to what they measure.
* `Refreshed`: the presence at either end, or else the route itself, is no older than
  `Span(lost[n])` less what is left on the timer; while a prompt heartbeat that will
  refresh it is under way, no older than `Span(MaxSlow)`. Each heartbeat lost in a row adds an
  interval, and none is skipped, since the last one is over when the next is due; a prompt
  one that could reach the peer starts over from its own refresh.
* `Outdated` and `Learned`: old addresses, in requests that are still handled or
  snapshots just merged, are used up within their timeouts, and the next prompt
  heartbeat brings the current one.
* `Lingers`: a ping that is still to be counted, on either side, was sent when the peer
  was there.

`ReachableIsConnected` needs `WindowOutlastsLosses`: the losses in a row take less time
than the window (with 5 s and 60 s, at most ten in a row at each node). It says nothing of the losses in all,
which have no bound. Otherwise a legal run of losses ages the presence to the window and the
property is false. `GoneIsNoticed` and `AddressRecovers`
need no such bound. The lemmas `*Does` and `*Moves` say what each operation leaves behind.

Only model-checked: the liveness properties, which the prover has no rules for (fairness,
`ENABLED`); and `ReenrollmentRefused` and the threads of `BlobStore`, which fail.

## Not modelled

* Texts of errors and the times shown with them; the `ping` command, which is a heartbeat
  without its deadline. A failing save of an address change looks like a lost request.
* Message size limits and encodings; the limits never change what is stored.
* Power failures, clocks that jump, texts of 2^32 bytes and more.
* What two members show who were never told of each other: `MembershipConverges` does not
  speak of them (see `MeshNode`). The behaviours are in the model.
* `control.json` of a killed service may name a port that another program has by then;
  commands then fail (`cli/src/control.rs:93`).
* In the pairing session: peers and their ageing, names, errors and notices, the loading
  flag; a second call of `run()`, which fails before it does anything.
* The blob bindings of the FFI and of Kotlin, which forward to the store; the command
  line's parsing and printing, the demo apps, build logic.

## Plan

1. Done: the log, the tracing loop, `MeshNode`, `NodeDirectory`, `BlobStore`, `Transform`,
   `PairingSession`, `NodeHandle` and `Presence` with the proofs of their invariants.
2. Out of the prover's reach, so model-checked: liveness.
