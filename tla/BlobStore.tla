------------------------------- MODULE BlobStore -------------------------------
(* The content-addressed store of rust/crates/core/src/store.rs: a directory *)
(* with one file per blob, named by its hash, shared without a lock by the   *)
(* threads of any number of processes (the command line, and through the FFI *)
(* the coroutines of an app).                                                *)
(*                                                                           *)
(* The file system is a directory from names to inodes and the content of    *)
(* each inode.  The bytes of a blob are two pieces, written one after the    *)
(* other: a file is whole when it holds both.  A process may crash and its   *)
(* files stay as they are; a power failure, which could also lose content    *)
(* that was written but not synced, is not modelled.                         *)
EXTENDS Naturals, FiniteSets

CONSTANTS
  Thread, Process,
  ProcessOf,    \* the process each thread belongs to
  Blob,         \* blobs, identified with their hashes
  Inode,        \* files, named and open ones
  None,
  MaxCrashes,   \* bound: process crashes
  MaxFaults     \* bound: writes that return an error

ASSUME BlobStoreAssumption ==
  /\ ProcessOf \in [Thread -> Process]
  /\ None \notin Inode
  /\ {MaxCrashes, MaxFaults} \subseteq Nat

VARIABLES
  names,     \* the directory
  content,   \* the pieces each inode holds
  thread,    \* what each thread is doing
  result,    \* what the last call of each thread returned
  stored,    \* history: blobs for which some `put' returned Ok
  spent      \* how much of each bound is used up

vars == <<names, content, thread, result, stored, spent>>

Piece == {1, 2}
PathOf(b) == <<"blob", b>>
TempOf(b, p) == <<"tmp", b, p>>
Name == {PathOf(b) : b \in Blob} \cup {TempOf(b, p) : b \in Blob, p \in Process}

Idle == [step |-> "idle", blob |-> None, inode |-> None]

Exists(name) == names[name] # None
Free(i) == i \notin {names[x] : x \in Name} \cup {thread[t].inode : t \in Thread}

Return(t, value) ==
  /\ thread' = [thread EXCEPT ![t] = Idle]
  /\ result' = [result EXCEPT ![t] = value]

Init ==
  /\ names = [x \in Name |-> None]
  /\ content = [i \in Inode |-> {}]
  /\ thread = [t \in Thread |-> Idle]
  /\ result = [t \in Thread |-> "none"]
  /\ stored = {}
  /\ spent = [crashes |-> 0, faults |-> 0]

-----------------------------------------------------------------------------
(* put *)

\* The blob is there already: nothing is written or checked.
PutExisting(t, b) ==
  /\ thread[t] = Idle /\ Exists(PathOf(b))
  /\ stored' = stored \cup {b}
  /\ Return(t, "ok")
  /\ UNCHANGED <<names, content, spent>>

PutNew(t, b) ==
  /\ thread[t] = Idle /\ ~Exists(PathOf(b))
  /\ thread' = [thread EXCEPT ![t] =
                  [step |-> "create", blob |-> b, inode |-> None]]
  /\ result' = [result EXCEPT ![t] = "none"]
  /\ UNCHANGED <<names, content, stored, spent>>

\* Faulty variant: all processes write to the same temporary name.
TempWithoutProcess(t) == TempOf(thread[t].blob, CHOOSE p \in Process : TRUE)

\* The temporary name has the hash and the process id, not the thread.
Temp(t) == TempOf(thread[t].blob, ProcessOf[t])

\* fs::write opens the name: an existing file is truncated, not replaced, and
\* a new one gets an inode that nobody uses, if there is one.
Create(t) ==
  /\ thread[t].step = "create"
  /\ Exists(Temp(t)) \/ \E j \in Inode : Free(j)
  /\ LET i == IF Exists(Temp(t)) THEN names[Temp(t)]
              ELSE CHOOSE j \in Inode : Free(j)
     IN
       /\ names' = [names EXCEPT ![Temp(t)] = i]
       /\ content' = [content EXCEPT ![i] = {}]
       /\ thread' = [thread EXCEPT ![t] =
                       [step |-> "first", blob |-> thread[t].blob, inode |-> i]]
  /\ UNCHANGED <<result, stored, spent>>

\* Faulty variant: the file is renamed after the first piece.
WriteOnce(t) ==
  /\ thread[t].step = "first"
  /\ content' = [content EXCEPT ![thread[t].inode] = @ \cup {1}]
  /\ thread' = [thread EXCEPT ![t] =
                  [step |-> "rename", blob |-> thread[t].blob, inode |-> None]]
  /\ UNCHANGED <<names, result, stored, spent>>

Write(t) ==
  \/ /\ thread[t].step = "first"
     /\ content' = [content EXCEPT ![thread[t].inode] = @ \cup {1}]
     /\ thread' = [thread EXCEPT ![t].step = "second"]
     /\ UNCHANGED <<names, result, stored, spent>>
  \/ /\ thread[t].step = "second"
     /\ content' = [content EXCEPT ![thread[t].inode] = @ \cup {2}]
     /\ thread' = [thread EXCEPT ![t] =
                     [step |-> "rename", blob |-> thread[t].blob, inode |-> None]]
     /\ UNCHANGED <<names, result, stored, spent>>

\* Creating, writing or renaming the file fails, because the disk is full for
\* instance: what there is of the temporary file is left behind.
WriteFails(t) ==
  /\ thread[t].step \in {"create", "first", "second", "rename"}
  /\ spent.faults < MaxFaults
  /\ spent' = [spent EXCEPT !.faults = @ + 1]
  /\ Return(t, "io error")
  /\ UNCHANGED <<names, content, stored>>

Rename(t) ==
  /\ thread[t].step = "rename"
  /\ LET b == thread[t].blob
     IN  IF Exists(Temp(t))
         THEN /\ names' = [names EXCEPT ![PathOf(b)] = names[Temp(t)],
                                        ![Temp(t)] = None]
              /\ stored' = stored \cup {b}
              /\ Return(t, "ok")
         ELSE Return(t, "no such file") /\ UNCHANGED <<names, stored>>
  /\ UNCHANGED <<content, spent>>

-----------------------------------------------------------------------------
(* get *)

GetMissing(t, b) ==
  /\ thread[t] = Idle /\ ~Exists(PathOf(b))
  /\ Return(t, "missing")
  /\ UNCHANGED <<names, content, stored, spent>>

GetOpen(t, b) ==
  /\ thread[t] = Idle /\ Exists(PathOf(b))
  /\ thread' = [thread EXCEPT ![t] =
                  [step |-> "read", blob |-> b, inode |-> names[PathOf(b)]]]
  /\ result' = [result EXCEPT ![t] = "none"]
  /\ UNCHANGED <<names, content, stored, spent>>

\* The bytes read are hashed again before they are returned.
GetRead(t) ==
  /\ thread[t].step = "read"
  /\ Return(t, IF content[thread[t].inode] = Piece THEN "bytes" ELSE "corrupt")
  /\ UNCHANGED <<names, content, stored, spent>>

-----------------------------------------------------------------------------

Crash(p) ==
  /\ spent.crashes < MaxCrashes
  /\ \E t \in Thread : ProcessOf[t] = p /\ thread[t] # Idle
  /\ spent' = [spent EXCEPT !.crashes = @ + 1]
  /\ thread' = [t \in Thread |-> IF ProcessOf[t] = p THEN Idle ELSE thread[t]]
  /\ UNCHANGED <<names, content, result, stored>>

Next ==
  \/ \E t \in Thread :
       \/ \E b \in Blob :
            PutExisting(t, b) \/ PutNew(t, b) \/ GetMissing(t, b) \/ GetOpen(t, b)
       \/ Create(t) \/ Write(t) \/ WriteFails(t) \/ Rename(t) \/ GetRead(t)
  \/ \E p \in Process : Crash(p)

Spec == Init /\ [][Next]_vars

-----------------------------------------------------------------------------
(* Properties *)

\* Whatever is found under a blob's name is the whole blob, at every moment,
\* after crashes and failed writes too, and a blob whose `put' returned Ok is
\* found: `put' skips a blob that exists without reading it, so a partial file
\* under the final name would be there for good (store.rs:59).
BlobsReadBack ==
  /\ \A b \in Blob : Exists(PathOf(b)) => content[names[PathOf(b)]] = Piece
  /\ \A b \in stored : Exists(PathOf(b))

\* `put' fails only when writing fails: putting bytes that another caller is
\* putting at the same time is as good as putting them once, as
\* docs/stories/cli.md:61 says of `put' (store.rs:62).
PutIsIdempotent == \A t \in Thread : result[t] # "no such file"
=============================================================================
