----------------------------- MODULE ContentProofs -----------------------------
(* Proofs about what the core crate knows by its hash.                        *)
(*                                                                            *)
(* BlobStore, for any processes, blobs and inodes, as long as no two threads  *)
(* of one process use the store: a temporary file belongs to the process in   *)
(* its name, so that it is whole when it is renamed.                          *)
(*                                                                            *)
(* Transform, for any names, attributes and hashes: the bytes of a document   *)
(* are read from the left, each field telling where it ends.                  *)
EXTENDS BlobStore, Transform, FiniteSetTheorems, SequenceTheorems,
        WellFoundedInduction, TLAPS

\* The store is used by one thread of each process, as on the command line.
OneThreadEach == \A t, u \in Thread : ProcessOf[t] = ProcessOf[u] => t = u

ThreadState ==
  [step : {"idle", "create", "first", "second", "rename", "read"},
   blob : Blob \cup {None}, inode : Inode \cup {None}]

TypeOK ==
  /\ names \in [Name -> Inode \cup {None}]
  /\ content \in [Inode -> SUBSET Piece]
  /\ thread \in [Thread -> ThreadState]
  /\ result \in [Thread -> {"none", "ok", "missing", "bytes", "corrupt",
                            "io error", "no such file"}]
  /\ stored \subseteq Blob

\* No two names have the same file.
NamesApart == \A x, y \in Name : names[x] # None /\ names[x] = names[y] => x = y

\* What a writer has written is under its temporary name: the first piece when
\* it writes the second, and all of it when it renames.
Writes(t) ==
  /\ thread[t].step \in {"create", "first", "second", "rename"} => thread[t].blob \in Blob
  /\ thread[t].step \in {"first", "second"} =>
       thread[t].inode \in Inode /\ names[Temp(t)] = thread[t].inode
  /\ thread[t].step = "second" => 1 \in content[thread[t].inode]
  /\ thread[t].step = "rename" =>
       names[Temp(t)] \in Inode /\ content[names[Temp(t)]] = Piece

Writing == \A t \in Thread : Writes(t)

BlobInv == TypeOK /\ NamesApart /\ Writing /\ BlobsReadBack /\ PutIsIdempotent

-----------------------------------------------------------------------------

\* Names are the same only when they are made of the same.
LEMMA NameFacts ==
  /\ \A b \in Blob : PathOf(b) \in Name
  /\ \A b \in Blob, p \in Process : TempOf(b, p) \in Name
  /\ \A b, c \in Blob : PathOf(b) = PathOf(c) => b = c
  /\ \A b, c \in Blob, p, q \in Process : TempOf(b, p) = TempOf(c, q) => b = c /\ p = q
  /\ \A b, c \in Blob, p \in Process : PathOf(b) # TempOf(c, p)
<1>1. \A b, c \in Blob, p \in Process : PathOf(b) # TempOf(c, p)
  <2> SUFFICES ASSUME NEW b \in Blob, NEW c \in Blob, NEW p \in Process
               PROVE  PathOf(b) # TempOf(c, p)
    OBVIOUS
  <2>1. PathOf(b)[1] = "blob" /\ TempOf(c, p)[1] = "tmp"
    BY DEF PathOf, TempOf
  <2> QED
    BY <2>1
<1>2. /\ \A b \in Blob : PathOf(b) \in Name
      /\ \A b \in Blob, p \in Process : TempOf(b, p) \in Name
  BY DEF Name
<1>3. \A b, c \in Blob : PathOf(b) = PathOf(c) => b = c
  BY DEF PathOf
<1>4. \A b, c \in Blob, p, q \in Process : TempOf(b, p) = TempOf(c, q) => b = c /\ p = q
  BY DEF TempOf
<1> QED
  BY <1>1, <1>2, <1>3, <1>4

\* The temporary name of a thread is nobody else's, and no blob's.
LEMMA TempFacts ==
  ASSUME OneThreadEach, NEW t \in Thread, thread[t].blob \in Blob
  PROVE  /\ Temp(t) \in Name
         /\ \A b \in Blob : PathOf(b) # Temp(t)
         /\ \A u \in Thread : thread[u].blob \in Blob /\ Temp(u) = Temp(t) => u = t
  BY NameFacts, BlobStoreAssumption DEF Temp, OneThreadEach

\* An idle thread has the shape of one.
LEMMA IdleFacts == Idle \in ThreadState /\ Idle.step = "idle"
  BY DEF Idle, ThreadState

\* When one thread moves and no file changes, the writers have what they had.
LEMMA OthersWrite ==
  ASSUME Writing, NEW t \in Thread, NEW r \in ThreadState,
         thread \in [Thread -> ThreadState], thread' = [thread EXCEPT ![t] = r],
         UNCHANGED <<names, content>>, Writes(t)'
  PROVE  Writing'
  BY DEF Writing, Writes, Temp

\* Whatever is returned, the thread is idle again.
LEMMA Returns ==
  ASSUME TypeOK, Writing, NEW t \in Thread, NEW value, Return(t, value),
         UNCHANGED <<names, content>>
  PROVE  Writing' /\ thread' \in [Thread -> ThreadState]
<1>1. Writes(t)' /\ thread' = [thread EXCEPT ![t] = Idle]
  BY IdleFacts DEF Return, TypeOK, Writes
<1> QED
  BY <1>1, IdleFacts, OthersWrite DEF TypeOK

-----------------------------------------------------------------------------

\* Finding the blob there stores nothing.
LEMMA PutExistingStep ==
  ASSUME BlobInv, OneThreadEach, NEW t \in Thread, NEW b \in Blob, PutExisting(t, b)
  PROVE  BlobInv'
<1> USE DEF BlobInv
<1>1. TypeOK' /\ Writing'
  BY Returns DEF PutExisting, TypeOK, Return
<1>2. BlobsReadBack' /\ PutIsIdempotent' /\ NamesApart'
  BY DEF PutExisting, Return, TypeOK, BlobsReadBack, PutIsIdempotent, NamesApart, Exists
<1> QED
  BY <1>1, <1>2

\* Preparing to write changes no file.
LEMMA PutNewStep ==
  ASSUME BlobInv, OneThreadEach, NEW t \in Thread, NEW b \in Blob, PutNew(t, b)
  PROVE  BlobInv'
<1> USE DEF BlobInv
<1> DEFINE r == [step |-> "create", blob |-> b, inode |-> None]
<1>1. /\ r \in ThreadState /\ r.step = "create" /\ r.blob \in Blob
      /\ thread' = [thread EXCEPT ![t] = r] /\ UNCHANGED <<names, content>>
  BY NameFacts DEF PutNew, ThreadState, TypeOK, Exists
<1> HIDE DEF r
<1>2. Writes(t)'
  <2>1. thread'[t] = r
    BY <1>1 DEF TypeOK
  <2> QED
    BY <1>1, <2>1 DEF Writes
<1>3. Writing'
  BY <1>1, <1>2, OthersWrite DEF TypeOK
<1>4. TypeOK'
  BY <1>1 DEF PutNew, TypeOK
<1>5. BlobsReadBack' /\ PutIsIdempotent' /\ NamesApart'
  BY DEF PutNew, TypeOK, BlobsReadBack, PutIsIdempotent, NamesApart, Exists
<1> QED
  BY <1>3, <1>4, <1>5

\* Opening a blob changes no file.
LEMMA GetOpenStep ==
  ASSUME BlobInv, OneThreadEach, NEW t \in Thread, NEW b \in Blob, GetOpen(t, b)
  PROVE  BlobInv'
<1> USE DEF BlobInv
<1> DEFINE r == [step |-> "read", blob |-> b, inode |-> names[PathOf(b)]]
<1>1. /\ r \in ThreadState /\ r.step = "read" /\ r.blob \in Blob
      /\ thread' = [thread EXCEPT ![t] = r] /\ UNCHANGED <<names, content>>
  BY NameFacts DEF GetOpen, ThreadState, TypeOK, Exists
<1> HIDE DEF r
<1>2. Writes(t)'
  <2>1. thread'[t] = r
    BY <1>1 DEF TypeOK
  <2> QED
    BY <1>1, <2>1 DEF Writes
<1>3. Writing'
  BY <1>1, <1>2, OthersWrite DEF TypeOK
<1>4. TypeOK'
  BY <1>1 DEF GetOpen, TypeOK
<1>5. BlobsReadBack' /\ PutIsIdempotent' /\ NamesApart'
  BY DEF GetOpen, TypeOK, BlobsReadBack, PutIsIdempotent, NamesApart, Exists
<1> QED
  BY <1>3, <1>4, <1>5

\* A blob that is missing is reported.
LEMMA GetMissingStep ==
  ASSUME BlobInv, OneThreadEach, NEW t \in Thread, NEW b \in Blob, GetMissing(t, b)
  PROVE  BlobInv'
<1> USE DEF BlobInv
<1>1. TypeOK' /\ Writing'
  BY Returns DEF GetMissing, TypeOK, Return
<1>2. BlobsReadBack' /\ PutIsIdempotent' /\ NamesApart'
  BY DEF GetMissing, Return, TypeOK, BlobsReadBack, PutIsIdempotent, NamesApart, Exists
<1> QED
  BY <1>1, <1>2

\* Reading returns what the file holds.
LEMMA GetReadStep ==
  ASSUME BlobInv, OneThreadEach, NEW t \in Thread, GetRead(t)
  PROVE  BlobInv'
<1> USE DEF BlobInv
<1>1. TypeOK' /\ Writing'
  BY Returns DEF GetRead, TypeOK, Return
<1>2. BlobsReadBack' /\ PutIsIdempotent' /\ NamesApart'
  BY DEF GetRead, Return, TypeOK, BlobsReadBack, PutIsIdempotent, NamesApart, Exists
<1> QED
  BY <1>1, <1>2

\* A failed write leaves the file as it is.
LEMMA WriteFailsStep ==
  ASSUME BlobInv, OneThreadEach, NEW t \in Thread, WriteFails(t)
  PROVE  BlobInv'
<1> USE DEF BlobInv
<1>1. TypeOK' /\ Writing'
  BY Returns DEF WriteFails, TypeOK, Return
<1>2. BlobsReadBack' /\ PutIsIdempotent' /\ NamesApart'
  BY DEF WriteFails, Return, TypeOK, BlobsReadBack, PutIsIdempotent, NamesApart, Exists
<1> QED
  BY <1>1, <1>2

\* The file that is created or truncated is no blob's and no other writer's.
LEMMA CreateStep ==
  ASSUME BlobInv, OneThreadEach, NEW t \in Thread, Create(t)
  PROVE  BlobInv'
<1> USE DEF BlobInv
<1> DEFINE i == IF Exists(Temp(t)) THEN names[Temp(t)] ELSE CHOOSE j \in Inode : Free(j)
           r == [step |-> "first", blob |-> thread[t].blob, inode |-> i]
<1>1. thread[t].step = "create" /\ thread[t].blob \in Blob /\ Temp(t) \in Name
  BY TempFacts DEF Create, Writing, Writes
<1>2. /\ names' = [names EXCEPT ![Temp(t)] = i]
      /\ content' = [content EXCEPT ![i] = {}]
      /\ thread' = [thread EXCEPT ![t] = r]
      /\ UNCHANGED <<result, stored>>
  BY DEF Create
<1>3. i \in Inode /\ i # None
  <2>1. CASE Exists(Temp(t))
    BY <1>1, <2>1, BlobStoreAssumption DEF TypeOK, Exists
  <2>2. CASE ~Exists(Temp(t))
    BY <2>2, BlobStoreAssumption DEF Create
  <2> QED
    BY <2>1, <2>2
<1>4. \A x \in Name : x # Temp(t) => names[x] # i
  <2>1. CASE Exists(Temp(t))
    BY <1>1, <1>3, <2>1 DEF NamesApart, Exists
  <2>2. CASE ~Exists(Temp(t))
    <3>1. Free(i)
      BY <2>2 DEF Create
    <3> HIDE DEF i
    <3> QED
      BY <3>1 DEF Free
  <2> QED
    BY <2>1, <2>2
<1> HIDE DEF i
<1>5. r \in ThreadState /\ r.step = "first" /\ r.blob = thread[t].blob /\ r.inode = i
  BY <1>1, <1>3 DEF ThreadState
<1> HIDE DEF r
<1>6. TypeOK'
  BY <1>2, <1>3, <1>5 DEF TypeOK
<1>7. NamesApart'
  BY <1>1, <1>2, <1>4 DEF NamesApart, TypeOK
<1>8. BlobsReadBack' /\ PutIsIdempotent'
  <2>1. \A b \in Blob : PathOf(b) \in Name /\ PathOf(b) # Temp(t)
    BY <1>1, NameFacts, TempFacts
  <2>2. \A b \in Blob : names'[PathOf(b)] = names[PathOf(b)] /\ names[PathOf(b)] # i
    BY <1>2, <1>4, <2>1 DEF TypeOK
  <2> QED
    BY <1>2, <2>1, <2>2 DEF BlobsReadBack, PutIsIdempotent, Exists, TypeOK
<1>9. Writing'
  <2> SUFFICES ASSUME NEW u \in Thread  PROVE Writes(u)'
    BY DEF Writing
  <2>1. CASE u = t
    BY <1>1, <1>2, <1>3, <1>5, <2>1 DEF Writes, Temp, TypeOK
  <2>2. CASE u # t
    <3>1. thread'[u] = thread[u] /\ Temp(u)' = Temp(u)
      BY <1>2, <2>2 DEF TypeOK, Temp
    <3>2. thread[u].blob \in Blob =>
            /\ Temp(u) \in Name /\ Temp(u) # Temp(t)
            /\ names'[Temp(u)] = names[Temp(u)] /\ names[Temp(u)] # i
      BY <1>1, <1>2, <1>4, <2>2, TempFacts DEF TypeOK
    <3>3. \A j \in Inode : j # i => content'[j] = content[j]
      BY <1>2 DEF TypeOK
    <3> QED
      BY <3>1, <3>2, <3>3 DEF Writing, Writes
  <2> QED
    BY <2>1, <2>2
<1> QED
  BY <1>6, <1>7, <1>8, <1>9

\* What is written goes to the temporary file of the writer.
LEMMA WriteStep ==
  ASSUME BlobInv, OneThreadEach, NEW t \in Thread, Write(t)
  PROVE  BlobInv'
<1> USE DEF BlobInv
<1> DEFINE i == thread[t].inode
<1>1. PICK piece \in Piece, r \in ThreadState :
        /\ content' = [content EXCEPT ![i] = @ \cup {piece}]
        /\ thread' = [thread EXCEPT ![t] = r] /\ r.blob = thread[t].blob
        /\ \/ thread[t].step = "first" /\ piece = 1 /\ r.step = "second" /\ r.inode = i
           \/ thread[t].step = "second" /\ piece = 2 /\ r.step = "rename"
  <2>1. CASE thread[t].step = "first"
    <3> DEFINE r == [thread[t] EXCEPT !.step = "second"]
    <3>1. r \in ThreadState /\ r.step = "second" /\ r.inode = i /\ r.blob = thread[t].blob
      BY DEF TypeOK, ThreadState
    <3>2. /\ content' = [content EXCEPT ![i] = @ \cup {1}]
          /\ thread' = [thread EXCEPT ![t] = r]
      BY <2>1 DEF Write
    <3> HIDE DEF r
    <3> QED
      BY <2>1, <3>1, <3>2 DEF Piece
  <2>2. CASE thread[t].step = "second"
    <3> DEFINE r == [step |-> "rename", blob |-> thread[t].blob, inode |-> None]
    <3>1. r \in ThreadState /\ r.step = "rename" /\ r.blob = thread[t].blob
      BY DEF TypeOK, ThreadState
    <3>2. /\ content' = [content EXCEPT ![i] = @ \cup {2}]
          /\ thread' = [thread EXCEPT ![t] = r]
      BY <2>2 DEF Write
    <3> HIDE DEF r
    <3> QED
      BY <2>2, <3>1, <3>2 DEF Piece
  <2> QED
    BY <2>1, <2>2 DEF Write
<1>2. UNCHANGED <<names, result, stored>>
  BY DEF Write
<1>3. /\ thread[t].blob \in Blob /\ i \in Inode /\ names[Temp(t)] = i
      /\ thread[t].step = "second" => 1 \in content[i]
  BY <1>1 DEF Writing, Writes
<1>4. Temp(t) \in Name /\ i # None /\ \A x \in Name : x # Temp(t) => names[x] # i
  BY <1>3, TempFacts, BlobStoreAssumption DEF NamesApart
<1> HIDE DEF i
<1>5. TypeOK'
  BY <1>1, <1>2 DEF TypeOK
<1>6. NamesApart' /\ PutIsIdempotent'
  BY <1>2 DEF NamesApart, PutIsIdempotent
<1>7. BlobsReadBack'
  <2>1. \A b \in Blob : Exists(PathOf(b)) =>
           names[PathOf(b)] \in Inode /\ names[PathOf(b)] # i
    BY <1>3, <1>4, NameFacts, TempFacts DEF Exists, TypeOK
  <2>2. \A j \in Inode : j # i => content'[j] = content[j]
    BY <1>1 DEF TypeOK
  <2> QED
    BY <1>2, <2>1, <2>2 DEF BlobsReadBack, Exists
<1>8. Writing'
  <2> SUFFICES ASSUME NEW u \in Thread  PROVE Writes(u)'
    BY DEF Writing
  <2>1. CASE u = t
    <3>1. thread'[t] = r /\ Temp(t)' = Temp(t)
      BY <1>1 DEF TypeOK, Temp
    <3>2. /\ content'[i] = content[i] \cup {piece} /\ content[i] \subseteq Piece
      BY <1>1, <1>3 DEF TypeOK
    <3> QED
      BY <1>1, <1>2, <1>3, <2>1, <3>1, <3>2 DEF Writes, Piece
  <2>2. CASE u # t
    <3>1. thread'[u] = thread[u] /\ Temp(u)' = Temp(u)
      BY <1>1, <2>2 DEF TypeOK, Temp
    <3>2. thread[u].blob \in Blob => Temp(u) \in Name /\ names[Temp(u)] # i
      BY <1>3, <1>4, <2>2, TempFacts
    <3>3. \A j \in Inode : j # i => content'[j] = content[j]
      BY <1>1 DEF TypeOK
    <3> QED
      BY <1>2, <3>1, <3>2, <3>3 DEF Writing, Writes
  <2> QED
    BY <2>1, <2>2
<1> QED
  BY <1>5, <1>6, <1>7, <1>8

\* The file that gets the name of the blob is there and whole.
LEMMA RenameStep ==
  ASSUME BlobInv, OneThreadEach, NEW t \in Thread, Rename(t)
  PROVE  BlobInv'
<1> USE DEF BlobInv
<1> DEFINE b == thread[t].blob
           i == names[Temp(t)]
<1>1. /\ b \in Blob /\ i \in Inode /\ content[i] = Piece /\ Temp(t) \in Name
      /\ PathOf(b) \in Name /\ PathOf(b) # Temp(t) /\ i # None
  BY NameFacts, TempFacts, BlobStoreAssumption DEF Rename, Writing, Writes
<1>2. /\ names' = [names EXCEPT ![PathOf(b)] = i, ![Temp(t)] = None]
      /\ stored' = stored \cup {b} /\ Return(t, "ok") /\ content' = content
  BY <1>1 DEF Rename, Exists
<1>3. /\ names' \in [Name -> Inode \cup {None}]
      /\ names'[PathOf(b)] = i /\ names'[Temp(t)] = None
      /\ \A x \in Name : x \notin {PathOf(b), Temp(t)} => names'[x] = names[x]
  BY <1>1, <1>2 DEF TypeOK
<1>4. /\ thread' = [thread EXCEPT ![t] = Idle] /\ thread' \in [Thread -> ThreadState]
      /\ result' = [result EXCEPT ![t] = "ok"]
  BY <1>2, IdleFacts DEF Return, TypeOK
<1> HIDE DEF b, i
<1>5. TypeOK'
  BY <1>1, <1>2, <1>3, <1>4 DEF TypeOK
<1>6. NamesApart'
  <2>1. \A x \in Name : x # Temp(t) => names[x] # i
    BY <1>1 DEF NamesApart, i
  <2> QED
    BY <1>1, <1>3, <2>1 DEF NamesApart
<1>7. BlobsReadBack'
  <2>1. ASSUME NEW c \in Blob
        PROVE  /\ Exists(PathOf(c))' => content'[names'[PathOf(c)]] = Piece
               /\ c \in stored' => Exists(PathOf(c))'
    <3>1. PathOf(c) \in Name /\ PathOf(c) # Temp(t)
      BY <1>1, NameFacts, TempFacts DEF b
    <3>2. CASE c = b
      BY <1>1, <1>2, <1>3, <3>2 DEF Exists
    <3>3. CASE c # b
      <4>1. names'[PathOf(c)] = names[PathOf(c)]
        BY <1>1, <1>3, <3>1, <3>3, NameFacts
      <4> QED
        BY <1>2, <3>3, <4>1 DEF BlobsReadBack, Exists
    <3> QED
      BY <3>2, <3>3
  <2>2. stored' \subseteq Blob
    BY <1>5 DEF TypeOK
  <2> QED
    BY <2>1, <2>2 DEF BlobsReadBack
<1>8. PutIsIdempotent'
  BY <1>4 DEF PutIsIdempotent, TypeOK
<1>9. Writing'
  <2> SUFFICES ASSUME NEW u \in Thread  PROVE Writes(u)'
    BY DEF Writing
  <2>1. CASE u = t
    BY <1>4, <2>1, IdleFacts DEF Writes, TypeOK
  <2>2. CASE u # t
    <3>1. thread'[u] = thread[u] /\ Temp(u)' = Temp(u)
      BY <1>4, <2>2 DEF TypeOK, Temp
    <3>2. thread[u].blob \in Blob => names'[Temp(u)] = names[Temp(u)]
      <4>1. thread[u].blob \in Blob => Temp(u) \in Name /\ Temp(u) # Temp(t)
                                        /\ Temp(u) # PathOf(b)
        BY <1>1, <2>2, TempFacts DEF b
      <4> QED
        BY <1>3, <4>1
    <3> QED
      BY <1>2, <3>1, <3>2 DEF Writing, Writes
  <2> QED
    BY <2>1, <2>2
<1> QED
  BY <1>5, <1>6, <1>7, <1>8, <1>9

\* A process that is killed leaves its files.
LEMMA CrashStep ==
  ASSUME BlobInv, OneThreadEach, NEW p \in Process, Crash(p)
  PROVE  BlobInv'
<1> USE DEF BlobInv
<1>1. \A t \in Thread : thread'[t] \in {Idle, thread[t]}
  BY DEF Crash, TypeOK
<1>2. thread' \in [Thread -> ThreadState]
  BY <1>1, IdleFacts DEF Crash, TypeOK
<1>3. TypeOK'
  BY <1>2 DEF Crash, TypeOK
<1>4. BlobsReadBack' /\ PutIsIdempotent' /\ NamesApart'
  BY DEF Crash, BlobsReadBack, PutIsIdempotent, NamesApart, Exists
<1>5. Writing'
  BY <1>1, IdleFacts DEF Crash, Writing, Writes, Temp
<1> QED
  BY <1>3, <1>4, <1>5

-----------------------------------------------------------------------------

\* Initially there are no files and no calls.
LEMMA BlobInit == Init => BlobInv
<1> SUFFICES ASSUME Init  PROVE BlobInv
  OBVIOUS
<1>1. \A x \in Name : names[x] = None
  BY DEF Init
<1>2. \A t \in Thread : thread[t].step = "idle"
  BY IdleFacts DEF Init
<1>3. TypeOK
  BY IdleFacts DEF Init, TypeOK
<1>4. NamesApart /\ Writing /\ PutIsIdempotent
  BY <1>1, <1>2 DEF Init, NamesApart, Writing, Writes, PutIsIdempotent
<1>5. BlobsReadBack
  BY <1>1, NameFacts DEF Init, BlobsReadBack, Exists
<1> QED
  BY <1>3, <1>4, <1>5 DEF BlobInv

\* Every step keeps the invariant.
LEMMA BlobStep == OneThreadEach /\ BlobInv /\ [Next]_vars => BlobInv'
<1> SUFFICES ASSUME OneThreadEach, BlobInv, [Next]_vars  PROVE BlobInv'
  OBVIOUS
<1>1. CASE UNCHANGED vars
  BY <1>1 DEF vars, BlobInv, TypeOK, NamesApart, Writing, Writes, Temp, BlobsReadBack,
              PutIsIdempotent, Exists
<1>2. CASE Next
  BY <1>2, PutExistingStep, PutNewStep, CreateStep, WriteStep, WriteFailsStep, RenameStep,
     GetMissingStep, GetOpenStep, GetReadStep, CrashStep
  DEF Next
<1> QED
  BY <1>1, <1>2

\* The inductive invariant holds in every state.
THEOREM BlobInvariant == ASSUME OneThreadEach  PROVE Spec => []BlobInv
  BY BlobInit, BlobStep, PTL DEF Spec

\* When each process uses the store from one thread, what is found under the
\* name of a blob is the whole blob, and a blob that was put stays, whatever
\* processes are killed or fail to write and however many put the same blob.
THEOREM BlobsAreWhole == ASSUME OneThreadEach  PROVE Spec => []BlobsReadBack
<1>1. BlobInv => BlobsReadBack
  BY DEF BlobInv
<1> QED
  BY <1>1, BlobInvariant, PTL

\* And `put' then fails only when creating, writing or renaming a file fails:
\* nobody else takes the temporary file away.
THEOREM PutsAreIdempotent == ASSUME OneThreadEach  PROVE Spec => []PutIsIdempotent
<1>1. BlobInv => PutIsIdempotent
  BY DEF BlobInv
<1> QED
  BY <1>1, BlobInvariant, PTL

-----------------------------------------------------------------------------
(* Transform: ranges and sequences *)

\* A set of numbers that has 0, and with each number its successor up to n, has
\* all of them up to n.
LEMMA Climb ==
  ASSUME NEW n \in Nat, NEW T, 0 \in T,
         \A k \in 0 .. n : k \in T /\ k < n => k + 1 \in T
  PROVE  \A k \in 0 .. n : k \in T
<1> SUFFICES ASSUME (0 .. n) \ T # {}  PROVE FALSE
  OBVIOUS
<1> DEFINE U == (0 .. n) \ T
<1>1. U \subseteq Nat /\ U # {}
  OBVIOUS
<1>2. \E x \in U : \A y \in U : ~(<<y, x>> \in OpToRel(<, Nat))
  <2> HIDE DEF U
  <2> QED
    BY <1>1, NatLessThanWellFounded, WFMin
<1>3. PICK x \in U : \A y \in U : ~(<<y, x>> \in OpToRel(<, Nat))
  BY <1>2
<1>4. x \in 1 .. n /\ x - 1 \in 0 .. n /\ x - 1 \in Nat /\ x \in Nat
  OBVIOUS
<1>5. <<x - 1, x>> \in OpToRel(<, Nat)
  BY <1>4 DEF OpToRel
<1>6. x - 1 \in T
  BY <1>3, <1>4, <1>5
<1>7. x - 1 < n /\ (x - 1) + 1 = x
  BY <1>4
<1>8. x \in T
  BY <1>4, <1>6, <1>7
<1> QED
  BY <1>8

-----------------------------------------------------------------------------
(* Sequences *)

\* Two sequences that begin with parts of the same length agree on both parts.
LEMMA Cut ==
  ASSUME NEW S, NEW a \in Seq(S), NEW b \in Seq(S), NEW s \in Seq(S), NEW t \in Seq(S),
         Len(a) = Len(b), a \o s = b \o t
  PROVE  a = b /\ s = t
<1>1. /\ Len(a) \in Nat /\ Len(a \o s) = Len(a) + Len(s)
      /\ \A i \in 1 .. Len(a) : (a \o s)[i] = a[i] /\ (b \o t)[i] = b[i]
  BY LenProperties, ConcatProperties
<1>2. a = b
  BY <1>1, SeqEqual
<1> QED
  BY <1>2, ConcatSimplifications

\* What follows the same beginning is the same.
LEMMA CancelLeft ==
  \A S : \A a, b, c \in Seq(S) : a \o b = a \o c => b = c
  BY ConcatSimplifications

\* Joining, for steps that need nothing else about sequences.
Join(a, b) == a \o b

\* Sequences may be joined from the right as well as from the left.
LEMMA JoinRegroups ==
  ASSUME NEW S, NEW a \in Seq(S), NEW b \in Seq(S), NEW c \in Seq(S)
  PROVE  Join(Join(a, b), c) = Join(a, Join(b, c))
<1>1. (a \o b) \o c = a \o (b \o c)
  BY ConcatAssociative
<1> QED
  BY <1>1 DEF Join

\* What follows two parts that begin with the same is the same, joined to the second.
LEMMA SameBeginning ==
  ASSUME NEW S, NEW h \in Seq(S), NEW s \in Seq(S), NEW r \in Seq(S),
         NEW u \in Seq(S), NEW v \in Seq(S), Join(Join(h, s), u) = Join(Join(h, r), v)
  PROVE  Join(s, u) = Join(r, v)
<1> DEFINE W == Seq(S)
<1>1. \A a, b \in W : Join(a, b) \in W
  BY ConcatProperties DEF Join
<1>2. \A a, b, c \in W : Join(Join(a, b), c) = Join(a, Join(b, c))
  BY JoinRegroups
<1>3. \A a, b, c \in W : Join(a, b) = Join(a, c) => b = c
  BY CancelLeft DEF Join
<1>4. h \in W /\ s \in W /\ r \in W /\ u \in W /\ v \in W
  OBVIOUS
<1> HIDE DEF W
<1>5. Join(s, u) \in W /\ Join(r, v) \in W /\ Join(h, Join(s, u)) = Join(h, Join(r, v))
  BY <1>1, <1>2, <1>4
<1> QED
  BY <1>3, <1>4, <1>5

\* The sequences that FlattenSeq joins, one by one.
LEMMA FlattenSteps ==
  ASSUME NEW S, NEW ss \in Seq(Seq(S))
  PROVE  \E H \in [0 .. Len(ss) -> Seq(S)] :
           /\ H[0] = <<>> /\ H[Len(ss)] = FlattenSeq(ss)
           /\ \A k \in 0 .. Len(ss) : k < Len(ss) => H[k + 1] = H[k] \o ss[k + 1]
<1> DEFINE n == Len(ss)
<1> DEFINE Joins(F, k) ==
      F = [i \in 1 .. k |-> IF i = 1 THEN ss[i] ELSE F[i - 1] \o ss[i]]
<1>1. n \in Nat /\ \A i \in 1 .. n : ss[i] \in Seq(S)
  BY LenProperties, ElementOfSeq
<1>2. CASE n = 0
  <2> DEFINE H == [k \in 0 .. 0 |-> <<>>]
  <2>1. FlattenSeq(ss) = <<>>
    <3>1. FlattenSeq(ss) = ss
      BY <1>2 DEF FlattenSeq
    <3>2. ss = <<>>
      BY <1>2, EmptySeq
    <3> QED
      BY <3>1, <3>2
  <2>2. H \in [0 .. 0 -> Seq(S)]
    BY EmptySeq
  <2>3. H[0] = <<>>
    OBVIOUS
  <2>4. Len(ss) = 0 /\ \A k \in 0 .. Len(ss) : ~(k < Len(ss))
    BY <1>2
  <2> HIDE DEF H, n
  <2>5. /\ H \in [0 .. Len(ss) -> Seq(S)]
        /\ H[0] = <<>> /\ H[Len(ss)] = FlattenSeq(ss)
    BY <2>1, <2>2, <2>3, <2>4
  <2> QED
    BY <2>4, <2>5
<1>3. CASE n # 0
  <2> DEFINE Known == {k \in 0 .. n : \E F : Joins(F, k)}
  <2>1. 0 \in Known
    <3> DEFINE F == [i \in 1 .. 0 |-> <<>>]
    <3>1. Joins(F, 0)
      OBVIOUS
    <3>2. \E E : Joins(E, 0)
      <4> HIDE DEF Joins
      <4> QED
        BY <3>1
    <3>3. 0 \in 0 .. n
      BY <1>1
    <3> HIDE DEF Joins
    <3> QED
      BY <3>2, <3>3
  <2>2. ASSUME NEW k \in 0 .. n, k \in Known, k < n  PROVE k + 1 \in Known
    <3>1. PICK F : Joins(F, k)
      BY <2>2
    <3> HIDE DEF Joins
    <3> DEFINE G == [i \in 1 .. k + 1 |->
                       IF i = k + 1 THEN (IF i = 1 THEN ss[i] ELSE F[i - 1] \o ss[i])
                       ELSE F[i]]
    <3>2. \A i \in 1 .. k : F[i] = IF i = 1 THEN ss[i] ELSE F[i - 1] \o ss[i]
      BY <3>1 DEF Joins
    <3>3. \A i \in 1 .. k + 1 : G[i] = IF i = 1 THEN ss[i] ELSE G[i - 1] \o ss[i]
      <4> TAKE i \in 1 .. k + 1
      <4>1. i # 1 => G[i - 1] = F[i - 1]
        BY <2>2
      <4>2. i # k + 1 => i \in 1 .. k
        BY <2>2
      <4> QED
        BY <3>2, <4>1, <4>2
    <3>4. Joins(G, k + 1)
      <4> DEFINE E == [i \in 1 .. k + 1 |-> IF i = 1 THEN ss[i] ELSE G[i - 1] \o ss[i]]
      <4>1. \A i \in 1 .. k + 1 : G[i] = E[i]
        BY <3>3
      <4>2. G = [i \in 1 .. k + 1 |-> G[i]]
        OBVIOUS
      <4>3. G = E
        <5> HIDE DEF G
        <5> QED
        BY <4>1, <4>2
      <4> QED
        BY <4>3 DEF Joins
    <3> QED
      BY <2>2, <3>4
  <2>3. \E F : Joins(F, n)
    <3> HIDE DEF Joins
    <3>1. \A k \in 0 .. n : k \in Known
      <4> HIDE DEF Known
      <4> QED
        BY <1>1, <2>1, <2>2, Climb
    <3> QED
      BY <1>1, <3>1
  <2> DEFINE F == CHOOSE F : Joins(F, n)
  <2>4. FlattenSeq(ss) = F[n]
    BY <1>3 DEF FlattenSeq
  <2>5. Joins(F, n)
    <3> HIDE DEF Joins
    <3> QED
      BY <2>3
  <2>6. \A i \in 1 .. n : F[i] = IF i = 1 THEN ss[i] ELSE F[i - 1] \o ss[i]
    <3> HIDE DEF F
    <3> QED
      BY <2>5
  <2> HIDE DEF F
  <2> DEFINE Typed == {k \in 0 .. n : k # 0 => F[k] \in Seq(S)}
  <2>7. ASSUME NEW k \in 0 .. n, k \in Typed, k < n  PROVE k + 1 \in Typed
    <3>1. k + 1 \in 1 .. n /\ (k + 1) - 1 = k /\ (k + 1 = 1 <=> k = 0)
      BY <1>1, <2>7
    <3>2. F[k + 1] = IF k = 0 THEN ss[k + 1] ELSE F[k] \o ss[k + 1]
      BY <2>6, <3>1
    <3>3. ss[k + 1] \in Seq(S)
      BY <1>1, <3>1
    <3>4. k # 0 => F[k] \in Seq(S)
      BY <2>7
    <3>5. k # 0 => F[k] \o ss[k + 1] \in Seq(S)
      BY <3>3, <3>4, ConcatProperties
    <3>6. F[k + 1] \in Seq(S)
      BY <3>2, <3>3, <3>5
    <3> QED
      BY <3>1, <3>6
  <2>8. \A k \in 0 .. n : k \in Typed
    <3>1. 0 \in Typed
      BY <1>1
    <3> HIDE DEF Typed
    <3> QED
      BY <1>1, <2>7, <3>1, Climb
  <2> DEFINE H == [k \in 0 .. n |-> IF k = 0 THEN <<>> ELSE F[k]]
  <2>9. H \in [0 .. n -> Seq(S)]
    BY <2>8, EmptySeq
  <2>10. H[0] = <<>> /\ H[n] = FlattenSeq(ss)
    BY <1>1, <1>3, <2>4
  <2>11. ASSUME NEW k \in 0 .. n, k < n  PROVE H[k + 1] = H[k] \o ss[k + 1]
    <3>1. k + 1 \in 1 .. n /\ (k + 1) - 1 = k /\ (k + 1 = 1 <=> k = 0)
      BY <1>1, <2>11
    <3>2. F[k + 1] = IF k = 0 THEN ss[k + 1] ELSE F[k] \o ss[k + 1]
      BY <2>6, <3>1
    <3>3. H[k + 1] = F[k + 1] /\ H[k] = IF k = 0 THEN <<>> ELSE F[k]
      BY <3>1
    <3>4. k = 0 => <<>> \o ss[k + 1] = ss[k + 1]
      BY <1>1, <3>1, ConcatEmptySeq
    <3> QED
      BY <3>2, <3>3, <3>4
  <2> QED
    BY <2>9, <2>10, <2>11
<1> QED
  BY <1>2, <1>3

\* The steps in which FlattenSeq joins sequences; each is the beginning of the last.
Parts(S, ss, n, H) ==
  /\ H \in [0 .. n -> Seq(S)] /\ H[0] = <<>> /\ H[n] = FlattenSeq(ss)
  /\ \A k \in 0 .. n : k < n => H[k + 1] = H[k] \o ss[k + 1]
  /\ \A k \in 0 .. n : \E u \in Seq(S) : H[n] = H[k] \o u

\* There are such steps, whatever sequences are joined.
LEMMA FlattenParts ==
  ASSUME NEW S, NEW ss \in Seq(Seq(S))
  PROVE  \E H : Parts(S, ss, Len(ss), H)
<1> DEFINE n == Len(ss)
<1>1. PICK H \in [0 .. n -> Seq(S)] :
             /\ H[0] = <<>> /\ H[n] = FlattenSeq(ss)
             /\ \A k \in 0 .. n : k < n => H[k + 1] = H[k] \o ss[k + 1]
  BY FlattenSteps
<1>2. n \in Nat /\ \A i \in 1 .. n : ss[i] \in Seq(S)
  BY LenProperties, ElementOfSeq
<1> HIDE DEF n
<1> DEFINE T == {j \in 0 .. n : \E u \in Seq(S) : H[n] = H[n - j] \o u}
<1>3. 0 \in T
  <2>1. H[n] \in Seq(S) /\ n - 0 = n
    BY <1>2
  <2>2. H[n] = H[n] \o <<>> /\ <<>> \in Seq(S)
    BY <2>1, ConcatEmptySeq, EmptySeq
  <2>3. \E u \in Seq(S) : H[n] = H[n - 0] \o u
    BY <2>1, <2>2
  <2>4. 0 \in 0 .. n
    BY <1>2
  <2> HIDE DEF T
  <2> QED
    BY <2>3, <2>4 DEF T
<1>4. ASSUME NEW j \in 0 .. n, j \in T, j < n  PROVE j + 1 \in T
  <2>1. PICK u \in Seq(S) : H[n] = H[n - j] \o u
    BY <1>4
  <2> DEFINE k == n - (j + 1)
  <2>2. k \in 0 .. n /\ k < n /\ k + 1 = n - j /\ k + 1 \in 1 .. n
    BY <1>2, <1>4
  <2> HIDE DEF T, k
  <2>3. H[k] \in Seq(S) /\ ss[k + 1] \in Seq(S)
    BY <1>2, <2>2
  <2>4. H[n - j] = H[k] \o ss[k + 1]
    BY <1>1, <2>2
  <2> DEFINE h == H[k]
             s == ss[k + 1]
  <2>5. h \in Seq(S) /\ s \in Seq(S)
    BY <2>3
  <2> HIDE DEF h, s
  <2>6. (h \o s) \o u = h \o (s \o u) /\ s \o u \in Seq(S)
    BY <2>5, ConcatAssociative, ConcatProperties
  <2>7. \E w \in Seq(S) : H[n] = H[k] \o w
    BY <2>1, <2>4, <2>6 DEF h, s
  <2>8. j + 1 \in 0 .. n
    BY <1>2, <1>4
  <2> QED
    BY <2>7, <2>8 DEF T, k
<1>5. \A j \in 0 .. n : j \in T
  <2> HIDE DEF T
  <2> QED
    BY <1>2, <1>3, <1>4, Climb
<1>6. \A k \in 0 .. n : \E u \in Seq(S) : H[n] = H[k] \o u
  <2> TAKE k \in 0 .. n
  <2>1. n - k \in 0 .. n /\ n - (n - k) = k
    BY <1>2
  <2>2. n - k \in T
    BY <1>5, <2>1
  <2> QED
    BY <2>1, <2>2
<1> QED
  BY <1>1, <1>6 DEF n, Parts

\* If of each one can tell where it ends, then what is joined can be taken apart.
LEMMA Unflatten ==
  ASSUME NEW S, NEW ss \in Seq(Seq(S)), NEW tt \in Seq(Seq(S)), Len(ss) = Len(tt),
         FlattenSeq(ss) = FlattenSeq(tt),
         \A i \in 1 .. Len(ss) : \A u, v \in Seq(S) :
           Join(ss[i], u) = Join(tt[i], v) => ss[i] = tt[i]
  PROVE  ss = tt
<1> DEFINE n == Len(ss)
<1>1. n \in Nat /\ \A i \in 1 .. n : ss[i] \in Seq(S) /\ tt[i] \in Seq(S)
  BY LenProperties, ElementOfSeq
<1>2. PICK H : Parts(S, ss, n, H)
  BY FlattenParts
<1>3. PICK K : Parts(S, tt, n, K)
  BY FlattenParts
<1> HIDE DEF n
<1> DEFINE T == {k \in 0 .. n : H[k] = K[k] /\ \A i \in 1 .. k : ss[i] = tt[i]}
<1>5. 0 \in T
  BY <1>1, <1>2, <1>3 DEF Parts
<1>6. ASSUME NEW k \in 0 .. n, k \in T, k < n  PROVE k + 1 \in T
  <2>1. k + 1 \in 0 .. n /\ k + 1 \in 1 .. n
    BY <1>1, <1>6
  <2>2. PICK u \in Seq(S) : H[n] = H[k + 1] \o u
    BY <1>2, <2>1 DEF Parts
  <2>3. PICK v \in Seq(S) : K[n] = K[k + 1] \o v
    BY <1>3, <2>1 DEF Parts
  <2>4. H[k + 1] = H[k] \o ss[k + 1] /\ K[k + 1] = H[k] \o tt[k + 1] /\ H[k] = K[k]
    BY <1>2, <1>3, <1>6 DEF Parts
  <2>5. H[k] \in Seq(S) /\ ss[k + 1] \in Seq(S) /\ tt[k + 1] \in Seq(S)
    BY <1>1, <1>2, <2>1 DEF Parts
  <2> HIDE DEF T
  <2> DEFINE h == H[k]
             s == ss[k + 1]
             r == tt[k + 1]
  <2>6. h \in Seq(S) /\ s \in Seq(S) /\ r \in Seq(S)
    BY <2>5
  <2>7. Join(Join(h, s), u) = Join(Join(h, r), v)
    <3>1. H[n] = K[n]
      BY <1>2, <1>3 DEF Parts
    <3>2. H[n] = Join(Join(h, s), u)
      BY <2>2, <2>4 DEF Join
    <3>3. K[n] = Join(Join(h, r), v)
      BY <2>3, <2>4 DEF Join
    <3> HIDE DEF h, s, r
    <3> QED
      BY <3>1, <3>2, <3>3
  <2> HIDE DEF h, s, r
  <2>9. Join(s, u) = Join(r, v)
    BY <2>6, <2>7, SameBeginning
  <2>10. ss[k + 1] = tt[k + 1]
    BY <2>1, <2>9 DEF n, s, r
  <2>11. \A i \in 1 .. k + 1 : ss[i] = tt[i]
    <3>1. \A i \in 1 .. k + 1 : i = k + 1 \/ i \in 1 .. k
      BY <1>6
    <3>2. \A i \in 1 .. k : ss[i] = tt[i]
      BY <1>6 DEF T
    <3> QED
      BY <2>10, <3>1, <3>2
  <2> QED
    BY <2>1, <2>4, <2>10, <2>11 DEF T
<1>7. \A k \in 0 .. n : k \in T
  <2> HIDE DEF T
  <2> QED
    BY <1>1, <1>5, <1>6, Climb
<1>8. \A i \in 1 .. n : ss[i] = tt[i]
  BY <1>1, <1>7
<1> QED
  BY <1>8, SeqEqual DEF n

-----------------------------------------------------------------------------
(* The order of keys *)

Text == Seq(0 .. 255)

\* It is a strict order of all texts.
LEMMA BeforeOrders ==
  /\ \A a \in Text : ~Before(a, a)
  /\ \A a, b, c \in Text : Before(a, b) /\ Before(b, c) => Before(a, c)
  /\ \A a, b \in Text : a = b \/ Before(a, b) \/ Before(b, a)
<1>1. \A a \in Text : Len(a) \in Nat /\ \A j \in 1 .. Len(a) : a[j] \in Nat
  <2> TAKE a \in Text
  <2>1. Len(a) \in Nat /\ \A j \in 1 .. Len(a) : a[j] \in 0 .. 255
    BY LenProperties, ElementOfSeq DEF Text
  <2>2. \A i \in 0 .. 255 : i \in Nat
    OBVIOUS
  <2> QED
    BY <2>1, <2>2
<1>2. ASSUME NEW a \in Text  PROVE ~Before(a, a)
  BY <1>1 DEF Before
<1>3. ASSUME NEW a \in Text, NEW b \in Text, NEW c \in Text, Before(a, b), Before(b, c)
      PROVE  Before(a, c)
  <2>1. PICK i \in 1 .. Len(b) :
               /\ i <= Len(a) + 1 /\ \A j \in 1 .. i - 1 : a[j] = b[j]
               /\ i = Len(a) + 1 \/ a[i] < b[i]
    BY <1>3 DEF Before
  <2>2. PICK k \in 1 .. Len(c) :
               /\ k <= Len(b) + 1 /\ \A j \in 1 .. k - 1 : b[j] = c[j]
               /\ k = Len(b) + 1 \/ b[k] < c[k]
    BY <1>3 DEF Before
  <2>3. Len(a) \in Nat /\ Len(b) \in Nat /\ Len(c) \in Nat /\ i \in Nat /\ k \in Nat
    BY <1>1, <2>1, <2>2
  <2>4. CASE i < k
    <3>1. i \in 1 .. Len(c) /\ b[i] = c[i]
      BY <2>2, <2>3, <2>4
    <3>2. \A j \in 1 .. i - 1 : a[j] = c[j]
      BY <2>1, <2>2, <2>3, <2>4
    <3> QED
      BY <2>1, <3>1, <3>2 DEF Before
  <2>5. CASE k <= i
    <3>1. k <= Len(b) /\ k <= Len(a) + 1 /\ b[k] < c[k]
      BY <2>1, <2>2, <2>3, <2>5
    <3>2. \A j \in 1 .. k - 1 : a[j] = c[j]
      BY <2>1, <2>2, <2>3, <2>5
    <3>3. k = Len(a) + 1 \/ a[k] < c[k]
      <4>1. CASE k < i
        <5>1. a[k] = b[k]
          BY <2>1, <2>2, <2>3, <4>1
        <5> QED
          BY <3>1, <5>1
      <4>2. CASE k = i
        <5>1. ASSUME k # Len(a) + 1  PROVE a[k] < c[k]
          <6>1. /\ a[k] < b[k]
                /\ k \in 1 .. Len(a) /\ k \in 1 .. Len(b) /\ k \in 1 .. Len(c)
            BY <2>1, <2>2, <2>3, <3>1, <4>2, <5>1
          <6> QED
            BY <1>1, <3>1, <6>1
        <5> QED
          BY <5>1
      <4> QED
        BY <2>3, <2>5, <4>1, <4>2
    <3> QED
      BY <2>2, <3>1, <3>2, <3>3 DEF Before
  <2> QED
    BY <2>3, <2>4, <2>5
<1>4. ASSUME NEW a \in Text, NEW b \in Text, a # b
      PROVE  Before(a, b) \/ Before(b, a)
  <2> DEFINE T == {k \in 0 .. Len(a) + 1 :
                     \A j \in 1 .. k : j <= Len(a) /\ j <= Len(b) /\ a[j] = b[j]}
  <2>1. Len(a) \in Nat /\ Len(b) \in Nat /\ Len(a) + 1 \in Nat
    BY <1>1
  <2>2. PICK k \in 0 .. Len(a) + 1 : k \in T /\ k < Len(a) + 1 /\ k + 1 \notin T
    <3>1. 0 \in T
      BY <2>1
    <3>2. Len(a) + 1 \notin T
      BY <2>1
    <3> HIDE DEF T
    <3> QED
      BY <2>1, <3>1, <3>2, Climb
  <2>3. \A j \in 1 .. k : j <= Len(a) /\ j <= Len(b) /\ a[j] = b[j]
    BY <2>2
  <2>4. ~(k + 1 <= Len(a) /\ k + 1 <= Len(b) /\ a[k + 1] = b[k + 1])
    <3> SUFFICES ASSUME k + 1 <= Len(a) /\ k + 1 <= Len(b) /\ a[k + 1] = b[k + 1]
                 PROVE  FALSE
      OBVIOUS
    <3>1. \A j \in 1 .. k + 1 : j = k + 1 \/ j \in 1 .. k
      BY <2>1
    <3>2. k + 1 \in 0 .. Len(a) + 1
      BY <2>1, <2>2
    <3>3. \A j \in 1 .. k + 1 : j <= Len(a) /\ j <= Len(b) /\ a[j] = b[j]
      BY <2>3, <3>1
    <3> QED
      BY <2>2, <3>2, <3>3
  <2> HIDE DEF T
  <2> DEFINE j == k + 1
  <2>5. /\ j \in Nat /\ j >= 1 /\ j - 1 = k /\ k \in Nat
        /\ k <= Len(a) /\ (k >= 1 => k <= Len(b))
    BY <2>1, <2>2, <2>3
  <2>6. k <= Len(b)
    BY <2>1, <2>5
  <2>7. \A l \in 1 .. j - 1 : a[l] = b[l] /\ b[l] = a[l]
    BY <2>3, <2>5
  <2>8. CASE j > Len(a) /\ j > Len(b)
    <3>1. Len(a) = k /\ Len(b) = k
      BY <2>1, <2>5, <2>6, <2>8
    <3>2. a = b
      BY <2>3, <3>1, SeqEqual DEF Text
    <3> QED
      BY <1>4, <3>2
  <2>9. CASE j > Len(a) /\ j <= Len(b)
    <3>1. j = Len(a) + 1 /\ j \in 1 .. Len(b)
      BY <2>1, <2>5, <2>9
    <3> QED
      BY <2>1, <2>7, <3>1 DEF Before
  <2>10. CASE j <= Len(a) /\ j > Len(b)
    <3>1. j = Len(b) + 1 /\ j \in 1 .. Len(a)
      BY <2>1, <2>5, <2>6, <2>10
    <3> QED
      BY <2>1, <2>7, <3>1 DEF Before
  <2>11. CASE j <= Len(a) /\ j <= Len(b)
    <3>1. j \in 1 .. Len(a) /\ j \in 1 .. Len(b) /\ j <= Len(a) + 1 /\ j <= Len(b) + 1
      BY <2>1, <2>5, <2>11
    <3>2. a[j] \in Nat /\ b[j] \in Nat /\ a[j] # b[j]
      BY <1>1, <2>4, <2>11, <3>1
    <3>3. a[j] < b[j] \/ b[j] < a[j]
      BY <3>2
    <3> HIDE DEF j
    <3> QED
      BY <2>7, <3>1, <3>3 DEF Before
  <2> QED
    BY <2>1, <2>5, <2>8, <2>9, <2>10, <2>11
<1> QED
  BY <1>2, <1>3, <1>4

\* A map is iterated over all its keys, each once.
LEMMA InOrderDoes ==
  ASSUME NEW keys \in SUBSET Text, IsFiniteSet(keys)
  PROVE  LET n == Cardinality(keys)
         IN  /\ n \in Nat /\ InOrder(keys) \in [1 .. n -> keys]
             /\ InOrder(keys) \in Seq(keys) /\ Len(InOrder(keys)) = n
             /\ \A x \in keys : \E i \in 1 .. n : InOrder(keys)[i] = x
<1> DEFINE n == Cardinality(keys)
           Earlier(x) == {m \in keys : Before(m, x)}
           rank == [x \in keys |-> Cardinality(Earlier(x))]
<1>1. n \in Nat
  BY FS_CardinalityType
<1>2. \A x \in keys : /\ IsFiniteSet(Earlier(x)) /\ Cardinality(Earlier(x)) \in Nat
                       /\ Cardinality(Earlier(x)) < n
  <2> TAKE x \in keys
  <2>1. Earlier(x) \in SUBSET keys /\ x \notin Earlier(x)
    BY BeforeOrders
  <2>2. /\ IsFiniteSet(Earlier(x)) /\ Cardinality(Earlier(x)) <= n
        /\ n = Cardinality(Earlier(x)) => keys = Earlier(x)
    <3> HIDE DEF Earlier
    <3> QED
      BY <2>1, FS_Subset
  <2>3. Cardinality(Earlier(x)) \in Nat
    BY <2>2, FS_CardinalityType
  <2> QED
    <3> HIDE DEF Earlier, n
    <3> QED
      BY <1>1, <2>1, <2>2, <2>3
<1>3. \A x, y \in keys :
        Before(x, y) => Cardinality(Earlier(x)) < Cardinality(Earlier(y))
  <2> SUFFICES ASSUME NEW x \in keys, NEW y \in keys, Before(x, y)
               PROVE  Cardinality(Earlier(x)) < Cardinality(Earlier(y))
    OBVIOUS
  <2>1. Earlier(x) \in SUBSET Earlier(y) /\ x \in Earlier(y) /\ x \notin Earlier(x)
    BY BeforeOrders
  <2> HIDE DEF Earlier
  <2>2. /\ Cardinality(Earlier(x)) <= Cardinality(Earlier(y))
        /\ Cardinality(Earlier(y)) = Cardinality(Earlier(x)) => Earlier(y) = Earlier(x)
    BY <1>2, <2>1, FS_Subset
  <2> QED
    BY <1>2, <2>1, <2>2
<1>4. rank \in Injection(keys, 0 .. n - 1)
  <2>1. rank \in [keys -> 0 .. n - 1]
    <3> HIDE DEF Earlier, n
    <3> QED
      BY <1>1, <1>2
  <2>2. \A x, y \in keys : rank[x] = rank[y] => x = y
    <3> SUFFICES ASSUME NEW x \in keys, NEW y \in keys, x # y
                 PROVE  Cardinality(Earlier(x)) # Cardinality(Earlier(y))
      BY DEF rank
    <3>1. Before(x, y) \/ Before(y, x)
      BY BeforeOrders
    <3> HIDE DEF Earlier
    <3> QED
      BY <1>2, <1>3, <3>1
  <2> HIDE DEF rank
  <2> QED
    BY <2>1, <2>2 DEF Injection, IsInjective
<1>5. IsFiniteSet(0 .. n - 1) /\ Cardinality(0 .. n - 1) = n
  <2> HIDE DEF n
  <2> QED
    BY <1>1, FS_Interval
<1>6. rank \in Surjection(keys, 0 .. n - 1)
  <2> HIDE DEF rank
  <2> QED
    BY <1>4, <1>5, FS_Injection DEF n
<1>7. \A i \in 1 .. n : \E x \in keys : rank[x] = i - 1
  <2> HIDE DEF rank, n
  <2> QED
    BY <1>1, <1>6 DEF Surjection
<1>8. \A i \in 1 .. n :
        InOrder(keys)[i] \in keys /\ Cardinality(Earlier(InOrder(keys)[i])) = i - 1
  <2> TAKE i \in 1 .. n
  <2>1. \E x \in keys : Cardinality(Earlier(x)) = i - 1
    BY <1>7
  <2>2. InOrder(keys)[i] = CHOOSE x \in keys : Cardinality(Earlier(x)) = i - 1
    BY DEF InOrder
  <2> HIDE DEF Earlier
  <2> QED
    BY <2>1, <2>2
<1>9. InOrder(keys) \in [1 .. n -> keys]
  <2> DEFINE KeyAt(i) == CHOOSE x \in keys : Cardinality(Earlier(x)) = i - 1
  <2>1. InOrder(keys) = [i \in 1 .. n |-> InOrder(keys)[i]]
    <3>1. InOrder(keys) = [i \in 1 .. n |-> KeyAt(i)]
      BY DEF InOrder
    <3> HIDE DEF KeyAt, n
    <3> QED
      BY <3>1
  <2> HIDE DEF n, Earlier
  <2> QED
    BY <1>8, <2>1
<1>10. \A x \in keys : \E i \in 1 .. n : InOrder(keys)[i] = x
  <2> TAKE x \in keys
  <2> DEFINE i == rank[x] + 1
  <2>1. rank[x] = Cardinality(Earlier(x)) /\ i \in 1 .. n /\ i - 1 = rank[x]
    <3>1. rank[x] = Cardinality(Earlier(x))
      OBVIOUS
    <3> HIDE DEF rank, Earlier, n
    <3> QED
      BY <1>1, <1>2, <3>1
  <2>2. InOrder(keys)[i] \in keys
    <3> HIDE DEF i, n, rank, Earlier
    <3> QED
      BY <1>8, <2>1
  <2>3. rank[InOrder(keys)[i]] = rank[x]
    <3>1. rank[InOrder(keys)[i]] = Cardinality(Earlier(InOrder(keys)[i]))
      BY <2>2
    <3> HIDE DEF i, n, rank, Earlier
    <3> QED
      BY <1>8, <2>1, <3>1
  <2>4. InOrder(keys)[i] = x
    <3> HIDE DEF i, rank
    <3> QED
      BY <1>4, <2>2, <2>3 DEF Injection, IsInjective
  <2> QED
    BY <2>1, <2>4
<1>11. InOrder(keys) \in Seq(keys) /\ Len(InOrder(keys)) = n
  <2> HIDE DEF n
  <2>1. InOrder(keys) \in Seq(keys)
    BY <1>1, <1>9, SeqDef
  <2>2. DOMAIN InOrder(keys) = 1 .. n /\ DOMAIN InOrder(keys) = 1 .. Len(InOrder(keys))
    BY <1>9, <2>1, LenProperties
  <2>3. Len(InOrder(keys)) \in Nat
    BY <2>1, LenProperties
  <2> QED
    BY <1>1, <2>1, <2>2, <2>3
<1> QED
  BY <1>1, <1>9, <1>10, <1>11

-----------------------------------------------------------------------------
(* The bytes of a document *)

Symbol == Nat \cup {TRANSFORM_HEADER}
Word == Seq(Symbol)

\* Two words make a word.
LEMMA WordsJoin == \A a, b \in Word : Join(a, b) \in Word
<1> QED
  BY ConcatProperties DEF Word, Join

\* Words may be joined from the right.
LEMMA WordsRegroup == \A a, b, c \in Word : Join(Join(a, b), c) = Join(a, Join(b, c))
<1> QED
  BY JoinRegroups DEF Word

\* What is left of a word without a beginning or an end.
LEMMA WordsCancel ==
  /\ \A a, b, c \in Word : Join(a, b) = Join(a, c) => b = c
  /\ \A a, b, c \in Word : Join(a, c) = Join(b, c) => a = b
<1> QED
  BY CancelLeft, ConcatSimplifications DEF Word, Join

\* A word can be cut at a length.
LEMMA WordsCut ==
  \A a, b, s, t \in Word : Len(a) = Len(b) /\ Join(a, s) = Join(b, t) => a = b /\ s = t
<1> QED
  BY Cut DEF Word, Join

\* A length that fits is written as it is.
LEMMA LengthDoes ==
  \A n \in Nat : /\ Length(n) \in Word /\ Len(Length(n)) = 1
                 /\ n < LengthBase => Length(n)[1] = n
<1> SUFFICES ASSUME NEW n \in Nat
             PROVE  /\ Length(n) \in Word /\ Len(Length(n)) = 1
                    /\ n < LengthBase => Length(n)[1] = n
  OBVIOUS
<1>1. n % LengthBase \in Nat /\ (n < LengthBase => n % LengthBase = n)
  BY TransformAssumption
<1>2. n % LengthBase \in Symbol
  BY <1>1 DEF Symbol
<1> QED
  BY <1>1, <1>2 DEF Length, Word

\* Texts and hashes are sequences of symbols.
LEMMA Symbols ==
  /\ \A a \in Text : a \in Word /\ Len(a) \in Nat
  /\ \A h \in Hash : h \in Word /\ Len(h) = HashLength
<1>1. 0 .. 255 \subseteq Symbol
  BY DEF Symbol
<1>2. ASSUME NEW a \in Text  PROVE a \in Word /\ Len(a) \in Nat
  BY <1>1, SeqMonotonic, LenProperties DEF Text, Word
<1>3. ASSUME NEW h \in Hash  PROVE h \in Word /\ Len(h) = HashLength
  <2>1. HashLength \in Nat /\ h \in [1 .. HashLength -> Symbol]
    BY <1>1, TransformAssumption
  <2>2. h \in Word
    BY <2>1, SeqDef DEF Word
  <2>3. DOMAIN h = 1 .. HashLength /\ DOMAIN h = 1 .. Len(h) /\ Len(h) \in Nat
    BY <2>1, <2>2, LenProperties DEF Word
  <2> QED
    BY <2>1, <2>2, <2>3
<1> QED
  BY <1>2, <1>3

\* A written text tells where it ends.
LEMMA TextCut ==
  ASSUME NEW a \in Text, NEW b \in Text, NEW s \in Word, NEW t \in Word,
         Len(a) < LengthBase, Len(b) < LengthBase,
         Join(WriteText(a), s) = Join(WriteText(b), t)
  PROVE  a = b /\ s = t
<1> DEFINE k == Length(Len(a))
           l == Length(Len(b))
<1>1. /\ a \in Word /\ Len(a) \in Nat /\ b \in Word /\ Len(b) \in Nat
      /\ k \in Word /\ l \in Word /\ Len(k) = 1 /\ Len(l) = 1
      /\ k[1] = Len(a) /\ l[1] = Len(b)
  BY Symbols, LengthDoes
<1>2. Join(Join(k, a), s) = Join(Join(l, b), t)
  BY DEF WriteText, Join
<1> HIDE DEF k, l
<1>3. /\ Join(k, Join(a, s)) = Join(l, Join(b, t))
      /\ Join(a, s) \in Word /\ Join(b, t) \in Word
  BY <1>1, <1>2, WordsJoin, WordsRegroup
<1>4. k = l /\ Join(a, s) = Join(b, t)
  BY <1>1, <1>3, WordsCut
<1>5. Len(a) = Len(b)
  BY <1>1, <1>4
<1> QED
  BY <1>1, <1>4, <1>5, WordsCut

\* It is a word.
LEMMA TextIsWord == \A a \in Text : WriteText(a) \in Word
<1> SUFFICES ASSUME NEW a \in Text  PROVE WriteText(a) \in Word
  OBVIOUS
<1>1. a \in Word /\ Length(Len(a)) \in Word
  BY Symbols, LengthDoes
<1>2. Join(Length(Len(a)), a) \in Word
  BY <1>1, WordsJoin
<1> QED
  BY <1>2 DEF WriteText, Join

\* The entry of an input tells where its two parts end.
LEMMA EntryCut ==
  ASSUME NEW a \in Text, NEW b \in Text, NEW g \in Hash, NEW h \in Hash,
         NEW u \in Word, NEW v \in Word,
         Len(a) < LengthBase, Len(b) < LengthBase,
         Join(Join(WriteText(a), g), u) = Join(Join(WriteText(b), h), v)
  PROVE  a = b /\ g = h
<1>1. /\ g \in Word /\ h \in Word /\ Len(g) = Len(h)
      /\ WriteText(a) \in Word /\ WriteText(b) \in Word
  BY Symbols, TextIsWord
<1>2. /\ Join(WriteText(a), Join(g, u)) = Join(WriteText(b), Join(h, v))
      /\ Join(g, u) \in Word /\ Join(h, v) \in Word
  BY <1>1, WordsJoin, WordsRegroup
<1>3. a = b /\ Join(g, u) = Join(h, v)
  BY <1>2, TextCut
<1> QED
  BY <1>1, <1>3, WordsCut

Names(d) == InOrder(DOMAIN d.inputs)
Entries(d) == [i \in 1 .. Len(Names(d)) |-> Entry(d, Names(d)[i])]

\* A document whose lengths fit, and its parts.
LEMMA DocumentDoes ==
  ASSUME NEW d \in Document, Fits(d)
  PROVE  LET n == Cardinality(DOMAIN d.inputs)
         IN  /\ d = [flake_source |-> d.flake_source, attribute |-> d.attribute,
                     inputs |-> d.inputs]
             /\ d.flake_source \in Hash /\ d.attribute \in Text
             /\ Len(d.attribute) < LengthBase
             /\ d.inputs \in [DOMAIN d.inputs -> Hash]
             /\ n \in Nat /\ n < LengthBase /\ Len(Names(d)) = n
             /\ \A x \in DOMAIN d.inputs : \E i \in 1 .. n : Names(d)[i] = x
             /\ \A i \in 1 .. n :
                  /\ Names(d)[i] \in DOMAIN d.inputs /\ Names(d)[i] \in Text
                  /\ Len(Names(d)[i]) < LengthBase /\ d.inputs[Names(d)[i]] \in Hash
             /\ Entries(d) \in Seq(Word) /\ Len(Entries(d)) = n
<1> DEFINE n == Cardinality(DOMAIN d.inputs)
           keys == DOMAIN d.inputs
<1>1. /\ d = [flake_source |-> d.flake_source, attribute |-> d.attribute,
              inputs |-> d.inputs]
      /\ d.flake_source \in Hash /\ d.attribute \in Attribute
  BY DEF Document
<1>2. /\ d.inputs \in [keys -> Hash] /\ keys \subseteq NameText
  <2>1. PICK M \in SUBSET {x \in NameText : IsInputName(x)} : d.inputs \in [M -> Hash]
    BY DEF Document
  <2> QED
    BY <2>1
<1>3. d.attribute \in Text /\ keys \in SUBSET Text
  BY <1>1, <1>2, TransformAssumption DEF Text
<1>4. /\ Len(d.attribute) < LengthBase /\ IsFiniteSet(keys) /\ n < LengthBase
      /\ \A x \in keys : Len(x) < LengthBase
  BY DEF Fits
<1> HIDE DEF keys
<1>5. /\ n \in Nat /\ Names(d) \in [1 .. n -> keys] /\ Len(Names(d)) = n
      /\ \A x \in keys : \E i \in 1 .. n : Names(d)[i] = x
  BY <1>3, <1>4, InOrderDoes DEF Names, keys
<1> HIDE DEF n
<1>6. \A i \in 1 .. n :
        /\ Names(d)[i] \in keys /\ Names(d)[i] \in Text
        /\ Len(Names(d)[i]) < LengthBase /\ d.inputs[Names(d)[i]] \in Hash
  BY <1>2, <1>3, <1>4, <1>5
<1>7. \A i \in 1 .. n : Entry(d, Names(d)[i]) \in Word
  <2> TAKE i \in 1 .. n
  <2> DEFINE a == Names(d)[i]
             h == d.inputs[a]
  <2>1. a \in Word /\ Len(a) \in Nat /\ h \in Word
    BY <1>6, Symbols
  <2> HIDE DEF a
  <2>2. WriteText(a) \in Word
    BY <1>6, TextIsWord DEF a
  <2>3. Join(WriteText(a), h) \in Word
    BY <2>1, <2>2, WordsJoin
  <2> QED
    BY <2>3 DEF a, Entry, Join
<1>8. Entries(d) \in Seq(Word) /\ Len(Entries(d)) = n
  <2>1. Entries(d) \in [1 .. n -> Word]
    BY <1>5, <1>7 DEF Entries
  <2>2. Entries(d) \in Seq(Word)
    BY <1>5, <2>1, SeqDef
  <2>3. DOMAIN Entries(d) = 1 .. n /\ DOMAIN Entries(d) = 1 .. Len(Entries(d))
    BY <2>1, <2>2, LenProperties
  <2>4. Len(Entries(d)) \in Nat
    BY <2>2, LenProperties
  <2> QED
    BY <1>5, <2>2, <2>3, <2>4
<1> QED
  BY <1>1, <1>2, <1>3, <1>4, <1>5, <1>6, <1>8 DEF n, keys

\* The parts that the bytes consist of, one after the other.
LEMMA BytesAre ==
  ASSUME NEW d \in Document, Fits(d)
  PROVE  LET h == <<TRANSFORM_HEADER, FORMAT_VERSION, NIX_EXECUTOR_TAG>>
             f == d.flake_source
             w == WriteText(d.attribute)
             l == Length(Cardinality(DOMAIN d.inputs))
             e == FlattenSeq(Entries(d))
             t == <<ASSET_MANIFEST_OUTPUT_TAG>>
         IN  /\ h \in Word /\ f \in Word /\ w \in Word
             /\ l \in Word /\ e \in Word /\ t \in Word
             /\ Len(f) = HashLength
             /\ CanonicalBytes(d) = Join(h, Join(f, Join(w, Join(l, Join(e, t)))))
<1> DEFINE h == <<TRANSFORM_HEADER, FORMAT_VERSION, NIX_EXECUTOR_TAG>>
           f == d.flake_source
           w == WriteText(d.attribute)
           l == Length(Cardinality(DOMAIN d.inputs))
           e == FlattenSeq(Entries(d))
           t == <<ASSET_MANIFEST_OUTPUT_TAG>>
<1>1. CanonicalBytes(d) = Join(Join(Join(Join(Join(h, f), w), l), e), t)
  <2>1. Len(Names(d)) = Cardinality(DOMAIN d.inputs)
    BY DocumentDoes
  <2> QED
    BY <2>1 DEF CanonicalBytes, Names, Entries, Join
<1>2. h \in Word /\ t \in Word
  BY DEF Symbol, Word, FORMAT_VERSION, NIX_EXECUTOR_TAG, ASSET_MANIFEST_OUTPUT_TAG
<1>3. f \in Word /\ Len(f) = HashLength
  BY DocumentDoes, Symbols
<1>4. w \in Word
  BY DocumentDoes, TextIsWord
<1>5. l \in Word
  BY DocumentDoes, LengthDoes
<1>6. e \in Word
  <2>1. Entries(d) \in Seq(Word)
    BY DocumentDoes
  <2>2. PICK H : Parts(Symbol, Entries(d), Len(Entries(d)), H)
    BY <2>1, FlattenParts DEF Word
  <2>3. Len(Entries(d)) \in Nat
    BY <2>1, LenProperties
  <2> QED
    BY <2>2, <2>3 DEF Parts, Word
<1> HIDE DEF h, f, w, l, e, t
<1>7. /\ Join(h, f) \in Word /\ Join(Join(h, f), w) \in Word
      /\ Join(Join(Join(h, f), w), l) \in Word /\ Join(e, t) \in Word
      /\ Join(l, Join(e, t)) \in Word /\ Join(w, Join(l, Join(e, t))) \in Word
  BY <1>2, <1>3, <1>4, <1>5, <1>6, WordsJoin
<1>8. CanonicalBytes(d) = Join(h, Join(f, Join(w, Join(l, Join(e, t)))))
  BY <1>1, <1>2, <1>3, <1>4, <1>5, <1>6, <1>7, WordsRegroup
<1> QED
  BY <1>2, <1>3, <1>4, <1>5, <1>6, <1>8 DEF h, f, w, l, e, t

\* Two documents with the same bytes are the same.
LEMMA BytesIdentify ==
  ASSUME NEW d \in Document, NEW c \in Document, Fits(d), Fits(c),
         CanonicalBytes(d) = CanonicalBytes(c)
  PROVE  d = c
<1> DEFINE n == Cardinality(DOMAIN d.inputs)
           m == Cardinality(DOMAIN c.inputs)
           h == <<TRANSFORM_HEADER, FORMAT_VERSION, NIX_EXECUTOR_TAG>>
           t == <<ASSET_MANIFEST_OUTPUT_TAG>>
           e1 == FlattenSeq(Entries(d))
           e2 == FlattenSeq(Entries(c))
           k1 == Length(n)
           k2 == Length(m)
           l1 == Join(k1, Join(e1, t))
           l2 == Join(k2, Join(e2, t))
           w1 == WriteText(d.attribute)
           w2 == WriteText(c.attribute)
           f1 == d.flake_source
           f2 == c.flake_source
<1>1. /\ h \in Word /\ t \in Word /\ e1 \in Word /\ k1 \in Word /\ w1 \in Word
      /\ f1 \in Word /\ Len(f1) = HashLength
      /\ CanonicalBytes(d) = Join(h, Join(f1, Join(w1, l1)))
  BY BytesAre
<1>2. /\ e2 \in Word /\ k2 \in Word /\ w2 \in Word
      /\ f2 \in Word /\ Len(f2) = HashLength
      /\ CanonicalBytes(c) = Join(h, Join(f2, Join(w2, l2)))
  BY BytesAre
<1>3. /\ d.attribute \in Text /\ Len(d.attribute) < LengthBase
      /\ c.attribute \in Text /\ Len(c.attribute) < LengthBase
      /\ n \in Nat /\ n < LengthBase /\ m \in Nat /\ m < LengthBase
  BY DocumentDoes
<1>4. Len(k1) = Len(k2) /\ k1[1] = n /\ k2[1] = m
  BY <1>3, LengthDoes
<1>5. f1 = f2 /\ w1 = w2 /\ l1 = l2 /\ k1 = k2 /\ e1 = e2 /\ d.attribute = c.attribute
  <2> HIDE DEF h, t, e1, e2, k1, k2, w1, w2, f1, f2
  <2>1. /\ Join(e1, t) \in Word /\ Join(e2, t) \in Word /\ l1 \in Word /\ l2 \in Word
        /\ Join(w1, l1) \in Word /\ Join(w2, l2) \in Word
        /\ Join(f1, Join(w1, l1)) \in Word /\ Join(f2, Join(w2, l2)) \in Word
    BY <1>1, <1>2, WordsJoin
  <2>2. Join(h, Join(f1, Join(w1, l1))) = Join(h, Join(f2, Join(w2, l2)))
    BY <1>1, <1>2
  <2>3. Join(f1, Join(w1, l1)) = Join(f2, Join(w2, l2))
    <3> HIDE DEF l1, l2
    <3> QED
      BY <1>1, <2>1, <2>2, WordsCancel
  <2>4. f1 = f2 /\ Join(w1, l1) = Join(w2, l2)
    <3> HIDE DEF l1, l2
    <3> QED
      BY <1>1, <1>2, <2>1, <2>3, WordsCut
  <2>5. d.attribute = c.attribute /\ l1 = l2
    <3> HIDE DEF l1, l2
    <3>1. Join(WriteText(d.attribute), l1) = Join(WriteText(c.attribute), l2)
      BY <2>4 DEF w1, w2
    <3> QED
      BY <1>3, <2>1, <3>1, TextCut
  <2>6. k1 = k2 /\ Join(e1, t) = Join(e2, t)
    <3> HIDE DEF n, m
    <3> QED
      BY <1>1, <1>2, <1>4, <2>1, <2>5, WordsCut
  <2>7. e1 = e2
    BY <1>1, <1>2, <2>6, WordsCancel
  <2>8. w1 = w2
    BY <2>5 DEF w1, w2
  <2> QED
    BY <2>4, <2>5, <2>6, <2>7, <2>8
<1>6. n = m
  <2> HIDE DEF n, m
  <2> QED
    BY <1>4, <1>5
<1>7. /\ Entries(d) \in Seq(Word) /\ Len(Entries(d)) = n /\ Len(Names(d)) = n
      /\ \A x \in DOMAIN d.inputs : \E i \in 1 .. n : Names(d)[i] = x
      /\ \A i \in 1 .. n :
           /\ Names(d)[i] \in DOMAIN d.inputs /\ Names(d)[i] \in Text
           /\ Len(Names(d)[i]) < LengthBase /\ d.inputs[Names(d)[i]] \in Hash
  BY DocumentDoes
<1>8. /\ Entries(c) \in Seq(Word) /\ Len(Entries(c)) = m /\ Len(Names(c)) = m
      /\ \A x \in DOMAIN c.inputs : \E i \in 1 .. m : Names(c)[i] = x
      /\ \A i \in 1 .. m :
           /\ Names(c)[i] \in DOMAIN c.inputs /\ Names(c)[i] \in Text
           /\ Len(Names(c)[i]) < LengthBase /\ c.inputs[Names(c)[i]] \in Hash
  BY DocumentDoes
<1> HIDE DEF n, m
<1>9. \A i \in 1 .. n :
        /\ Entries(d)[i] = Join(WriteText(Names(d)[i]), d.inputs[Names(d)[i]])
        /\ Entries(c)[i] = Join(WriteText(Names(c)[i]), c.inputs[Names(c)[i]])
  BY <1>6, <1>7, <1>8 DEF Entries, Entry, Join
<1>10. ASSUME NEW i \in 1 .. n, NEW u \in Word, NEW v \in Word,
              Join(Entries(d)[i], u) = Join(Entries(c)[i], v)
       PROVE  Names(d)[i] = Names(c)[i] /\ d.inputs[Names(d)[i]] = c.inputs[Names(c)[i]]
  <2> DEFINE a == Names(d)[i]
             b == Names(c)[i]
             g == d.inputs[a]
             k == c.inputs[b]
  <2>1. /\ a \in Text /\ Len(a) < LengthBase /\ g \in Hash
        /\ b \in Text /\ Len(b) < LengthBase /\ k \in Hash
    BY <1>6, <1>7, <1>8
  <2>2. Join(Join(WriteText(a), g), u) = Join(Join(WriteText(b), k), v)
    BY <1>9, <1>10
  <2>3. a = b /\ g = k
    <3> HIDE DEF a, b, g, k
    <3> QED
      BY <2>1, <2>2, EntryCut
  <2> QED
    BY <2>3
<1>11. Entries(d) = Entries(c)
  <2>1. \A i \in 1 .. Len(Entries(d)) : \A u, v \in Word :
          Join(Entries(d)[i], u) = Join(Entries(c)[i], v) =>
            Entries(d)[i] = Entries(c)[i]
    <3> SUFFICES ASSUME NEW i \in 1 .. n, NEW u \in Word, NEW v \in Word,
                        Join(Entries(d)[i], u) = Join(Entries(c)[i], v)
                 PROVE  Entries(d)[i] = Entries(c)[i]
      BY <1>7
    <3>1. Names(d)[i] = Names(c)[i] /\ d.inputs[Names(d)[i]] = c.inputs[Names(c)[i]]
      BY <1>10
    <3> QED
      BY <1>9, <3>1
  <2> QED
    BY <1>5, <1>6, <1>7, <1>8, <2>1, Unflatten DEF Word
<1>12. \A i \in 1 .. n :
         Names(d)[i] = Names(c)[i] /\ d.inputs[Names(d)[i]] = c.inputs[Names(c)[i]]
  <2> TAKE i \in 1 .. n
  <2>1. <<>> \in Word /\ Join(Entries(d)[i], <<>>) = Join(Entries(c)[i], <<>>)
    BY <1>11, EmptySeq DEF Word
  <2> QED
    BY <1>10, <2>1
<1>13. DOMAIN d.inputs = DOMAIN c.inputs
  <2>1. DOMAIN d.inputs \subseteq DOMAIN c.inputs
    BY <1>6, <1>7, <1>8, <1>12
  <2>2. DOMAIN c.inputs \subseteq DOMAIN d.inputs
    BY <1>6, <1>7, <1>8, <1>12
  <2> QED
    BY <2>1, <2>2
<1>14. d.inputs = c.inputs
  <2>1. \A x \in DOMAIN d.inputs : d.inputs[x] = c.inputs[x]
    BY <1>7, <1>12
  <2>2. d.inputs \in [DOMAIN d.inputs -> Hash] /\ c.inputs \in [DOMAIN c.inputs -> Hash]
    BY DocumentDoes
  <2> QED
    BY <1>13, <2>1, <2>2
<1>15. /\ d = [flake_source |-> d.flake_source, attribute |-> d.attribute,
               inputs |-> d.inputs]
       /\ c = [flake_source |-> c.flake_source, attribute |-> c.attribute,
               inputs |-> c.inputs]
  BY DocumentDoes
<1> QED
  BY <1>5, <1>14, <1>15

\* What a caller has named and made.
TransformInv ==
  /\ DOMAIN inputs \subseteq {n \in NameText : IsInputName(n)}
  /\ inputs \in [DOMAIN inputs -> Hash]
  /\ documents \subseteq Document

\* A document that a caller made has other bytes than any other document, as
\* long as their lengths fit into their fields: for any names and attributes,
\* any number of inputs and hashes of any length (transform.rs:123).
THEOREM HashesIdentifyDocuments == TransformSpec => []HashIdentifiesDocument
<1>1. TransformInit => TransformInv
  BY DEF TransformInit, TransformInv
<1>2. TransformInv /\ [TransformNext]_transformVars => TransformInv'
  <2> SUFFICES ASSUME TransformInv, [TransformNext]_transformVars
               PROVE  TransformInv'
    OBVIOUS
  <2>1. ASSUME NEW text \in NameText, NEW hash \in Hash, NameInput(text, hash)
        PROVE  TransformInv'
    <3>1. CASE ~IsInputName(text)
      BY <2>1, <3>1 DEF TransformInv, NameInput
    <3>2. CASE IsInputName(text)
      <4> DEFINE keys == DOMAIN inputs \cup {text}
                 map == [n \in keys |-> IF n = text THEN hash ELSE inputs[n]]
      <4>1. keys \subseteq {n \in NameText : IsInputName(n)}
        BY <3>2 DEF TransformInv
      <4>2. \A n \in keys : (IF n = text THEN hash ELSE inputs[n]) \in Hash
        BY <2>1 DEF TransformInv
      <4> HIDE DEF keys
      <4>3. map \in [keys -> Hash] /\ DOMAIN map = keys
        BY <4>2
      <4>4. inputs' = map /\ documents' = documents
        BY <2>1, <3>2 DEF NameInput, keys
      <4> HIDE DEF map
      <4> QED
        BY <4>1, <4>3, <4>4 DEF TransformInv
    <3> QED
      BY <3>1, <3>2
  <2>2. ASSUME NEW flake \in Hash, NEW attribute \in Attribute, Nix(flake, attribute)
        PROVE  TransformInv'
    <3>1. inputs \in UNION {[M -> Hash] :
                              M \in SUBSET {n \in NameText : IsInputName(n)}}
      BY DEF TransformInv
    <3>2. IsAttribute(attribute) =>
            [flake_source |-> flake, attribute |-> attribute, inputs |-> inputs]
              \in Document
      BY <3>1 DEF Document
    <3> QED
      BY <2>2, <3>2 DEF TransformInv, Nix
  <2>3. ASSUME UNCHANGED transformVars
        PROVE  TransformInv'
    BY <2>3 DEF TransformInv, transformVars
  <2>4. CASE \E text \in NameText, hash \in Hash : NameInput(text, hash)
    BY <2>1, <2>4
  <2>5. CASE \E flake \in Hash, attribute \in Attribute : Nix(flake, attribute)
    BY <2>2, <2>5
  <2> QED
    BY <2>3, <2>4, <2>5 DEF TransformNext
<1>3. TransformInv => HashIdentifiesDocument
  BY BytesIdentify DEF TransformInv, HashIdentifiesDocument
<1> QED
  BY <1>1, <1>2, <1>3, PTL DEF TransformSpec
================================================================================
