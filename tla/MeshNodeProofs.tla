---------------------------- MODULE MeshNodeProofs ----------------------------
(* Proofs about MeshNode for any devices, mesh ids, secrets and limits: the  *)
(* saved state reopens and holds what the device shows, a ticket enrols once,*)
(* a device joins by invitation only, and who is listed has joined.          *)
EXTENDS MeshNode, MembershipProofs, SequenceTheorems

-----------------------------------------------------------------------------
(* The inductive invariant *)

\* The state a device goes by: the one in memory while it runs.
Shown(n) == IF Running(n) THEN mem[n] ELSE disk[n]

\* `next' has every record of the mesh that `state' has.
Extends(state, next) ==
  Enrolled(state) =>
    /\ Enrolled(next)
    /\ state.mesh.identity = next.mesh.identity
    /\ state.mesh.admissions \subseteq next.mesh.admissions
    /\ state.mesh.departures \subseteq next.mesh.departures

\* A good state is one the device could be opened with, and its order lists
\* every departed mesh: opening it changes nothing.
Good(n, state) ==
  /\ state \in State /\ Readable(n, state)
  /\ Kept(state) \subseteq Range(state.order) /\ IsFiniteSet(Kept(state))

StatesGood ==
  \A n \in Node :
    /\ Good(n, disk[n])
    /\ Running(n) => Good(n, mem[n]) /\ Extends(mem[n], disk[n])

\* A ticket that is pending is the device's own and was not redeemed.
TicketsFresh ==
  /\ \A n \in Node : pending[n] # None =>
       owner[pending[n]] = n /\ redeemed[pending[n]] = 0
  /\ \A s \in Secret : redeemed[s] <= 1 /\ (owner[s] = None => redeemed[s] = 0)

\* Who waits for a reply, or owes one, runs and is in a mesh.
InMesh(n) == Running(n) /\ Enrolled(mem[n])

CallLive(c) ==
  /\ c.phase # "merged" => c.mesh # None
  /\ c.phase = "sent" /\ c.waiting => InMesh(c.from)
  /\ c.phase = "merged" => InMesh(c.from) /\ InMesh(c.to)
  /\ c.phase = "answered" => InMesh(c.from)

CallsLive == \A c \in calls : CallLive(c)

\* The device goes by an admission of that generation or a later one, or it
\* has departed from that admission.
Listed(state, d, id, g) ==
  /\ Enrolled(state) /\ state.mesh.identity.id = id
  /\ \E a \in state.mesh.admissions : a.member.id = d /\ a.generation >= g

Joined(d, id, g) == <<d, id, g>> \in left \/ Listed(Shown(d), d, id, g)

\* What a copy says happened: its mesh was created, who departed in it has
\* left, who is admitted again has left before, and who is admitted has
\* joined, except the devices in `exempt', which need not have saved it yet.
Known(mesh, exempt) ==
  /\ mesh.identity.id \in created
  /\ \A d \in mesh.departures : <<d.member, mesh.identity.id, d.generation>> \in left
  /\ \A a \in mesh.admissions :
       /\ \A g \in Generation :
            g < a.generation => <<a.member.id, mesh.identity.id, g>> \in left
       /\ a.member.id \notin exempt =>
            Joined(a.member.id, mesh.identity.id, a.generation)

Copies(state) ==
  {m \in {state.mesh} : m # None} \cup {state.departed[id] : id \in Kept(state)}

Invited(c) == IF c.kind = "pair" /\ c.phase = "sent" THEN {c.to} ELSE {}

StatesKnown ==
  \A n \in Node :
    /\ \A m \in Copies(disk[n]) : Known(m, {n})
    /\ Running(n) => \A m \in Copies(mem[n]) : Known(m, {n})

CallKnown(c) == c.mesh # None => Known(c.mesh, Invited(c))

CallsKnown == \A c \in calls : CallKnown(c)

NodeInv ==
  /\ TypeOK /\ StatesGood /\ TicketsFresh
  /\ CallsLive /\ StatesKnown /\ CallsKnown

-----------------------------------------------------------------------------
(* The departure order *)

Distinct(order) == \A i, j \in DOMAIN order : order[i] = order[j] => i = j

\* The ids an order lists.
LEMMA OrderFacts ==
  ASSUME NEW order \in Seq(MeshId)
  PROVE  /\ Len(order) \in Nat /\ DOMAIN order = 1 .. Len(order)
         /\ Range(order) = {order[i] : i \in 1 .. Len(order)}
         /\ Range(order) \subseteq MeshId
<1>1. Len(order) \in Nat /\ DOMAIN order = 1 .. Len(order)
  BY LenProperties
<1>2. Range(order) = {order[i] : i \in 1 .. Len(order)}
  BY <1>1 DEF Range
<1>3. Range(order) \subseteq MeshId
  BY <1>1, <1>2, ElementOfSeq
<1> QED
  BY <1>1, <1>2, <1>3

\* Taking an id out leaves the others as they are.
LEMMA WithoutFacts ==
  ASSUME NEW order \in Seq(MeshId), Distinct(order), NEW id
  PROVE  /\ Without(order, id) \in Seq(MeshId) /\ Distinct(Without(order, id))
         /\ Range(Without(order, id)) = Range(order) \ {id}
<1>1. DOMAIN order = 1 .. Len(order) /\ Len(order) \in Nat
  BY LenProperties
<1>2. CASE id \notin Range(order)
  BY <1>2 DEF Without
<1>3. CASE id \in Range(order)
  <2> DEFINE k == CHOOSE i \in DOMAIN order : order[i] = id
             n == Len(order)
             s == SubSeq(order, 1, k - 1)
             t == SubSeq(order, k + 1, n)
             w == s \o t
  <2>1. k \in 1 .. n /\ order[k] = id
    <3>1. \E i \in DOMAIN order : order[i] = id
      BY <1>3 DEF Range
    <3> QED
      BY <1>1, <3>1
  <2>2. \A i \in 1 .. n : order[i] \in MeshId
    BY ElementOfSeq
  <2>0. n \in Nat /\ DOMAIN order = 1 .. n /\ Len(order) = n
    BY <1>1
  <2> HIDE DEF k, n
  <2>3. s \in Seq(MeshId) /\ Len(s) = k - 1 /\ \A i \in 1 .. k - 1 : s[i] = order[i]
    <3>1. \A i \in 1 .. k - 1 : order[i] \in MeshId
      BY <2>0, <2>1, <2>2
    <3>2. k - 1 \in Int /\ 1 \in Int
      BY <2>1
    <3>3. /\ SubSeq(order, 1, k - 1) \in Seq(MeshId)
          /\ Len(SubSeq(order, 1, k - 1)) = IF 1 <= k - 1 THEN k - 1 - 1 + 1 ELSE 0
          /\ \A i \in 1 .. k - 1 - 1 + 1 :
               SubSeq(order, 1, k - 1)[i] = order[1 + i - 1]
      BY <3>1, <3>2, SubSeqProperties
    <3> QED
      BY <2>1, <3>3
  <2>4. /\ t \in Seq(MeshId) /\ Len(t) = n - k
        /\ \A i \in 1 .. n - k : t[i] = order[k + i]
    <3>1. \A i \in k + 1 .. n : order[i] \in MeshId
      BY <2>0, <2>1, <2>2
    <3>2. k + 1 \in Int /\ n \in Int
      BY <2>0, <2>1
    <3>3. /\ SubSeq(order, k + 1, n) \in Seq(MeshId)
          /\ Len(SubSeq(order, k + 1, n)) = IF k + 1 <= n THEN n - (k + 1) + 1 ELSE 0
          /\ \A i \in 1 .. n - (k + 1) + 1 :
               SubSeq(order, k + 1, n)[i] = order[k + 1 + i - 1]
      BY <3>1, <3>2, SubSeqProperties
    <3>4. Len(t) = n - k
      BY <2>0, <2>1, <3>3
    <3>5. \A i \in 1 .. n - k : t[i] = order[k + i]
      <4> SUFFICES ASSUME NEW i \in 1 .. n - k  PROVE t[i] = order[k + i]
        OBVIOUS
      <4>1. i \in 1 .. n - (k + 1) + 1 /\ k + 1 + i - 1 = k + i
        BY <2>0, <2>1
      <4> QED
        BY <3>3, <4>1
    <3> QED
      BY <3>3, <3>4, <3>5
  <2> HIDE DEF s, t
  <2>5. /\ w \in Seq(MeshId) /\ Len(w) = Len(s) + Len(t)
        /\ \A i \in 1 .. Len(s) + Len(t) :
             w[i] = IF i <= Len(s) THEN s[i] ELSE t[i - Len(s)]
    BY <2>3, <2>4, ConcatProperties
  <2> HIDE DEF w
  <2>6. DOMAIN w = 1 .. n - 1 /\ Len(w) = n - 1
    BY <2>0, <2>1, <2>3, <2>4, <2>5, LenProperties
  <2>7. \A i \in 1 .. n - 1 : w[i] = order[IF i < k THEN i ELSE i + 1]
    <3> SUFFICES ASSUME NEW i \in 1 .. n - 1
                 PROVE  w[i] = order[IF i < k THEN i ELSE i + 1]
      OBVIOUS
    <3>1. CASE i < k
      <4>1. i \in 1 .. k - 1 /\ i \in 1 .. Len(s) + Len(t) /\ i <= Len(s)
        BY <2>0, <2>1, <2>3, <2>4, <3>1
      <4> QED
        BY <2>3, <2>5, <3>1, <4>1
    <3>2. CASE ~(i < k)
      <4>0. i - (k - 1) \in 1 .. n - k /\ i \in 1 .. Len(s) + Len(t) /\ ~(i <= Len(s))
        BY <2>0, <2>1, <2>3, <2>4, <3>2
      <4>1. w[i] = t[i - (k - 1)] /\ i - (k - 1) \in 1 .. n - k
        BY <2>3, <2>5, <4>0
      <4>2. t[i - (k - 1)] = order[k + (i - (k - 1))] /\ k + (i - (k - 1)) = i + 1
        BY <2>0, <2>1, <2>4, <4>1
      <4> QED
        BY <3>2, <4>1, <4>2
    <3> QED
      BY <3>1, <3>2
  <2>8. \A i \in 1 .. n - 1 : (IF i < k THEN i ELSE i + 1) \in (1 .. n) \ {k}
    BY <2>0, <2>1
  <2>9. Distinct(w)
    <3> SUFFICES ASSUME NEW i \in 1 .. n - 1, NEW j \in 1 .. n - 1, w[i] = w[j]
                 PROVE  i = j
      BY <2>6 DEF Distinct
    <3>1. (IF i < k THEN i ELSE i + 1) = (IF j < k THEN j ELSE j + 1)
      BY <2>0, <2>7, <2>8 DEF Distinct
    <3> QED
      BY <2>0, <2>1, <3>1
  <2>10. Range(w) = {w[i] : i \in 1 .. n - 1} /\ Range(order) = {order[i] : i \in 1 .. n}
    BY <2>0, <2>5, <2>6, OrderFacts
  <2>11. ASSUME NEW i \in 1 .. n - 1  PROVE w[i] \in Range(order) \ {id}
    <3> DEFINE j == IF i < k THEN i ELSE i + 1
    <3>1. w[i] = order[j] /\ j \in 1 .. n /\ j # k
      BY <2>7, <2>8
    <3> HIDE DEF j
    <3>2. order[j] # order[k]
      BY <2>0, <2>1, <3>1 DEF Distinct
    <3> QED
      BY <2>1, <2>10, <3>1, <3>2
  <2>12. ASSUME NEW j \in 1 .. n, order[j] # id  PROVE order[j] \in Range(w)
    <3> DEFINE i == IF j < k THEN j ELSE j - 1
    <3>1. j # k
      BY <2>1, <2>12
    <3>2. i \in 1 .. n - 1 /\ (IF i < k THEN i ELSE i + 1) = j
      BY <2>0, <2>1, <3>1
    <3> HIDE DEF i
    <3>3. w[i] = order[j]
      BY <2>7, <3>2
    <3> QED
      BY <2>10, <3>2, <3>3
  <2>13. Range(w) = Range(order) \ {id}
    BY <2>10, <2>11, <2>12
  <2>14. Without(order, id) = w
    BY <1>3 DEF Without, k, n, s, t, w
  <2> QED
    BY <2>5, <2>9, <2>13, <2>14
<1> QED
  BY <1>2, <1>3

\* An id that is not listed is put at the end.
LEMMA AppendFacts ==
  ASSUME NEW order \in Seq(MeshId), Distinct(order), NEW id \in MeshId,
         id \notin Range(order)
  PROVE  /\ Append(order, id) \in Seq(MeshId) /\ Distinct(Append(order, id))
         /\ Range(Append(order, id)) = Range(order) \cup {id}
<1> DEFINE n == Len(order)
           a == Append(order, id)
<1>1. n \in Nat /\ DOMAIN order = 1 .. n /\ Range(order) = {order[i] : i \in 1 .. n}
  BY OrderFacts
<1>2. /\ a \in Seq(MeshId) /\ Len(a) = n + 1 /\ a[n + 1] = id
      /\ \A i \in 1 .. n : a[i] = order[i]
  BY AppendProperties
<1>3. DOMAIN a = 1 .. Len(a) /\ Range(a) = {a[i] : i \in 1 .. Len(a)}
  BY <1>2, OrderFacts
<1> HIDE DEF n, a
<1>4. \A i \in DOMAIN a : i = n + 1 \/ (i \in DOMAIN order /\ a[i] = order[i])
  BY <1>1, <1>2, <1>3
<1>5. \A i \in DOMAIN order : order[i] # id
  BY <1>1
<1>6. Distinct(a)
  BY <1>2, <1>4, <1>5 DEF Distinct
<1>7. Range(a) = Range(order) \cup {id}
  <2>1. 1 .. n + 1 = (1 .. n) \cup {n + 1}
    BY <1>1
  <2> QED
    BY <1>1, <1>2, <1>3, <2>1
<1> QED
  BY <1>2, <1>6, <1>7 DEF n, a

-----------------------------------------------------------------------------
(* Members of a merged mesh *)

\* The fields of a merged mesh.
LEMMA MergedParts ==
  ASSUME NEW mesh \in Mesh, NEW other \in Mesh
  PROVE  /\ Merged(mesh, other).identity = mesh.identity
         /\ mesh.admissions \subseteq Merged(mesh, other).admissions
         /\ mesh.departures \subseteq Merged(mesh, other).departures
         /\ \A a \in Merged(mesh, other).admissions :
              a \in mesh.admissions \/ a \in other.admissions
         /\ \A d \in Merged(mesh, other).departures :
              d \in mesh.departures \/ d \in other.departures
         /\ \A b \in other.admissions :
              \/ b \in Merged(mesh, other).admissions
              \/ \E a \in mesh.admissions : Key(a) = Key(b)
         /\ \A e \in other.departures :
              \/ e \in Merged(mesh, other).departures
              \/ \E d \in mesh.departures : DepartureKey(d) = DepartureKey(e)
  BY DEF Merged, Mesh

\* Admissions have generations that are compared as numbers.
LEMMA Generations ==
  ASSUME NEW mesh \in Mesh, NEW a \in mesh.admissions
  PROVE  /\ a.generation \in Generation /\ a.generation \in Nat
         /\ a.member \in Member /\ a.member.id \in Node
  BY MembershipAssumption DEF Mesh, Admission, Member, Generation

\* A member of both copies is a member of the merged one.
LEMMA MergedMember ==
  ASSUME NEW mesh \in Mesh, NEW other \in Mesh, Verify(mesh), Verify(other),
         NEW x \in Members(mesh), x \in Members(other)
  PROVE  x \in Members(Merged(mesh, other))
<1> DEFINE m == Merged(mesh, other)
<1>1. PICK a \in mesh.admissions :
        /\ a.member = x /\ IsLatest(mesh, a)
        /\ ~DepartedGeneration(mesh, x.id, a.generation)
  BY DEF Members, CurrentAdmissions
<1>2. PICK b \in other.admissions :
        /\ b.member = x /\ IsLatest(other, b)
        /\ ~DepartedGeneration(other, x.id, b.generation)
  BY DEF Members, CurrentAdmissions
<1>3. /\ \A c \in mesh.admissions : c.member.id = x.id => c.generation <= a.generation
      /\ \A c \in other.admissions : c.member.id = x.id => c.generation <= b.generation
      /\ \A c \in mesh.admissions \cup other.admissions : c.generation \in Nat
  BY <1>1, <1>2, Generations DEF IsLatest, AdmissionsOf
<1>4. \A g : DepartedGeneration(mesh, x.id, g) =>
               \E c \in mesh.admissions : c.member.id = x.id /\ c.generation = g
  BY DEF Verify, DeparturesMatch, DepartedGeneration, Key
<1>5. \A g : DepartedGeneration(other, x.id, g) =>
               \E c \in other.admissions : c.member.id = x.id /\ c.generation = g
  BY DEF Verify, DeparturesMatch, DepartedGeneration, Key
<1>6. \A g : DepartedGeneration(m, x.id, g) =>
               DepartedGeneration(mesh, x.id, g) \/ DepartedGeneration(other, x.id, g)
  BY MergedParts DEF DepartedGeneration
<1>7. \A c \in m.admissions : c \in mesh.admissions \/ c \in other.admissions
  BY MergedParts
<1>8. a \in m.admissions /\ (b \in m.admissions \/
        \E c \in mesh.admissions : c.member.id = x.id /\ c.generation = b.generation)
  BY <1>1, <1>2, MergedParts DEF Key
<1> HIDE DEF m
<1>9. CASE a.generation >= b.generation
  <2>1. \A c \in AdmissionsOf(m, x.id) : c.generation <= a.generation
    BY <1>3, <1>7, <1>9 DEF AdmissionsOf
  <2>2. ~DepartedGeneration(m, x.id, a.generation)
    <3> SUFFICES ASSUME DepartedGeneration(other, x.id, a.generation)  PROVE FALSE
      BY <1>1, <1>6
    <3>1. a.generation <= b.generation
      BY <1>3, <1>5
    <3>2. a.generation = b.generation
      BY <1>3, <1>9, <3>1
    <3> QED
      BY <1>2, <3>2
  <2> QED
    BY <1>1, <1>8, <2>1, <2>2 DEF Members, CurrentAdmissions, IsLatest, m
<1>10. CASE a.generation < b.generation
  <2>1. b \in m.admissions
    BY <1>3, <1>8, <1>10
  <2>2. \A c \in AdmissionsOf(m, x.id) : c.generation <= b.generation
    BY <1>3, <1>7, <1>10 DEF AdmissionsOf
  <2>3. ~DepartedGeneration(m, x.id, b.generation)
    BY <1>2, <1>3, <1>4, <1>6, <1>10
  <2> QED
    BY <1>2, <2>1, <2>2, <2>3 DEF Members, CurrentAdmissions, IsLatest, m
<1> QED
  BY <1>3, <1>9, <1>10

\* A device that merges the copy it kept when it left, and is a member all
\* the same, is the member the other copy has admitted again.
LEMMA ReadmittedMember ==
  ASSUME NEW mesh \in Mesh, NEW own \in Mesh, Verify(mesh), Verify(own),
         NEW x \in Members(mesh), Departed(own, x.id),
         IsMember(Merged(mesh, own), x.id)
  PROVE  x \in Members(Merged(mesh, own))
<1> DEFINE m == Merged(mesh, own)
<1>1. PICK a \in mesh.admissions :
        /\ a.member = x /\ IsLatest(mesh, a)
        /\ ~DepartedGeneration(mesh, x.id, a.generation)
  BY DEF Members, CurrentAdmissions
<1>2. PICK c \in m.admissions :
        /\ c.member.id = x.id /\ IsLatest(m, c)
        /\ ~DepartedGeneration(m, x.id, c.generation)
  BY DEF IsMember, MemberIds, CurrentAdmissions
<1>3. PICK e \in own.admissions :
        /\ e.member.id = x.id /\ IsLatest(own, e)
        /\ DepartedGeneration(own, x.id, e.generation)
  BY DEF Departed, AdmissionsOf
<1>4. /\ \A r \in mesh.admissions : r.member.id = x.id => r.generation <= a.generation
      /\ \A r \in own.admissions : r.member.id = x.id => r.generation <= e.generation
      /\ \A r \in m.admissions : r.member.id = x.id => r.generation <= c.generation
      /\ \A r \in mesh.admissions \cup own.admissions : r.generation \in Nat
      /\ \A r \in m.admissions : r \in mesh.admissions \/ r \in own.admissions
      /\ a \in m.admissions
  BY <1>1, <1>2, <1>3, Generations, MergedParts DEF IsLatest, AdmissionsOf
<1>5. CASE c \in mesh.admissions
  <2>1. c.generation = a.generation
    BY <1>1, <1>2, <1>4, <1>5
  <2>2. c = a
    BY <1>1, <1>2, <1>5, <2>1 DEF Verify, UniqueKeys, Key
  <2> QED
    BY <1>1, <1>2, <2>2 DEF Members, CurrentAdmissions
<1>6. CASE c \in own.admissions
  <2>1. \E r \in m.admissions : r.member.id = x.id /\ r.generation = e.generation
    BY <1>3, MergedParts DEF Key
  <2>2. c.generation = e.generation
    BY <1>2, <1>4, <1>6, <2>1
  <2>3. DepartedGeneration(m, x.id, e.generation)
    <3>1. PICK d \in own.departures : DepartureKey(d) = <<x.id, e.generation>>
      BY <1>3 DEF DepartedGeneration
    <3>2. d \in m.departures \/ \E f \in mesh.departures : DepartureKey(f) = DepartureKey(d)
      BY MergedParts
    <3>3. mesh.departures \subseteq m.departures
      BY MergedParts
    <3> QED
      BY <3>1, <3>2, <3>3 DEF DepartedGeneration
  <2> QED
    BY <1>2, <2>2, <2>3
<1> QED
  BY <1>4, <1>5, <1>6


-----------------------------------------------------------------------------
(* The states a device goes through *)

\* A mesh put into a state leaves the departed ones alone.
LEMMA StateParts ==
  ASSUME NEW state \in State, NEW mesh \in Mesh \cup {None}
  PROVE  /\ [state EXCEPT !.mesh = mesh] \in State
         /\ [state EXCEPT !.mesh = mesh].mesh = mesh
         /\ [state EXCEPT !.mesh = mesh].departed = state.departed
         /\ [state EXCEPT !.mesh = mesh].order = state.order
         /\ Kept([state EXCEPT !.mesh = mesh]) = Kept(state)
  BY DEF State, Kept

\* What the type of a state says of its parts.
LEMMA StateFacts ==
  ASSUME NEW state \in State
  PROVE  /\ state.departed \in [MeshId -> Mesh \cup {None}]
         /\ Kept(state) \subseteq MeshId
         /\ \A id \in Kept(state) : state.departed[id] \in Mesh
         /\ state.order \in Seq(MeshId)
         /\ Enrolled(state) => state.mesh \in Mesh
         /\ state # None
<1>1. /\ state.departed \in [MeshId -> Mesh \cup {None}]
      /\ state.order \in Seq(MeshId) /\ (Enrolled(state) => state.mesh \in Mesh)
  BY DEF State, Enrolled
<1>2. state # None
  BY MeshNodeAssumption
<1> QED
  BY <1>1, <1>2 DEF Kept

\* A good state has nothing that is put at the end of its order when it is
\* opened.
LEMMA OpenedFacts ==
  ASSUME NEW n \in Node, NEW state, Good(n, state)
  PROVE  Opened(state) = state
<1>1. state \in State /\ state.order \in Seq(MeshId)
  BY StateFacts DEF Good
<1>2. Kept(state) \ Range(state.order) = {}
  BY DEF Good
<1>3. SetToSeq({}) = << >>
  <2>1. Cardinality({}) = 0 /\ 1 .. 0 = {}
    BY FS_EmptySet
  <2>2. << >> \in [1 .. 0 -> {}] /\ IsInjective(<< >>)
    BY <2>1 DEF IsInjective
  <2>3. \A f \in [1 .. 0 -> {}] : f = << >>
    BY <2>1
  <2> QED
    BY <2>1, <2>2, <2>3 DEF SetToSeq
<1>4. state.order \o << >> = state.order
  BY <1>1, ConcatEmptySeq
<1>5. Opened(state) = [state EXCEPT !.order = state.order]
  BY <1>2, <1>3, <1>4 DEF Opened
<1> QED
  BY <1>1, <1>5 DEF State

\* A device is its own member record.
LEMMA SelfFacts ==
  ASSUME NEW n \in Node
  PROVE  Self(n) \in Member /\ Self(n).id = n
  BY MeshNodeAssumption DEF Self, Member

FoundedState(n, state, id, name) ==
  [state EXCEPT !.mesh = Founding(NewIdentity(n, id, name), Self(n))]

\* A device that founds a mesh can be opened with it.
LEMMA FoundedGood ==
  ASSUME NEW n \in Node, NEW state, Good(n, state), ~Enrolled(state),
         NEW id \in RandomMeshId, NEW name \in MeshName,
         id \notin Kept(state)
  PROVE  /\ Good(n, FoundedState(n, state, id, name))
         /\ Enrolled(FoundedState(n, state, id, name))
         /\ FoundedState(n, state, id, name).mesh =
              Founding(NewIdentity(n, id, name), Self(n))
         /\ FoundedState(n, state, id, name).departed = state.departed
         /\ Kept(FoundedState(n, state, id, name)) = Kept(state)
<1> DEFINE i == NewIdentity(n, id, name)
           m == Founding(i, Self(n))
           next == FoundedState(n, state, id, name)
           a == [member |-> Self(n), issuer |-> n, generation |-> 0, sealed |-> i]
<1>1. i \in Identity /\ WellFormed(i) /\ FounderOf(i) = n /\ i.id = id
  BY MembershipAssumption DEF NewIdentity, Identity, MeshId, WellFormed, FounderOf
<1>2. m \in Mesh /\ Verify(m)
  BY <1>1, SelfFacts, FoundingType, FoundingVerifies
<1>3. m.identity = i /\ m.admissions = {a} /\ m.departures = {}
  BY FoundingRecord, SelfFacts
<1>4. /\ next \in State /\ next.mesh = m /\ next.departed = state.departed
      /\ next.order = state.order /\ Kept(next) = Kept(state)
  BY <1>2, StateParts DEF FoundedState, Good
<1>5. Enrolled(next)
  BY <1>2, <1>4, MeshNodeAssumption DEF Enrolled
<1>6. Self(n) \in Members(m)
  <2>1. a \in CurrentAdmissions(m)
    BY <1>3, MembershipAssumption
       DEF CurrentAdmissions, IsLatest, AdmissionsOf, DepartedGeneration
  <2> QED
    BY <2>1 DEF Members
<1> HIDE DEF m, next, i
<1>8. Readable(n, next)
  BY <1>1, <1>2, <1>3, <1>4, <1>6 DEF Readable, Good
<1> QED
  BY <1>4, <1>5, <1>8 DEF Good, next, m, i

\* A device that has left can be opened, and departed from the copy it keeps.
LEMMA LeaveGood ==
  ASSUME NEW n \in Node, NEW state, Good(n, state), Enrolled(state),
         CanLeave(n, state)
  PROVE  /\ Good(n, LeaveState(n, state))
         /\ LeaveState(n, state).mesh = None
         /\ \A m \in Copies(LeaveState(n, state)) :
              m = Depart(state.mesh, n) \/ m \in Copies(state)
<1> DEFINE mesh == Depart(state.mesh, n)
           id == mesh.identity.id
           rest == Without(state.order, id)
           oldest == Head(rest)
           next == LeaveState(n, state)
<1>1. state \in State /\ Readable(n, state) /\ state.mesh \in Mesh /\ Verify(state.mesh)
  BY StateFacts DEF Good, Readable
<1>2. mesh \in Mesh /\ Verify(mesh) /\ Departed(mesh, n)
  <2>0. CanDepart(state.mesh, n)
    BY DEF CanLeave
  <2>1. mesh \in Mesh /\ Verify(mesh)
    BY <1>1, <2>0, DepartType, DepartVerifies
  <2>2. /\ LatestAdmission(state.mesh, n) \in AdmissionsOf(state.mesh, n)
        /\ IsLatest(state.mesh, LatestAdmission(state.mesh, n))
    BY <1>1, <2>0, MemberIsLatest, LatestAdmissionIsLatest DEF CanDepart
  <2>3. /\ mesh.admissions = state.mesh.admissions
        /\ mesh.departures = state.mesh.departures \cup
             {SignedDeparture(state.mesh, LatestAdmission(state.mesh, n).generation, n)}
    BY <1>1 DEF Depart, Mesh
  <2>4. DepartedGeneration(mesh, n, LatestAdmission(state.mesh, n).generation)
    <3> DEFINE d == SignedDeparture(state.mesh,
                                    LatestAdmission(state.mesh, n).generation, n)
    <3>1. d \in mesh.departures
      BY <2>3
    <3>2. DepartureKey(d) = <<n, LatestAdmission(state.mesh, n).generation>>
      BY DEF DepartureKey, SignedDeparture
    <3> HIDE DEF d, mesh
    <3> QED
      BY <3>1, <3>2 DEF DepartedGeneration
  <2> HIDE DEF mesh
  <2> QED
    BY <2>1, <2>2, <2>3, <2>4 DEF Departed, AdmissionsOf, IsLatest
<1>3. /\ state.order \in Seq(MeshId) /\ Distinct(state.order)
      /\ Range(state.order) = Kept(state) /\ Kept(state) \subseteq MeshId
      /\ IsFiniteSet(Kept(state)) /\ Cardinality(Kept(state)) <= MaxDeparted
      /\ \A i \in Kept(state) :
           /\ state.departed[i] \in Mesh /\ state.departed[i].identity.id = i
           /\ Verify(state.departed[i]) /\ Departed(state.departed[i], n)
  BY <1>1, StateFacts DEF Good, Readable, Distinct
<1>4. mesh \in Mesh \cup {None} /\ mesh # None /\ id \in MeshId
  BY <1>2, MeshNodeAssumption DEF Mesh, Identity
<1> HIDE DEF mesh
<1>5. /\ rest \in Seq(MeshId) /\ Distinct(rest) /\ Range(rest) = Kept(state) \ {id}
      /\ id \notin Range(rest)
  BY <1>3, WithoutFacts
<1> DEFINE Holds(s) ==
      /\ s \in State /\ s.mesh = None
      /\ Distinct(s.order) /\ Range(s.order) = Kept(s)
      /\ IsFiniteSet(Kept(s)) /\ Cardinality(Kept(s)) <= MaxDeparted
      /\ \A i \in Kept(s) :
           \/ i = id /\ s.departed[i] = mesh
           \/ i \in Kept(state) /\ s.departed[i] = state.departed[i]
<1>6. Holds(next)
  <2>1. CASE Members(mesh) = {}
    <3>1. next = [state EXCEPT !.mesh = None]
      BY <2>1 DEF LeaveState, mesh
    <3> HIDE DEF next
    <3>2. /\ next \in State /\ next.mesh = None /\ next.departed = state.departed
          /\ next.order = state.order /\ Kept(next) = Kept(state)
      BY <1>1, <3>1, StateParts
    <3> QED
      BY <1>3, <3>2
  <2>2. CASE Members(mesh) # {} /\ ~Evicts(state, id)
    <3> HIDE DEF rest
    <3>1. /\ next.mesh = None /\ next.departed = [state.departed EXCEPT ![id] = mesh]
          /\ next.order = Append(rest, id)
          /\ next = [mesh |-> None, departed |-> next.departed, order |-> next.order]
      BY <2>2 DEF LeaveState, mesh, rest
    <3> HIDE DEF next, id
    <3>2. /\ next.order \in Seq(MeshId) /\ Distinct(next.order)
          /\ Range(next.order) = (Kept(state) \ {id}) \cup {id}
      BY <1>4, <1>5, <3>1, AppendFacts
    <3>3. next.departed \in [MeshId -> Mesh \cup {None}]
      BY <1>1, <1>4, <3>1, StateFacts
    <3>4. next \in State
      BY <3>1, <3>2, <3>3 DEF State
    <3>5. /\ \A i \in MeshId :
                next.departed[i] = IF i = id THEN mesh ELSE state.departed[i]
          /\ Kept(next) = Kept(state) \cup {id}
      BY <1>1, <1>4, <3>1, StateFacts DEF Kept
    <3>6. IsFiniteSet(Kept(next)) /\ Cardinality(Kept(next)) <= MaxDeparted
      <4>1. /\ IsFiniteSet(Kept(next))
            /\ Cardinality(Kept(next)) = IF id \in Kept(state) THEN Cardinality(Kept(state))
                                         ELSE Cardinality(Kept(state)) + 1
        BY <1>3, <3>5, FS_AddElement
      <4>2. Cardinality(Kept(state)) \in Nat /\ MaxDeparted \in Nat
        BY <1>3, FS_CardinalityType, MeshNodeAssumption
      <4>3. id \in Kept(state) \/ Cardinality(Kept(state)) # MaxDeparted
        BY <2>2 DEF Evicts
      <4> QED
        BY <1>3, <4>1, <4>2, <4>3
    <3> QED
      BY <1>3, <3>1, <3>2, <3>4, <3>5, <3>6
  <2>3. CASE Members(mesh) # {} /\ Evicts(state, id)
    <3>1. rest # << >>
      BY <2>3 DEF CanLeave, mesh
    <3>2. oldest \in Kept(state) /\ oldest # id
      <4>1. oldest = rest[1] /\ Len(rest) # 0 /\ Len(rest) \in Nat
        BY <1>5, <3>1, HeadTailProperties, EmptySeq, LenProperties
      <4>2. oldest \in Range(rest)
        BY <1>5, <4>1, OrderFacts
      <4> QED
        BY <1>5, <4>2
    <3>3. id \notin Kept(state) /\ Cardinality(Kept(state)) = MaxDeparted
      BY <2>3 DEF Evicts
    <3> HIDE DEF rest
    <3>4. /\ next.mesh = None
          /\ next.departed = [state.departed EXCEPT ![oldest] = None, ![id] = mesh]
          /\ next.order = Append(Without(rest, oldest), id)
          /\ next = [mesh |-> None, departed |-> next.departed, order |-> next.order]
      BY <2>3 DEF LeaveState, mesh, rest
    <3> HIDE DEF next, id, oldest
    <3>5. /\ Without(rest, oldest) \in Seq(MeshId) /\ Distinct(Without(rest, oldest))
          /\ Range(Without(rest, oldest)) = (Kept(state) \ {id}) \ {oldest}
      BY <1>5, WithoutFacts
    <3>6. /\ next.order \in Seq(MeshId) /\ Distinct(next.order)
          /\ Range(next.order) = ((Kept(state) \ {id}) \ {oldest}) \cup {id}
      BY <1>4, <3>4, <3>5, AppendFacts
    <3>7. next.departed \in [MeshId -> Mesh \cup {None}]
      BY <1>1, <1>4, <3>4, StateFacts
    <3>8. next \in State
      BY <3>4, <3>6, <3>7 DEF State
    <3>9. /\ \A i \in MeshId :
                next.departed[i] = IF i = id THEN mesh
                                   ELSE IF i = oldest THEN None ELSE state.departed[i]
          /\ Kept(next) = (Kept(state) \ {oldest}) \cup {id}
      BY <1>1, <1>4, <3>2, <3>4, StateFacts DEF Kept
    <3>10. IsFiniteSet(Kept(next)) /\ Cardinality(Kept(next)) <= MaxDeparted
      <4>1. /\ IsFiniteSet(Kept(state) \ {oldest})
            /\ Cardinality(Kept(state) \ {oldest}) = Cardinality(Kept(state)) - 1
        BY <1>3, <3>2, FS_RemoveElement
      <4>2. /\ IsFiniteSet(Kept(next))
            /\ Cardinality(Kept(next)) = Cardinality(Kept(state) \ {oldest}) + 1
        BY <3>3, <3>9, <4>1, FS_AddElement
      <4>3. Cardinality(Kept(state)) \in Nat /\ MaxDeparted \in Nat
        BY <1>3, FS_CardinalityType, MeshNodeAssumption
      <4> QED
        BY <3>3, <4>1, <4>2, <4>3
    <3> QED
      BY <1>3, <3>2, <3>3, <3>4, <3>6, <3>8, <3>9, <3>10
  <2> QED
    BY <2>1, <2>2, <2>3
<1> HIDE DEF rest, oldest, next
<1>7. Readable(n, next)
  BY <1>2, <1>3, <1>6 DEF Readable, Distinct, Enrolled
<1>8. Good(n, next)
  BY <1>6, <1>7 DEF Good
<1>9. \A m \in Copies(next) : m = mesh \/ m \in Copies(state)
  BY <1>6 DEF Copies
<1> QED
  BY <1>6, <1>8, <1>9 DEF next, mesh

\* A device that merges a snapshot it accepts can be opened with the result,
\* is in a mesh and keeps every record it had.
LEMMA MergeGood ==
  ASSUME NEW n \in Node, NEW state, Good(n, state), NEW mesh \in Mesh, NEW source,
         Accepts(n, state, mesh, source)
  PROVE  /\ Good(n, MergeState(state, mesh))
         /\ Enrolled(MergeState(state, mesh))
         /\ Extends(state, MergeState(state, mesh))
<1> DEFINE id == mesh.identity.id
           base == Combined(state, mesh)
           own == state.departed[id]
           next == MergeState(state, mesh)
<1>1. state \in State /\ Readable(n, state)
  BY DEF Good
<1>2. Verify(mesh) /\ Self(n) \in Members(mesh) /\ Self(n).id = n
  BY SelfFacts DEF Accepts
<1>3. /\ base \in Mesh /\ Verify(base) /\ Self(n) \in Members(base)
      /\ base.identity.id = id
      /\ Enrolled(state) =>
           /\ state.mesh.identity = base.identity
           /\ state.mesh.admissions \subseteq base.admissions
           /\ state.mesh.departures \subseteq base.departures
  <2>1. CASE Enrolled(state)
    <3>1. /\ state.mesh \in Mesh /\ Verify(state.mesh)
          /\ Self(n) \in Members(state.mesh) /\ Mergeable(state.mesh, mesh)
          /\ base = Merged(state.mesh, mesh)
      BY <1>1, <2>1, StateFacts DEF Readable, Accepts, Combined
    <3>2. base \in Mesh /\ Self(n) \in Members(base)
      BY <1>2, <3>1, MergedType, MergedMember
    <3>3. Verify(base) /\ state.mesh.identity = mesh.identity
      BY <3>1 DEF Mergeable, SameIdentity
    <3> QED
      BY <3>1, <3>2, <3>3, MergedParts
  <2>2. CASE ~Enrolled(state)
    BY <1>2, <2>2 DEF Combined
  <2> QED
    BY <2>1, <2>2
<1> HIDE DEF base
<1>6. /\ state.order \in Seq(MeshId) /\ Distinct(state.order)
      /\ Range(state.order) = Kept(state) /\ Kept(state) \subseteq MeshId
      /\ IsFiniteSet(Kept(state)) /\ Cardinality(Kept(state)) <= MaxDeparted
      /\ \A i \in Kept(state) :
           /\ state.departed[i] \in Mesh /\ state.departed[i].identity.id = i
           /\ Verify(state.departed[i]) /\ Departed(state.departed[i], n)
  BY <1>1, StateFacts DEF Good, Readable, Distinct
<1>4. CASE id \notin Kept(state)
  <2>1. next = [state EXCEPT !.mesh = base]
    BY <1>4 DEF MergeState, base
  <2>2. /\ next \in State /\ next.mesh = base /\ next.departed = state.departed
        /\ next.order = state.order /\ Kept(next) = Kept(state)
    BY <1>1, <1>3, <2>1, StateParts
  <2> HIDE DEF next, id
  <2>3. Enrolled(next)
    BY <1>3, <2>2, MeshNodeAssumption DEF Enrolled
  <2>4. Readable(n, next)
    BY <1>3, <1>4, <1>6, <2>2 DEF Readable, Distinct
  <2>5. Extends(state, next)
    BY <1>3, <2>2, <2>3 DEF Extends
  <2>6. Good(n, next)
    BY <1>6, <2>2, <2>4 DEF Good
  <2> QED
    BY <2>3, <2>5, <2>6 DEF next
<1>5. CASE id \in Kept(state)
  <2>1. ~Enrolled(state)
    <3> SUFFICES ASSUME Enrolled(state)  PROVE FALSE
      OBVIOUS
    <3>1. Mergeable(state.mesh, mesh)
      BY DEF Accepts
    <3>2. state.mesh.identity.id = id
      BY <3>1 DEF Mergeable, SameIdentity
    <3> QED
      BY <1>1, <1>5, <3>2 DEF Readable
  <2>2. base = mesh
    BY <2>1 DEF Combined, base
  <2>3. own \in Mesh /\ own.identity.id = id /\ Verify(own) /\ Departed(own, n)
    BY <1>5, <1>6
  <2>4. Mergeable(base, own) /\ IsMember(Merged(base, own), n)
    BY <1>5 DEF Accepts, base
  <2>5. /\ next = [mesh |-> next.mesh, departed |-> next.departed, order |-> next.order]
        /\ next.mesh = Merged(base, own)
        /\ next.departed = [state.departed EXCEPT ![id] = None]
        /\ next.order = Without(state.order, id)
    BY <1>5 DEF MergeState, base
  <2> HIDE DEF own, next
  <2>6. /\ Merged(base, own) \in Mesh /\ Verify(Merged(base, own))
        /\ Self(n) \in Members(Merged(base, own))
    BY <1>2, <1>3, <2>2, <2>3, <2>4, MergedType, ReadmittedMember DEF Mergeable
  <2>7. Merged(base, own).identity.id = id
    BY <1>3, <2>3, MergedParts
  <2> HIDE DEF id
  <2>8. /\ next.order \in Seq(MeshId) /\ Distinct(next.order)
        /\ Range(next.order) = Kept(state) \ {id}
    BY <1>6, <2>5, WithoutFacts
  <2>9. /\ \A i \in MeshId :
              next.departed[i] = IF i = id THEN None ELSE state.departed[i]
        /\ Kept(next) = Kept(state) \ {id}
        /\ next.departed \in [MeshId -> Mesh \cup {None}]
    BY <1>1, <2>5, StateFacts DEF Kept
  <2>10. next \in State /\ Enrolled(next)
    BY <2>5, <2>6, <2>8, <2>9, MeshNodeAssumption DEF State, Enrolled
  <2>11. IsFiniteSet(Kept(next)) /\ Cardinality(Kept(next)) <= MaxDeparted
    <3>1. /\ IsFiniteSet(Kept(next))
          /\ Cardinality(Kept(next)) = Cardinality(Kept(state)) - 1
      BY <1>5, <1>6, <2>9, FS_RemoveElement
    <3>2. Cardinality(Kept(state)) \in Nat /\ MaxDeparted \in Nat
      BY <1>6, FS_CardinalityType, MeshNodeAssumption
    <3> QED
      BY <1>6, <3>1, <3>2
  <2>12. Readable(n, next)
    <3>1. \A i \in Kept(next) : next.departed[i] = state.departed[i] /\ i \in Kept(state)
      BY <1>6, <2>9
    <3> QED
      BY <1>6, <2>5, <2>6, <2>7, <2>8, <2>9, <2>11, <3>1 DEF Readable, Distinct
  <2>13. Extends(state, next)
    BY <2>1 DEF Extends
  <2>14. Good(n, next)
    BY <2>8, <2>9, <2>10, <2>11, <2>12 DEF Good
  <2> QED
    BY <2>10, <2>13, <2>14 DEF next
<1> QED
  BY <1>4, <1>5

-----------------------------------------------------------------------------
(* What the steps that save do to the devices *)

\* Two parts of TypeOK.
SpentTyped ==
  spent \in [stops : 0 .. MaxStops, losses : 0 .. MaxLosses, faults : 0 .. MaxFaults]

DevicesTyped == disk \in [Node -> State] /\ mem \in [Node -> State \cup {None}]

\* A step at device n: nothing, or `next' on its disk and, when it runs and
\* the save returned Ok, in its memory too.
DeviceStep(n, next) ==
  \/ UNCHANGED <<disk, mem>>
  \/ /\ disk' = [disk EXCEPT ![n] = next]
     /\ UNCHANGED mem \/ (Running(n) /\ mem' = [mem EXCEPT ![n] = next])

\* No device that runs stops or leaves its mesh.
StillLive ==
  \A d \in Node : Running(d) => Running(d)' /\ (Enrolled(mem[d]) => Enrolled(mem[d])')

\* Nothing of what has happened is forgotten.
Grown ==
  /\ created \subseteq created' /\ left \subseteq left'
  /\ \A d \in Node, g \in Generation : \A id : Joined(d, id, g) => Joined(d, id, g)'

\* Saving a good state that extends the one in memory keeps states good.
LEMMA SaveKeepsGood ==
  ASSUME DevicesTyped, StatesGood, NEW n \in Node, NEW next, Good(n, next),
         Running(n) => Extends(mem[n], next), DeviceStep(n, next)
  PROVE  DevicesTyped' /\ StatesGood' /\ StillLive
<1>1. next \in State /\ next # None
  BY StateFacts DEF Good
<1>2. CASE UNCHANGED <<disk, mem>>
  BY <1>2 DEF DevicesTyped, StatesGood, StillLive, Running
<1>3. CASE /\ disk' = [disk EXCEPT ![n] = next]
           /\ UNCHANGED mem
  <2>1. DevicesTyped'
    BY <1>1, <1>3 DEF DevicesTyped
  <2>2. StillLive
    BY <1>3 DEF StillLive, Running
  <2>3. StatesGood'
    <3> SUFFICES ASSUME NEW d \in Node
                 PROVE  /\ Good(d, disk'[d])
                        /\ mem'[d] # None => Good(d, mem'[d]) /\ Extends(mem'[d], disk'[d])
      BY DEF StatesGood, Running, Good
    <3>1. CASE d = n
      BY <1>3, <3>1 DEF DevicesTyped, StatesGood, Running
    <3>2. CASE d # n
      BY <1>3, <3>2 DEF DevicesTyped, StatesGood, Running
    <3> QED
      BY <3>1, <3>2
  <2> QED
    BY <2>1, <2>2, <2>3
<1>4. CASE /\ disk' = [disk EXCEPT ![n] = next]
           /\ Running(n) /\ mem' = [mem EXCEPT ![n] = next]
  <2>1. DevicesTyped'
    BY <1>1, <1>4 DEF DevicesTyped
  <2>2. StillLive
    <3> SUFFICES ASSUME NEW d \in Node, mem[d] # None
                 PROVE  mem'[d] # None /\ (Enrolled(mem[d]) => Enrolled(mem'[d]))
      BY DEF StillLive, Running, Enrolled
    <3>1. CASE d = n
      BY <1>1, <1>4, <3>1 DEF DevicesTyped, Extends, Running
    <3>2. CASE d # n
      BY <1>4, <3>2 DEF DevicesTyped
    <3> QED
      BY <3>1, <3>2
  <2>3. StatesGood'
    <3> SUFFICES ASSUME NEW d \in Node
                 PROVE  /\ Good(d, disk'[d])
                        /\ mem'[d] # None => Good(d, mem'[d]) /\ Extends(mem'[d], disk'[d])
      BY DEF StatesGood, Running, Good
    <3>1. CASE d = n
      <4>1. disk'[d] = next /\ mem'[d] = next
        BY <1>4, <3>1 DEF DevicesTyped
      <4>2. Extends(next, next)
        BY DEF Extends
      <4> QED
        BY <3>1, <4>1, <4>2
    <3>2. CASE d # n
      BY <1>4, <3>2 DEF DevicesTyped, StatesGood, Running
    <3> QED
      BY <3>1, <3>2
  <2> QED
    BY <2>1, <2>2, <2>3
<1> QED
  BY <1>2, <1>3, <1>4 DEF DeviceStep

\* A device that goes by more records still goes by those it went by.
LEMMA ListedGrows ==
  ASSUME NEW state, NEW next, Extends(state, next), NEW d, NEW id, NEW g,
         Listed(state, d, id, g)
  PROVE  Listed(next, d, id, g)
  BY DEF Extends, Listed

\* What every device goes by is kept when its state is only extended.
LEMMA ShownGrows ==
  ASSUME created \subseteq created', left \subseteq left',
         \A d \in Node : Extends(Shown(d), Shown(d)')
  PROVE  Grown
<1> SUFFICES ASSUME NEW d \in Node, NEW id, NEW g \in Generation, Joined(d, id, g)
             PROVE  Joined(d, id, g)'
  BY DEF Grown
<1>1. CASE <<d, id, g>> \in left
  BY <1>1 DEF Joined
<1>2. CASE Listed(Shown(d), d, id, g)
  <2>1. Extends(Shown(d), Shown(d)')
    OBVIOUS
  <2>2. Listed(Shown(d)', d, id, g)
    BY <1>2, <2>1, ListedGrows
  <2>3. Listed(Shown(d), d, id, g)'
    BY <2>2 DEF Listed, Enrolled
  <2> QED
    BY <2>3 DEF Joined
<1> QED
  BY <1>1, <1>2 DEF Joined

\* Saving a state that extends the one the device goes by forgets nothing.
LEMMA SaveGrows ==
  ASSUME DevicesTyped, NEW n \in Node, NEW next, Good(n, next),
         Extends(Shown(n), next), DeviceStep(n, next),
         created \subseteq created', left \subseteq left'
  PROVE  Grown
<1>1. next # None
  BY StateFacts DEF Good
<1>2. ASSUME NEW d \in Node
      PROVE  Shown(d)' = Shown(d) \/ (d = n /\ Shown(d)' = next)
  <2>1. CASE d = n
    BY <1>1, <2>1 DEF Shown, Running, DeviceStep, DevicesTyped
  <2>2. CASE d # n
    BY <2>2 DEF Shown, Running, DeviceStep, DevicesTyped
  <2> QED
    BY <2>1, <2>2
<1>3. \A d \in Node : Extends(Shown(d), Shown(d)')
  <2> SUFFICES ASSUME NEW d \in Node  PROVE Extends(Shown(d), Shown(d)')
    OBVIOUS
  <2>1. CASE Shown(d)' = Shown(d)
    <3>1. Extends(Shown(d), Shown(d))
      BY DEF Extends
    <3> QED
      BY <2>1, <3>1
  <2> QED
    BY <1>2, <2>1
<1> QED
  BY <1>3, ShownGrows

\* What a copy says stays true.
LEMMA KnownStays ==
  ASSUME Grown, NEW mesh \in Mesh, NEW exempt, Known(mesh, exempt)
  PROVE  Known(mesh, exempt)'
<1>1. \A a \in mesh.admissions : a.member.id \in Node /\ a.generation \in Generation
  BY Generations
<1>2. mesh.identity.id \in created'
  BY DEF Grown, Known
<1>3. \A d \in mesh.departures : <<d.member, mesh.identity.id, d.generation>> \in left'
  BY DEF Grown, Known
<1>4. \A a \in mesh.admissions : \A g \in Generation :
        g < a.generation => <<a.member.id, mesh.identity.id, g>> \in left'
  BY DEF Grown, Known
<1>5. \A a \in mesh.admissions : a.member.id \notin exempt =>
        Joined(a.member.id, mesh.identity.id, a.generation)'
  BY <1>1 DEF Grown, Known
<1> QED
  BY <1>2, <1>3, <1>4, <1>5 DEF Known

\* Who is exempt may be anyone more.
LEMMA KnownWidens ==
  ASSUME NEW mesh, NEW some, NEW more, some \subseteq more, Known(mesh, some)
  PROVE  Known(mesh, more)
  BY DEF Known

\* The copies of a state are meshes.
LEMMA CopiesTyped ==
  ASSUME NEW state \in State, NEW m \in Copies(state)
  PROVE  m \in Mesh
  BY StateFacts DEF Copies, Enrolled

\* A step that saves a state whose copies are known keeps all copies known.
LEMMA SaveKeepsKnown ==
  ASSUME DevicesTyped, StatesKnown, NEW n \in Node, NEW next,
         DeviceStep(n, next), Grown, \A m \in Copies(next) : Known(m, {n})'
  PROVE  StatesKnown'
<1>1. ASSUME NEW d \in Node, NEW m \in Copies(disk[d])
      PROVE  Known(m, {d})'
  <2>1. m \in Mesh /\ Known(m, {d})
    BY <1>1, CopiesTyped DEF DevicesTyped, StatesKnown
  <2> QED
    BY <2>1, KnownStays
<1>2. ASSUME NEW d \in Node, Running(d), NEW m \in Copies(mem[d])
      PROVE  Known(m, {d})'
  <2>1. m \in Mesh /\ Known(m, {d})
    BY <1>2, CopiesTyped DEF DevicesTyped, StatesKnown, Running
  <2> QED
    BY <2>1, KnownStays
<1>3. ASSUME NEW d \in Node
      PROVE  /\ disk'[d] = disk[d] \/ (d = n /\ disk'[d] = next)
             /\ mem'[d] = mem[d] \/ (d = n /\ mem'[d] = next)
  BY DEF DeviceStep, DevicesTyped
<1>4. ASSUME NEW d \in Node, NEW m \in Copies(disk'[d])
      PROVE  Known(m, {d})'
  BY <1>1, <1>3, <1>4
<1>5. ASSUME NEW d \in Node, mem'[d] # None, NEW m \in Copies(mem'[d])
      PROVE  Known(m, {d})'
  BY <1>2, <1>3, <1>5 DEF Running
<1>6. \A d \in Node : Copies(disk[d])' = Copies(disk'[d])
                   /\ Copies(mem[d])' = Copies(mem'[d])
  BY DEF Copies
<1> QED
  BY <1>4, <1>5, <1>6 DEF StatesKnown, Running

\* A step that saves nothing keeps all that is said of the devices.
LEMMA NothingSaved ==
  ASSUME DevicesTyped, StatesGood, StatesKnown, UNCHANGED <<disk, mem, created, left>>
  PROVE  /\ DevicesTyped' /\ StatesGood' /\ StatesKnown'
         /\ StillLive /\ Grown
<1>1. DevicesTyped' /\ StatesGood' /\ StillLive
  BY DEF DevicesTyped, StatesGood, StillLive, Running
<1>2. \A d \in Node : Shown(d)' = Shown(d) /\ Extends(Shown(d), Shown(d))
  BY DEF Shown, Running, Extends
<1>3. Grown
  BY <1>2, ShownGrows
<1>4. ASSUME NEW n \in Node, NEW m,
             m \in Copies(disk[n]) \/ (Running(n) /\ m \in Copies(mem[n]))
      PROVE  Known(m, {n})'
  <2>1. m \in Mesh /\ Known(m, {n})
    BY <1>4, CopiesTyped DEF DevicesTyped, StatesKnown, Running
  <2> QED
    BY <1>3, <2>1, KnownStays
<1>5. StatesKnown'
  <2>1. \A n \in Node : Copies(disk[n])' = Copies(disk[n])
                     /\ Copies(mem[n])' = Copies(mem[n])
    BY DEF Copies
  <2>2. \A n \in Node : mem'[n] = mem[n]
    OBVIOUS
  <2> QED
    BY <1>4, <2>1, <2>2 DEF StatesKnown, Running
<1> QED
  BY <1>1, <1>3, <1>5

\* A request that was live stays so.
LEMMA CallStaysLive ==
  ASSUME StillLive, NEW c \in Call, CallLive(c)
  PROVE  CallLive(c)'
  BY DEF StillLive, Call, CallLive, InMesh

\* What a request carries stays true.
LEMMA CallStaysKnown ==
  ASSUME Grown, NEW c \in Call, CallKnown(c)
  PROVE  CallKnown(c)'
<1>1. CASE c.mesh = None
  BY <1>1 DEF CallKnown
<1>2. CASE c.mesh # None
  <2>1. c.mesh \in Mesh /\ Known(c.mesh, Invited(c))
    BY <1>2 DEF Call, CallKnown
  <2>2. Known(c.mesh, Invited(c))'
    BY <2>1, KnownStays DEF Invited
  <2> QED
    BY <2>2 DEF CallKnown
<1> QED
  BY <1>1, <1>2

-----------------------------------------------------------------------------
(* What the copies say after an operation *)

\* A new mesh says only that it was created.
LEMMA FoundingKnown ==
  ASSUME NEW n \in Node, NEW id, NEW name, id \in created',
         NEW m, m = Founding(NewIdentity(n, id, name), Self(n))
  PROVE  Known(m, {n})'
<1> DEFINE i == NewIdentity(n, id, name)
           a == [member |-> Self(n), issuer |-> n, generation |-> 0, sealed |-> i]
<1>1. m.identity = i /\ m.admissions = {a} /\ m.departures = {}
  BY FoundingRecord, SelfFacts
<1>2. i.id = id /\ a.member.id = n /\ a.generation = 0
  BY SelfFacts DEF NewIdentity
<1>3. \A g \in Generation : ~(g < 0)
  BY MembershipAssumption DEF Generation
<1>4. /\ m.identity.id \in created' /\ m.departures = {}
      /\ \A b \in m.admissions : b.member.id = n /\ b.generation = 0
  BY <1>1, <1>2
<1> QED
  BY <1>3, <1>4 DEF Known

\* A merged copy says what its parts say.
LEMMA MergedKnown ==
  ASSUME NEW mesh \in Mesh, NEW other \in Mesh, mesh.identity = other.identity,
         NEW exempt, Known(mesh, exempt), Known(other, exempt)
  PROVE  Known(Merged(mesh, other), exempt)
<1> DEFINE m == Merged(mesh, other)
<1>1. /\ m.identity = mesh.identity
      /\ \A a \in m.admissions : a \in mesh.admissions \/ a \in other.admissions
      /\ \A d \in m.departures : d \in mesh.departures \/ d \in other.departures
  BY MergedParts
<1> HIDE DEF m
<1>2. Known(m, exempt)
  BY <1>1 DEF Known
<1> QED
  BY <1>2 DEF m

\* The copy a device goes by has its own admissions too.
LEMMA OwnKnown ==
  ASSUME NEW n \in Node, Running(n), mem[n] \in State, Enrolled(mem[n]),
         Known(mem[n].mesh, {n})
  PROVE  mem[n].mesh \in Mesh /\ Known(mem[n].mesh, {})
<1> DEFINE m == mem[n].mesh
<1>1. m \in Mesh
  BY StateFacts
<1>2. \A a \in m.admissions : a.generation \in Nat
  BY <1>1, Generations
<1>3. \A a \in m.admissions : a.member.id = n => Joined(n, m.identity.id, a.generation)
  BY <1>2 DEF Joined, Listed, Shown
<1>4. Known(m, {})
  BY <1>3 DEF Known
<1> QED
  BY <1>1, <1>4

\* An admission for the generation after a departure says what was known.
LEMMA AdmitKnown ==
  ASSUME NEW mesh \in Mesh, Known(mesh, {}), NEW p \in Node, NEW n \in Node,
         CanAdmit(mesh, Self(p), n)
  PROVE  Known(Admit(mesh, Self(p), n), {p})
<1>1. Self(p).id = p
  BY SelfFacts
<1>2. CASE IsMember(mesh, p)
  BY <1>1, <1>2 DEF Admit, Known
<1>3. CASE ~IsMember(mesh, p)
  <2> DEFINE next == NextGeneration(mesh, p)
             a == SignedAdmission(mesh, Self(p), next, n)
             m == Admit(mesh, Self(p), n)
             id == mesh.identity.id
  <2>1. /\ m.identity = mesh.identity /\ m.departures = mesh.departures
        /\ m.admissions = mesh.admissions \cup {a}
    BY <1>1, <1>3 DEF Admit, Mesh
  <2>2. a.member.id = p /\ a.generation = next
    BY <1>1 DEF SignedAdmission
  <2>3. \A g \in Generation : g < next => <<p, id, g>> \in left
    <3> SUFFICES ASSUME NEW g \in Generation, g < next  PROVE <<p, id, g>> \in left
      OBVIOUS
    <3>1. CASE AdmissionsOf(mesh, p) = {}
      BY <3>1, MembershipAssumption DEF NextGeneration, Generation
    <3>2. CASE AdmissionsOf(mesh, p) # {}
      <4> DEFINE b == LatestAdmission(mesh, p)
      <4>1. b \in mesh.admissions /\ b.member.id = p
        BY <3>2, LatestAdmissionIsLatest DEF AdmissionsOf
      <4>2. b.generation \in Nat /\ next = b.generation + 1 /\ g \in Nat
        BY <3>2, <4>1, Generations, MembershipAssumption DEF NextGeneration, Generation
      <4>3. DepartedGeneration(mesh, p, b.generation)
        BY <1>3, <3>2, NonMemberDeparted
      <4>4. <<p, id, b.generation>> \in left
        BY <4>3 DEF DepartedGeneration, DepartureKey, Known
      <4> HIDE DEF b, next
      <4>5. CASE g < b.generation
        BY <4>1, <4>5 DEF Known
      <4>6. CASE g = b.generation
        BY <4>4, <4>6
      <4> QED
        BY <4>2, <4>5, <4>6
    <3> QED
      BY <3>1, <3>2
  <2> HIDE DEF m, next, a
  <2>4. Known(m, {p})
    BY <2>1, <2>2, <2>3 DEF Known, id
  <2> QED
    BY <2>4 DEF m
<1> QED
  BY <1>2, <1>3

\* The copies of a state after a merge say what the parts say.
LEMMA MergeKnown ==
  ASSUME NEW n \in Node, NEW state, Good(n, state), NEW mesh \in Mesh, NEW source,
         Accepts(n, state, mesh, source), Known(mesh, {n}),
         \A m \in Copies(state) : Known(m, {n})
  PROVE  \A m \in Copies(MergeState(state, mesh)) : Known(m, {n})
<1> DEFINE id == mesh.identity.id
           base == Combined(state, mesh)
           own == state.departed[id]
           next == MergeState(state, mesh)
<1>0. /\ state \in State /\ state.departed \in [MeshId -> Mesh \cup {None}]
      /\ \A i \in Kept(state) : state.departed[i] \in Mesh
  BY StateFacts DEF Good
<1>1. base \in Mesh /\ base.identity.id = id /\ Known(base, {n})
  <2>1. CASE Enrolled(state)
    <3>1. state.mesh \in Mesh /\ Known(state.mesh, {n})
      BY <1>0, <2>1, StateFacts DEF Copies, Enrolled
    <3>2. Mergeable(state.mesh, mesh)
      BY <2>1 DEF Accepts
    <3>3. state.mesh.identity = mesh.identity
      BY <3>2 DEF Mergeable, SameIdentity
    <3>4. base = Merged(state.mesh, mesh)
      BY <2>1 DEF Combined
    <3> HIDE DEF base, id
    <3>5. base \in Mesh /\ Known(base, {n})
      BY <3>1, <3>3, <3>4, MergedKnown, MergedType
    <3>6. base.identity = mesh.identity
      BY <3>1, <3>3, <3>4, MergedParts
    <3> QED
      BY <3>5, <3>6 DEF id
  <2>2. CASE ~Enrolled(state)
    BY <2>2 DEF Combined
  <2> QED
    BY <2>1, <2>2
<1>2. \A i \in Kept(state) : Known(state.departed[i], {n})
  BY DEF Copies
<1> HIDE DEF base
<1>3. CASE id \notin Kept(state)
  <2>1. next = [state EXCEPT !.mesh = base]
    BY <1>3 DEF MergeState, base
  <2>2. next.mesh = base /\ next.departed = state.departed /\ Kept(next) = Kept(state)
    BY <1>0, <1>1, <2>1, StateParts
  <2> HIDE DEF next
  <2>3. \A m \in Copies(next) : Known(m, {n})
    BY <1>1, <1>2, <2>2 DEF Copies
  <2> QED
    BY <2>3 DEF next
<1>4. CASE id \in Kept(state)
  <2>1. /\ next.mesh = Merged(base, own)
        /\ next.departed = [state.departed EXCEPT ![id] = None]
    BY <1>4 DEF MergeState, base
  <2>2. own \in Mesh /\ Known(own, {n})
    BY <1>0, <1>2, <1>4
  <2>3. base.identity = own.identity
    <3>1. Mergeable(base, own)
      BY <1>4 DEF Accepts, base
    <3> QED
      BY <3>1 DEF Mergeable, SameIdentity
  <2> HIDE DEF own, next, id
  <2>4. Known(Merged(base, own), {n})
    BY <1>1, <2>2, <2>3, MergedKnown
  <2>5. \A i \in Kept(next) : i \in Kept(state) /\ next.departed[i] = state.departed[i]
    BY <1>0, <2>1 DEF Kept
  <2>6. \A m \in Copies(next) : Known(m, {n})
    BY <1>2, <2>1, <2>4, <2>5 DEF Copies
  <2> QED
    BY <2>6 DEF next
<1> QED
  BY <1>3, <1>4

-----------------------------------------------------------------------------
(* The steps *)

\* A save that fails is counted.
LEMMA FaultTyped ==
  ASSUME NEW outcome, Fault(outcome),
         SpentTyped
  PROVE  SpentTyped'
  BY MeshNodeAssumption DEF Fault, SpentTyped

\* A save by a stopped device.
LEMMA WriteSteps ==
  ASSUME NEW n \in Node, NEW next, NEW outcome \in Outcome,
         WriteDisk(n, next, outcome), UNCHANGED mem
  PROVE  DeviceStep(n, next) /\ Fault(outcome)
  BY DEF WriteDisk, DeviceStep

\* A save by a running device.
LEMMA SaveSteps ==
  ASSUME NEW n \in Node, Running(n), NEW next, NEW outcome \in Outcome,
         SaveAndAssign(n, next, outcome)
  PROVE  /\ DeviceStep(n, next) /\ Fault(outcome)
         /\ outcome # "saved" => mem' = mem
         /\ outcome = "saved" => mem' = [mem EXCEPT ![n] = next]
<1>1. CASE outcome = "saved"
  BY <1>1 DEF SaveAndAssign, WriteDisk, DeviceStep
<1>2. CASE outcome # "saved"
  BY <1>2 DEF SaveAndAssign, WriteDisk, DeviceStep
<1> QED
  BY <1>1, <1>2


\* Tickets do not depend on what is saved.
LEMMA TicketsStay ==
  ASSUME TicketsFresh, UNCHANGED <<pending, owner, redeemed>>
  PROVE  TicketsFresh'
  BY DEF TicketsFresh

\* Requests that stay as they are stay live and known.
LEMMA CallsStay ==
  ASSUME calls \subseteq Call, CallsLive, CallsKnown, StillLive, Grown,
         calls' \subseteq calls
  PROVE  CallsLive' /\ CallsKnown'
<1>1. ASSUME NEW c \in calls'
      PROVE  CallLive(c)' /\ CallKnown(c)'
  BY CallStaysLive, CallStaysKnown DEF CallsLive, CallsKnown
<1> QED
  BY <1>1 DEF CallsLive, CallsKnown

\* A mesh is founded by a stopped device or by a running one.
LEMMA FoundStep ==
  ASSUME NodeInv, NEW n \in Node, NEW id \in RandomMeshId, NEW name \in MeshName,
         NEW outcome \in Outcome,
         CreateMesh(n, id, name, outcome) \/ NewMesh(n, id, name, outcome)
  PROVE  NodeInv'
<1> DEFINE next == FoundedState(n, Shown(n), id, name)
<1>1. /\ DevicesTyped /\ StatesGood /\ StatesKnown /\ TicketsFresh /\ CallsLive
      /\ CallsKnown /\ calls \subseteq Call
  BY DEF NodeInv, TypeOK, DevicesTyped
<1>2. /\ ~Enrolled(Shown(n)) /\ id \notin created /\ created' = created \cup {id}
      /\ UNCHANGED <<pending, owner, expired, calls, redeemed, left>>
      /\ DeviceStep(n, next) /\ Fault(outcome)
  <2>1. CASE CreateMesh(n, id, name, outcome)
    <3>1. Opened(disk[n]) = disk[n]
      BY <1>1, OpenedFacts DEF StatesGood
    <3> QED
      BY <2>1, <3>1, WriteSteps DEF CreateMesh, Shown, Running, FoundedState, offline
  <2>2. CASE NewMesh(n, id, name, outcome)
    BY <2>2, SaveSteps DEF NewMesh, Shown, FoundedState
  <2> QED
    BY <2>1, <2>2
<1>3. Good(n, Shown(n)) /\ \A m \in Copies(Shown(n)) : m \in Mesh /\ Known(m, {n})
  <2>1. Good(n, Shown(n)) /\ \A m \in Copies(Shown(n)) : Known(m, {n})
    BY <1>1 DEF StatesGood, StatesKnown, Shown
  <2> QED
    BY <2>1, CopiesTyped DEF Good
<1>4. id \notin Kept(Shown(n))
  <2>1. \A i \in Kept(Shown(n)) :
          Known(Shown(n).departed[i], {n}) /\ Shown(n).departed[i].identity.id = i
    BY <1>3 DEF Copies, Good, Readable
  <2> QED
    BY <1>2, <2>1 DEF Known
<1>5. /\ Good(n, next) /\ Enrolled(next)
      /\ next.mesh = Founding(NewIdentity(n, id, name), Self(n))
      /\ next.departed = Shown(n).departed /\ Kept(next) = Kept(Shown(n))
  BY <1>2, <1>3, <1>4, FoundedGood
<1>6. Extends(Shown(n), next) /\ (Running(n) => Extends(mem[n], next))
  BY <1>2 DEF Extends, Shown
<1> HIDE DEF next
<1>7. DevicesTyped' /\ StatesGood' /\ StillLive
  BY <1>1, <1>2, <1>5, <1>6, SaveKeepsGood
<1>8. Grown
  BY <1>1, <1>2, <1>5, <1>6, SaveGrows
<1>9. \A m \in Copies(next) : Known(m, {n})'
  <2>1. ASSUME NEW m, m = next.mesh  PROVE Known(m, {n})'
    <3>1. id \in created' /\ m = Founding(NewIdentity(n, id, name), Self(n))
      BY <1>2, <1>5, <2>1
    <3> QED
      BY <3>1, FoundingKnown
  <2>2. \A m \in Copies(Shown(n)) : Known(m, {n})'
    BY <1>3, <1>8, KnownStays
  <2>3. \A m \in Copies(next) : m = next.mesh \/ m \in Copies(Shown(n))
    BY <1>5 DEF Copies
  <2> QED
    BY <2>1, <2>2, <2>3
<1>10. StatesKnown'
  BY <1>1, <1>2, <1>8, <1>9, SaveKeepsKnown
<1>11. TicketsFresh' /\ CallsLive' /\ CallsKnown'
  BY <1>1, <1>2, <1>7, <1>8, TicketsStay, CallsStay
<1>12. TypeOK'
  BY <1>2, <1>7, FaultTyped DEF NodeInv, TypeOK, SpentTyped, DevicesTyped
<1> QED
  BY <1>7, <1>10, <1>11, <1>12 DEF NodeInv

\* What a leave saves.
LEMMA LeaveKnown ==
  ASSUME NEW n \in Node, NEW state, Good(n, state), Enrolled(state),
         CanLeave(n, state), \A m \in Copies(state) : Known(m, {n}),
         created \subseteq created', left \subseteq left',
         <<n, state.mesh.identity.id,
           LatestAdmission(state.mesh, n).generation>> \in left',
         \A m \in Mesh : Known(m, {n}) => Known(m, {n})',
         NEW m \in Copies(LeaveState(n, state))
  PROVE  Known(m, {n})'
<1>1. state.mesh \in Mesh /\ Known(state.mesh, {n}) /\ state \in State
  BY StateFacts DEF Copies, Good, Enrolled
<1>2. m = Depart(state.mesh, n) \/ m \in Copies(state)
  BY LeaveGood
<1>3. CASE m \in Copies(state)
  BY <1>1, <1>3, CopiesTyped
<1>4. CASE m = Depart(state.mesh, n)
  <2> DEFINE d == SignedDeparture(state.mesh, LatestAdmission(state.mesh, n).generation, n)
  <2>1. /\ m.identity = state.mesh.identity /\ m.admissions = state.mesh.admissions
        /\ m.departures = state.mesh.departures \cup {d}
    BY <1>1, <1>4 DEF Depart, Mesh
  <2>2. d.member = n /\ d.generation = LatestAdmission(state.mesh, n).generation
    BY DEF SignedDeparture
  <2> HIDE DEF d
  <2>3. PICK old \in Mesh : old = state.mesh
    BY <1>1
  <2>4. Known(old, {n})'
    BY <1>1, <2>3
  <2>5. \A e \in m.departures : <<e.member, m.identity.id, e.generation>> \in left'
    BY <2>1, <2>2, <2>3, <2>4 DEF Known
  <2> QED
    BY <2>1, <2>3, <2>4, <2>5 DEF Known
<1> QED
  BY <1>2, <1>3, <1>4

\* A stopped device leaves its mesh: what it went by it has departed from.
LEMMA LeaveStep ==
  ASSUME NodeInv, NEW n \in Node, NEW outcome \in Outcome, LeaveMesh(n, outcome)
  PROVE  NodeInv'
<1> DEFINE state == disk[n]
           next == LeaveState(n, state)
           g == LatestAdmission(state.mesh, n).generation
           id == state.mesh.identity.id
<1>1. /\ DevicesTyped /\ StatesGood /\ StatesKnown /\ TicketsFresh /\ CallsLive
      /\ CallsKnown /\ calls \subseteq Call
  BY DEF NodeInv, TypeOK, DevicesTyped
<1>2. /\ ~Running(n) /\ Enrolled(state) /\ CanLeave(n, state)
      /\ CanDepart(state.mesh, n) /\ WriteDisk(n, next, outcome)
      /\ UNCHANGED <<mem, pending, owner, expired, calls, redeemed, created>>
      /\ left' = IF outcome = "failed" THEN left ELSE left \cup {<<n, id, g>>}
  <2>1. Opened(state) = state
    BY <1>1, OpenedFacts DEF StatesGood
  <2>2. CanLeave(n, state) => CanDepart(state.mesh, n)
    BY DEF CanLeave
  <2> QED
    BY <2>1, <2>2 DEF LeaveMesh, offline
<1>3. /\ Good(n, state) /\ \A m \in Copies(state) : Known(m, {n})
      /\ state \in State /\ state.mesh \in Mesh /\ Known(state.mesh, {n})
  BY <1>1, <1>2, StateFacts DEF StatesGood, StatesKnown, Good, Copies, Enrolled
<1>4. Good(n, next)
  BY <1>2, <1>3, LeaveGood
<1> DEFINE last == LatestAdmission(state.mesh, n)
<1>5. /\ last \in state.mesh.admissions /\ last.member.id = n
      /\ \A a \in state.mesh.admissions : a.member.id = n => a.generation <= g
      /\ \A a \in state.mesh.admissions : a.generation \in Generation
      /\ g \in Generation
  BY <1>2, <1>3, MemberIsLatest, LatestAdmissionIsLatest, Generations
     DEF CanDepart, AdmissionsOf, IsLatest
<1> HIDE DEF next
<1>6. DeviceStep(n, next) /\ Fault(outcome)
  BY <1>2, WriteSteps
<1>7. DevicesTyped' /\ StatesGood' /\ StillLive
  BY <1>1, <1>2, <1>4, <1>6, SaveKeepsGood
<1>8. Grown
  <2> SUFFICES ASSUME NEW d \in Node, NEW h \in Generation, NEW i, Joined(d, i, h)
               PROVE  Joined(d, i, h)'
    BY <1>2 DEF Grown
  <2>1. CASE <<d, i, h>> \in left
    BY <1>2, <2>1 DEF Joined
  <2>2. CASE Listed(Shown(d), d, i, h)
    <3>1. CASE d # n \/ disk' = disk
      <4>1. Shown(d)' = Shown(d)
        BY <1>1, <1>2, <3>1 DEF Shown, Running, WriteDisk, DevicesTyped
      <4>2. Listed(Shown(d), d, i, h)'
        BY <2>2, <4>1 DEF Listed, Enrolled
      <4> QED
        BY <4>2 DEF Joined
    <3>2. CASE d = n /\ outcome # "failed"
      <4>1. i = id /\ \E a \in state.mesh.admissions :
                         a.member.id = n /\ a.generation >= h
        BY <1>2, <2>2, <3>2 DEF Listed, Shown
      <4>2. <<n, id, g>> \in left'
        BY <1>2, <3>2
      <4>3. h <= g
        <5>1. PICK a \in state.mesh.admissions : a.member.id = n /\ a.generation >= h
          BY <4>1
        <5>2. a.generation <= g /\ a.generation \in Nat /\ g \in Nat /\ h \in Nat
          BY <1>5, <5>1, MembershipAssumption DEF Generation
        <5> QED
          BY <5>1, <5>2
      <4>4. CASE h = g
        BY <3>2, <4>1, <4>2, <4>4 DEF Joined
      <4>5. CASE h < g
        <5>1. <<n, id, h>> \in left
          BY <1>3, <1>5, <4>5 DEF Known
        <5> QED
          BY <1>2, <3>2, <4>1, <5>1 DEF Joined
      <4> HIDE DEF g
      <4>6. h = g \/ h < g
        BY <1>5, <4>3, MembershipAssumption DEF Generation
      <4> QED
        BY <4>4, <4>5, <4>6
    <3>3. disk' = disk \/ outcome # "failed"
      BY <1>2 DEF WriteDisk
    <3> QED
      BY <3>1, <3>2, <3>3
  <2> QED
    BY <2>1, <2>2 DEF Joined
<1>9. StatesKnown'
  <2>1. CASE outcome = "failed"
    <3>1. UNCHANGED <<disk, mem, created, left>>
      BY <1>2, <2>1 DEF WriteDisk
    <3> QED
      BY <1>1, <3>1, NothingSaved
  <2>2. CASE outcome # "failed"
    <3>1. \A m \in Mesh : Known(m, {n}) => Known(m, {n})'
      BY <1>8, KnownStays
    <3>2. <<n, id, g>> \in left'
      BY <1>2, <2>2
    <3>3. \A m \in Copies(next) : Known(m, {n})'
      BY <1>2, <1>3, <1>8, <3>1, <3>2, LeaveKnown DEF Grown, next
    <3> QED
      BY <1>1, <1>6, <1>8, <3>3, SaveKeepsKnown
  <2> QED
    BY <2>1, <2>2
<1>10. TicketsFresh' /\ CallsLive' /\ CallsKnown'
  BY <1>1, <1>2, <1>7, <1>8, TicketsStay, CallsStay
<1>11. left' \subseteq Node \X MeshId \X Generation
  <2>1. id \in MeshId
    BY <1>3 DEF Mesh, Identity
  <2>2. left \subseteq Node \X MeshId \X Generation
    BY DEF NodeInv, TypeOK
  <2> HIDE DEF id, g
  <2> QED
    BY <1>2, <1>5, <2>1, <2>2
<1> HIDE DEF id, g
<1>12. TypeOK'
  BY <1>2, <1>6, <1>7, <1>11, FaultTyped DEF NodeInv, TypeOK, SpentTyped, DevicesTyped
<1> QED
  BY <1>7, <1>9, <1>10, <1>12 DEF NodeInv

\* A device starts on what it saved.
LEMMA BindStep ==
  ASSUME NodeInv, NEW n \in Node, Bind(n)
  PROVE  NodeInv'
<1>1. /\ DevicesTyped /\ StatesGood /\ StatesKnown /\ TicketsFresh /\ CallsLive
      /\ CallsKnown /\ calls \subseteq Call
  BY DEF NodeInv, TypeOK, DevicesTyped
<1>2. /\ mem[n] = None /\ mem' = [mem EXCEPT ![n] = disk[n]]
      /\ UNCHANGED <<disk, pending, owner, expired, calls, redeemed, spent, created, left>>
  <2>1. Opened(disk[n]) = disk[n]
    BY <1>1, OpenedFacts DEF StatesGood
  <2> QED
    BY <2>1 DEF Bind, Running, history
<1>3. /\ \A d \in Node : mem'[d] = IF d = n THEN disk[n] ELSE mem[d]
      /\ disk[n] \in State /\ disk[n] # None /\ Good(n, disk[n])
  BY <1>1, <1>2, StateFacts DEF DevicesTyped, StatesGood
<1>4. DevicesTyped'
  BY <1>1, <1>2, <1>3 DEF DevicesTyped
<1>5. StillLive
  BY <1>2, <1>3 DEF StillLive, Running
<1>6. StatesGood'
  <2>1. Extends(disk[n], disk[n])
    BY DEF Extends
  <2> SUFFICES ASSUME NEW d \in Node
               PROVE  /\ Good(d, disk'[d])
                      /\ mem'[d] # None => Good(d, mem'[d]) /\ Extends(mem'[d], disk'[d])
    BY DEF StatesGood, Running, Good
  <2> QED
    BY <1>1, <1>2, <1>3, <2>1 DEF StatesGood, Running
<1>7. Grown
  <2>1. \A d \in Node : Shown(d)' = Shown(d) /\ Extends(Shown(d), Shown(d))
    BY <1>2, <1>3 DEF Shown, Running, Extends
  <2> QED
    BY <1>2, <2>1, ShownGrows
<1>8. StatesKnown'
  <2>1. ASSUME NEW d \in Node, NEW m,
               m \in Copies(disk[d]) \/ (Running(d) /\ m \in Copies(mem[d]))
        PROVE  Known(m, {d})'
    <3>1. m \in Mesh /\ Known(m, {d})
      BY <1>1, <2>1, CopiesTyped DEF DevicesTyped, StatesKnown, Running
    <3> QED
      BY <1>7, <3>1, KnownStays
  <2>2. \A d \in Node : Copies(disk[d])' = Copies(disk[d])
                   /\ Copies(mem[d])' = Copies(mem'[d])
    BY <1>2 DEF Copies
  <2> QED
    BY <1>3, <2>1, <2>2 DEF StatesKnown, Running
<1>9. TicketsFresh' /\ CallsLive' /\ CallsKnown'
  BY <1>1, <1>2, <1>5, <1>7, TicketsStay, CallsStay
<1>10. TypeOK'
  BY <1>2, <1>4 DEF NodeInv, TypeOK, SpentTyped, DevicesTyped
<1> QED
  BY <1>4, <1>6, <1>8, <1>9, <1>10 DEF NodeInv

\* A device stops: what it goes by from now on is what it saved, and that
\* has every record it went by; it owes no reply and waits for none.
LEMMA StopStep ==
  ASSUME NodeInv, NEW n \in Node, Stop(n)
  PROVE  NodeInv'
<1>1. /\ DevicesTyped /\ StatesGood /\ StatesKnown /\ TicketsFresh /\ CallsLive
      /\ CallsKnown /\ calls \subseteq Call
  BY DEF NodeInv, TypeOK, DevicesTyped
<1>2. /\ mem[n] # None /\ mem' = [mem EXCEPT ![n] = None]
      /\ pending' = [pending EXCEPT ![n] = None]
      /\ UNCHANGED <<disk, owner, expired, redeemed, created, left>>
  BY DEF Stop, Running, history
<1>3. \A d \in Node : mem'[d] = IF d = n THEN None ELSE mem[d]
  BY <1>1, <1>2 DEF DevicesTyped
<1>4. DevicesTyped'
  BY <1>1, <1>2, <1>3 DEF DevicesTyped
<1>5. StatesGood'
  <2> SUFFICES ASSUME NEW d \in Node
               PROVE  /\ Good(d, disk'[d])
                      /\ mem'[d] # None => Good(d, mem'[d]) /\ Extends(mem'[d], disk'[d])
    BY DEF StatesGood, Running, Good
  <2> QED
    BY <1>1, <1>2, <1>3 DEF StatesGood, Running
<1>6. Grown
  <2>1. \A d \in Node : Extends(Shown(d), Shown(d)')
    <3> SUFFICES ASSUME NEW d \in Node  PROVE Extends(Shown(d), Shown(d)')
      OBVIOUS
    <3>1. CASE d = n
      BY <1>1, <1>2, <1>3, <3>1 DEF Shown, Running, StatesGood
    <3>2. CASE d # n
      <4>1. Shown(d)' = Shown(d)
        BY <1>2, <1>3, <3>2 DEF Shown, Running
      <4> QED
        BY <4>1 DEF Extends
    <3> QED
      BY <3>1, <3>2
  <2> QED
    BY <1>2, <2>1, ShownGrows
<1>7. StatesKnown'
  <2>1. ASSUME NEW d \in Node, NEW m,
               m \in Copies(disk[d]) \/ (Running(d) /\ m \in Copies(mem[d]))
        PROVE  Known(m, {d})'
    <3>1. m \in Mesh /\ Known(m, {d})
      BY <1>1, <2>1, CopiesTyped DEF DevicesTyped, StatesKnown, Running
    <3> QED
      BY <1>6, <3>1, KnownStays
  <2>2. \A d \in Node : Copies(disk[d])' = Copies(disk[d])
                   /\ Copies(mem[d])' = Copies(mem'[d])
    BY <1>2 DEF Copies
  <2> QED
    BY <1>3, <2>1, <2>2 DEF StatesKnown, Running
<1>8. TicketsFresh'
  BY <1>1, <1>2 DEF TicketsFresh, NodeInv, TypeOK
<1>9. ASSUME NEW c \in calls'
      PROVE  \/ c \in calls /\ c.from # n /\ c.to # n
             \/ \E x \in calls : x.from = n /\ x.phase = "sent"
                               /\ c = [x EXCEPT !.waiting = FALSE]
  BY DEF Stop
<1>10. ASSUME NEW c \in calls'
       PROVE  c \in Call /\ CallLive(c)' /\ CallKnown(c)'
  <2>1. CASE c \in calls /\ c.from # n /\ c.to # n
    <3>1. c \in Call /\ CallLive(c) /\ CallKnown(c)
      BY <1>1, <2>1 DEF CallsLive, CallsKnown
    <3>2. CallLive(c)'
      BY <1>3, <2>1, <3>1 DEF CallLive, InMesh, Running, Call
    <3> QED
      BY <1>6, <3>1, <3>2, CallStaysKnown
  <2>2. ASSUME NEW x \in calls, x.from = n, x.phase = "sent",
               c = [x EXCEPT !.waiting = FALSE]
        PROVE  c \in Call /\ CallLive(c)' /\ CallKnown(c)'
    <3>1. x \in Call /\ CallLive(x) /\ CallKnown(x)
      BY <1>1, <2>2 DEF CallsLive, CallsKnown
    <3>2. /\ c \in Call /\ c.phase = "sent" /\ ~c.waiting
          /\ c.mesh = x.mesh /\ c.kind = x.kind /\ c.to = x.to /\ c.phase = x.phase
      BY <2>2, <3>1 DEF Call
    <3>3. CallLive(c)'
      BY <2>2, <3>1, <3>2 DEF CallLive
    <3>4. CallKnown(c)
      BY <3>1, <3>2 DEF CallKnown, Invited
    <3> QED
      BY <1>6, <3>2, <3>3, <3>4, CallStaysKnown
  <2> QED
    BY <1>9, <2>1, <2>2
<1>11. CallsLive' /\ CallsKnown' /\ calls' \subseteq Call
  BY <1>10 DEF CallsLive, CallsKnown
<1>12. SpentTyped'
  BY MeshNodeAssumption DEF Stop, NodeInv, TypeOK, SpentTyped
<1>13. pending' \in [Node -> Secret \cup {None}]
  BY <1>2 DEF NodeInv, TypeOK
<1>14. TypeOK'
  BY <1>2, <1>4, <1>11, <1>12, <1>13 DEF NodeInv, TypeOK, SpentTyped, DevicesTyped
<1> QED
  BY <1>4, <1>5, <1>7, <1>8, <1>11, <1>14 DEF NodeInv

\* A ticket is issued for a secret that no ticket had.
LEMMA PairStep ==
  ASSUME NodeInv, NEW n \in Node, NEW s \in Secret, Pair(n, s)
  PROVE  NodeInv'
<1>1. /\ DevicesTyped /\ StatesGood /\ StatesKnown /\ TicketsFresh /\ CallsLive
      /\ CallsKnown /\ calls \subseteq Call
  BY DEF NodeInv, TypeOK, DevicesTyped
<1>2. /\ owner[s] = None /\ owner' = [owner EXCEPT ![s] = n]
      /\ pending' = [pending EXCEPT ![n] = s]
      /\ UNCHANGED <<disk, mem, expired, calls, redeemed, spent, created, left>>
  BY DEF Pair, history
<1>3. DevicesTyped' /\ StatesGood' /\ StatesKnown' /\ StillLive /\ Grown
  BY <1>1, <1>2, NothingSaved
<1>4. CallsLive' /\ CallsKnown'
  BY <1>1, <1>2, <1>3, CallsStay
<1>5. /\ owner \in [Secret -> Node \cup {None}] /\ pending \in [Node -> Secret \cup {None}]
      /\ redeemed \in [Secret -> Nat]
  BY DEF NodeInv, TypeOK
<1>6. TicketsFresh'
  BY <1>1, <1>2, <1>5, MembershipAssumption DEF TicketsFresh
<1>7. TypeOK'
  BY <1>2, <1>3, <1>5 DEF NodeInv, TypeOK, DevicesTyped
<1> QED
  BY <1>3, <1>4, <1>6, <1>7 DEF NodeInv

\* A ticket's lifetime ends.
LEMMA ExpireStep ==
  ASSUME NodeInv, NEW s \in Secret, Expire(s)
  PROVE  NodeInv'
<1>1. /\ DevicesTyped /\ StatesGood /\ StatesKnown /\ TicketsFresh /\ CallsLive
      /\ CallsKnown /\ calls \subseteq Call
  BY DEF NodeInv, TypeOK, DevicesTyped
<1>2. /\ expired' = expired \cup {s}
      /\ UNCHANGED <<disk, mem, pending, owner, calls, redeemed, spent, created, left>>
  BY DEF Expire, history
<1>3. DevicesTyped' /\ StatesGood' /\ StatesKnown' /\ StillLive /\ Grown
  BY <1>1, <1>2, NothingSaved
<1>4. TicketsFresh' /\ CallsLive' /\ CallsKnown'
  BY <1>1, <1>2, <1>3, TicketsStay, CallsStay
<1>5. TypeOK'
  BY <1>2, <1>3 DEF NodeInv, TypeOK, DevicesTyped
<1> QED
  BY <1>3, <1>4, <1>5 DEF NodeInv

\* A request is put under way by a device that is in a mesh.
LEMMA RequestStep ==
  ASSUME NodeInv, NEW c \in Call, CallLive(c), CallKnown(c),
         calls' = calls \cup {c},
         UNCHANGED <<disk, mem, pending, owner, expired, redeemed, spent, created, left>>
  PROVE  NodeInv'
<1>1. /\ DevicesTyped /\ StatesGood /\ StatesKnown /\ TicketsFresh /\ CallsLive
      /\ CallsKnown /\ calls \subseteq Call
  BY DEF NodeInv, TypeOK, DevicesTyped
<1>2. DevicesTyped' /\ StatesGood' /\ StatesKnown' /\ StillLive /\ Grown
  BY <1>1, NothingSaved
<1>3. TicketsFresh'
  BY <1>1, TicketsStay
<1>4. ASSUME NEW x \in calls'
      PROVE  x \in Call /\ CallLive(x)' /\ CallKnown(x)'
  <2>1. x \in Call /\ CallLive(x) /\ CallKnown(x)
    BY <1>1 DEF CallsLive, CallsKnown
  <2> QED
    BY <1>2, <2>1, CallStaysLive, CallStaysKnown
<1>5. CallsLive' /\ CallsKnown' /\ calls' \subseteq Call
  BY <1>4 DEF CallsLive, CallsKnown
<1>6. TypeOK'
  BY <1>2, <1>5 DEF NodeInv, TypeOK, DevicesTyped
<1> QED
  BY <1>2, <1>3, <1>5, <1>6 DEF NodeInv

\* What a request is made of.
LEMMA RequestFacts ==
  ASSUME NEW kind \in {"pair", "sync"}, NEW n \in Node, NEW p \in Node,
         NEW secret \in Secret \cup {None}, NEW mesh \in Mesh
  PROVE  LET c == Request(kind, n, p, secret, mesh)
         IN  /\ c \in Call /\ c.phase = "sent" /\ c.mesh = mesh
             /\ c.kind = kind /\ c.from = n /\ c.to = p
  BY DEF Request, Call

\* An invitation says what the inviting device goes by.
LEMMA AddStep ==
  ASSUME NodeInv, NEW n \in Node, NEW s \in Secret, Add(n, s)
  PROVE  NodeInv'
<1> DEFINE p == owner[s]
           mesh == Admit(mem[n].mesh, Self(p), n)
           c == Request("pair", n, p, s, mesh)
<1>1. DevicesTyped /\ StatesKnown /\ Running(n) /\ Enrolled(mem[n]) /\ p \in Node
  BY DEF NodeInv, TypeOK, DevicesTyped, Add
<1>2. mem[n] \in State /\ mem[n].mesh \in Mesh /\ Known(mem[n].mesh, {n})
  BY <1>1, StateFacts DEF DevicesTyped, StatesKnown, Copies, Running, Enrolled
<1>3. CanAdmit(mem[n].mesh, Self(p), n)
  BY DEF Add
<1>4. Known(mem[n].mesh, {})
  BY <1>1, <1>2, OwnKnown
<1>5. mesh \in Mesh /\ Known(mesh, {p})
  BY <1>1, <1>2, <1>3, <1>4, SelfFacts, AdmitType, AdmitKnown
<1> HIDE DEF mesh, p
<1>6. c \in Call /\ c.phase = "sent" /\ c.mesh = mesh /\ c.kind = "pair"
      /\ c.from = n /\ c.to = p
  BY <1>1, <1>5, RequestFacts
<1>7. /\ calls' = calls \cup {c}
      /\ UNCHANGED <<disk, mem, pending, owner, expired, redeemed, spent, created, left>>
  BY DEF Add, history, mesh, p
<1> HIDE DEF c
<1>8. CallLive(c) /\ CallKnown(c)
  BY <1>1, <1>5, <1>6, MeshNodeAssumption DEF CallLive, CallKnown, InMesh, Invited
<1> QED
  BY <1>6, <1>7, <1>8, RequestStep

\* An exchange says what the asking device goes by.
LEMMA GossipStep ==
  ASSUME NodeInv, NEW n \in Node, NEW p \in Node, Gossip(n, p)
  PROVE  NodeInv'
<1> DEFINE mesh == mem[n].mesh
           c == Request("sync", n, p, None, mesh)
<1>1. DevicesTyped /\ StatesKnown /\ Running(n) /\ Enrolled(mem[n])
  BY DEF NodeInv, TypeOK, DevicesTyped, Gossip
<1>2. mem[n] \in State /\ Known(mem[n].mesh, {n})
  BY <1>1 DEF DevicesTyped, StatesKnown, Copies, Running, Enrolled
<1>3. mesh \in Mesh /\ Known(mesh, {})
  BY <1>1, <1>2, OwnKnown
<1>4. /\ calls' = calls \cup {c}
      /\ UNCHANGED <<disk, mem, pending, owner, expired, redeemed, spent, created, left>>
  BY DEF Gossip, history
<1> HIDE DEF mesh
<1>5. c \in Call /\ c.phase = "sent" /\ c.mesh = mesh /\ c.kind = "sync" /\ c.from = n
  BY <1>3, RequestFacts
<1> HIDE DEF c
<1>6. CallLive(c) /\ CallKnown(c)
  BY <1>1, <1>3, <1>5, MeshNodeAssumption DEF CallLive, CallKnown, InMesh, Invited
<1> QED
  BY <1>4, <1>5, <1>6, RequestStep

-----------------------------------------------------------------------------
(* The steps that merge *)

\* A running device merges a snapshot it accepts.
LEMMA MergeStep ==
  ASSUME NodeInv, NEW n \in Node, Running(n), NEW mesh \in Mesh, NEW source,
         Accepts(n, mem[n], mesh, source), Known(mesh, {n}),
         NEW outcome \in Outcome, MergeAndSave(n, mesh, outcome),
         UNCHANGED <<created, left>>
  PROVE  /\ DevicesTyped' /\ StatesGood' /\ StatesKnown' /\ StillLive /\ Grown
         /\ SpentTyped'
         /\ outcome = "saved" => InMesh(n)'
         /\ outcome # "saved" => mem' = mem
         /\ \A d \in Node : d # n => mem'[d] = mem[d]
<1> DEFINE next == MergeState(mem[n], mesh)
<1>1. DevicesTyped /\ StatesGood /\ StatesKnown /\ SpentTyped
  BY DEF NodeInv, TypeOK, SpentTyped, DevicesTyped
<1>2. /\ Good(n, mem[n]) /\ Shown(n) = mem[n]
      /\ \A m \in Copies(mem[n]) : m \in Mesh /\ Known(m, {n})
  <2>1. Good(n, mem[n]) /\ \A m \in Copies(mem[n]) : Known(m, {n})
    BY <1>1 DEF StatesGood, StatesKnown
  <2> QED
    BY <2>1, CopiesTyped DEF Good, Shown
<1>3. Good(n, next) /\ Enrolled(next) /\ Extends(mem[n], next)
  BY <1>2, MergeGood
<1>4. \A m \in Copies(next) : m \in Mesh /\ Known(m, {n})
  <2>1. \A m \in Copies(next) : Known(m, {n})
    BY <1>2, MergeKnown
  <2> QED
    BY <1>3, <2>1, CopiesTyped DEF Good
<1>5. \/ next = mem[n] /\ outcome = "saved" /\ UNCHANGED <<disk, mem, spent>>
      \/ SaveAndAssign(n, next, outcome)
  BY DEF MergeAndSave
<1> HIDE DEF next
<1>6. next # None
  BY <1>3, StateFacts DEF Good
<1>7. CASE next = mem[n] /\ outcome = "saved" /\ UNCHANGED <<disk, mem, spent>>
  <2>1. InMesh(n)'
    BY <1>3, <1>6, <1>7 DEF InMesh, Running, Enrolled
  <2> QED
    BY <1>1, <1>7, <2>1, NothingSaved DEF SpentTyped
<1>8. CASE SaveAndAssign(n, next, outcome)
  <2>1. /\ DeviceStep(n, next) /\ Fault(outcome)
        /\ outcome # "saved" => mem' = mem
        /\ outcome = "saved" => mem' = [mem EXCEPT ![n] = next]
    BY <1>8, SaveSteps
  <2>2. DevicesTyped' /\ StatesGood' /\ StillLive
    BY <1>1, <1>3, <2>1, SaveKeepsGood
  <2>3. Grown
    BY <1>1, <1>2, <1>3, <2>1, SaveGrows
  <2>4. \A m \in Copies(next) : Known(m, {n})'
    BY <1>4, <2>3, KnownStays
  <2>5. StatesKnown'
    BY <1>1, <2>1, <2>3, <2>4, SaveKeepsKnown
  <2>6. SpentTyped'
    BY <1>1, <2>1, FaultTyped
  <2>7. outcome = "saved" => InMesh(n)'
    BY <1>1, <1>3, <1>6, <2>1 DEF InMesh, Running, Enrolled, DevicesTyped
  <2>8. \A d \in Node : d # n => mem'[d] = mem[d]
    BY <1>1, <2>1 DEF DevicesTyped
  <2> QED
    BY <2>1, <2>2, <2>3, <2>5, <2>6, <2>7, <2>8
<1> QED
  BY <1>5, <1>7, <1>8

\* A request that is handled is owed a reply by a device that is in a mesh.
LEMMA HandledStep ==
  ASSUME calls \subseteq Call, CallsLive, CallsKnown, StillLive, Grown,
         NEW c \in calls, c.phase = "sent", InMesh(c.to)', calls' = Handled(c)
  PROVE  CallsLive' /\ CallsKnown' /\ calls' \subseteq Call
<1> DEFINE reply == [c EXCEPT !.phase = "merged", !.mesh = None]
<1>1. c \in Call /\ CallLive(c)
  BY DEF CallsLive
<1>2. ASSUME NEW x \in calls
      PROVE  x \in Call /\ CallLive(x)' /\ CallKnown(x)'
  BY CallStaysLive, CallStaysKnown DEF CallsLive, CallsKnown
<1>3. ASSUME NEW x, x = reply, c.waiting
      PROVE  x \in Call /\ CallLive(x)' /\ CallKnown(x)'
  <2>1. /\ x \in Call /\ x.phase = "merged" /\ x.mesh = None
        /\ x.from = c.from /\ x.to = c.to
    BY <1>1, <1>3 DEF Call
  <2>2. InMesh(x.from)'
    BY <1>1, <1>3, <2>1 DEF CallLive, InMesh, StillLive, Call
  <2>3. CallLive(x)'
    BY <2>1, <2>2 DEF CallLive
  <2>4. CallKnown(x)'
    BY <2>1 DEF CallKnown
  <2> QED
    BY <2>1, <2>3, <2>4
<1>4. \A x \in calls' : x \in calls \/ (x = reply /\ c.waiting)
  BY DEF Handled
<1> HIDE DEF reply
<1>5. \A x \in calls' : x \in Call /\ CallLive(x)' /\ CallKnown(x)'
  BY <1>2, <1>3, <1>4
<1> QED
  BY <1>5 DEF CallsLive, CallsKnown

\* What a request carries is known to whom it is sent.
LEMMA SentFacts ==
  ASSUME NodeInv, NEW c \in calls, c.phase # "merged"
  PROVE  /\ c \in Call /\ c.from \in Node /\ c.to \in Node /\ c.mesh \in Mesh
         /\ c.phase = "sent" => Known(c.mesh, {c.to})
         /\ c.phase = "answered" => InMesh(c.from) /\ Known(c.mesh, {c.from})
<1>1. c \in Call /\ CallLive(c) /\ CallKnown(c)
  BY DEF NodeInv, TypeOK, CallsLive, CallsKnown
<1>2. c.from \in Node /\ c.to \in Node /\ c.mesh \in Mesh /\ Known(c.mesh, Invited(c))
  BY <1>1 DEF Call, CallLive, CallKnown
<1>3. c.phase = "sent" => Known(c.mesh, {c.to})
  BY <1>2, KnownWidens DEF Invited
<1>4. c.phase = "answered" => InMesh(c.from) /\ Known(c.mesh, {c.from})
  BY <1>1, <1>2, KnownWidens DEF Invited, CallLive
<1> QED
  BY <1>1, <1>2, <1>3, <1>4

\* A device joins by a ticket, which is consumed.
LEMMA EnrollStep ==
  ASSUME NodeInv, NEW c \in calls, NEW outcome \in Outcome, Enroll(c, outcome)
  PROVE  NodeInv'
<1>1. /\ TicketsFresh /\ CallsLive /\ CallsKnown /\ calls \subseteq Call
      /\ owner \in [Secret -> Node \cup {None}] /\ pending \in [Node -> Secret \cup {None}]
      /\ redeemed \in [Secret -> Nat]
  BY DEF NodeInv, TypeOK
<1>2. /\ c.phase = "sent" /\ Running(c.to)
      /\ pending[c.to] # None /\ pending[c.to] = c.secret
      /\ Accepts(c.to, mem[c.to], c.mesh, c.from)
      /\ MergeAndSave(c.to, c.mesh, outcome)
      /\ UNCHANGED <<owner, expired, created, left>>
  BY DEF Enroll, AdmissiblePair, history
<1>3. c.to \in Node /\ c.mesh \in Mesh /\ Known(c.mesh, {c.to})
  BY <1>2, SentFacts
<1>4. /\ DevicesTyped' /\ StatesGood' /\ StatesKnown' /\ StillLive /\ Grown
      /\ SpentTyped'
      /\ outcome = "saved" => InMesh(c.to)'
  BY <1>2, <1>3, MergeStep
<1>5. CASE outcome = "saved"
  <2>1. /\ pending' = [pending EXCEPT ![c.to] = None]
        /\ redeemed' = [redeemed EXCEPT ![c.secret] = @ + 1]
        /\ calls' = Handled(c)
    BY <1>5 DEF Enroll
  <2>2. CallsLive' /\ CallsKnown' /\ calls' \subseteq Call
    BY <1>1, <1>2, <1>4, <1>5, <2>1, HandledStep
  <2>3. c.secret \in Secret /\ owner[c.secret] = c.to /\ redeemed[c.secret] = 0
    BY <1>1, <1>2, <1>3 DEF TicketsFresh
  <2>4. redeemed' \in [Secret -> Nat] /\ pending' \in [Node -> Secret \cup {None}]
    <3>1. redeemed' = [redeemed EXCEPT ![c.secret] = 1]
      BY <1>1, <2>1, <2>3
    <3>2. redeemed' \in [Secret -> Nat]
      BY <1>1, <3>1
    <3>3. pending' \in [Node -> Secret \cup {None}]
      BY <1>1, <2>1
    <3> QED
      BY <3>2, <3>3
  <2>5. TicketsFresh'
    <3>1. ASSUME NEW n \in Node, pending'[n] # None
          PROVE  owner[pending'[n]] = n /\ redeemed'[pending'[n]] = 0
      <4>1. n # c.to /\ pending'[n] = pending[n] /\ pending[n] # c.secret
        BY <1>1, <1>3, <2>1, <2>3, <3>1 DEF TicketsFresh
      <4> QED
        BY <1>1, <2>1, <3>1, <4>1 DEF TicketsFresh
    <3>2. ASSUME NEW s \in Secret
          PROVE  redeemed'[s] <= 1 /\ (owner[s] = None => redeemed'[s] = 0)
      BY <1>1, <1>3, <2>1, <2>3, MembershipAssumption DEF TicketsFresh
    <3> QED
      BY <1>2, <3>1, <3>2 DEF TicketsFresh
  <2>6. TypeOK'
    BY <1>2, <1>4, <2>2, <2>4 DEF NodeInv, TypeOK, SpentTyped, DevicesTyped
  <2> QED
    BY <1>4, <2>2, <2>5, <2>6 DEF NodeInv
<1>6. CASE outcome # "saved"
  <2>1. UNCHANGED <<pending, redeemed>> /\ calls' \subseteq calls
    BY <1>6 DEF Enroll
  <2>2. CallsLive' /\ CallsKnown' /\ TicketsFresh'
    BY <1>1, <1>2, <1>4, <2>1, CallsStay, TicketsStay
  <2>3. TypeOK'
    BY <1>1, <1>2, <1>4, <2>1 DEF NodeInv, TypeOK, SpentTyped, DevicesTyped
  <2> QED
    BY <1>4, <2>2, <2>3 DEF NodeInv
<1> QED
  BY <1>5, <1>6

\* A device answers an exchange.
LEMMA AnswerStep ==
  ASSUME NodeInv, NEW c \in calls, NEW outcome \in Outcome, AnswerSync(c, outcome)
  PROVE  NodeInv'
<1>1. /\ TicketsFresh /\ CallsLive /\ CallsKnown /\ calls \subseteq Call
  BY DEF NodeInv, TypeOK
<1>2. /\ c.phase = "sent" /\ Running(c.to)
      /\ Accepts(c.to, mem[c.to], c.mesh, c.from)
      /\ MergeAndSave(c.to, c.mesh, outcome)
      /\ UNCHANGED <<pending, owner, expired, redeemed, created, left>>
  BY DEF AnswerSync, AnswersSync, history
<1>3. c.to \in Node /\ c.mesh \in Mesh /\ Known(c.mesh, {c.to})
  BY <1>2, SentFacts
<1>4. /\ DevicesTyped' /\ StatesGood' /\ StatesKnown' /\ StillLive /\ Grown
      /\ SpentTyped'
      /\ outcome = "saved" => InMesh(c.to)'
  BY <1>2, <1>3, MergeStep
<1>5. CallsLive' /\ CallsKnown' /\ calls' \subseteq Call
  <2>1. CASE outcome = "saved"
    <3>1. calls' = Handled(c)
      BY <2>1 DEF AnswerSync
    <3> QED
      BY <1>1, <1>2, <1>4, <2>1, <3>1, HandledStep
  <2>2. CASE outcome # "saved"
    <3>1. calls' \subseteq calls
      BY <2>2 DEF AnswerSync
    <3> QED
      BY <1>1, <1>4, <3>1, CallsStay
  <2> QED
    BY <2>1, <2>2
<1>6. TicketsFresh'
  BY <1>1, <1>2, TicketsStay
<1>7. TypeOK'
  BY <1>2, <1>4, <1>5 DEF NodeInv, TypeOK, SpentTyped, DevicesTyped
<1> QED
  BY <1>4, <1>5, <1>6, <1>7 DEF NodeInv

\* The sender merges the reply, or drops it.
LEMMA FinishStep ==
  ASSUME NodeInv, NEW c \in calls, NEW outcome \in Outcome, Finish(c, outcome)
  PROVE  NodeInv'
<1>1. /\ DevicesTyped /\ StatesGood /\ StatesKnown
      /\ TicketsFresh /\ CallsLive /\ CallsKnown /\ calls \subseteq Call
  BY DEF NodeInv, TypeOK, DevicesTyped
<1>2. /\ c.phase = "answered" /\ calls' \subseteq calls
      /\ UNCHANGED <<pending, owner, expired, redeemed, created, left>>
      /\ IF AcceptsReply(c) THEN MergeAndSave(c.from, c.mesh, outcome)
         ELSE UNCHANGED <<disk, mem, spent>>
  BY DEF Finish, history
<1>3. c.from \in Node /\ c.mesh \in Mesh /\ InMesh(c.from) /\ Known(c.mesh, {c.from})
  BY <1>2, SentFacts
<1>4. /\ DevicesTyped' /\ StatesGood' /\ StatesKnown' /\ StillLive /\ Grown
      /\ SpentTyped'
  <2>1. CASE AcceptsReply(c)
    <3>1. Accepts(c.from, mem[c.from], c.mesh, c.to) /\ Running(c.from)
      BY <1>3, <2>1 DEF AcceptsReply, InMesh
    <3> QED
      BY <1>2, <1>3, <2>1, <3>1, MergeStep
  <2>2. CASE ~AcceptsReply(c)
    <3>1. UNCHANGED <<disk, mem, spent, created, left>>
      BY <1>2, <2>2
    <3>2. SpentTyped'
      BY <3>1 DEF NodeInv, TypeOK, SpentTyped
    <3> QED
      BY <1>1, <3>1, <3>2, NothingSaved
  <2> QED
    BY <2>1, <2>2
<1>5. CallsLive' /\ CallsKnown' /\ TicketsFresh'
  BY <1>1, <1>2, <1>4, CallsStay, TicketsStay
<1>6. TypeOK'
  BY <1>1, <1>2, <1>4 DEF NodeInv, TypeOK, SpentTyped, DevicesTyped
<1> QED
  BY <1>4, <1>5, <1>6 DEF NodeInv

\* A request that is refused or lost is gone.
LEMMA DropStep ==
  ASSUME NodeInv, NEW c \in calls, Refuse(c) \/ Lose(c)
  PROVE  NodeInv'
<1>1. /\ DevicesTyped /\ StatesGood /\ StatesKnown
      /\ TicketsFresh /\ CallsLive /\ CallsKnown /\ calls \subseteq Call
  BY DEF NodeInv, TypeOK, DevicesTyped
<1>2. /\ calls' \subseteq calls
      /\ UNCHANGED <<disk, mem, pending, owner, expired, redeemed, created, left>>
  BY DEF Refuse, Lose, history
<1>3. SpentTyped'
  BY MeshNodeAssumption DEF NodeInv, TypeOK, SpentTyped, Refuse, Lose
<1>4. DevicesTyped' /\ StatesGood' /\ StatesKnown' /\ StillLive /\ Grown
  BY <1>1, <1>2, NothingSaved
<1>5. CallsLive' /\ CallsKnown' /\ TicketsFresh'
  BY <1>1, <1>2, <1>4, CallsStay, TicketsStay
<1>6. TypeOK'
  BY <1>1, <1>2, <1>3, <1>4 DEF NodeInv, TypeOK, SpentTyped, DevicesTyped
<1> QED
  BY <1>4, <1>5, <1>6 DEF NodeInv

\* A request is replaced by another form of it.
LEMMA ReplaceStep ==
  ASSUME NodeInv, NEW c \in calls, NEW x \in Call, CallLive(x), CallKnown(x),
         calls' = (calls \ {c}) \cup {x},
         UNCHANGED <<disk, mem, pending, owner, expired, redeemed, created, left>>,
         SpentTyped'
  PROVE  NodeInv'
<1>1. /\ DevicesTyped /\ StatesGood /\ StatesKnown
      /\ TicketsFresh /\ CallsLive /\ CallsKnown /\ calls \subseteq Call
  BY DEF NodeInv, TypeOK, DevicesTyped
<1>2. DevicesTyped' /\ StatesGood' /\ StatesKnown' /\ StillLive /\ Grown
  BY <1>1, NothingSaved
<1>3. ASSUME NEW y \in calls'
      PROVE  y \in Call /\ CallLive(y)' /\ CallKnown(y)'
  <2>1. y \in Call /\ CallLive(y) /\ CallKnown(y)
    BY <1>1 DEF CallsLive, CallsKnown
  <2> QED
    BY <1>2, <2>1, CallStaysLive, CallStaysKnown
<1>4. CallsLive' /\ CallsKnown' /\ calls' \subseteq Call
  BY <1>3 DEF CallsLive, CallsKnown
<1>5. TicketsFresh'
  BY <1>1, TicketsStay
<1>6. TypeOK'
  BY <1>2, <1>4 DEF NodeInv, TypeOK, SpentTyped, DevicesTyped
<1> QED
  BY <1>2, <1>4, <1>5, <1>6 DEF NodeInv

\* The reply says what the answering device goes by.
LEMMA ReplyStep ==
  ASSUME NodeInv, NEW c \in calls, Reply(c)
  PROVE  NodeInv'
<1> DEFINE mesh == mem[c.to].mesh
           x == [c EXCEPT !.phase = "answered", !.mesh = mesh]
<1>1. /\ DevicesTyped /\ StatesKnown /\ c \in Call
      /\ InMesh(c.from) /\ InMesh(c.to) /\ c.from \in Node /\ c.to \in Node
  BY DEF NodeInv, TypeOK, DevicesTyped, CallsLive, CallLive, Reply, Call
<1>2. mem[c.to] \in State /\ Known(mem[c.to].mesh, {c.to})
  BY <1>1 DEF DevicesTyped, StatesKnown, Copies, InMesh, Running, Enrolled
<1>3. mesh \in Mesh /\ Known(mesh, {})
  BY <1>1, <1>2, OwnKnown DEF InMesh
<1>4. /\ calls' = (calls \ {c}) \cup {x}
      /\ UNCHANGED <<disk, mem, pending, owner, expired, redeemed, spent, created, left>>
  BY DEF Reply, history
<1> HIDE DEF mesh
<1>5. x \in Call /\ x.phase = "answered" /\ x.mesh = mesh /\ x.from = c.from
  BY <1>1, <1>3 DEF Call
<1> HIDE DEF x
<1>6. CallLive(x) /\ CallKnown(x)
  BY <1>1, <1>3, <1>5, MeshNodeAssumption DEF CallLive, CallKnown, Invited
<1>7. SpentTyped'
  BY <1>4 DEF NodeInv, TypeOK, SpentTyped
<1> QED
  BY <1>4, <1>5, <1>6, <1>7, ReplaceStep

\* A request nobody waits for any more says what it said.
LEMMA TimeoutStep ==
  ASSUME NodeInv, NEW c \in calls, Timeout(c)
  PROVE  NodeInv'
<1> DEFINE x == [c EXCEPT !.waiting = FALSE]
<1>1. c \in Call /\ CallLive(c) /\ CallKnown(c) /\ c.phase = "sent"
  BY DEF NodeInv, TypeOK, CallsLive, CallsKnown, Timeout
<1>2. /\ calls' = (calls \ {c}) \cup {x}
      /\ UNCHANGED <<disk, mem, pending, owner, expired, redeemed, created, left>>
  BY DEF Timeout, history
<1>3. /\ x \in Call /\ x.phase = c.phase /\ x.mesh = c.mesh /\ x.kind = c.kind
      /\ x.to = c.to /\ ~x.waiting
  BY <1>1 DEF Call
<1> HIDE DEF x
<1>4. CallLive(x) /\ CallKnown(x)
  BY <1>1, <1>3 DEF CallLive, CallKnown, Invited
<1>5. SpentTyped'
  BY MeshNodeAssumption DEF NodeInv, TypeOK, SpentTyped, Timeout
<1> QED
  BY <1>2, <1>3, <1>4, <1>5, ReplaceStep

-----------------------------------------------------------------------------
(* The theorems *)

\* Before anything happened there is nothing to know.
LEMMA InitHolds ==
  ASSUME Init
  PROVE  NodeInv
<1>1. \A n \in Node : disk[n] = NoMesh /\ mem[n] = None
  BY DEF Init
<1>2. /\ NoMesh \in State /\ NoMesh.mesh = None /\ NoMesh.order = << >>
      /\ Kept(NoMesh) = {}
  BY DEF State, NoMesh, Kept
<1>3. DOMAIN << >> = {} /\ Range(<< >>) = {} /\ IsFiniteSet({}) /\ Cardinality({}) = 0
  BY FS_EmptySet DEF Range
<1>4. DevicesTyped
  BY <1>2 DEF Init, DevicesTyped
<1>5. \A n \in Node : Good(n, NoMesh)
  BY <1>2, <1>3, MeshNodeAssumption DEF Good, Readable, Enrolled
<1>6. StatesGood
  BY <1>1, <1>5 DEF StatesGood, Running
<1>7. Copies(NoMesh) = {}
  BY <1>2, <1>3 DEF Copies
<1>8. StatesKnown
  BY <1>1, <1>7 DEF StatesKnown, Running
<1>9. CallsLive /\ CallsKnown /\ TicketsFresh
  BY DEF Init, CallsLive, CallsKnown, TicketsFresh
<1>10. TypeOK
  BY <1>4, MeshNodeAssumption DEF Init, TypeOK, SpentTyped, DevicesTyped
<1> QED
  BY <1>6, <1>8, <1>9, <1>10 DEF NodeInv

\* Every step keeps the invariant.
LEMMA NextKeeps ==
  ASSUME NodeInv, Next
  PROVE  NodeInv'
<1>1. ASSUME NEW n \in Node, NEW id \in RandomMeshId, NEW name \in MeshName,
             NEW outcome \in Outcome,
             CreateMesh(n, id, name, outcome) \/ NewMesh(n, id, name, outcome)
      PROVE  NodeInv'
  BY <1>1, FoundStep
<1>2. ASSUME NEW n \in Node, NEW outcome \in Outcome, LeaveMesh(n, outcome)
      PROVE  NodeInv'
  BY <1>2, LeaveStep
<1>3. ASSUME NEW n \in Node, Bind(n) \/ Stop(n)
      PROVE  NodeInv'
  BY <1>3, BindStep, StopStep
<1>4. ASSUME NEW n \in Node, NEW s \in Secret, Pair(n, s) \/ Add(n, s)
      PROVE  NodeInv'
  BY <1>4, PairStep, AddStep
<1>5. ASSUME NEW n \in Node, NEW p \in Node, Gossip(n, p)
      PROVE  NodeInv'
  BY <1>5, GossipStep
<1>6. ASSUME NEW s \in Secret, Expire(s)
      PROVE  NodeInv'
  BY <1>6, ExpireStep
<1>7. ASSUME NEW c \in calls, Deliver(c)
      PROVE  NodeInv'
  BY <1>7, EnrollStep, AnswerStep, DropStep DEF Deliver
<1>8. ASSUME NEW c \in calls, NEW outcome \in Outcome, Finish(c, outcome)
      PROVE  NodeInv'
  BY <1>8, FinishStep
<1>9. ASSUME NEW c \in calls, Reply(c) \/ Lose(c) \/ Timeout(c)
      PROVE  NodeInv'
  BY <1>9, ReplyStep, DropStep, TimeoutStep
<1> QED
  BY <1>1, <1>2, <1>3, <1>4, <1>5, <1>6, <1>7, <1>8, <1>9 DEF Next

\* Nothing changes in a step of something else.
LEMMA StutterKeeps ==
  ASSUME NodeInv, UNCHANGED vars
  PROVE  NodeInv'
<1>1. /\ DevicesTyped /\ StatesGood /\ StatesKnown
      /\ TicketsFresh /\ CallsLive /\ CallsKnown /\ calls \subseteq Call
  BY DEF NodeInv, TypeOK, DevicesTyped
<1>2. UNCHANGED <<disk, mem, pending, owner, expired, calls, created, left,
                  redeemed, spent>>
  BY DEF vars
<1>3. DevicesTyped' /\ StatesGood' /\ StatesKnown' /\ StillLive /\ Grown
  BY <1>1, <1>2, NothingSaved
<1>4. CallsLive' /\ CallsKnown' /\ TicketsFresh'
  BY <1>1, <1>2, <1>3, CallsStay, TicketsStay
<1>5. TypeOK'
  BY <1>2, <1>3 DEF NodeInv, TypeOK, SpentTyped, DevicesTyped
<1> QED
  BY <1>3, <1>4, <1>5 DEF NodeInv

\* The inductive invariant holds throughout (rust/crates/node/src/network.rs,
\* lib.rs, storage.rs).
THEOREM NodeInvariant == Spec => []NodeInv
<1>1. Init => NodeInv
  BY InitHolds
<1>2. NodeInv /\ [Next]_vars => NodeInv'
  BY NextKeeps, StutterKeeps
<1> QED
  BY <1>1, <1>2, PTL DEF Spec

\* Every variable of the devices and their requests keeps its type.
THEOREM NodeTypes == Spec => []TypeOK
<1>1. NodeInv => TypeOK
  BY DEF NodeInv
<1> QED
  BY <1>1, NodeInvariant, PTL

\* Whatever was saved, by any operation and however the save ended, passes
\* every check of Storage::read, so the device can be started again
\* (storage.rs:156).
THEOREM NodeReopens == Spec => []SavedStateReopens
<1>1. NodeInv => SavedStateReopens
  BY DEF NodeInv, StatesGood, Good, SavedStateReopens
<1> QED
  BY <1>1, NodeInvariant, PTL

\* What a running device shows is in its file, so a crash takes nothing of it
\* back: a save that fails leaves memory behind the file, never ahead of it
\* (network.rs:115).
THEOREM NodeShowsWhatIsSaved == Spec => []ShownIsDurable
<1>1. NodeInv => ShownIsDurable
  BY DEF NodeInv, StatesGood, Extends, ShownIsDurable
<1> QED
  BY <1>1, NodeInvariant, PTL

\* A ticket enrols its device at most once, however the requests that carry
\* it are repeated or delayed (network.rs:200).
THEOREM TicketsEnrolOnce == Spec => []TicketRedeemedOnce
<1>1. NodeInv => TicketRedeemedOnce
  BY DEF NodeInv, TicketsFresh, TicketRedeemedOnce
<1> QED
  BY <1>1, NodeInvariant, PTL

\* Whoever lists a device as a member, the device has saved that it is one,
\* or has left since (network.rs:199, lib.rs:289).
THEOREM ListedHaveJoined == Spec => []ListedDevicesJoined
<1>1. ASSUME NodeInv  PROVE ListedDevicesJoined
  <2>1. DevicesTyped /\ StatesGood /\ StatesKnown
    BY <1>1 DEF NodeInv, TypeOK, DevicesTyped
  <2> SUFFICES ASSUME NEW n \in Node, NEW state \in {disk[n], mem[n]} \ {None},
                      Enrolled(state), NEW d \in MemberIds(state.mesh)
               PROVE  LET id == state.mesh.identity.id
                      IN  \/ Enrolled(disk[d]) /\ disk[d].mesh.identity.id = id
                          \/ <<d, id, LatestAdmission(state.mesh, d).generation>> \in left
    BY DEF ListedDevicesJoined
  <2> DEFINE id == state.mesh.identity.id
             g == LatestAdmission(state.mesh, d).generation
  <2>2. state \in State /\ state.mesh \in Mesh /\ Known(state.mesh, {n})
    <3>1. state \in State /\ \A m \in Copies(state) : Known(m, {n})
      BY <2>1 DEF DevicesTyped, StatesKnown, Running
    <3> QED
      BY <3>1, StateFacts DEF Copies, Enrolled
  <2>3. LatestAdmission(state.mesh, d) \in AdmissionsOf(state.mesh, d)
    BY <2>2, MemberIsLatest DEF IsMember
  <2>4. d \in Node
    BY <2>2, Generations DEF MemberIds, CurrentAdmissions
  <2>5. Running(d) /\ Enrolled(mem[d]) =>
          Enrolled(disk[d]) /\ disk[d].mesh.identity = mem[d].mesh.identity
    BY <2>1, <2>4 DEF StatesGood, Extends
  <2>6. CASE d = n
    <3>1. state = disk[d] \/ (Running(d) /\ state = mem[d])
      BY <2>6 DEF Running
    <3> QED
      BY <2>5, <3>1
  <2>7. CASE d # n
    <3>1. Joined(d, id, g)
      BY <2>2, <2>3, <2>7 DEF Known, AdmissionsOf
    <3>2. CASE Listed(Shown(d), d, id, g)
      BY <2>5, <3>2 DEF Listed, Shown
    <3> QED
      BY <3>1, <3>2 DEF Joined
  <2> QED
    BY <2>6, <2>7
<1> QED
  BY <1>1, NodeInvariant, PTL

\* A running device in no mesh comes into a mesh of others only by consuming
\* a ticket it has outstanding: of the steps that merge, an exchange is
\* answered only by a device that is in a mesh, and who finishes a request of
\* its own is in one since it asked (network.rs:272).
THEOREM DevicesJoinByInvitation == Spec => JoinsByInvitation
<1> DEFINE Joins(n) ==
      /\ Running(n) /\ ~Enrolled(mem[n])
      /\ mem'[n] # None /\ Enrolled(mem'[n])
      /\ mem'[n].mesh.identity.id \in created
      => pending[n] # None /\ pending'[n] = None
<1>1. ASSUME NodeInv, [Next]_vars, NEW n \in Node, Running(n), ~Enrolled(mem[n]),
             mem'[n] # None, Enrolled(mem'[n]), mem'[n].mesh.identity.id \in created
      PROVE  pending[n] # None /\ pending'[n] = None
  <2>1. /\ mem \in [Node -> State \cup {None}] /\ calls \subseteq Call
        /\ pending \in [Node -> Secret \cup {None}]
    BY <1>1 DEF NodeInv, TypeOK
  <2>2. mem'[n] # mem[n]
    BY <1>1
  <2>3. ~ UNCHANGED mem
    BY <2>2
  <2>4. ASSUME NEW d \in Node, NEW id \in RandomMeshId, NEW name \in MeshName,
               NEW outcome \in Outcome, NewMesh(d, id, name, outcome)
        PROVE  FALSE
    <3>1. id \notin created /\ Running(d)
          /\ mem' \in {mem, [mem EXCEPT ![d] = FoundedState(d, mem[d], id, name)]}
      BY <2>4, SaveSteps DEF NewMesh, FoundedState
    <3>2. d = n /\ mem'[n] = FoundedState(d, mem[d], id, name)
      BY <2>1, <2>2, <3>1
    <3>3. Good(n, mem[n]) /\ \A m \in Copies(mem[n]) : Known(m, {n})
      BY <1>1 DEF NodeInv, StatesGood, StatesKnown
    <3>4. id \notin Kept(mem[n])
      BY <3>1, <3>3 DEF Good, Readable, Copies, Known
    <3>5. mem'[n].mesh = Founding(NewIdentity(n, id, name), Self(n))
      BY <1>1, <3>2, <3>3, <3>4, FoundedGood
    <3>6. Founding(NewIdentity(n, id, name), Self(n)).identity.id = id
      BY FoundingRecord DEF NewIdentity
    <3> QED
      BY <1>1, <3>1, <3>5, <3>6
  <2>5. ASSUME NEW c \in calls, NEW outcome \in Outcome, Enroll(c, outcome)
        PROVE  pending[n] # None /\ pending'[n] = None
    <3>1. c.phase = "sent" /\ Running(c.to) /\ pending[c.to] # None
          /\ Accepts(c.to, mem[c.to], c.mesh, c.from)
          /\ MergeAndSave(c.to, c.mesh, outcome) /\ UNCHANGED <<created, left>>
      BY <2>5 DEF Enroll, AdmissiblePair, history
    <3>2. c.to \in Node /\ c.mesh \in Mesh /\ Known(c.mesh, {c.to})
      BY <1>1, <3>1, SentFacts
    <3>3. /\ outcome # "saved" => mem' = mem
          /\ \A d \in Node : d # c.to => mem'[d] = mem[d]
      BY <1>1, <3>1, <3>2, MergeStep
    <3>4. c.to = n /\ outcome = "saved"
      BY <2>2, <2>3, <3>3
    <3>5. pending' = [pending EXCEPT ![c.to] = None]
      BY <2>5, <3>4 DEF Enroll
    <3> QED
      BY <2>1, <3>1, <3>4, <3>5
  <2>6. ASSUME NEW c \in calls, NEW outcome \in Outcome, AnswerSync(c, outcome)
        PROVE  FALSE
    <3>1. c.phase = "sent" /\ Running(c.to) /\ Enrolled(mem[c.to])
          /\ Accepts(c.to, mem[c.to], c.mesh, c.from)
          /\ MergeAndSave(c.to, c.mesh, outcome) /\ UNCHANGED <<created, left>>
      BY <2>6 DEF AnswerSync, AnswersSync, history
    <3>2. c.to \in Node /\ c.mesh \in Mesh /\ Known(c.mesh, {c.to})
      BY <1>1, <3>1, SentFacts
    <3>3. \A d \in Node : d # c.to => mem'[d] = mem[d]
      BY <1>1, <3>1, <3>2, MergeStep
    <3> QED
      BY <1>1, <2>2, <3>1, <3>3
  <2>7. ASSUME NEW c \in calls, NEW outcome \in Outcome, Finish(c, outcome)
        PROVE  FALSE
    <3>1. c.phase = "answered" /\ UNCHANGED <<created, left>>
          /\ IF AcceptsReply(c) THEN MergeAndSave(c.from, c.mesh, outcome)
             ELSE UNCHANGED mem
      BY <2>7 DEF Finish, history
    <3>2. c.from \in Node /\ c.mesh \in Mesh /\ InMesh(c.from) /\ Known(c.mesh, {c.from})
      BY <1>1, <3>1, SentFacts
    <3>3. /\ Accepts(c.from, mem[c.from], c.mesh, c.to)
          /\ MergeAndSave(c.from, c.mesh, outcome)
      BY <2>3, <3>1 DEF AcceptsReply
    <3>4. \A d \in Node : d # c.from => mem'[d] = mem[d]
      BY <1>1, <3>1, <3>2, <3>3, MergeStep DEF InMesh
    <3> QED
      BY <1>1, <2>2, <3>2, <3>4 DEF InMesh
  <2>8. ASSUME NEW d \in Node, Bind(d) \/ Stop(d)
        PROVE  FALSE
    BY <1>1, <2>1, <2>2, <2>8 DEF Bind, Stop, Running
  <2>9. ASSUME NEW d \in Node, NEW id \in RandomMeshId, NEW name \in MeshName,
               NEW outcome \in Outcome,
               CreateMesh(d, id, name, outcome)
        PROVE  FALSE
    BY <2>3, <2>9 DEF CreateMesh, offline
  <2>10. ASSUME NEW d \in Node, NEW outcome \in Outcome, LeaveMesh(d, outcome)
         PROVE  FALSE
    BY <2>3, <2>10 DEF LeaveMesh, offline
  <2>11. ASSUME NEW d \in Node, NEW s \in Secret, Pair(d, s) \/ Add(d, s)
         PROVE  FALSE
    BY <2>3, <2>11 DEF Pair, Add
  <2>12. ASSUME NEW d \in Node, NEW p \in Node, Gossip(d, p)
         PROVE  FALSE
    BY <2>3, <2>12 DEF Gossip
  <2>13. ASSUME NEW s \in Secret, Expire(s)
         PROVE  FALSE
    BY <2>3, <2>13 DEF Expire
  <2>14. ASSUME NEW c \in calls, Refuse(c) \/ Reply(c) \/ Lose(c) \/ Timeout(c)
         PROVE  FALSE
    BY <2>3, <2>14 DEF Refuse, Reply, Lose, Timeout
  <2>15. Next
    BY <1>1, <2>3 DEF vars
  <2>16. \E c \in calls, outcome \in Outcome : Enroll(c, outcome)
    <3>1. ~ \E d \in Node : Bind(d) \/ Stop(d)
      BY <2>8
    <3>2. ~ \E d \in Node, id \in RandomMeshId, name \in MeshName, outcome \in Outcome :
              CreateMesh(d, id, name, outcome) \/ NewMesh(d, id, name, outcome)
      BY <2>4, <2>9
    <3>3. ~ \E d \in Node, outcome \in Outcome : LeaveMesh(d, outcome)
      BY <2>10
    <3>4. ~ \E d \in Node, s \in Secret : Pair(d, s) \/ Add(d, s)
      BY <2>11
    <3>5. ~ \E d \in Node, p \in Node : Gossip(d, p)
      BY <2>12
    <3>6. ~ \E s \in Secret : Expire(s)
      BY <2>13
    <3>7. ~ \E c \in calls, outcome \in Outcome :
              AnswerSync(c, outcome) \/ Finish(c, outcome)
      BY <2>6, <2>7
    <3>8. ~ \E c \in calls : Refuse(c) \/ Reply(c) \/ Lose(c) \/ Timeout(c)
      BY <2>14
    <3> QED
      BY <2>15, <3>1, <3>2, <3>3, <3>4, <3>5, <3>6, <3>7, <3>8 DEF Next, Deliver
  <2> QED
    BY <2>5, <2>16
<1>2. NodeInv /\ [Next]_vars => \A n \in Node : Joins(n)
  BY <1>1
<1> QED
  BY <1>2, NodeInvariant, PTL DEF JoinsByInvitation, Spec
=============================================================================
