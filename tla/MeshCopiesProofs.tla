--------------------------- MODULE MeshCopiesProofs ---------------------------
(* Theorems about the membership log, for any number of devices, copies,     *)
(* nicknames and any limits.  Every copy verifies (MeshCopies); the signed   *)
(* records implement the standings (MeshCopies refines Standing), and two    *)
(* consequences of the same facts about generations follow: a merge never    *)
(* brings back a device that left, and copies that merged each other list    *)
(* the same members.  At the end: the loop of verify computes the least set  *)
(* that all of these speak of (TrustLoop).                                   *)
EXTENDS MeshCopies, TrustLoop, MembershipProofs, SequenceTheorems

\* The inductive invariant.  Admitting and leaving need the copy to verify
\* already (the issuer must be trusted, the departures must match), so the
\* two parts are carried together.
Inv == TypeOK /\ AllVerify

-----------------------------------------------------------------------------

\* The copies a program starts from verify: each is a founding mesh.
LEMMA InitInv == Init => Inv
<1> SUFFICES ASSUME Init PROVE Inv
  OBVIOUS
<1>1. ASSUME NEW c \in Copy
      PROVE  copies[c] \in Mesh /\ Verify(copies[c])
  <2>1. PICK i \in Identity, member \in Member : copies[c] = Founding(i, member)
    BY DEF Init
  <2> DEFINE root == [member |-> member, issuer |-> member.id,
                      generation |-> 0, sealed |-> i]
  <2>2. copies[c].identity = i /\ copies[c].admissions = {root}
    BY <2>1, FoundingRecord
  <2>3. WellFormed(i) /\ member.id = FounderOf(i)
    <3>1. WellFormed(copies[c].identity)
      BY DEF Init
    <3>2. \A a \in copies[c].admissions : a.issuer = FounderOf(copies[c].identity)
      BY DEF Init
    <3>3. root.issuer = FounderOf(i)
      BY <2>2, <3>2
    <3> QED BY <2>2, <3>1, <3>3
  <2> QED BY <2>1, <2>3, FoundingType, FoundingVerifies
<1>2. copies \in [Copy -> Mesh]
  <2>1. copies = [c \in Copy |-> copies[c]]
    BY DEF Init
  <2> QED BY <1>1, <2>1
<1> QED BY <1>1, <1>2 DEF Inv, TypeOK, AllVerify

\* Each of the three operations keeps every copy typed and verifiable.
LEMMA NextInv == Inv /\ [Next]_copies => Inv'
<1> SUFFICES ASSUME Inv, [Next]_copies PROVE Inv'
  OBVIOUS
<1> USE DEF Inv, TypeOK, AllVerify
<1>1. ASSUME NEW c \in Copy, NEW key \in Node, NEW member \in Member,
             AdmitDevice(c, key, member)
      PROVE  Inv'
  <2>1. Admit(copies[c], member, key) \in Mesh
    BY <1>1, AdmitType DEF AdmitDevice
  <2>2. Verify(Admit(copies[c], member, key))
    BY <1>1, AdmitVerifies DEF AdmitDevice
  <2> QED BY <1>1, <2>1, <2>2 DEF AdmitDevice
<1>2. ASSUME NEW c \in Copy, NEW key \in Node, DepartDevice(c, key)
      PROVE  Inv'
  <2>1. Depart(copies[c], key) \in Mesh
    BY <1>2, DepartType DEF DepartDevice
  <2>2. Verify(Depart(copies[c], key))
    BY <1>2, DepartVerifies DEF DepartDevice
  <2> QED BY <1>2, <2>1, <2>2 DEF DepartDevice
<1>3. ASSUME NEW c \in Copy, NEW d \in Copy, MergeCopy(c, d)
      PROVE  Inv'
  <2>1. Merged(copies[c], copies[d]) \in Mesh
    BY MergedType
  <2>2. Verify(Merged(copies[c], copies[d]))
    BY <1>3 DEF MergeCopy, Mergeable
  <2> QED BY <1>3, <2>1, <2>2 DEF MergeCopy
<1>4. CASE UNCHANGED copies
  BY <1>4
<1> QED BY <1>1, <1>2, <1>3, <1>4 DEF Next

\* Inv holds in every state: the base of the theorems below.
THEOREM Invariance == Spec => []Inv
<1> QED BY InitInv, NextInv, PTL DEF Spec

\* Whatever admissions, departures and merges are applied to the copies of
\* any meshes, in any order: the records keep the source's types, the number
\* of admissions stays finite and generations stay within u32.
THEOREM TypeCorrect == Spec => []TypeOK
<1>1. Inv => TypeOK
  BY DEF Inv
<1> QED BY Invariance, <1>1, PTL

\* Every copy always passes Mesh::verify, although admit and depart do not
\* call it: what a node saves opens again and what it sends is accepted.
THEOREM CopiesVerify == Spec => []AllVerify
<1>1. Inv => AllVerify
  BY DEF Inv
<1> QED BY Invariance, <1>1, PTL

\* Independent histories of one mesh are always compatible: a merge fails
\* only for a nickname given twice to one admission or for the limit.
THEOREM MergeOnlyBlockedByLimits == Spec => []MergeBlockedOnlyByLimits
<1>1. Inv => MergeBlockedOnlyByLimits
  <2> SUFFICES ASSUME Inv, NEW c \in Copy, NEW d \in Copy,
                      SameIdentity(copies[c], copies[d])
               PROVE  \/ Mergeable(copies[c], copies[d])
                      \/ NameConflict(copies[c], copies[d])
                      \/ Cardinality(Merged(copies[c], copies[d]).admissions)
                           > MaxAdmissions
    BY DEF MergeBlockedOnlyByLimits
  <2> DEFINE n == Cardinality(Merged(copies[c], copies[d]).admissions)
  <2>1. copies[c] \in Mesh /\ copies[d] \in Mesh
    BY DEF Inv, TypeOK
  <2>2. n \in Nat
    BY <2>1, MergedType, FS_CardinalityType DEF Mesh
  <2>3. CASE n <= MaxAdmissions
    BY <2>1, <2>3, MergedVerifies DEF Mergeable, Inv, AllVerify
  <2>4. CASE ~(n <= MaxAdmissions)
    BY <2>2, <2>4, MembershipAssumption
  <2> QED BY <2>3, <2>4
<1> QED BY Invariance, <1>1, PTL

\* The union of two copies has a record for every key of either ...
LEMMA MergedKeys ==
  ASSUME NEW mesh \in Mesh, NEW other \in Mesh,
         NEW a \in mesh.admissions \cup other.admissions
  PROVE  \E b \in Merged(mesh, other).admissions : Key(b) = Key(a)
BY DEF Merged, Mesh

\* ... and only one: it is no larger than any set with all of these keys.
LEMMA MergedFits ==
  ASSUME NEW mesh \in Mesh, NEW other \in Mesh, UniqueKeys(mesh), UniqueKeys(other),
         NEW S, IsFiniteSet(S),
         \A a \in mesh.admissions \cup other.admissions : \E b \in S : Key(b) = Key(a)
  PROVE  Cardinality(Merged(mesh, other).admissions) <= Cardinality(S)
<1> DEFINE A == Merged(mesh, other).admissions
           f == [a \in A |-> CHOOSE b \in S : Key(b) = Key(a)]
<1>1. A \subseteq mesh.admissions \cup other.admissions
  BY DEF Merged, Mesh
<1>2. \A a, b \in A : Key(a) = Key(b) => a = b
  BY DEF Merged, UniqueKeys, Mesh
<1>3. \A a \in A : f[a] \in S /\ Key(f[a]) = Key(a)
  BY <1>1
<1>4. f \in [A -> S]
  BY <1>3
<1> HIDE DEF A, f
<1>5. f \in Injection(A, S)
  BY <1>2, <1>3, <1>4 DEF Injection, IsInjective
<1> QED BY <1>5, FS_Injection DEF A

\* The union is as large from either side: one copy takes over the other when
\* the other takes over it.
LEMMA MergesAreMutual ==
  ASSUME NEW mesh \in Mesh, Verify(mesh), NEW other \in Mesh, Verify(other),
         Mergeable(mesh, other)
  PROVE  Mergeable(other, mesh)
<1> DEFINE mo == Merged(mesh, other)
           om == Merged(other, mesh)
<1>1. SameIdentity(other, mesh) /\ ~NameConflict(other, mesh)
  BY DEF Mergeable, SameIdentity, NameConflict
<1>2. mo \in Mesh /\ om \in Mesh
  BY MergedType
<1>3. IsFiniteSet(mo.admissions) /\ IsFiniteSet(om.admissions)
  BY <1>2 DEF Mesh
<1>4. Cardinality(om.admissions) <= Cardinality(mo.admissions)
  <2>1. UniqueKeys(mesh) /\ UniqueKeys(other)
    BY DEF Verify
  <2>2. \A a \in other.admissions \cup mesh.admissions :
          \E b \in mo.admissions : Key(b) = Key(a)
    BY MergedKeys
  <2> QED BY <1>3, <2>1, <2>2, MergedFits
<1>5. Cardinality(mo.admissions) <= MaxAdmissions
  BY DEF Mergeable, Verify, Sized
<1>6. /\ Cardinality(mo.admissions) \in Nat /\ Cardinality(om.admissions) \in Nat
      /\ MaxAdmissions \in Nat
  BY <1>3, FS_CardinalityType, MembershipAssumption
<1>7. Cardinality(om.admissions) <= MaxAdmissions
  BY <1>4, <1>5, <1>6
<1>8. Verify(om)
  BY <1>1, <1>7, MergedVerifies
<1> QED BY <1>1, <1>8 DEF Mergeable

\* No step takes an admission from a copy.
LEMMA CopiesGrow ==
  ASSUME Inv, [Next]_copies, NEW q \in Copy
  PROVE  /\ copies'[q].identity = copies[q].identity
         /\ copies[q].admissions \subseteq copies'[q].admissions
<1>1. copies \in [Copy -> Mesh]
  BY DEF Inv, TypeOK
<1>2. ASSUME NEW c \in Copy, NEW mesh, copies' = [copies EXCEPT ![c] = mesh],
             mesh.identity = copies[c].identity,
             copies[c].admissions \subseteq mesh.admissions
      PROVE  /\ copies'[q].identity = copies[q].identity
             /\ copies[q].admissions \subseteq copies'[q].admissions
  BY <1>1, <1>2
<1>3. ASSUME NEW c \in Copy, NEW key \in Node, NEW member \in Member,
             AdmitDevice(c, key, member)
      PROVE  /\ copies'[q].identity = copies[q].identity
             /\ copies[q].admissions \subseteq copies'[q].admissions
  <2> DEFINE mesh == Admit(copies[c], member, key)
  <2>1. mesh.identity = copies[c].identity /\ copies[c].admissions \subseteq mesh.admissions
    BY <1>1 DEF Admit, Mesh
  <2>2. copies' = [copies EXCEPT ![c] = mesh]
    BY <1>3 DEF AdmitDevice
  <2> QED BY <1>2, <2>1, <2>2
<1>4. ASSUME NEW c \in Copy, NEW key \in Node, DepartDevice(c, key)
      PROVE  /\ copies'[q].identity = copies[q].identity
             /\ copies[q].admissions \subseteq copies'[q].admissions
  <2> DEFINE mesh == Depart(copies[c], key)
  <2>1. mesh.identity = copies[c].identity /\ copies[c].admissions \subseteq mesh.admissions
    BY <1>1 DEF Depart, Mesh
  <2>2. copies' = [copies EXCEPT ![c] = mesh]
    BY <1>4 DEF DepartDevice
  <2> QED BY <1>2, <2>1, <2>2
<1>5. ASSUME NEW c \in Copy, NEW d \in Copy, MergeCopy(c, d)
      PROVE  /\ copies'[q].identity = copies[q].identity
             /\ copies[q].admissions \subseteq copies'[q].admissions
  <2> DEFINE mesh == Merged(copies[c], copies[d])
  <2>1. mesh.identity = copies[c].identity /\ copies[c].admissions \subseteq mesh.admissions
    BY <1>1 DEF Merged, Mesh
  <2>2. copies' = [copies EXCEPT ![c] = mesh]
    BY <1>5 DEF MergeCopy
  <2> QED BY <1>2, <2>1, <2>2
<1>6. CASE UNCHANGED copies
  BY <1>6
<1> QED BY <1>3, <1>4, <1>5, <1>6 DEF Next

\* A conflict of two copies is one for both, and is never resolved by what
\* happens to them later: their records, and with them the union, only grow
\* (membership.rs:335).
THEOREM ConflictsStay == Spec => ConflictsAreFinal
<1>1. ASSUME Inv, Inv', [Next]_copies, NEW c \in Copy, NEW d \in Copy,
             SameIdentity(copies[c], copies[d]), Mergeable(copies'[c], copies'[d])
      PROVE  Mergeable(copies[c], copies[d])
  <2> DEFINE old == Merged(copies[c], copies[d])
             new == Merged(copies'[c], copies'[d])
  <2>1. /\ copies[c] \in Mesh /\ Verify(copies[c]) /\ copies'[c] \in Mesh
        /\ copies[d] \in Mesh /\ Verify(copies[d]) /\ copies'[d] \in Mesh
    BY <1>1 DEF Inv, TypeOK, AllVerify
  <2>2. /\ copies[c].admissions \subseteq copies'[c].admissions
        /\ copies[d].admissions \subseteq copies'[d].admissions
    BY <1>1, CopiesGrow
  <2>3. ~NameConflict(copies[c], copies[d])
    BY <1>1, <2>2 DEF Mergeable, NameConflict
  <2>4. old \in Mesh /\ new \in Mesh
    BY <2>1, MergedType
  <2>5. IsFiniteSet(old.admissions) /\ IsFiniteSet(new.admissions)
    BY <2>4 DEF Mesh
  <2>6. Cardinality(old.admissions) <= Cardinality(new.admissions)
    <3>1. UniqueKeys(copies[c]) /\ UniqueKeys(copies[d])
      BY <2>1 DEF Verify
    <3>2. \A a \in copies[c].admissions \cup copies[d].admissions :
            \E b \in new.admissions : Key(b) = Key(a)
      BY <2>1, <2>2, MergedKeys
    <3> QED BY <2>1, <2>5, <3>1, <3>2, MergedFits
  <2>7. Cardinality(new.admissions) <= MaxAdmissions
    BY <1>1 DEF Mergeable, Verify, Sized
  <2>8. /\ Cardinality(old.admissions) \in Nat /\ Cardinality(new.admissions) \in Nat
        /\ MaxAdmissions \in Nat
    BY <2>5, FS_CardinalityType, MembershipAssumption
  <2>9. Cardinality(old.admissions) <= MaxAdmissions
    BY <2>6, <2>7, <2>8
  <2>10. Verify(old)
    BY <1>1, <2>1, <2>9, MergedVerifies
  <2> QED BY <1>1, <2>1, <2>3, <2>10 DEF Mergeable
<1>2. ASSUME Inv, Inv', [Next]_copies, NEW c \in Copy, NEW d \in Copy,
             SameIdentity(copies[c], copies[d]), Mergeable(copies'[d], copies'[c])
      PROVE  Mergeable(copies[c], copies[d])
  <2>1. /\ copies'[c] \in Mesh /\ Verify(copies'[c])
        /\ copies'[d] \in Mesh /\ Verify(copies'[d])
    BY <1>2 DEF Inv, TypeOK, AllVerify
  <2>2. Mergeable(copies'[c], copies'[d])
    BY <1>2, <2>1, MergesAreMutual
  <2> QED BY <1>1, <1>2, <2>2
<1>3. Inv /\ Inv' /\ [Next]_copies =>
        [\A c, d \in Copy :
           SameIdentity(copies[c], copies[d]) /\ ~Mergeable(copies[c], copies[d])
           => ~Mergeable(copies[c], copies[d])' /\ ~Mergeable(copies[d], copies[c])']_copies
  BY <1>1, <1>2
<1> QED BY Invariance, <1>3, PTL DEF Spec, ConflictsAreFinal

-----------------------------------------------------------------------------
(* A standing is the largest of the values its records reach: 2g + 1 for an  *)
(* admission and 2g + 2 for a departure of generation g.  All arguments below*)
(* are about the generations that were admitted and departed, whoever signed *)
(* the records.                                                              *)

Admitted(mesh, id, g) == \E a \in AdmissionsOf(mesh, id) : a.generation = g

\* An admission's generation is a number within u32.
LEMMA AdmittedGeneration ==
  ASSUME NEW mesh \in Mesh, NEW id, NEW g, Admitted(mesh, id, g)
  PROVE  g \in Generation /\ g \in Nat
BY MembershipAssumption DEF Admitted, AdmissionsOf, Mesh, Admission, Generation

\* In a mesh that verifies, a departure belongs to an admission on record.
LEMMA DepartedIsAdmitted ==
  ASSUME NEW mesh \in Mesh, Verify(mesh), NEW id, NEW g,
         DepartedGeneration(mesh, id, g)
  PROVE  Admitted(mesh, id, g)
<1>1. PICK d \in mesh.departures : DepartureKey(d) = <<id, g>>
  BY DEF DepartedGeneration
<1>2. PICK a \in mesh.admissions : Key(a) = <<id, g>>
  BY <1>1 DEF Verify, DeparturesMatch
<1>3. a.member.id = id /\ a.generation = g
  BY <1>2 DEF Key
<1> QED BY <1>3 DEF Admitted, AdmissionsOf

\* A standing is a natural number.
LEMMA StandingType ==
  ASSUME NEW mesh \in Mesh, NEW id
  PROVE  Standing(mesh, id) \in Nat
<1>1. CASE AdmissionsOf(mesh, id) = {}
  BY <1>1 DEF Standing
<1>2. CASE AdmissionsOf(mesh, id) # {}
  <2> DEFINE g == LatestAdmission(mesh, id).generation
  <2>1. Admitted(mesh, id, g)
    BY <1>2, LatestAdmissionIsLatest DEF Admitted
  <2>2. g \in Nat
    BY <2>1, AdmittedGeneration
  <2> HIDE DEF g
  <2>3. Standing(mesh, id) =
          IF DepartedGeneration(mesh, id, g) THEN 2 * g + 2 ELSE 2 * g + 1
    BY <1>2 DEF Standing, g
  <2> QED BY <2>2, <2>3
<1> QED BY <1>1, <1>2

\* No record reaches beyond the standing ...
LEMMA StandingIsUpperBound ==
  ASSUME NEW mesh \in Mesh, Verify(mesh), NEW id, NEW g
  PROVE  /\ Admitted(mesh, id, g) => 2 * g + 1 <= Standing(mesh, id)
         /\ DepartedGeneration(mesh, id, g) => 2 * g + 2 <= Standing(mesh, id)
<1>1. CASE ~Admitted(mesh, id, g)
  BY <1>1, DepartedIsAdmitted
<1>2. CASE Admitted(mesh, id, g)
  <2>1. PICK a \in AdmissionsOf(mesh, id) : a.generation = g
    BY <1>2 DEF Admitted
  <2> DEFINE latest == LatestAdmission(mesh, id)
             h == latest.generation
  <2>2. latest \in AdmissionsOf(mesh, id) /\ IsLatest(mesh, latest)
    BY <2>1, LatestAdmissionIsLatest
  <2>3. g <= h
    BY <2>1, <2>2 DEF IsLatest, AdmissionsOf
  <2>4. g \in Nat /\ h \in Nat
    BY <1>2, <2>2, AdmittedGeneration DEF Admitted
  <2>5. Standing(mesh, id) =
          IF DepartedGeneration(mesh, id, h) THEN 2 * h + 2 ELSE 2 * h + 1
    BY <2>1 DEF Standing
  <2> HIDE DEF h
  <2>6. CASE g = h
    BY <2>4, <2>5, <2>6
  <2>7. CASE g # h
    BY <2>3, <2>4, <2>5, <2>7
  <2> QED BY <2>6, <2>7
<1> QED BY <1>1, <1>2

\* ... and some record reaches it.
LEMMA StandingIsReached ==
  ASSUME NEW mesh \in Mesh, NEW id
  PROVE  \/ Standing(mesh, id) = 0 /\ \A g : ~Admitted(mesh, id, g)
         \/ \E g \in Nat : /\ Admitted(mesh, id, g)
                           /\ ~DepartedGeneration(mesh, id, g)
                           /\ Standing(mesh, id) = 2 * g + 1
         \/ \E g \in Nat : /\ Admitted(mesh, id, g)
                           /\ DepartedGeneration(mesh, id, g)
                           /\ Standing(mesh, id) = 2 * g + 2
<1>1. CASE AdmissionsOf(mesh, id) = {}
  BY <1>1 DEF Standing, Admitted
<1>2. CASE AdmissionsOf(mesh, id) # {}
  <2> DEFINE g == LatestAdmission(mesh, id).generation
  <2>1. Admitted(mesh, id, g)
    BY <1>2, LatestAdmissionIsLatest DEF Admitted
  <2>2. g \in Nat
    BY <2>1, AdmittedGeneration
  <2>3. Standing(mesh, id) =
          IF DepartedGeneration(mesh, id, g) THEN 2 * g + 2 ELSE 2 * g + 1
    BY <1>2 DEF Standing
  <2> QED BY <2>1, <2>2, <2>3
<1> QED BY <1>1, <1>2

\* A mesh that knows everything another knows of a device has no smaller
\* standing for it.
LEMMA StandingGrows ==
  ASSUME NEW mesh \in Mesh, NEW larger \in Mesh, Verify(larger), NEW id,
         \A g : Admitted(mesh, id, g) => Admitted(larger, id, g),
         \A g : DepartedGeneration(mesh, id, g) => DepartedGeneration(larger, id, g)
  PROVE  Standing(mesh, id) <= Standing(larger, id)
<1>1. Standing(larger, id) \in Nat
  BY StandingType
<1>2. CASE Standing(mesh, id) = 0
  BY <1>1, <1>2
<1>3. CASE \E g \in Nat : Admitted(mesh, id, g) /\ Standing(mesh, id) = 2 * g + 1
  BY <1>3, StandingIsUpperBound
<1>4. CASE \E g \in Nat : /\ DepartedGeneration(mesh, id, g)
                          /\ Standing(mesh, id) = 2 * g + 2
  BY <1>4, StandingIsUpperBound
<1> QED BY <1>2, <1>3, <1>4, StandingIsReached

\* The members are the devices with an odd standing.
LEMMA MemberStanding ==
  ASSUME NEW mesh \in Mesh, NEW id
  PROVE  /\ IsMember(mesh, id) =>
              /\ LatestAdmission(mesh, id).generation \in Nat
              /\ Standing(mesh, id) = 2 * LatestAdmission(mesh, id).generation + 1
         /\ ~IsMember(mesh, id) =>
              \/ AdmissionsOf(mesh, id) = {} /\ Standing(mesh, id) = 0
              \/ /\ AdmissionsOf(mesh, id) # {}
                 /\ LatestAdmission(mesh, id).generation \in Nat
                 /\ Standing(mesh, id) = 2 * LatestAdmission(mesh, id).generation + 2
<1>1. CASE AdmissionsOf(mesh, id) = {}
  <2>1. ~IsMember(mesh, id)
    BY <1>1, MemberIsLatest
  <2> QED BY <1>1, <2>1 DEF Standing
<1>2. CASE AdmissionsOf(mesh, id) # {}
  <2> DEFINE g == LatestAdmission(mesh, id).generation
  <2>1. Admitted(mesh, id, g)
    BY <1>2, LatestAdmissionIsLatest DEF Admitted
  <2>2. g \in Nat
    BY <2>1, AdmittedGeneration
  <2>3. Standing(mesh, id) =
          IF DepartedGeneration(mesh, id, g) THEN 2 * g + 2 ELSE 2 * g + 1
    BY <1>2 DEF Standing
  <2>4. CASE IsMember(mesh, id)
    <3>1. ~DepartedGeneration(mesh, id, g)
      BY <2>4, MemberIsLatest
    <3> QED BY <2>2, <2>3, <2>4, <3>1
  <2>5. CASE ~IsMember(mesh, id)
    <3>1. DepartedGeneration(mesh, id, g)
      BY <1>2, <2>5, NonMemberDeparted
    <3> QED BY <1>2, <2>2, <2>3, <2>5, <3>1
  <2> QED BY <2>4, <2>5
<1> QED BY <1>1, <1>2

-----------------------------------------------------------------------------
(* What each operation does to the standings *)

\* In a founding mesh the founder is a member and no one else is known.
LEMMA FoundingStanding ==
  ASSUME NEW identity \in Identity, NEW member \in Member, NEW id
  PROVE  Standing(Founding(identity, member), id) = IF id = member.id THEN 1 ELSE 0
<1> DEFINE a == [member |-> member, issuer |-> member.id, generation |-> 0,
                 sealed |-> identity]
           m == Founding(identity, member)
<1>1. m.admissions = {a} /\ m.departures = {}
  BY FoundingRecord
<1>2. m \in Mesh
  BY FoundingType
<1> HIDE DEF m
<1>3. CASE id # member.id
  <2>1. AdmissionsOf(m, id) = {}
    BY <1>1, <1>3 DEF AdmissionsOf
  <2> QED BY <1>3, <2>1 DEF Standing, m
<1>4. CASE id = member.id
  <2>1. AdmissionsOf(m, id) = {a}
    BY <1>1, <1>4 DEF AdmissionsOf
  <2>2. LatestAdmission(m, id) = a
    BY <1>2, <2>1, LatestAdmissionIsLatest
  <2>3. ~DepartedGeneration(m, id, 0)
    BY <1>1 DEF DepartedGeneration
  <2>4. Standing(m, id) = 1
    BY <2>1, <2>2, <2>3 DEF Standing
  <2> QED BY <1>4, <2>4 DEF m
<1> QED BY <1>3, <1>4

\* An admission of a device that is no member raises its standing by one and
\* no other.
LEMMA AdmitStanding ==
  ASSUME NEW mesh \in Mesh, Verify(mesh), NEW member \in Member, NEW key \in Node,
         CanAdmit(mesh, member, key), ~IsMember(mesh, member.id), NEW id \in Node
  PROVE  Standing(Admit(mesh, member, key), id) =
           IF id = member.id THEN Standing(mesh, id) + 1 ELSE Standing(mesh, id)
<1> DEFINE m == Admit(mesh, member, key)
           g == NextGeneration(mesh, member.id)
           a == SignedAdmission(mesh, member, g, key)
<1>1. m \in Mesh /\ Verify(m)
  BY AdmitType, AdmitVerifies
<1>2. m.admissions = mesh.admissions \cup {a} /\ m.departures = mesh.departures
  BY DEF Admit, Mesh
<1>3. a.member.id = member.id /\ a.generation = g
  BY DEF SignedAdmission
<1> HIDE DEF m, a
<1>4. \A k : DepartedGeneration(m, id, k) <=> DepartedGeneration(mesh, id, k)
  BY <1>2 DEF DepartedGeneration
<1>5. \A k : Admitted(mesh, id, k) => Admitted(m, id, k)
  BY <1>2 DEF Admitted, AdmissionsOf
<1>6. \A k : Admitted(m, id, k) => Admitted(mesh, id, k) \/ (id = member.id /\ k = g)
  BY <1>2, <1>3 DEF Admitted, AdmissionsOf
<1>7. CASE id # member.id
  <2>1. Standing(mesh, id) <= Standing(m, id)
    BY <1>1, <1>4, <1>5, StandingGrows
  <2>2. Standing(m, id) <= Standing(mesh, id)
    BY <1>1, <1>4, <1>6, <1>7, StandingGrows
  <2>3. Standing(m, id) = Standing(mesh, id)
    BY <1>1, <2>1, <2>2, StandingType
  <2> QED BY <1>7, <2>3 DEF m
<1>8. CASE id = member.id
  <2>1. g \in Nat /\ Standing(mesh, id) = 2 * g
    <3>1. CASE AdmissionsOf(mesh, id) = {}
      BY <1>8, <3>1 DEF NextGeneration, Standing
    <3>2. CASE AdmissionsOf(mesh, id) # {}
      <4> DEFINE h == LatestAdmission(mesh, id).generation
      <4>1. h \in Nat /\ Standing(mesh, id) = 2 * h + 2
        BY <1>8, <3>2, MemberStanding
      <4>2. g = h + 1
        BY <1>8, <3>2 DEF NextGeneration
      <4> HIDE DEF g, h
      <4> QED BY <4>1, <4>2
    <3> QED BY <3>1, <3>2
  <2>2. Admitted(m, id, g)
    BY <1>2, <1>3, <1>8 DEF Admitted, AdmissionsOf
  <2> HIDE DEF g
  <2>3. ~Admitted(mesh, id, g)
    <3> SUFFICES ASSUME Admitted(mesh, id, g) PROVE FALSE
      OBVIOUS
    <3>1. 2 * g + 1 <= Standing(mesh, id)
      BY StandingIsUpperBound
    <3> QED BY <2>1, <3>1
  <2>4. Standing(m, id) = 2 * g + 1
    <3>1. 2 * g + 1 <= Standing(m, id)
      BY <1>1, <2>2, StandingIsUpperBound
    <3>2. Standing(m, id) <= 2 * g + 1
      <4>1. CASE Standing(m, id) = 0
        BY <2>1, <4>1
      <4>2. ASSUME NEW k \in Nat, Admitted(m, id, k), Standing(m, id) = 2 * k + 1
            PROVE  Standing(m, id) <= 2 * g + 1
        <5>1. CASE k = g
          BY <2>1, <4>2, <5>1
        <5>2. CASE k # g
          <6>1. 2 * k + 1 <= Standing(mesh, id)
            BY <1>6, <4>2, <5>2, StandingIsUpperBound
          <6> QED BY <2>1, <4>2, <6>1
        <5> QED BY <5>1, <5>2
      <4>3. ASSUME NEW k \in Nat, DepartedGeneration(m, id, k),
                   Standing(m, id) = 2 * k + 2
            PROVE  Standing(m, id) <= 2 * g + 1
        <5>1. 2 * k + 2 <= Standing(mesh, id)
          BY <1>4, <4>3, StandingIsUpperBound
        <5> QED BY <2>1, <4>3, <5>1
      <4> QED BY <1>1, <4>1, <4>2, <4>3, StandingIsReached
    <3>3. Standing(m, id) \in Nat
      BY <1>1, StandingType
    <3> QED BY <2>1, <3>1, <3>2, <3>3
  <2> QED BY <1>8, <2>1, <2>4 DEF m
<1> QED BY <1>7, <1>8

\* A departure raises the standing of the device that leaves by one.
LEMMA DepartStanding ==
  ASSUME NEW mesh \in Mesh, Verify(mesh), NEW key \in Node, CanDepart(mesh, key),
         NEW id \in Node
  PROVE  Standing(Depart(mesh, key), id) =
           IF id = key THEN Standing(mesh, id) + 1 ELSE Standing(mesh, id)
<1> DEFINE m == Depart(mesh, key)
           g == LatestAdmission(mesh, key).generation
           d == SignedDeparture(mesh, g, key)
<1>1. m.admissions = mesh.admissions /\ m.departures = mesh.departures \cup {d}
  BY DEF Depart, Mesh
<1>2. DepartureKey(d) = <<key, g>>
  BY DEF SignedDeparture, DepartureKey
<1> HIDE DEF m, d
<1>3. AdmissionsOf(m, id) = AdmissionsOf(mesh, id)
  BY <1>1 DEF AdmissionsOf
<1>4. LatestAdmission(m, id) = LatestAdmission(mesh, id)
  <2>1. \A a : IsLatest(m, a) <=> IsLatest(mesh, a)
    BY <1>1 DEF IsLatest, AdmissionsOf
  <2> QED BY <1>3, <2>1 DEF LatestAdmission
<1>5. \A k : DepartedGeneration(m, id, k) <=>
               DepartedGeneration(mesh, id, k) \/ (id = key /\ k = g)
  BY <1>1, <1>2 DEF DepartedGeneration
<1>6. CASE id # key
  <2>1. \A k : DepartedGeneration(m, id, k) <=> DepartedGeneration(mesh, id, k)
    BY <1>5, <1>6
  <2> QED BY <1>3, <1>4, <1>6, <2>1 DEF Standing, m
<1>7. CASE id = key
  <2>1. AdmissionsOf(mesh, id) # {}
    BY <1>7, MemberIsLatest DEF CanDepart
  <2>2. g \in Nat /\ Standing(mesh, id) = 2 * g + 1
    BY <1>7, MemberStanding DEF CanDepart
  <2>3. Standing(m, id) = 2 * g + 2
    BY <1>3, <1>4, <1>5, <1>7, <2>1 DEF Standing
  <2> HIDE DEF g
  <2> QED BY <1>7, <2>2, <2>3 DEF m
<1> QED BY <1>6, <1>7

\* A merge gives every device the larger of its two standings.
LEMMA MergedStanding ==
  ASSUME NEW mesh \in Mesh, Verify(mesh), NEW other \in Mesh, Verify(other),
         Verify(Merged(mesh, other)), NEW id \in Node
  PROVE  Standing(Merged(mesh, other), id) =
           IF Standing(mesh, id) < Standing(other, id)
           THEN Standing(other, id) ELSE Standing(mesh, id)
<1> DEFINE m == Merged(mesh, other)
<1>1. m \in Mesh
  BY MergedType
<1>2. /\ m.admissions = mesh.admissions \cup
           {b \in other.admissions : \A a \in mesh.admissions : Key(a) # Key(b)}
      /\ m.departures = mesh.departures \cup
           {e \in other.departures :
              \A d \in mesh.departures : DepartureKey(d) # DepartureKey(e)}
  BY DEF Merged, Mesh
<1> HIDE DEF m
<1>3. \A k : Admitted(m, id, k) <=> Admitted(mesh, id, k) \/ Admitted(other, id, k)
  <2>1. \A x, k : Admitted(x, id, k) <=> \E a \in x.admissions : Key(a) = <<id, k>>
    BY DEF Admitted, AdmissionsOf, Key
  <2> QED BY <1>2, <2>1
<1>4. \A k : DepartedGeneration(m, id, k) <=>
               DepartedGeneration(mesh, id, k) \/ DepartedGeneration(other, id, k)
  BY <1>2 DEF DepartedGeneration
<1>5. /\ Standing(mesh, id) <= Standing(m, id)
      /\ Standing(other, id) <= Standing(m, id)
  BY <1>1, <1>3, <1>4, StandingGrows DEF m
<1>6. \/ Standing(m, id) <= Standing(mesh, id)
      \/ Standing(m, id) <= Standing(other, id)
  <2>1. CASE Standing(m, id) = 0
    BY <2>1, StandingType
  <2>2. ASSUME NEW k \in Nat, Admitted(m, id, k), Standing(m, id) = 2 * k + 1
        PROVE  <1>6
    BY <1>3, <2>2, StandingIsUpperBound
  <2>3. ASSUME NEW k \in Nat, DepartedGeneration(m, id, k),
               Standing(m, id) = 2 * k + 2
        PROVE  <1>6
    BY <1>4, <2>3, StandingIsUpperBound
  <2> QED BY <1>1, <2>1, <2>2, <2>3, StandingIsReached
<1>7. /\ Standing(m, id) \in Nat /\ Standing(mesh, id) \in Nat
      /\ Standing(other, id) \in Nat
  BY <1>1, StandingType
<1> QED BY <1>5, <1>6, <1>7 DEF m

-----------------------------------------------------------------------------
(* Refinement *)

\* The standings of all copies, the value the abstract specification sees.
standings == [c \in Copy |-> [n \in Node |-> Standing(copies[c], n)]]
identities == [c \in Copy |-> copies[c].identity]

\* The copies a program starts from have the standings of founding meshes.
LEMMA InitRefines == Init => Abstract!Init
<1> SUFFICES ASSUME Init PROVE Abstract!Init
  OBVIOUS
<1>1. ASSUME NEW c \in Copy
      PROVE  /\ copies[c].identity \in Identity
             /\ \E f \in Node : \A n \in Node :
                  Standing(copies[c], n) = IF n = f THEN 1 ELSE 0
  <2>1. PICK i \in Identity, member \in Member : copies[c] = Founding(i, member)
    BY DEF Init
  <2>2. copies[c].identity = i
    BY <2>1, FoundingRecord
  <2>3. member.id \in Node
    BY DEF Member
  <2>4. \A n \in Node : Standing(copies[c], n) = IF n = member.id THEN 1 ELSE 0
    BY <2>1, FoundingStanding
  <2> QED BY <2>2, <2>3, <2>4
<1> DEFINE f == [c \in Copy |-> CHOOSE x \in Node : \A n \in Node :
                   Standing(copies[c], n) = IF n = x THEN 1 ELSE 0]
<1>2. ASSUME NEW c \in Copy
      PROVE  f[c] \in Node /\ \A n \in Node :
               Standing(copies[c], n) = IF n = f[c] THEN 1 ELSE 0
  BY <1>1
<1>3. f \in [Copy -> Node]
  BY <1>2
<1> HIDE DEF f
<1>4. standings = [c \in Copy |-> [n \in Node |-> IF n = f[c] THEN 1 ELSE 0]]
  BY <1>2 DEF standings
<1>5. identities \in [Copy -> Identity]
  BY <1>1 DEF identities
<1> QED BY <1>3, <1>4, <1>5 DEF Abstract!Init, standings, identities

\* An admission, a departure or a merge of copies is the same step on the
\* standings, or changes none of them.
LEMMA StepRefines ==
  Inv /\ Inv' /\ [Next]_copies => [Abstract!Next]_(Abstract!vars)
<1> SUFFICES ASSUME Inv, Inv', [Next]_copies
             PROVE  [Abstract!Next]_(Abstract!vars)
  OBVIOUS
<1>1. \A c \in Copy : copies[c] \in Mesh /\ Verify(copies[c])
  BY DEF Inv, TypeOK, AllVerify
<1>2. ASSUME NEW c \in Copy, NEW key \in Node, NEW member \in Member,
             AdmitDevice(c, key, member)
      PROVE  Abstract!Admit(c, key, member.id) \/ UNCHANGED copies
  <2> DEFINE m == Admit(copies[c], member, key)
  <2>1. CanAdmit(copies[c], member, key) /\ copies' = [copies EXCEPT ![c] = m]
    BY <1>2 DEF AdmitDevice
  <2>2. CASE IsMember(copies[c], member.id)
    <3>1. m = copies[c]
      BY <2>2 DEF Admit
    <3> QED BY <2>1, <3>1 DEF Inv, TypeOK
  <2>3. CASE ~IsMember(copies[c], member.id)
    <3>0. member.id \in Node
      BY DEF Member
    <3>1. Abstract!IsOdd(Standing(copies[c], key))
      <4>1. PICK g \in Nat : Standing(copies[c], key) = 2 * g + 1
        BY <1>1, <2>1, MemberStanding DEF CanAdmit
      <4> QED BY <4>1 DEF Abstract!IsOdd
    <3>2. ~Abstract!IsOdd(Standing(copies[c], member.id))
      <4>1. CASE Standing(copies[c], member.id) = 0
        BY <4>1 DEF Abstract!IsOdd
      <4>2. ASSUME NEW g \in Nat, Standing(copies[c], member.id) = 2 * g + 2
            PROVE  ~Abstract!IsOdd(Standing(copies[c], member.id))
        BY <4>2 DEF Abstract!IsOdd
      <4> QED BY <1>1, <2>3, <4>1, <4>2, MemberStanding
    <3>3. \A n \in Node :
            Standing(m, n) = IF n = member.id THEN Standing(copies[c], n) + 1
                             ELSE Standing(copies[c], n)
      BY <1>1, <2>1, <2>3, AdmitStanding
    <3>4. m.identity = copies[c].identity
      BY <1>1 DEF Admit, Mesh
    <3>5. \A d \in Copy : copies'[d] = IF d = c THEN m ELSE copies[d]
      BY <2>1 DEF Inv, TypeOK
    <3> HIDE DEF m
    <3>6. standings' = [standings EXCEPT ![c][member.id] = @ + 1]
      BY <3>0, <3>3, <3>5 DEF standings
    <3>7. identities' = identities
      BY <3>4, <3>5 DEF identities
    <3> QED BY <3>0, <3>1, <3>2, <3>6, <3>7 DEF Abstract!Admit, standings, identities
  <2> QED BY <2>2, <2>3
<1>3. ASSUME NEW c \in Copy, NEW key \in Node, DepartDevice(c, key)
      PROVE  Abstract!Depart(c, key)
  <2> DEFINE m == Depart(copies[c], key)
  <2>1. CanDepart(copies[c], key) /\ copies' = [copies EXCEPT ![c] = m]
    BY <1>3 DEF DepartDevice
  <2>2. Abstract!IsOdd(Standing(copies[c], key))
    <3>1. PICK g \in Nat : Standing(copies[c], key) = 2 * g + 1
      BY <1>1, <2>1, MemberStanding DEF CanDepart
    <3> QED BY <3>1 DEF Abstract!IsOdd
  <2>3. \A n \in Node :
          Standing(m, n) = IF n = key THEN Standing(copies[c], n) + 1
                           ELSE Standing(copies[c], n)
    BY <1>1, <2>1, DepartStanding
  <2>4. m.identity = copies[c].identity
    BY <1>1 DEF Depart, Mesh
  <2>5. \A d \in Copy : copies'[d] = IF d = c THEN m ELSE copies[d]
    BY <2>1 DEF Inv, TypeOK
  <2> HIDE DEF m
  <2>6. standings' = [standings EXCEPT ![c][key] = @ + 1]
    BY <2>3, <2>5 DEF standings
  <2>7. identities' = identities
    BY <2>4, <2>5 DEF identities
  <2> QED BY <2>2, <2>6, <2>7 DEF Abstract!Depart, standings, identities
<1>4. ASSUME NEW c \in Copy, NEW d \in Copy, MergeCopy(c, d)
      PROVE  Abstract!Merge(c, d)
  <2> DEFINE m == Merged(copies[c], copies[d])
  <2>1. /\ SameIdentity(copies[c], copies[d]) /\ Verify(m)
        /\ copies' = [copies EXCEPT ![c] = m]
    BY <1>4 DEF MergeCopy, Mergeable
  <2>2. \A n \in Node :
          Standing(m, n) = Abstract!Larger(Standing(copies[c], n),
                                           Standing(copies[d], n))
    BY <1>1, <2>1, MergedStanding DEF Abstract!Larger
  <2>3. m.identity = copies[c].identity
    BY <1>1 DEF Merged, Mesh
  <2>4. \A x \in Copy : copies'[x] = IF x = c THEN m ELSE copies[x]
    BY <2>1 DEF Inv, TypeOK
  <2> HIDE DEF m
  <2>5. standings' = [standings EXCEPT ![c] =
           [n \in Node |-> Abstract!Larger(standings[c][n], standings[d][n])]]
    BY <2>2, <2>4 DEF standings
  <2>6. identities' = identities
    BY <2>3, <2>4 DEF identities
  <2>7. identities[c] = identities[d]
    BY <2>1 DEF identities, SameIdentity
  <2> QED BY <2>5, <2>6, <2>7 DEF Abstract!Merge, standings, identities
<1>5. CASE UNCHANGED copies
  BY <1>5 DEF Abstract!vars
<1>6. \A member \in Member : member.id \in Node
  BY DEF Member
<1> QED BY <1>2, <1>3, <1>4, <1>5, <1>6 DEF Next, Abstract!Next

\* The signed records implement the standings: in every copy a device's
\* standing only grows, by an admission a member signed, by its own
\* departure, or by learning the larger one from a copy of the same mesh.
THEOREM RecordsImplementStanding == Spec => ImplementsStanding
<1>1. Spec => Abstract!Init /\ [][Abstract!Next]_(Abstract!vars)
  BY InitRefines, StepRefines, Invariance, PTL DEF Spec
<1> QED BY <1>1 DEF ImplementsStanding, Abstract!Spec

-----------------------------------------------------------------------------
(* A device that left *)

\* No operation on a copy lowers the standing of a device in any copy.
LEMMA StandingsGrow ==
  ASSUME Inv, Inv', [Next]_copies, NEW x \in Copy, NEW n \in Node
  PROVE  Standing(copies[x], n) <= Standing(copies'[x], n)
<1>1. \A c \in Copy : copies[c] \in Mesh /\ Verify(copies[c])
  BY DEF Inv, TypeOK, AllVerify
<1>2. Standing(copies[x], n) \in Nat
  BY <1>1, StandingType
<1>3. ASSUME NEW c \in Copy, NEW key \in Node, NEW member \in Member,
             AdmitDevice(c, key, member)
      PROVE  Standing(copies[x], n) <= Standing(copies'[x], n)
  <2>1. /\ CanAdmit(copies[c], member, key)
        /\ copies'[x] = IF x = c THEN Admit(copies[c], member, key) ELSE copies[x]
    BY <1>3 DEF AdmitDevice, Inv, TypeOK
  <2>2. CASE IsMember(copies[c], member.id)
    BY <1>2, <2>1, <2>2 DEF Admit
  <2>3. CASE ~IsMember(copies[c], member.id)
    <3>1. Standing(Admit(copies[c], member, key), n) =
            IF n = member.id THEN Standing(copies[c], n) + 1
            ELSE Standing(copies[c], n)
      BY <1>1, <2>1, <2>3, AdmitStanding
    <3> QED BY <1>2, <2>1, <3>1
  <2> QED BY <2>2, <2>3
<1>4. ASSUME NEW c \in Copy, NEW key \in Node, DepartDevice(c, key)
      PROVE  Standing(copies[x], n) <= Standing(copies'[x], n)
  <2>1. /\ CanDepart(copies[c], key)
        /\ copies'[x] = IF x = c THEN Depart(copies[c], key) ELSE copies[x]
    BY <1>4 DEF DepartDevice, Inv, TypeOK
  <2>2. Standing(Depart(copies[c], key), n) =
          IF n = key THEN Standing(copies[c], n) + 1 ELSE Standing(copies[c], n)
    BY <1>1, <2>1, DepartStanding
  <2> QED BY <1>2, <2>1, <2>2
<1>5. ASSUME NEW c \in Copy, NEW d \in Copy, MergeCopy(c, d)
      PROVE  Standing(copies[x], n) <= Standing(copies'[x], n)
  <2>1. /\ Verify(Merged(copies[c], copies[d]))
        /\ copies'[x] = IF x = c THEN Merged(copies[c], copies[d]) ELSE copies[x]
    BY <1>5 DEF MergeCopy, Mergeable, Inv, TypeOK
  <2>2. Standing(Merged(copies[c], copies[d]), n) =
          IF Standing(copies[c], n) < Standing(copies[d], n)
          THEN Standing(copies[d], n) ELSE Standing(copies[c], n)
    BY <1>1, <2>1, MergedStanding
  <2>3. Standing(copies[d], n) \in Nat
    BY <1>1, StandingType
  <2> QED BY <1>2, <2>1, <2>2, <2>3
<1>6. CASE UNCHANGED copies
  BY <1>2, <1>6
<1> QED BY <1>3, <1>4, <1>5, <1>6 DEF Next

\* A device that left a mesh is listed again only by an admission newer than
\* the one it departed: no merge of a stale copy, by whatever route it comes,
\* brings it back.
THEOREM DepartedNeverReturnsByMerge == Spec => DepartedStaysOut
<1> DEFINE Step ==
      \A c \in Copy, n \in Node :
        /\ Departed(copies[c], n)
        /\ IsMember(copies'[c], n)
        => LatestAdmission(copies'[c], n).generation
             > LatestAdmission(copies[c], n).generation
<1>1. Inv /\ Inv' /\ [Next]_copies => Step
  <2> SUFFICES ASSUME Inv, Inv', [Next]_copies, NEW c \in Copy, NEW n \in Node,
                      Departed(copies[c], n), IsMember(copies'[c], n)
               PROVE  LatestAdmission(copies'[c], n).generation
                        > LatestAdmission(copies[c], n).generation
    OBVIOUS
  <2> DEFINE g == LatestAdmission(copies[c], n).generation
             h == LatestAdmission(copies'[c], n).generation
  <2>1. copies[c] \in Mesh /\ copies'[c] \in Mesh
    BY DEF Inv, TypeOK
  <2>2. PICK a \in AdmissionsOf(copies[c], n) :
          IsLatest(copies[c], a) /\ DepartedGeneration(copies[c], n, a.generation)
    BY DEF Departed
  <2>3. /\ LatestAdmission(copies[c], n) \in AdmissionsOf(copies[c], n)
        /\ IsLatest(copies[c], LatestAdmission(copies[c], n))
    BY <2>1, <2>2, LatestAdmissionIsLatest
  <2>4. a.generation \in Nat /\ g \in Nat
    BY <2>1, <2>2, <2>3, AdmittedGeneration DEF Admitted
  <2>5. g = a.generation
    <3>1. g <= a.generation
      BY <2>2, <2>3 DEF IsLatest, AdmissionsOf
    <3>2. a.generation <= g
      BY <2>2, <2>3 DEF IsLatest, AdmissionsOf
    <3> QED BY <2>4, <3>1, <3>2
  <2>6. Standing(copies[c], n) = 2 * g + 2
    BY <2>2, <2>5 DEF Standing
  <2>7. h \in Nat /\ Standing(copies'[c], n) = 2 * h + 1
    BY <2>1, MemberStanding
  <2>8. Standing(copies[c], n) <= Standing(copies'[c], n)
    BY StandingsGrow
  <2> HIDE DEF g, h
  <2>9. h > g
    BY <2>4, <2>6, <2>7, <2>8
  <2> QED BY <2>9 DEF g, h
<1>2. Spec => [][Step]_copies
  BY Invariance, <1>1, PTL DEF Spec
<1> QED BY <1>2 DEF DepartedStaysOut

-----------------------------------------------------------------------------
(* Two copies that merged each other *)

\* Records with one key are about one device with one nickname, whichever of
\* two mergeable copies they come from.
LEMMA SameKeySameMember ==
  ASSUME NEW mesh \in Mesh, NEW other \in Mesh, Verify(mesh), Verify(other),
         ~NameConflict(mesh, other),
         NEW a \in mesh.admissions \cup other.admissions,
         NEW b \in mesh.admissions \cup other.admissions, Key(a) = Key(b)
  PROVE  a.member = b.member
<1>1. a.member \in Member /\ b.member \in Member
  BY DEF Mesh, Admission
<1>2. a.member.id = b.member.id
  BY DEF Key
<1>3. a.member.name = b.member.name
  <2>1. CASE a \in mesh.admissions /\ b \in mesh.admissions
    BY <2>1 DEF Verify, UniqueKeys
  <2>2. CASE a \in other.admissions /\ b \in other.admissions
    BY <2>2 DEF Verify, UniqueKeys
  <2>3. CASE a \in mesh.admissions /\ b \in other.admissions
    BY <2>3 DEF NameConflict
  <2>4. CASE a \in other.admissions /\ b \in mesh.admissions
    BY <2>4 DEF NameConflict
  <2> QED BY <2>1, <2>2, <2>3, <2>4
<1> QED BY <1>1, <1>2, <1>3 DEF Member

\* Whoever is a member after one copy merged the other is one after the other
\* merged the first, whichever records each has kept.
LEMMA MergedMembers ==
  ASSUME NEW mesh \in Mesh, NEW other \in Mesh, Verify(mesh), Verify(other),
         ~NameConflict(mesh, other)
  PROVE  Members(Merged(mesh, other)) \subseteq Members(Merged(other, mesh))
<1> DEFINE m == Merged(mesh, other)
           w == Merged(other, mesh)
           All == mesh.admissions \cup other.admissions
<1>1. /\ m.admissions = mesh.admissions \cup
           {b \in other.admissions : \A a \in mesh.admissions : Key(a) # Key(b)}
      /\ m.departures = mesh.departures \cup
           {e \in other.departures :
              \A d \in mesh.departures : DepartureKey(d) # DepartureKey(e)}
      /\ w.admissions = other.admissions \cup
           {b \in mesh.admissions : \A a \in other.admissions : Key(a) # Key(b)}
      /\ w.departures = other.departures \cup
           {e \in mesh.departures :
              \A d \in other.departures : DepartureKey(d) # DepartureKey(e)}
  BY DEF Merged, Mesh
<1> HIDE DEF m, w
<1>2. /\ m.admissions \subseteq All /\ w.admissions \subseteq All
      /\ \A b \in All : \E a \in m.admissions : Key(a) = Key(b)
      /\ \A b \in All : \E a \in w.admissions : Key(a) = Key(b)
  BY <1>1
<1>3. \A n, k : DepartedGeneration(m, n, k) <=> DepartedGeneration(w, n, k)
  BY <1>1 DEF DepartedGeneration
<1> SUFFICES ASSUME NEW x \in Members(m) PROVE x \in Members(w)
  BY DEF m, w
<1>4. PICK a \in m.admissions :
        /\ x = a.member /\ IsLatest(m, a)
        /\ ~DepartedGeneration(m, a.member.id, a.generation)
  BY DEF Members, CurrentAdmissions
<1>5. PICK b \in w.admissions : Key(b) = Key(a)
  BY <1>2, <1>4
<1>6. b.member = a.member
  BY <1>2, <1>4, <1>5, SameKeySameMember
<1>7. b.generation = a.generation
  BY <1>5 DEF Key
<1>8. IsLatest(w, b)
  <2> SUFFICES ASSUME NEW c \in w.admissions, c.member.id = b.member.id
               PROVE  c.generation <= b.generation
    BY DEF IsLatest, AdmissionsOf
  <2>1. PICK d \in m.admissions : Key(d) = Key(c)
    BY <1>2
  <2>2. d.member.id = a.member.id /\ d.generation = c.generation
    BY <1>6, <2>1 DEF Key
  <2> QED BY <1>4, <1>7, <2>2 DEF IsLatest, AdmissionsOf
<1>9. ~DepartedGeneration(w, b.member.id, b.generation)
  BY <1>3, <1>4, <1>6, <1>7
<1> QED BY <1>4, <1>6, <1>8, <1>9 DEF Members, CurrentAdmissions

\* Two devices that merged each other's copies list the same members with the
\* same nicknames, and agree on who left, although their records differ where
\* both admitted the same device.
THEOREM MutualMergeConverges == Spec => []MergeConverges
<1>1. Inv => MergeConverges
  <2> SUFFICES ASSUME Inv, NEW c \in Copy, NEW d \in Copy,
                      Mergeable(copies[c], copies[d]),
                      Mergeable(copies[d], copies[c])
               PROVE  /\ Members(Merged(copies[c], copies[d]))
                           = Members(Merged(copies[d], copies[c]))
                      /\ \A n \in Node :
                           Standing(Merged(copies[c], copies[d]), n)
                             = Standing(Merged(copies[d], copies[c]), n)
    BY DEF MergeConverges
  <2>1. /\ copies[c] \in Mesh /\ Verify(copies[c])
        /\ copies[d] \in Mesh /\ Verify(copies[d])
    BY DEF Inv, TypeOK, AllVerify
  <2>2. /\ Verify(Merged(copies[c], copies[d])) /\ ~NameConflict(copies[c], copies[d])
        /\ Verify(Merged(copies[d], copies[c])) /\ ~NameConflict(copies[d], copies[c])
    BY DEF Mergeable
  <2>3. Members(Merged(copies[c], copies[d])) = Members(Merged(copies[d], copies[c]))
    BY <2>1, <2>2, MergedMembers
  <2>4. ASSUME NEW n \in Node
        PROVE  Standing(Merged(copies[c], copies[d]), n)
                 = Standing(Merged(copies[d], copies[c]), n)
    <3>1. Standing(copies[c], n) \in Nat /\ Standing(copies[d], n) \in Nat
      BY <2>1, StandingType
    <3>2. Standing(Merged(copies[c], copies[d]), n) =
            IF Standing(copies[c], n) < Standing(copies[d], n)
            THEN Standing(copies[d], n) ELSE Standing(copies[c], n)
      BY <2>1, <2>2, MergedStanding
    <3>3. Standing(Merged(copies[d], copies[c]), n) =
            IF Standing(copies[d], n) < Standing(copies[c], n)
            THEN Standing(copies[c], n) ELSE Standing(copies[d], n)
      BY <2>1, <2>2, MergedStanding
    <3> QED BY <3>1, <3>2, <3>3
  <2> QED BY <2>3, <2>4
<1> QED BY Invariance, <1>1, PTL

-----------------------------------------------------------------------------
(* The loop at the end of Mesh::verify.  Membership says what it computes: a *)
(* least set; TrustLoop has the loop, record by record.                      *)

\* Whatever holds the founder and is closed under admission holds what was found.
Sound ==
  \A T \in SUBSET Node :
    Founder \in T /\ ClosedUnderAdmission(MeshOf, T) => trusted \subseteq T

\* Up to the current record, the pass has found whom the devices that were known
\* when it began admitted.
Covered ==
  \E known \in SUBSET trusted :
    /\ Cardinality(known) = before
    /\ \A i \in 1 .. Len(records) :
         i < position /\ records[i].issuer \in known => records[i].member.id \in trusted

LoopInv ==
  /\ \E n \in Nat : records \in [1 .. n -> Edge]
  /\ trusted \subseteq Node /\ IsFiniteSet(trusted) /\ Founder \in trusted
  /\ position \in Nat \ {0}
  /\ passes \in Nat /\ before \in Nat
  /\ passes <= before /\ before <= Cardinality(trusted)
  /\ Sound /\ Covered
  /\ verdict = "accepted" => AllTrusted
  /\ verdict = "rejected" =>
       ~AllTrusted /\ ClosedUnderAdmission(MeshOf, trusted)

\* The fields of the records.
LEMMA EdgeFields ==
  ASSUME NEW n \in Nat, records \in [1 .. n -> Edge]
  PROVE  /\ Len(records) = n
         /\ \A i \in 1 .. n :
              records[i].member.id \in Node /\ records[i].issuer \in Node
<1>1. \A e \in Edge : e.member.id \in Node /\ e.issuer \in Node
  BY DEF Edge
<1>2. Len(records) = n
  <2>1. records \in Seq(Edge) /\ DOMAIN records = 1 .. n
    BY SeqDef
  <2> QED
    BY <2>1, LenProperties
<1> QED
  BY <1>1, <1>2

\* The loop begins with the founder alone.
LEMMA LoopBegins ==
  ASSUME LoopInit
  PROVE  LoopInv
<1>1. PICK n \in Nat : records \in [1 .. n -> Edge]
  BY DEF LoopInit
<1>2. Covered
  <2>1. /\ {Founder} \in SUBSET trusted /\ Cardinality({Founder}) = before
        /\ position = 1
    BY FS_Singleton DEF LoopInit
  <2>2. \A i \in 1 .. Len(records) : ~(i < position)
    BY <1>1, <2>1, EdgeFields
  <2> QED
    BY <2>1, <2>2 DEF Covered
<1>3. IsFiniteSet(trusted) /\ Cardinality(trusted) = 1
  BY FS_Singleton DEF LoopInit
<1>4. /\ passes \in Nat /\ before \in Nat
      /\ passes <= before /\ before <= Cardinality(trusted)
  BY <1>3 DEF LoopInit
<1> QED
  BY <1>1, <1>2, <1>3, <1>4, TrustLoopAssumption DEF LoopInit, LoopInv, Sound

\* A record of a trusted issuer adds one who is in every closed set.
LEMMA VisitKeepsLoop ==
  ASSUME LoopInv, Visit
  PROVE  LoopInv'
<1>1. PICK n \in Nat : records \in [1 .. n -> Edge]
  BY DEF LoopInv
<1> DEFINE r == records[position]
<1>2. /\ position \in 1 .. n /\ Len(records) = n
      /\ r.member.id \in Node /\ r.issuer \in Node
  BY <1>1, EdgeFields DEF LoopInv, Visit
<1>3. /\ verdict' = "running" /\ records' = records /\ before' = before
      /\ position' = position + 1 /\ passes' = passes
      /\ trusted' = IF r.issuer \in trusted THEN trusted \cup {r.member.id} ELSE trusted
  BY DEF Visit
<1> HIDE DEF r
<1>4. /\ trusted \subseteq trusted' /\ trusted' \subseteq Node /\ IsFiniteSet(trusted')
      /\ r.issuer \in trusted => r.member.id \in trusted'
  BY <1>2, <1>3, FS_AddElement DEF LoopInv
<1>5. Sound'
  <2> SUFFICES ASSUME NEW T \in SUBSET Node, Founder \in T,
                      ClosedUnderAdmission(MeshOf, T)'
               PROVE  trusted' \subseteq T
    BY DEF Sound
  <2>1. ClosedUnderAdmission(MeshOf, T)
    BY <1>3 DEF ClosedUnderAdmission, MeshOf, Listed
  <2>2. trusted \subseteq T
    BY <2>1 DEF LoopInv, Sound
  <2>3. r \in Listed
    BY <1>2 DEF Listed, r
  <2>4. r.issuer \in T => r.member.id \in T
    BY <2>1, <2>3 DEF ClosedUnderAdmission, MeshOf
  <2> QED
    BY <1>3, <2>2, <2>4
<1>6. Covered'
  <2>1. PICK known \in SUBSET trusted :
               /\ Cardinality(known) = before
               /\ \A i \in 1 .. Len(records) :
                    i < position /\ records[i].issuer \in known =>
                      records[i].member.id \in trusted
    BY DEF LoopInv, Covered
  <2>2. ASSUME NEW i \in 1 .. n, i < position + 1, records[i].issuer \in known
        PROVE  records[i].member.id \in trusted'
    <3>1. CASE i = position
      BY <1>4, <2>1, <2>2, <3>1 DEF r
    <3>2. CASE i < position
      BY <1>2, <1>4, <2>1, <2>2, <3>2
    <3> QED
      BY <1>2, <2>2, <3>1, <3>2
  <2>3. known \in SUBSET trusted'
    BY <1>4, <2>1
  <2> QED
    BY <1>2, <1>3, <2>1, <2>2, <2>3 DEF Covered
<1>7. /\ passes \in Nat /\ before \in Nat
      /\ passes <= before /\ before <= Cardinality(trusted')
  <2>1. Cardinality(trusted) <= Cardinality(trusted')
    BY <1>4, FS_Subset
  <2>2. Cardinality(trusted) \in Nat /\ Cardinality(trusted') \in Nat
    BY <1>4, FS_CardinalityType DEF LoopInv
  <2> QED
    BY <2>1, <2>2 DEF LoopInv
<1> QED
  BY <1>1, <1>2, <1>3, <1>4, <1>5, <1>6, <1>7 DEF LoopInv

\* A pass that found nobody has covered all that is trusted.
LEMMA EndPassKeepsLoop ==
  ASSUME LoopInv, EndPass
  PROVE  LoopInv'
<1>1. PICK n \in Nat : records \in [1 .. n -> Edge]
  BY DEF LoopInv
<1>2. /\ records' = records /\ trusted' = trusted /\ position' = 1
      /\ before' = Cardinality(trusted) /\ position > Len(records)
      /\ verdict' = "accepted" => AllTrusted
      /\ verdict' = "rejected" => ~AllTrusted /\ Cardinality(trusted) = before
  BY DEF EndPass
<1>3. Len(records) = n /\ position \in Nat
  BY <1>1, EdgeFields DEF LoopInv
<1>4. Covered'
  <2>1. trusted \in SUBSET trusted' /\ Cardinality(trusted) = before'
    BY <1>2
  <2>2. \A i \in 1 .. Len(records') : ~(i < position')
    BY <1>2, <1>3
  <2> QED
    BY <2>1, <2>2 DEF Covered
<1>5. Sound' /\ (AllTrusted' <=> AllTrusted)
  BY <1>2
  DEF LoopInv, Sound, ClosedUnderAdmission, MeshOf, Listed, AllTrusted
<1>6. ASSUME Cardinality(trusted) = before
      PROVE  ClosedUnderAdmission(MeshOf, trusted)
  <2>1. PICK known \in SUBSET trusted :
               /\ Cardinality(known) = before
               /\ \A i \in 1 .. Len(records) :
                    i < position /\ records[i].issuer \in known =>
                      records[i].member.id \in trusted
    BY DEF LoopInv, Covered
  <2>2. known = trusted
    BY <1>6, <2>1, FS_Subset DEF LoopInv
  <2>3. \A i \in 1 .. Len(records) :
          records[i].issuer \in trusted => records[i].member.id \in trusted
    BY <1>2, <1>3, <2>1, <2>2
  <2> QED
    BY <2>3 DEF ClosedUnderAdmission, MeshOf, Listed
<1>7. verdict' = "rejected" =>
        ~AllTrusted' /\ ClosedUnderAdmission(MeshOf, trusted)'
  BY <1>2, <1>5, <1>6
  DEF ClosedUnderAdmission, MeshOf, Listed
<1>8. /\ passes' \in Nat /\ before' \in Nat
      /\ passes' <= before' /\ before' <= Cardinality(trusted')
  <2>1. /\ Cardinality(trusted) \in Nat /\ passes \in Nat /\ before \in Nat
        /\ passes <= before /\ before <= Cardinality(trusted)
    BY FS_CardinalityType DEF LoopInv
  <2>2. CASE verdict' = "running"
    <3>1. Cardinality(trusted) # before /\ passes' = passes + 1
      BY <2>2 DEF EndPass
    <3> QED
      BY <1>2, <2>1, <3>1
  <2>3. CASE verdict' # "running"
    <3>1. passes' = passes
      BY <2>3 DEF EndPass
    <3> QED
      BY <1>2, <2>1, <3>1
  <2> QED
    BY <2>2, <2>3
<1> QED
  BY <1>1, <1>2, <1>4, <1>5, <1>7, <1>8 DEF LoopInv

\* The loop of verify accepts exactly the lists of records, however long and in
\* whatever order, in which every issuer is in the least set of devices admitted from
\* the founder on (membership.rs:227): every proof about meshes uses that set.  It
\* makes at most as many passes as it finds devices.
THEOREM LoopTracesIssuers == LoopSpec => []VerdictIsTraceable
<1>1. LoopInit => LoopInv
  BY LoopBegins
<1>2. LoopInv /\ [LoopNext]_loopVars => LoopInv'
  <2>1. ASSUME LoopInv, UNCHANGED loopVars  PROVE LoopInv'
    BY <2>1
    DEF loopVars, LoopInv, Sound, Covered, ClosedUnderAdmission, MeshOf,
        Listed, AllTrusted
  <2> QED
    BY <2>1, VisitKeepsLoop, EndPassKeepsLoop DEF LoopNext
<1>3. LoopInv => VerdictIsTraceable
  <2> SUFFICES ASSUME LoopInv  PROVE VerdictIsTraceable
    OBVIOUS
  <2>1. /\ FounderOf(MeshOf.identity) = Founder
        /\ MeshOf.admissions = Listed
    BY TrustLoopAssumption DEF FounderOf, MeshOf, LegacyIdentity
  <2>2. trusted \subseteq Trusted(MeshOf)
    BY <2>1 DEF LoopInv, Sound, Trusted
  <2>3. verdict = "accepted" => Traceable(MeshOf)
    BY <2>1, <2>2 DEF LoopInv, AllTrusted, Traceable
  <2>4. ASSUME verdict = "rejected"  PROVE ~Traceable(MeshOf)
    <3>1. Trusted(MeshOf) \subseteq trusted
      BY <2>1, <2>4 DEF LoopInv, Trusted
    <3>2. ~AllTrusted
      BY <2>4 DEF LoopInv
    <3> QED
      BY <2>1, <3>1, <3>2 DEF AllTrusted, Traceable
  <2>5. passes <= Cardinality(trusted)
    BY FS_CardinalityType DEF LoopInv
  <2> QED
    BY <2>3, <2>4, <2>5 DEF VerdictIsTraceable
<1> QED
  BY <1>1, <1>2, <1>3, PTL DEF LoopSpec
=============================================================================
