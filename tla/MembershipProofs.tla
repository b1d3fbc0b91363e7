--------------------------- MODULE MembershipProofs ---------------------------
(* Facts about the operations of Membership, for every mesh value: latest    *)
(* admissions exist, and founding, admitting, leaving and merging keep a     *)
(* mesh verifiable.                                                          *)
EXTENDS Membership, FiniteSetTheorems, WellFoundedInduction, TLAPS

-----------------------------------------------------------------------------
(* Latest admissions *)

\* A device with admissions has a latest one: generations are bounded.
LEMMA LatestExists ==
  ASSUME NEW mesh \in Mesh, NEW id, AdmissionsOf(mesh, id) # {}
  PROVE  \E a \in AdmissionsOf(mesh, id) : IsLatest(mesh, a)
<1> DEFINE A == AdmissionsOf(mesh, id)
           Above(a) == {k \in Generation : a.generation < k}
           T == {Above(a) : a \in A}
           F == FiniteSubsetsOf(Generation)
           R == StrictSubsetOrdering(Generation)
<1>1. \A a \in A : a \in Admission /\ a.generation \in Generation /\ a.member.id = id
  BY DEF Mesh, AdmissionsOf, Admission
<1>2. IsFiniteSet(Generation)
  BY MembershipAssumption, FS_Interval DEF Generation
<1>3. \A a \in A : Above(a) \in F
  BY <1>2, FS_Subset DEF FiniteSubsetsOf
<1>4. T \subseteq F /\ T # {}
  BY <1>3
<1>5. IsWellFoundedOn(R, F)
  BY FS_StrictSubsetOrderingWellFounded
<1>6. PICK x \in T : \A y \in T : <<y, x>> \notin R
  BY <1>4, <1>5, WFMin
<1>7. PICK a \in A : x = Above(a)
  BY <1>6
<1>8. ASSUME NEW b \in A, ~(b.generation <= a.generation)
      PROVE  FALSE
  <2>1. a.generation \in Int /\ b.generation \in Int /\ a.generation < b.generation
    BY <1>1, <1>8, MembershipAssumption DEF Generation
  <2>2. Above(b) \subseteq Above(a)
    BY <2>1, MembershipAssumption DEF Generation
  <2>3. b.generation \in Above(a) /\ b.generation \notin Above(b)
    BY <1>1, <2>1
  <2>4. <<Above(b), Above(a)>> \in R
    BY <2>2, <2>3 DEF StrictSubsetOrdering
  <2> QED BY <1>6, <1>7, <2>4
<1> QED BY <1>1, <1>8 DEF IsLatest

\* What LatestAdmission chooses is therefore a latest admission of the device.
LEMMA LatestAdmissionIsLatest ==
  ASSUME NEW mesh \in Mesh, NEW id, AdmissionsOf(mesh, id) # {}
  PROVE  /\ LatestAdmission(mesh, id) \in AdmissionsOf(mesh, id)
         /\ IsLatest(mesh, LatestAdmission(mesh, id))
BY LatestExists DEF LatestAdmission

\* A member is a device whose latest admission is open.
LEMMA MemberIsLatest ==
  ASSUME NEW mesh \in Mesh, NEW id, IsMember(mesh, id)
  PROVE  /\ LatestAdmission(mesh, id) \in AdmissionsOf(mesh, id)
         /\ ~DepartedGeneration(mesh, id, LatestAdmission(mesh, id).generation)
<1>1. PICK a \in mesh.admissions :
        /\ a.member.id = id /\ IsLatest(mesh, a)
        /\ ~DepartedGeneration(mesh, id, a.generation)
  BY DEF IsMember, MemberIds, CurrentAdmissions
<1>2. a \in AdmissionsOf(mesh, id)
  BY <1>1 DEF AdmissionsOf
<1> DEFINE b == LatestAdmission(mesh, id)
<1>3. b \in AdmissionsOf(mesh, id) /\ IsLatest(mesh, b)
  BY <1>2, LatestAdmissionIsLatest
<1>4. b.member.id = id /\ b \in Admission /\ a \in Admission
  BY <1>1, <1>3 DEF AdmissionsOf, Mesh
<1>5. b.generation <= a.generation /\ a.generation <= b.generation
  BY <1>1, <1>2, <1>3, <1>4 DEF IsLatest
<1>6. a.generation \in Int /\ b.generation \in Int
  BY <1>4, MembershipAssumption DEF Admission, Generation
<1>7. a.generation = b.generation
  BY <1>5, <1>6
<1> QED BY <1>1, <1>3, <1>7

\* A device with admissions that is no member has departed from the latest.
LEMMA NonMemberDeparted ==
  ASSUME NEW mesh \in Mesh, NEW id, AdmissionsOf(mesh, id) # {}, ~IsMember(mesh, id)
  PROVE  DepartedGeneration(mesh, id, LatestAdmission(mesh, id).generation)
<1> DEFINE b == LatestAdmission(mesh, id)
<1>1. b \in AdmissionsOf(mesh, id) /\ IsLatest(mesh, b)
  BY LatestAdmissionIsLatest
<1>2. b \in mesh.admissions /\ b.member.id = id
  BY <1>1 DEF AdmissionsOf
<1> QED BY <1>1, <1>2 DEF IsMember, MemberIds, CurrentAdmissions

-----------------------------------------------------------------------------
(* Types *)

\* The mesh Mesh::create returns, written out: the founder's own admission.
LEMMA FoundingRecord ==
  ASSUME NEW identity, NEW member
  PROVE  Founding(identity, member) =
           [identity |-> identity,
            admissions |-> {[member |-> member, issuer |-> member.id,
                             generation |-> 0, sealed |-> identity]},
            departures |-> {}]
BY DEF Founding, SignedAdmission

\* Founding a mesh yields a value of the source's type.
LEMMA FoundingType ==
  ASSUME NEW identity \in Identity, NEW member \in Member
  PROVE  Founding(identity, member) \in Mesh
<1> DEFINE a == [member |-> member, issuer |-> member.id, generation |-> 0,
                 sealed |-> identity]
<1>1. a \in Admission
  BY MembershipAssumption DEF Admission, Member, Generation
<1>2. IsFiniteSet({a})
  BY FS_Singleton
<1> QED BY <1>1, <1>2, FoundingRecord DEF Mesh

\* A successful Mesh::admit keeps the type: its limits bound the generation.
LEMMA AdmitType ==
  ASSUME NEW mesh \in Mesh, NEW member \in Member, NEW key \in Node,
         CanAdmit(mesh, member, key)
  PROVE  Admit(mesh, member, key) \in Mesh
<1>1. CASE IsMember(mesh, member.id)
  BY <1>1 DEF Admit
<1>2. CASE ~IsMember(mesh, member.id)
  <2> DEFINE a == SignedAdmission(mesh, member, NextGeneration(mesh, member.id), key)
  <2>1. NextGeneration(mesh, member.id) \in Generation
    BY <1>2 DEF CanAdmit
  <2>2. a \in Admission
    BY <2>1 DEF SignedAdmission, Admission, Mesh
  <2>3. IsFiniteSet(mesh.admissions \cup {a})
    BY FS_AddElement DEF Mesh
  <2>4. Admit(mesh, member, key) =
          [mesh EXCEPT !.admissions = mesh.admissions \cup {a}]
    BY <1>2 DEF Admit
  <2> QED BY <2>2, <2>3, <2>4 DEF Mesh
<1> QED BY <1>1, <1>2

\* A successful Mesh::depart keeps the type: it names a recorded generation.
LEMMA DepartType ==
  ASSUME NEW mesh \in Mesh, NEW key \in Node, CanDepart(mesh, key)
  PROVE  Depart(mesh, key) \in Mesh
<1>1. LatestAdmission(mesh, key) \in mesh.admissions
  BY MemberIsLatest DEF CanDepart, AdmissionsOf
<1>2. LatestAdmission(mesh, key).generation \in Generation
  BY <1>1 DEF Mesh, Admission
<1> QED BY <1>2 DEF Depart, SignedDeparture, Departure, Mesh

\* Merging keeps the type: a union of two finite record sets is finite.
LEMMA MergedType ==
  ASSUME NEW mesh \in Mesh, NEW other \in Mesh
  PROVE  Merged(mesh, other) \in Mesh
<1> DEFINE A == {b \in other.admissions :
                   \A a \in mesh.admissions : Key(a) # Key(b)}
<1>1. IsFiniteSet(A)
  BY FS_Subset DEF Mesh
<1>2. IsFiniteSet(mesh.admissions \cup A)
  BY <1>1, FS_Union DEF Mesh
<1>3. A \subseteq Admission
  BY DEF Mesh
<1> QED BY <1>2, <1>3 DEF Merged, Mesh

-----------------------------------------------------------------------------
(* Trust *)

\* Whatever set holds the founder and is closed under admission holds every
\* trusted device.
LEMMA TrustedIsLeast ==
  ASSUME NEW mesh, NEW T \in SUBSET Node,
         FounderOf(mesh.identity) \in T, ClosedUnderAdmission(mesh, T)
  PROVE  Trusted(mesh) \subseteq T
BY DEF Trusted

\* Trust grows with the records: a set closed for the larger mesh is closed
\* for the smaller.
LEMMA TrustedGrows ==
  ASSUME NEW mesh, NEW larger, larger.identity = mesh.identity,
         mesh.admissions \subseteq larger.admissions
  PROVE  Trusted(mesh) \subseteq Trusted(larger)
BY DEF Trusted, ClosedUnderAdmission

\* A device admitted by a trusted one is trusted.
LEMMA TrustedIsClosed ==
  ASSUME NEW mesh \in Mesh, NEW a \in mesh.admissions, a.issuer \in Trusted(mesh)
  PROVE  a.member.id \in Trusted(mesh)
<1>1. a.member.id \in Node
  BY DEF Mesh, Admission, Member
<1> QED BY <1>1 DEF Trusted, ClosedUnderAdmission

-----------------------------------------------------------------------------
(* Verification *)

\* Mesh::create returns a mesh that verifies.
LEMMA FoundingVerifies ==
  ASSUME NEW identity \in Identity, WellFormed(identity), NEW member \in Member,
         member.id = FounderOf(identity)
  PROVE  Verify(Founding(identity, member))
<1> DEFINE a == [member |-> member, issuer |-> member.id, generation |-> 0,
                 sealed |-> identity]
           m == Founding(identity, member)
<1>1. /\ m.identity = identity /\ m.admissions = {a} /\ m.departures = {}
  BY FoundingRecord
<1> HIDE DEF m
<1>2. Cardinality({a}) = 1
  BY FS_Singleton
<1>3. Sized(m)
  BY <1>1, <1>2, MembershipAssumption DEF Sized
<1>4. UniqueKeys(m) /\ DeparturesMatch(m) /\ ReadmissionsFollow(m)
  BY <1>1 DEF UniqueKeys, DeparturesMatch, ReadmissionsFollow
<1>5. SignaturesVerify(m)
  BY <1>1 DEF SignaturesVerify
<1>6. Founded(m)
  BY <1>1 DEF Founded, Key
<1>7. a.issuer \in Trusted(m)
  BY <1>1 DEF Trusted, Member
<1>8. Traceable(m)
  BY <1>1, <1>7 DEF Traceable
<1> QED BY <1>3, <1>4, <1>5, <1>6, <1>8 DEF Verify, m

\* Mesh::admit leaves a mesh verifiable without verifying it: the new record
\* has a fresh key, follows a departure, and its issuer is a member, hence
\* was admitted by a trusted device.
LEMMA AdmitVerifies ==
  ASSUME NEW mesh \in Mesh, Verify(mesh), NEW member \in Member, NEW key \in Node,
         CanAdmit(mesh, member, key)
  PROVE  Verify(Admit(mesh, member, key))
<1>1. CASE IsMember(mesh, member.id)
  BY <1>1 DEF Admit
<1>2. CASE ~IsMember(mesh, member.id)
  <2> DEFINE g == NextGeneration(mesh, member.id)
             a == [member |-> member, issuer |-> key, generation |-> g,
                   sealed |-> mesh.identity]
             m == Admit(mesh, member, key)
  <2>1. /\ m.identity = mesh.identity
        /\ m.admissions = mesh.admissions \cup {a}
        /\ m.departures = mesh.departures
    BY <1>2 DEF Admit, SignedAdmission, Mesh
  <2>2. g \in Generation /\ Cardinality(mesh.admissions) < MaxAdmissions
    BY <1>2 DEF CanAdmit
  <2> HIDE DEF m
  <2>3. Sized(m)
    <3> DEFINE n == Cardinality(mesh.admissions)
    <3> HIDE DEF a
    <3>1. IsFiniteSet(mesh.admissions)
      BY DEF Mesh
    <3>2. n \in Nat
      BY <3>1, FS_CardinalityType
    <3>3. Cardinality(mesh.admissions \cup {a}) =
            IF a \in mesh.admissions THEN n ELSE n + 1
      BY <3>1, FS_AddElement
    <3>4. Cardinality(mesh.admissions \cup {a}) <= MaxAdmissions
      BY <3>2, <3>3, <2>2, MembershipAssumption
    <3> QED BY <3>4, <2>1 DEF Sized
  <2>4. ASSUME NEW b \in mesh.admissions
        PROVE  Key(b) # Key(a)
    <3>1. CASE AdmissionsOf(mesh, member.id) = {}
      BY <3>1 DEF AdmissionsOf, Key
    <3>2. CASE AdmissionsOf(mesh, member.id) # {}
      <4> DEFINE latest == LatestAdmission(mesh, member.id)
      <4>1. latest \in AdmissionsOf(mesh, member.id) /\ IsLatest(mesh, latest)
        BY <3>2, LatestAdmissionIsLatest
      <4>2. latest.member.id = member.id /\ latest \in Admission /\ b \in Admission
        BY <4>1 DEF AdmissionsOf, Mesh
      <4>3. latest.generation \in Int /\ b.generation \in Int
        BY <4>2, MembershipAssumption DEF Admission, Generation
      <4>4. g = latest.generation + 1
        BY <3>2 DEF NextGeneration
      <4>5. b.member.id = member.id => b.generation <= latest.generation
        BY <4>1, <4>2 DEF IsLatest, AdmissionsOf
      <4>6. b.member.id = member.id => b.generation # g
        BY <4>3, <4>4, <4>5
      <4> QED BY <4>6 DEF Key
    <3> QED BY <3>1, <3>2
  <2>5. UniqueKeys(m)
    BY <2>1, <2>4 DEF UniqueKeys, Verify
  <2>6. DeparturesMatch(m)
    BY <2>1 DEF DeparturesMatch, Verify
  <2>7. ReadmissionsFollow(m)
    <3>1. a.generation = 0 \/ DepartedGeneration(mesh, member.id, a.generation - 1)
      <4>1. CASE AdmissionsOf(mesh, member.id) = {}
        BY <4>1 DEF NextGeneration
      <4>2. CASE AdmissionsOf(mesh, member.id) # {}
        <5> DEFINE latest == LatestAdmission(mesh, member.id)
        <5>1. DepartedGeneration(mesh, member.id, latest.generation)
          BY <1>2, <4>2, NonMemberDeparted
        <5>2. latest \in Admission
          BY <4>2, LatestAdmissionIsLatest DEF AdmissionsOf, Mesh
        <5>3. latest.generation \in Int
          BY <5>2, MembershipAssumption DEF Admission, Generation
        <5>4. g - 1 = latest.generation
          BY <4>2, <5>3 DEF NextGeneration
        <5> QED BY <5>1, <5>4
      <4> QED BY <4>1, <4>2
    <3>2. \A id, k : DepartedGeneration(mesh, id, k) => DepartedGeneration(m, id, k)
      BY <2>1 DEF DepartedGeneration
    <3>3. \A b \in mesh.admissions :
            b.generation = 0 \/ DepartedGeneration(mesh, b.member.id, b.generation - 1)
      BY DEF Verify, ReadmissionsFollow
    <3>4. a.member.id = member.id
      OBVIOUS
    <3> HIDE DEF a
    <3> QED BY <2>1, <3>1, <3>2, <3>3, <3>4 DEF ReadmissionsFollow
  <2>8. SignaturesVerify(m)
    BY <2>1 DEF SignaturesVerify, Verify
  <2>9. Founded(m)
    BY <2>1 DEF Founded, Verify
  <2>10. Traceable(m)
    <3>1. PICK b \in mesh.admissions : b.member.id = key
      BY DEF CanAdmit, IsMember, MemberIds, CurrentAdmissions
    <3>2. key \in Trusted(mesh)
      BY <3>1, TrustedIsClosed DEF Verify, Traceable
    <3>3. Trusted(mesh) \subseteq Trusted(m)
      BY <2>1, TrustedGrows
    <3>4. a.issuer \in Trusted(m)
      BY <3>2, <3>3
    <3>5. \A c \in mesh.admissions : c.issuer \in Trusted(m)
      BY <3>3 DEF Verify, Traceable
    <3> QED BY <2>1, <3>4, <3>5 DEF Traceable
  <2> QED BY <2>3, <2>5, <2>6, <2>7, <2>8, <2>9, <2>10 DEF Verify, m
<1> QED BY <1>1, <1>2

\* Mesh::depart leaves a mesh verifiable without verifying it.
LEMMA DepartVerifies ==
  ASSUME NEW mesh \in Mesh, Verify(mesh), NEW key \in Node, CanDepart(mesh, key)
  PROVE  Verify(Depart(mesh, key))
<1> DEFINE latest == LatestAdmission(mesh, key)
           d == [member |-> key, generation |-> latest.generation,
                 sealed |-> mesh.identity]
           m == Depart(mesh, key)
<1>1. /\ m.identity = mesh.identity
      /\ m.admissions = mesh.admissions
      /\ m.departures = mesh.departures \cup {d}
  BY DEF Depart, SignedDeparture, Mesh
<1>2. /\ latest \in mesh.admissions /\ latest.member.id = key
      /\ ~DepartedGeneration(mesh, key, latest.generation)
  BY MemberIsLatest DEF CanDepart, AdmissionsOf
<1> HIDE DEF m, latest
<1>3. Sized(m)
  BY <1>1 DEF Sized, Verify
<1>4. \A e \in mesh.departures : DepartureKey(e) # DepartureKey(d)
  BY <1>2 DEF DepartedGeneration, DepartureKey
<1>5. UniqueKeys(m)
  BY <1>1, <1>4 DEF UniqueKeys, Verify
<1>6. Key(latest) = DepartureKey(d)
  BY <1>2 DEF Key, DepartureKey
<1>7. DeparturesMatch(m)
  BY <1>1, <1>2, <1>6 DEF DeparturesMatch, Verify
<1>8. ReadmissionsFollow(m)
  BY <1>1 DEF ReadmissionsFollow, DepartedGeneration, Verify
<1>9. SignaturesVerify(m)
  BY <1>1 DEF SignaturesVerify, Verify
<1>10. Founded(m)
  BY <1>1 DEF Founded, Verify
<1>11. Traceable(m)
  BY <1>1, TrustedGrows DEF Traceable, Verify
<1> QED
  BY <1>3, <1>5, <1>7, <1>8, <1>9, <1>10, <1>11 DEF Verify, m

\* The union of two verified copies of one mesh verifies whenever it is within
\* the admission limit: keeping the own record of two with one key never cuts
\* a departure from its admission, a readmission from its departure, or an
\* issuer from the founder.
LEMMA MergedVerifies ==
  ASSUME NEW mesh \in Mesh, NEW other \in Mesh, Verify(mesh), Verify(other),
         SameIdentity(mesh, other),
         Cardinality(Merged(mesh, other).admissions) <= MaxAdmissions
  PROVE  Verify(Merged(mesh, other))
<1> DEFINE A == {b \in other.admissions :
                   \A a \in mesh.admissions : Key(a) # Key(b)}
           D == {e \in other.departures :
                   \A d \in mesh.departures : DepartureKey(d) # DepartureKey(e)}
           m == Merged(mesh, other)
<1>1. /\ m.identity = mesh.identity /\ mesh.identity = other.identity
      /\ m.admissions = mesh.admissions \cup A
      /\ m.departures = mesh.departures \cup D
  BY DEF Merged, SameIdentity, Mesh
<1>2. Sized(m)
  BY <1>1 DEF Sized, Verify
<1> HIDE DEF m
<1>3. UniqueKeys(m)
  <2>1. \A a, b \in m.admissions : Key(a) = Key(b) => a = b
    BY <1>1 DEF UniqueKeys, Verify
  <2>2. \A d, e \in m.departures : DepartureKey(d) = DepartureKey(e) => d = e
    BY <1>1 DEF UniqueKeys, Verify
  <2> QED BY <2>1, <2>2 DEF UniqueKeys
<1>4. \A b \in other.admissions : \E a \in m.admissions : Key(a) = Key(b)
  BY <1>1
<1>5. \A e \in other.departures :
        \E d \in m.departures : DepartureKey(d) = DepartureKey(e)
  BY <1>1
<1>6. DeparturesMatch(m)
  <2>1. \A d \in mesh.departures : \E a \in m.admissions : Key(a) = DepartureKey(d)
    BY <1>1 DEF DeparturesMatch, Verify
  <2>2. \A e \in other.departures : \E a \in m.admissions : Key(a) = DepartureKey(e)
    BY <1>4 DEF DeparturesMatch, Verify
  <2> QED BY <1>1, <2>1, <2>2 DEF DeparturesMatch
<1>7. ReadmissionsFollow(m)
  <2>1. \A id, k : DepartedGeneration(mesh, id, k) => DepartedGeneration(m, id, k)
    BY <1>1 DEF DepartedGeneration
  <2>2. \A id, k : DepartedGeneration(other, id, k) => DepartedGeneration(m, id, k)
    BY <1>5 DEF DepartedGeneration
  <2> QED BY <1>1, <2>1, <2>2 DEF ReadmissionsFollow, Verify
<1>8. SignaturesVerify(m)
  BY <1>1 DEF SignaturesVerify, Verify
<1>9. Founded(m)
  BY <1>1 DEF Founded, Verify
<1>10. Traceable(m)
  <2>1. Trusted(mesh) \subseteq Trusted(m)
    BY <1>1, TrustedGrows
  <2>2. Trusted(other) \subseteq Trusted(m)
    <3> SUFFICES ASSUME NEW T \in SUBSET Node, FounderOf(m.identity) \in T,
                        ClosedUnderAdmission(m, T)
                 PROVE  Trusted(other) \subseteq T
      BY DEF Trusted
    <3>1. Trusted(mesh) \subseteq T
      BY <1>1, TrustedIsLeast DEF ClosedUnderAdmission
    <3>2. \A a \in mesh.admissions : a.member.id \in T
      BY <1>1, <3>1 DEF ClosedUnderAdmission, Traceable, Verify
    <3>3. ASSUME NEW b \in other.admissions, b.issuer \in T
          PROVE  b.member.id \in T
      <4>1. CASE b \in A
        BY <1>1, <3>3, <4>1 DEF ClosedUnderAdmission
      <4>2. CASE b \notin A
        <5>1. PICK a \in mesh.admissions : Key(a) = Key(b)
          BY <4>2
        <5> QED BY <3>2, <5>1 DEF Key
      <4> QED BY <4>1, <4>2
    <3>4. ClosedUnderAdmission(other, T)
      BY <3>3 DEF ClosedUnderAdmission
    <3> QED BY <1>1, <3>4, TrustedIsLeast
  <2>3. \A a \in mesh.admissions : a.issuer \in Trusted(m)
    BY <2>1 DEF Traceable, Verify
  <2>4. \A b \in other.admissions : b.issuer \in Trusted(m)
    BY <2>2 DEF Traceable, Verify
  <2> QED BY <1>1, <2>3, <2>4 DEF Traceable
<1> QED BY <1>2, <1>3, <1>6, <1>7, <1>8, <1>9, <1>10 DEF Verify, m
=============================================================================
