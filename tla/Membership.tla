------------------------------ MODULE Membership ------------------------------
(* The signed membership log of one mesh: the data types of                  *)
(* rust/crates/node/src/membership.rs and the pure operations on them.       *)
(*                                                                           *)
(* A mesh copy is an identity and two sets of signed records.  Simplifications*)
(*   - the Vecs of records are sets: no operation depends on their order;    *)
(*   - a signature is the identity its payload binds (`sealed') together with*)
(*     the record's own fields: a signature verifies exactly when the record *)
(*     is checked against the mesh it was signed for;                        *)
(*   - names are opaque and valid (validate_name is not modelled).           *)
EXTENDS Naturals, FiniteSets

CONSTANTS
  Node,            \* devices, named by their public keys
  RandomMeshId,    \* mesh ids drawn at random by Mesh::create
  MeshName,        \* display names of meshes
  Nickname,        \* display names of devices
  MaxAdmissions,   \* MAX_ADMISSIONS, 256 in the code
  MaxGeneration,   \* u32::MAX in the code
  None             \* the absent founder of a legacy mesh

ASSUME MembershipAssumption ==
  /\ MaxAdmissions \in Nat \ {0}
  /\ MaxGeneration \in Nat
  /\ Node \cap RandomMeshId = {}
  /\ None \notin Node \cup RandomMeshId

-----------------------------------------------------------------------------
(* Types *)

\* A legacy mesh id is the public key of the device that founded the mesh.
MeshId == Node \cup RandomMeshId
Identity == [id : MeshId, name : MeshName, founder : Node \cup {None}]
Member == [id : Node, name : Nickname]
Generation == 0 .. MaxGeneration

Admission ==
  [member : Member, issuer : Node, generation : Generation, sealed : Identity]
Departure == [member : Node, generation : Generation, sealed : Identity]

Mesh == [identity : Identity,
         admissions : {S \in SUBSET Admission : IsFiniteSet(S)},
         departures : SUBSET Departure]

\* The keys by which copies are merged: one record for each.
Key(admission) == <<admission.member.id, admission.generation>>
DepartureKey(departure) == <<departure.member, departure.generation>>

-----------------------------------------------------------------------------
(* Queries *)

AdmissionsOf(mesh, id) == {a \in mesh.admissions : a.member.id = id}

IsLatest(mesh, admission) ==
  \A b \in AdmissionsOf(mesh, admission.member.id) :
    b.generation <= admission.generation

LatestAdmission(mesh, id) ==
  CHOOSE a \in AdmissionsOf(mesh, id) : IsLatest(mesh, a)

DepartedGeneration(mesh, id, generation) ==
  \E d \in mesh.departures : DepartureKey(d) = <<id, generation>>

\* Faulty variant: membership is not taken back by a departure.
LatestAdmissions(mesh) == {a \in mesh.admissions : IsLatest(mesh, a)}

\* A device is a member when its latest admission has no departure.
CurrentAdmissions(mesh) ==
  {a \in mesh.admissions :
     IsLatest(mesh, a) /\ ~DepartedGeneration(mesh, a.member.id, a.generation)}

Members(mesh) == {a.member : a \in CurrentAdmissions(mesh)}
MemberIds(mesh) == {a.member.id : a \in CurrentAdmissions(mesh)}
IsMember(mesh, id) == id \in MemberIds(mesh)
MemberOf(mesh, id) == CHOOSE x \in Members(mesh) : x.id = id

Departed(mesh, id) ==
  \E a \in AdmissionsOf(mesh, id) :
    IsLatest(mesh, a) /\ DepartedGeneration(mesh, id, a.generation)

-----------------------------------------------------------------------------
(* Verification *)

WellFormed(identity) == (identity.id \in Node) <=> (identity.founder = None)
FounderOf(identity) ==
  IF identity.id \in Node THEN identity.id ELSE identity.founder

Sized(mesh) ==
  mesh.admissions # {} /\ Cardinality(mesh.admissions) <= MaxAdmissions

UniqueKeys(mesh) ==
  /\ \A a, b \in mesh.admissions : Key(a) = Key(b) => a = b
  /\ \A d, e \in mesh.departures : DepartureKey(d) = DepartureKey(e) => d = e

DeparturesMatch(mesh) ==
  \A d \in mesh.departures : \E a \in mesh.admissions : Key(a) = DepartureKey(d)

ReadmissionsFollow(mesh) ==
  \A a \in mesh.admissions :
    a.generation = 0 \/ DepartedGeneration(mesh, a.member.id, a.generation - 1)

SignaturesVerify(mesh) ==
  \A r \in mesh.admissions \cup mesh.departures : r.sealed = mesh.identity

Founded(mesh) ==
  /\ WellFormed(mesh.identity)
  /\ \E root \in mesh.admissions :
       /\ Key(root) = <<FounderOf(mesh.identity), 0>>
       /\ root.issuer = FounderOf(mesh.identity)

(* The devices the trust loop reaches from the founder: the least set that   *)
(* holds the founder and every device admitted by one of its elements.  The  *)
(* loop itself is in TrustLoop, where the two are compared.                  *)
ClosedUnderAdmission(mesh, trusted) ==
  \A a \in mesh.admissions : a.issuer \in trusted => a.member.id \in trusted

Trusted(mesh) ==
  {n \in Node :
     \A T \in SUBSET Node :
       FounderOf(mesh.identity) \in T /\ ClosedUnderAdmission(mesh, T) => n \in T}

Traceable(mesh) == \A a \in mesh.admissions : a.issuer \in Trusted(mesh)

Verify(mesh) ==
  /\ Sized(mesh)
  /\ UniqueKeys(mesh)
  /\ DeparturesMatch(mesh)
  /\ ReadmissionsFollow(mesh)
  /\ SignaturesVerify(mesh)
  /\ Founded(mesh)
  /\ Traceable(mesh)

-----------------------------------------------------------------------------
(* Founding, admitting, leaving *)

SignedAdmission(mesh, member, generation, key) ==
  [member |-> member, issuer |-> key, generation |-> generation,
   sealed |-> mesh.identity]

SignedDeparture(mesh, generation, key) ==
  [member |-> key, generation |-> generation, sealed |-> mesh.identity]

Founding(identity, member) ==
  LET empty == [identity |-> identity, admissions |-> {}, departures |-> {}]
  IN  [empty EXCEPT !.admissions = {SignedAdmission(empty, member, 0, member.id)}]

NextGeneration(mesh, id) ==
  IF AdmissionsOf(mesh, id) = {} THEN 0
  ELSE LatestAdmission(mesh, id).generation + 1

\* Faulty variants: no limits on records, any device may admit.
AdmitsWithoutLimits(mesh, member, key) ==
  /\ IsMember(mesh, key)
  /\ IsMember(mesh, member.id) => MemberOf(mesh, member.id).name = member.name

AdmitsForAnyone(mesh, member, key) ==
  /\ key # member.id
  /\ IF IsMember(mesh, member.id)
     THEN MemberOf(mesh, member.id).name = member.name
     ELSE /\ Cardinality(mesh.admissions) < MaxAdmissions
          /\ NextGeneration(mesh, member.id) \in Generation

\* Mesh::admit succeeds.  checked_add makes the last generation final.
CanAdmit(mesh, member, key) ==
  /\ IsMember(mesh, key)
  /\ IF IsMember(mesh, member.id)
     THEN MemberOf(mesh, member.id).name = member.name
     ELSE /\ Cardinality(mesh.admissions) < MaxAdmissions
          /\ NextGeneration(mesh, member.id) \in Generation

\* The result of Mesh::admit: it is not verified again.
Admit(mesh, member, key) ==
  IF IsMember(mesh, member.id) THEN mesh
  ELSE [mesh EXCEPT !.admissions = @ \cup
          {SignedAdmission(mesh, member, NextGeneration(mesh, member.id), key)}]

CanDepart(mesh, key) == IsMember(mesh, key)

\* Faulty variant: the departure names the generation after the one it ends.
DepartNext(mesh, key) ==
  [mesh EXCEPT !.departures = @ \cup
     {SignedDeparture(mesh, LatestAdmission(mesh, key).generation + 1, key)}]

\* The result of Mesh::depart: it is not verified again.
Depart(mesh, key) ==
  [mesh EXCEPT !.departures = @ \cup
     {SignedDeparture(mesh, LatestAdmission(mesh, key).generation, key)}]

-----------------------------------------------------------------------------
(* Merging *)

SameIdentity(mesh, other) == mesh.identity = other.identity

NameConflict(mesh, other) ==
  \E a \in mesh.admissions, b \in other.admissions :
    Key(a) = Key(b) /\ a.member.name # b.member.name

\* Faulty variant: the other copy's departures are dropped.
MergedAdmissionsOnly(mesh, other) ==
  [mesh EXCEPT
     !.admissions = @ \cup {b \in other.admissions :
                              \A a \in mesh.admissions : Key(a) # Key(b)}]

\* Faulty variant: a record for a device that has one already is skipped.
MergedByDevice(mesh, other) ==
  [mesh EXCEPT
     !.admissions = @ \cup {b \in other.admissions :
                              AdmissionsOf(mesh, b.member.id) = {}},
     !.departures = @ \cup other.departures]

\* Own records are retained; the other's fill the keys that are missing.
Merged(mesh, other) ==
  [mesh EXCEPT
     !.admissions = @ \cup {b \in other.admissions :
                              \A a \in mesh.admissions : Key(a) # Key(b)},
     !.departures = @ \cup {e \in other.departures :
                              \A d \in mesh.departures :
                                DepartureKey(d) # DepartureKey(e)}]

\* Faulty variant: a copy with no more records than one's own is taken without
\* verifying the result.
MergeableIfSmaller(mesh, other) ==
  /\ Verify(other)
  /\ SameIdentity(mesh, other)
  /\ ~NameConflict(mesh, other)
  /\ \/ Cardinality(other.admissions) <= Cardinality(mesh.admissions)
     \/ Verify(Merged(mesh, other))

\* Mesh::merge succeeds.
Mergeable(mesh, other) ==
  /\ Verify(other)
  /\ SameIdentity(mesh, other)
  /\ ~NameConflict(mesh, other)
  /\ Verify(Merged(mesh, other))

-----------------------------------------------------------------------------
(* Standing: what a copy says of a device, as one number.                    *)
(* 0: never admitted; 2g + 1: member by admission g; 2g + 2: departed from   *)
(* admission g.                                                              *)
Standing(mesh, id) ==
  IF AdmissionsOf(mesh, id) = {} THEN 0
  ELSE LET g == LatestAdmission(mesh, id).generation
       IN  IF DepartedGeneration(mesh, id, g) THEN 2 * g + 2 ELSE 2 * g + 1
=============================================================================
