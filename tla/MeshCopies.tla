------------------------------ MODULE MeshCopies ------------------------------
(* Copies of meshes held by different devices, changed independently with    *)
(* Mesh::admit, Mesh::depart and Mesh::merge.  A Mesh value is only ever made *)
(* by Mesh::create (or read back from a legacy state file), cloned, or       *)
(* changed by these three operations, so a copy here stands for any such     *)
(* value: the mesh in a node's memory, in its state file, in a snapshot under*)
(* way, or in its collection of meshes it left.                              *)
EXTENDS Membership

CONSTANT Copy

VARIABLE copies

\* Random ids are unique: copies with the same random id are clones of one
\* founding mesh.  A legacy id is the founder's key, so a device may have
\* founded two legacy meshes with one id.
Init ==
  /\ copies \in [Copy -> {Founding(i, m) : i \in Identity, m \in Member}]
  /\ \A c \in Copy :
       /\ WellFormed(copies[c].identity)
       /\ \A a \in copies[c].admissions : a.issuer = FounderOf(copies[c].identity)
  /\ \A c, d \in Copy :
       copies[c].identity.id = copies[d].identity.id
       /\ copies[c].identity.id \in RandomMeshId => copies[c] = copies[d]

\* Any device may hold any copy; `admit' refuses a key that is no member.
AdmitDevice(c, key, member) ==
  /\ CanAdmit(copies[c], member, key)
  /\ copies' = [copies EXCEPT ![c] = Admit(copies[c], member, key)]

DepartDevice(c, key) ==
  /\ CanDepart(copies[c], key)
  /\ copies' = [copies EXCEPT ![c] = Depart(copies[c], key)]

MergeCopy(c, d) ==
  /\ Mergeable(copies[c], copies[d])
  /\ copies' = [copies EXCEPT ![c] = Merged(copies[c], copies[d])]

Next ==
  \E c \in Copy :
    \/ \E key \in Node, member \in Member : AdmitDevice(c, key, member)
    \/ \E key \in Node : DepartDevice(c, key)
    \/ \E d \in Copy : MergeCopy(c, d)

Spec == Init /\ [][Next]_copies

-----------------------------------------------------------------------------
(* Properties *)

\* The records of a copy have the shapes of the source's types, the number of
\* admissions is finite, and generations stay within u32.
TypeOK == copies \in [Copy -> Mesh]

\* Every copy verifies after every operation.  admit and depart push a record
\* without verifying the result, and the copy is then saved and sent: had it
\* stopped verifying, the state file would no longer open and no peer would
\* accept the snapshot (membership.rs:185, storage.rs:165).
AllVerify == \A c \in Copy : Verify(copies[c])

\* Two copies of one mesh can always be merged unless the same (device,
\* generation) was admitted under two nicknames or the union exceeds the
\* admission limit: no other history of independent enrolments, departures
\* and readmissions makes them incompatible (membership.rs:335).
MergeBlockedOnlyByLimits ==
  \A c, d \in Copy :
    SameIdentity(copies[c], copies[d]) =>
      \/ Mergeable(copies[c], copies[d])
      \/ NameConflict(copies[c], copies[d])
      \/ Cardinality(Merged(copies[c], copies[d]).admissions) > MaxAdmissions

\* Once a copy cannot take over another one of the same mesh, neither of the two
\* ever can: the merge is refused in the other direction too, so that no device
\* goes on with a union whose other holder cannot follow, and no departure,
\* readmission or merge with further copies resolves the conflict, be it one of
\* nicknames or of the limit (wiki/design/nodes.md:55, membership.rs:305, 343).
ConflictsAreFinal ==
  [][\A c, d \in Copy :
       SameIdentity(copies[c], copies[d]) /\ ~Mergeable(copies[c], copies[d])
       => ~Mergeable(copies[c], copies[d])' /\ ~Mergeable(copies[d], copies[c])']_copies

\* Two copies that have each merged the other list the same members, although
\* each keeps its own record where both admitted the same device: membership
\* converges by (device, generation) whichever side merges first.
MergeConverges ==
  \A c, d \in Copy :
    LET cd == Merged(copies[c], copies[d])
        dc == Merged(copies[d], copies[c])
    IN  Mergeable(copies[c], copies[d]) /\ Mergeable(copies[d], copies[c]) =>
          /\ Members(cd) = Members(dc)
          /\ \A n \in Node : Standing(cd, n) = Standing(dc, n)

\* A device that left is listed again only after an admission that knows of
\* its departure: merging a stale copy never brings it back, and the step
\* that does bring it back raises its generation (membership.rs:248, 306).
DepartedStaysOut ==
  [][\A c \in Copy, n \in Node :
       /\ Departed(copies[c], n)
       /\ IsMember(copies'[c], n)
       => LatestAdmission(copies'[c], n).generation
            > LatestAdmission(copies[c], n).generation]_copies

\* The records implement the standings: every admission, departure and merge
\* is one step of the abstract specification or none.
Abstract == INSTANCE Standing WITH
  identity <- [c \in Copy |-> copies[c].identity],
  standing <- [c \in Copy |-> [n \in Node |-> Standing(copies[c], n)]]

ImplementsStanding == Abstract!Spec
=============================================================================
