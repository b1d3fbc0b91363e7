----------------------------- MODULE MCMeshCopies -----------------------------
(* A small instance of MeshCopies for TLC. *)
EXTENDS MeshCopies, TLC

CONSTANT PlainName   \* the nickname used where a third device takes part

Symmetry == Permutations(Copy) \cup Permutations(Node)

Devices == UNION {{a.member.id : a \in copies[c].admissions} : c \in Copy}

Leavers == UNION {{d.member : d \in copies[c].departures} : c \in Copy}

\* Two devices under any nickname and any kind of mesh id, with at most three
\* admissions; or three devices, of which two leave and return, of one mesh with
\* a random id, the only kind the code still creates, without conflicting
\* nicknames: five records, one more than a mesh may hold.
InScope ==
  \/ /\ Cardinality(Devices) <= 2
     /\ \A c \in Copy : Cardinality(copies[c].admissions) <= 3
  \/ \A c \in Copy :
       /\ copies[c].identity.id \in RandomMeshId
       /\ \A a \in copies[c].admissions : a.member.name = PlainName
       /\ Cardinality(Leavers) <= 2

ScopedSpec == Init /\ [][Next /\ InScope']_copies
=============================================================================
