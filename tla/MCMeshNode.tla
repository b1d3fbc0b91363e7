------------------------------ MODULE MCMeshNode ------------------------------
(* Small instances of MeshNode for TLC. *)
EXTENDS MeshNode, TLC

OneName == [n \in Node |-> CHOOSE x \in Nickname : TRUE]

\* Sound for Spec, whose formulas treat all devices, ids and secrets alike.
Symmetry ==
  Permutations(Node) \cup Permutations(RandomMeshId) \cup Permutations(Secret)

(* Reachable states to start the instances with three devices from: every    *)
(* device runs, and the founder has enrolled the second one.                 *)
Founder == CHOOSE n \in Node : TRUE
Second == CHOOSE n \in Node : n # Founder
AloneMesh ==
  Founding(NewIdentity(Founder, CHOOSE id \in RandomMeshId : TRUE,
                       CHOOSE x \in MeshName : TRUE), Self(Founder))
MeshOfTwo == Admit(AloneMesh, Self(Second), Founder)

RunningInit(founderMesh) ==
  /\ disk = [n \in Node |-> IF n = Founder THEN [NoMesh EXCEPT !.mesh = founderMesh]
                            ELSE IF n = Second THEN [NoMesh EXCEPT !.mesh = MeshOfTwo]
                            ELSE NoMesh]
  /\ mem = disk
  /\ pending = [n \in Node |-> None]
  /\ owner = [s \in Secret |-> None]
  /\ expired = {}
  /\ calls = {}
  /\ created = {AloneMesh.identity.id}
  /\ left = {}
  /\ redeemed = [s \in Secret |-> 0]
  /\ spent = [stops |-> 0, losses |-> 0, faults |-> 0]

\* The acknowledgment arrived, or it was lost and only the second device
\* knows that it is a member.
StartedInit == RunningInit(MeshOfTwo)
UnacknowledgedInit == RunningInit(AloneMesh)

StartedSpec == StartedInit /\ [][Next]_vars
ConvergenceSpec == UnacknowledgedInit /\ [][Next]_vars /\ Fairness
=============================================================================
