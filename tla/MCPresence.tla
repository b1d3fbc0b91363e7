------------------------------ MODULE MCPresence ------------------------------
(* A small instance of Presence for TLC. *)
EXTENDS Presence, TLC

Symmetry == Permutations(Node)

\* Two faults together, and a third one where a task panicked, the nodes are
\* local, so that they depend on the addresses they keep, and nobody leaves.  A
\* lost heartbeat is one as long as no later one of the node was prompt.
Losing == {n \in Node : lost[n] > 0}
ThreeFaults == ~discovery /\ faults.departures = 0 /\ faults.panics > 0
InScope == AllFaults + Cardinality(Losing) <= IF ThreeFaults THEN 3 ELSE 2

ScopedSpec == Init /\ [][Next /\ InScope']_vars
=============================================================================
