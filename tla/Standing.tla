------------------------------- MODULE Standing -------------------------------
(* What the signed membership log promises, without its records: in every    *)
(* copy of a mesh each device has a standing that only grows.                *)
(*   0       the device was never admitted                                   *)
(*   2g + 1  it is a member by its admission of generation g                 *)
(*   2g + 2  it left that admission                                          *)
(* A current member may admit a device that is not one, a device may leave,  *)
(* and a copy may take over another copy's knowledge of the same mesh: for   *)
(* every device the larger of the two standings.                             *)
EXTENDS Naturals

CONSTANTS Copy, Node, Identity

VARIABLES
  identity,   \* the mesh each copy is a copy of
  standing    \* the standing of each device in each copy

vars == <<identity, standing>>

IsOdd(n) == n % 2 = 1
Larger(m, n) == IF m < n THEN n ELSE m

Init ==
  /\ identity \in [Copy -> Identity]
  /\ \E founder \in [Copy -> Node] :
       standing = [c \in Copy |-> [n \in Node |-> IF n = founder[c] THEN 1 ELSE 0]]

\* A member admits a device that was never admitted or has left.
Admit(c, key, n) ==
  /\ IsOdd(standing[c][key])
  /\ ~IsOdd(standing[c][n])
  /\ standing' = [standing EXCEPT ![c][n] = @ + 1]
  /\ UNCHANGED identity

Depart(c, n) ==
  /\ IsOdd(standing[c][n])
  /\ standing' = [standing EXCEPT ![c][n] = @ + 1]
  /\ UNCHANGED identity

Merge(c, d) ==
  /\ identity[c] = identity[d]
  /\ standing' = [standing EXCEPT ![c] =
                    [n \in Node |-> Larger(standing[c][n], standing[d][n])]]
  /\ UNCHANGED identity

Next ==
  \E c \in Copy :
    \/ \E key, n \in Node : Admit(c, key, n)
    \/ \E n \in Node : Depart(c, n)
    \/ \E d \in Copy : Merge(c, d)

Spec == Init /\ [][Next]_vars
=============================================================================
