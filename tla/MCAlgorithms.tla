------------------------------ MODULE MCAlgorithms ------------------------------
(* The two algorithms that run inside one call, over every input up to a      *)
(* bound: the loop of Mesh::verify (TrustLoop) and the canonical bytes of a   *)
(* transform document (Transform).  They share no state; documents are made   *)
(* after the loop has ended on the list that has only the founder.            *)
EXTENDS TrustLoop, Transform

AlgorithmsInit == LoopInit /\ TransformInit

LoopStep == LoopNext /\ UNCHANGED transformVars

DocumentNext ==
  /\ Len(records) = 1 /\ verdict # "running"
  /\ TransformNext
  /\ UNCHANGED loopVars

AlgorithmsSpec ==
  /\ AlgorithmsInit
  /\ [][LoopStep \/ DocumentNext]_<<loopVars, transformVars>>

-----------------------------------------------------------------------------
(* Bytes that can be read as a letter, a digit, a length or a tag *)

TwoHashes == {<<1, 97>>, <<49, 1>>}
Names == {<<97>>, <<98>>, <<97, 49>>, <<97, 98>>,       \* a, b, a1, ab
          <<>>, <<65>>, <<49, 97>>, <<97, 47>>}
Attributes == {<<97>>, <<97, 1>>, <<>>, <<32>>, <<97, 0>>}
=============================================================================
