--------------------------- MODULE MCReadSession ----------------------------
(* Instances of ReadSession for TLC: the lengths of the messages and the symmetries. *)
EXTENDS ReadSession, TLC

CONSTANT m1

MCMsgLen == [m \in Messages |-> IF m = m1 THEN 0 ELSE 2]

\* Addresses are interchangeable.
Symmetry == Permutations(Nodes)
=============================================================================
