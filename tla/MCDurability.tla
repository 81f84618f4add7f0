---------------------------- MODULE MCDurability ----------------------------
(* Instances of Durability for TLC: the lengths of the messages and the symmetries. *)
EXTENDS Durability, TLC

MCMsgLen == [m \in Messages |-> 1]

\* Addresses and threads are interchangeable; blocks and messages are not.
Symmetry == Permutations(Nodes) \cup Permutations(Putters) \cup Permutations(Updaters)
=============================================================================
