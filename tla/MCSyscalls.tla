----------------------------- MODULE MCSyscalls -----------------------------
(* Instances of Syscalls for TLC: the lengths of the messages and the symmetries. *)
EXTENDS Syscalls, TLC

CONSTANT m1

MCMsgLen == [m \in Messages |-> IF m = m1 THEN 1 ELSE 3]

\* Addresses and threads are interchangeable; blocks and messages are not.
Symmetry == Permutations(Nodes) \cup Permutations(Putters) \cup Permutations(Updaters)
=============================================================================
