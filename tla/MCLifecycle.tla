---------------------------- MODULE MCLifecycle -----------------------------
(* Instances of Lifecycle for TLC: a small system call table and the symmetries. *)
EXTENDS Lifecycle, TLC

MCOriginal == <<"used", "ni", "ni", "used", "ni", "ni", "ni", "ni">>

\* Devices, their superblocks and callers are interchangeable.
Symmetry == Permutations(Callers) \cup Permutations(Mounters) \cup Permutations(Superblocks)
=============================================================================
