-------------------------- MODULE MCWearLevelling ---------------------------
(* Instances of WearLevelling for TLC. *)
EXTENDS WearLevelling

MCMsgLen == [m \in Messages |-> 1]
=============================================================================
