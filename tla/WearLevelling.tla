--------------------------- MODULE WearLevelling ----------------------------
(***************************************************************************)
(* The circular allocation of MessageStore with a history variable that    *)
(* records, for each free block, which blocks were written while it was    *)
(* free.                                                                   *)
(***************************************************************************)
EXTENDS MessageStore

VARIABLE written_since   \* blocks written since this one became free

wearVars == <<store, last, written_since>>

WearInit == StoreInit /\ written_since = [b \in Slots |-> {}]

WearPut ==
    /\ Put
    /\ written_since' = [b \in Slots |->
           IF store'[b] # Empty THEN {} ELSE written_since[b] \cup {last'}]

WearInvalidate == Invalidate /\ UNCHANGED written_since

WearNext == WearPut \/ WearInvalidate

WearSpec == WearInit /\ [][WearNext]_wearVars
-----------------------------------------------------------------------------
\* Types of the store and of the history variable.
WearTypeOK ==
    /\ store \in [Slots -> Stored \cup {Empty}]
    /\ last \in Slots
    /\ written_since \in [Slots -> SUBSET Slots]

\* The circular search of put_data (syscalls.c:139-150) spreads the writes: while a
\* block stays free no other block is written twice, so a free block is reused
\* after at most NumBlocks - 1 puts to other blocks.
NoBlockWrittenTwice ==
    [][WearPut => \A b \in Slots : store'[b] = Empty => last' \notin written_since[b]]_wearVars
=============================================================================
