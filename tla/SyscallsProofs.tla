--------------------------- MODULE SyscallsProofs ---------------------------
(***************************************************************************)
(* Theorems about Syscalls, for any number of threads, blocks, addresses,  *)
(* messages and timestamps.                                                *)
(***************************************************************************)
EXTENDS PutProofs, GetProofs, InvalidateProofs

\* Every step of every call preserves the memory invariant and the order of the list.
LEMMA NextMem == MemInv /\ ListSorted /\ [Next]_vars => MemInv' /\ ListSorted'
<1> SUFFICES ASSUME MemInv, ListSorted, [Next]_vars PROVE MemInv' /\ ListSorted'
  OBVIOUS
<1>1. ASSUME NEW p \in Putters, PutNext(p) PROVE MemInv' /\ ListSorted'
  <2>1. CASE PutPrepare(p)
    BY <2>1, PutPrepareMem
  <2>2. CASE PutLock(p) \/ PutCopy(p) \/ PutReturn(p)
    BY <2>2, PutFrameMem
  <2>3. CASE PutNoSpace(p)
    <3>1. Preparing(p) /\ PutError(p) /\ md_freed' \subseteq Blocks
      BY <2>3 DEF PutNoSpace, Preparing, MemInv, TypeOK, DevTypeOK
    <3> QED
      BY <3>1, PutErrorMem
  <2>4. CASE PutBreadFails(p)
    <3>1. Preparing(p) /\ PutError(p) /\ md_freed' \subseteq Blocks
      BY <2>4 DEF PutBreadFails, Preparing, MemInv, TypeOK, DevTypeOK
    <3> QED
      BY <3>1, PutErrorMem
  <2>5. CASE PutPublish(p)
    BY <2>5, PutPublishMem
  <2> QED
    BY <1>1, <2>1, <2>2, <2>3, <2>4, <2>5 DEF PutNext
<1>2. ASSUME NEW g \in Getters, GetNext(g) PROVE MemInv' /\ ListSorted'
  <2>1. CASE GetEnter(g)
    BY <2>1, GetEnterMem
  <2>2. CASE GetHop(g)
    BY <2>2, GetHopMem
  <2>3. CASE GetFound(g) \/ GetRead(g) \/ GetCopy(g)
    BY <2>3, GetFrameMem
  <2>4. CASE GetMiss(g) \/ GetBreadFails(g) \/ GetReturn(g)
    BY <2>4, GetLeaveMem DEF GetMiss, GetBreadFails, GetReturn
  <2> QED
    BY <1>2, <2>1, <2>2, <2>3, <2>4 DEF GetNext
<1>3. ASSUME NEW i \in Updaters, InvNext(i) PROVE MemInv' /\ ListSorted'
  BY <1>3, InvUnlinkMem, InvSynchronizeMem, InvFreeMem DEF InvNext
<1>4. CASE UNCHANGED vars
  <2>1. UNCHANGED <<valid_blk_list, elem, stale_next, heap, cursor, waiting, removed_since,
                    rcu_write_lock, metadata_array, md_freed, last_written_block, buffer,
                    put, get, inv>>
    BY <1>4 DEF vars, rcuVars, devVars, callVars
  <2>2. /\ RcuTypeOK /\ ElemBlocks /\ DevTypeOK /\ PutTypeOK /\ GetTypeOK /\ InvTypeOK
    BY MemInvParts
  <2>3. RcuTypeOK'
    BY <2>1, <2>2 DEF RcuTypeOK
  <2>4. ElemBlocks' /\ DevTypeOK' /\ PutTypeOK' /\ GetTypeOK' /\ InvTypeOK'
    BY <2>1, <2>2 DEF ElemBlocks, DevTypeOK, PutTypeOK, GetTypeOK, InvTypeOK
  <2>5. TypeOK'
    BY <2>3, <2>4 DEF TypeOK
  <2>6. \A q \in Putters : (Preparing(q)' <=> Preparing(q)) /\ put'[q].el = put[q].el
    BY <2>1 DEF Preparing
  <2> QED
    BY <2>1, <2>5, <2>6, FrameMem
<1> QED
  BY <1>1, <1>2, <1>3, <1>4 DEF Next

\* The memory invariant holds in every state of every execution.
THEOREM MemoryInvariant == Spec => [](MemInv /\ ListSorted)
<1>1. Init => MemInv /\ ListSorted
  BY InitMem
<1>2. MemInv /\ ListSorted /\ [Next]_vars => (MemInv /\ ListSorted)'
  BY NextMem
<1> QED
  BY <1>1, <1>2, PTL DEF Spec

\* Type correctness of the three system calls, for every instance.
THEOREM TypeCorrect == Spec => []TypeOK
<1>1. MemInv /\ ListSorted => TypeOK
  BY DEF MemInv
<1> QED
  BY <1>1, MemoryInvariant, PTL

\* add_valid_block_in_order_secure and list_del_rcu keep valid_blk_list in timestamp order
\* in every interleaving of the calls, whatever the timestamps.
THEOREM SortedList == Spec => []ListSorted
BY MemoryInvariant, PTL

\* Readers stand on listed elements, or on unlinked ones whose grace period has not ended.
LEMMA NoReaderOnFree == MemInv => NoUseAfterFree
<1> SUFFICES ASSUME MemInv, NEW r \in Readers, cursor[r] \in Nodes
             PROVE  cursor[r] \notin heap \cup Private
  BY DEF NoUseAfterFree
<1>1. FreeUnlinked /\ PutsOwn /\ CallsApart /\ CursorCovered /\ GraceCovers /\ InvsOwn
  BY MemInvParts
<1>2. CASE cursor[r] \in Linked
  <2>1. cursor[r] \notin heap
    BY <1>1, <1>2 DEF FreeUnlinked
  <2>2. cursor[r] \notin Private
    BY <1>1, <1>2 DEF PutsOwn, Private
  <2> QED
    BY <2>1, <2>2
<1>3. CASE cursor[r] \in removed_since[r]
  <2>1. PICK i \in Updaters : Removing(i) /\ inv[i].el = cursor[r]
    BY <1>1, <1>3 DEF GraceCovers, Awaited
  <2>2. cursor[r] \notin heap
    BY <1>1, <2>1 DEF InvsOwn
  <2>3. cursor[r] \notin Private
    BY <1>1, <2>1 DEF CallsApart, Private
  <2> QED
    BY <2>2, <2>3
<1>4. cursor[r] \in Linked \cup removed_since[r]
  BY <1>1, HeadAssumption DEF CursorCovered
<1> QED
  BY <1>2, <1>3, <1>4

\* The grace period of invalidate_data (syscalls.c:364) is enough: no reader stands on
\* an element that was freed, or that was freed and given to another put.
THEOREM MemorySafety == Spec => []NoUseAfterFree
BY MemoryInvariant, NoReaderOnFree, PTL

\* No path of put_data or invalidate_data leaks an rcu_elem, frees one twice or links
\* one twice.
THEOREM Ownership == Spec => []SingleOwner
<1>1. MemInv /\ ListSorted => SingleOwner
  <2> SUFFICES ASSUME MemInv PROVE SingleOwner
    OBVIOUS
  <2>1. /\ RcuTypeOK /\ Distinct /\ FreeUnlinked /\ NoLeak
        /\ PutsOwn /\ InvsOwn /\ CallsApart
    BY MemInvParts
  <2>2. Linked \subseteq Nodes /\ heap \subseteq Nodes
    <3>1. valid_blk_list \in Seq(Nodes) /\ heap \subseteq Nodes
      BY <2>1 DEF RcuTypeOK
    <3> QED
      BY <3>1 DEF Linked
  <2>3. Private \subseteq Nodes \ (heap \cup Linked)
    BY <2>1 DEF PutsOwn, Private
  <2>4. Unlinked \subseteq Nodes \ (heap \cup Linked)
    BY <2>1 DEF InvsOwn, Unlinked
  <2>5. Private \cap Unlinked = {}
    BY <2>1 DEF CallsApart, Private, Unlinked
  <2>6. Nodes \subseteq heap \cup Private \cup Linked \cup Unlinked
    BY <2>1 DEF NoLeak, Private, Unlinked
  <2>7. heap \cap Linked = {}
    BY <2>1 DEF FreeUnlinked
  <2> QED
    BY <2>1, <2>2, <2>3, <2>4, <2>5, <2>6, <2>7 DEF SingleOwner
<1> QED
  BY <1>1, MemoryInvariant, PTL
=============================================================================
