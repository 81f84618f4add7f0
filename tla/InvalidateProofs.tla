-------------------------- MODULE InvalidateProofs --------------------------
(***************************************************************************)
(* invalidate_data preserves the memory invariant of Syscalls.             *)
(***************************************************************************)
EXTENDS MemoryProofs

\* The invalidation takes the element over from the list.  Readers inside a critical
\* section may stand on it, or reach it; its next pointer leads back to the list.
LEMMA InvUnlinkMem ==
    ASSUME MemInv, ListSorted, NEW i \in Updaters, InvUnlink(i)
    PROVE  MemInv' /\ ListSorted'
<1> USE HeadAssumption
<1>1. /\ RcuTypeOK /\ ElemBlocks /\ DevTypeOK /\ PutTypeOK /\ GetTypeOK /\ InvTypeOK
      /\ Distinct /\ FreeUnlinked /\ NoLeak /\ PutsOwn /\ InvsOwn
      /\ PutsApart /\ InvsApart /\ CallsApart
      /\ OutsideClear /\ CursorCovered /\ NextCovered /\ GraceCovers /\ GettersInside
  BY MemInvParts
<1>2. PICK k \in 1..Len(valid_blk_list) :
        /\ list_del_rcu(k)
        /\ metadata_array' = [metadata_array EXCEPT ![elem[valid_blk_list[k]].ndx].is_valid = FALSE]
        /\ buffer' = [buffer EXCEPT ![elem[valid_blk_list[k]].ndx].md =
                          metadata_array'[elem[valid_blk_list[k]].ndx]]
        /\ inv' = [inv EXCEPT ![i] = [pc |-> "unlinked", ndx |-> elem[valid_blk_list[k]].ndx,
                                      el |-> valid_blk_list[k]]]
  BY Zenon DEF InvUnlink
<1>3. /\ inv[i].pc = "idle"
      /\ UNCHANGED <<elem, heap, cursor, waiting,
                     rcu_write_lock, md_freed, last_written_block, put, get>>
  BY DEF InvUnlink
<1> DEFINE n == valid_blk_list[k]
           b == elem[n].ndx
           rec == [pc |-> "unlinked", ndx |-> b, el |-> n]
<1>4. /\ valid_blk_list' \in Seq(Nodes)
      /\ n \in Nodes \cap Linked
      /\ Linked' = Linked \ {n}
      /\ Distinct'
      /\ NextAt(k) \in Linked' \cup {HEAD}
      /\ ListSorted'
  BY <1>1, <1>2, <1>3, RemoveUnlinks
<1>5. /\ stale_next' = [stale_next EXCEPT ![n] = NextAt(k)]
      /\ removed_since' = [r \in Readers |->
             removed_since[r] \cup (IF r \in InCS THEN {n} ELSE {})]
  BY <1>2 DEF list_del_rcu
<1>6. inv' = [inv EXCEPT ![i] = rec]
  BY <1>2
<1>7. /\ metadata_array' = [metadata_array EXCEPT ![b].is_valid = FALSE]
      /\ buffer' = [buffer EXCEPT ![b].md = metadata_array'[b]]
  BY <1>2
<1>8. n \in Nodes /\ n \in Linked
  BY <1>4
<1> HIDE DEF n
<1>9. b \in Blocks
  BY <1>1, <1>8 DEF ElemBlocks
<1> HIDE DEF b
<1>10. rec \in InvType /\ rec.pc = "unlinked" /\ rec.el = n
  BY <1>8, <1>9 DEF InvType
<1> HIDE DEF rec
<1>11. /\ inv' \in [Updaters -> InvType]
       /\ inv'[i] = rec
       /\ \A j \in Updaters \ {i} : inv'[j] = inv[j]
  BY <1>1, <1>6, <1>10 DEF InvTypeOK
<1>12. TypeOK'
  <2>1. /\ stale_next' \in [Nodes -> Nodes \cup {HEAD, NULL}]
        /\ removed_since' \in [Readers -> SUBSET Nodes]
    <3>1. Linked \subseteq Nodes
      <4>1. valid_blk_list \in Seq(Nodes)
        BY <1>1 DEF RcuTypeOK
      <4> QED
        BY <4>1 DEF Linked
    <3>2. NextAt(k) \in Nodes \cup {HEAD, NULL}
      BY <1>4, <3>1
    <3> QED
      BY <1>1, <1>5, <1>8, <3>2 DEF RcuTypeOK
  <2>2. RcuTypeOK'
    BY <1>1, <1>3, <1>4, <2>1 DEF RcuTypeOK
  <2>3. metadata_array' \in [Blocks -> MetadataType]
    <3>1. metadata_array \in [Blocks -> MetadataType]
      BY <1>1 DEF DevTypeOK
    <3> DEFINE m == [metadata_array[b] EXCEPT !.is_valid = FALSE]
    <3>2. m \in MetadataType
      BY <1>9, <3>1 DEF MetadataType
    <3>3. metadata_array' = [metadata_array EXCEPT ![b] = m]
      BY <1>7
    <3> HIDE DEF m
    <3> QED
      BY <3>1, <3>2, <3>3
  <2>4. buffer' \in [Blocks -> BlockType]
    <3>1. buffer \in [Blocks -> BlockType] /\ metadata_array'[b] \in MetadataType
      BY <1>1, <1>9, <2>3 DEF DevTypeOK
    <3>2. [buffer EXCEPT ![b].md = metadata_array'[b]] \in [Blocks -> BlockType]
      BY <1>9, <3>1, BlockMetadata, Zenon
    <3> QED
      BY <1>7, <3>2
  <2>5. DevTypeOK'
    BY <1>1, <1>3, <2>3, <2>4 DEF DevTypeOK
  <2>6. ElemBlocks' /\ PutTypeOK' /\ GetTypeOK' /\ InvTypeOK'
    BY <1>1, <1>3, <1>11 DEF ElemBlocks, PutTypeOK, GetTypeOK, InvTypeOK
  <2> QED
    BY <2>2, <2>5, <2>6 DEF TypeOK
<1>13. ~Removing(i) /\ Removing(i)' /\ inv'[i].el = n
  BY <1>3, <1>10, <1>11 DEF Removing
<1>14. \A j \in Updaters \ {i} : (Removing(j)' <=> Removing(j)) /\ inv'[j].el = inv[j].el
  BY <1>11 DEF Removing
<1>15. \A q \in Putters : (Preparing(q)' <=> Preparing(q)) /\ put'[q].el = put[q].el
  BY <1>3 DEF Preparing
<1>16. n \notin heap
  BY <1>1, <1>8 DEF FreeUnlinked
<1>17. \A j \in Updaters : Removing(j) => inv[j].el # n
  BY <1>1, <1>8 DEF InvsOwn
<1>18. \A q \in Putters : Preparing(q) => put[q].el # n
  BY <1>1, <1>8 DEF PutsOwn
<1>19. Owners'
  <2>1. FreeUnlinked'
    BY <1>1, <1>3, <1>4 DEF FreeUnlinked
  <2>2. NoLeak'
    <3> SUFFICES ASSUME NEW o \in Nodes, o \notin heap, o \notin Linked'
                 PROVE  \/ \E q \in Putters : Preparing(q)' /\ put'[q].el = o
                        \/ \E j \in Updaters : Removing(j)' /\ inv'[j].el = o
      BY <1>3 DEF NoLeak
    <3>1. CASE o = n
      BY <1>13, <3>1
    <3>2. CASE o # n
      <4>1. o \notin Linked
        BY <1>4, <3>2
      <4>2. \/ \E q \in Putters : Preparing(q) /\ put[q].el = o
            \/ \E j \in Updaters \ {i} : Removing(j) /\ inv[j].el = o
        BY <1>1, <1>13, <4>1 DEF NoLeak
      <4> QED
        BY <1>14, <1>15, <4>2
    <3> QED
      BY <3>1, <3>2
  <2>3. PutsOwn'
    BY <1>1, <1>3, <1>4, <1>15 DEF PutsOwn
  <2>4. InvsOwn'
    <3>1. \A j \in Updaters \ {i} : Removing(j) => inv[j].el \in Nodes \ (heap \cup Linked')
      BY <1>1, <1>4 DEF InvsOwn
    <3>2. n \in Nodes \ (heap \cup Linked')
      BY <1>4, <1>8, <1>16
    <3> QED
      BY <1>3, <1>13, <1>14, <3>1, <3>2 DEF InvsOwn
  <2>5. PutsApart'
    BY <1>1, <1>15 DEF PutsApart
  <2>6. InvsApart'
    BY <1>1, <1>13, <1>14, <1>17 DEF InvsApart
  <2>7. CallsApart'
    BY <1>1, <1>13, <1>14, <1>15, <1>18 DEF CallsApart
  <2> QED
    BY <1>4, <2>1, <2>2, <2>3, <2>4, <2>5, <2>6, <2>7 DEF Owners
<1>20. ReadersCovered'
  <2>1. \A r \in Readers : removed_since'[r] = removed_since[r] \cup
                              (IF cursor[r] # NULL THEN {n} ELSE {})
    BY <1>5 DEF InCS
  <2>2. /\ stale_next'[n] = NextAt(k)
        /\ \A o \in Nodes \ {n} : stale_next'[o] = stale_next[o]
    BY <1>1, <1>5, <1>8 DEF RcuTypeOK
  <2>3. OutsideClear'
    BY <1>1, <1>3, <2>1 DEF OutsideClear
  <2>4. CursorCovered'
    <3> SUFFICES ASSUME NEW r \in Readers, cursor[r] # NULL
                 PROVE  cursor[r] \in Linked' \cup removed_since'[r] \cup {HEAD}
      BY <1>3 DEF CursorCovered
    <3>1. cursor[r] \in Linked \cup removed_since[r] \cup {HEAD}
      BY <1>1 DEF CursorCovered
    <3>2. removed_since'[r] = removed_since[r] \cup {n}
      BY <2>1
    <3> QED
      BY <1>4, <3>1, <3>2
  <2>5. ASSUME NEW r \in Readers, NEW o \in removed_since'[r], o # n
        PROVE  o \in removed_since[r] /\ o \in Nodes
    <3>1. o \in removed_since[r]
      BY <2>1, <2>5
    <3> QED
      BY <1>1, <3>1 DEF RcuTypeOK
  <2>6. ASSUME NEW r \in Readers, NEW o \in removed_since'[r]
        PROVE  stale_next'[o] \in Linked' \cup removed_since'[r] \cup {HEAD}
    <3>1. CASE o = n
      BY <1>4, <2>2, <3>1
    <3>2. CASE o # n
      <4>1. o \in removed_since[r] /\ o \in Nodes
        BY <2>5, <3>2
      <4>2. stale_next'[o] \in Linked \cup removed_since[r] \cup {HEAD}
        BY <1>1, <2>2, <3>2, <4>1 DEF NextCovered
      <4>3. cursor[r] # NULL
        BY <1>1, <4>1 DEF OutsideClear
      <4>4. removed_since'[r] = removed_since[r] \cup {n}
        BY <2>1, <4>3
      <4> QED
        BY <1>4, <4>2, <4>4
    <3> QED
      BY <3>1, <3>2
  <2>7. ASSUME NEW r \in Readers, NEW o \in removed_since'[r]
        PROVE  Awaited(r, o)'
    <3>1. CASE o = n
      BY <1>10, <1>11, <1>13, <3>1 DEF Awaited
    <3>2. CASE o # n
      <4>1. Awaited(r, o)
        BY <1>1, <2>5, <3>2 DEF GraceCovers
      <4>2. PICK j \in Updaters : /\ Removing(j) /\ inv[j].el = o
                                  /\ inv[j].pc = "unlinked" \/ r \in waiting[j]
        BY <4>1 DEF Awaited
      <4>3. j # i
        BY <1>13, <4>2
      <4>4. /\ Removing(j)' /\ inv'[j].el = o
            /\ inv'[j].pc = "unlinked" \/ r \in waiting'[j]
        BY <1>3, <1>11, <1>14, <4>2, <4>3
      <4> QED
        BY <4>4 DEF Awaited
    <3> QED
      BY <3>1, <3>2
  <2>8. NextCovered' /\ GraceCovers'
    BY <2>6, <2>7 DEF NextCovered, GraceCovers
  <2>9. GettersInside'
    BY <1>1, <1>3 DEF GettersInside
  <2> QED
    BY <2>3, <2>4, <2>8, <2>9 DEF ReadersCovered
<1> QED
  BY <1>4, <1>12, <1>19, <1>20 DEF MemInv

\* The grace period covers every reader that can still reach the element.
LEMMA InvSynchronizeMem ==
    ASSUME MemInv, ListSorted, NEW i \in Updaters, InvSynchronize(i)
    PROVE  MemInv' /\ ListSorted'
<1>1. /\ RcuTypeOK /\ ElemBlocks /\ DevTypeOK /\ PutTypeOK /\ GetTypeOK /\ InvTypeOK
      /\ OutsideClear /\ CursorCovered /\ NextCovered /\ GraceCovers /\ GettersInside
      /\ Owners
  BY MemInvParts DEF MemInv
<1>2. /\ inv[i].pc = "unlinked"
      /\ waiting' = [waiting EXCEPT ![i] = InCS]
      /\ inv' = [inv EXCEPT ![i].pc = "grace"]
      /\ UNCHANGED <<valid_blk_list, elem, stale_next, heap, cursor, removed_since,
                     rcu_write_lock, metadata_array, md_freed, last_written_block, buffer,
                     put, get>>
  BY DEF InvSynchronize, synchronize_rcu_begin, devVars
<1>3. /\ inv' \in [Updaters -> InvType]
      /\ inv'[i].pc = "grace" /\ inv'[i].el = inv[i].el
      /\ \A j \in Updaters \ {i} : inv'[j] = inv[j]
  BY <1>1, <1>2 DEF InvTypeOK, InvType
<1>4. /\ waiting'[i] = InCS
      /\ \A j \in Updaters \ {i} : waiting'[j] = waiting[j]
  BY <1>1, <1>2 DEF RcuTypeOK
<1>5. TypeOK'
  <2>1. waiting' \in [Updaters -> SUBSET Readers]
    BY <1>1, <1>2 DEF RcuTypeOK, InCS
  <2>2. RcuTypeOK'
    BY <1>1, <1>2, <2>1 DEF RcuTypeOK
  <2>3. ElemBlocks' /\ DevTypeOK' /\ PutTypeOK' /\ GetTypeOK' /\ InvTypeOK'
    BY <1>1, <1>2, <1>3 DEF ElemBlocks, DevTypeOK, PutTypeOK, GetTypeOK, InvTypeOK
  <2> QED
    BY <2>2, <2>3 DEF TypeOK
<1>6. \A j \in Updaters : (Removing(j)' <=> Removing(j)) /\ inv'[j].el = inv[j].el
  BY <1>2, <1>3 DEF Removing
<1>7. \A q \in Putters : (Preparing(q)' <=> Preparing(q)) /\ put'[q].el = put[q].el
  BY <1>2 DEF Preparing
<1>8. Owners' /\ Linked' = Linked
  BY <1>1, <1>2, <1>6, <1>7, OwnersFrame
<1>9. ReadersCovered'
  <2>1. OutsideClear' /\ GettersInside'
    BY <1>1, <1>2 DEF OutsideClear, GettersInside
  <2>2. CursorCovered'
    BY <1>1, <1>2, <1>8 DEF CursorCovered
  <2>3. NextCovered'
    BY <1>1, <1>2, <1>8 DEF NextCovered
  <2>4. GraceCovers'
    <3> SUFFICES ASSUME NEW r \in Readers, NEW o \in removed_since[r]
                 PROVE  Awaited(r, o)'
      BY <1>2 DEF GraceCovers
    <3>1. r \in InCS
      BY <1>1 DEF OutsideClear, InCS
    <3>2. PICK j \in Updaters : /\ Removing(j) /\ inv[j].el = o
                                /\ inv[j].pc = "unlinked" \/ r \in waiting[j]
      BY <1>1 DEF GraceCovers, Awaited
    <3>3. inv'[j].pc = "unlinked" \/ r \in waiting'[j]
      BY <1>3, <1>4, <3>1, <3>2
    <3> QED
      BY <1>6, <3>2, <3>3 DEF Awaited
  <2> QED
    BY <2>1, <2>2, <2>3, <2>4 DEF ReadersCovered
<1>10. ListSorted'
  BY <1>2 DEF ListSorted
<1> QED
  BY <1>5, <1>8, <1>9, <1>10 DEF MemInv

\* After the grace period no reader can reach the element: it is freed safely.
LEMMA InvFreeMem ==
    ASSUME MemInv, ListSorted, NEW i \in Updaters, InvFree(i)
    PROVE  MemInv' /\ ListSorted'
<1> USE HeadAssumption
<1>1. /\ RcuTypeOK /\ ElemBlocks /\ DevTypeOK /\ PutTypeOK /\ GetTypeOK /\ InvTypeOK
      /\ Distinct /\ FreeUnlinked /\ NoLeak /\ PutsOwn /\ InvsOwn
      /\ PutsApart /\ InvsApart /\ CallsApart
      /\ OutsideClear /\ CursorCovered /\ NextCovered /\ GraceCovers /\ GettersInside
  BY MemInvParts
<1> DEFINE n == inv[i].el
<1>2. /\ inv[i].pc = "grace" /\ waiting[i] = {}
      /\ heap' = heap \cup {n}
      /\ elem' = [elem EXCEPT ![n] = ZeroElem]
      /\ stale_next' = [stale_next EXCEPT ![n] = NULL]
      /\ inv' = [inv EXCEPT ![i] = InvIdle]
      /\ UNCHANGED <<valid_blk_list, cursor, waiting, removed_since,
                     rcu_write_lock, metadata_array, md_freed, last_written_block, buffer,
                     put, get>>
  BY DEF InvFree, kfree, synchronize_rcu_end, devVars
<1>3. Removing(i)
  BY <1>2 DEF Removing
<1>4. n \in Nodes /\ n \notin heap /\ n \notin Linked
  BY <1>1, <1>3 DEF InvsOwn
<1>5. \A j \in Updaters \ {i} : Removing(j) => inv[j].el # n
  BY <1>1, <1>3 DEF InvsApart, n
<1>6. \A q \in Putters : Preparing(q) => put[q].el # n
  BY <1>1, <1>3 DEF CallsApart, n
<1>7. \A o \in Nodes \ {n} : o \notin heap \cup Linked =>
          \/ \E q \in Putters : Preparing(q) /\ put[q].el = o
          \/ \E j \in Updaters \ {i} : Removing(j) /\ inv[j].el = o
  BY <1>1 DEF NoLeak, n
<1> HIDE DEF n
<1>8. Linked' = Linked
  BY <1>2 DEF Linked
<1>9. /\ inv' \in [Updaters -> InvType]
      /\ inv'[i].pc = "idle"
      /\ \A j \in Updaters \ {i} : inv'[j] = inv[j]
  BY <1>1, <1>2, IdleTypes DEF InvTypeOK
<1>10. TypeOK'
  <2>1. elem' \in [Nodes -> ElemType] /\ stale_next' \in [Nodes -> Nodes \cup {HEAD, NULL}]
    BY <1>1, <1>2, IdleTypes DEF RcuTypeOK
  <2>2. RcuTypeOK'
    BY <1>1, <1>2, <1>4, <2>1 DEF RcuTypeOK
  <2>3. \A o \in Nodes : elem'[o] = IF o = n THEN ZeroElem ELSE elem[o]
    BY <1>1, <1>2 DEF RcuTypeOK
  <2>4. ElemBlocks'
    BY <1>1, <2>3, IdleTypes DEF ElemBlocks
  <2>5. DevTypeOK' /\ PutTypeOK' /\ GetTypeOK' /\ InvTypeOK'
    BY <1>1, <1>2, <1>9 DEF DevTypeOK, PutTypeOK, GetTypeOK, InvTypeOK
  <2> QED
    BY <2>2, <2>4, <2>5 DEF TypeOK
<1>11. ~Removing(i)'
  BY <1>9 DEF Removing
<1>12. \A j \in Updaters \ {i} : (Removing(j)' <=> Removing(j)) /\ inv'[j].el = inv[j].el
  BY <1>9 DEF Removing
<1>13. \A q \in Putters : (Preparing(q)' <=> Preparing(q)) /\ put'[q].el = put[q].el
  BY <1>2 DEF Preparing
<1>14. Owners'
  <2>1. Distinct'
    BY <1>1, <1>2 DEF Distinct
  <2>2. FreeUnlinked'
    BY <1>1, <1>2, <1>4, <1>8 DEF FreeUnlinked
  <2>3. NoLeak'
    <3> SUFFICES ASSUME NEW o \in Nodes, o \notin heap', o \notin Linked
                 PROVE  \/ \E q \in Putters : Preparing(q)' /\ put'[q].el = o
                        \/ \E j \in Updaters : Removing(j)' /\ inv'[j].el = o
      BY <1>8 DEF NoLeak
    <3>1. o # n /\ o \notin heap
      BY <1>2
    <3> QED
      BY <1>7, <1>12, <1>13, <3>1
  <2>4. PutsOwn'
    <3>1. \A q \in Putters : Preparing(q) => put[q].el \in Nodes \ (heap' \cup Linked)
      BY <1>1, <1>2, <1>6 DEF PutsOwn
    <3> QED
      BY <1>8, <1>13, <3>1 DEF PutsOwn
  <2>5. InvsOwn'
    <3>1. \A j \in Updaters \ {i} : Removing(j) => inv[j].el \in Nodes \ (heap' \cup Linked)
      BY <1>1, <1>2, <1>5 DEF InvsOwn
    <3> QED
      BY <1>8, <1>11, <1>12, <3>1 DEF InvsOwn
  <2>6. PutsApart'
    BY <1>1, <1>13 DEF PutsApart
  <2>7. InvsApart'
    BY <1>1, <1>11, <1>12 DEF InvsApart
  <2>8. CallsApart'
    BY <1>1, <1>11, <1>12, <1>13 DEF CallsApart
  <2> QED
    BY <2>1, <2>2, <2>3, <2>4, <2>5, <2>6, <2>7, <2>8 DEF Owners
<1>15. ReadersCovered'
  <2>1. ASSUME NEW r \in Readers, NEW o \in removed_since[r]
        PROVE  \E j \in Updaters \ {i} : /\ Removing(j) /\ inv[j].el = o
                                         /\ inv[j].pc = "unlinked" \/ r \in waiting[j]
    <3>1. PICK j \in Updaters : /\ Removing(j) /\ inv[j].el = o
                                /\ inv[j].pc = "unlinked" \/ r \in waiting[j]
      BY <1>1 DEF GraceCovers, Awaited
    <3>2. j # i
      BY <1>2, <3>1
    <3> QED
      BY <3>1, <3>2
  <2>2. \A r \in Readers : n \notin removed_since[r]
    BY <1>5, <2>1
  <2>3. /\ stale_next \in [Nodes -> Nodes \cup {HEAD, NULL}]
        /\ removed_since \in [Readers -> SUBSET Nodes]
    BY <1>1 DEF RcuTypeOK
  <2>4. \A r \in Readers : \A o \in removed_since[r] : stale_next'[o] = stale_next[o]
    BY <1>2, <2>2, <2>3
  <2>5. OutsideClear' /\ GettersInside'
    BY <1>1, <1>2 DEF OutsideClear, GettersInside
  <2>6. CursorCovered'
    BY <1>1, <1>2, <1>8 DEF CursorCovered
  <2>7. NextCovered'
    BY <1>1, <1>2, <1>8, <2>4 DEF NextCovered
  <2>8. GraceCovers'
    <3> SUFFICES ASSUME NEW r \in Readers, NEW o \in removed_since[r]
                 PROVE  Awaited(r, o)'
      BY <1>2 DEF GraceCovers
    <3>1. PICK j \in Updaters \ {i} : /\ Removing(j) /\ inv[j].el = o
                                      /\ inv[j].pc = "unlinked" \/ r \in waiting[j]
      BY <2>1
    <3>2. /\ Removing(j)' /\ inv'[j].el = o
          /\ inv'[j].pc = "unlinked" \/ r \in waiting'[j]
      BY <1>2, <1>9, <1>12, <3>1
    <3> QED
      BY <3>2 DEF Awaited
  <2> QED
    BY <2>5, <2>6, <2>7, <2>8 DEF ReadersCovered
<1>16. ListSorted'
  BY <1>1, <1>2, <1>4, SortedFrame
<1> QED
  BY <1>10, <1>14, <1>15, <1>16 DEF MemInv
=============================================================================
