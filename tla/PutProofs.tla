----------------------------- MODULE PutProofs ------------------------------
(***************************************************************************)
(* put_data preserves the memory invariant of Syscalls.                    *)
(***************************************************************************)
EXTENDS MemoryProofs

\* A put that starts takes an address from the allocator, which no list, reader or
\* other call knows of.
LEMMA PutPrepareMem ==
    ASSUME MemInv, ListSorted, NEW p \in Putters, PutPrepare(p)
    PROVE  MemInv' /\ ListSorted'
<1> USE HeadAssumption, NumBlocksAssumption
<1>1. /\ RcuTypeOK /\ ElemBlocks /\ DevTypeOK /\ PutTypeOK /\ GetTypeOK /\ InvTypeOK
      /\ Distinct /\ FreeUnlinked /\ NoLeak /\ PutsOwn /\ InvsOwn
      /\ PutsApart /\ InvsApart /\ CallsApart
  BY MemInvParts
<1>2. PICK n \in Nodes, m \in Messages, t \in Timestamps :
         /\ n \in heap /\ heap' = heap \ {n}
         /\ put' = [put EXCEPT ![p] =
               [pc |-> "lock", el |-> n, msg |-> m, nsec |-> t, block |-> 0]]
  BY <1>1 DEF PutPrepare, kzalloc, RcuTypeOK
<1>3. /\ put[p].pc = "idle"
      /\ UNCHANGED <<valid_blk_list, elem, stale_next, cursor, waiting, removed_since,
                     rcu_write_lock, metadata_array, md_freed, last_written_block, buffer,
                     get, inv>>
  BY DEF PutPrepare, devVars
<1>4. Linked' = Linked
  BY <1>3 DEF Linked
<1>5. /\ put'[p] = [pc |-> "lock", el |-> n, msg |-> m, nsec |-> t, block |-> 0]
      /\ \A q \in Putters \ {p} : put'[q] = put[q]
  BY <1>1, <1>2 DEF PutTypeOK
<1>6. RcuTypeOK' /\ ElemBlocks' /\ DevTypeOK' /\ GetTypeOK' /\ InvTypeOK'
  <2>1. RcuTypeOK'
    BY <1>1, <1>2, <1>3 DEF RcuTypeOK
  <2>2. ElemBlocks' /\ DevTypeOK' /\ GetTypeOK' /\ InvTypeOK'
    BY <1>1, <1>3 DEF ElemBlocks, DevTypeOK, GetTypeOK, InvTypeOK
  <2> QED
    BY <2>1, <2>2
<1>7. PutTypeOK'
  <2>1. t \in Int /\ 0 \in Blocks /\ m \in Cell
    BY MessagesAssumption DEF Blocks, Cell
  <2>2. put'[p] \in PutType
    BY <1>5, <2>1 DEF PutType
  <2>3. put' \in [Putters -> PutType]
    BY <1>1, <1>2, <1>5, <2>2 DEF PutTypeOK
  <2>4. put'[p].msg \in Messages
    BY <1>5
  <2> QED
    BY <1>1, <1>5, <2>3, <2>4 DEF PutTypeOK
<1>8. ~Preparing(p) /\ Preparing(p)' /\ put'[p].el = n
  BY <1>3, <1>5 DEF Preparing
<1>9. \A q \in Putters \ {p} : (Preparing(q)' <=> Preparing(q)) /\ put'[q].el = put[q].el
  BY <1>5 DEF Preparing
<1>10. \A i \in Updaters : (Removing(i)' <=> Removing(i)) /\ inv'[i].el = inv[i].el
  BY <1>3 DEF Removing
<1>11. Distinct'
  BY <1>1, <1>3 DEF Distinct
<1>12. n \notin Linked /\ FreeUnlinked'
  BY <1>1, <1>2, <1>4 DEF FreeUnlinked
<1>13. NoLeak'
  <2> SUFFICES ASSUME NEW o \in Nodes, o \notin heap', o \notin Linked
               PROVE  \/ \E q \in Putters : Preparing(q)' /\ put'[q].el = o
                      \/ \E i \in Updaters : Removing(i)' /\ inv'[i].el = o
    BY <1>4 DEF NoLeak
  <2>1. CASE o = n
    BY <1>8, <2>1
  <2>2. CASE o \notin heap
    BY <1>1, <1>8, <1>9, <1>10, <2>2 DEF NoLeak
  <2> QED
    BY <1>2, <2>1, <2>2
<1>14. PutsOwn'
  <2>1. ASSUME NEW q \in Putters \ {p}, Preparing(q)
        PROVE  put[q].el \in Nodes \ (heap \cup Linked)
    BY <1>1, <2>1 DEF PutsOwn
  <2> QED
    BY <1>2, <1>4, <1>8, <1>9, <1>12, <2>1 DEF PutsOwn
<1>15. InvsOwn'
  BY <1>1, <1>2, <1>4, <1>10 DEF InvsOwn
<1>16. PutsApart'
  <2>1. \A q \in Putters : Preparing(q) => put[q].el # n
    BY <1>1, <1>2 DEF PutsOwn
  <2> QED
    BY <1>1, <1>8, <1>9, <2>1 DEF PutsApart
<1>17. InvsApart'
  BY <1>1, <1>10 DEF InvsApart
<1>18. CallsApart'
  <2>1. \A i \in Updaters : Removing(i) => inv[i].el # n
    BY <1>1, <1>2 DEF InvsOwn
  <2> QED
    BY <1>1, <1>8, <1>9, <1>10, <2>1 DEF CallsApart
<1>19. ReadersCovered'
  <2>1. ReadersCovered
    BY DEF MemInv
  <2> QED
    BY <1>3, <1>4, <2>1, CoverFrame
<1>20. ListSorted'
  BY <1>3 DEF ListSorted
<1> QED
  BY <1>6, <1>7, <1>11, <1>12, <1>13, <1>14, <1>15, <1>16, <1>17, <1>18, <1>19, <1>20
     DEF MemInv, TypeOK, Owners

\* The choice of a block, the copy into the page cache and the return: no element
\* changes hands.
LEMMA PutFrameMem ==
    ASSUME MemInv, ListSorted, NEW p \in Putters, PutLock(p) \/ PutCopy(p) \/ PutReturn(p)
    PROVE  MemInv' /\ ListSorted'
<1>1. RcuTypeOK /\ ElemBlocks /\ DevTypeOK /\ PutTypeOK /\ GetTypeOK /\ InvTypeOK
  BY MemInvParts
<1>2. put \in [Putters -> PutType] /\ buffer \in [Blocks -> BlockType]
  BY <1>1 DEF PutTypeOK, DevTypeOK
<1>3. UNCHANGED <<valid_blk_list, elem, stale_next, heap, cursor, waiting, removed_since, inv>>
  BY DEF PutLock, PutCopy, PutReturn, rcuVars
<1>4. UNCHANGED <<metadata_array, md_freed, last_written_block, get>>
  BY DEF PutLock, PutCopy, PutReturn, devVars
<1>5. RcuTypeOK' /\ ElemBlocks' /\ GetTypeOK' /\ InvTypeOK'
  <2>1. RcuTypeOK'
    BY <1>1, <1>3 DEF RcuTypeOK
  <2>2. ElemBlocks' /\ GetTypeOK' /\ InvTypeOK'
    BY <1>1, <1>3, <1>4 DEF ElemBlocks, GetTypeOK, InvTypeOK
  <2> QED
    BY <2>1, <2>2
<1>6. ASSUME buffer' \in [Blocks -> BlockType], rcu_write_lock' \in Putters \cup {NULL}
      PROVE  DevTypeOK'
  BY <1>1, <1>4, <1>6 DEF DevTypeOK
<1>7. CASE PutLock(p)
  <2>1. PICK b \in Blocks :
           /\ put' = [put EXCEPT ![p].pc = "copy", ![p].block = b]
           /\ buffer' = [buffer EXCEPT ![b].md = NewMetadata(p), ![b].data[1] = put[p].msg]
    BY <1>7 DEF PutLock
  <2>2. put[p].pc = "lock" /\ rcu_write_lock' = p
    BY <1>7 DEF PutLock
  <2>3. put[p].msg \in Messages
    BY <1>1, <2>2 DEF PutTypeOK
  <2>4. put[p].nsec \in Int
    BY <1>2 DEF PutType
  <2>5. NewMetadata(p) \in MetadataType
    BY <2>3, <2>4, MessagesAssumption DEF NewMetadata, MetadataType
  <2>6. put[p].msg \in Cell
    BY <2>3 DEF Cell
  <2>7. buffer' \in [Blocks -> BlockType]
    <3> DEFINE f == [buffer EXCEPT ![b].md = NewMetadata(p)]
    <3>1. f \in [Blocks -> BlockType]
      BY <1>2, <2>5, BlockMetadata
    <3>2. buffer' = [f EXCEPT ![b].data[1] = put[p].msg]
      BY <2>1
    <3> HIDE DEF f
    <3>3. 1 \in 1..2
      OBVIOUS
    <3>4. [f EXCEPT ![b].data[1] = put[p].msg] \in [Blocks -> BlockType]
      BY <2>6, <3>1, <3>3, BlockData, Zenon
    <3> QED
      BY <3>2, <3>4
  <2>8. put' \in [Putters -> PutType]
    <3> DEFINE r == [put[p] EXCEPT !.pc = "copy", !.block = b]
    <3>1. put[p] \in PutType
      BY <1>2
    <3>2. r \in PutType
      BY <3>1 DEF PutType
    <3>3. put' = [put EXCEPT ![p] = r]
      BY <2>1
    <3> HIDE DEF r
    <3> QED
      BY <1>2, <3>2, <3>3
  <2>9. /\ put'[p].el = put[p].el /\ put'[p].msg = put[p].msg /\ put'[p].pc = "copy"
        /\ \A q \in Putters \ {p} : put'[q] = put[q]
    BY <1>2, <2>1 DEF PutType
  <2>10. PutTypeOK'
    BY <1>1, <2>3, <2>8, <2>9 DEF PutTypeOK
  <2>11. TypeOK'
    BY <1>5, <1>6, <2>2, <2>7, <2>10 DEF TypeOK
  <2>12. \A q \in Putters : (Preparing(q)' <=> Preparing(q)) /\ put'[q].el = put[q].el
    BY <2>2, <2>9 DEF Preparing
  <2> QED
    BY <1>3, <1>4, <2>11, <2>12, FrameMem
<1>8. CASE PutCopy(p)
  <2>1. /\ put' = [put EXCEPT ![p].pc = "publish"]
        /\ buffer' = [buffer EXCEPT ![put[p].block].data[2] = put[p].msg]
        /\ put[p].pc = "copy"
        /\ rcu_write_lock' = rcu_write_lock
    BY <1>8 DEF PutCopy
  <2>2. put[p].msg \in Messages
    BY <1>1, <2>1 DEF PutTypeOK
  <2>3. put[p].msg \in Cell
    BY <2>2 DEF Cell
  <2>4. buffer' \in [Blocks -> BlockType]
    <3>1. put[p].block \in Blocks
      BY <1>2 DEF PutType
    <3>2. 2 \in 1..2
      OBVIOUS
    <3>3. [buffer EXCEPT ![put[p].block].data[2] = put[p].msg] \in [Blocks -> BlockType]
      BY <1>2, <2>3, <3>1, <3>2, BlockData, Zenon
    <3> QED
      BY <2>1, <3>3
  <2>5. put' \in [Putters -> PutType]
    <3> DEFINE r == [put[p] EXCEPT !.pc = "publish"]
    <3>1. put[p] \in PutType
      BY <1>2
    <3>2. r \in PutType
      BY <3>1 DEF PutType
    <3>3. put' = [put EXCEPT ![p] = r]
      BY <2>1
    <3> HIDE DEF r
    <3> QED
      BY <1>2, <3>2, <3>3
  <2>6. /\ put'[p].el = put[p].el /\ put'[p].msg = put[p].msg /\ put'[p].pc = "publish"
        /\ \A q \in Putters \ {p} : put'[q] = put[q]
    BY <1>2, <2>1 DEF PutType
  <2>7. PutTypeOK'
    BY <1>1, <2>2, <2>5, <2>6 DEF PutTypeOK
  <2>8. rcu_write_lock' \in Putters \cup {NULL}
    BY <1>1, <2>1 DEF DevTypeOK
  <2>9. TypeOK'
    BY <1>5, <1>6, <2>4, <2>7, <2>8 DEF TypeOK
  <2>10. \A q \in Putters : (Preparing(q)' <=> Preparing(q)) /\ put'[q].el = put[q].el
    BY <2>1, <2>6 DEF Preparing
  <2> QED
    BY <1>3, <1>4, <2>9, <2>10, FrameMem
<1>9. CASE PutReturn(p)
  <2>1. /\ put' = [put EXCEPT ![p] = PutIdle]
        /\ put[p].pc = "sync"
        /\ UNCHANGED <<rcu_write_lock, buffer>>
    BY <1>9 DEF PutReturn, devVars
  <2>2. /\ put' \in [Putters -> PutType]
        /\ put'[p].pc = "idle"
        /\ \A q \in Putters \ {p} : put'[q] = put[q]
    BY <1>2, <2>1, IdleTypes
  <2>3. PutTypeOK'
    BY <1>1, <2>2 DEF PutTypeOK
  <2>4. rcu_write_lock' \in Putters \cup {NULL} /\ buffer' \in [Blocks -> BlockType]
    BY <1>1, <2>1 DEF DevTypeOK
  <2>5. TypeOK'
    BY <1>5, <1>6, <2>3, <2>4 DEF TypeOK
  <2>6. \A q \in Putters : /\ Preparing(q)' <=> Preparing(q)
                           /\ Preparing(q) => put'[q].el = put[q].el
    BY <2>1, <2>2 DEF Preparing
  <2> QED
    BY <1>3, <1>4, <2>5, <2>6, FrameMem
<1> QED
  BY <1>7, <1>8, <1>9

\* The error label gives the element back to the allocator; the putter is its only owner.
LEMMA PutErrorMem ==
    ASSUME MemInv, ListSorted, NEW p \in Putters, Preparing(p), PutError(p),
           md_freed' \subseteq Blocks
    PROVE  MemInv' /\ ListSorted'
<1> USE HeadAssumption, NumBlocksAssumption
<1>1. /\ RcuTypeOK /\ ElemBlocks /\ DevTypeOK /\ PutTypeOK /\ GetTypeOK /\ InvTypeOK
      /\ Distinct /\ FreeUnlinked /\ NoLeak /\ PutsOwn /\ InvsOwn
      /\ PutsApart /\ InvsApart /\ CallsApart /\ GraceCovers
  BY MemInvParts
<1> DEFINE n == put[p].el
<1>2. /\ heap' = heap \cup {n}
      /\ elem' = [elem EXCEPT ![n] = ZeroElem]
      /\ stale_next' = [stale_next EXCEPT ![n] = NULL]
      /\ put' = [put EXCEPT ![p] = PutIdle]
      /\ UNCHANGED <<valid_blk_list, cursor, waiting, removed_since,
                     rcu_write_lock, metadata_array, last_written_block, buffer, get, inv>>
  BY DEF PutError, kfree
<1>3. n \in Nodes /\ n \notin heap /\ n \notin Linked
  BY <1>1 DEF PutsOwn
<1>4. \A q \in Putters \ {p} : Preparing(q) => put[q].el # n
  BY <1>1 DEF PutsApart, n
<1>5. \A i \in Updaters : Removing(i) => inv[i].el # n
  BY <1>1 DEF CallsApart, n
<1>6. \A o \in Nodes \ {n} : o \notin heap \cup Linked =>
          \/ \E q \in Putters \ {p} : Preparing(q) /\ put[q].el = o
          \/ \E i \in Updaters : Removing(i) /\ inv[i].el = o
  BY <1>1 DEF NoLeak, n
<1> HIDE DEF n
<1>7. Linked' = Linked
  BY <1>2 DEF Linked
<1>8. /\ put' \in [Putters -> PutType]
      /\ put'[p].pc = "idle"
      /\ \A q \in Putters \ {p} : put'[q] = put[q]
  BY <1>1, <1>2, IdleTypes DEF PutTypeOK
<1>9. TypeOK'
  <2>1. elem' \in [Nodes -> ElemType] /\ stale_next' \in [Nodes -> Nodes \cup {HEAD, NULL}]
    BY <1>1, <1>2, IdleTypes DEF RcuTypeOK
  <2>2. RcuTypeOK'
    BY <1>1, <1>2, <1>3, <2>1 DEF RcuTypeOK
  <2>3. \A o \in Nodes : elem'[o] = IF o = n THEN ZeroElem ELSE elem[o]
    BY <1>1, <1>2 DEF RcuTypeOK
  <2>4. ElemBlocks'
    BY <1>1, <2>3, IdleTypes DEF ElemBlocks
  <2>5. DevTypeOK' /\ GetTypeOK' /\ InvTypeOK'
    BY <1>1, <1>2 DEF DevTypeOK, GetTypeOK, InvTypeOK
  <2>6. PutTypeOK'
    BY <1>1, <1>8 DEF PutTypeOK
  <2> QED
    BY <2>2, <2>4, <2>5, <2>6 DEF TypeOK
<1>10. ~Preparing(p)'
  BY <1>8 DEF Preparing
<1>11. \A q \in Putters \ {p} : (Preparing(q)' <=> Preparing(q)) /\ put'[q].el = put[q].el
  BY <1>8 DEF Preparing
<1>12. \A i \in Updaters : (Removing(i)' <=> Removing(i)) /\ inv'[i].el = inv[i].el
  BY <1>2 DEF Removing
<1>13. Owners'
  <2>1. Distinct'
    BY <1>1, <1>2 DEF Distinct
  <2>2. FreeUnlinked'
    BY <1>1, <1>2, <1>3, <1>7 DEF FreeUnlinked
  <2>3. NoLeak'
    <3> SUFFICES ASSUME NEW o \in Nodes, o \notin heap', o \notin Linked
                 PROVE  \/ \E q \in Putters : Preparing(q)' /\ put'[q].el = o
                        \/ \E i \in Updaters : Removing(i)' /\ inv'[i].el = o
      BY <1>7 DEF NoLeak
    <3>1. o # n /\ o \notin heap
      BY <1>2
    <3> QED
      BY <1>6, <1>11, <1>12, <3>1
  <2>4. PutsOwn'
    <3>1. \A q \in Putters \ {p} : Preparing(q) => put[q].el \in Nodes \ (heap' \cup Linked)
      BY <1>1, <1>2, <1>4 DEF PutsOwn
    <3> QED
      BY <1>7, <1>10, <1>11, <3>1 DEF PutsOwn
  <2>5. InvsOwn'
    <3>1. \A i \in Updaters : Removing(i) => inv[i].el \in Nodes \ (heap' \cup Linked)
      BY <1>1, <1>2, <1>5 DEF InvsOwn
    <3> QED
      BY <1>7, <1>12, <3>1 DEF InvsOwn
  <2>6. PutsApart'
    BY <1>1, <1>10, <1>11 DEF PutsApart
  <2>7. InvsApart'
    BY <1>1, <1>12 DEF InvsApart
  <2>8. CallsApart'
    BY <1>1, <1>10, <1>11, <1>12 DEF CallsApart
  <2> QED
    BY <2>1, <2>2, <2>3, <2>4, <2>5, <2>6, <2>7, <2>8 DEF Owners
<1>14. ReadersCovered'
  <2>1. \A r \in Readers : n \notin removed_since[r]
    BY <1>1, <1>5 DEF GraceCovers, Awaited
  <2>2. stale_next \in [Nodes -> Nodes \cup {HEAD, NULL}]
        /\ removed_since \in [Readers -> SUBSET Nodes]
    BY <1>1 DEF RcuTypeOK
  <2>3. \A r \in Readers : \A o \in removed_since[r] : stale_next'[o] = stale_next[o]
    BY <1>2, <2>1, <2>2
  <2>4. ReadersCovered
    BY DEF MemInv
  <2> QED
    BY <1>2, <1>7, <2>3, <2>4, CoverFrame
<1>15. ListSorted'
  BY <1>1, <1>2, <1>3, SortedFrame
<1> QED
  BY <1>9, <1>13, <1>14, <1>15 DEF MemInv

\* Publication hands the element over to the list, in timestamp order.
LEMMA PutPublishMem ==
    ASSUME MemInv, ListSorted, NEW p \in Putters, PutPublish(p)
    PROVE  MemInv' /\ ListSorted'
<1> USE HeadAssumption, NumBlocksAssumption
<1>1. /\ RcuTypeOK /\ ElemBlocks /\ DevTypeOK /\ PutTypeOK /\ GetTypeOK /\ InvTypeOK
      /\ Distinct /\ FreeUnlinked /\ NoLeak /\ PutsOwn /\ InvsOwn
      /\ PutsApart /\ InvsApart /\ CallsApart
  BY MemInvParts
<1> DEFINE n == put[p].el
           bytes == MsgLen[put[p].msg]
<1>2. /\ put[p].pc = "publish"
      /\ add_valid_block_in_order_secure(n, put[p].block, bytes, put[p].nsec)
      /\ put' = [put EXCEPT ![p] = [PutIdle EXCEPT !.pc = "sync", !.block = put[p].block]]
      /\ metadata_array' = [metadata_array EXCEPT ![put[p].block] = NewMetadata(p)]
      /\ md_freed' = md_freed \ {put[p].block}
      /\ last_written_block' = put[p].block
      /\ rcu_write_lock' = NULL
      /\ UNCHANGED <<stale_next, heap, cursor, waiting, removed_since, buffer, get, inv>>
  BY DEF PutPublish
<1>3. Preparing(p)
  BY <1>2 DEF Preparing
<1>4. n \in Nodes /\ n \notin heap /\ n \notin Linked
  BY <1>1, <1>3 DEF PutsOwn
<1>5. put[p].msg \in Messages
  BY <1>1, <1>2 DEF PutTypeOK
<1>6. put[p].block \in Blocks /\ put[p].nsec \in Int
  BY <1>1 DEF PutTypeOK, PutType
<1>7. bytes \in Nat /\ put[p].block \in Nat
  BY <1>5, <1>6, MessagesAssumption DEF Blocks
<1>8. \A q \in Putters \ {p} : Preparing(q) => put[q].el # n
  BY <1>1, <1>3 DEF PutsApart, n
<1>9. \A i \in Updaters : Removing(i) => inv[i].el # n
  BY <1>1, <1>3 DEF CallsApart, n
<1>10. \A o \in Nodes \ {n} : o \notin heap \cup Linked =>
          \/ \E q \in Putters \ {p} : Preparing(q) /\ put[q].el = o
          \/ \E i \in Updaters : Removing(i) /\ inv[i].el = o
  BY <1>1 DEF NoLeak, n
<1> HIDE DEF n, bytes
<1>11. valid_blk_list' \in Seq(Nodes) /\ Linked' = Linked \cup {n} /\ Distinct'
  BY <1>1, <1>2, <1>4, <1>6, <1>7, InsertLinks
<1>12. ListSorted'
  BY <1>1, <1>2, <1>4, <1>6, <1>7, InsertSorted
<1> DEFINE e == [ndx |-> put[p].block, nsec |-> put[p].nsec, valid_bytes |-> bytes]
           r == [PutIdle EXCEPT !.pc = "sync", !.block = put[p].block]
<1>13. elem' = [elem EXCEPT ![n] = e]
  BY <1>2 DEF add_valid_block_in_order_secure
<1>14. e \in ElemType /\ e.ndx \in Blocks
  BY <1>6, <1>7 DEF ElemType
<1>15. r \in PutType /\ r.pc = "sync"
  <2>1. PutIdle \in PutType
    BY IdleTypes
  <2>2. r \in PutType
    BY <1>6, <2>1 DEF PutType
  <2>3. r.pc = "sync"
    BY DEF PutIdle
  <2> QED
    BY <2>2, <2>3
<1>16. put' = [put EXCEPT ![p] = r]
  BY <1>2
<1> HIDE DEF e, r
<1>17. /\ put' \in [Putters -> PutType]
       /\ put'[p].pc = "sync"
       /\ \A q \in Putters \ {p} : put'[q] = put[q]
  BY <1>1, <1>15, <1>16 DEF PutTypeOK
<1>18. TypeOK'
  <2>1. elem' \in [Nodes -> ElemType]
    BY <1>1, <1>13, <1>14 DEF RcuTypeOK
  <2>2. RcuTypeOK'
    BY <1>1, <1>2, <1>11, <2>1 DEF RcuTypeOK
  <2>3. \A o \in Nodes : elem'[o] = IF o = n THEN e ELSE elem[o]
    BY <1>1, <1>13 DEF RcuTypeOK
  <2>4. ElemBlocks'
    BY <1>1, <1>14, <2>3 DEF ElemBlocks
  <2>5. NewMetadata(p) \in MetadataType
    BY <1>6, <1>7 DEF NewMetadata, MetadataType, bytes
  <2>6. metadata_array' \in [Blocks -> MetadataType]
    BY <1>1, <1>2, <2>5 DEF DevTypeOK
  <2>7. DevTypeOK'
    BY <1>1, <1>2, <1>6, <2>6 DEF DevTypeOK
  <2>8. PutTypeOK'
    BY <1>1, <1>17 DEF PutTypeOK
  <2>9. GetTypeOK' /\ InvTypeOK'
    BY <1>1, <1>2 DEF GetTypeOK, InvTypeOK
  <2> QED
    BY <2>2, <2>4, <2>7, <2>8, <2>9 DEF TypeOK
<1>19. ~Preparing(p)'
  BY <1>17 DEF Preparing
<1>20. \A q \in Putters \ {p} : (Preparing(q)' <=> Preparing(q)) /\ put'[q].el = put[q].el
  BY <1>17 DEF Preparing
<1>21. \A i \in Updaters : (Removing(i)' <=> Removing(i)) /\ inv'[i].el = inv[i].el
  BY <1>2 DEF Removing
<1>22. Owners'
  <2>1. FreeUnlinked'
    BY <1>1, <1>2, <1>4, <1>11 DEF FreeUnlinked
  <2>2. NoLeak'
    <3> SUFFICES ASSUME NEW o \in Nodes, o \notin heap', o \notin Linked'
                 PROVE  \/ \E q \in Putters : Preparing(q)' /\ put'[q].el = o
                        \/ \E i \in Updaters : Removing(i)' /\ inv'[i].el = o
      BY DEF NoLeak
    <3>1. o # n /\ o \notin heap /\ o \notin Linked
      BY <1>2, <1>11
    <3> QED
      BY <1>10, <1>20, <1>21, <3>1
  <2>3. PutsOwn'
    <3>1. \A q \in Putters \ {p} : Preparing(q) => put[q].el \in Nodes \ (heap \cup Linked')
      BY <1>1, <1>8, <1>11 DEF PutsOwn
    <3> QED
      BY <1>2, <1>19, <1>20, <3>1 DEF PutsOwn
  <2>4. InvsOwn'
    <3>1. \A i \in Updaters : Removing(i) => inv[i].el \in Nodes \ (heap \cup Linked')
      BY <1>1, <1>9, <1>11 DEF InvsOwn
    <3> QED
      BY <1>2, <1>21, <3>1 DEF InvsOwn
  <2>5. PutsApart'
    BY <1>1, <1>19, <1>20 DEF PutsApart
  <2>6. InvsApart'
    BY <1>1, <1>21 DEF InvsApart
  <2>7. CallsApart'
    BY <1>1, <1>19, <1>20, <1>21 DEF CallsApart
  <2> QED
    BY <1>11, <2>1, <2>2, <2>3, <2>4, <2>5, <2>6, <2>7 DEF Owners
<1>23. ReadersCovered'
  <2>1. ReadersCovered
    BY DEF MemInv
  <2> QED
    BY <1>2, <1>11, <2>1, CoverFrame
<1> QED
  BY <1>12, <1>18, <1>22, <1>23 DEF MemInv
=============================================================================
