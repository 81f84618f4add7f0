---------------------------- MODULE ContentProofs ---------------------------
(***************************************************************************)
(* What the calls of Syscalls keep true of the stored messages: the        *)
(* inductive invariant behind CopiesAgree and ListedBlockIsWhole, that     *)
(* every step preserves it, and that no step changes a stored message.     *)
(***************************************************************************)
EXTENDS MemoryProofs

\* The put has chosen its block and not yet published it.
Fills(p) == put[p].pc \in {"copy", "publish"}

\* The putter that fills a block holds the spinlock, the block is free, and what has been
\* copied so far is its message.
FillerLocks == \A p \in Putters : Fills(p) <=> rcu_write_lock = p
FillsFree == \A p \in Putters : Fills(p) => ~metadata_array[put[p].block].is_valid
HalfCopied ==
    \A p \in Putters : Fills(p) =>
        /\ buffer[put[p].block].md = NewMetadata(p)
        /\ buffer[put[p].block].data[1] = put[p].msg
        /\ put[p].pc = "publish" => buffer[put[p].block].data[2] = put[p].msg

\* An array entry that was freed too early belongs to a free block.
FreedInvalid == \A b \in md_freed : ~metadata_array[b].is_valid

\* List and array: the same blocks, once, with the same fields.
ListedValid ==
    \A n \in Linked :
        /\ metadata_array[elem[n].ndx].is_valid
        /\ elem[n].nsec = metadata_array[elem[n].ndx].nsec
        /\ elem[n].valid_bytes = metadata_array[elem[n].ndx].valid_bytes
ValidListed == \A b \in Blocks : metadata_array[b].is_valid => Holds(b)
OneElement == \A m, n \in Linked : elem[m].ndx = elem[n].ndx => m = n

\* Array and page cache.
CacheAgrees ==
    \A b \in Blocks : (\A p \in Putters : Fills(p) => put[p].block # b) =>
        buffer[b].md = metadata_array[b]

\* List and page cache.
ListedWhole ==
    \A n \in Linked : \E m \in Messages :
        /\ buffer[elem[n].ndx].data[1] = m /\ buffer[elem[n].ndx].data[2] = m
        /\ elem[n].valid_bytes = MsgLen[m]

ContentInv ==
    /\ FillerLocks /\ FillsFree /\ HalfCopied /\ FreedInvalid
    /\ ListedValid /\ ValidListed /\ OneElement /\ CacheAgrees /\ ListedWhole

\* The elements that stay on the list keep their fields and the cached copy of their block.
Keeps ==
    \A n \in Linked \cap Linked' :
        elem'[n] = elem[n] /\ buffer'[elem[n].ndx] = buffer[elem[n].ndx]

LEMMA ContentParts ==
    ASSUME ContentInv
    PROVE  /\ FillerLocks /\ FillsFree /\ HalfCopied /\ FreedInvalid
           /\ ListedValid /\ ValidListed /\ OneElement /\ CacheAgrees /\ ListedWhole
BY DEF ContentInv

\* Listed elements are addresses with a block of the device.
LEMMA LinkedBlocks ==
    ASSUME RcuTypeOK, ElemBlocks
    PROVE  Linked \subseteq Nodes /\ \A n \in Linked : elem[n].ndx \in Blocks
<1>1. valid_blk_list \in Seq(Nodes)
  BY DEF RcuTypeOK
<1>2. Linked \subseteq Nodes
  BY <1>1 DEF Linked
<1> QED
  BY <1>2 DEF ElemBlocks

\* A block in which a put is copying is not listed.
LEMMA FilledNotListed ==
    ASSUME ContentInv, NEW p \in Putters, Fills(p), NEW n \in Linked
    PROVE  elem[n].ndx # put[p].block
BY DEF ContentInv, FillsFree, ListedValid

\* An empty list, invalid entries and no call: the device as it is mounted.
LEMMA InitContent == Init => ContentInv
<1> SUFFICES ASSUME Init PROVE ContentInv
  OBVIOUS
<1>1. Linked = {}
  BY DEF Init, RcuInit, Linked
<1>2. /\ \A b \in Blocks : metadata_array[b] = NoMetadata /\ buffer[b].md = NoMetadata
      /\ md_freed = {} /\ rcu_write_lock = NULL
  BY DEF Init
<1>3. \A p \in Putters : ~Fills(p)
  BY DEF Init, PutIdle, Fills
<1>4. FillerLocks /\ FillsFree /\ HalfCopied
  BY <1>2, <1>3, NullAssumption DEF FillerLocks, FillsFree, HalfCopied
<1>5. FreedInvalid /\ CacheAgrees /\ ValidListed
  BY <1>2 DEF FreedInvalid, CacheAgrees, ValidListed, NoMetadata
<1>6. ListedValid /\ OneElement /\ ListedWhole
  BY <1>1 DEF ListedValid, OneElement, ListedWhole
<1> QED
  BY <1>4, <1>5, <1>6 DEF ContentInv

\* Steps that touch neither the list nor the device, and no put that fills a block.
LEMMA ContentFrame ==
    ASSUME ContentInv, UNCHANGED <<metadata_array, buffer, rcu_write_lock>>,
           Linked' = Linked, \A n \in Linked : elem'[n] = elem[n],
           \A b \in md_freed' : ~metadata_array[b].is_valid,
           \A p \in Putters : /\ Fills(p)' <=> Fills(p)
                              /\ Fills(p) => put'[p] = put[p]
    PROVE  ContentInv' /\ Keeps
<1>1. FillerLocks /\ FillsFree /\ HalfCopied /\ CacheAgrees
  BY DEF ContentInv
<1>2. ListedValid /\ ValidListed /\ OneElement /\ ListedWhole
  BY DEF ContentInv
<1>3. FillerLocks' /\ FillsFree'
  BY <1>1 DEF FillerLocks, FillsFree
<1>4. HalfCopied'
  BY <1>1 DEF HalfCopied, NewMetadata
<1>5. FreedInvalid'
  BY DEF FreedInvalid
<1>6. ListedValid' /\ OneElement'
  BY <1>2 DEF ListedValid, OneElement
<1>7. ValidListed'
  BY <1>2 DEF ValidListed, Holds
<1>8. CacheAgrees'
  BY <1>1 DEF CacheAgrees
<1>9. ListedWhole'
  BY <1>2 DEF ListedWhole
<1> QED
  BY <1>3, <1>4, <1>5, <1>6, <1>7, <1>8, <1>9 DEF ContentInv, Keeps

\* put_data before it holds the spinlock, and after it has released it.
LEMMA PutPrepareContent ==
    ASSUME MemInv, ContentInv, NEW p \in Putters, PutPrepare(p)
    PROVE  ContentInv' /\ Keeps /\ Linked' = Linked
<1>1. PutTypeOK /\ FreedInvalid
  BY MemInvParts, ContentParts
<1>2. PICK r : put' = [put EXCEPT ![p] = r] /\ r.pc = "lock"
  <2>1. PICK n \in Nodes, m \in Messages, t \in Timestamps :
          put' = [put EXCEPT ![p] =
                     [pc |-> "lock", el |-> n, msg |-> m, nsec |-> t, block |-> 0]]
    BY Zenon DEF PutPrepare
  <2>2. [pc |-> "lock", el |-> n, msg |-> m, nsec |-> t, block |-> 0].pc = "lock"
    OBVIOUS
  <2> QED
    BY <2>1, <2>2, Zenon
<1>3. /\ put[p].pc = "idle"
      /\ UNCHANGED <<valid_blk_list, elem, rcu_write_lock, metadata_array, md_freed, buffer>>
  BY DEF PutPrepare, devVars
<1>4. \A q \in Putters : put'[q] = IF q = p THEN r ELSE put[q]
  BY <1>1, <1>2 DEF PutTypeOK
<1>5. \A q \in Putters : (Fills(q)' <=> Fills(q)) /\ (Fills(q) => put'[q] = put[q])
  BY <1>2, <1>3, <1>4 DEF Fills
<1>6. Linked' = Linked
  BY <1>3 DEF Linked
<1> QED
  BY <1>1, <1>3, <1>5, <1>6, ContentFrame DEF FreedInvalid

LEMMA PutReturnContent ==
    ASSUME MemInv, ContentInv, NEW p \in Putters, PutReturn(p)
    PROVE  ContentInv' /\ Keeps /\ Linked' = Linked
<1>1. PutTypeOK /\ FreedInvalid
  BY MemInvParts, ContentParts
<1>2. /\ put[p].pc = "sync" /\ put' = [put EXCEPT ![p] = PutIdle]
      /\ UNCHANGED <<valid_blk_list, elem, rcu_write_lock, metadata_array, md_freed, buffer>>
  BY DEF PutReturn, devVars, rcuVars
<1>3. \A q \in Putters : put'[q] = IF q = p THEN PutIdle ELSE put[q]
  BY <1>1, <1>2 DEF PutTypeOK
<1>4. \A q \in Putters : (Fills(q)' <=> Fills(q)) /\ (Fills(q) => put'[q] = put[q])
  BY <1>2, <1>3, IdleTypes DEF Fills
<1>5. Linked' = Linked
  BY <1>2 DEF Linked
<1> QED
  BY <1>1, <1>2, <1>4, <1>5, ContentFrame DEF FreedInvalid

\* The error label of put_data: the element is not listed, and the entry that is freed
\* although the array points to it belongs to a free block.
LEMMA PutErrorContent ==
    ASSUME MemInv, ContentInv, NEW p \in Putters, put[p].pc = "lock", PutError(p),
           \A b \in md_freed' : b \in md_freed \/ ~metadata_array[b].is_valid
    PROVE  ContentInv' /\ Keeps /\ Linked' = Linked
<1>1. RcuTypeOK /\ ElemBlocks /\ PutTypeOK /\ PutsOwn /\ FreedInvalid
  BY MemInvParts, ContentParts
<1>2. /\ put' = [put EXCEPT ![p] = PutIdle]
      /\ elem' = [elem EXCEPT ![put[p].el] = ZeroElem]
      /\ UNCHANGED <<valid_blk_list, rcu_write_lock, metadata_array, buffer>>
  BY DEF PutError, kfree
<1>3. put[p].el \notin Linked
  BY <1>1 DEF PutsOwn, Preparing
<1>4. \A n \in Linked : elem'[n] = elem[n]
  <2>1. Linked \subseteq Nodes
    BY <1>1, LinkedBlocks
  <2> QED
    BY <1>1, <1>2, <1>3, <2>1 DEF RcuTypeOK
<1>5. \A q \in Putters : put'[q] = IF q = p THEN PutIdle ELSE put[q]
  BY <1>1, <1>2 DEF PutTypeOK
<1>6. \A q \in Putters : (Fills(q)' <=> Fills(q)) /\ (Fills(q) => put'[q] = put[q])
  BY <1>5, IdleTypes DEF Fills
<1>7. Linked' = Linked
  BY <1>2 DEF Linked
<1>8. \A b \in md_freed' : ~metadata_array[b].is_valid
  BY <1>1 DEF FreedInvalid
<1> QED
  BY <1>2, <1>4, <1>6, <1>7, <1>8, ContentFrame

\* invalidate_data outside the spinlock: only its own element, no longer listed, is freed.
LEMMA InvFreeContent ==
    ASSUME MemInv, ContentInv, NEW i \in Updaters, InvSynchronize(i) \/ InvFree(i)
    PROVE  ContentInv' /\ Keeps /\ Linked' = Linked
<1>1. RcuTypeOK /\ ElemBlocks /\ InvsOwn /\ FreedInvalid
  BY MemInvParts, ContentParts
<1>2. /\ UNCHANGED <<valid_blk_list, rcu_write_lock, metadata_array, md_freed, buffer, put>>
      /\ elem' = elem \/ (Removing(i) /\ elem' = [elem EXCEPT ![inv[i].el] = ZeroElem])
  <2>1. CASE InvSynchronize(i)
    BY <2>1 DEF InvSynchronize, devVars
  <2>2. CASE InvFree(i)
    <3>1. inv[i].pc = "grace" /\ elem' = [elem EXCEPT ![inv[i].el] = ZeroElem]
      BY <2>2 DEF InvFree, kfree
    <3>2. UNCHANGED <<valid_blk_list, rcu_write_lock, metadata_array, md_freed, buffer, put>>
      BY <2>2 DEF InvFree, devVars
    <3>3. Removing(i)
      BY <3>1 DEF Removing
    <3> QED
      BY <3>1, <3>2, <3>3
  <2> QED
    BY <2>1, <2>2
<1>3. \A n \in Linked : elem'[n] = elem[n]
  <2>1. Linked \subseteq Nodes
    BY <1>1, LinkedBlocks
  <2>2. Removing(i) => inv[i].el \notin Linked
    BY <1>1 DEF InvsOwn
  <2> QED
    BY <1>1, <1>2, <2>1, <2>2 DEF RcuTypeOK
<1>4. Linked' = Linked
  BY <1>2 DEF Linked
<1>5. \A q \in Putters : (Fills(q)' <=> Fills(q)) /\ put'[q] = put[q]
  BY <1>2 DEF Fills
<1> QED
  BY <1>1, <1>2, <1>3, <1>4, <1>5, ContentFrame DEF FreedInvalid
-----------------------------------------------------------------------------
(* The steps under the spinlock *)

\* The search of put_data ends at a free block.
LEMMA TargetFree ==
    ASSUME ContentInv, NEW b, IsTarget(b)
    PROVE  ~metadata_array[b].is_valid
BY DEF IsTarget, ReadsInvalid, ContentInv, FreedInvalid

\* The lock is taken and the first half of the message copied into a free block.
LEMMA PutLockContent ==
    ASSUME MemInv, ContentInv, NEW p \in Putters, PutLock(p)
    PROVE  ContentInv' /\ Keeps /\ Linked' = Linked
<1>1. RcuTypeOK /\ ElemBlocks /\ PutTypeOK /\ DevTypeOK
  BY MemInvParts
<1>2. /\ FillerLocks /\ FillsFree /\ HalfCopied /\ FreedInvalid
      /\ ListedValid /\ ValidListed /\ OneElement /\ CacheAgrees /\ ListedWhole
  BY ContentParts
<1>3. PICK b \in Blocks :
        /\ IsTarget(b)
        /\ put' = [put EXCEPT ![p].pc = "copy", ![p].block = b]
        /\ buffer' = [buffer EXCEPT ![b].md = NewMetadata(p), ![b].data[1] = put[p].msg]
  BY DEF PutLock
<1>4. /\ rcu_write_lock = NULL /\ rcu_write_lock' = p
      /\ UNCHANGED <<valid_blk_list, elem, metadata_array, md_freed>>
  BY DEF PutLock, rcuVars
<1>5. ~metadata_array[b].is_valid
  BY <1>3, TargetFree
<1>6. \A q \in Putters : ~Fills(q)
  BY <1>2, <1>4, NullAssumption DEF FillerLocks
<1>7. /\ put'[p].pc = "copy" /\ put'[p].block = b
      /\ put'[p].msg = put[p].msg /\ put'[p].nsec = put[p].nsec
      /\ \A q \in Putters \ {p} : put'[q] = put[q]
  BY <1>1, <1>3 DEF PutTypeOK, PutType
<1>8. /\ buffer'[b].md = NewMetadata(p) /\ buffer'[b].data[1] = put[p].msg
      /\ \A c \in Blocks \ {b} : buffer'[c] = buffer[c]
  BY <1>1, <1>3 DEF DevTypeOK, BlockType
<1>9. Linked' = Linked
  BY <1>4 DEF Linked
<1>10. \A q \in Putters : Fills(q)' <=> q = p
  BY <1>6, <1>7 DEF Fills
<1>11. \A n \in Linked : elem[n].ndx \in Blocks \ {b}
  BY <1>1, <1>2, <1>5, LinkedBlocks DEF ListedValid
<1>12. FillerLocks' /\ FillsFree' /\ HalfCopied'
  <2>1. FillerLocks' /\ FillsFree'
    BY <1>4, <1>5, <1>7, <1>10 DEF FillerLocks, FillsFree
  <2>2. NewMetadata(p)' = NewMetadata(p)
    BY <1>7 DEF NewMetadata
  <2>3. HalfCopied'
    BY <1>7, <1>8, <1>10, <2>2 DEF HalfCopied
  <2> QED
    BY <2>1, <2>3
<1>13. FreedInvalid' /\ ListedValid' /\ OneElement'
  BY <1>2, <1>4, <1>9 DEF FreedInvalid, ListedValid, OneElement
<1>14. ValidListed'
  BY <1>2, <1>4, <1>9 DEF ValidListed, Holds
<1>15. CacheAgrees'
  <2> SUFFICES ASSUME NEW c \in Blocks, \A q \in Putters : Fills(q)' => put'[q].block # c
               PROVE  buffer'[c].md = metadata_array'[c]
    BY DEF CacheAgrees
  <2>1. c # b
    BY <1>7, <1>10
  <2> QED
    BY <1>2, <1>4, <1>6, <1>8, <2>1 DEF CacheAgrees
<1>16. ListedWhole'
  BY <1>2, <1>4, <1>8, <1>9, <1>11 DEF ListedWhole
<1>17. Keeps
  BY <1>4, <1>8, <1>11 DEF Keeps
<1> QED
  BY <1>9, <1>12, <1>13, <1>14, <1>15, <1>16, <1>17 DEF ContentInv

\* The second half.
LEMMA PutCopyContent ==
    ASSUME MemInv, ContentInv, NEW p \in Putters, PutCopy(p)
    PROVE  ContentInv' /\ Keeps /\ Linked' = Linked
<1>1. RcuTypeOK /\ ElemBlocks /\ PutTypeOK /\ DevTypeOK
  BY MemInvParts
<1>2. /\ FillerLocks /\ FillsFree /\ HalfCopied /\ FreedInvalid
      /\ ListedValid /\ ValidListed /\ OneElement /\ CacheAgrees /\ ListedWhole
  BY ContentParts
<1> DEFINE b == put[p].block
<1>3. /\ put[p].pc = "copy"
      /\ put' = [put EXCEPT ![p].pc = "publish"]
      /\ buffer' = [buffer EXCEPT ![b].data[2] = put[p].msg]
      /\ UNCHANGED <<valid_blk_list, elem, rcu_write_lock, metadata_array, md_freed>>
  BY DEF PutCopy, rcuVars
<1>4. Fills(p) /\ b \in Blocks
  BY <1>1, <1>3 DEF Fills, PutTypeOK, PutType
<1>5. /\ put'[p].pc = "publish" /\ put'[p].block = b
      /\ put'[p].msg = put[p].msg /\ put'[p].nsec = put[p].nsec
      /\ \A q \in Putters \ {p} : put'[q] = put[q]
  BY <1>1, <1>3 DEF PutTypeOK, PutType
<1>6. \A n \in Linked : elem[n].ndx # b
  BY <1>4, FilledNotListed
<1>7. \A q \in Putters : (Fills(q) <=> q = p) /\ (Fills(q)' <=> q = p)
  <2>1. \A q \in Putters : Fills(q) => q = p
    BY <1>2, <1>4 DEF FillerLocks
  <2> QED
    BY <1>3, <1>4, <1>5, <2>1 DEF Fills
<1>8. buffer[b].md = NewMetadata(p) /\ buffer[b].data[1] = put[p].msg
  BY <1>2, <1>4 DEF HalfCopied
<1> HIDE DEF b
<1>9. /\ buffer'[b].data[1] = put[p].msg /\ buffer'[b].data[2] = put[p].msg
      /\ buffer'[b].md = buffer[b].md
      /\ \A c \in Blocks \ {b} : buffer'[c] = buffer[c]
  BY <1>1, <1>3, <1>4, <1>8 DEF DevTypeOK, BlockType
<1>10. Linked' = Linked
  BY <1>3 DEF Linked
<1>11. \A n \in Linked : elem[n].ndx \in Blocks \ {b}
  BY <1>1, <1>6, LinkedBlocks
<1>12. FillerLocks'
  BY <1>2, <1>3, <1>7 DEF FillerLocks
<1>13. FillsFree' /\ HalfCopied'
  <2>1. FillsFree'
    BY <1>2, <1>3, <1>4, <1>5, <1>7 DEF FillsFree, b
  <2>2. NewMetadata(p)' = NewMetadata(p)
    BY <1>5 DEF NewMetadata
  <2>3. HalfCopied'
    BY <1>5, <1>7, <1>8, <1>9, <2>2 DEF HalfCopied
  <2> QED
    BY <2>1, <2>3
<1>14. FreedInvalid' /\ ListedValid' /\ OneElement'
  BY <1>2, <1>3, <1>10 DEF FreedInvalid, ListedValid, OneElement
<1>15. ValidListed'
  BY <1>2, <1>3, <1>10 DEF ValidListed, Holds
<1>16. CacheAgrees'
  <2> SUFFICES ASSUME NEW c \in Blocks, \A q \in Putters : Fills(q)' => put'[q].block # c
               PROVE  buffer'[c].md = metadata_array'[c]
    BY DEF CacheAgrees
  <2>1. c # b
    BY <1>5, <1>7
  <2>2. \A q \in Putters : Fills(q) => put[q].block # c
    BY <1>7, <2>1 DEF b
  <2> QED
    BY <1>2, <1>3, <1>9, <2>1, <2>2 DEF CacheAgrees
<1>17. ListedWhole'
  BY <1>2, <1>3, <1>9, <1>10, <1>11 DEF ListedWhole
<1>18. Keeps
  BY <1>3, <1>9, <1>11 DEF Keeps
<1> QED
  BY <1>10, <1>12, <1>13, <1>14, <1>15, <1>16, <1>17, <1>18 DEF ContentInv

\* The element is listed and the entry valid: the block becomes a stored message.
LEMMA PutPublishContent ==
    ASSUME MemInv, ContentInv, NEW p \in Putters, PutPublish(p)
    PROVE  /\ ContentInv' /\ Keeps
           /\ Linked' = Linked \cup {put[p].el} /\ elem'[put[p].el].ndx = put[p].block
           /\ buffer'[put[p].block].data[1] = put[p].msg
<1>1. RcuTypeOK /\ ElemBlocks /\ PutTypeOK /\ DevTypeOK /\ Distinct /\ PutsOwn
  BY MemInvParts
<1>2. /\ FillerLocks /\ FillsFree /\ HalfCopied /\ FreedInvalid
      /\ ListedValid /\ ValidListed /\ OneElement /\ CacheAgrees /\ ListedWhole
  BY ContentParts
<1> DEFINE n == put[p].el
           b == put[p].block
           bytes == MsgLen[put[p].msg]
           r == [PutIdle EXCEPT !.pc = "sync", !.block = b]
<1>3. /\ put[p].pc = "publish"
      /\ add_valid_block_in_order_secure(n, b, bytes, put[p].nsec)
      /\ put' = [put EXCEPT ![p] = r]
      /\ metadata_array' = [metadata_array EXCEPT ![b] = NewMetadata(p)]
      /\ md_freed' = md_freed \ {b}
      /\ rcu_write_lock' = NULL
      /\ UNCHANGED buffer
  BY DEF PutPublish
<1>4. Fills(p) /\ Preparing(p) /\ put[p].msg \in Messages
  BY <1>1, <1>3 DEF Fills, Preparing, PutTypeOK
<1>5. b \in Blocks /\ put[p].nsec \in Int
  BY <1>1 DEF PutTypeOK, PutType
<1>6. bytes \in Nat /\ b \in Nat
  BY <1>4, <1>5, MessagesAssumption DEF Blocks
<1>7. n \in Nodes /\ n \notin Linked
  BY <1>1, <1>4 DEF PutsOwn
<1>8. \A m \in Linked : elem[m].ndx \in Blocks \ {b} /\ m \in Nodes \ {n}
  BY <1>1, <1>4, <1>7, FilledNotListed, LinkedBlocks
<1>9. \A q \in Putters : Fills(q) => q = p
  BY <1>2, <1>4 DEF FillerLocks
<1>10. buffer[b].data[1] = put[p].msg /\ buffer[b].data[2] = put[p].msg
  BY <1>2, <1>3, <1>4 DEF HalfCopied
<1>11. r.pc = "sync"
  BY DEF PutIdle
<1>12. NewMetadata(p) = [nsec |-> put[p].nsec, is_valid |-> TRUE, valid_bytes |-> bytes]
  BY DEF NewMetadata
<1> HIDE DEF n, b, bytes, r
<1>13. Linked' = Linked \cup {n}
  BY <1>1, <1>3, <1>5, <1>6, <1>7, InsertLinks
<1>14. /\ elem'[n].ndx = b /\ elem'[n].nsec = put[p].nsec /\ elem'[n].valid_bytes = bytes
       /\ \A m \in Linked : elem'[m] = elem[m]
  <2>1. elem' = [elem EXCEPT ![n] = [ndx |-> b, nsec |-> put[p].nsec, valid_bytes |-> bytes]]
    BY <1>3 DEF add_valid_block_in_order_secure
  <2> QED
    BY <1>1, <1>7, <1>8, <2>1 DEF RcuTypeOK
<1>15. /\ metadata_array'[b].is_valid /\ metadata_array'[b].nsec = put[p].nsec
       /\ metadata_array'[b].valid_bytes = bytes
       /\ metadata_array'[b] = NewMetadata(p)
       /\ \A c \in Blocks \ {b} : metadata_array'[c] = metadata_array[c]
  BY <1>1, <1>3, <1>5, <1>12 DEF DevTypeOK
<1>16. \A q \in Putters : put'[q].pc = (IF q = p THEN "sync" ELSE put[q].pc)
  BY <1>1, <1>3, <1>11 DEF PutTypeOK
<1>17. \A q \in Putters : ~Fills(q)'
  BY <1>9, <1>16 DEF Fills
<1>18. FillerLocks' /\ FillsFree' /\ HalfCopied'
  BY <1>3, <1>17, NullAssumption DEF FillerLocks, FillsFree, HalfCopied
<1>19. FreedInvalid'
  BY <1>1, <1>2, <1>3, <1>15 DEF FreedInvalid, DevTypeOK
<1>20. ListedValid'
  BY <1>2, <1>8, <1>13, <1>14, <1>15 DEF ListedValid
<1>21. ValidListed'
  <2>1. \A c \in Blocks \ {b} : metadata_array'[c].is_valid => Holds(c)
    BY <1>2, <1>15 DEF ValidListed
  <2>2. \A c \in Blocks \ {b} : metadata_array'[c].is_valid => Holds(c)'
    BY <1>13, <1>14, <2>1 DEF Holds
  <2>3. \A c \in Blocks : c = b => Holds(c)'
    BY <1>13, <1>14 DEF Holds
  <2> QED
    BY <2>2, <2>3 DEF ValidListed
<1>22. OneElement'
  BY <1>2, <1>8, <1>13, <1>14 DEF OneElement
<1>23. CacheAgrees'
  <2>1. \A c \in Blocks \ {b} : buffer[c].md = metadata_array[c]
    BY <1>2, <1>9 DEF CacheAgrees, b
  <2>2. buffer[b].md = NewMetadata(p)
    BY <1>2, <1>4 DEF HalfCopied, b
  <2> QED
    BY <1>3, <1>15, <2>1, <2>2 DEF CacheAgrees
<1>24. ListedWhole'
  <2>1. \A m \in Linked : \E x \in Messages :
          /\ buffer'[elem'[m].ndx].data[1] = x /\ buffer'[elem'[m].ndx].data[2] = x
          /\ elem'[m].valid_bytes = MsgLen[x]
    BY <1>2, <1>3, <1>14 DEF ListedWhole
  <2>2. /\ buffer'[elem'[n].ndx].data[1] = put[p].msg
        /\ buffer'[elem'[n].ndx].data[2] = put[p].msg
        /\ elem'[n].valid_bytes = MsgLen[put[p].msg]
    BY <1>3, <1>10, <1>14 DEF bytes
  <2> QED
    BY <1>4, <1>13, <2>1, <2>2 DEF ListedWhole
<1>25. Keeps
  BY <1>3, <1>14 DEF Keeps
<1>26. /\ Linked' = Linked \cup {put[p].el} /\ elem'[put[p].el].ndx = put[p].block
       /\ buffer'[put[p].block].data[1] = put[p].msg
  BY <1>3, <1>10, <1>13, <1>14 DEF n, b
<1>27. ContentInv'
  BY <1>18, <1>19, <1>20, <1>21, <1>22, <1>23, <1>24 DEF ContentInv
<1> QED
  BY <1>25, <1>26, <1>27

\* One element leaves the list, and its block becomes invalid in the array and in the cache.
LEMMA InvUnlinkContent ==
    ASSUME MemInv, ContentInv, NEW i \in Updaters, InvUnlink(i)
    PROVE  ContentInv' /\ Keeps /\ \E n \in Linked : Linked' = Linked \ {n}
<1>1. RcuTypeOK /\ ElemBlocks /\ PutTypeOK /\ DevTypeOK /\ Distinct
  BY MemInvParts
<1>2. /\ FillerLocks /\ FillsFree /\ HalfCopied /\ FreedInvalid
      /\ ListedValid /\ ValidListed /\ OneElement /\ CacheAgrees /\ ListedWhole
  BY ContentParts
<1>3. PICK k \in 1..Len(valid_blk_list) :
        /\ list_del_rcu(k)
        /\ metadata_array' = [metadata_array EXCEPT ![elem[valid_blk_list[k]].ndx].is_valid = FALSE]
        /\ buffer' = [buffer EXCEPT ![elem[valid_blk_list[k]].ndx].md =
                                       metadata_array'[elem[valid_blk_list[k]].ndx]]
  BY Zenon DEF InvUnlink
<1>4. /\ rcu_write_lock = NULL
      /\ UNCHANGED <<elem, rcu_write_lock, md_freed, put>>
  BY DEF InvUnlink
<1> DEFINE n == valid_blk_list[k]
           b == elem[n].ndx
<1>5. n \in Linked /\ Linked' = Linked \ {n}
  BY <1>1, <1>3, RemoveUnlinks
<1>6. n \in Nodes /\ b \in Blocks
  BY <1>1, <1>5, LinkedBlocks
<1>7. /\ metadata_array' = [metadata_array EXCEPT ![b].is_valid = FALSE]
      /\ buffer' = [buffer EXCEPT ![b].md = metadata_array'[b]]
  BY <1>3
<1>8. \A q \in Putters : ~Fills(q)
  BY <1>2, <1>4, NullAssumption DEF FillerLocks
<1> HIDE DEF n, b
<1>9. /\ ~metadata_array'[b].is_valid
      /\ \A c \in Blocks \ {b} : metadata_array'[c] = metadata_array[c]
  BY <1>1, <1>6, <1>7 DEF DevTypeOK, MetadataType
<1>10. /\ buffer'[b].md = metadata_array'[b]
       /\ \A c \in Blocks \ {b} : buffer'[c] = buffer[c]
  BY <1>1, <1>6, <1>7 DEF DevTypeOK, BlockType
<1>11. \A m \in Linked' : m \in Linked /\ elem[m].ndx \in Blocks \ {b}
  BY <1>1, <1>2, <1>5, LinkedBlocks DEF OneElement, b
<1>12. \A q \in Putters : ~Fills(q)'
  BY <1>4, <1>8 DEF Fills
<1>13. FillerLocks' /\ FillsFree' /\ HalfCopied'
  BY <1>4, <1>12, NullAssumption DEF FillerLocks, FillsFree, HalfCopied
<1>14. FreedInvalid'
  BY <1>1, <1>2, <1>4, <1>9 DEF FreedInvalid, DevTypeOK
<1>15. ListedValid' /\ OneElement'
  BY <1>2, <1>4, <1>9, <1>11 DEF ListedValid, OneElement
<1>16. ValidListed'
  <2> SUFFICES ASSUME NEW c \in Blocks, metadata_array'[c].is_valid
               PROVE  \E m \in Linked' : elem[m].ndx = c
    BY <1>4 DEF ValidListed, Holds
  <2>1. c # b
    BY <1>9
  <2>2. PICK m \in Linked : elem[m].ndx = c
    BY <1>2, <1>9, <2>1 DEF ValidListed, Holds
  <2> QED
    BY <1>5, <2>1, <2>2 DEF b
<1>17. CacheAgrees'
  BY <1>2, <1>8, <1>9, <1>10 DEF CacheAgrees
<1>18. ListedWhole'
  BY <1>2, <1>4, <1>10, <1>11 DEF ListedWhole
<1>19. Keeps
  BY <1>4, <1>10, <1>11 DEF Keeps
<1> QED
  BY <1>5, <1>13, <1>14, <1>15, <1>16, <1>17, <1>18, <1>19 DEF ContentInv
=============================================================================
