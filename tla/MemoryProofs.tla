---------------------------- MODULE MemoryProofs ----------------------------
(***************************************************************************)
(* The memory invariant of Syscalls: its parts, its initial states, and the *)
(* steps that leave the list alone.  The modules on put_data, get_data and *)
(* invalidate_data rest on these lemmas.                                   *)
(***************************************************************************)
EXTENDS Syscalls, RcuListProofs

\* The facts that the memory invariant consists of.
LEMMA MemInvParts ==
    ASSUME MemInv
    PROVE  /\ RcuTypeOK /\ ElemBlocks /\ DevTypeOK /\ PutTypeOK /\ GetTypeOK /\ InvTypeOK
           /\ Distinct /\ FreeUnlinked /\ NoLeak /\ PutsOwn /\ InvsOwn
           /\ PutsApart /\ InvsApart /\ CallsApart
           /\ OutsideClear /\ CursorCovered /\ NextCovered /\ GraceCovers /\ GettersInside
BY DEF MemInv, TypeOK, Owners, ReadersCovered

\* The local variables of the calls when no call runs.
LEMMA IdleTypes ==
    /\ PutIdle \in PutType /\ PutIdle.pc = "idle"
    /\ GetIdle \in GetType /\ GetIdle.pc = "idle"
    /\ InvIdle \in InvType /\ InvIdle.pc = "idle"
    /\ ZeroElem \in ElemType /\ ZeroElem.ndx \in Blocks
<1>1. 0 \in Blocks /\ Blank \in Cell
  BY NumBlocksAssumption DEF Cell, Blocks
<1>2. <<Blank, Blank>> \in [1..2 -> Cell]
  BY <1>1
<1> HIDE DEF Cell, Blocks
<1>3. PutIdle \in PutType /\ PutIdle.pc = "idle"
  BY <1>1 DEF PutIdle, PutType
<1>4. GetIdle.pc = "idle"
  BY DEF GetIdle
<1>5. GetIdle \in GetType
  BY <1>1, <1>2 DEF GetIdle, GetType
<1>6. InvIdle \in InvType /\ InvIdle.pc = "idle"
  BY <1>1 DEF InvIdle, InvType
<1>7. ZeroElem \in ElemType /\ ZeroElem.ndx \in Blocks
  BY <1>1 DEF ZeroElem, ElemType
<1> QED
  BY <1>3, <1>4, <1>5, <1>6, <1>7

\* A write to one half of a block's data, and one to its metadata and data, keep the type.
LEMMA BlockData ==
    ASSUME NEW f \in [Blocks -> BlockType], NEW b \in Blocks, NEW c \in Cell, NEW k \in 1..2
    PROVE  [f EXCEPT ![b].data[k] = c] \in [Blocks -> BlockType]
<1> DEFINE d == [f[b].data EXCEPT ![k] = c]
           r == [f[b] EXCEPT !.data[k] = c]
<1>1. f[b] \in BlockType /\ f[b].data \in [1..2 -> Cell]
  BY DEF BlockType
<1>2. d \in [1..2 -> Cell]
  BY <1>1
<1>3. r = [f[b] EXCEPT !.data = d]
  OBVIOUS
<1>4. r \in BlockType
  <2> HIDE DEF d, r
  <2> QED
    BY <1>1, <1>2, <1>3 DEF BlockType
<1>5. [f EXCEPT ![b].data[k] = c] = [f EXCEPT ![b] = r]
  OBVIOUS
<1> HIDE DEF r
<1> QED
  BY <1>4, <1>5

LEMMA BlockMetadata ==
    ASSUME NEW f \in [Blocks -> BlockType], NEW b \in Blocks, NEW m \in MetadataType
    PROVE  [f EXCEPT ![b].md = m] \in [Blocks -> BlockType]
BY DEF BlockType

\* A read into one half of get_data's buffer keeps the type.
LEMMA GetOut ==
    ASSUME NEW f \in [Getters -> GetType], NEW g \in Getters, NEW c \in Cell,
           NEW k \in 1..2, NEW s \in {"copy", "copied"}, NEW len \in Nat
    PROVE  [f EXCEPT ![g].pc = s, ![g].out[k] = c, ![g].bytes = len] \in [Getters -> GetType]
<1> DEFINE o == [f[g].out EXCEPT ![k] = c]
           r == [f[g] EXCEPT !.pc = s, !.out = o, !.bytes = len]
<1>1. f[g] \in GetType /\ f[g].out \in [1..2 -> Cell]
  BY DEF GetType
<1>2. o \in [1..2 -> Cell]
  BY <1>1
<1>3. [f EXCEPT ![g].pc = s, ![g].out[k] = c, ![g].bytes = len] = [f EXCEPT ![g] = r]
  BY Zenon
<1>4. r \in GetType
  <2> HIDE DEF o
  <2> QED
    BY <1>1, <1>2 DEF GetType
<1> HIDE DEF r
<1> QED
  BY <1>3, <1>4

\* The device as it is mounted satisfies the memory invariant.
LEMMA InitMem == Init => MemInv /\ ListSorted
<1> SUFFICES ASSUME Init PROVE MemInv /\ ListSorted
  OBVIOUS
<1> USE NumBlocksAssumption, HeadAssumption
<1>1. NumBlocks - 1 \in Blocks /\ 0 \in Blocks
  BY DEF Blocks
<1>2. Linked = {} /\ Len(valid_blk_list) = 0
  BY DEF Init, RcuInit, Linked
<1>3. RcuTypeOK
  BY IdleTypes DEF Init, RcuInit, RcuTypeOK
<1>4. ElemBlocks
  BY IdleTypes DEF Init, RcuInit, ElemBlocks
<1>5. DevTypeOK
  <2>1. Blank \in Cell
    BY DEF Cell
  <2>2. <<Blank, Blank>> \in [1..2 -> Cell]
    BY <2>1
  <2>3. NoMetadata \in MetadataType
    BY DEF NoMetadata, MetadataType
  <2>4. buffer \in [Blocks -> BlockType]
    BY <2>2, <2>3 DEF Init, BlockType
  <2>5. metadata_array \in [Blocks -> MetadataType]
    BY <2>3 DEF Init
  <2>6. /\ rcu_write_lock = NULL /\ md_freed = {} /\ last_written_block \in Blocks
    BY <1>1 DEF Init
  <2> QED
    BY <2>4, <2>5, <2>6 DEF DevTypeOK
<1>6. /\ put = [p \in Putters |-> PutIdle]
      /\ get = [g \in Getters |-> GetIdle]
      /\ inv = [i \in Updaters |-> InvIdle]
  BY DEF Init
<1>7. PutTypeOK /\ GetTypeOK /\ InvTypeOK
  BY <1>6, IdleTypes DEF PutTypeOK, GetTypeOK, InvTypeOK
<1>8. /\ \A p \in Putters : ~Preparing(p)
      /\ \A i \in Updaters : ~Removing(i)
  BY <1>6, IdleTypes DEF Preparing, Removing
<1>9. heap = Nodes
  BY DEF Init, RcuInit
<1>10. Distinct /\ FreeUnlinked /\ NoLeak
  BY <1>2, <1>9 DEF Distinct, FreeUnlinked, NoLeak
<1>11. PutsOwn /\ InvsOwn /\ PutsApart /\ InvsApart /\ CallsApart
  BY <1>8 DEF PutsOwn, InvsOwn, PutsApart, InvsApart, CallsApart
<1>12. \A r \in Readers : cursor[r] = NULL /\ removed_since[r] = {}
  BY DEF Init, RcuInit
<1>13. OutsideClear /\ CursorCovered /\ NextCovered /\ GraceCovers
  BY <1>12 DEF OutsideClear, CursorCovered, NextCovered, GraceCovers
<1>14. GettersInside
  BY <1>6, IdleTypes DEF GettersInside
<1>15. ListSorted
  BY <1>2 DEF ListSorted
<1> QED
  BY <1>3, <1>4, <1>5, <1>7, <1>10, <1>11, <1>13, <1>14, <1>15
     DEF MemInv, TypeOK, Owners, ReadersCovered
-----------------------------------------------------------------------------
(* Facts that several steps share *)

\* A step that leaves the list and the allocator alone, in which no element changes
\* hands, keeps every element's owner.
LEMMA OwnersFrame ==
    ASSUME Owners, UNCHANGED <<valid_blk_list, heap>>,
           \A q \in Putters : /\ Preparing(q)' <=> Preparing(q)
                              /\ Preparing(q) => put'[q].el = put[q].el,
           \A i \in Updaters : (Removing(i)' <=> Removing(i)) /\ inv'[i].el = inv[i].el
    PROVE  Owners' /\ Linked' = Linked
<1>1. Linked' = Linked
  BY DEF Linked
<1>2. Distinct'
  BY DEF Owners, Distinct
<1>3. FreeUnlinked'
  BY <1>1 DEF Owners, FreeUnlinked
<1>4. NoLeak'
  <2>1. NoLeak
    BY DEF Owners
  <2> SUFFICES ASSUME NEW n \in Nodes \ (heap \cup Linked)
               PROVE  \/ \E q \in Putters : Preparing(q)' /\ put'[q].el = n
                      \/ \E i \in Updaters : Removing(i)' /\ inv'[i].el = n
    BY <1>1 DEF NoLeak
  <2> QED
    BY <2>1 DEF NoLeak
<1>5. PutsOwn' /\ PutsApart'
  <2>1. PutsOwn /\ PutsApart
    BY DEF Owners
  <2>2. PutsOwn'
    BY <1>1, <2>1 DEF PutsOwn
  <2>3. PutsApart'
    BY <2>1 DEF PutsApart
  <2> QED
    BY <2>2, <2>3
<1>6. InvsOwn' /\ InvsApart'
  <2>1. InvsOwn /\ InvsApart
    BY DEF Owners
  <2>2. InvsOwn'
    BY <1>1, <2>1 DEF InvsOwn
  <2>3. InvsApart'
    BY <2>1 DEF InvsApart
  <2> QED
    BY <2>2, <2>3
<1>7. CallsApart'
  <2>1. CallsApart
    BY DEF Owners
  <2> QED
    BY <2>1 DEF CallsApart
<1> QED
  BY <1>1, <1>2, <1>3, <1>4, <1>5, <1>6, <1>7 DEF Owners

\* A step that moves no reader, unlinks nothing and leaves the invalidations alone keeps
\* the readers covered; the list may grow.
LEMMA CoverFrame ==
    ASSUME ReadersCovered, UNCHANGED <<cursor, waiting, removed_since, inv>>,
           Linked \subseteq Linked',
           \A r \in Readers : \A n \in removed_since[r] : stale_next'[n] = stale_next[n],
           \A g \in Getters : get'[g].pc # "idle" => get[g].pc # "idle"
    PROVE  ReadersCovered'
<1>1. OutsideClear'
  BY DEF ReadersCovered, OutsideClear
<1>2. CursorCovered'
  <2>1. CursorCovered
    BY DEF ReadersCovered
  <2> QED
    BY <2>1 DEF CursorCovered
<1>3. NextCovered'
  <2>1. NextCovered
    BY DEF ReadersCovered
  <2> QED
    BY <2>1 DEF NextCovered
<1>4. GraceCovers'
  <2>1. GraceCovers
    BY DEF ReadersCovered
  <2> QED
    BY <2>1 DEF GraceCovers, Awaited, Removing
<1>5. GettersInside'
  BY DEF ReadersCovered, GettersInside
<1> QED
  BY <1>1, <1>2, <1>3, <1>4, <1>5 DEF ReadersCovered

\* Steps that leave the list, the allocator and the readers alone, and no element
\* changes hands.
LEMMA FrameMem ==
    ASSUME MemInv, ListSorted, TypeOK',
           UNCHANGED <<valid_blk_list, elem, stale_next, heap, cursor, waiting,
                       removed_since, inv>>,
           \A q \in Putters : /\ Preparing(q)' <=> Preparing(q)
                              /\ Preparing(q) => put'[q].el = put[q].el,
           \A g \in Getters : get'[g].pc # "idle" => get[g].pc # "idle"
    PROVE  MemInv' /\ ListSorted'
<1>1. Owners /\ ReadersCovered
  BY DEF MemInv
<1>2. \A i \in Updaters : (Removing(i)' <=> Removing(i)) /\ inv'[i].el = inv[i].el
  BY DEF Removing
<1>3. Owners' /\ Linked' = Linked
  BY <1>1, <1>2, OwnersFrame
<1>4. ReadersCovered'
  BY <1>1, <1>3, CoverFrame
<1>5. ListSorted'
  BY DEF ListSorted
<1> QED
  BY <1>3, <1>4, <1>5 DEF MemInv

\* The order of the list survives when the fields of its elements do.
LEMMA SortedFrame ==
    ASSUME ListSorted, RcuTypeOK, UNCHANGED valid_blk_list,
           NEW n \in Nodes \ Linked, NEW e, elem' = [elem EXCEPT ![n] = e]
    PROVE  ListSorted'
<1>1. elem \in [Nodes -> ElemType] /\ valid_blk_list \in Seq(Nodes)
  BY DEF RcuTypeOK
<1>2. ASSUME NEW j \in 1..Len(valid_blk_list)
      PROVE  elem'[valid_blk_list[j]] = elem[valid_blk_list[j]]
  <2>1. valid_blk_list[j] \in Nodes
    BY <1>1
  <2>2. valid_blk_list[j] # n
    BY DEF Linked
  <2> QED
    BY <1>1, <2>1, <2>2
<1> QED
  BY <1>2 DEF ListSorted
=============================================================================
