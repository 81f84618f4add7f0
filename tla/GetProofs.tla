----------------------------- MODULE GetProofs ------------------------------
(***************************************************************************)
(* get_data preserves the memory invariant of Syscalls.                    *)
(***************************************************************************)
EXTENDS MemoryProofs

\* Steps of get_data inside its critical section that do not move the cursor.
LEMMA GetFrameMem ==
    ASSUME MemInv, ListSorted, NEW g \in Getters, GetFound(g) \/ GetRead(g) \/ GetCopy(g)
    PROVE  MemInv' /\ ListSorted'
<1>1. /\ RcuTypeOK /\ ElemBlocks /\ DevTypeOK /\ PutTypeOK /\ GetTypeOK /\ InvTypeOK
      /\ CursorCovered /\ GettersInside
  BY MemInvParts
<1>2. UNCHANGED <<valid_blk_list, elem, stale_next, heap, cursor, waiting, removed_since,
                  rcu_write_lock, metadata_array, md_freed, last_written_block, buffer,
                  put, inv>>
  BY DEF GetFound, GetRead, GetCopy, rcuVars, devVars
<1>3. get \in [Getters -> GetType] /\ buffer \in [Blocks -> BlockType]
  BY <1>1 DEF GetTypeOK, DevTypeOK
<1>4. get[g].ndx \in Blocks /\ get[g].bytes \in Nat /\ get[g].size \in Nat
  BY <1>3 DEF GetType
<1>5. \A b \in Blocks : buffer[b].data[1] \in Cell /\ buffer[b].data[2] \in Cell
  BY <1>3 DEF BlockType
<1>6. 1 \in 1..2 /\ 2 \in 1..2
  OBVIOUS
<1>7. get' \in [Getters -> GetType]
  <2>1. CASE GetFound(g)
    <3> DEFINE vb == elem[cursor[g]].valid_bytes
               r == [get[g] EXCEPT !.pc = "read", !.bytes = vb]
    <3>1. get' = [get EXCEPT ![g] = r] /\ cursor[g] # HEAD /\ get[g].pc # "idle"
      BY <2>1 DEF GetFound
    <3>2. cursor[g] \in Nodes
      <4>1. cursor \in [Readers -> Nodes \cup {HEAD, NULL}]
        BY <1>1 DEF RcuTypeOK
      <4>2. cursor[g] # NULL
        BY <1>1, <3>1 DEF GettersInside
      <4> QED
        BY <3>1, <4>1, <4>2, ReadersAssumption
    <3>3. vb \in Nat
      BY <3>2, <1>1 DEF RcuTypeOK, ElemType
    <3> HIDE DEF vb
    <3>4. get[g] \in GetType
      BY <1>3
    <3>5. r \in GetType
      BY <3>3, <3>4 DEF GetType
    <3> HIDE DEF r
    <3> QED
      BY <3>1, <3>5, <1>3
  <2>2. CASE GetRead(g)
    <3> DEFINE c == buffer[get[g].ndx].data[1]
               len == IF get[g].size > get[g].bytes THEN get[g].bytes ELSE get[g].size
    <3>1. get' = [get EXCEPT ![g].pc = "copy", ![g].out[1] = c, ![g].bytes = len]
      BY <2>2 DEF GetRead
    <3>2. c \in Cell /\ len \in Nat
      BY <1>4, <1>5
    <3> HIDE DEF c, len
    <3>3. [get EXCEPT ![g].pc = "copy", ![g].out[1] = c, ![g].bytes = len]
             \in [Getters -> GetType]
      BY <1>3, <1>6, <3>2, GetOut, Zenon
    <3> QED
      BY <3>1, <3>3
  <2>3. CASE GetCopy(g)
    <3>1. PICK left \in 0..get[g].bytes :
            get' = [get EXCEPT ![g].pc = "copied", ![g].out[2] = buffer[get[g].ndx].data[2],
                               ![g].bytes = @ - left]
      BY <2>3 DEF GetCopy
    <3> DEFINE c == buffer[get[g].ndx].data[2]
               len == get[g].bytes - left
    <3>2. c \in Cell /\ len \in Nat
      BY <1>4, <1>5
    <3>3. get' = [get EXCEPT ![g].pc = "copied", ![g].out[2] = c, ![g].bytes = len]
      BY <3>1
    <3> HIDE DEF c, len
    <3>4. [get EXCEPT ![g].pc = "copied", ![g].out[2] = c, ![g].bytes = len]
             \in [Getters -> GetType]
      BY <1>3, <1>6, <3>2, GetOut, Zenon
    <3> QED
      BY <3>3, <3>4
  <2> QED
    BY <2>1, <2>2, <2>3
<1>8. TypeOK'
  <2>1. RcuTypeOK'
    BY <1>1, <1>2 DEF RcuTypeOK
  <2>2. ElemBlocks' /\ DevTypeOK' /\ PutTypeOK' /\ GetTypeOK' /\ InvTypeOK'
    BY <1>1, <1>2, <1>7 DEF ElemBlocks, DevTypeOK, PutTypeOK, GetTypeOK, InvTypeOK
  <2> QED
    BY <2>1, <2>2 DEF TypeOK
<1>9. \A h \in Getters : get'[h].pc # "idle" => get[h].pc # "idle"
  BY <1>3 DEF GetFound, GetRead, GetCopy
<1>10. \A q \in Putters : (Preparing(q)' <=> Preparing(q)) /\ put'[q].el = put[q].el
  BY <1>2 DEF Preparing
<1> QED
  BY <1>2, <1>8, <1>9, <1>10, FrameMem

\* Steps of get_data that move the reader: the invariant on owners is not concerned.
LEMMA GetOwners ==
    ASSUME MemInv, UNCHANGED <<valid_blk_list, heap, put, inv>>
    PROVE  Owners' /\ Linked' = Linked
<1>1. Owners
  BY DEF MemInv
<1>2. \A q \in Putters : (Preparing(q)' <=> Preparing(q)) /\ put'[q].el = put[q].el
  BY DEF Preparing
<1>3. \A i \in Updaters : (Removing(i)' <=> Removing(i)) /\ inv'[i].el = inv[i].el
  BY DEF Removing
<1> QED
  BY <1>1, <1>2, <1>3, OwnersFrame

\* A reader that moves within the list, or to an element unlinked since it entered,
\* stays covered.
LEMMA MoveCovered ==
    ASSUME ReadersCovered, RcuTypeOK, NEW g \in Getters, NEW m,
           m \in Linked \cup removed_since[g] \cup {HEAD}, m # NULL,
           cursor' = [cursor EXCEPT ![g] = m], Linked' = Linked,
           UNCHANGED <<stale_next, waiting, removed_since, inv>>,
           \A h \in Getters \ {g} : get'[h] = get[h]
    PROVE  ReadersCovered'
<1>1. OutsideClear /\ CursorCovered /\ NextCovered /\ GraceCovers /\ GettersInside
  BY DEF ReadersCovered
<1>2. cursor'[g] = m /\ \A r \in Readers \ {g} : cursor'[r] = cursor[r]
  BY ReadersAssumption DEF RcuTypeOK
<1>3. OutsideClear'
  BY <1>1, <1>2 DEF OutsideClear
<1>4. CursorCovered'
  BY <1>1, <1>2 DEF CursorCovered
<1>5. NextCovered'
  BY <1>1 DEF NextCovered
<1>6. GraceCovers'
  BY <1>1 DEF GraceCovers, Awaited, Removing
<1>7. GettersInside'
  BY <1>1, <1>2, ReadersAssumption DEF GettersInside
<1> QED
  BY <1>3, <1>4, <1>5, <1>6, <1>7 DEF ReadersCovered

\* A reader that enters starts on the list, with nothing unlinked behind its back.
LEMMA GetEnterMem ==
    ASSUME MemInv, ListSorted, NEW g \in Getters, GetEnter(g)
    PROVE  MemInv' /\ ListSorted'
<1> USE HeadAssumption, ReadersAssumption
<1>1. /\ RcuTypeOK /\ ElemBlocks /\ DevTypeOK /\ PutTypeOK /\ GetTypeOK /\ InvTypeOK
      /\ ReadersCovered
  BY MemInvParts DEF MemInv
<1>2. /\ get[g].pc = "idle" /\ cursor[g] = NULL
      /\ cursor' = [cursor EXCEPT ![g] = NextAt(0)]
      /\ UNCHANGED <<valid_blk_list, elem, stale_next, heap, waiting, removed_since,
                     rcu_write_lock, metadata_array, md_freed, last_written_block, buffer,
                     put, inv>>
  BY DEF GetEnter, rcu_read_lock, devVars
<1>3. PICK b \in Blocks, z \in Sizes :
        get' = [get EXCEPT ![g] =
            [GetIdle EXCEPT !.pc = "scan", !.ndx = b, !.size = z, !.absent = ~Holds(b)]]
  BY DEF GetEnter
<1>4. Owners' /\ Linked' = Linked
  BY <1>2, GetOwners
<1>5. NextAt(0) \in Linked \cup {HEAD} /\ NextAt(0) \in Nodes \cup {HEAD}
  <2>1. valid_blk_list \in Seq(Nodes) /\ Len(valid_blk_list) \in Nat /\ 0 + 1 = 1
    BY <1>1, LenProperties DEF RcuTypeOK
  <2>2. 0 < Len(valid_blk_list) => 1 \in 1..Len(valid_blk_list)
    BY <2>1
  <2> QED
    BY <2>1, <2>2 DEF NextAt, Linked
<1> DEFINE absent == ~Holds(b)
           rec == [GetIdle EXCEPT !.pc = "scan", !.ndx = b, !.size = z, !.absent = absent]
<1>6. z \in Nat /\ absent \in BOOLEAN
  BY MessagesAssumption
<1>7. get' = [get EXCEPT ![g] = rec]
  BY <1>3
<1> HIDE DEF absent
<1>8. rec \in GetType
  <2>1. GetIdle \in GetType
    BY IdleTypes
  <2> QED
    BY <1>6, <2>1 DEF GetType
<1> HIDE DEF rec
<1>9. get' \in [Getters -> GetType] /\ \A h \in Getters \ {g} : get'[h] = get[h]
  BY <1>1, <1>7, <1>8 DEF GetTypeOK
<1>10. TypeOK'
  <2>1. cursor' \in [Readers -> Nodes \cup {HEAD, NULL}]
    BY <1>1, <1>2, <1>5 DEF RcuTypeOK
  <2>2. RcuTypeOK'
    BY <1>1, <1>2, <2>1 DEF RcuTypeOK
  <2>3. ElemBlocks' /\ DevTypeOK' /\ PutTypeOK' /\ GetTypeOK' /\ InvTypeOK'
    BY <1>1, <1>2, <1>9 DEF ElemBlocks, DevTypeOK, PutTypeOK, GetTypeOK, InvTypeOK
  <2> QED
    BY <2>2, <2>3 DEF TypeOK
<1>11. ReadersCovered'
  <2> DEFINE m == NextAt(0)
  <2>1. m \in Linked \cup removed_since[g] \cup {HEAD} /\ m # NULL
    BY <1>5
  <2>2. cursor' = [cursor EXCEPT ![g] = m]
    BY <1>2
  <2> HIDE DEF m
  <2> QED
    BY <1>1, <1>2, <1>4, <1>9, <2>1, <2>2, MoveCovered
<1>12. ListSorted'
  BY <1>2 DEF ListSorted
<1> QED
  BY <1>4, <1>10, <1>11, <1>12 DEF MemInv

\* A reader that moves on gets to an element that is on the list or was unlinked
\* since it entered.
LEMMA GetHopMem ==
    ASSUME MemInv, ListSorted, NEW g \in Getters, GetHop(g)
    PROVE  MemInv' /\ ListSorted'
<1> USE HeadAssumption, ReadersAssumption
<1>1. /\ RcuTypeOK /\ ElemBlocks /\ DevTypeOK /\ PutTypeOK /\ GetTypeOK /\ InvTypeOK
      /\ ReadersCovered /\ CursorCovered /\ NextCovered /\ GettersInside
  BY MemInvParts DEF MemInv
<1>2. /\ get[g].pc = "scan" /\ cursor[g] # HEAD
      /\ UNCHANGED <<valid_blk_list, elem, stale_next, heap, waiting, removed_since,
                     rcu_write_lock, metadata_array, md_freed, last_written_block, buffer,
                     put, get, inv>>
  BY DEF GetHop, devVars, callVars
<1>3. PICK m \in Nodes \cup {HEAD} :
         IsNext(cursor[g], m) /\ cursor' = [cursor EXCEPT ![g] = m]
  BY DEF GetHop, rcu_advance
<1>4. Owners' /\ Linked' = Linked
  BY <1>2, GetOwners
<1>5. m \in Linked \cup removed_since[g] \cup {HEAD}
  <2>1. CASE \E k \in 1..Len(valid_blk_list) : valid_blk_list[k] = cursor[g] /\ m = NextAt(k)
    <3>1. PICK k \in 1..Len(valid_blk_list) : m = NextAt(k)
      BY <2>1
    <3>2. Len(valid_blk_list) \in Nat
      BY <1>1, LenProperties DEF RcuTypeOK
    <3>3. k < Len(valid_blk_list) => k + 1 \in 1..Len(valid_blk_list)
      BY <3>2
    <3> QED
      BY <3>1, <3>3 DEF NextAt, Linked
  <2>2. CASE cursor[g] \notin Linked /\ m = stale_next[cursor[g]]
    <3>1. cursor[g] # NULL
      BY <1>1, <1>2 DEF GettersInside
    <3>2. cursor[g] \in removed_since[g]
      BY <1>1, <1>2, <2>2, <3>1 DEF CursorCovered
    <3> QED
      BY <1>1, <2>2, <3>2 DEF NextCovered
  <2> QED
    BY <1>3, <2>1, <2>2 DEF IsNext
<1>6. TypeOK'
  <2>1. cursor' \in [Readers -> Nodes \cup {HEAD, NULL}]
    BY <1>1, <1>3 DEF RcuTypeOK
  <2>2. RcuTypeOK'
    BY <1>1, <1>2, <2>1 DEF RcuTypeOK
  <2>3. ElemBlocks' /\ DevTypeOK' /\ PutTypeOK' /\ GetTypeOK' /\ InvTypeOK'
    BY <1>1, <1>2 DEF ElemBlocks, DevTypeOK, PutTypeOK, GetTypeOK, InvTypeOK
  <2> QED
    BY <2>2, <2>3 DEF TypeOK
<1>7. ReadersCovered'
  <2>1. m # NULL
    OBVIOUS
  <2> QED
    BY <1>1, <1>2, <1>3, <1>4, <1>5, <2>1, MoveCovered
<1>8. ListSorted'
  BY <1>2 DEF ListSorted
<1> QED
  BY <1>4, <1>6, <1>7, <1>8 DEF MemInv

\* A reader that leaves is covered by nothing and needs no cover.
LEMMA GetLeaveMem ==
    ASSUME MemInv, ListSorted, NEW g \in Getters, GetLeave(g)
    PROVE  MemInv' /\ ListSorted'
<1> USE HeadAssumption, ReadersAssumption
<1>1. /\ RcuTypeOK /\ ElemBlocks /\ DevTypeOK /\ PutTypeOK /\ GetTypeOK /\ InvTypeOK
      /\ OutsideClear /\ CursorCovered /\ NextCovered /\ GraceCovers /\ GettersInside
  BY MemInvParts
<1>2. /\ cursor' = [cursor EXCEPT ![g] = NULL]
      /\ waiting' = [u \in Updaters |-> waiting[u] \ {g}]
      /\ removed_since' = [removed_since EXCEPT ![g] = {}]
      /\ get' = [get EXCEPT ![g] = GetIdle]
      /\ UNCHANGED <<valid_blk_list, elem, stale_next, heap,
                     rcu_write_lock, metadata_array, md_freed, last_written_block, buffer,
                     put, inv>>
  BY DEF GetLeave, rcu_read_unlock, devVars
<1>3. Owners' /\ Linked' = Linked
  BY <1>2, GetOwners
<1>4. /\ get' \in [Getters -> GetType] /\ get'[g].pc = "idle"
      /\ \A h \in Getters \ {g} : get'[h] = get[h]
  BY <1>1, <1>2, IdleTypes DEF GetTypeOK
<1>5. TypeOK'
  <2>1. /\ cursor' \in [Readers -> Nodes \cup {HEAD, NULL}]
        /\ waiting' \in [Updaters -> SUBSET Readers]
        /\ removed_since' \in [Readers -> SUBSET Nodes]
    BY <1>1, <1>2 DEF RcuTypeOK
  <2>2. RcuTypeOK'
    BY <1>1, <1>2, <2>1 DEF RcuTypeOK
  <2>3. ElemBlocks' /\ DevTypeOK' /\ PutTypeOK' /\ GetTypeOK' /\ InvTypeOK'
    BY <1>1, <1>2, <1>4 DEF ElemBlocks, DevTypeOK, PutTypeOK, GetTypeOK, InvTypeOK
  <2> QED
    BY <2>2, <2>3 DEF TypeOK
<1>6. ReadersCovered'
  <2>1. /\ cursor'[g] = NULL /\ removed_since'[g] = {}
        /\ \A r \in Readers \ {g} : cursor'[r] = cursor[r] /\ removed_since'[r] = removed_since[r]
    BY <1>1, <1>2 DEF RcuTypeOK
  <2>2. OutsideClear'
    BY <1>1, <2>1 DEF OutsideClear
  <2>3. CursorCovered'
    BY <1>1, <1>3, <2>1 DEF CursorCovered
  <2>4. NextCovered'
    BY <1>1, <1>2, <1>3, <2>1 DEF NextCovered
  <2>5. GraceCovers'
    <3> SUFFICES ASSUME NEW r \in Readers, NEW o \in removed_since'[r]
                 PROVE  Awaited(r, o)'
      BY DEF GraceCovers
    <3>1. r # g /\ o \in removed_since[r]
      BY <2>1
    <3>2. Awaited(r, o)
      BY <1>1, <3>1 DEF GraceCovers
    <3>3. \A u \in Updaters : r \in waiting[u] => r \in waiting'[u]
      BY <1>2, <3>1
    <3> QED
      BY <1>2, <3>2, <3>3 DEF Awaited, Removing
  <2>6. GettersInside'
    BY <1>1, <1>4, <2>1 DEF GettersInside
  <2> QED
    BY <2>2, <2>3, <2>4, <2>5, <2>6 DEF ReadersCovered
<1>7. ListSorted'
  BY <1>2 DEF ListSorted
<1> QED
  BY <1>3, <1>5, <1>6, <1>7 DEF MemInv
=============================================================================
