----------------------------- MODULE StoreProofs ----------------------------
(***************************************************************************)
(* Theorems about the stored messages, for any number of threads, blocks,  *)
(* addresses, messages and timestamps: the copies of the metadata agree,   *)
(* stored messages are whole and never change, get_data returns them, and  *)
(* the system calls implement MessageStore.                                *)
(***************************************************************************)
EXTENDS ContentProofs, SyscallsProofs

\* The steps of get_data, and no step at all, change nothing that is stored.
LEMMA IdleContent ==
    ASSUME ContentInv, UNCHANGED <<valid_blk_list, elem, devVars, put>>
    PROVE  ContentInv' /\ Keeps /\ Linked' = Linked
<1>1. UNCHANGED <<rcu_write_lock, metadata_array, md_freed, buffer>>
  BY DEF devVars
<1>2. FreedInvalid
  BY ContentParts
<1>3. Linked' = Linked
  BY DEF Linked
<1>4. \A p \in Putters : (Fills(p)' <=> Fills(p)) /\ put'[p] = put[p]
  BY DEF Fills
<1>5. \A b \in md_freed' : ~metadata_array[b].is_valid
  BY <1>1, <1>2 DEF FreedInvalid
<1> QED
  BY <1>1, <1>3, <1>4, <1>5, ContentFrame

LEMMA GetFrame ==
    ASSUME NEW g \in Getters, GetNext(g)
    PROVE  UNCHANGED <<valid_blk_list, elem, devVars, put>>
<1>1. CASE GetEnter(g)
  BY <1>1, Zenon DEF GetEnter
<1>2. CASE GetHop(g)
  BY <1>2 DEF GetHop, callVars
<1>3. CASE GetFound(g) \/ GetRead(g) \/ GetCopy(g)
  BY <1>3 DEF GetFound, GetRead, GetCopy, rcuVars
<1>4. CASE GetMiss(g) \/ GetBreadFails(g) \/ GetReturn(g)
  BY <1>4 DEF GetMiss, GetBreadFails, GetReturn, GetLeave
<1> QED
  BY <1>1, <1>2, <1>3, <1>4 DEF GetNext

\* The put steps that store nothing.
PutQuiet(p) ==
    \/ PutPrepare(p) \/ PutLock(p) \/ PutNoSpace(p) \/ PutBreadFails(p)
    \/ PutCopy(p) \/ PutReturn(p)

LEMMA PutQuietContent ==
    ASSUME MemInv, ContentInv, NEW p \in Putters, PutQuiet(p)
    PROVE  ContentInv' /\ Keeps /\ Linked' = Linked
<1>1. CASE PutPrepare(p)
  BY <1>1, PutPrepareContent
<1>2. CASE PutLock(p)
  BY <1>2, PutLockContent
<1>3. CASE PutNoSpace(p)
  <2>1. put[p].pc = "lock" /\ PutError(p) /\ md_freed' = md_freed
    BY <1>3 DEF PutNoSpace
  <2> QED
    BY <2>1, PutErrorContent
<1>4. CASE PutBreadFails(p)
  <2>1. PICK b \in Blocks : IsTarget(b) /\ md_freed' = md_freed \cup {b}
    BY <1>4 DEF PutBreadFails
  <2>2. put[p].pc = "lock" /\ PutError(p)
    BY <1>4 DEF PutBreadFails
  <2>3. ~metadata_array[b].is_valid
    BY <2>1, TargetFree
  <2> QED
    BY <2>1, <2>2, <2>3, PutErrorContent
<1>5. CASE PutCopy(p)
  BY <1>5, PutCopyContent
<1>6. CASE PutReturn(p)
  BY <1>6, PutReturnContent
<1> QED
  BY <1>1, <1>2, <1>3, <1>4, <1>5, <1>6 DEF PutQuiet

\* Every step keeps the content invariant and what stays on the list.
LEMMA NextContent ==
    ASSUME MemInv, ContentInv, [Next]_vars
    PROVE  ContentInv' /\ Keeps
<1>1. ASSUME NEW p \in Putters, PutNext(p) PROVE ContentInv' /\ Keeps
  BY <1>1, PutQuietContent, PutPublishContent DEF PutNext, PutQuiet
<1>2. ASSUME NEW g \in Getters, GetNext(g) PROVE ContentInv' /\ Keeps
  BY <1>2, GetFrame, IdleContent
<1>3. ASSUME NEW i \in Updaters, InvNext(i) PROVE ContentInv' /\ Keeps
  BY <1>3, InvUnlinkContent, InvFreeContent DEF InvNext
<1>4. CASE UNCHANGED vars
  <2>1. UNCHANGED <<valid_blk_list, elem, devVars, put>>
    BY <1>4 DEF vars, rcuVars, callVars
  <2> QED
    BY <2>1, IdleContent
<1> QED
  BY <1>1, <1>2, <1>3, <1>4 DEF Next

\* The content invariant holds in every state of every execution.
THEOREM ContentInvariant == Spec => []ContentInv
<1>1. Init => ContentInv
  BY InitContent
<1>2. MemInv /\ ContentInv /\ [Next]_vars => ContentInv'
  BY NextContent
<1> QED
  BY <1>1, <1>2, MemoryInvariant, PTL DEF Spec

\* The spinlock that put_data and invalidate_data hold (README.md:101) is enough: list,
\* metadata_array and page cache describe the same messages in every interleaving.
THEOREM CopiesConsistent == Spec => []CopiesAgree
<1>1. MemInv /\ ContentInv => CopiesAgree
  <2> SUFFICES ASSUME MemInv, ContentInv PROVE CopiesAgree
    OBVIOUS
  <2>1. RcuTypeOK /\ ElemBlocks /\ Distinct
    BY MemInvParts
  <2>2. ListedValid /\ ValidListed /\ OneElement /\ CacheAgrees
    BY ContentParts
  <2>3. Filling = {put[p].block : p \in {q \in Putters : Fills(q)}}
    BY DEF Filling, Fills
  <2>4. ASSUME NEW b \in Blocks \ Filling
        PROVE  buffer[b].md = metadata_array[b] /\ (metadata_array[b].is_valid <=> Holds(b))
    <3>1. \A p \in Putters : Fills(p) => put[p].block # b
      BY <2>3, <2>4
    <3>2. buffer[b].md = metadata_array[b]
      BY <2>2, <3>1 DEF CacheAgrees
    <3>3. metadata_array[b].is_valid => Holds(b)
      BY <2>2 DEF ValidListed
    <3>4. Holds(b) => metadata_array[b].is_valid
      BY <2>2 DEF ListedValid, Holds
    <3> QED
      BY <3>2, <3>3, <3>4
  <2>5. ASSUME NEW j \in 1..Len(valid_blk_list), NEW k \in 1..Len(valid_blk_list),
               elem[valid_blk_list[j]].ndx = elem[valid_blk_list[k]].ndx
        PROVE  j = k
    <3>1. valid_blk_list[j] \in Linked /\ valid_blk_list[k] \in Linked
      BY DEF Linked
    <3>2. valid_blk_list[j] = valid_blk_list[k]
      BY <2>2, <2>5, <3>1 DEF OneElement
    <3> QED
      BY <2>1, <3>2 DEF Distinct
  <2>6. ASSUME NEW n \in Linked
        PROVE  /\ elem[n].ndx \notin Filling
               /\ elem[n].nsec = metadata_array[elem[n].ndx].nsec
               /\ elem[n].valid_bytes = metadata_array[elem[n].ndx].valid_bytes
    <3>1. elem[n].ndx \notin Filling
      BY <2>3, FilledNotListed
    <3> QED
      BY <2>2, <3>1 DEF ListedValid
  <2> QED
    BY <2>4, <2>5, <2>6 DEF CopiesAgree
<1> QED
  BY <1>1, MemoryInvariant, ContentInvariant, PTL

\* Both halves of a block's data are one message.
LEMMA Pair ==
    ASSUME NEW S, NEW f \in [1..2 -> S], NEW m, f[1] = m, f[2] = m
    PROVE  f = <<m, m>>
<1>1. \A i \in 1..2 : i = 1 \/ i = 2
  OBVIOUS
<1> QED
  BY <1>1

\* The block is written before its element is listed (syscalls.c:160-164): every listed
\* block holds one whole message of the listed length.
THEOREM WholeMessages == Spec => []ListedBlockIsWhole
<1>1. MemInv /\ ContentInv => ListedBlockIsWhole
  <2> SUFFICES ASSUME MemInv, ContentInv, NEW n \in Linked
               PROVE  \E m \in Messages : /\ buffer[elem[n].ndx].data = <<m, m>>
                                          /\ elem[n].valid_bytes = MsgLen[m]
    BY DEF ListedBlockIsWhole
  <2>1. RcuTypeOK /\ ElemBlocks /\ DevTypeOK /\ ListedWhole
    BY MemInvParts, ContentParts
  <2>2. elem[n].ndx \in Blocks
    BY <2>1, LinkedBlocks
  <2>3. buffer[elem[n].ndx].data \in [1..2 -> Cell]
    BY <2>1, <2>2 DEF DevTypeOK, BlockType
  <2>4. PICK m \in Messages :
          /\ buffer[elem[n].ndx].data[1] = m /\ buffer[elem[n].ndx].data[2] = m
          /\ elem[n].valid_bytes = MsgLen[m]
    BY <2>1 DEF ListedWhole
  <2> QED
    BY <2>3, <2>4, Pair
<1> QED
  BY <1>1, MemoryInvariant, ContentInvariant, PTL

\* No step of any call changes the cached data of a block that stays listed.
THEOREM StoredStable == Spec => StoredDataStable
<1>1. MemInv /\ ContentInv /\ [Next]_vars =>
        [\A n \in Linked \cap Linked' : buffer'[elem[n].ndx] = buffer[elem[n].ndx]]_vars
  BY NextContent DEF Keeps
<1> QED
  BY <1>1, MemoryInvariant, ContentInvariant, PTL DEF Spec, StoredDataStable
-----------------------------------------------------------------------------
(* What get_data returns *)

\* As long as the element get_data found stays on the list, it announces the requested
\* block, and what was copied so far is what the block holds.
GetSoundAt(g) ==
    get[g].pc \in {"read", "copy", "copied"} /\ cursor[g] \in Linked =>
        /\ elem[cursor[g]].ndx = get[g].ndx
        /\ get[g].bytes <= elem[cursor[g]].valid_bytes
        /\ get[g].pc # "read" => get[g].out[1] = buffer[get[g].ndx].data[1]
        /\ get[g].pc = "copied" => get[g].out[2] = buffer[get[g].ndx].data[2]
GetSound == \A g \in Getters : GetSoundAt(g)

\* Steps of the other calls, and of the other readers.
LEMMA ReaderFrame ==
    ASSUME Keeps, NEW g \in Getters, GetSoundAt(g), get'[g] = get[g], cursor'[g] = cursor[g],
           cursor[g] \in Linked' => cursor[g] \in Linked
    PROVE  GetSoundAt(g)'
<1> SUFFICES ASSUME get[g].pc \in {"read", "copy", "copied"}, cursor[g] \in Linked'
             PROVE  /\ elem'[cursor[g]].ndx = get[g].ndx
                    /\ get[g].bytes <= elem'[cursor[g]].valid_bytes
                    /\ get[g].pc # "read" => get[g].out[1] = buffer'[get[g].ndx].data[1]
                    /\ get[g].pc = "copied" => get[g].out[2] = buffer'[get[g].ndx].data[2]
  BY DEF GetSoundAt
<1>1. /\ elem[cursor[g]].ndx = get[g].ndx
      /\ get[g].bytes <= elem[cursor[g]].valid_bytes
      /\ get[g].pc # "read" => get[g].out[1] = buffer[get[g].ndx].data[1]
      /\ get[g].pc = "copied" => get[g].out[2] = buffer[get[g].ndx].data[2]
  BY DEF GetSoundAt
<1>2. elem'[cursor[g]] = elem[cursor[g]] /\ buffer'[get[g].ndx] = buffer[get[g].ndx]
  BY <1>1 DEF Keeps
<1> QED
  BY <1>1, <1>2

\* The call's own steps.
LEMMA GetOwnStep ==
    ASSUME MemInv, NEW g \in Getters, GetSoundAt(g), GetNext(g)
    PROVE  /\ GetSoundAt(g)'
           /\ \A h \in Getters \ {g} : get'[h] = get[h] /\ cursor'[h] = cursor[h]
<1>1. RcuTypeOK /\ GetTypeOK
  BY MemInvParts
<1>2. /\ get \in [Getters -> GetType] /\ get[g] \in GetType
      /\ cursor \in [Readers -> Nodes \cup {HEAD, NULL}]
  BY <1>1 DEF RcuTypeOK, GetTypeOK
<1>3. g \in Readers
  BY ReadersAssumption
<1>4. UNCHANGED <<valid_blk_list, elem, buffer>> /\ Linked' = Linked
  BY GetFrame DEF devVars, Linked
<1>5. cursor[g] \in Linked => elem[cursor[g]].valid_bytes \in Nat
  <2>1. Linked \subseteq Nodes
    BY <1>1 DEF RcuTypeOK, Linked
  <2> QED
    BY <1>1, <2>1 DEF RcuTypeOK, ElemType
<1>6. CASE GetEnter(g)
  <2>1. PICK b \in Blocks, z \in Sizes : get' = [get EXCEPT ![g] =
            [GetIdle EXCEPT !.pc = "scan", !.ndx = b, !.size = z, !.absent = ~Holds(b)]]
    BY <1>6, Zenon DEF GetEnter
  <2>2. cursor' = [cursor EXCEPT ![g] = NextAt(0)]
    BY <1>6 DEF GetEnter, rcu_read_lock
  <2>3. get'[g].pc = "scan"
    BY <1>2, <2>1 DEF GetIdle
  <2> QED
    BY <1>2, <2>1, <2>2, <2>3 DEF GetSoundAt
<1>7. CASE GetHop(g)
  <2>1. PICK m : cursor' = [cursor EXCEPT ![g] = m]
    BY <1>7 DEF GetHop, rcu_advance
  <2>2. get[g].pc = "scan" /\ get' = get
    BY <1>7 DEF GetHop, callVars
  <2> QED
    BY <1>2, <2>1, <2>2 DEF GetSoundAt
<1>8. CASE GetFound(g)
  <2>1. /\ elem[cursor[g]].ndx = get[g].ndx
        /\ get' = [get EXCEPT ![g].pc = "read", ![g].bytes = elem[cursor[g]].valid_bytes]
        /\ cursor' = cursor
    BY <1>8 DEF GetFound, rcuVars
  <2>2. /\ get'[g].pc = "read" /\ get'[g].bytes = elem[cursor[g]].valid_bytes
        /\ get'[g].ndx = get[g].ndx /\ \A h \in Getters \ {g} : get'[h] = get[h]
    BY <1>2, <2>1 DEF GetType
  <2>3. GetSoundAt(g)'
    BY <1>4, <1>5, <2>1, <2>2 DEF GetSoundAt
  <2> QED
    BY <2>1, <2>2, <2>3
<1>9. CASE GetRead(g)
  <2> DEFINE len == IF get[g].size > get[g].bytes THEN get[g].bytes ELSE get[g].size
  <2>1. /\ get[g].pc = "read" /\ cursor' = cursor
        /\ get' = [get EXCEPT ![g].pc = "copy", ![g].out[1] = buffer[get[g].ndx].data[1],
                              ![g].bytes = len]
    BY <1>9 DEF GetRead, rcuVars
  <2>2. get[g].size \in Nat /\ get[g].bytes \in Nat /\ get[g].out \in [1..2 -> Cell]
    BY <1>2 DEF GetType
  <2>3. len <= get[g].bytes /\ len \in Nat
    BY <2>2
  <2> HIDE DEF len
  <2>4. /\ get'[g].pc = "copy" /\ get'[g].bytes = len /\ get'[g].ndx = get[g].ndx
        /\ get'[g].out[1] = buffer[get[g].ndx].data[1]
        /\ \A h \in Getters \ {g} : get'[h] = get[h]
    BY <1>2, <2>1, <2>2 DEF GetType
  <2>5. ASSUME cursor[g] \in Linked
        PROVE  elem[cursor[g]].ndx = get[g].ndx /\ len <= elem[cursor[g]].valid_bytes
    <3>1. /\ elem[cursor[g]].ndx = get[g].ndx
          /\ get[g].bytes <= elem[cursor[g]].valid_bytes
      BY <2>1, <2>5 DEF GetSoundAt
    <3> QED
      BY <1>5, <2>2, <2>3, <2>5, <3>1
  <2>6. GetSoundAt(g)'
    BY <1>4, <2>1, <2>4, <2>5 DEF GetSoundAt
  <2> QED
    BY <2>1, <2>4, <2>6
<1>10. CASE GetCopy(g)
  <2>1. PICK not_copied \in 0..get[g].bytes :
          get' = [get EXCEPT ![g].pc = "copied", ![g].out[2] = buffer[get[g].ndx].data[2],
                             ![g].bytes = @ - not_copied]
    BY <1>10 DEF GetCopy
  <2>2. get[g].pc = "copy" /\ cursor' = cursor
    BY <1>10 DEF GetCopy, rcuVars
  <2>3. get[g].bytes \in Nat /\ get[g].out \in [1..2 -> Cell]
    BY <1>2 DEF GetType
  <2>4. /\ get'[g].pc = "copied" /\ get'[g].bytes = get[g].bytes - not_copied
        /\ get'[g].ndx = get[g].ndx /\ get'[g].out[1] = get[g].out[1]
        /\ get'[g].out[2] = buffer[get[g].ndx].data[2]
        /\ \A h \in Getters \ {g} : get'[h] = get[h]
    BY <1>2, <2>1, <2>3 DEF GetType
  <2>5. GetSoundAt(g)'
    BY <1>4, <1>5, <2>2, <2>3, <2>4 DEF GetSoundAt
  <2> QED
    BY <2>2, <2>4, <2>5
<1>11. CASE GetMiss(g) \/ GetBreadFails(g) \/ GetReturn(g)
  <2>1. get' = [get EXCEPT ![g] = GetIdle] /\ cursor' = [cursor EXCEPT ![g] = NULL]
    BY <1>11 DEF GetMiss, GetBreadFails, GetReturn, GetLeave, rcu_read_unlock
  <2>2. get'[g].pc = "idle"
    BY <1>2, <2>1, IdleTypes
  <2> QED
    BY <1>2, <2>1, <2>2 DEF GetSoundAt
<1> QED
  BY <1>6, <1>7, <1>8, <1>9, <1>10, <1>11 DEF GetNext

\* No other call touches a reader, and the element that a put publishes is under no reader.
LEMMA OthersFrame ==
    ASSUME MemInv, ContentInv,
           \/ \E p \in Putters : PutNext(p)
           \/ \E i \in Updaters : InvNext(i)
           \/ UNCHANGED vars
    PROVE  /\ UNCHANGED <<get, cursor>>
           /\ \A g \in Getters : cursor[g] \in Linked' => cursor[g] \in Linked
<1>1. ASSUME NEW p \in Putters, PutPublish(p)
      PROVE  /\ UNCHANGED <<get, cursor>>
             /\ \A g \in Getters : cursor[g] \in Linked' => cursor[g] \in Linked
  <2>1. UNCHANGED <<get, cursor>> /\ Preparing(p)
    BY <1>1 DEF PutPublish, Preparing
  <2>2. Linked' = Linked \cup {put[p].el}
    BY <1>1, PutPublishContent
  <2>3. put[p].el \in Private /\ put[p].el \in Nodes
    BY <2>1, MemInvParts DEF Private, PutsOwn
  <2>4. \A g \in Getters : cursor[g] # put[p].el
    BY <2>3, NoReaderOnFree, ReadersAssumption DEF NoUseAfterFree
  <2> QED
    BY <2>1, <2>2, <2>4
<1>2. ASSUME NEW p \in Putters, PutQuiet(p)
      PROVE  UNCHANGED <<get, cursor>> /\ Linked' = Linked
  <2>1. Linked' = Linked
    BY <1>2, PutQuietContent
  <2>2. CASE PutPrepare(p)
    BY <2>1, <2>2, Zenon DEF PutPrepare
  <2>3. CASE PutLock(p) \/ PutCopy(p) \/ PutReturn(p)
    BY <2>1, <2>3 DEF PutLock, PutCopy, PutReturn, rcuVars
  <2>4. CASE PutNoSpace(p) \/ PutBreadFails(p)
    BY <2>1, <2>4 DEF PutNoSpace, PutBreadFails, PutError
  <2> QED
    BY <1>2, <2>2, <2>3, <2>4 DEF PutQuiet
<1>3. ASSUME NEW i \in Updaters, InvNext(i)
      PROVE  UNCHANGED <<get, cursor>> /\ Linked' \subseteq Linked
  <2>1. UNCHANGED <<get, cursor>>
    <3>1. CASE InvUnlink(i)
      BY <3>1, Zenon DEF InvUnlink
    <3>2. CASE InvSynchronize(i) \/ InvFree(i)
      BY <3>2 DEF InvSynchronize, InvFree
    <3> QED
      BY <1>3, <3>1, <3>2 DEF InvNext
  <2>2. Linked' \subseteq Linked
    BY <1>3, InvUnlinkContent, InvFreeContent DEF InvNext
  <2> QED
    BY <2>1, <2>2
<1>4. CASE UNCHANGED vars
  BY <1>4 DEF vars, rcuVars, callVars, Linked
<1> QED
  BY <1>1, <1>2, <1>3, <1>4 DEF PutNext, PutQuiet

LEMMA NextGetSound ==
    ASSUME MemInv, ContentInv, GetSound, [Next]_vars
    PROVE  GetSound'
<1>1. Keeps
  BY NextContent
<1>2. ASSUME NEW g \in Getters, GetNext(g), NEW h \in Getters PROVE GetSoundAt(h)'
  <2>1. GetSoundAt(g) /\ GetSoundAt(h) /\ Linked' = Linked
    BY <1>2, GetFrame, IdleContent DEF GetSound
  <2>2. GetSoundAt(g)' /\ (h # g => get'[h] = get[h] /\ cursor'[h] = cursor[h])
    BY <1>2, <2>1, GetOwnStep
  <2> QED
    BY <1>1, <2>1, <2>2, ReaderFrame
<1>3. ASSUME ~\E g \in Getters : GetNext(g), NEW h \in Getters PROVE GetSoundAt(h)'
  <2>1. /\ UNCHANGED <<get, cursor>>
        /\ cursor[h] \in Linked' => cursor[h] \in Linked
    BY <1>3, OthersFrame DEF Next
  <2>2. GetSoundAt(h)
    BY DEF GetSound
  <2> QED
    BY <1>1, <2>1, <2>2, ReaderFrame
<1> QED
  BY <1>2, <1>3 DEF GetSound

\* get_data takes no lock, and still: when its block is not invalidated during the call, it
\* copies the whole stored message and reports at most its length.
THEOREM GetReturnsStored == Spec => []CopyIsStoredMessage
<1>1. Init => GetSound
  BY IdleTypes DEF Init, GetSound, GetSoundAt
<1>2. MemInv /\ ContentInv /\ GetSound /\ [Next]_vars => GetSound'
  BY NextGetSound
<1>3. MemInv /\ ContentInv /\ GetSound => CopyIsStoredMessage
  <2> SUFFICES ASSUME MemInv, ContentInv, GetSound, NEW g \in Getters,
                      get[g].pc = "copied", cursor[g] \in Linked
               PROVE  \E m \in Messages : /\ buffer[get[g].ndx].data = <<m, m>>
                                          /\ get[g].out = <<m, m>>
                                          /\ get[g].bytes <= MsgLen[m]
    BY DEF CopyIsStoredMessage
  <2>1. DevTypeOK /\ GetTypeOK /\ ListedWhole
    BY MemInvParts, ContentParts
  <2>2. /\ get[g].ndx \in Blocks /\ get[g].out \in [1..2 -> Cell]
        /\ buffer[get[g].ndx].data \in [1..2 -> Cell]
    BY <2>1 DEF DevTypeOK, GetTypeOK, GetType, BlockType
  <2>3. /\ elem[cursor[g]].ndx = get[g].ndx
        /\ get[g].bytes <= elem[cursor[g]].valid_bytes
        /\ get[g].out[1] = buffer[get[g].ndx].data[1]
        /\ get[g].out[2] = buffer[get[g].ndx].data[2]
    BY DEF GetSound, GetSoundAt
  <2>4. PICK m \in Messages :
          /\ buffer[get[g].ndx].data[1] = m /\ buffer[get[g].ndx].data[2] = m
          /\ elem[cursor[g]].valid_bytes = MsgLen[m]
    BY <2>1, <2>3 DEF ListedWhole
  <2>5. buffer[get[g].ndx].data = <<m, m>>
    BY <2>2, <2>4, Pair
  <2>6. get[g].out = <<m, m>>
    BY <2>2, <2>3, <2>4, Pair
  <2> QED
    BY <2>3, <2>4, <2>5, <2>6
<1> QED
  BY <1>1, <1>2, <1>3, MemoryInvariant, ContentInvariant, PTL DEF Spec
-----------------------------------------------------------------------------
(* Refinement *)

\* Between the search and the publication of a put nothing moves its target: the block
\* stays the first free one behind last_written_block.  (A failed sb_bread of another put
\* would free an array entry, which the search may then skip.)
TargetKept ==
    /\ md_freed = {}
    /\ \A p \in Putters : Preparing(p) => put[p].nsec \in Timestamps
    /\ \A p \in Putters : Fills(p) => IsTarget(put[p].block)

\* What the abstract store sees: the blocks that are listed, valid in the array too, with
\* the fields of their elements and the data in the cache.
StoreView ==
    /\ \A n \in Linked :
        /\ elem[n].ndx \in Blocks
        /\ storeMap[elem[n].ndx] = [msg |-> buffer[elem[n].ndx].data[1],
                                    nsec |-> elem[n].nsec, bytes |-> elem[n].valid_bytes]
        /\ storeMap[elem[n].ndx] # Empty
    /\ \A b \in Blocks : /\ ~Holds(b) => storeMap[b] = Empty
                         /\ Holds(b) <=> metadata_array[b].is_valid

LEMMA StoreSeen == MemInv /\ ContentInv => StoreView
<1> SUFFICES ASSUME MemInv, ContentInv PROVE StoreView
  OBVIOUS
<1>1. /\ RcuTypeOK /\ ElemBlocks
      /\ ListedValid /\ ValidListed /\ ListedWhole
  BY MemInvParts, ContentParts
<1>2. ASSUME NEW n \in Linked
      PROVE  /\ elem[n].ndx \in Blocks
             /\ storeMap[elem[n].ndx] = [msg |-> buffer[elem[n].ndx].data[1],
                    nsec |-> elem[n].nsec, bytes |-> elem[n].valid_bytes]
             /\ storeMap[elem[n].ndx] # Empty
  <2>1. elem[n].ndx \in Blocks /\ n \in Nodes
    BY <1>1, LinkedBlocks
  <2>2. Holds(elem[n].ndx)
    BY DEF Holds
  <2>3. storeMap[elem[n].ndx] = [msg |-> buffer[elem[n].ndx].data[1],
            nsec |-> metadata_array[elem[n].ndx].nsec,
            bytes |-> metadata_array[elem[n].ndx].valid_bytes]
    BY <2>1, <2>2 DEF storeMap
  <2>4. storeMap[elem[n].ndx] = [msg |-> buffer[elem[n].ndx].data[1],
            nsec |-> elem[n].nsec, bytes |-> elem[n].valid_bytes]
    BY <1>1, <2>3 DEF ListedValid
  <2>5. buffer[elem[n].ndx].data[1] \in Messages
    BY <1>1 DEF ListedWhole
  <2>6. elem[n].nsec \in Int /\ elem[n].valid_bytes \in Nat
    BY <1>1, <2>1 DEF RcuTypeOK, ElemType
  <2>7. storeMap[elem[n].ndx] \in [msg : Messages, nsec : Int, bytes : Nat]
    BY <2>4, <2>5, <2>6
  <2> QED
    BY <2>1, <2>4, <2>7, EmptyAssumption DEF Empty
<1>3. ASSUME NEW b \in Blocks
      PROVE  (~Holds(b) => storeMap[b] = Empty) /\ (Holds(b) <=> metadata_array[b].is_valid)
  <2>1. ~Holds(b) => storeMap[b] = Empty
    BY DEF storeMap
  <2>2. metadata_array[b].is_valid => Holds(b)
    BY <1>1 DEF ValidListed
  <2>3. Holds(b) => metadata_array[b].is_valid
    BY <1>1 DEF ListedValid, Holds
  <2> QED
    BY <2>1, <2>2, <2>3
<1> QED
  BY <1>2, <1>3 DEF StoreView

\* The store is determined block by block.
LEMMA StorePointwise ==
    /\ storeMap = [b \in Blocks |-> storeMap[b]]
    /\ storeMap' = [b \in Blocks |-> storeMap'[b]]
    /\ MS!Slots = Blocks
BY DEF storeMap, MS!Slots, Blocks

\* What stays listed stays stored, and what is not listed is not stored.
LEMMA StoreKept ==
    ASSUME StoreView, StoreView', Keeps, NEW b \in Blocks,
           \/ \E n \in Linked \cap Linked' : elem[n].ndx = b
           \/ ~Holds(b) /\ ~\E n \in Linked' : elem'[n].ndx = b
    PROVE  storeMap'[b] = storeMap[b]
<1>1. ASSUME NEW n \in Linked \cap Linked', elem[n].ndx = b PROVE storeMap'[b] = storeMap[b]
  <2>1. storeMap[b] = [msg |-> buffer[b].data[1],
                       nsec |-> elem[n].nsec, bytes |-> elem[n].valid_bytes]
    BY <1>1 DEF StoreView
  <2>2. elem'[n] = elem[n] /\ buffer'[b] = buffer[b]
    BY <1>1 DEF Keeps
  <2>3. storeMap'[elem'[n].ndx] = [msg |-> buffer'[elem'[n].ndx].data[1],
                                   nsec |-> elem'[n].nsec, bytes |-> elem'[n].valid_bytes]
    BY DEF StoreView
  <2> QED
    BY <1>1, <2>1, <2>2, <2>3
<1>2. ASSUME ~Holds(b), ~\E n \in Linked' : elem'[n].ndx = b PROVE storeMap'[b] = storeMap[b]
  <2>1. ~Holds(b)'
    BY <1>2 DEF Holds
  <2>2. storeMap[b] = Empty /\ storeMap'[b] = Empty
    BY <1>2, <2>1 DEF StoreView, Empty
  <2> QED
    BY <2>2
<1> QED
  BY <1>1, <1>2

\* Steps that neither link nor unlink are stuttering steps of the store.
LEMMA QuietStore ==
    ASSUME StoreView, StoreView', Keeps, Linked' = Linked
    PROVE  storeMap' = storeMap
<1>1. ASSUME NEW b \in Blocks PROVE storeMap'[b] = storeMap[b]
  <2>1. CASE Holds(b)
    BY <2>1, StoreKept DEF Holds
  <2>2. CASE ~Holds(b)
    BY <2>2, StoreKept DEF Holds, Keeps
  <2> QED
    BY <2>1, <2>2
<1> QED
  BY <1>1, StorePointwise

\* The unlinking of one element is the abstract invalidation.
LEMMA UnlinkStore ==
    ASSUME StoreView, StoreView', Keeps, OneElement, UNCHANGED last_written_block,
           NEW n \in Linked, Linked' = Linked \ {n}
    PROVE  MS!Invalidate
<1> DEFINE b == elem[n].ndx
<1>1. b \in Blocks /\ storeMap[b] # Empty
  BY DEF StoreView
<1>2. \A m \in Linked' : elem'[m].ndx = elem[m].ndx /\ elem[m].ndx # b /\ m \in Linked
  BY DEF Keeps, OneElement
<1>3. PICK a \in Blocks : a = b
  BY <1>1
<1>4. storeMap'[a] = Empty
  <2>1. ~Holds(a)'
    BY <1>2, <1>3 DEF Holds
  <2> QED
    BY <2>1 DEF StoreView, Empty
<1>5. ASSUME NEW c \in Blocks, c # a PROVE storeMap'[c] = storeMap[c]
  <2>1. CASE Holds(c)
    BY <1>3, <1>5, <2>1, StoreKept DEF Holds
  <2>2. CASE ~Holds(c)
    BY <1>2, <2>2, StoreKept DEF Holds
  <2> QED
    BY <2>1, <2>2
<1>6. storeMap' = [storeMap EXCEPT ![a] = Empty]
  BY <1>4, <1>5, StorePointwise
<1> QED
  BY <1>1, <1>3, <1>6, StorePointwise DEF MS!Invalidate

\* The publication of an element is the abstract put.
LEMMA PublishStore ==
    ASSUME MemInv, ContentInv, TargetKept, StoreView, StoreView', ContentInv',
           NEW p \in Putters, PutPublish(p)
    PROVE  MS!Put
<1>1. PutTypeOK /\ RcuTypeOK /\ PutsOwn
  BY MemInvParts
<1>2. /\ put[p].pc = "publish" /\ last_written_block' = put[p].block
      /\ elem' = [elem EXCEPT ![put[p].el] = [ndx |-> put[p].block, nsec |-> put[p].nsec,
                                              valid_bytes |-> MsgLen[put[p].msg]]]
  BY DEF PutPublish, add_valid_block_in_order_secure
<1>3. /\ Keeps
      /\ Linked' = Linked \cup {put[p].el} /\ elem'[put[p].el].ndx = put[p].block
      /\ buffer'[put[p].block].data[1] = put[p].msg
  BY PutPublishContent
<1>4. Fills(p) /\ Preparing(p)
  BY <1>2 DEF Fills, Preparing
<1>5. /\ put[p].msg \in Messages /\ put[p].nsec \in Timestamps /\ put[p].block \in Blocks
      /\ put[p].el \in Nodes
  BY <1>1, <1>2, <1>4 DEF TargetKept, PutTypeOK, PutType, PutsOwn
<1>6. \A n \in Linked : elem[n].ndx # put[p].block
  BY <1>4, FilledNotListed
<1>7. PICK b \in Blocks : b = put[p].block
  BY <1>5
<1>8. PICK i \in 1..NumBlocks :
        /\ b = Probe(i)
        /\ \A j \in 1..(i - 1) : ReadsValid(Probe(j))
  BY <1>4, <1>7 DEF TargetKept, IsTarget
<1>9. \A j : MS!After(j) = Probe(j)
  BY DEF MS!After, Probe
<1>10. storeMap[b] = Empty
  <2>1. ~Holds(b)
    BY <1>6, <1>7 DEF Holds
  <2> QED
    BY <2>1 DEF StoreView
<1>11. ASSUME NEW j \in 1..(i - 1) PROVE storeMap[Probe(j)] # Empty
  <2>1. Probe(j) \in Blocks
    <3>1. last_written_block \in Blocks
      BY MemInvParts DEF DevTypeOK
    <3>2. last_written_block + j \in Int /\ NumBlocks \in Int /\ NumBlocks > 0
      BY <3>1, NumBlocksAssumption DEF Blocks
    <3>3. (last_written_block + j) % NumBlocks \in 0..(NumBlocks - 1)
      BY <3>2
    <3> QED
      BY <3>3 DEF Probe, Blocks
  <2>2. metadata_array[Probe(j)].is_valid
    BY <1>8 DEF ReadsValid, TargetKept
  <2>3. Holds(Probe(j))
    BY <2>1, <2>2 DEF StoreView
  <2>4. PICK n \in Linked : elem[n].ndx = Probe(j)
    BY <2>3 DEF Holds
  <2>5. storeMap[elem[n].ndx] # Empty
    BY DEF StoreView
  <2> QED
    BY <2>4, <2>5
<1>12. storeMap'[b] = [msg |-> put[p].msg, nsec |-> put[p].nsec, bytes |-> MsgLen[put[p].msg]]
  <2>1. /\ elem'[put[p].el].ndx = b /\ elem'[put[p].el].nsec = put[p].nsec
        /\ elem'[put[p].el].valid_bytes = MsgLen[put[p].msg]
    BY <1>1, <1>2, <1>5, <1>7 DEF RcuTypeOK
  <2>2. PICK n \in Linked' : n = put[p].el
    BY <1>3
  <2>3. storeMap'[elem'[n].ndx] = [msg |-> buffer'[elem'[n].ndx].data[1],
                                   nsec |-> elem'[n].nsec, bytes |-> elem'[n].valid_bytes]
    BY DEF StoreView
  <2> QED
    BY <1>3, <1>7, <2>1, <2>2, <2>3
<1>13. ASSUME NEW c \in Blocks, c # b PROVE storeMap'[c] = storeMap[c]
  <2>1. CASE Holds(c)
    BY <1>3, <2>1, StoreKept DEF Holds
  <2>2. CASE ~Holds(c)
    <3>1. \A n \in Linked' : elem'[n].ndx # c
      BY <1>3, <1>7, <1>13, <2>2 DEF Holds, Keeps
    <3> QED
      BY <1>3, <2>2, <3>1, StoreKept
  <2> QED
    BY <2>1, <2>2
<1>14. storeMap' = [storeMap EXCEPT ![b] =
           [msg |-> put[p].msg, nsec |-> put[p].nsec, bytes |-> MsgLen[put[p].msg]]]
  BY <1>12, <1>13, StorePointwise
<1> QED
  BY <1>2, <1>5, <1>7, <1>8, <1>9, <1>10, <1>11, <1>14 DEF MS!Put

\* The spinlock keeps the target of a put where its search found it.
LEMMA TargetFrame ==
    ASSUME TargetKept, UNCHANGED <<metadata_array, md_freed, last_written_block>>,
           \A q \in Putters : /\ Preparing(q)' => put'[q].nsec \in Timestamps
                              /\ Fills(q)' => IsTarget(put'[q].block)
    PROVE  TargetKept'
<1>1. \A b : IsTarget(b)' <=> IsTarget(b)
  BY DEF IsTarget, Probe, ReadsInvalid, ReadsValid
<1> QED
  BY <1>1 DEF TargetKept

LEMMA NextTarget ==
    ASSUME MemInv, ContentInv, ContentInv', TargetKept, "put" \notin BreadFails, [Next]_vars
    PROVE  TargetKept'
<1>1. PutTypeOK /\ FillerLocks
  BY MemInvParts, ContentParts
<1>2. FillerLocks'
  BY DEF ContentInv
<1>3. ASSUME UNCHANGED <<put, metadata_array, md_freed, last_written_block>> PROVE TargetKept'
  <2>1. \A q \in Putters : /\ Preparing(q)' => put'[q].nsec \in Timestamps
                           /\ Fills(q)' => IsTarget(put'[q].block)
    BY <1>3 DEF TargetKept, Preparing, Fills
  <2> QED
    BY <1>3, <2>1, TargetFrame
<1>4. ASSUME NEW p \in Putters, NEW r,
             UNCHANGED <<metadata_array, md_freed, last_written_block>>,
             put' = [put EXCEPT ![p] = r],
             r.pc \in {"lock", "copy", "publish"} => r.nsec \in Timestamps,
             r.pc \in {"copy", "publish"} => IsTarget(r.block)
      PROVE  TargetKept'
  <2>1. \A q \in Putters : put'[q] = IF q = p THEN r ELSE put[q]
    BY <1>1, <1>4 DEF PutTypeOK
  <2>2. \A q \in Putters : /\ Preparing(q)' => put'[q].nsec \in Timestamps
                           /\ Fills(q)' => IsTarget(put'[q].block)
    BY <1>4, <2>1 DEF TargetKept, Preparing, Fills
  <2> QED
    BY <1>4, <2>2, TargetFrame
<1>5. ASSUME NEW p \in Putters, PutNext(p) PROVE TargetKept'
  <2>1. CASE PutPrepare(p)
    <3>1. PICK n \in Nodes, m \in Messages, t \in Timestamps :
            put' = [put EXCEPT ![p] =
                       [pc |-> "lock", el |-> n, msg |-> m, nsec |-> t, block |-> 0]]
      BY <2>1, Zenon DEF PutPrepare
    <3>2. UNCHANGED <<metadata_array, md_freed, last_written_block>>
      BY <2>1 DEF PutPrepare, devVars
    <3> QED
      BY <1>4, <3>1, <3>2
  <2>2. CASE PutLock(p)
    <3>1. PICK b \in Blocks : IsTarget(b) /\ put' = [put EXCEPT ![p].pc = "copy", ![p].block = b]
      BY <2>2 DEF PutLock
    <3> DEFINE r == [put[p] EXCEPT !.pc = "copy", !.block = b]
    <3>2. put[p].pc = "lock" /\ UNCHANGED <<metadata_array, md_freed, last_written_block>>
      BY <2>2 DEF PutLock
    <3>3. put' = [put EXCEPT ![p] = r]
      BY <3>1, Zenon
    <3>4. r.pc = "copy" /\ r.block = b /\ r.nsec = put[p].nsec
      BY <1>1 DEF PutTypeOK, PutType
    <3>5. put[p].nsec \in Timestamps
      BY <3>2 DEF TargetKept, Preparing
    <3> HIDE DEF r
    <3> QED
      BY <1>4, <3>1, <3>2, <3>3, <3>4, <3>5
  <2>3. CASE PutCopy(p)
    <3> DEFINE r == [put[p] EXCEPT !.pc = "publish"]
    <3>1. /\ put[p].pc = "copy" /\ put' = [put EXCEPT ![p].pc = "publish"]
          /\ UNCHANGED <<metadata_array, md_freed, last_written_block>>
      BY <2>3 DEF PutCopy
    <3>2. put' = [put EXCEPT ![p] = r]
      BY <3>1, Zenon
    <3>3. r.block = put[p].block /\ r.nsec = put[p].nsec
      BY <1>1 DEF PutTypeOK, PutType
    <3>4. put[p].nsec \in Timestamps /\ IsTarget(put[p].block)
      BY <3>1 DEF TargetKept, Preparing, Fills
    <3> HIDE DEF r
    <3> QED
      BY <1>4, <3>1, <3>2, <3>3, <3>4
  <2>4. CASE PutNoSpace(p) \/ PutReturn(p)
    <3>1. /\ put' = [put EXCEPT ![p] = PutIdle]
          /\ UNCHANGED <<metadata_array, md_freed, last_written_block>>
      BY <2>4 DEF PutNoSpace, PutError, PutReturn, devVars
    <3> QED
      BY <1>4, <3>1, IdleTypes
  <2>5. CASE PutBreadFails(p)
    BY <2>5 DEF PutBreadFails
  <2>6. CASE PutPublish(p)
    <3> DEFINE r == [PutIdle EXCEPT !.pc = "sync", !.block = put[p].block]
    <3>1. /\ put' = [put EXCEPT ![p] = r] /\ rcu_write_lock' = NULL
          /\ md_freed' = md_freed \ {put[p].block}
      BY <2>6 DEF PutPublish
    <3>2. r.pc = "sync"
      BY DEF PutIdle
    <3> HIDE DEF r
    <3>3. \A q \in Putters : put'[q] = IF q = p THEN r ELSE put[q]
      BY <1>1, <3>1 DEF PutTypeOK
    <3>4. \A q \in Putters : ~Fills(q)'
      BY <1>2, <3>1, NullAssumption DEF FillerLocks
    <3>5. \A q \in Putters : Preparing(q)' => put'[q].nsec \in Timestamps
      BY <3>2, <3>3 DEF TargetKept, Preparing
    <3>6. md_freed' = {}
      BY <3>1 DEF TargetKept
    <3> QED
      BY <3>4, <3>5, <3>6 DEF TargetKept
  <2> QED
    BY <1>5, <2>1, <2>2, <2>3, <2>4, <2>5, <2>6 DEF PutNext
<1>6. ASSUME NEW g \in Getters, GetNext(g) PROVE TargetKept'
  BY <1>3, <1>6, GetFrame DEF devVars
<1>7. ASSUME NEW i \in Updaters, InvUnlink(i) PROVE TargetKept'
  <2>1. rcu_write_lock = NULL /\ UNCHANGED <<md_freed, put>>
    BY <1>7, Zenon DEF InvUnlink
  <2>2. \A q \in Putters : ~Fills(q)'
    BY <1>1, <2>1, NullAssumption DEF FillerLocks, Fills
  <2> QED
    BY <2>1, <2>2 DEF TargetKept, Preparing
<1>8. ASSUME NEW i \in Updaters, InvSynchronize(i) \/ InvFree(i) PROVE TargetKept'
  BY <1>3, <1>8 DEF InvSynchronize, InvFree, devVars
<1>9. CASE UNCHANGED vars
  BY <1>3, <1>9 DEF vars, devVars, callVars
<1> QED
  BY <1>5, <1>6, <1>7, <1>8, <1>9 DEF Next, InvNext

\* Every step of the calls is a step of the abstract store or leaves it alone.
LEMMA NextStore ==
    ASSUME MemInv, ContentInv, ContentInv', StoreView, StoreView', TargetKept,
           "put" \notin BreadFails, [Next]_vars
    PROVE  [MS!StoreNext]_(MS!storeVars)
<1>1. Keeps
  BY NextContent
<1>2. ASSUME Linked' = Linked, UNCHANGED last_written_block PROVE UNCHANGED MS!storeVars
  BY <1>1, <1>2, QuietStore DEF MS!storeVars
<1>3. ASSUME NEW p \in Putters, PutPublish(p) PROVE MS!StoreNext
  BY <1>3, PublishStore DEF MS!StoreNext
<1>4. ASSUME NEW p \in Putters, PutQuiet(p) PROVE UNCHANGED MS!storeVars
  <2>1. Linked' = Linked
    BY <1>4, PutQuietContent
  <2>2. CASE PutPrepare(p) \/ PutReturn(p)
    BY <1>2, <2>1, <2>2 DEF PutPrepare, PutReturn, devVars
  <2>3. CASE PutLock(p) \/ PutCopy(p)
    BY <1>2, <2>1, <2>3 DEF PutLock, PutCopy
  <2>4. CASE PutNoSpace(p) \/ PutBreadFails(p)
    BY <1>2, <2>1, <2>4 DEF PutNoSpace, PutBreadFails, PutError
  <2> QED
    BY <1>4, <2>2, <2>3, <2>4 DEF PutQuiet
<1>5. ASSUME NEW g \in Getters, GetNext(g) PROVE UNCHANGED MS!storeVars
  BY <1>2, <1>5, GetFrame, IdleContent DEF devVars
<1>6. ASSUME NEW i \in Updaters, InvUnlink(i) PROVE MS!StoreNext
  <2>1. PICK n \in Linked : Linked' = Linked \ {n}
    BY <1>6, InvUnlinkContent
  <2>2. UNCHANGED last_written_block
    BY <1>6, Zenon DEF InvUnlink
  <2>3. OneElement
    BY ContentParts
  <2> QED
    BY <1>1, <2>1, <2>2, <2>3, UnlinkStore DEF MS!StoreNext
<1>7. ASSUME NEW i \in Updaters, InvSynchronize(i) \/ InvFree(i) PROVE UNCHANGED MS!storeVars
  <2>1. Linked' = Linked
    BY <1>7, InvFreeContent
  <2> QED
    BY <1>2, <1>7, <2>1 DEF InvSynchronize, InvFree, devVars
<1>8. CASE UNCHANGED vars
  BY <1>2, <1>8 DEF vars, rcuVars, devVars, Linked
<1> QED
  BY <1>3, <1>4, <1>5, <1>6, <1>7, <1>8 DEF Next, PutNext, PutQuiet, InvNext

\* When no sb_bread of put_data fails, the three system calls, with all their concurrency,
\* implement the atomic message store (the circular search and the spinlock of
\* syscalls.c:130-211): a put takes effect when it publishes its element, an invalidation when it
\* unlinks it, and no other step changes what is stored.
THEOREM StoreRefinement ==
    ASSUME "put" \notin BreadFails
    PROVE  Spec => ImplementsStore
<1>1. Init => TargetKept /\ MS!StoreInit
  <2> SUFFICES ASSUME Init PROVE TargetKept /\ MS!StoreInit
    OBVIOUS
  <2>1. \A p \in Putters : ~Fills(p) /\ ~Preparing(p)
    BY IdleTypes DEF Init, Fills, Preparing
  <2>2. TargetKept
    BY <2>1 DEF TargetKept, Init
  <2>3. \A b \in Blocks : ~Holds(b)
    BY DEF Init, RcuInit, Holds, Linked
  <2>4. storeMap = [b \in Blocks |-> Empty]
    BY <2>3 DEF storeMap
  <2> QED
    BY <2>2, <2>4, StorePointwise DEF MS!StoreInit, Init
<1>2. MemInv /\ ContentInv /\ ContentInv' /\ TargetKept /\ [Next]_vars => TargetKept'
  BY NextTarget
<1>3. MemInv /\ ContentInv /\ ContentInv' /\ StoreView /\ StoreView' /\ TargetKept
      /\ [Next]_vars => [MS!StoreNext]_(MS!storeVars)
  BY NextStore
<1> QED
  BY <1>1, <1>2, <1>3, MemoryInvariant, ContentInvariant, StoreSeen, PTL
     DEF Spec, ImplementsStore, MS!StoreSpec
=============================================================================
