------------------------------ MODULE Syscalls ------------------------------
(***************************************************************************)
(* put_data, get_data and invalidate_data (src/syscalls.c) on a mounted    *)
(* device, run by any number of concurrent threads.                        *)
(*                                                                         *)
(* A call is a sequence of actions, split where another thread can see or  *)
(* change what the call uses: at the spinlock, at the RCU primitives, and  *)
(* inside the two block copies (memcpy into the page cache under the       *)
(* spinlock, copy_to_user out of it under rcu_read_lock only).  A block's  *)
(* data area is two cells, each written and read in one step, so that a    *)
(* copy that overlaps another one can be torn.  Each return path is an     *)
(* action.  The early returns that leave no trace (bad size or offset,     *)
(* failed kzalloc or copy_from_user) are stuttering steps.                 *)
(***************************************************************************)
EXTENDS RcuList

CONSTANTS
    Putters,         \* threads that call put_data
    Getters,         \* threads that call get_data
    NumBlocks,       \* md_array_size: data blocks of the device
    Messages,        \* the messages users put
    MsgLen,          \* length of each message
    Blank,           \* what a formatted block holds
    Sizes,           \* sizes of the buffers users pass to get_data
    Timestamps,      \* values of ktime_get_real, the wall clock: not monotonic
    BreadFails       \* the calls ("put", "get") whose sb_bread may fail

ASSUME NumBlocksAssumption == NumBlocks \in Nat \ {0}
ASSUME ReadersAssumption == Getters \subseteq Readers
ASSUME MessagesAssumption ==
    /\ Blank \notin Messages
    /\ MsgLen \in [Messages -> Nat]
    /\ Sizes \subseteq Nat
    /\ Timestamps \subseteq Int
ASSUME NullAssumption == NULL \notin Putters
ASSUME EmptyAssumption == NULL \notin [msg : Messages, nsec : Int, bytes : Nat]

VARIABLES
    rcu_write_lock,      \* the putter that holds the spinlock, or NULL
    metadata_array,      \* bldms_block of each block
    md_freed,            \* blocks whose metadata_array pointer was kfree'd
    last_written_block,
    buffer,              \* page-cache copy of each block: metadata and two data cells
    put, get, inv        \* local variables of the calls

callVars == <<put, get, inv>>
devVars == <<rcu_write_lock, metadata_array, md_freed, last_written_block, buffer>>
vars == <<rcuVars, devVars, callVars>>

Blocks == 0..(NumBlocks - 1)

NoMetadata == [nsec |-> 0, is_valid |-> FALSE, valid_bytes |-> 0]

PutIdle == [pc |-> "idle", el |-> NULL, msg |-> Blank, nsec |-> 0, block |-> 0]
GetIdle == [pc |-> "idle", ndx |-> 0, size |-> 0, bytes |-> 0, absent |-> FALSE,
            out |-> <<Blank, Blank>>]
InvIdle == [pc |-> "idle", ndx |-> 0, el |-> NULL]

\* A freshly formatted device right after its mount.
Init ==
    /\ RcuInit
    /\ rcu_write_lock = NULL
    /\ metadata_array = [b \in Blocks |-> NoMetadata]
    /\ md_freed = {}
    /\ last_written_block = NumBlocks - 1
    /\ buffer = [b \in Blocks |-> [md |-> NoMetadata, data |-> <<Blank, Blank>>]]
    /\ put = [p \in Putters |-> PutIdle]
    /\ get = [g \in Getters |-> GetIdle]
    /\ inv = [i \in Updaters |-> InvIdle]
-----------------------------------------------------------------------------
(* put_data *)

\* Allocations and the timestamp, all taken before the spinlock.
PutPrepare(p) ==
    /\ put[p].pc = "idle"
    /\ \E n \in Nodes, m \in Messages, t \in Timestamps :
        /\ kzalloc(n)
        /\ put' = [put EXCEPT ![p] =
               [pc |-> "lock", el |-> n, msg |-> m, nsec |-> t, block |-> 0]]
    /\ UNCHANGED <<valid_blk_list, elem, stale_next, cursor, waiting, removed_since,
                   devVars, get, inv>>

\* The validity bit the search reads; a freed entry may hold either value.
ReadsInvalid(b) == b \in md_freed \/ ~metadata_array[b].is_valid
ReadsValid(b) == b \in md_freed \/ metadata_array[b].is_valid

\* Mutant: the search starts at the last written block itself.
ProbeFromLast(i) == (last_written_block + i - 1) % NumBlocks

\* The i-th block behind last_written_block, circularly.
Probe(i) == (last_written_block + i) % NumBlocks

\* Mutant: the validity of the block is not looked at.
IsTargetAny(b) == b = Probe(1)

\* The circular search for the first invalid block.
IsTarget(b) == \E i \in 1..NumBlocks :
    /\ b = Probe(i)
    /\ ReadsInvalid(b)
    /\ \A j \in 1..(i - 1) : ReadsValid(Probe(j))

NewMetadata(p) ==
    [nsec |-> put[p].nsec, is_valid |-> TRUE, valid_bytes |-> MsgLen[put[p].msg]]

\* Lock, find a free block, start the memcpy: metadata and the first data cell.
PutLock(p) ==
    /\ put[p].pc = "lock"
    /\ rcu_write_lock = NULL
    /\ rcu_write_lock' = p
    /\ \E b \in Blocks :
        /\ IsTarget(b)
        /\ put' = [put EXCEPT ![p].pc = "copy", ![p].block = b]
        /\ buffer' = [buffer EXCEPT ![b].md = NewMetadata(p), ![b].data[1] = put[p].msg]
    /\ UNCHANGED <<rcuVars, metadata_array, md_freed, last_written_block, get, inv>>

\* The error label: unlock and free what was allocated.
PutError(p) ==
    /\ kfree(put[p].el)
    /\ put' = [put EXCEPT ![p] = PutIdle]
    /\ UNCHANGED <<valid_blk_list, cursor, waiting, removed_since,
                   rcu_write_lock, metadata_array, last_written_block, buffer, get, inv>>

\* Mutant: the -ENOMEM path forgets new_elem.
PutNoSpaceLeak(p) ==
    /\ put[p].pc = "lock"
    /\ rcu_write_lock = NULL
    /\ \A b \in Blocks : ReadsValid(b)
    /\ put' = [put EXCEPT ![p] = PutIdle]
    /\ UNCHANGED <<rcuVars, devVars, get, inv>>


\* -ENOMEM: no free block.
PutNoSpace(p) ==
    /\ put[p].pc = "lock"
    /\ rcu_write_lock = NULL
    /\ \A b \in Blocks : ReadsValid(b)
    /\ PutError(p)
    /\ UNCHANGED md_freed

\* sb_bread fails when old_metadata is already set: the error label frees the
\* entry that metadata_array still points to.
PutBreadFails(p) ==
    /\ "put" \in BreadFails
    /\ put[p].pc = "lock"
    /\ rcu_write_lock = NULL
    /\ \E b \in Blocks : IsTarget(b) /\ md_freed' = md_freed \cup {b}
    /\ PutError(p)

\* The rest of the memcpy.
PutCopy(p) ==
    /\ put[p].pc = "copy"
    /\ buffer' = [buffer EXCEPT ![put[p].block].data[2] = put[p].msg]
    /\ put' = [put EXCEPT ![p].pc = "publish"]
    /\ UNCHANGED <<rcuVars, rcu_write_lock, metadata_array, md_freed, last_written_block,
                   get, inv>>

\* Mutants: the element is published before the copy is complete; the index of the
\* last written block is off by one.
PutPublishAs(p, pc, last) ==
    /\ put[p].pc = pc
    /\ add_valid_block_in_order_secure(put[p].el, put[p].block, MsgLen[put[p].msg], put[p].nsec)
    /\ metadata_array' = [metadata_array EXCEPT ![put[p].block] = NewMetadata(p)]
    /\ md_freed' = md_freed \ {put[p].block}
    /\ last_written_block' = last
    /\ rcu_write_lock' = NULL
    /\ put' = [put EXCEPT ![p] = [PutIdle EXCEPT !.pc = "sync", !.block = put[p].block]]
    /\ UNCHANGED <<stale_next, heap, cursor, waiting, removed_since, buffer, get, inv>>
PutPublishEarly(p) == PutPublishAs(p, "copy", put[p].block)
PutPublishOffByOne(p) == PutPublishAs(p, "publish", put[p].block + 1)

\* In-order insertion, new array entry, unlock.
PutPublish(p) ==
    /\ put[p].pc = "publish"
    /\ add_valid_block_in_order_secure(put[p].el, put[p].block, MsgLen[put[p].msg], put[p].nsec)
    /\ metadata_array' = [metadata_array EXCEPT ![put[p].block] = NewMetadata(p)]
    /\ md_freed' = md_freed \ {put[p].block}
    /\ last_written_block' = put[p].block
    /\ rcu_write_lock' = NULL
    /\ put' = [put EXCEPT ![p] = [PutIdle EXCEPT !.pc = "sync", !.block = put[p].block]]
    /\ UNCHANGED <<stale_next, heap, cursor, waiting, removed_since, buffer, get, inv>>

\* sync_dirty_buffer on the block, then the return of its index.
PutReturn(p) ==
    /\ put[p].pc = "sync"
    /\ put' = [put EXCEPT ![p] = PutIdle]
    /\ UNCHANGED <<rcuVars, devVars, get, inv>>
-----------------------------------------------------------------------------
(* get_data *)

Holds(b) == \E n \in Linked : elem[n].ndx = b

GetEnter(g) ==
    /\ get[g].pc = "idle"
    /\ rcu_read_lock(g)
    /\ \E b \in Blocks, s \in Sizes :
        get' = [get EXCEPT ![g] =
            [GetIdle EXCEPT !.pc = "scan", !.ndx = b, !.size = s, !.absent = ~Holds(b)]]
    /\ UNCHANGED <<valid_blk_list, elem, stale_next, heap, waiting, removed_since,
                   devVars, put, inv>>

\* Mutant: the scan may walk past the requested block.
GetHopBlindly(g) ==
    /\ get[g].pc = "scan"
    /\ cursor[g] # HEAD
    /\ rcu_advance(g)
    /\ UNCHANGED <<valid_blk_list, elem, stale_next, heap, waiting, removed_since,
                   devVars, callVars>>

GetHop(g) ==
    /\ get[g].pc = "scan"
    /\ cursor[g] # HEAD
    /\ elem[cursor[g]].ndx # get[g].ndx
    /\ rcu_advance(g)
    /\ UNCHANGED <<valid_blk_list, elem, stale_next, heap, waiting, removed_since,
                   devVars, callVars>>

GetFound(g) ==
    /\ get[g].pc = "scan"
    /\ cursor[g] # HEAD
    /\ elem[cursor[g]].ndx = get[g].ndx
    /\ get' = [get EXCEPT ![g].pc = "read", ![g].bytes = elem[cursor[g]].valid_bytes]
    /\ UNCHANGED <<rcuVars, devVars, put, inv>>

\* rcu_read_unlock and return.
GetLeave(g) ==
    /\ rcu_read_unlock(g)
    /\ get' = [get EXCEPT ![g] = GetIdle]
    /\ UNCHANGED <<valid_blk_list, elem, stale_next, heap, devVars, put, inv>>

\* -ENODATA: the scan came back to the list head.
GetMiss(g) ==
    /\ get[g].pc = "scan"
    /\ cursor[g] = HEAD
    /\ GetLeave(g)

GetBreadFails(g) ==
    /\ "get" \in BreadFails
    /\ get[g].pc = "read"
    /\ GetLeave(g)

\* Mutant: the larger of the two lengths is copied.
GetReadLonger(g) ==
    /\ get[g].pc = "read"
    /\ get' = [get EXCEPT ![g].pc = "copy", ![g].out[1] = buffer[get[g].ndx].data[1],
                          ![g].bytes = IF get[g].size > @ THEN get[g].size ELSE @]
    /\ UNCHANGED <<rcuVars, devVars, put, inv>>

\* sb_bread and the first half of copy_to_user, of at most size bytes.
GetRead(g) ==
    /\ get[g].pc = "read"
    /\ get' = [get EXCEPT ![g].pc = "copy", ![g].out[1] = buffer[get[g].ndx].data[1],
                          ![g].bytes = IF get[g].size > @ THEN @ ELSE get[g].size]
    /\ UNCHANGED <<rcuVars, devVars, put, inv>>

\* The second half; not_copied bytes are lost when the user page faults.
GetCopy(g) ==
    /\ get[g].pc = "copy"
    /\ \E not_copied \in 0..get[g].bytes :
        get' = [get EXCEPT ![g].pc = "copied", ![g].out[2] = buffer[get[g].ndx].data[2],
                           ![g].bytes = @ - not_copied]
    /\ UNCHANGED <<rcuVars, devVars, put, inv>>

GetReturn(g) ==
    /\ get[g].pc = "copied"
    /\ GetLeave(g)
-----------------------------------------------------------------------------
(* invalidate_data *)

\* Mutant: the array entry stays valid.
InvUnlinkListOnly(i) ==
    /\ inv[i].pc = "idle"
    /\ rcu_write_lock = NULL
    /\ \E k \in 1..Len(valid_blk_list) :
        /\ list_del_rcu(k)
        /\ inv' = [inv EXCEPT ![i] = [pc |-> "unlinked", ndx |-> elem[valid_blk_list[k]].ndx,
                                      el |-> valid_blk_list[k]]]
    /\ UNCHANGED <<elem, heap, cursor, waiting, devVars, put, get>>

\* The whole spinlock section of a successful call: search, list_del_rcu,
\* validity bit in the array and in the page cache.
InvUnlink(i) ==
    /\ inv[i].pc = "idle"
    /\ rcu_write_lock = NULL
    /\ \E k \in 1..Len(valid_blk_list) :
        LET n == valid_blk_list[k]
            b == elem[n].ndx
        IN  /\ \A j \in 1..(k - 1) : elem[valid_blk_list[j]].ndx # b
            /\ list_del_rcu(k)
            /\ metadata_array' = [metadata_array EXCEPT ![b].is_valid = FALSE]
            /\ buffer' = [buffer EXCEPT ![b].md = metadata_array'[b]]
            /\ inv' = [inv EXCEPT ![i] = [pc |-> "unlinked", ndx |-> b, el |-> n]]
    /\ UNCHANGED <<elem, heap, cursor, waiting,
                   rcu_write_lock, md_freed, last_written_block, put, get>>

InvSynchronize(i) ==
    /\ inv[i].pc = "unlinked"
    /\ synchronize_rcu_begin(i)
    /\ inv' = [inv EXCEPT ![i].pc = "grace"]
    /\ UNCHANGED <<valid_blk_list, elem, stale_next, heap, cursor, removed_since,
                   devVars, put, get>>

\* Mutant: the element is freed without waiting for the grace period.
InvFreeAtOnce(i) ==
    /\ inv[i].pc = "grace"
    /\ kfree(inv[i].el)
    /\ inv' = [inv EXCEPT ![i] = InvIdle]
    /\ waiting' = [waiting EXCEPT ![i] = {}]
    /\ UNCHANGED <<valid_blk_list, cursor, removed_since, devVars, put, get>>

\* End of the grace period, sync_dirty_buffer, kfree, return.
InvFree(i) ==
    /\ inv[i].pc = "grace"
    /\ synchronize_rcu_end(i)
    /\ kfree(inv[i].el)
    /\ inv' = [inv EXCEPT ![i] = InvIdle]
    /\ UNCHANGED <<valid_blk_list, cursor, waiting, removed_since, devVars, put, get>>
-----------------------------------------------------------------------------
PutNext(p) ==
    \/ PutPrepare(p) \/ PutLock(p) \/ PutNoSpace(p) \/ PutBreadFails(p)
    \/ PutCopy(p) \/ PutPublish(p) \/ PutReturn(p)

GetNext(g) ==
    \/ GetEnter(g) \/ GetHop(g) \/ GetFound(g) \/ GetMiss(g)
    \/ GetBreadFails(g) \/ GetRead(g) \/ GetCopy(g) \/ GetReturn(g)

InvNext(i) == InvUnlink(i) \/ InvSynchronize(i) \/ InvFree(i)

Next ==
    \/ \E p \in Putters : PutNext(p)
    \/ \E g \in Getters : GetNext(g)
    \/ \E i \in Updaters : InvNext(i)

Spec == Init /\ [][Next]_vars
-----------------------------------------------------------------------------
MetadataType == [nsec : Int, is_valid : BOOLEAN, valid_bytes : Nat]
Cell == Messages \cup {Blank}

BlockType == [md : MetadataType, data : [1..2 -> Cell]]
PutType == [pc : {"idle", "lock", "copy", "publish", "sync"},
            el : Nodes \cup {NULL}, msg : Cell, nsec : Int, block : Blocks]
GetType == [pc : {"idle", "scan", "read", "copy", "copied"}, ndx : Blocks,
            size : Nat, bytes : Nat, absent : BOOLEAN, out : [1..2 -> Cell]]
InvType == [pc : {"idle", "unlinked", "grace"}, ndx : Blocks, el : Nodes \cup {NULL}]

ElemBlocks == \A n \in Nodes : elem[n].ndx \in Blocks
DevTypeOK ==
    /\ rcu_write_lock \in Putters \cup {NULL}
    /\ metadata_array \in [Blocks -> MetadataType]
    /\ md_freed \subseteq Blocks
    /\ last_written_block \in Blocks
    /\ buffer \in [Blocks -> BlockType]
PutTypeOK ==
    /\ put \in [Putters -> PutType]
    /\ \A p \in Putters : put[p].pc \in {"lock", "copy", "publish"} => put[p].msg \in Messages
GetTypeOK == get \in [Getters -> GetType]
InvTypeOK == inv \in [Updaters -> InvType]

\* Types of the list, of the device state and of the local variables of the calls; a
\* put that runs has a message.
TypeOK ==
    RcuTypeOK /\ ElemBlocks /\ DevTypeOK /\ PutTypeOK /\ GetTypeOK /\ InvTypeOK
-----------------------------------------------------------------------------
(* Memory *)

\* The put has allocated its element and not yet published it.
Preparing(p) == put[p].pc \in {"lock", "copy", "publish"}
\* The invalidation has unlinked its element and not yet freed it.
Removing(i) == inv[i].pc # "idle"

Private == {put[p].el : p \in {q \in Putters : Preparing(q)}}
Unlinked == {inv[i].el : i \in {j \in Updaters : Removing(j)}}

\* kfree and synchronize_rcu of invalidate_data (syscalls.c:364-372): no reader ever
\* stands on an element that is free or that belongs to a put not yet published.
NoUseAfterFree ==
    \A r \in Readers : cursor[r] \in Nodes => cursor[r] \notin heap \cup Private

\* Every rcu_elem has exactly one owner at any time: the allocator, a put that has
\* not published it, the list, or the invalidation that unlinked it.  No path of
\* put_data or invalidate_data leaks an element or frees it twice.
SingleOwner ==
    /\ Nodes = heap \cup Private \cup Linked \cup Unlinked
    /\ heap \cap (Private \cup Linked \cup Unlinked) = {}
    /\ Private \cap (Linked \cup Unlinked) = {}
    /\ Linked \cap Unlinked = {}
    /\ Distinct

\* The inductive invariant behind the two.  Owners: the elements that calls hold are
\* theirs alone, and every other element is free or on the list.
FreeUnlinked == heap \cap Linked = {}
NoLeak == \A n \in Nodes \ (heap \cup Linked) :
    \/ \E p \in Putters : Preparing(p) /\ put[p].el = n
    \/ \E i \in Updaters : Removing(i) /\ inv[i].el = n
PutsOwn == \A p \in Putters : Preparing(p) => put[p].el \in Nodes \ (heap \cup Linked)
InvsOwn == \A i \in Updaters : Removing(i) => inv[i].el \in Nodes \ (heap \cup Linked)
PutsApart ==
    \A p, q \in Putters : Preparing(p) /\ Preparing(q) /\ put[p].el = put[q].el => p = q
InvsApart ==
    \A i, j \in Updaters : Removing(i) /\ Removing(j) /\ inv[i].el = inv[j].el => i = j
CallsApart ==
    \A p \in Putters, i \in Updaters : Preparing(p) /\ Removing(i) => put[p].el # inv[i].el

Owners ==
    /\ Distinct /\ FreeUnlinked /\ NoLeak
    /\ PutsOwn /\ InvsOwn /\ PutsApart /\ InvsApart /\ CallsApart

\* Readers: a reader stands on a listed element or on one unlinked during its critical
\* section, from which next pointers lead only to such elements; and the invalidation
\* that unlinked it will wait, or waits, for this reader.
OutsideClear == \A r \in Readers : cursor[r] = NULL => removed_since[r] = {}
CursorCovered ==
    \A r \in Readers : cursor[r] \in Linked \cup removed_since[r] \cup {HEAD, NULL}
NextCovered ==
    \A r \in Readers : \A n \in removed_since[r] :
        stale_next[n] \in Linked \cup removed_since[r] \cup {HEAD}
Awaited(r, n) ==
    \E i \in Updaters : /\ Removing(i) /\ inv[i].el = n
                        /\ inv[i].pc = "unlinked" \/ r \in waiting[i]
GraceCovers == \A r \in Readers : \A n \in removed_since[r] : Awaited(r, n)
GettersInside == \A g \in Getters : get[g].pc # "idle" => cursor[g] # NULL

ReadersCovered ==
    OutsideClear /\ CursorCovered /\ NextCovered /\ GraceCovers /\ GettersInside

MemInv == TypeOK /\ Owners /\ ReadersCovered
-----------------------------------------------------------------------------
(* The three copies of a block's metadata *)

Filling == {put[p].block : p \in {q \in Putters : put[q].pc \in {"copy", "publish"}}}

\* The list, metadata_array and the page cache describe the same messages (README.md:101,
\* the spinlock extends to the array): a block a put is not just filling is valid in
\* the array exactly when it is on the list, once, with the same timestamp and
\* length, and the cached block carries the array's entry.
CopiesAgree ==
    /\ \A b \in Blocks \ Filling :
        /\ buffer[b].md = metadata_array[b]
        /\ metadata_array[b].is_valid <=> Holds(b)
    /\ \A j, k \in 1..Len(valid_blk_list) :
        elem[valid_blk_list[j]].ndx = elem[valid_blk_list[k]].ndx => j = k
    /\ \A n \in Linked :
        LET md == metadata_array[elem[n].ndx]
        IN  /\ elem[n].ndx \notin Filling
            /\ elem[n].nsec = md.nsec /\ elem[n].valid_bytes = md.valid_bytes

\* "First make sure to write the block on the device and then update the RCU list"
\* (syscalls.c:160-164): a listed block holds one whole message of the listed length.
ListedBlockIsWhole ==
    \A n \in Linked : \E m \in Messages :
        /\ buffer[elem[n].ndx].data = <<m, m>>
        /\ elem[n].valid_bytes = MsgLen[m]

\* A stored message is immutable: no call changes the cached data of a block
\* whose element stays on the list.
StoredDataStable ==
    [][\A n \in Linked \cap Linked' : buffer'[elem[n].ndx] = buffer[elem[n].ndx]]_vars
-----------------------------------------------------------------------------
(* What get_data returns *)

\* get_data answers -ENODATA only if its block held no message at some moment of the
\* call: a scan never misses an element that stays on the list, whatever is
\* inserted or unlinked around the cursor.
MissIsJustified ==
    \A g \in Getters : get[g].pc = "scan" /\ cursor[g] = HEAD =>
        \/ get[g].absent
        \/ \E n \in removed_since[g] : elem[n].ndx = get[g].ndx

\* As long as the block is not invalidated during the call, get_data copies
\* the whole stored message and reports at most its length.
CopyIsStoredMessage ==
    \A g \in Getters : get[g].pc = "copied" /\ cursor[g] \in Linked =>
        \E m \in Messages :
            /\ buffer[get[g].ndx].data = <<m, m>>
            /\ get[g].out = <<m, m>>
            /\ get[g].bytes <= MsgLen[m]

\* What the comment at syscalls.c:277-283 says of every call that found its block: an
\* overwrite of the data can happen only after the read-side critical section, so
\* what it copied is one message, not a mixture of two.
NeverTorn ==
    \A g \in Getters : get[g].pc = "copied" => get[g].out[1] = get[g].out[2]
-----------------------------------------------------------------------------
(* Progress *)

\* Threads in a call keep running.  A spinlock queues its waiters, so a putter that
\* keeps finding it free in turn gets it (strong fairness).
Fairness ==
    /\ \A p \in Putters :
        /\ SF_vars(PutLock(p) \/ PutNoSpace(p) \/ PutBreadFails(p))
        /\ WF_vars(PutCopy(p) \/ PutPublish(p) \/ PutReturn(p))
    /\ \A g \in Getters :
        WF_vars(GetNext(g) /\ get[g].pc # "idle")
    /\ \A i \in Updaters : WF_vars(InvSynchronize(i) \/ InvFree(i))

FairSpec == Spec /\ Fairness

-----------------------------------------------------------------------------
(* Refinement *)

Empty == NULL

\* The message a block holds is the one its list element announces.
storeMap == [b \in Blocks |->
    IF Holds(b)
    THEN [msg |-> buffer[b].data[1], nsec |-> metadata_array[b].nsec,
          bytes |-> metadata_array[b].valid_bytes]
    ELSE Empty]

MS == INSTANCE MessageStore WITH store <- storeMap, last <- last_written_block

\* put_data and invalidate_data, with all their concurrency, implement the atomic
\* message store: a put takes effect when it publishes its element, an
\* invalidation when it unlinks it, and no other step changes what is stored.
ImplementsStore == MS!StoreSpec
=============================================================================
