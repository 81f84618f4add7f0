----------------------------- MODULE Durability -----------------------------
(***************************************************************************)
(* The device behind the page cache: formatting (src/bldmsmakefs.c), mount *)
(* and unmount (src/bldms.c), the write-back of put_data and               *)
(* invalidate_data in the build with SYNCHRONOUS_PUT_DATA = 1, and crashes *)
(* of the system at any moment.                                            *)
(*                                                                         *)
(* The calls are those of Syscalls; get_data writes nothing and is left    *)
(* out.  buffer is what sb_bread returns: the cached block, or the block   *)
(* on disk when it is not cached.  The disk writes a block atomically.     *)
(* Unmounting is modelled while no call runs.                              *)
(***************************************************************************)
EXTENDS Syscalls

CONSTANT FilledBlocks    \* the blocks that the formatter's FILL_DEV build fills

ASSUME FilledAssumption == FilledBlocks \subseteq Blocks

VARIABLES
    mnt,                 \* progress of the mount: pc, and the next block of the scan
    bldms_mounted,
    the_dev_superblock,  \* whether the pointer is set
    disk,                \* the device's blocks
    dirty,               \* blocks whose cached copy waits for write-back
    acked                \* history: what a block holds since a put to it returned

mountVars == <<mnt, bldms_mounted, the_dev_superblock>>
diskVars == <<disk, dirty, acked>>
durVars == <<vars, mountVars, diskVars>>

NoMount == [pc |-> "unmounted", i |-> 0]

EmptyBlock == [md |-> NoMetadata, data |-> <<Blank, Blank>>]

\* A block that holds message m since time t.
FilledBlock(m, t) ==
    [md |-> [nsec |-> t, is_valid |-> TRUE, valid_bytes |-> MsgLen[m]], data |-> <<m, m>>]

\* The images the formatter writes: all blocks invalid, or some filled.
Formatted ==
    {[b \in Blocks |-> EmptyBlock]} \cup
    {[b \in Blocks |-> IF b \in FilledBlocks THEN FilledBlock(m, t[b]) ELSE EmptyBlock] :
         m \in Messages, t \in [FilledBlocks -> Timestamps]}

DurInit ==
    /\ disk \in Formatted
    /\ RcuInit
    /\ rcu_write_lock = NULL
    /\ metadata_array = [b \in Blocks |-> NoMetadata]
    /\ md_freed = {}
    /\ last_written_block = 0
    /\ buffer = disk
    /\ put = [p \in Putters |-> PutIdle]
    /\ get = [g \in Getters |-> GetIdle]
    /\ inv = [i \in Updaters |-> InvIdle]
    /\ mnt = NoMount
    /\ bldms_mounted = FALSE
    /\ the_dev_superblock = FALSE
    /\ dirty = {}
    /\ acked = [b \in Blocks |-> IF disk[b].md.is_valid THEN disk[b] ELSE NULL]
-----------------------------------------------------------------------------
(* Mount *)

\* Unlinks and frees every element.  The loop reads the next pointer of the element it has
\* just freed; this is the outcome when that memory has not been reused.
remove_all_entries_secure ==
    /\ valid_blk_list' = <<>>
    /\ elem' = [n \in Nodes |-> ZeroElem]
    /\ stale_next' = [n \in Nodes |-> NULL]
    /\ heap' = Nodes

\* The list, the array and the globals are given up.
free_data_structures ==
    /\ remove_all_entries_secure
    /\ metadata_array' = [b \in Blocks |-> NoMetadata]
    /\ md_freed' = {}
    /\ the_dev_superblock' = FALSE
    /\ bldms_mounted' = FALSE
    /\ rcu_write_lock' = NULL

\* bldms_fs_mount and bldms_fs_fill_super up to the scan.  A wrong magic number or too
\* many blocks end the call here and leave no trace.
MountBegin ==
    /\ mnt.pc = "unmounted"
    /\ ~bldms_mounted
    /\ mnt' = [pc |-> "scan", i |-> 0]
    /\ UNCHANGED <<vars, bldms_mounted, the_dev_superblock, diskVars>>

\* Mutant: valid blocks are appended to the list in the order of their indexes.
MountBlockAppend ==
    /\ mnt.pc = "scan" /\ mnt.i < NumBlocks
    /\ LET md == buffer[mnt.i].md
       IN  /\ metadata_array' = [metadata_array EXCEPT ![mnt.i] = md]
           /\ \/ ~md.is_valid /\ UNCHANGED <<valid_blk_list, elem, heap>>
              \/ md.is_valid /\ \E n \in Nodes :
                    /\ kzalloc(n)
                    /\ add_valid_block_secure(n, mnt.i, md.valid_bytes, md.nsec)
    /\ mnt' = [mnt EXCEPT !.i = @ + 1]
    /\ UNCHANGED <<stale_next, cursor, waiting, removed_since, rcu_write_lock, md_freed,
                   last_written_block, buffer, callVars, bldms_mounted, the_dev_superblock,
                   diskVars>>

\* One iteration of the scan: read the metadata, list the block if it is valid.
MountBlock ==
    /\ mnt.pc = "scan" /\ mnt.i < NumBlocks
    /\ LET md == buffer[mnt.i].md
       IN  /\ metadata_array' = [metadata_array EXCEPT ![mnt.i] = md]
           /\ \/ ~md.is_valid /\ UNCHANGED <<valid_blk_list, elem, heap>>
              \/ md.is_valid /\ \E n \in Nodes :
                    /\ kzalloc(n)
                    /\ add_valid_block_in_order_secure(n, mnt.i, md.valid_bytes, md.nsec)
    /\ mnt' = [mnt EXCEPT !.i = @ + 1]
    /\ UNCHANGED <<stale_next, cursor, waiting, removed_since, rcu_write_lock, md_freed,
                   last_written_block, buffer, callVars, bldms_mounted, the_dev_superblock,
                   diskVars>>

\* sb_bread or kzalloc fails while the list is still empty: everything is released.
\* With elements on the list the clean-up follows the next pointer of the element it
\* has just freed, which list_del poisoned: the system goes down (Crash).
MountFail ==
    /\ mnt.pc = "scan" /\ mnt.i < NumBlocks
    /\ valid_blk_list = <<>>
    /\ free_data_structures
    /\ mnt' = NoMount
    /\ UNCHANGED <<cursor, waiting, removed_since, last_written_block, buffer, callVars, diskVars>>

\* Mutant: on an empty device the last written block is one too high.
MountFilledTooFar ==
    /\ mnt.pc = "scan" /\ mnt.i = NumBlocks
    /\ last_written_block' = IF valid_blk_list # <<>> THEN elem[valid_blk_list[Len(valid_blk_list)]].ndx
                             ELSE NumBlocks
    /\ bldms_mounted' = TRUE
    /\ mnt' = [pc |-> "filled", i |-> 0]
    /\ UNCHANGED <<rcuVars, rcu_write_lock, metadata_array, md_freed, buffer, callVars,
                   the_dev_superblock, diskVars>>

\* The end of bldms_fs_fill_super: allocation goes on behind the newest message.
MountFilled ==
    /\ mnt.pc = "scan" /\ mnt.i = NumBlocks
    /\ last_written_block' = IF valid_blk_list # <<>> THEN elem[valid_blk_list[Len(valid_blk_list)]].ndx
                             ELSE NumBlocks - 1
    /\ bldms_mounted' = TRUE
    /\ mnt' = [pc |-> "filled", i |-> 0]
    /\ UNCHANGED <<rcuVars, rcu_write_lock, metadata_array, md_freed, buffer, callVars,
                   the_dev_superblock, diskVars>>

\* The rest of bldms_fs_mount.
MountPublish ==
    /\ mnt.pc = "filled"
    /\ the_dev_superblock' = TRUE
    /\ mnt' = [mnt EXCEPT !.pc = "mounted"]
    /\ UNCHANGED <<vars, bldms_mounted, diskVars>>

\* blkdev_get_by_path fails: the data structures are freed, but the superblock stays
\* active for good, and no later mount of the device fills it again: every call
\* answers -ENODEV.
MountOrphan ==
    /\ mnt.pc = "filled"
    /\ free_data_structures
    /\ mnt' = [NoMount EXCEPT !.pc = "orphan"]
    /\ UNCHANGED <<cursor, waiting, removed_since, last_written_block, buffer, callVars, diskVars>>

Quiet ==
    /\ \A p \in Putters : put[p].pc = "idle"
    /\ \A g \in Getters : get[g].pc = "idle"
    /\ \A i \in Updaters : inv[i].pc = "idle"

\* bldms_fs_kill_sb: kill_block_super writes back the dirty blocks, then
\* free_data_structures releases the list and the array.
Unmount ==
    /\ mnt.pc = "mounted"
    /\ Quiet
    /\ disk' = buffer
    /\ dirty' = {}
    /\ free_data_structures
    /\ mnt' = NoMount
    /\ UNCHANGED <<cursor, waiting, removed_since, last_written_block, buffer, callVars, acked>>

\* Power failure or kernel panic: only the disk survives, all memory is as after
\* a reboot and a new load of the module.
Crash ==
    /\ buffer' = disk
    /\ dirty' = {}
    /\ free_data_structures
    /\ cursor' = [r \in Readers |-> NULL]
    /\ waiting' = [u \in Updaters |-> {}]
    /\ removed_since' = [r \in Readers |-> {}]
    /\ put' = [p \in Putters |-> PutIdle]
    /\ get' = [g \in Getters |-> GetIdle]
    /\ inv' = [i \in Updaters |-> InvIdle]
    /\ mnt' = NoMount
    /\ last_written_block' = 0
    /\ UNCHANGED <<disk, acked>>
-----------------------------------------------------------------------------
(* The calls and the page cache *)

WriteBack(b) ==
    /\ disk' = IF b \in dirty THEN [disk EXCEPT ![b] = buffer[b]] ELSE disk
    /\ dirty' = dirty \ {b}

\* Mutant: nothing is written back (the build with SYNCHRONOUS_PUT_DATA = 0).
sync_dirty_buffer_later(b) == UNCHANGED <<disk, dirty>>

sync_dirty_buffer(b) == WriteBack(b)

mark_buffer_dirty(b) == dirty' = dirty \cup {b} /\ UNCHANGED disk

\* The kernel's flusher writes a dirty block whenever it likes.
Flush(b) ==
    /\ b \in dirty
    /\ WriteBack(b)
    /\ UNCHANGED <<vars, mountVars, acked>>

\* put_data marks the block dirty when its memcpy is complete and writes it back after
\* the spinlock section.
PutStep(p) ==
    \/ /\ PutNext(p) /\ put[p].pc \notin {"copy", "sync"}
       /\ UNCHANGED diskVars
    \/ /\ PutCopy(p)
       /\ mark_buffer_dirty(put[p].block)
       /\ UNCHANGED acked
    \/ /\ PutReturn(p)
       /\ sync_dirty_buffer(put[p].block)
       /\ acked' = [acked EXCEPT ![put[p].block] =
                        IF Holds(put[p].block) THEN buffer[put[p].block] ELSE @]

\* Mutant: the block whose metadata was rewritten is not marked dirty.
InvStepNotDirty(i) ==
    \/ /\ InvUnlink(i)
       /\ acked' = [acked EXCEPT ![inv'[i].ndx] = NULL]
       /\ UNCHANGED <<disk, dirty>>
    \/ /\ InvSynchronize(i)
       /\ UNCHANGED diskVars
    \/ /\ InvFree(i)
       /\ sync_dirty_buffer(inv[i].ndx)
       /\ UNCHANGED acked

\* invalidate_data writes back after the grace period.
InvStep(i) ==
    \/ /\ InvUnlink(i)
       /\ mark_buffer_dirty(inv'[i].ndx)
       /\ acked' = [acked EXCEPT ![inv'[i].ndx] = NULL]
    \/ /\ InvSynchronize(i)
       /\ UNCHANGED diskVars
    \/ /\ InvFree(i)
       /\ sync_dirty_buffer(inv[i].ndx)
       /\ UNCHANGED acked

\* All calls answer -ENODEV before bldms_mounted is set; before the_dev_superblock is
\* set put_data and get_data answer -EINVAL, and invalidate_data, which does not look,
\* takes the system down if the block is listed (Crash).
CallStep ==
    /\ bldms_mounted /\ the_dev_superblock
    /\ \/ \E p \in Putters : PutStep(p)
       \/ \E i \in Updaters : InvStep(i)
    /\ UNCHANGED mountVars

DurNext ==
    \/ MountBegin \/ MountBlock \/ MountFail \/ MountFilled \/ MountPublish \/ MountOrphan
    \/ Unmount \/ Crash \/ CallStep
    \/ \E b \in Blocks : Flush(b)

DurSpec == DurInit /\ [][DurNext]_durVars
-----------------------------------------------------------------------------
\* Types of the mount and of the disk.
DurTypeOK ==
    /\ TypeOK
    /\ mnt \in [pc : {"unmounted", "scan", "filled", "mounted", "orphan"}, i : 0..NumBlocks]
    /\ bldms_mounted \in BOOLEAN
    /\ the_dev_superblock \in BOOLEAN
    /\ disk \in [Blocks -> BlockType]
    /\ dirty \subseteq Blocks
    /\ acked \in [Blocks -> BlockType \cup {NULL}]

\* sync_dirty_buffer of put_data (syscalls.c:184-187): once put_data has returned, the message
\* is on the disk until invalidate_data removes it, whatever the other calls, the
\* flusher, unmounts and crashes do.
AckedPutsSurvive == \A b \in Blocks : acked[b] # NULL => disk[b] = acked[b]

\* sync_dirty_buffer of invalidate_data (syscalls.c:366-368): once invalidate_data has
\* returned, a crash does not bring the message back.  A block that is valid on the
\* disk is on the list with the same content, unless a call that has not returned
\* is rewriting or invalidating it.
NoResurrection ==
    bldms_mounted => \A b \in Blocks : disk[b].md.is_valid =>
        \/ Holds(b) /\ disk[b] = buffer[b]
        \/ \E p \in Putters : put[p].pc \in {"copy", "publish", "sync"} /\ put[p].block = b
        \/ \E i \in Updaters : inv[i].pc # "idle" /\ inv[i].ndx = b

\* bldms_fs_fill_super (bldms.c:182-221) rebuilds what the calls rely on from any disk that unmounts
\* and crashes leave: the list, in timestamp order, the array and the page cache agree.
MountAgrees == bldms_mounted => CopiesAgree /\ ListSorted

\* REQUIREMENTS.md:11, put_data "must be executed all or nothing": every message that is
\* on the list, also after a crash and a mount, is whole.
AllOrNothing == bldms_mounted => ListedBlockIsWhole
=============================================================================
