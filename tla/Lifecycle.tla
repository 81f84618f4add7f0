----------------------------- MODULE Lifecycle ------------------------------
(***************************************************************************)
(* Loading, mounting and unmounting while system calls run: the globals of *)
(* src/bldms.c that bldms_fs_mount, bldms_fs_fill_super, bldms_fs_kill_sb  *)
(* and free_data_structures change, and what the calls of src/syscalls.c   *)
(* read of them, with and without the spinlock.                            *)
(*                                                                         *)
(* Of the messages only their number on the list is kept, of a call the    *)
(* points at which it touches a global, waits or returns.  A mount and the *)
(* unloading of the module begin when no other mount is in progress and    *)
(* the calls that began before have returned; an unmount begins at any     *)
(* moment.                                                                 *)
(***************************************************************************)
EXTENDS SyscallTable

CONSTANTS
    Callers,        \* threads that make system calls
    Mounters,       \* threads that mount and unmount, each a device of its own
    Superblocks,    \* addresses of struct super_block
    NumBlocks,      \* blocks of a device
    NULL

ASSUME LifeAssumption ==
    /\ NumBlocks \in Nat \ {0}
    /\ NULL \notin Superblocks \cup Callers \cup Mounters
    /\ Callers \cap Mounters = {}

VARIABLES
    bldms_mounted,
    the_dev_superblock,
    md_array_size,
    metadata_array,     \* "null", "filling", "ready", or "freed" while the pointer remains
    listed,             \* how many elements valid_blk_list has
    rcu_write_lock,     \* the thread that holds the spinlock, or NULL
    sb,                 \* state of each super_block: "none", "live", "shut" or "put"
    mnt,                \* progress of each mount and unmount, and its superblock
    call,               \* progress of each call, and the superblock it has read
    waiting             \* the threads a grace period still waits for

globals == <<bldms_mounted, the_dev_superblock, md_array_size, metadata_array>>
listVars == <<listed, rcu_write_lock>>
lifeVars == <<globals, listVars, sb, mnt, call, waiting, tableVars>>

CallIdle == [pc |-> "idle", kind |-> "none", sb |-> NULL]
MountIdle == [pc |-> "idle", sb |-> NULL, kill |-> FALSE]

LifeInit ==
    /\ TableInit
    /\ bldms_mounted = FALSE
    /\ the_dev_superblock = NULL
    /\ md_array_size = 0
    /\ metadata_array = "null"
    /\ listed = 0
    /\ rcu_write_lock = NULL
    /\ sb = [x \in Superblocks |-> "none"]
    /\ mnt = [m \in Mounters |-> MountIdle]
    /\ call = [c \in Callers |-> CallIdle]
    /\ waiting = [w \in Callers \cup Mounters \cup Superblocks |-> {}]

\* A grace period waits for rcu_read_lock sections and for threads that cannot be
\* preempted: those that hold a spinlock and those that spin on one.
Pinned == {c \in Callers : call[c].pc \in {"scan", "found", "spin", "locked"}}

\* The thread passes a quiescent state.
Unpin(c) == waiting' = [w \in DOMAIN waiting |-> waiting[w] \ {c}]

NoCalls == \A c \in Callers : call[c].pc = "idle"
NoMounts == \A m \in Mounters : mnt[m].pc \in {"idle", "orphan"}
-----------------------------------------------------------------------------
(* Load and unload *)

\* A superblock in use pins the module.
Unload ==
    /\ BldmsExit
    /\ NoCalls /\ \A m \in Mounters : mnt[m].pc = "idle"

LoadNext ==
    /\ UsctmInit \/ UsctmExit \/ BldmsInit \/ BldmsInitFails \/ Unload
    /\ UNCHANGED <<globals, listVars, sb, mnt, call, waiting>>
-----------------------------------------------------------------------------
(* Mount *)

MountGoes(m, from, to) ==
    /\ mnt[m].pc = from
    /\ mnt' = [mnt EXCEPT ![m].pc = to]
    /\ UNCHANGED <<sb, call, tableVars>>

\* bldms_fs_mount finds the flag clear; mount_bdev allocates a superblock.
MountBegin(m) ==
    /\ bldms.loaded
    /\ mnt[m].pc = "idle" /\ NoCalls /\ NoMounts
    /\ ~bldms_mounted
    /\ \E x \in Superblocks :
        /\ sb[x] = "none"
        /\ sb' = [sb EXCEPT ![x] = "live"]
        /\ mnt' = [mnt EXCEPT ![m] = [pc |-> "opened", sb |-> x, kill |-> FALSE]]
    /\ UNCHANGED <<globals, listVars, call, waiting, tableVars>>

\* kill_block_super and blkdev_put, the first half of bldms_fs_kill_sb, which an unmount and
\* the failure of bldms_fs_fill_super lead to.
kill_block_super(m, from) ==
    /\ mnt[m].pc = from
    /\ sb' = [sb EXCEPT ![mnt[m].sb] = "shut"]
    /\ mnt' = [mnt EXCEPT ![m].pc = "free", ![m].kill = TRUE]
    /\ UNCHANGED <<bldms_mounted, the_dev_superblock, md_array_size, listVars, call, waiting, tableVars>>

\* The superblock's magic number, its inode or its size is refused.
MountRefuse(m) == kill_block_super(m, "opened") /\ UNCHANGED metadata_array

\* The size is known before the array exists.
MountSize(m) ==
    /\ MountGoes(m, "opened", "sized")
    /\ md_array_size' = NumBlocks
    /\ UNCHANGED <<bldms_mounted, the_dev_superblock, metadata_array, listVars, waiting>>

MountNoMemory(m) == kill_block_super(m, "sized") /\ metadata_array' = "null"

\* A zeroed array; rcu_init sets up the spinlock anew, whoever holds it.
MountAlloc(m) ==
    /\ MountGoes(m, "sized", "fill")
    /\ metadata_array' = "filling"
    /\ rcu_write_lock' = NULL
    /\ UNCHANGED <<bldms_mounted, the_dev_superblock, md_array_size, listed, waiting>>

\* The scan has listed the valid blocks, and the device counts as mounted.
MountFilled(m) ==
    /\ MountGoes(m, "fill", "filled")
    /\ metadata_array' = "ready"
    /\ listed' \in 0..NumBlocks
    /\ bldms_mounted' = TRUE
    /\ UNCHANGED <<the_dev_superblock, md_array_size, rcu_write_lock, waiting>>

\* err_and_clean_rcu with a list still empty (otherwise the loop follows a poisoned pointer, a
\* Crash of Durability): the array is freed, but metadata_array keeps its value.
MountScanFails(m) == kill_block_super(m, "fill") /\ metadata_array' = "freed"

\* bldms_fs_mount gets its reference to the device.
MountPublish(m) ==
    /\ MountGoes(m, "filled", "mounted")
    /\ the_dev_superblock' = mnt[m].sb
    /\ UNCHANGED <<bldms_mounted, md_array_size, metadata_array, listVars, waiting>>

\* Or it does not, and frees the data; nobody shuts the superblock down.
MountOrphan(m) == MountGoes(m, "filled", "free") /\ UNCHANGED <<globals, listVars, waiting>>

Unmount(m) == kill_block_super(m, "mounted") /\ UNCHANGED metadata_array
-----------------------------------------------------------------------------
(* free_data_structures *)

FreeLock(m) ==
    /\ MountGoes(m, "free", "freeing")
    /\ rcu_write_lock = NULL
    /\ rcu_write_lock' = m
    /\ UNCHANGED <<globals, listed, waiting>>

\* remove_all_entries_secure: an element is unlinked and a grace period begins, with
\* the spinlock held.
FreeUnlink(m) ==
    /\ MountGoes(m, "freeing", "grace")
    /\ listed > 0
    /\ listed' = listed - 1
    /\ waiting' = [waiting EXCEPT ![m] = Pinned]
    /\ UNCHANGED <<globals, rcu_write_lock>>

FreeElement(m) ==
    /\ MountGoes(m, "grace", "freeing")
    /\ waiting[m] = {}
    /\ UNCHANGED <<globals, listVars, waiting>>

\* The end: the array, the globals and the lock.  After kill_sb the kernel drops the
\* superblock, which is destroyed one grace period later.
FreeAs(m, size, super) ==
    /\ mnt[m].pc = "freeing"
    /\ listed = 0
    /\ metadata_array' = "null"
    /\ md_array_size' = size
    /\ the_dev_superblock' = super
    /\ bldms_mounted' = FALSE
    /\ rcu_write_lock' = NULL
    /\ \/ /\ mnt[m].kill
          /\ sb' = [sb EXCEPT ![mnt[m].sb] = "put"]
          /\ waiting' = [waiting EXCEPT ![mnt[m].sb] = Pinned]
          /\ mnt' = [mnt EXCEPT ![m] = MountIdle]
       \/ /\ ~mnt[m].kill
          /\ mnt' = [mnt EXCEPT ![m].pc = "orphan"]
          /\ UNCHANGED <<sb, waiting>>
    /\ UNCHANGED <<listed, call, tableVars>>



FreeArray(m) == FreeAs(m, 0, NULL)

destroy_super(x) ==
    /\ sb[x] = "put"
    /\ waiting[x] = {}
    /\ sb' = [sb EXCEPT ![x] = "none"]
    /\ UNCHANGED <<globals, listVars, mnt, call, waiting, tableVars>>

MountNext(m) ==
    \/ MountBegin(m) \/ MountRefuse(m) \/ MountSize(m) \/ MountNoMemory(m) \/ MountAlloc(m)
    \/ MountFilled(m) \/ MountScanFails(m) \/ MountPublish(m) \/ MountOrphan(m) \/ Unmount(m)
    \/ FreeLock(m) \/ FreeUnlink(m) \/ FreeElement(m) \/ FreeArray(m)
-----------------------------------------------------------------------------
(* System calls *)

CallGoes(c, from, to) ==
    /\ call[c].pc = from
    /\ call' = [call EXCEPT ![c] = to]
    /\ UNCHANGED <<globals, sb, mnt, tableVars>>

At(c, pc) == [call[c] EXCEPT !.pc = pc]

\* The call is in the table and finds the device mounted.
CallBegin(c) ==
    /\ bldms.loaded
    /\ bldms_mounted
    /\ \E i \in 1..HACKED_ENTRIES : CallGoes(c, "idle", [At(c, "checked") EXCEPT !.kind = Calls[i]])
    /\ UNCHANGED <<listVars, waiting>>

\* Early returns: offset or size out of range, no superblock, no memory.
CallRefuse(c) == CallGoes(c, "checked", CallIdle) /\ UNCHANGED <<listVars, waiting>>


\* The checks before the list is touched; invalidate_data does not check the superblock.
CallSuper(c) ==
    /\ call[c].kind # "put_data" => md_array_size > 0
    /\ call[c].kind # "invalidate_data" => the_dev_superblock # NULL
    /\ CallGoes(c, "checked", [At(c, "enter") EXCEPT !.sb = the_dev_superblock])
    /\ UNCHANGED <<listVars, waiting>>

\* get_data: the critical section, in which it finds its block or not.
GetEnter(c) ==
    /\ call[c].kind = "get_data"
    /\ CallGoes(c, "enter", At(c, "scan"))
    /\ UNCHANGED <<listVars, waiting>>

GetFound(c) ==
    /\ listed > 0
    /\ CallGoes(c, "scan", At(c, "found"))
    /\ UNCHANGED <<listVars, waiting>>

\* -ENODATA, or the end of a call that has read its block through the superblock.
GetLeave(c) ==
    /\ CallGoes(c, "scan", CallIdle) \/ CallGoes(c, "found", CallIdle)
    /\ Unpin(c)
    /\ UNCHANGED listVars

\* spin_lock of put_data and invalidate_data.
CallSpin(c) ==
    /\ call[c].kind # "get_data"
    /\ CallGoes(c, "enter", At(c, "spin"))
    /\ UNCHANGED <<listVars, waiting>>

CallLock(c) ==
    /\ CallGoes(c, "spin", At(c, "locked"))
    /\ rcu_write_lock = NULL
    /\ rcu_write_lock' = c
    /\ UNCHANGED <<listed, waiting>>

\* spin_unlock with n elements on the list.
CallUnlock(c, to, n) ==
    /\ CallGoes(c, "locked", to)
    /\ listed' = n
    /\ rcu_write_lock' = NULL

\* The error returns under the lock: no free block, block not listed, failed sb_bread.
CallError(c) == CallUnlock(c, CallIdle, listed) /\ Unpin(c)

\* The search looks at md_array_size entries of the array.
PutSearches(c) == call[c].pc = "locked" /\ call[c].kind = "put_data" /\ md_array_size > 0

\* Mutant: target_block is not checked.
PutPublishAnyway(c) == PutSearches(c) /\ CallUnlock(c, CallIdle, listed + 1) /\ Unpin(c)

PutPublish(c) ==
    PutSearches(c) /\ listed < NumBlocks /\ CallUnlock(c, CallIdle, listed + 1) /\ Unpin(c)

InvFinds(c) == call[c].pc = "locked" /\ call[c].kind = "invalidate_data" /\ listed > 0

InvUnlink(c) ==
    /\ InvFinds(c)
    /\ CallUnlock(c, At(c, "grace"), listed - 1)
    /\ waiting' = [w \in DOMAIN waiting |-> (IF w = c THEN Pinned ELSE waiting[w]) \ {c}]

InvFree(c) ==
    /\ CallGoes(c, "grace", CallIdle)
    /\ waiting[c] = {}
    /\ UNCHANGED <<listVars, waiting>>

CallNext(c) ==
    \/ CallBegin(c) \/ CallRefuse(c) \/ CallSuper(c)
    \/ GetEnter(c) \/ GetFound(c) \/ GetLeave(c)
    \/ CallSpin(c) \/ CallLock(c) \/ CallError(c) \/ PutPublish(c) \/ InvUnlink(c) \/ InvFree(c)

LifeNext ==
    \/ LoadNext
    \/ \E m \in Mounters : MountNext(m)
    \/ \E x \in Superblocks : destroy_super(x)
    \/ \E c \in Callers : CallNext(c)

LifeSpec == LifeInit /\ [][LifeNext]_lifeVars

\* The scheduler is fair to calls and unmounts, and so are the grace periods.
LifeFairSpec ==
    /\ LifeSpec
    /\ \A m \in Mounters :
          WF_lifeVars(FreeLock(m) \/ FreeUnlink(m) \/ FreeElement(m) \/ FreeArray(m))
    /\ \A c \in Callers : WF_lifeVars(CallNext(c) /\ call[c].pc # "idle")
-----------------------------------------------------------------------------
\* Types of the globals and of the progress of mounts and calls.
LifeTypeOK ==
    /\ table \in [1..Len(Original) -> Contents]
    /\ bldms_mounted \in BOOLEAN
    /\ the_dev_superblock \in Superblocks \cup {NULL}
    /\ md_array_size \in {0, NumBlocks}
    /\ metadata_array \in {"null", "filling", "ready", "freed"}
    /\ listed \in 0..NumBlocks
    /\ rcu_write_lock \in Callers \cup Mounters \cup {NULL}
    /\ sb \in [Superblocks -> {"none", "live", "shut", "put"}]
    /\ mnt \in [Mounters ->
           [pc : {"idle", "opened", "sized", "fill", "filled", "mounted", "free", "freeing", "grace",
                  "orphan"},
            sb : Superblocks \cup {NULL}, kill : BOOLEAN]]
    /\ call \in [Callers ->
           [pc : {"idle", "checked", "enter", "scan", "found", "spin", "locked", "grace"},
            kind : {Calls[i] : i \in 1..HACKED_ENTRIES} \cup {"none"},
            sb : Superblocks \cup {NULL}]]
    /\ waiting \in [Callers \cup Mounters \cup Superblocks -> SUBSET Callers]



-----------------------------------------------------------------------------
(* What the documentation says of unmounting and the code does not do *)

\* rcu.c:132 says of remove_all_entries_secure "The spinlock should be released after this function
\* returned": an unmount that has taken the spinlock releases it again.
UnmountReleasesLock ==
    \A m \in Mounters : rcu_write_lock = m ~> rcu_write_lock # m
=============================================================================
