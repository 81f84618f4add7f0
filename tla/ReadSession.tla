---------------------------- MODULE ReadSession -----------------------------
(***************************************************************************)
(* Read sessions on the device file (src/file_ops.c): open, read, llseek   *)
(* and release, running next to the system calls of Syscalls.              *)
(*                                                                         *)
(* Offsets, lengths and the block layout are kept as numbers, with a small *)
(* block: METADATA_SIZE bytes of metadata and the two data cells of        *)
(* Syscalls, one byte each.  A session survives between reads as f_pos and *)
(* the timestamp behind private_data; pos is the copy of f_pos that the    *)
(* VFS passes to read and stores back unless read returns an error.        *)
(***************************************************************************)
EXTENDS Syscalls

CONSTANTS
    Sessions,            \* open files, each used by one thread at a time
    METADATA_SIZE,
    NUM_METADATA_BLKS,
    Lens,                \* lengths users pass to read
    ReadFails            \* whether sb_bread and kzalloc may fail in read

BLOCK_SIZE == METADATA_SIZE + 2

ASSUME SessionsAssumption ==
    /\ Sessions \subseteq Readers /\ Sessions \cap Getters = {}
    /\ METADATA_SIZE \in Nat \ {0} /\ NUM_METADATA_BLKS \in Nat
    /\ Lens \subseteq Nat \ {0}
    /\ ReadFails \in BOOLEAN
    /\ \A m \in Messages : MsgLen[m] <= BLOCK_SIZE - METADATA_SIZE

VARIABLES
    sess,   \* file and local variables of each session
    todo,   \* history: messages listed when the session (re)started, still listed, not delivered
    gone    \* history: timestamps of the messages unlinked since then

sessVars == <<sess, todo, gone>>
readVars == <<vars, sessVars>>

file_sz == NumBlocks * BLOCK_SIZE

\* The size check of the device guards the superblock and inode blocks again.
Beyond(off) == off + NUM_METADATA_BLKS * BLOCK_SIZE

Closed == [pc |-> "closed", f_pos |-> 0, next_ts |-> 0, pos |-> 0, offset |-> 0,
           len |-> 0, device_blk |-> 0, ret |-> 0, part |-> Blank]

Fresh == [Closed EXCEPT !.pc = "idle"]

\* What stays in the session after a read that returns with offset p and timestamp t.
Keep(p, t) == [Fresh EXCEPT !.f_pos = p, !.next_ts = t]

SessInit ==
    /\ Init
    /\ sess = [s \in Sessions |-> Closed]
    /\ todo = [s \in Sessions |-> {}]
    /\ gone = [s \in Sessions |-> {}]

Restart(s) ==
    /\ sess' = [sess EXCEPT ![s] = Fresh]
    /\ todo' = [todo EXCEPT ![s] = Linked]
    /\ gone' = [gone EXCEPT ![s] = {}]
    /\ UNCHANGED vars

Open(s) == sess[s].pc = "closed" /\ Restart(s)

\* Only SEEK_SET to 0 is accepted; it puts the session back to its open state.
Llseek(s) == sess[s].pc = "idle" /\ Restart(s)

Release(s) ==
    /\ sess[s].pc = "idle"
    /\ sess' = [sess EXCEPT ![s] = Closed]
    /\ todo' = [todo EXCEPT ![s] = {}]
    /\ gone' = [gone EXCEPT ![s] = {}]
    /\ UNCHANGED vars
-----------------------------------------------------------------------------
(* bldms_read *)

\* The boundary check answers 0, end of file; the session does not change.
ReadEof(s) ==
    /\ sess[s].pc = "idle"
    /\ Beyond(sess[s].f_pos) >= file_sz
    /\ UNCHANGED readVars

\* Clip the request, skip the block's metadata, enter the critical section.
ReadEnter(s) ==
    /\ sess[s].pc = "idle"
    /\ Beyond(sess[s].f_pos) < file_sz
    /\ rcu_read_lock(s)
    /\ \E l \in Lens :
        LET off == sess[s].f_pos
            len == IF Beyond(off) + l > file_sz THEN file_sz - off ELSE l
            inblk == off % BLOCK_SIZE
            offset == IF inblk < METADATA_SIZE THEN METADATA_SIZE ELSE inblk
            pos == off + (offset - inblk)
        IN  sess' = [sess EXCEPT ![s].pc = "scan", ![s].pos = pos, ![s].offset = offset,
                        ![s].len = IF offset + len > BLOCK_SIZE THEN BLOCK_SIZE - offset ELSE len,
                        ![s].device_blk = pos \div BLOCK_SIZE]
    /\ UNCHANGED <<valid_blk_list, elem, stale_next, heap, waiting, removed_since,
                   devVars, callVars, todo, gone>>

Scanning(s) == sess[s].pc = "scan" /\ cursor[s] # HEAD
At(s) == elem[cursor[s]]

\* Mutant: the scan never stops at a later timestamp.
ReadHopPastLater(s) ==
    /\ Scanning(s)
    /\ At(s).ndx # sess[s].device_blk
    /\ rcu_advance(s)
    /\ UNCHANGED <<valid_blk_list, elem, stale_next, heap, waiting, removed_since,
                   devVars, callVars, sessVars>>

ReadHop(s) ==
    /\ Scanning(s)
    /\ At(s).ndx # sess[s].device_blk
    /\ At(s).nsec <= sess[s].next_ts
    /\ rcu_advance(s)
    /\ UNCHANGED <<valid_blk_list, elem, stale_next, heap, waiting, removed_since,
                   devVars, callVars, sessVars>>

\* The expected block is listed.
ReadMatch(s) ==
    /\ Scanning(s)
    /\ At(s).ndx = sess[s].device_blk
    /\ sess' = [sess EXCEPT ![s].pc = "found"]
    /\ UNCHANGED <<vars, todo, gone>>

\* Mutant: the offset inside the block is kept from the expected block.
ReadLaterSameOffset(s) ==
    /\ Scanning(s)
    /\ At(s).ndx # sess[s].device_blk
    /\ At(s).nsec > sess[s].next_ts
    /\ sess' = [sess EXCEPT ![s].pc = "found", ![s].device_blk = At(s).ndx,
                    ![s].pos = At(s).ndx * BLOCK_SIZE + METADATA_SIZE]
    /\ UNCHANGED <<vars, todo, gone>>

\* The expected block is gone: take the first message with a later timestamp.
ReadLater(s) ==
    /\ Scanning(s)
    /\ At(s).ndx # sess[s].device_blk
    /\ At(s).nsec > sess[s].next_ts
    /\ sess' = [sess EXCEPT ![s].pc = "found", ![s].device_blk = At(s).ndx,
                    ![s].pos = At(s).ndx * BLOCK_SIZE + METADATA_SIZE,
                    ![s].offset = METADATA_SIZE,
                    ![s].len = IF At(s).valid_bytes < @ THEN At(s).valid_bytes ELSE @]
    /\ UNCHANGED <<vars, todo, gone>>

\* rcu_read_unlock and return: the VFS stores p as f_pos.
ReadLeave(s, p, t) ==
    /\ rcu_read_unlock(s)
    /\ sess' = [sess EXCEPT ![s] = Keep(p, t)]
    /\ UNCHANGED <<valid_blk_list, elem, stale_next, heap, devVars, callVars, gone>>

\* No message left.
ReadNone(s) ==
    /\ sess[s].pc = "scan" /\ cursor[s] = HEAD
    /\ ReadLeave(s, file_sz, sess[s].next_ts)
    /\ UNCHANGED todo

\* Bytes of the current message behind the session's offset.
Rest(s) == At(s).valid_bytes - (sess[s].offset - METADATA_SIZE)

\* The offset lies behind the message's end: nothing is read and ret, never
\* assigned, holds whatever is on the stack: an error, end of file or a count.
ReadNothing(s) ==
    /\ sess[s].pc = "found"
    /\ Rest(s) < 0
    /\ \E garbage \in -1..1 : sess' = [sess EXCEPT ![s].pc = "next", ![s].ret = garbage]
    /\ UNCHANGED <<vars, todo, gone>>

\* sb_bread fails: -EIO.
ReadIoError(s) ==
    /\ ReadFails
    /\ sess[s].pc = "found" /\ Rest(s) >= 0
    /\ ReadLeave(s, sess[s].f_pos, sess[s].next_ts)
    /\ UNCHANGED todo

ClippedLen(s) == IF sess[s].len > Rest(s) THEN Rest(s) ELSE sess[s].len

\* Part of the message remains: only the offset moves on.  `part' records whose
\* bytes the next read is meant to continue.
ReadPart(s) ==
    /\ sess[s].pc = "found" /\ Rest(s) >= 0
    /\ \E not_copied \in 0..ClippedLen(s) :
        LET c == ClippedLen(s) - not_copied
            end == sess[s].offset - METADATA_SIZE + c
        IN  /\ not_copied # 0 \/ c < Rest(s)
            /\ sess' = [sess EXCEPT ![s] =
                   [Keep(sess[s].pos + c, sess[s].next_ts) EXCEPT
                        !.part = IF end > 0 THEN buffer[sess[s].device_blk].data[end] ELSE Blank]]
    /\ rcu_read_unlock(s)
    /\ UNCHANGED <<valid_blk_list, elem, stale_next, heap, devVars, callVars, todo, gone>>

\* The message has been delivered up to its end.
ReadWhole(s) ==
    /\ sess[s].pc = "found" /\ Rest(s) >= 0
    /\ ClippedLen(s) = Rest(s)
    /\ sess' = [sess EXCEPT ![s].pc = "next", ![s].ret = Rest(s)]
    /\ todo' = [todo EXCEPT ![s] = @ \ {cursor[s]}]
    /\ UNCHANGED <<vars, gone>>

\* Mutant: the offset counts the superblock and the inode block.
ReadNextDeviceOffset(s) ==
    /\ sess[s].pc = "next"
    /\ \E n \in Nodes :
        /\ IsNext(cursor[s], n)
        /\ ReadLeave(s, (elem[n].ndx + NUM_METADATA_BLKS) * BLOCK_SIZE + METADATA_SIZE,
                     elem[n].nsec)
    /\ UNCHANGED todo

\* set_next_blk: expect the successor of the element just read.  The VFS drops the
\* new offset when the value returned is negative.
ReadNext(s) ==
    /\ sess[s].pc = "next"
    /\ \E n \in Nodes :
        /\ IsNext(cursor[s], n)
        /\ ReadLeave(s, IF sess[s].ret < 0 THEN sess[s].f_pos
                        ELSE elem[n].ndx * BLOCK_SIZE + METADATA_SIZE, elem[n].nsec)
    /\ UNCHANGED todo

\* end_of_msgs: it was the last element.
ReadLast(s) ==
    /\ sess[s].pc = "next"
    /\ IsNext(cursor[s], HEAD)
    /\ ReadLeave(s, file_sz, sess[s].next_ts)
    /\ UNCHANGED todo

\* kzalloc of the new timestamp fails: -ENOMEM after the message was copied.
ReadNoMemory(s) ==
    /\ ReadFails
    /\ sess[s].pc = "next"
    /\ ~IsNext(cursor[s], HEAD)
    /\ ReadLeave(s, sess[s].f_pos, sess[s].next_ts)
    /\ UNCHANGED todo
-----------------------------------------------------------------------------
SessNext(s) ==
    \/ Open(s) \/ Llseek(s) \/ Release(s)
    \/ ReadEof(s) \/ ReadEnter(s) \/ ReadHop(s) \/ ReadMatch(s) \/ ReadLater(s) \/ ReadNone(s)
    \/ ReadNothing(s) \/ ReadIoError(s) \/ ReadPart(s) \/ ReadWhole(s)
    \/ ReadNext(s) \/ ReadLast(s) \/ ReadNoMemory(s)

\* A step of a system call, with the bookkeeping of the history variables.
CallNext ==
    /\ Next
    /\ UNCHANGED sess
    /\ todo' = [s \in Sessions |-> todo[s] \cap Linked']
    /\ gone' = [s \in Sessions |-> IF sess[s].pc = "closed" THEN {}
                   ELSE gone[s] \cup {elem[n].nsec : n \in Linked \ Linked'}]

ReadSessionNext == CallNext \/ \E s \in Sessions : SessNext(s)

ReadSessionSpec == SessInit /\ [][ReadSessionNext]_readVars
-----------------------------------------------------------------------------
\* Types of the session state.
SessTypeOK ==
    /\ TypeOK
    /\ sess \in [Sessions -> [pc : {"closed", "idle", "scan", "found", "next"},
           f_pos : 0..file_sz, next_ts : Int, pos : 0..file_sz, offset : 0..(BLOCK_SIZE - 1),
           len : Nat, device_blk : Blocks, ret : Int, part : Cell]]
    /\ todo \in [Sessions -> SUBSET Nodes]
    /\ gone \in [Sessions -> SUBSET Int]

\* REQUIREMENTS.md:21, "a read operation should only return data related to messages not
\* invalidated before the access": the element a read settles on is listed, or was
\* unlinked after this very read entered its critical section, and is not freed.
NoStaleDelivery ==
    \A s \in Sessions : sess[s].pc \in {"found", "next"} =>
        /\ cursor[s] \in Linked \cup removed_since[s]
        /\ cursor[s] \notin heap

\* The clipping of the length (file_ops.c:65-83, 110, 131-134) never lets copy_to_user leave the
\* block or run past the message's last byte.
CopyWithinMessage ==
    \A s \in Sessions : sess[s].pc = "found" /\ Rest(s) >= 0 =>
        /\ sess[s].offset + ClippedLen(s) <= BLOCK_SIZE
        /\ sess[s].pos = sess[s].device_blk * BLOCK_SIZE + sess[s].offset
        /\ At(s).ndx = sess[s].device_blk

\* The session timestamp does its job (README.md:186): when a read decides that there is no
\* further message, every message that was listed when the session started and was
\* not invalidated has been delivered, except one that shares its timestamp with an
\* invalidated one.  (As long as ReadNothing does not happen, that is, as long as no block is
\* reused for a message that ends before the session's offset: the uninitialised value it
\* returns can be an error, and then the VFS keeps the old offset with the new timestamp.)
EndMeansAllDelivered ==
    \A s \in Sessions :
        \/ sess[s].pc = "scan" /\ cursor[s] = HEAD
        \/ sess[s].pc = "next" /\ IsNext(cursor[s], HEAD)
        => \A n \in todo[s] : elem[n].nsec \in gone[s]
-----------------------------------------------------------------------------
(* What the documentation says of read and the code does not do *)

\* README.md:192, the offset is at the end of the file "because it means that all the valid
\* messages have been read": a session that is answered 0 has nothing left to deliver.
EofMeansAllRead ==
    \A s \in Sessions : sess[s].pc = "idle" /\ Beyond(sess[s].f_pos) >= file_sz => todo[s] = {}

\* README.md:186, the session's timestamp "allows to know if such message has been invalidated or
\* not": when a read continues a partly read message with a listed block, the bytes that
\* follow belong to that message.
NoSplice ==
    \A s \in Sessions :
        sess[s].pc = "found" /\ sess[s].offset > METADATA_SIZE /\ Rest(s) > 0 /\ cursor[s] \in Linked =>
        buffer[sess[s].device_blk].data[sess[s].offset - METADATA_SIZE + 1] = sess[s].part
=============================================================================
