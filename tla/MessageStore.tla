---------------------------- MODULE MessageStore ----------------------------
(***************************************************************************)
(* What put_data and invalidate_data promise, without threads, lists or    *)
(* copies: the device is a map from blocks to messages; a put stores one   *)
(* whole message in the first free block behind the last written one, an   *)
(* invalidation removes one message, and nothing else ever happens to a    *)
(* stored message.  Syscalls implements it.                                *)
(***************************************************************************)
EXTENDS Integers

CONSTANTS NumBlocks, Messages, MsgLen, Timestamps, Empty

ASSUME StoreAssumption == NumBlocks \in Nat \ {0}

VARIABLES store, last

storeVars == <<store, last>>

Slots == 0..(NumBlocks - 1)

Stored == [msg : Messages, nsec : Timestamps, bytes : Nat]

StoreInit ==
    /\ store = [b \in Slots |-> Empty]
    /\ last = NumBlocks - 1

After(i) == (last + i) % NumBlocks

\* Mutant: the put may go to any free block.
PutAnywhere == \E i \in 1..NumBlocks, m \in Messages, t \in Timestamps :
    /\ store[After(i)] = Empty
    /\ store' = [store EXCEPT ![After(i)] = [msg |-> m, nsec |-> t, bytes |-> MsgLen[m]]]
    /\ last' = After(i)

\* Mutant: the index of the written block does not wrap around.
PutNoWrap == \E i \in 1..NumBlocks, m \in Messages, t \in Timestamps :
    /\ store[After(i)] = Empty
    /\ \A j \in 1..(i - 1) : store[After(j)] # Empty
    /\ store' = [store EXCEPT ![After(i)] = [msg |-> m, nsec |-> t, bytes |-> MsgLen[m]]]
    /\ last' = last + i

\* put_data: all or nothing, in circular order.
Put == \E i \in 1..NumBlocks, m \in Messages, t \in Timestamps :
    /\ store[After(i)] = Empty
    /\ \A j \in 1..(i - 1) : store[After(j)] # Empty
    /\ store' = [store EXCEPT ![After(i)] = [msg |-> m, nsec |-> t, bytes |-> MsgLen[m]]]
    /\ last' = After(i)

\* invalidate_data: exactly one message disappears.
Invalidate == \E b \in Slots :
    /\ store[b] # Empty
    /\ store' = [store EXCEPT ![b] = Empty]
    /\ UNCHANGED last

StoreNext == Put \/ Invalidate

StoreSpec == StoreInit /\ [][StoreNext]_storeVars
=============================================================================
