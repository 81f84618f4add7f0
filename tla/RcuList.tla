------------------------------ MODULE RcuList ------------------------------
(***************************************************************************)
(* The RCU-protected list of valid blocks (src/rcu.c, src/include/rcu.h)   *)
(* and the part of the kernel's RCU and list API that the module uses.     *)
(*                                                                         *)
(* The module defines state and action fragments; the system calls         *)
(* (Syscalls) and the read sessions (ReadSession) are built from them.     *)
(* A list element is an address of Nodes.  Elements that list_del_rcu      *)
(* unlinked keep their next pointer, because a reader may still stand on   *)
(* them; an element goes back to `heap' only when it is kfree'd.           *)
(***************************************************************************)
EXTENDS Integers, Sequences, FiniteSets

CONSTANTS
    Nodes,      \* addresses kzalloc may return for an rcu_elem
    Readers,    \* threads that run RCU read-side critical sections
    Updaters,   \* threads that wait for grace periods
    HEAD,       \* the list_head valid_blk_list itself: both ends of a scan
    NULL        \* no address

ASSUME HeadAssumption == HEAD \notin Nodes /\ NULL \notin Nodes /\ HEAD # NULL

VARIABLES
    valid_blk_list,  \* the linked elements, in list order
    elem,            \* the fields of each rcu_elem
    stale_next,      \* next pointer left in an element by list_del_rcu
    heap,            \* addresses that are free
    cursor,          \* where a reader stands; NULL outside a critical section
    waiting,         \* readers an updater's synchronize_rcu still waits for
    removed_since    \* history: elements unlinked since the reader's rcu_read_lock

rcuVars == <<valid_blk_list, elem, stale_next, heap, cursor, waiting, removed_since>>

\* struct _rcu_elem without its list linkage, as kzalloc returns it.
ZeroElem == [ndx |-> 0, nsec |-> 0, valid_bytes |-> 0]

Linked == {valid_blk_list[k] : k \in 1..Len(valid_blk_list)}

InCS == {r \in Readers : cursor[r] # NULL}

\* What list_add_rcu makes of a list when it links e as the i-th element, and what
\* list_del_rcu makes of it when it unlinks the i-th.
ListAdd(s, i, e) == SubSeq(s, 1, i - 1) \o <<e>> \o SubSeq(s, i, Len(s))
ListDel(s, i) == SubSeq(s, 1, i - 1) \o SubSeq(s, i + 1, Len(s))

\* The element (or the list head) that the k-th element's next pointer holds.
NextAt(k) == IF k < Len(valid_blk_list) THEN valid_blk_list[k + 1] ELSE HEAD

\* node.next of an element a reader stands on (rcu_next_elem, list_for_each_entry_rcu).
IsNext(n, m) ==
    \/ \E k \in 1..Len(valid_blk_list) : valid_blk_list[k] = n /\ m = NextAt(k)
    \/ n \notin Linked /\ m = stale_next[n]

RcuInit ==
    /\ valid_blk_list = <<>>
    /\ elem = [n \in Nodes |-> ZeroElem]
    /\ stale_next = [n \in Nodes |-> NULL]
    /\ heap = Nodes
    /\ cursor = [r \in Readers |-> NULL]
    /\ waiting = [u \in Updaters |-> {}]
    /\ removed_since = [r \in Readers |-> {}]
-----------------------------------------------------------------------------
\* kzalloc(sizeof(rcu_elem)): any free address.
kzalloc(n) == n \in heap /\ heap' = heap \ {n}

\* kfree of an element: whatever it held is gone.
kfree(n) ==
    /\ heap' = heap \cup {n}
    /\ elem' = [elem EXCEPT ![n] = ZeroElem]
    /\ stale_next' = [stale_next EXCEPT ![n] = NULL]

\* The unordered insertion, list_add_tail_rcu.
add_valid_block_secure(el, ndx, valid_bytes, nsec) ==
    /\ elem' = [elem EXCEPT ![el] = [ndx |-> ndx, nsec |-> nsec, valid_bytes |-> valid_bytes]]
    /\ valid_blk_list' = Append(valid_blk_list, el)

\* The reverse scan stops at the last element with a smaller timestamp (position k,
\* 0 when there is none) and links el right behind it.
add_valid_block_in_order_secure(el, ndx, valid_bytes, nsec) ==
    /\ elem' = [elem EXCEPT ![el] = [ndx |-> ndx, nsec |-> nsec, valid_bytes |-> valid_bytes]]
    /\ \E k \in 0..Len(valid_blk_list) :
        /\ k > 0 => elem[valid_blk_list[k]].nsec < nsec
        /\ \A j \in (k + 1)..Len(valid_blk_list) : elem[valid_blk_list[j]].nsec >= nsec
        /\ valid_blk_list' = ListAdd(valid_blk_list, k + 1, el)

\* Unlinks the k-th element; readers that stand on it keep following its next pointer.
list_del_rcu(k) ==
    /\ valid_blk_list' = ListDel(valid_blk_list, k)
    /\ stale_next' = [stale_next EXCEPT ![valid_blk_list[k]] = NextAt(k)]
    /\ removed_since' = [r \in Readers |->
           removed_since[r] \cup (IF r \in InCS THEN {valid_blk_list[k]} ELSE {})]

\* rcu_read_lock followed by the fetch of the first element.
rcu_read_lock(r) ==
    /\ cursor[r] = NULL
    /\ cursor' = [cursor EXCEPT ![r] = NextAt(0)]

\* list_for_each_entry_rcu moves to the next element.
rcu_advance(r) == \E m \in Nodes \cup {HEAD} :
    /\ IsNext(cursor[r], m)
    /\ cursor' = [cursor EXCEPT ![r] = m]

\* The end of a critical section lets every grace period that waits for it go on.
rcu_read_unlock(r) ==
    /\ cursor' = [cursor EXCEPT ![r] = NULL]
    /\ waiting' = [u \in Updaters |-> waiting[u] \ {r}]
    /\ removed_since' = [removed_since EXCEPT ![r] = {}]

\* synchronize_rcu waits for the critical sections that are running when it is called.
synchronize_rcu_begin(u) == waiting' = [waiting EXCEPT ![u] = InCS]
synchronize_rcu_end(u) == waiting[u] = {}
-----------------------------------------------------------------------------
ElemType == [ndx : Nat, nsec : Int, valid_bytes : Nat]

\* Types of the list state; stale_next is an address, the list head or (never unlinked) NULL.
RcuTypeOK ==
    /\ valid_blk_list \in Seq(Nodes)
    /\ elem \in [Nodes -> ElemType]
    /\ stale_next \in [Nodes -> Nodes \cup {HEAD, NULL}]
    /\ heap \subseteq Nodes
    /\ cursor \in [Readers -> Nodes \cup {HEAD, NULL}]
    /\ waiting \in [Updaters -> SUBSET Readers]
    /\ removed_since \in [Readers -> SUBSET Nodes]

\* No element is linked twice.
Distinct ==
    \A j, k \in 1..Len(valid_blk_list) : valid_blk_list[j] = valid_blk_list[k] => j = k

\* add_valid_block_in_order_secure (rcu.c:75-98) keeps the list in timestamp order,
\* whatever the order in which puts that already took a timestamp get the lock.
ListSorted ==
    \A j, k \in 1..Len(valid_blk_list) :
        j < k => elem[valid_blk_list[j]].nsec <= elem[valid_blk_list[k]].nsec
=============================================================================
