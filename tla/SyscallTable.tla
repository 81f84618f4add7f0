---------------------------- MODULE SyscallTable ----------------------------
(***************************************************************************)
(* The entries of the system call table: discovery by the USCTM module     *)
(* (src/usctm/usctm.c), their hand-over as parameters of insmod            *)
(* (src/Makefile), and installation and removal of the three calls when    *)
(* the BLDMS module is loaded and unloaded (src/syscalls.c, src/bldms.c,   *)
(* src/lib/usctm.c).                                                       *)
(*                                                                         *)
(* An entry holds what it points to: "ni" (sys_ni_syscall), "used" (a call *)
(* of the kernel), one of Calls, or "table" (the table itself).            *)
(***************************************************************************)
EXTENDS Integers, Sequences, FiniteSets

CONSTANTS
    Original,       \* the table as the kernel set it up
    Pattern,        \* entries by which the finder recognises the table, FIRST_NI_SYSCALL and so on
    MAX_FREE,       \* free entries USCTM exports at most
    MAX_ACQUIRES,   \* entries get_entries gives away at most
    NiParam         \* what insmod passes as sys_ni_syscall_address

\* In the order in which register_syscalls installs them.
Calls == <<"put_data", "get_data", "invalidate_data">>
HACKED_ENTRIES == 3

Contents == {"ni", "used", "table"} \cup {Calls[i] : i \in 1..HACKED_ENTRIES}

FIRST_NI_SYSCALL == CHOOSE e \in Pattern : \A f \in Pattern : e <= f

\* The finder works on the original table.
ASSUME TableAssumption ==
    /\ Original \in Seq({"ni", "used"})
    /\ Pattern \subseteq 1..Len(Original) /\ Cardinality(Pattern) > HACKED_ENTRIES
    /\ \A e \in 1..Len(Original) :
          /\ e \in Pattern => Original[e] = "ni"
          /\ e < FIRST_NI_SYSCALL => Original[e] = "used"
    /\ MAX_FREE \in Nat /\ MAX_ACQUIRES \in Nat
    /\ NiParam \in Contents

VARIABLES
    table,      \* the system call table
    usctm,      \* the USCTM module: whether it is loaded, its free_entries
    bldms       \* the BLDMS module: whether it is loaded, its restore_entries (also those
                \* that an insmod which failed has left in use)

tableVars == <<table, usctm, bldms>>

NotLoaded == [loaded |-> FALSE, entries |-> <<>>]

TableInit == table = Original /\ usctm = NotLoaded /\ bldms = NotLoaded
-----------------------------------------------------------------------------
(* The USCTM module *)

\* Nothing between the table's first entry and the pattern has the same address.
good_area == \A e \in 2..(FIRST_NI_SYSCALL - 1) : table[e] # table[FIRST_NI_SYSCALL]

\* The page holds the table if all entries of the pattern have the same address.
validate_page == (\A e \in Pattern : table[e] = table[FIRST_NI_SYSCALL]) /\ good_area

hacked_ni_syscall == table[FIRST_NI_SYSCALL]

\* The first MAX_FREE entries that hold the address found in the pattern.
FreeEntries ==
    LET free == SelectSeq([e \in 1..Len(table) |-> e], LAMBDA e : table[e] = hacked_ni_syscall)
    IN  IF Len(free) > MAX_FREE THEN SubSeq(free, 1, MAX_FREE) ELSE free

\* init_module, which fails when the finder does not find the table.
UsctmInit ==
    /\ ~usctm.loaded
    /\ validate_page
    /\ usctm' = [loaded |-> TRUE, entries |-> FreeEntries]
    /\ UNCHANGED <<table, bldms>>

UsctmExit ==
    /\ usctm.loaded
    /\ usctm' = NotLoaded
    /\ UNCHANGED <<table, bldms>>
-----------------------------------------------------------------------------
(* The BLDMS module *)

\* get_entries of the library, for a module just loaded: all of its restore array is free.
CanAcquire(n) == n <= Len(usctm.entries) /\ n <= MAX_ACQUIRES
get_entries(n) == SubSeq(usctm.entries, 1, n)

\* The table t after the i-th of the entries has got the i-th of the values.
WithEntries(t, entries, values) ==
    [e \in 1..Len(t) |->
        IF \E i \in 1..Len(entries) : entries[i] = e
        THEN values[CHOOSE i \in 1..Len(entries) : entries[i] = e]
        ELSE t[e]]

\* insmod with the parameters that USCTM exports; it fails when entries are missing.
register_syscalls(loaded) ==
    /\ ~bldms.loaded
    /\ usctm.loaded /\ CanAcquire(HACKED_ENTRIES)
    /\ table' = WithEntries(table, get_entries(HACKED_ENTRIES), Calls)
    /\ bldms' = [loaded |-> loaded, entries |-> get_entries(HACKED_ENTRIES)]
    /\ UNCHANGED usctm

BldmsInit == register_syscalls(TRUE)

\* register_filesystem fails, and insmod with it, but the calls stay in the table.
BldmsInitFails == register_syscalls(FALSE)


\* bldms_exit: unregister_syscalls writes the address of sys_ni_syscall it was told.
BldmsExit ==
    /\ bldms.loaded
    /\ table' = WithEntries(table, bldms.entries, [i \in 1..HACKED_ENTRIES |-> NiParam])
    /\ bldms' = NotLoaded
    /\ UNCHANGED usctm
-----------------------------------------------------------------------------
=============================================================================
