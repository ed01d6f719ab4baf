---------------------------- MODULE MiniMemcheck -----------------------------
(***************************************************************************)
(* mini_memcheck/mini_memcheck.c: malloc, calloc, realloc and free that    *)
(* keep a list of the blocks in use and count what was requested, freed    *)
(* and freed in error.  Memory is counted in units of sizeof(meta_data); a *)
(* block is its meta_data, at its address, and the payload behind it.      *)
(***************************************************************************)
EXTENDS Integers, Sequences, FiniteSetsExt, Functions

CONSTANTS SizeofMetaData,  \* in bytes
          HeapSize, Sizes, \* in units
          MaxCalls         \* a bound

Addresses == 1..HeapSize

VARIABLES list,      \* head and what follows it: addresses, newest first
          size,      \* request_size of the blocks in list
          requested, freed, invalid,
          fate,      \* "fine"; "mixed": the blocks' sizes are confused; "died"
          held,      \* history: the payloads the program holds, with their sizes
          badFrees, calls  \* history
vars == <<list, size, requested, freed, invalid, fate, held, badFrees, calls>>

Init ==
    /\ list = <<>> /\ size = <<>>
    /\ requested = 0 /\ freed = 0 /\ invalid = 0
    /\ fate = "fine" /\ held = <<>> /\ badFrees = 0 /\ calls = 0

Put(f, k, x) == [i \in DOMAIN f \cup {k} |-> IF i = k THEN x ELSE f[i]]
Drop(f, k) == [i \in DOMAIN f \ {k} |-> f[i]]

\* the allocator below: any place that is free, or none
Fits(a, n, used) ==
    a + n <= HeapSize /\ \A b \in DOMAIN used : a + n < b \/ b + used[b] < a

Called == fate # "died" /\ calls < MaxCalls /\ calls' = calls + 1

Allocated(n) == \E a \in Addresses :
    /\ Fits(a, n, size)
    /\ list' = <<a>> \o list /\ size' = Put(size, a, n)
    /\ requested' = requested + n
    /\ held' = Put(held, a + 1, n)
    /\ UNCHANGED <<freed, invalid, fate, badFrees>>
Refused == UNCHANGED <<list, size, requested, freed, invalid, fate, held, badFrees>>
Dies == fate' = "died" /\ UNCHANGED <<list, size, requested, freed, invalid, held, badFrees>>

\* also mini_realloc of NULL
CallMalloc(n) == Called /\ (Allocated(n) \/ Refused)

\* without memory, NULL is given to memset
CallCalloc(n) == Called /\ (Allocated(n) \/ Dies)

\* list without the block at a, which is met first
Unlinked(a) ==
    LET n == Min({i \in DOMAIN list : list[i] = a})
    IN  SubSeq(list, 1, n - 1) \o SubSeq(list, n + 1, Len(list))

\* also mini_realloc to size 0.  An address that is not in the list is counted
\* and left alone.
CallFree(payload) ==
    LET start == payload - 1
        ours == start \in Range(list)
    IN  /\ Called
        /\ list' = (IF ours THEN Unlinked(start) ELSE list) /\ size' = Drop(size, start)
        /\ freed' = IF ours THEN freed + size[start] ELSE freed
        /\ invalid' = IF ours THEN invalid ELSE invalid + 1
        /\ held' = Drop(held, payload)
        /\ badFrees' = IF payload \in DOMAIN held THEN badFrees ELSE badFrees + 1
        /\ UNCHANGED <<requested, fate>>

\* `current + sizeof(meta_data)` is that many meta_datas on: the block with this
\* payload is never met, another may be, and without one the search runs off the
\* list.  A block that moves is freed twice; of one that stays the old size is
\* read after it was replaced, so that nothing is counted.
CallRealloc(payload, n) ==
    LET current == payload - SizeofMetaData
        InPlace == /\ Fits(current, n, Drop(size, current))
                   /\ size' = [size EXCEPT ![current] = n]
                   /\ held' = Put(Drop(held, payload), current + 1, n)
                   /\ fate' = "mixed"
                   /\ UNCHANGED <<list, requested, freed, invalid, badFrees>>
    IN  /\ Called
        /\ Dies \/ (current \in Range(list) /\ (Refused \/ InPlace))

Next ==
    \/ \E n \in Sizes : CallMalloc(n) \/ CallCalloc(n)
    \/ \E payload \in Addresses : CallFree(payload) \/ \E n \in Sizes : CallRealloc(payload, n)
Spec == Init /\ [][Next]_vars

-----------------------------------------------------------------------------
(* Properties. *)

\* The ledger is right: the list has the blocks the program holds, once each,
\* what was requested and not freed is what they hold, and the frees in error,
\* of addresses given out before or never, are counted, they and no others; the
\* sums are what print_leak_info asserts at exit (mini_memcheck.c:15-40, 93-124,
\* mini_hacks.c:389).
LedgerIsRight ==
    fate = "fine" =>
        /\ IsInjective(list) /\ Range(list) = DOMAIN size
        /\ held = [payload \in {a + 1 : a \in DOMAIN size} |-> size[payload - 1]]
        /\ requested - freed = MapThenSumSet(LAMBDA a : size[a], DOMAIN size)
        /\ invalid = badFrees
==============================================================================
