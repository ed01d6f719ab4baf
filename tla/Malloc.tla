------------------------------- MODULE Malloc --------------------------------
(***************************************************************************)
(* malloc/alloc.c: a heap grown with sbrk, cut into blocks.  Every block   *)
(* begins with a header; all blocks are in a list in address order (next,  *)
(* prev) and the free ones in a second list (next_free, prev_free), oldest *)
(* first.  An address is an offset into the heap; the header of a merged   *)
(* block is gone.  Nobody else calls sbrk, so the heap is contiguous.      *)
(*                                                                         *)
(* Sizes stay far below 2^64, and a pointer is freed once.  What a block   *)
(* holds is not modelled.                                                  *)
(***************************************************************************)
EXTENDS Integers, FiniteSets, FiniteSetsExt

CONSTANTS Alignment, StructSize,   \* ALIGNMENT, STRUCT_SIZE
          InitialCapacity,         \* capacity at the start
          Sizes,                   \* the sizes asked for
          HeapLimit,               \* sbrk fails beyond it
          MaxLive,                 \* a bound: blocks the program holds at a time
          Null

VARIABLES heap,      \* the headers, head, end, free_head and free_end
          brk,       \* the program break
          capacity,
          live       \* live[p]: the size the program asked for at p
vars == <<heap, brk, capacity, live>>

Init ==
    /\ heap = [at |-> <<>>, head |-> Null, end |-> Null, freeHead |-> Null, freeEnd |-> Null]
    /\ brk = 0 /\ capacity = InitialCapacity
    /\ live = <<>>

-----------------------------------------------------------------------------
(* The helpers, as functions from heap to heap. *)

ALIGN(size) == ((size + Alignment - 1) \div Alignment) * Alignment
Payload(p) == p + StructSize

RemoveFromList(h, p) ==
    LET b == h.at[p]
        taken == [h.at EXCEPT ![p] = [b EXCEPT !.free = 1, !.prevFree = Null, !.nextFree = Null]]
        bridged == [q \in DOMAIN taken |->
                      [taken[q] EXCEPT !.nextFree = IF p # h.freeHead /\ q = b.prevFree THEN b.nextFree ELSE @,
                                       !.prevFree = IF p # h.freeEnd /\ q = b.nextFree THEN b.prevFree ELSE @]]
    IN  [h EXCEPT !.at = bridged,
                  !.freeHead = IF p = @ THEN b.nextFree ELSE @,
                  !.freeEnd = IF p = @ THEN b.prevFree ELSE @]

AddToList(h, p) ==
    IF h.freeHead = Null
    THEN [h EXCEPT !.at[p] = [@ EXCEPT !.free = 0, !.prevFree = Null, !.nextFree = Null],
                   !.freeHead = p, !.freeEnd = p]
    ELSE [h EXCEPT !.at[h.freeEnd].nextFree = p,
                   !.at[p] = [@ EXCEPT !.free = 0, !.prevFree = h.freeEnd, !.nextFree = Null],
                   !.freeEnd = p]

With(f, p, v) == [q \in DOMAIN f \cup {p} |-> IF q = p THEN v ELSE f[q]]
Without(f, p) == [q \in DOMAIN f \ {p} |-> f[q]]

Split(h, p, size) ==
    LET b == h.at[p]
        rest == Payload(p) + size
        cut == [h.at EXCEPT ![p].next = rest, ![p].size = size]
        joined == IF p = h.end THEN cut ELSE [cut EXCEPT ![b.next].prev = rest]
    IN  AddToList([h EXCEPT !.at = With(joined, rest, [size |-> b.size - size - StructSize, free |-> 0,
                                                       prev |-> p, next |-> b.next,
                                                       prevFree |-> Null, nextFree |-> Null]),
                            !.end = IF p = @ THEN rest ELSE @], rest)

Coalesce_KeepsBackLink(h, p, q) ==
    LET b == h.at[q]
        grown == [h.at EXCEPT ![p].size = @ + b.size + StructSize, ![p].free = 0, ![p].next = b.next]
    IN  [h EXCEPT !.at = Without(grown, q), !.end = IF q = @ THEN p ELSE @]

Coalesce(h, p, q) ==
    LET b == h.at[q]
        grown == [h.at EXCEPT ![p].size = @ + b.size + StructSize, ![p].free = 0, ![p].next = b.next]
        joined == IF q = h.end THEN grown ELSE [grown EXCEPT ![b.next].prev = p]
    IN  [h EXCEPT !.at = Without(joined, q), !.end = IF q = @ THEN p ELSE @]

\* the free list from its head, ended by Null
FreeWalk(h) ==
    LET walk[n \in 0..Cardinality(DOMAIN h.at)] ==
            IF n = 0 THEN h.freeHead
            ELSE IF walk[n - 1] = Null THEN Null ELSE h.at[walk[n - 1]].nextFree
    IN  walk

FirstFit(h, size) ==
    LET walk == FreeWalk(h)
        fits == {n \in DOMAIN walk : walk[n] # Null /\ h.at[walk[n]].free = 0 /\ h.at[walk[n]].size >= size}
    IN  IF fits = {} THEN Null ELSE walk[Min(fits)]

Spare(b, size) == b.size - size > 2 * StructSize
Take(h, p, size) ==
    RemoveFromList(IF Spare(h.at[p], size) THEN Split([h EXCEPT !.at[p].free = 1], p, size) ELSE h, p)

-----------------------------------------------------------------------------
(* malloc, free and realloc as functions of the whole state; got is the    *)
(* header of the block returned, or Null.                                  *)

Now == [heap |-> heap, brk |-> brk, capacity |-> capacity, got |-> Null]
Block(size, prev) == [size |-> size, free |-> 0, prev |-> prev, next |-> Null, prevFree |-> Null, nextFree |-> Null]

\* the first call makes the heap; capacity grows even when sbrk fails
Begin(s, size) ==
    LET c == ALIGN(size + s.capacity - 1)
    IN  IF s.heap.head # Null THEN s
        ELSE IF s.brk + c > HeapLimit THEN [s EXCEPT !.capacity = c]
        ELSE [s EXCEPT !.capacity = c, !.brk = @ + c,
                       !.heap = [at |-> With(<<>>, s.brk, Block(c - StructSize, Null)),
                                 head |-> s.brk, end |-> s.brk, freeHead |-> s.brk, freeEnd |-> s.brk]]

Resize(s, size) ==
    LET total == ALIGN(size + StructSize + s.capacity - 1)
        end == s.heap.end
        linked == With([s.heap.at EXCEPT ![end].next = s.brk], s.brk, Block(total - StructSize, end))
    IN  IF s.brk + total > HeapLimit THEN s
        ELSE [s EXCEPT !.capacity = @ + total, !.brk = @ + total,
                       !.heap = [AddToList([s.heap EXCEPT !.at = linked], s.brk) EXCEPT !.end = s.brk]]

Allocated(s0, asked) ==
    LET size == ALIGN(asked)
        s1 == Begin(s0, size)
        s2 == IF s1.heap.head # Null /\ FirstFit(s1.heap, size) = Null THEN Resize(s1, size) ELSE s1
        p == FirstFit(s2.heap, size)
    IN  IF p = Null THEN s2 ELSE [s2 EXCEPT !.heap = Take(@, p, size), !.got = p]

Freed(h0, p) ==
    LET h == [h0 EXCEPT !.at[p].free = 0]
        prev == h.at[p].prev
        next == h.at[p].next
        free1 == prev # Null /\ h.at[prev].free = 0
        free2 == next # Null /\ h.at[next].free = 0
        Merge(g, a, b) == AddToList(Coalesce(RemoveFromList(g, a), a, b), a)
    IN  CASE ~free1 /\ ~free2 -> AddToList(h, p)
          [] ~free1 /\ free2 -> AddToList(Coalesce(RemoveFromList(h, next), p, next), p)
          [] free1 /\ ~free2 -> Merge(h, prev, p)
          [] free1 /\ free2 -> Merge(RemoveFromList(Merge(h, prev, p), next), prev, next)

\* size - STRUCT_SIZE wraps below 0, and then the block is never grown in place
Reallocated(s, p, size) ==
    LET b == s.heap.at[p]
        next == b.next
        tooSmall == size < StructSize \/ b.size + s.heap.at[next].size < size - StructSize
        moved == Allocated(s, size)
        taken == RemoveFromList(s.heap, next)
        absorbed == [Coalesce(taken, p, next) EXCEPT !.at[p].free = b.free]
    IN  IF b.size >= size THEN [s EXCEPT !.got = p]
        ELSE IF next = Null \/ s.heap.at[next].free = 1 \/ tooSmall
        THEN IF moved.got = Null THEN moved ELSE [moved EXCEPT !.heap = Freed(@, p)]
        ELSE [s EXCEPT !.heap = IF Spare(absorbed.at[p], size) THEN Split(absorbed, p, size) ELSE absorbed,
                       !.got = p]

-----------------------------------------------------------------------------
(* The program's calls. *)

Becomes(s) == heap' = s.heap /\ brk' = s.brk /\ capacity' = s.capacity

CallMalloc(size) ==
    LET s == Allocated(Now, size)
    IN  /\ Cardinality(DOMAIN live) < MaxLive
        /\ Becomes(s)
        /\ live' = IF s.got = Null THEN live ELSE With(live, s.got, size)

CallFree(p) ==
    /\ heap' = Freed(heap, p)
    /\ live' = Without(live, p)
    /\ UNCHANGED <<brk, capacity>>

CallRealloc(p, size) ==
    LET s == Reallocated(Now, p, size)
    IN  /\ Becomes(s)
        /\ live' = IF s.got = Null THEN live ELSE With(Without(live, p), s.got, size)

Next ==
    \/ \E size \in Sizes : CallMalloc(size)
    \/ \E p \in DOMAIN live : CallFree(p) \/ \E size \in Sizes : CallRealloc(p, size)
Spec == Init /\ [][Next]_vars

-----------------------------------------------------------------------------
(* Properties. *)

\* The blocks tile the heap: from head on, each begins where the one before it
\* ends and knows it as prev, and the last, end, reaches the program break
\* (alloc.c:274-320).
BlocksTileHeap ==
    heap.head # Null =>
        /\ heap.head = 0 /\ heap.at[0].prev = Null
        /\ \A p \in DOMAIN heap.at :
              LET after == Payload(p) + heap.at[p].size
              IN  /\ heap.at[p].size >= 0
                  /\ IF p = heap.end THEN heap.at[p].next = Null /\ after = brk
                     ELSE /\ heap.at[p].next = after
                          /\ after \in DOMAIN heap.at /\ heap.at[after].prev = p

\* Every block is either held by the program, and then as long as the program
\* asked for through splits, merges and reallocations in place, or on the free
\* list, once, with links that agree in both directions (alloc.c:230-360).
EveryBlockIsAccounted ==
    LET walk == FreeWalk(heap)
        onList == {n \in DOMAIN walk : walk[n] # Null}
    IN  /\ {walk[n] : n \in onList} = {p \in DOMAIN heap.at : heap.at[p].free = 0}
        /\ Cardinality(onList) = Cardinality({walk[n] : n \in onList})
        /\ \A n \in onList : heap.at[walk[n]].prevFree = IF n = 0 THEN Null ELSE walk[n - 1]
        /\ \A n \in onList : walk[n] = heap.freeEnd <=> heap.at[walk[n]].nextFree = Null
        /\ DOMAIN live = {p \in DOMAIN heap.at : heap.at[p].free = 1}
        /\ \A p \in DOMAIN live : heap.at[p].size >= live[p]
==============================================================================
