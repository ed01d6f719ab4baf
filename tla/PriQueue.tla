------------------------------ MODULE PriQueue -------------------------------
(***************************************************************************)
(* savvy_scheduler/libpriqueue/libpriqueue.c: the linked list of entries   *)
(* as the sequence of their values.                                        *)
(***************************************************************************)
EXTENDS Integers, Sequences, FiniteSetsExt

\* priqueue_offer, the comparer being a function of pairs: before the head if the new value is
\* less; else behind the first entry that is not greater than it and whose successor is, or the last
Offer(q, x, cmp) ==
    IF q = <<>> \/ cmp[<<x, Head(q)>>] < 0 THEN <<x>> \o q
    ELSE LET behind == {i \in 1..Len(q) :
                          i = Len(q) \/ (cmp[<<q[i], x>>] <= 0 /\ cmp[<<x, q[i + 1]>>] < 0)}
         IN  SubSeq(q, 1, Min(behind)) \o <<x>> \o SubSeq(q, Min(behind) + 1, Len(q))

\* priqueue_peek, and priqueue_poll without its result
Peek(q, none) == IF q = <<>> THEN none ELSE Head(q)
Polled(q) == IF q = <<>> THEN q ELSE Tail(q)
==============================================================================
