----------------------------- MODULE ParReduce -------------------------------
(***************************************************************************)
(* teaching_threads/par_reduce.c: a list reduced in slices, one thread to  *)
(* a slice, and the results reduced again.  The reducer here joins         *)
(* sequences, which is associative with <<>> as its neutral element and    *)
(* shows what was reduced, how often and in which order.  Neither the list *)
(* nor the number of threads is 0: main.c's validate_args refuses both.    *)
(***************************************************************************)
EXTENDS Integers, Sequences

CONSTANTS Lengths, ThreadCounts, Null

VARIABLES list, numThreads,
          main,          \* "start", "create", "join", "returned"
          created, out,
          result         \* result[i]: what thread i returned
vars == <<list, numThreads, main, created, out, result>>

Reduce(l) ==
    LET joined[n \in 0..Len(l)] == IF n = 0 THEN <<>> ELSE joined[n - 1] \o l[n]
    IN  joined[Len(l)]

Init ==
    /\ list \in {[k \in 1..len |-> <<k>>] : len \in Lengths}
    /\ numThreads \in ThreadCounts
    /\ main = "start" /\ created = 0 /\ out = <<>> /\ result = <<>>

LoopLen == Len(list) \div numThreads

\* edge cases: no more threads than elements; slices of one are not worth a thread
Start ==
    /\ main = "start"
    /\ numThreads' = IF numThreads > Len(list) THEN Len(list) ELSE numThreads
    /\ IF Len(list) \div numThreads' <= 1 THEN main' = "returned" /\ out' = <<Reduce(list)>>
       ELSE main' = "create" /\ UNCHANGED out
    /\ UNCHANGED <<list, created, result>>

Create ==
    /\ main = "create"
    /\ created' = created + 1
    /\ result' = Append(result, Null)
    /\ main' = IF created' = numThreads THEN "join" ELSE "create"
    /\ UNCHANGED <<list, numThreads, out>>

Slice_DropsRemainder(i) == SubSeq(list, LoopLen * (i - 1) + 1, LoopLen * i)

\* the last slice takes the remainder
Slice(i) == SubSeq(list, LoopLen * (i - 1) + 1, IF i = numThreads THEN Len(list) ELSE LoopLen * i)

StartRoutine(i) ==
    /\ i \in DOMAIN result /\ result[i] = Null
    /\ result' = [result EXCEPT ![i] = Reduce(Slice(i))]
    /\ UNCHANGED <<list, numThreads, main, created, out>>

Join ==
    /\ main = "join" /\ result[Len(out) + 1] # Null
    /\ LET joined == Append(out, result[Len(out) + 1])
       IN  IF Len(joined) = numThreads THEN main' = "returned" /\ out' = <<Reduce(joined)>>
           ELSE out' = joined /\ UNCHANGED main
    /\ UNCHANGED <<list, numThreads, created, result>>

Next == Start \/ Create \/ Join \/ \E i \in 1..numThreads : StartRoutine(i)
Spec == Init /\ [][Next]_vars /\ WF_vars(Next)

-----------------------------------------------------------------------------
(* Properties. *)

\* par_reduce returns what reduce returns, for every length and number of threads
\* (par_reduce.c:32-72, main.c's verify).
ParReduceIsReduce == main = "returned" => out = <<Reduce(list)>>

\* par_reduce returns: every thread it creates is joined, and they end
\* (par_reduce.c:47-71).
Ended == main = "returned"
==============================================================================
