------------------------------ MODULE Cracker2 -------------------------------
(***************************************************************************)
(* password_cracker/cracker2.c: all workers search one password at a time. *)
(* For each line the main thread gives every worker a share of the strings *)
(* through a queue of its own and meets the workers at a barrier; the      *)
(* first to find the password clears fail, and the others see that before  *)
(* their next hash.  crypt is one to one; times are left out.              *)
(***************************************************************************)
EXTENDS CrackerStrings, Functions

CONSTANTS NThreads, Inputs, Null, Freed

VARIABLES input, line,       \* line: how many lines have been read
          main, pushed,      \* pushed: how many queues have been served
          queues, worker,
          fail, password, hashCount,
          exp,               \* Null once it is freed
          tried              \* tried[t]: what t has hashed since the line was read
shared == <<fail, password, hashCount>>
vars == <<input, line, main, pushed, queues, worker, shared, exp, tried>>

Threads == 1..NThreads
NoTask == [hint |-> <<>>, count |-> 0]

Init ==
    /\ input \in Inputs /\ line = 0
    /\ main = "getline" /\ pushed = 0
    /\ queues = [t \in Threads |-> <<>>]
    /\ worker = [t \in Threads |-> [pc |-> "pull", task |-> NoTask, i |-> 0]]
    /\ fail = TRUE /\ password = Null /\ hashCount = 0
    /\ exp = Null
    /\ tried = [t \in Threads |-> {}]

-----------------------------------------------------------------------------
(* start *)

GetLine ==
    /\ main = "getline" /\ line < Len(input)
    /\ line' = line + 1 /\ main' = "push" /\ pushed' = 0
    /\ fail' = TRUE /\ hashCount' = 0 /\ exp' = input[line'].secret
    /\ tried' = [t \in Threads |-> {}]
    /\ UNCHANGED <<input, queues, worker, password>>

Task(hint, id) ==
    LET n == GetPrefixLength(hint)
        share == GetSubrange(Len(hint) - n, NThreads, id)
    IN  [hint |-> SetStringPosition(hint, n, share.start), count |-> share.count]

Push ==
    /\ main = "push" /\ pushed < NThreads
    /\ pushed' = pushed + 1
    /\ queues' = [queues EXCEPT ![pushed'] = Append(@, Task(input[line].hint, pushed'))]
    /\ UNCHANGED <<input, line, main, worker, shared, exp, tried>>

\* pthread_barrier_wait, by the last of the thread_count + 1
Barrier ==
    /\ main = "push" /\ pushed = NThreads
    /\ \A t \in Threads : worker[t].pc = "barrier"
    /\ main' = "summary"
    /\ worker' = [t \in Threads |-> [worker[t] EXCEPT !.pc = "pull", !.task = NoTask]]
    /\ UNCHANGED <<input, line, pushed, queues, shared, exp, tried>>

\* password is not reset: a line without a match after one with a match frees
\* it a second time
Summary ==
    /\ main = "summary"
    /\ main' = IF password = Freed THEN "crashed" ELSE "getline"
    /\ password' = IF password = Null THEN Null ELSE Freed
    /\ exp' = Null
    /\ UNCHANGED <<input, line, pushed, queues, worker, fail, hashCount, tried>>

EndOfInput ==
    /\ main = "getline" /\ line = Len(input)
    /\ main' = "join"
    /\ queues' = [t \in Threads |-> Append(queues[t], Null)]
    /\ UNCHANGED <<input, line, pushed, worker, shared, exp, tried>>

Join ==
    /\ main = "join" /\ \A t \in Threads : worker[t].pc = "ended"
    /\ main' = "ended"
    /\ UNCHANGED <<input, line, pushed, queues, worker, shared, exp, tried>>

-----------------------------------------------------------------------------
(* helper.  What it does under mtx is one step. *)

At(t, pc) == worker[t].pc = pc

Pull(t) ==
    /\ At(t, "pull") /\ queues[t] # <<>>
    /\ queues' = [queues EXCEPT ![t] = Tail(@)]
    /\ worker' = [worker EXCEPT ![t] = LET task == Head(queues[t])
                                       IN  IF task = Null THEN [@ EXCEPT !.pc = "ended"]
                                           ELSE [pc |-> "check", task |-> task, i |-> 0]]
    /\ UNCHANGED <<input, line, main, pushed, shared, exp, tried>>

Report(t, hashes) ==
    /\ hashCount' = hashCount + hashes
    /\ worker' = [worker EXCEPT ![t].pc = "barrier"]

\* result 2, the share is used up; result 1, somebody else has found it
Check(t) ==
    LET w == worker[t]
    IN  /\ At(t, "check")
        /\ IF w.i >= w.task.count \/ ~fail THEN Report(t, w.i)
           ELSE worker' = [worker EXCEPT ![t].pc = "crypt"] /\ UNCHANGED hashCount
        /\ UNCHANGED <<input, line, main, pushed, queues, fail, password, exp, tried>>

Crypt(t) ==
    LET w == worker[t]
    IN  /\ At(t, "crypt")
        /\ tried' = [tried EXCEPT ![t] = @ \cup {w.task.hint}]
        /\ worker' = [worker EXCEPT ![t] = IF exp = w.task.hint THEN [w EXCEPT !.pc = "found"]
                                           ELSE [pc |-> "check", i |-> w.i + 1,
                                                 task |-> [w.task EXCEPT !.hint = IncrementString(@)]]]
        /\ UNCHANGED <<input, line, main, pushed, queues, shared, exp>>

\* result 0
Found(t) ==
    LET w == worker[t]
    IN  /\ At(t, "found")
        /\ fail' = FALSE /\ password' = w.task.hint
        /\ Report(t, w.i + 1)
        /\ UNCHANGED <<input, line, main, pushed, queues, exp, tried>>

Worker(t) == Pull(t) \/ Check(t) \/ Crypt(t) \/ Found(t)
Main == GetLine \/ Push \/ Barrier \/ Summary \/ EndOfInput \/ Join
Next == Main \/ \E t \in Threads : Worker(t)
\* a thread that can run runs in the end, and no step can be taken for ever but
\* an endless search
Spec == Init /\ [][Next]_vars /\ WF_vars(Next)

-----------------------------------------------------------------------------
(* Properties. *)

\* What is printed of a line is true of it, whatever the workers' order: the
\* password is reported exactly when its hint allows it, a failure only after
\* every string has been tried, no string is tried twice, and the hashes add up
\* (cracker2.c:48-112, 139-173).
SummaryIsTrue ==
    main = "summary" =>
        LET space == Matching(input[line].hint)
            secret == input[line].secret
        IN  /\ fail <=> secret \notin space
            /\ ~fail => password = secret
            /\ fail => UNION Range(tried) = space
            /\ \A t, u \in Threads : t # u => tried[t] \cap tried[u] = {}
            /\ hashCount = MapThenSumSet(LAMBDA t : Cardinality(tried[t]), Threads)

\* Workers and main keep step at the barrier to the end of the input
\* (cracker2.c:109, 166, 180-188).
Ended == main \in {"ended", "crashed"}
==============================================================================
