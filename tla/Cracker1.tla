------------------------------ MODULE Cracker1 -------------------------------
(***************************************************************************)
(* password_cracker/cracker1.c: the main thread queues one task per line   *)
(* and a single NULL, then starts the workers.  A worker takes tasks until *)
(* it meets the NULL, puts it back for the next and ends.  crypt is one to *)
(* one, so a hash is the password it hides.  The queue, unbounded, is the  *)
(* one critical_concurrency/queue.c implements.                            *)
(***************************************************************************)
EXTENDS CrackerStrings

CONSTANTS NThreads, Inputs,  \* Inputs: a set of sequences of [hint, secret]
          Null

VARIABLES input, q, worker, created, numSuccessful, numFailed, summary
vars == <<input, q, worker, created, numSuccessful, numFailed, summary>>

Threads == 1..NThreads
Idle(pc) == [pc |-> pc, line |-> Null, temp |-> <<>>]

Init ==
    /\ input \in Inputs
    /\ q = Append(input, Null)
    /\ worker = [t \in Threads |-> Idle("absent")] /\ created = 0
    /\ numSuccessful = 0 /\ numFailed = 0 /\ summary = FALSE

CreateThread ==
    /\ created < NThreads
    /\ created' = created + 1
    /\ worker' = [worker EXCEPT ![created'].pc = "pull"]
    /\ UNCHANGED <<input, q, numSuccessful, numFailed, summary>>

Join ==
    /\ created = NThreads /\ ~summary
    /\ \A t \in Threads : worker[t].pc = "ended"
    /\ summary' = TRUE
    /\ UNCHANGED <<input, q, worker, created, numSuccessful, numFailed>>

Pull(t) ==
    /\ worker[t].pc = "pull" /\ q # <<>>
    /\ q' = Tail(q)
    /\ worker' = [worker EXCEPT ![t] =
                     LET line == Head(q)
                     IN  IF line = Null THEN Idle("push")
                         ELSE [pc |-> "hash", line |-> line,
                               temp |-> SetStringPosition(line.hint, GetPrefixLength(line.hint), 0)]]
    /\ UNCHANGED <<input, created, numSuccessful, numFailed, summary>>

SamePrefix(a, b, n) == \A k \in 1..n : a[k] = b[k]

\* one turn of the inner loop; the counters are bumped under m1 and m2
Hash(t) ==
    LET w == worker[t]
        next == IncrementString(w.temp)
        found == w.temp = w.line.secret
        more == SamePrefix(next, w.line.hint, GetPrefixLength(w.line.hint))
    IN  /\ w.pc = "hash"
        /\ worker' = [worker EXCEPT ![t] = IF ~found /\ more THEN [w EXCEPT !.temp = next] ELSE Idle("pull")]
        /\ numSuccessful' = IF found THEN numSuccessful + 1 ELSE numSuccessful
        /\ numFailed' = IF ~found /\ ~more THEN numFailed + 1 ELSE numFailed
        /\ UNCHANGED <<input, q, created, summary>>

PushNull(t) ==
    /\ worker[t].pc = "push"
    /\ q' = Append(q, Null)
    /\ worker' = [worker EXCEPT ![t].pc = "ended"]
    /\ UNCHANGED <<input, created, numSuccessful, numFailed, summary>>

Worker(t) == Pull(t) \/ Hash(t) \/ PushNull(t)
Main == CreateThread \/ Join
Next == Main \/ \E t \in Threads : Worker(t)
\* a thread that can run runs in the end, and no step can be taken for ever but
\* an endless search
Spec == Init /\ [][Next]_vars /\ WF_vars(Next)

-----------------------------------------------------------------------------
(* Properties. *)

Findable(line) == line.secret \in Matching(line.hint)

\* incrementString cannot leave a prefix of 'z's, so the search does not end
Endless(line) ==
    ~Findable(line) /\ \A k \in 1..GetPrefixLength(line.hint) : line.hint[k] = Letters - 1

\* The summary is right for every schedule: the passwords that match their hints,
\* and no others, count as cracked, and one NULL is left in the queue for
\* queue_destroy (cracker1.c:24-70, 93).
CountsAreRight ==
    summary =>
        /\ numSuccessful = Cardinality({k \in DOMAIN input : Findable(input[k])})
        /\ numFailed = Len(input) - numSuccessful
        /\ q = <<Null>>

\* Every worker meets the one NULL and the program ends, unless a search has no
\* end (cracker1.c:42-58, 69).
Ended == summary \/ \E k \in DOMAIN input : Endless(input[k])
==============================================================================
