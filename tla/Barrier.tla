------------------------------- MODULE Barrier -------------------------------
(***************************************************************************)
(* critical_concurrency/barrier.c: a reusable barrier on a mutex, a        *)
(* condition variable and a counter.  The thread that completes the count  *)
(* resets it and broadcasts; the others wait ONCE, without re-testing      *)
(* anything, so the barrier depends on pthread_cond_wait never returning   *)
(* spuriously.  times_used is incremented after the mutex is released: the *)
(* increment is a read and a write that other threads can interleave with. *)
(* The specification's names bear the barrier's, so that its proofs can    *)
(* stand beside those of Semamore.                                         *)
(***************************************************************************)
EXTENDS Integers, FiniteSets, CondVar

CONSTANTS Parties,    \* the threads that use the barrier: n_threads of them
          Uses        \* a bound: the calls of barrier_wait each thread makes

ASSUME BarrierAssumption ==
    /\ IsFiniteSet(Parties)
    /\ Parties # {}
    /\ Uses \in Nat

NThreads == Cardinality(Parties)

VARIABLES count, timesUsed,   \* the fields of barrier_t
          place,              \* where each thread is
          waiters,            \* the threads in pthread_cond_wait
          reg,                \* reg[t]: times_used as t has read it
          entered,            \* history: the barrier_wait calls t has begun
          returned,           \* history: the barrier_wait calls t has finished
          gen,                \* history: the broadcasts made
          woken               \* history: pthread_cond_wait has returned unasked
barrierVars == <<count, timesUsed, place, waiters, reg, entered, returned, gen, woken>>

BarrierInit ==
    /\ count = 0 /\ timesUsed = 0
    /\ place = [t \in Parties |-> "out"]
    /\ waiters = {}
    /\ reg = [t \in Parties |-> 0]
    /\ entered = [t \in Parties |-> 0]
    /\ returned = [t \in Parties |-> 0]
    /\ gen = 0 /\ woken = FALSE

Arrives(t) ==
    /\ place[t] = "out"
    /\ entered[t] < Uses
    /\ entered' = [entered EXCEPT ![t] = @ + 1]

\* All but the last: count++ and pthread_cond_wait.
ArrivesEarly(t) ==
    /\ Arrives(t)
    /\ count + 1 # NThreads
    /\ count' = count + 1
    /\ waiters' = waiters \cup {t}
    /\ place' = [place EXCEPT ![t] = "waiting"]
    /\ UNCHANGED <<timesUsed, reg, returned, gen, woken>>

ArrivesLast_CountsSelf(t) ==
    /\ Arrives(t)
    /\ count + 1 = NThreads
    /\ count' = 1
    /\ waiters' \in AfterBroadcast(waiters)
    /\ gen' = gen + 1
    /\ place' = [place EXCEPT ![t] = "tally"]
    /\ UNCHANGED <<timesUsed, reg, returned, woken>>

ArrivesLast_Signal(t) ==
    /\ Arrives(t)
    /\ count + 1 = NThreads
    /\ count' = 0
    /\ waiters' \in AfterSignal(waiters)
    /\ gen' = gen + 1
    /\ place' = [place EXCEPT ![t] = "tally"]
    /\ UNCHANGED <<timesUsed, reg, returned, woken>>

\* The last: count back to 0, broadcast, and through.
ArrivesLast(t) ==
    /\ Arrives(t)
    /\ count + 1 = NThreads
    /\ count' = 0
    /\ waiters' \in AfterBroadcast(waiters)
    /\ gen' = gen + 1
    /\ place' = [place EXCEPT ![t] = "tally"]
    /\ UNCHANGED <<timesUsed, reg, returned, woken>>

\* A woken thread has the mutex again, and releases it.
Leaves(t) ==
    /\ place[t] = "waiting"
    /\ t \notin waiters
    /\ place' = [place EXCEPT ![t] = "tally"]
    /\ UNCHANGED <<count, timesUsed, waiters, reg, entered, returned, gen, woken>>

\* barrier->times_used++ with no lock held.
ReadsTimesUsed(t) ==
    /\ place[t] = "tally"
    /\ place' = [place EXCEPT ![t] = "store"]
    /\ reg' = [reg EXCEPT ![t] = timesUsed]
    /\ UNCHANGED <<count, timesUsed, waiters, entered, returned, gen, woken>>

WritesTimesUsed_Stale(t) ==
    /\ place[t] = "store"
    /\ timesUsed' = reg[t]
    /\ place' = [place EXCEPT ![t] = "out"]
    /\ returned' = [returned EXCEPT ![t] = @ + 1]
    /\ UNCHANGED <<count, waiters, reg, entered, gen, woken>>

WritesTimesUsed(t) ==
    /\ place[t] = "store"
    /\ timesUsed' = reg[t] + 1
    /\ place' = [place EXCEPT ![t] = "out"]
    /\ returned' = [returned EXCEPT ![t] = @ + 1]
    /\ UNCHANGED <<count, waiters, reg, entered, gen, woken>>

\* POSIX lets pthread_cond_wait return with nobody having signalled.
WakesUnasked(t) ==
    /\ t \in waiters
    /\ waiters' = waiters \ {t}
    /\ woken' = TRUE
    /\ UNCHANGED <<count, timesUsed, place, reg, entered, returned, gen>>

BarrierStep(t) ==
    \/ ArrivesEarly(t)
    \/ ArrivesLast(t)
    \/ Leaves(t)
    \/ ReadsTimesUsed(t)
    \/ WritesTimesUsed(t)

BarrierNext == \E t \in Parties : BarrierStep(t) \/ WakesUnasked(t)

BarrierSpec == BarrierInit /\ [][BarrierNext]_barrierVars
FairBarrierSpec == BarrierSpec /\ \A t \in Parties : WF_barrierVars(BarrierStep(t))
------------------------------------------------------------------------------
BarrierTypeOK ==
    /\ count \in Nat /\ count < NThreads /\ timesUsed \in Nat /\ gen \in Nat
    /\ woken \in BOOLEAN
    /\ place \in [Parties -> {"out", "waiting", "tally", "store"}]
    /\ waiters \in SUBSET Parties
    /\ reg \in [Parties -> Nat]
    /\ entered \in [Parties -> Nat]
    /\ returned \in [Parties -> Nat]

\* Nobody finishes its k-th barrier_wait before everybody has begun theirs, over
\* every reuse of the barrier, as long as no wake-up is spurious.
NobodyPassesEarly == ~woken => \A t, u \in Parties : returned[t] <= entered[u]

\* No thread waiters goes uncounted, so each has a broadcast due.  With no spurious
\* wake-up the count is exact and is of the use in progress: a fast thread that
\* comes round again never takes the place of a slow one just woken.
SleepersAreCounted ==
    /\ Cardinality(waiters) <= count
    /\ ~woken => /\ count = Cardinality(waiters)
                 /\ \A t \in Parties : entered[t] = IF t \in waiters THEN gen + 1 ELSE gen

AllOut == \A t \in Parties : place[t] = "out"

\* Increments of times_used get lost, yet never all those of one use, when no
\* wake-up is spurious.
EveryUseIsTallied == ~woken /\ AllOut => timesUsed >= gen

\* Every thread gets through all its uses, unless a wake-up is spurious.
EverybodyPasses == <>(woken \/ \A t \in Parties : returned[t] = Uses)
==============================================================================
