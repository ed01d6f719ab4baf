------------------------------ MODULE Semamore -------------------------------
(***************************************************************************)
(* critical_concurrency/semamore.c: a semaphore bounded at both ends, on   *)
(* one mutex and one condition variable that waiters and posters share.    *)
(* semm_wait wakes ONE sleeper and semm_post wakes ALL of them; whether    *)
(* the single signal can wake the wrong thread and strand another is what  *)
(* this module is about.                                                   *)
(*                                                                         *)
(* Everything between pthread_mutex_lock and pthread_mutex_unlock (or the  *)
(* release inside pthread_cond_wait) is one step.                          *)
(***************************************************************************)
EXTENDS Integers, FiniteSets, CondVar

CONSTANTS Threads,   \* the threads that share the Semamore
          InitVal,   \* semm_init's value
          MaxVal     \* semm_init's max_val

\* semamore.h: "you can assume max_val won't equal 0".
ASSUME SemamoreAssumption ==
    /\ IsFiniteSet(Threads)
    /\ MaxVal \in Nat \ {0}
    /\ InitVal \in 0..MaxVal

VARIABLES value,    \* s->value
          pc,       \* pc[t]: the call t is inside, or "idle"
          asleep    \* the threads in pthread_cond_wait(&s->cv, ..)
vars == <<value, pc, asleep>>

Init ==
    /\ value = InitVal
    /\ pc = [t \in Threads |-> "idle"]
    /\ asleep = {}

Call(t, op) ==
    /\ pc[t] = "idle"
    /\ pc' = [pc EXCEPT ![t] = op]
    /\ UNCHANGED <<value, asleep>>

\* t holds the mutex at the head of its while loop: it has just called, or it
\* was woken and re-tests the condition.
AtTest(t, op) == pc[t] = op /\ t \notin asleep

Return(t) == pc' = [pc EXCEPT ![t] = "idle"]

Sleep(t) ==
    /\ asleep' = asleep \cup {t}
    /\ UNCHANGED <<value, pc>>

WaitSleeps(t) == AtTest(t, "wait") /\ value = 0 /\ Sleep(t)

WaitTakes_NoSignal(t) ==
    /\ AtTest(t, "wait")
    /\ value # 0
    /\ value' = value - 1
    /\ UNCHANGED asleep
    /\ Return(t)

WaitTakes(t) ==
    /\ AtTest(t, "wait")
    /\ value # 0
    /\ value' = value - 1
    /\ asleep' \in AfterSignal(asleep)
    /\ Return(t)

PostSleeps(t) == AtTest(t, "post") /\ value = MaxVal /\ Sleep(t)

PostGives_Signal(t) ==
    /\ AtTest(t, "post")
    /\ value # MaxVal
    /\ value' = value + 1
    /\ asleep' \in AfterSignal(asleep)
    /\ Return(t)

PostGives(t) ==
    /\ AtTest(t, "post")
    /\ value # MaxVal
    /\ value' = value + 1
    /\ asleep' \in AfterBroadcast(asleep)
    /\ Return(t)

\* POSIX lets pthread_cond_wait return with nobody having signalled.
SpuriousWakeup(t) ==
    /\ t \in asleep
    /\ asleep' = asleep \ {t}
    /\ UNCHANGED <<value, pc>>

Step(t) == WaitSleeps(t) \/ WaitTakes(t) \/ PostSleeps(t) \/ PostGives(t)

Next == \E t \in Threads :
    \/ \E op \in {"wait", "post"} : Call(t, op)
    \/ Step(t)
    \/ SpuriousWakeup(t)

Spec == Init /\ [][Next]_vars

\* A thread that contends for the mutex gets it and runs its section.
FairSpec == Spec /\ \A t \in Threads : WF_vars(Step(t))
------------------------------------------------------------------------------
TypeOK ==
    /\ value \in 0..MaxVal
    /\ pc \in [Threads -> {"idle", "wait", "post"}]
    /\ asleep \in SUBSET Threads

Asleep(op) == {t \in asleep : pc[t] = op}
Contending(op) == {t \in Threads : AtTest(t, op)}

\* No thread sleeps in semm_wait while a permit is there: the one signal of
\* semm_wait never takes the place of the wake-up a waiter needed.
NoStrandedWaiter == Asleep("wait") # {} => value = 0

\* While a poster sleeps, every free slot is already owed to a poster that has
\* been woken (or has just arrived) and will broadcast when it posts: the single
\* signals of semm_wait are enough, and none is wasted on a waiter.
NoStrandedPoster ==
    Asleep("post") # {} => value + Cardinality(Contending("post")) >= MaxVal

------------------------------------------------------------------------------
\* semm_wait and semm_post take effect as the counting semaphore's operations,
\* and a call that can take effect from some point on is not left asleep.
Abs == INSTANCE CountingSemaphore WITH pending <- pc
ImplementsSemaphore == Abs!Spec
==============================================================================
