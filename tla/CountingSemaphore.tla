-------------------------- MODULE CountingSemaphore --------------------------
(***************************************************************************)
(* What semamore.h promises: a semaphore that blocks when the value is 0   *)
(* and also when it is the maximum, with no threads asleep, no mutex and   *)
(* no condition variable.  A call is pending until its effect happens.     *)
(***************************************************************************)
EXTENDS Naturals

CONSTANTS Threads, InitVal, MaxVal

VARIABLES value,    \* the permits available
          pending   \* pending[t]: the call t is inside, or "idle"
vars == <<value, pending>>

Init ==
    /\ value = InitVal
    /\ pending = [t \in Threads |-> "idle"]

Call(t, op) ==
    /\ pending[t] = "idle"
    /\ pending' = [pending EXCEPT ![t] = op]
    /\ UNCHANGED value

Return(t) == pending' = [pending EXCEPT ![t] = "idle"]

Down(t) ==
    /\ pending[t] = "wait"
    /\ value > 0
    /\ value' = value - 1
    /\ Return(t)

Up(t) ==
    /\ pending[t] = "post"
    /\ value < MaxVal
    /\ value' = value + 1
    /\ Return(t)

Next == \E t \in Threads :
    \/ \E op \in {"wait", "post"} : Call(t, op)
    \/ Down(t)
    \/ Up(t)

\* A call that could take effect from some point on does take effect.
Fairness == \A t \in Threads : WF_vars(Down(t)) /\ WF_vars(Up(t))

SafeSpec == Init /\ [][Next]_vars
Spec == SafeSpec /\ Fairness
==============================================================================
