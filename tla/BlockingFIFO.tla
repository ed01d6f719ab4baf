---------------------------- MODULE BlockingFIFO -----------------------------
(***************************************************************************)
(* What queue.h promises: a thread-safe FIFO of at most max_size items, or *)
(* of any number when max_size is not positive, whose push blocks while it *)
(* is full and whose pull blocks while it is empty.                        *)
(***************************************************************************)
EXTENDS Integers, Sequences

CONSTANTS Threads, Items, NoItem, MaxSizes

VARIABLES contents,   \* the items inside, oldest first
          call,       \* call[t]: what t is doing
          item,       \* item[t]: the item t brings in or takes out
          alive,      \* not yet destroyed
          bound       \* how many items it holds; not positive is any number
vars == <<contents, call, item, alive, bound>>

Full == bound > 0 /\ Len(contents) = bound

Init ==
    /\ contents = <<>>
    /\ call = [t \in Threads |-> "idle"]
    /\ item = [t \in Threads |-> NoItem]
    /\ alive = TRUE
    /\ bound \in MaxSizes

Moves(t, from, to, i) ==
    /\ call[t] = from
    /\ call' = [call EXCEPT ![t] = to]
    /\ item' = [item EXCEPT ![t] = i]
    /\ UNCHANGED <<alive, bound>>

CallPush(t, i) == alive /\ Moves(t, "idle", "push", i) /\ UNCHANGED contents
CallPull(t) == alive /\ Moves(t, "idle", "pull", NoItem) /\ UNCHANGED contents

Push(t) ==
    /\ ~Full
    /\ Moves(t, "push", "idle", NoItem)
    /\ contents' = Append(contents, item[t])

Pull(t) ==
    /\ contents # <<>>
    /\ Moves(t, "pull", "pulled", Head(contents))
    /\ contents' = Tail(contents)

Return(t) == Moves(t, "pulled", "idle", NoItem) /\ UNCHANGED contents

Destroy ==
    /\ alive
    /\ \A t \in Threads : call[t] = "idle"
    /\ alive' = FALSE
    /\ contents' = <<>>
    /\ UNCHANGED <<call, item, bound>>

Next ==
    \/ \E t \in Threads :
        \/ \E i \in Items : CallPush(t, i)
        \/ CallPull(t)
        \/ Push(t)
        \/ Pull(t)
        \/ Return(t)
    \/ Destroy

\* A push that finds room, or a pull that finds an item, from some point on
\* goes through, and what was pulled is handed to the caller.
Fairness == \A t \in Threads : WF_vars(Push(t)) /\ WF_vars(Pull(t)) /\ WF_vars(Return(t))

SafeSpec == Init /\ [][Next]_vars
Spec == SafeSpec /\ Fairness
==============================================================================
