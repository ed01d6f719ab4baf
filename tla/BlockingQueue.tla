---------------------------- MODULE BlockingQueue ----------------------------
(***************************************************************************)
(* critical_concurrency/queue.c: a singly linked list with head, tail and  *)
(* size under one mutex, and one condition variable that pushers and       *)
(* pullers share.  The node a puller has unlinked is read and freed after  *)
(* the mutex is released, so the heap is modelled: a node freed may be     *)
(* handed out again by the next malloc.                                    *)
(***************************************************************************)
EXTENDS Integers, FiniteSets, Sequences, CondVar

CONSTANTS Threads,
          Items,     \* the data pointers callers push
          NoItem,
          Nodes,     \* addresses malloc can return for a queue_node
          Null,
          MaxSizes   \* what queue_create may be given: not positive is unbounded

ASSUME QueueAssumption ==
    /\ IsFiniteSet(Threads)
    /\ MaxSizes \subseteq Int
    /\ Null \notin Nodes
    /\ NoItem \notin Items

VARIABLES head, tail, size, maxSize,   \* the fields of struct queue
          next, data,         \* the fields of each queue_node
          heap,               \* the nodes allocated and not freed
          pc,                 \* pc[t]: the call t is inside, or "idle"
          item,               \* item[t]: queue_push's data
          temp,               \* temp[t]: queue_pull's temp
          asleep,             \* the threads in pthread_cond_wait
          alive               \* FALSE once queue_destroy has run
list == <<head, tail, size, next, data, heap>>
vars == <<list, maxSize, pc, item, temp, asleep, alive>>

Init ==
    /\ head = Null /\ tail = Null /\ size = 0 /\ maxSize \in MaxSizes
    /\ next = [n \in Nodes |-> Null]
    /\ data = [n \in Nodes |-> NoItem]
    /\ heap = {}
    /\ pc = [t \in Threads |-> "idle"]
    /\ item = [t \in Threads |-> NoItem]
    /\ temp = [t \in Threads |-> Null]
    /\ asleep = {}
    /\ alive = TRUE

Moves(t, from, to) == pc[t] = from /\ pc' = [pc EXCEPT ![t] = to]

\* The bound of the model: nobody pushes what malloc would have no node for.
RoomInHeap == Cardinality(heap) + Cardinality({t \in Threads : pc[t] = "push"}) < Cardinality(Nodes)

CallPush(t, i) ==
    /\ alive
    /\ RoomInHeap
    /\ Moves(t, "idle", "push")
    /\ item' = [item EXCEPT ![t] = i]
    /\ UNCHANGED <<list, temp, asleep, alive, maxSize>>

CallPull(t) ==
    /\ alive
    /\ Moves(t, "idle", "pull")
    /\ UNCHANGED <<list, item, temp, asleep, alive, maxSize>>

\* t holds the mutex at the head of its while loop.
AtTest(t, op) == pc[t] = op /\ t \notin asleep

Sleep(t) ==
    /\ asleep' = asleep \cup {t}
    /\ UNCHANGED <<list, pc, item, temp, alive, maxSize>>

Full == maxSize > 0 /\ size = maxSize

PushSleeps(t) == AtTest(t, "push") /\ Full /\ Sleep(t)

\* A new node goes behind the tail, or becomes the head of an empty list.
LinkBehind(n, i) ==
    /\ data' = [data EXCEPT ![n] = i]
    /\ next' = IF head = Null THEN [next EXCEPT ![n] = Null]
               ELSE [next EXCEPT ![n] = Null, ![tail] = n]
    /\ head' = IF head = Null THEN n ELSE head
    /\ tail' = n
    /\ size' = size + 1
    /\ heap' = heap \cup {n}

PushLinks(t) ==
    /\ AtTest(t, "push")
    /\ ~Full
    /\ \E n \in Nodes \ heap : LinkBehind(n, item[t])
    /\ asleep' \in AfterBroadcast(asleep)
    /\ Moves(t, "push", "idle")
    /\ item' = [item EXCEPT ![t] = NoItem]
    /\ UNCHANGED <<temp, alive, maxSize>>

PullSleeps(t) == AtTest(t, "pull") /\ size = 0 /\ Sleep(t)

PullUnlinks_WakeIfFull(t) ==
    /\ AtTest(t, "pull")
    /\ size # 0
    /\ temp' = [temp EXCEPT ![t] = head]
    /\ head' = next[head]
    /\ size' = size - 1
    /\ tail' = IF size' = 0 THEN Null ELSE tail
    /\ asleep' \in (IF Full THEN AfterSignal(asleep) ELSE {asleep})
    /\ Moves(t, "pull", "pulled")
    /\ UNCHANGED <<next, data, heap, item, alive, maxSize>>

PullUnlinks_NoWake(t) ==
    /\ AtTest(t, "pull")
    /\ size # 0
    /\ temp' = [temp EXCEPT ![t] = head]
    /\ head' = next[head]
    /\ size' = size - 1
    /\ tail' = IF size' = 0 THEN Null ELSE tail
    /\ asleep' = asleep
    /\ Moves(t, "pull", "pulled")
    /\ UNCHANGED <<next, data, heap, item, alive, maxSize>>

PullUnlinks(t) ==
    /\ AtTest(t, "pull")
    /\ size # 0
    /\ temp' = [temp EXCEPT ![t] = head]
    /\ head' = next[head]
    /\ size' = size - 1
    /\ tail' = IF size' = 0 THEN Null ELSE tail
    /\ asleep' \in AfterBroadcast(asleep)
    /\ Moves(t, "pull", "pulled")
    /\ UNCHANGED <<next, data, heap, item, alive, maxSize>>

\* Outside the mutex: read temp->data, free the node, return the data.  What
\* the fields of a freed node hold is forgotten.
PullReturns(t) ==
    /\ Moves(t, "pulled", "idle")
    /\ heap' = heap \ {temp[t]}
    /\ next' = [next EXCEPT ![temp[t]] = Null]
    /\ data' = [data EXCEPT ![temp[t]] = NoItem]
    /\ temp' = [temp EXCEPT ![t] = Null]
    /\ UNCHANGED <<head, tail, size, item, asleep, alive, maxSize>>

\* The i-th node from the head.
NodeAt == LET at[i \in 1..size] == IF i = 1 THEN head ELSE next[at[i - 1]] IN at

Linked == IF alive THEN {NodeAt[i] : i \in 1..size} ELSE {}

\* queue_destroy frees the nodes from the head on; nobody may be inside.
Destroy_SkipTail ==
    /\ alive
    /\ \A t \in Threads : pc[t] = "idle"
    /\ heap' = heap \ {NodeAt[i] : i \in 1..(size - 1)}
    /\ alive' = FALSE
    /\ UNCHANGED <<head, tail, size, next, data, pc, item, temp, asleep, maxSize>>

Destroy ==
    /\ alive
    /\ \A t \in Threads : pc[t] = "idle"
    /\ heap' = heap \ Linked
    /\ alive' = FALSE
    /\ UNCHANGED <<head, tail, size, next, data, pc, item, temp, asleep, maxSize>>

\* POSIX lets pthread_cond_wait return with nobody having signalled.
SpuriousWakeup(t) ==
    /\ t \in asleep
    /\ asleep' = asleep \ {t}
    /\ UNCHANGED <<list, pc, item, temp, alive, maxSize>>

Step(t) ==
    PushSleeps(t) \/ PushLinks(t) \/ PullSleeps(t) \/ PullUnlinks(t) \/ PullReturns(t)

Next ==
    \/ \E t \in Threads :
        \/ \E i \in Items : CallPush(t, i)
        \/ CallPull(t)
        \/ Step(t)
        \/ SpuriousWakeup(t)
    \/ Destroy

Spec == Init /\ [][Next]_vars

\* A thread that contends for the mutex gets it and runs its section.
FairSpec == Spec /\ \A t \in Threads : WF_vars(Step(t))
------------------------------------------------------------------------------
TypeOK ==
    /\ head \in Nodes \cup {Null} /\ tail \in Nodes \cup {Null}
    /\ size \in Nat /\ maxSize \in MaxSizes /\ (maxSize > 0 => size <= maxSize)
    /\ next \in [Nodes -> Nodes \cup {Null}]
    /\ data \in [Nodes -> Items \cup {NoItem}]
    /\ heap \in SUBSET Nodes
    /\ pc \in [Threads -> {"idle", "push", "pull", "pulled"}]
    /\ item \in [Threads -> Items \cup {NoItem}]
    /\ temp \in [Threads -> Nodes \cup {Null}]
    /\ asleep \in SUBSET Threads
    /\ alive \in BOOLEAN

Held == {temp[t] : t \in {u \in Threads : pc[u] = "pulled"}}

\* head, tail, size and the next pointers describe one list without a cycle.
\* The node a puller reads and frees after it has released the mutex is its own
\* and out of the list, and no node is lost: the heap is the list and the nodes
\* in pullers' hands, so nothing is left once the queue is destroyed.
NodesAreOwned ==
    /\ TypeOK
    /\ alive => /\ size = 0 <=> head = Null
                /\ size = 0 <=> tail = Null
                /\ size > 0 => tail = NodeAt[size] /\ next[tail] = Null
                /\ Cardinality(Linked) = size
    /\ heap = Linked \cup Held
    /\ Linked \cap Held = {}
    /\ \A t, u \in Threads : t # u /\ temp[t] # Null => temp[t] # temp[u]

\* Nobody sleeps in queue_pull beside an item, nor in queue_push beside room:
\* the shared condition variable loses no wake-up.
NoStrandedCaller == \A t \in asleep :
    \/ pc[t] = "pull" /\ size = 0
    \/ pc[t] = "push" /\ Full
------------------------------------------------------------------------------
\* The linked list is a FIFO of the items pushed, every pull returns the item it
\* unlinked even if the node's neighbours are freed and reused meanwhile, and a
\* call that can go through from some point on goes through.
Abs == INSTANCE BlockingFIFO WITH
    bound <- maxSize,
    contents <- IF alive THEN [i \in 1..size |-> data[NodeAt[i]]] ELSE <<>>,
    call <- pc,
    item <- [t \in Threads |-> IF pc[t] = "pulled" THEN data[temp[t]] ELSE item[t]]
ImplementsFIFO == Abs!Spec
==============================================================================
