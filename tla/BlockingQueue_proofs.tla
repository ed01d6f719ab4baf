------------------------- MODULE BlockingQueue_proofs -------------------------
(***************************************************************************)
(* Proofs about critical_concurrency/queue.c for any finite set of         *)
(* threads, any addresses and any maximum size.                            *)
(*                                                                         *)
(* The argument: NodeAt, the walk along the next pointers, is the one      *)
(* function that starts at the head and follows them.  So a step is        *)
(* understood once the walk after it is written down: as before when no    *)
(* linked node is touched, with the new node behind it after a push, and   *)
(* moved up by one after a pull.                                           *)
(***************************************************************************)
EXTENDS BlockingQueue, FiniteSetTheorems, WellFoundedInduction, TLAPS

\* Every set of naturals that is not empty has a least element.  An induction over a
\* list or over levels is an appeal to the least index at which it would fail.
LEMMA LeastNatural ==
    ASSUME NEW T \in SUBSET Nat, T # {}
    PROVE  \E n \in T : \A m \in T : n <= m
<1>. DEFINE less == {pair \in Nat \X Nat : pair[1] < pair[2]}
<1>1. IsWellFoundedOn(less, Nat)
  BY NatLessThanWellFounded DEF OpToRel
<1>2. PICK n \in T : \A m \in T : <<m, n>> \notin less
  <2>. HIDE DEF less
  <2>. QED BY <1>1, WFMin, Zenon
<1>3. \A m \in T : ~(m < n)
  BY <1>2
<1>. QED BY <1>3

\* f starts at h and follows n for k nodes.
IsWalk(f, h, n, k) == f = [i \in 1..k |-> IF i = 1 THEN h ELSE n[f[i - 1]]]

\* Two functions on 1..k that start and go on in the same way are the same.
LEMMA SameWalk ==
    ASSUME NEW k \in Nat, NEW h, NEW n, NEW f, NEW g,
           IsWalk(f, h, n, k), IsWalk(g, h, n, k)
    PROVE  f = g
<1>. USE DEF IsWalk
<1>. DEFINE T == {i \in 1..k : f[i] # g[i]}
<1>1. ASSUME T # {} PROVE FALSE
  <2>. T \in SUBSET Nat
    OBVIOUS
  <2>1. PICK i \in T : \A m \in T : i <= m
    <3>. HIDE DEF T
    <3>. QED BY <1>1, LeastNatural
  <2>2. CASE i = 1
    BY <2>1, <2>2
  <2>3. CASE i # 1
    <3>1. i \in 1..k /\ i - 1 \in 1..k /\ ~(i <= i - 1)
      BY <2>1, <2>3
    <3>2. f[i - 1] = g[i - 1]
      BY <2>1, <3>1
    <3>3. f[i] = n[f[i - 1]] /\ g[i] = n[g[i - 1]]
      BY <2>1, <2>3
    <3>. QED BY <2>1, <3>2, <3>3
  <2>. QED BY <2>2, <2>3
<1>2. \A i \in 1..k : f[i] = g[i]
  BY <1>1
<1>3. f = [i \in 1..k |-> f[i]] /\ g = [i \in 1..k |-> g[i]]
  OBVIOUS
<1>. QED BY <1>2, <1>3

Walk(h, n, k) == LET at[i \in 1..k] == IF i = 1 THEN h ELSE n[at[i - 1]] IN at

\* Whatever starts at the head and follows the next pointers is the walk.
LEMMA WalkIs ==
    ASSUME NEW k \in Nat, NEW h, NEW n, NEW f,
           IsWalk(f, h, n, k)
    PROVE  Walk(h, n, k) = f
<1>1. PICK w : w = Walk(h, n, k)
  OBVIOUS
<1>2. IsWalk(w, h, n, k)
  BY <1>1 DEF Walk, IsWalk
<1>3. w = f
  BY <1>2, SameWalk
<1>. QED BY <1>1, <1>3

\* f lists k different nodes from h to t along the next pointers n.
IsList(f, h, t, n, k) ==
    /\ f \in [1..k -> Nodes]
    /\ IsWalk(f, h, n, k)
    /\ \A i, j \in 1..k : f[i] = f[j] => i = j
    /\ IF k = 0 THEN h = Null /\ t = Null ELSE t = f[k] /\ n[t] = Null

LEMMA WalkPointwise ==
    ASSUME NEW k \in Nat, NEW h, NEW n, NEW f \in [1..k -> Nodes],
           \A i \in 1..k : f[i] = IF i = 1 THEN h ELSE n[f[i - 1]]
    PROVE  IsWalk(f, h, n, k)
<1>1. f = [i \in 1..k |-> f[i]]
  OBVIOUS
<1>. QED BY <1>1 DEF IsWalk

\* The links out of the listed nodes are all that matters.
LEMMA ListElsewhere ==
    ASSUME NEW k \in Nat, NEW h, NEW t, NEW n, NEW m, NEW f,
           IsList(f, h, t, n, k), \A i \in 1..k : m[f[i]] = n[f[i]]
    PROVE  IsList(f, h, t, m, k)
<1>. USE DEF IsList
<1>1. \A i \in 1..k : i # 1 => m[f[i - 1]] = n[f[i - 1]]
  OBVIOUS
<1>2. IsWalk(f, h, m, k)
  <2>1. \A i \in 1..k : f[i] = IF i = 1 THEN h ELSE m[f[i - 1]]
    BY <1>1 DEF IsWalk
  <2>. QED BY <2>1, WalkPointwise
<1>3. CASE k = 0
  BY <1>2, <1>3
<1>4. CASE k # 0
  <2>1. m[t] = Null
    BY <1>4
  <2>. QED BY <1>2, <1>4, <2>1
<1>. QED BY <1>3, <1>4

Behind(f, k, x) == [i \in 1..k + 1 |-> IF i = k + 1 THEN x ELSE f[i]]

\* A push puts the new node behind the listed ones.
LEMMA ListPushed ==
    ASSUME NEW k \in Nat, NEW h, NEW t, NEW n \in [Nodes -> Nodes \cup {Null}], NEW f,
           IsList(f, h, t, n, k),
           NEW x \in Nodes, \A i \in 1..k : f[i] # x
    PROVE  IsList(Behind(f, k, x), IF h = Null THEN x ELSE h, x,
                  IF h = Null THEN [n EXCEPT ![x] = Null]
                  ELSE [n EXCEPT ![x] = Null, ![t] = x], k + 1)
<1>. DEFINE g == Behind(f, k, x)
            m == IF h = Null THEN [n EXCEPT ![x] = Null]
                 ELSE [n EXCEPT ![x] = Null, ![t] = x]
            b == IF h = Null THEN x ELSE h
<1>. SUFFICES IsList(g, b, x, m, k + 1)
  OBVIOUS
<1>. USE DEF IsList
<1>1. /\ g \in [1..k + 1 -> Nodes]
      /\ \A i, j \in 1..k + 1 : g[i] = g[j] => i = j
      /\ g[k + 1] = x
  BY DEF Behind
<1>2. CASE k = 0
  <2>1. h = Null /\ m = [n EXCEPT ![x] = Null] /\ b = x
    BY <1>2
  <2>2. IsWalk(g, b, m, k + 1)
    BY <1>2, <2>1 DEF IsWalk, Behind
  <2>. QED BY <1>1, <2>1, <2>2
<1>3. CASE k # 0
  <2>1. h = f[1] /\ t = f[k] /\ h \in Nodes /\ t \in Nodes /\ t # x
    BY <1>3 DEF IsWalk
  <2>2. m = [n EXCEPT ![x] = Null, ![t] = x] /\ b = f[1]
    BY <2>1, QueueAssumption
  <2>3. m[x] = Null /\ m[t] = x /\ \A i \in 1..k - 1 : m[f[i]] = n[f[i]]
    BY <1>3, <2>1, <2>2
  <2>4. ASSUME NEW i \in 1..k + 1 PROVE g[i] = IF i = 1 THEN b ELSE m[g[i - 1]]
    <3>1. CASE i = 1
      BY <1>3, <2>2, <3>1 DEF Behind
    <3>2. CASE i # 1 /\ i # k + 1
      <4>1. g[i] = f[i] /\ g[i - 1] = f[i - 1] /\ i - 1 \in 1..k - 1
        BY <3>2 DEF Behind
      <4>2. f[i] = n[f[i - 1]]
        BY <3>2 DEF IsWalk
      <4>. QED BY <2>3, <3>2, <4>1, <4>2
    <3>3. CASE i = k + 1
      <4>1. g[i - 1] = f[k] /\ i # 1
        BY <1>3, <3>3 DEF Behind
      <4>. QED BY <1>1, <2>1, <2>3, <3>3, <4>1
    <3>. QED BY <3>1, <3>2, <3>3
  <2>5. IsWalk(g, b, m, k + 1)
    <3>1. k + 1 \in Nat
      OBVIOUS
    <3>. HIDE DEF g, m, b
    <3>. QED BY <1>1, <2>4, <3>1, WalkPointwise
  <2>. HIDE DEF m, g, b
  <2>. QED BY <1>1, <1>3, <2>1, <2>3, <2>5
<1>. QED BY <1>2, <1>3

Below(f, k) == [i \in 1..k - 1 |-> f[i + 1]]

\* A pull takes the first node off.
LEMMA ListPulled ==
    ASSUME NEW k \in Nat, k # 0, NEW h, NEW t, NEW n, NEW f, IsList(f, h, t, n, k)
    PROVE  IsList(Below(f, k), n[h], IF k - 1 = 0 THEN Null ELSE t, n, k - 1)
<1>. DEFINE g == Below(f, k)
<1>. USE DEF IsList
<1>0. h = f[1] /\ t = f[k]
  BY DEF IsWalk
<1>1. /\ g \in [1..k - 1 -> Nodes]
      /\ \A i, j \in 1..k - 1 : g[i] = g[j] => i = j
  BY DEF Below
<1>2. ASSUME NEW i \in 1..k - 1 PROVE g[i] = IF i = 1 THEN n[h] ELSE n[g[i - 1]]
  <2>1. g[i] = f[i + 1] /\ f[i + 1] = n[f[i]]
    BY DEF Below, IsWalk
  <2>2. i # 1 => g[i - 1] = f[i]
    BY DEF Below
  <2>. QED BY <1>0, <2>1, <2>2
<1>3. IsWalk(g, n[h], n, k - 1)
  <2>1. k - 1 \in Nat
    OBVIOUS
  <2>. HIDE DEF g
  <2>. QED BY <1>1, <1>2, <2>1, WalkPointwise
<1>4. CASE k = 1
  BY <1>0, <1>1, <1>3, <1>4
<1>5. CASE k # 1
  <2>1. g[k - 1] = f[k]
    BY <1>5 DEF Below
  <2>. QED BY <1>0, <1>1, <1>3, <1>5, <2>1
<1>. QED BY <1>4, <1>5
-------------------------------------------------------------------------------
LEMMA NodeAtIs ==
    ASSUME size \in Nat, NEW f, IsList(f, head, tail, next, size)
    PROVE  NodeAt = f
<1>1. IsWalk(f, head, next, size)
  BY DEF IsList
<1>2. Walk(head, next, size) = f
  BY <1>1, WalkIs
<1>. QED BY <1>2 DEF NodeAt, Walk

LEMMA NextNodeAtIs ==
    ASSUME size' \in Nat, NEW f, IsList(f, head', tail', next', size')
    PROVE  NodeAt' = f
<1>1. IsWalk(f, head', next', size')
  BY DEF IsList
<1>2. Walk(head', next', size') = f
  BY <1>1, WalkIs
<1>. QED BY <1>2 DEF NodeAt, Walk

\* While the queue is alive the walk lists its nodes.
Chained == alive => IsList(NodeAt, head, tail, next, size)

\* Pullers between their unlinking and their return hold a node each; nobody is
\* inside a call of a queue that was destroyed.
Hands ==
    /\ \A t \in Threads : pc[t] = "pulled" <=> temp[t] # Null
    /\ \A t, u \in Threads : t # u /\ temp[t] # Null => temp[t] # temp[u]
    /\ ~alive => \A t \in Threads : pc[t] = "idle"

\* The heap is the list and the nodes held.
Owned ==
    /\ heap = Linked \cup Held
    /\ Linked \cap Held = {}

IInv == TypeOK /\ Chained /\ Hands /\ Owned

LEMMA InitIInv == Init => IInv
<1>1. SUFFICES ASSUME Init PROVE IInv
  OBVIOUS
<1>. DEFINE f == [i \in 1..0 |-> Null]
<1>2. TypeOK /\ Hands
  BY <1>1, QueueAssumption DEF Init, TypeOK, Hands
<1>3. IsList(f, head, tail, next, size)
  BY <1>1 DEF Init, IsList, IsWalk
<1>4. NodeAt = f
  BY <1>1, <1>3, NodeAtIs DEF Init
<1>5. Chained
  BY <1>3, <1>4 DEF Chained
<1>6. Owned
  BY <1>1 DEF Init, Owned, Linked, Held
<1>. QED BY <1>2, <1>5, <1>6 DEF IInv

\* A step that leaves the list and the hands alone.
LEMMA OtherStep ==
    ASSUME IInv, TypeOK', list' = list, temp' = temp, alive' = alive,
           \A t \in Threads : \/ pc'[t] = pc[t]
                              \/ alive /\ pc[t] # "pulled" /\ pc'[t] # "pulled"
    PROVE  IInv'
<1>. USE DEF IInv, list
<1>1. NodeAt' = NodeAt
  BY DEF NodeAt
<1>2. Chained'
  BY <1>1 DEF Chained
<1>3. Hands'
  BY DEF Hands
<1>4. Linked' = Linked /\ Held' = Held
  BY <1>1 DEF Linked, Held
<1>5. Owned'
  BY <1>4 DEF Owned
<1>. QED BY <1>2, <1>3, <1>5

LEMMA PushLinksStep ==
    ASSUME IInv, NEW t \in Threads, PushLinks(t)
    PROVE  /\ IInv'
           /\ \E x \in Nodes \ heap : LinkBehind(x, item[t]) /\ NodeAt' = Behind(NodeAt, size, x)
<1>. USE DEF IInv
<1>1. PICK x \in Nodes \ heap : LinkBehind(x, item[t])
  BY DEF PushLinks
<1>2. /\ pc[t] = "push" /\ alive /\ alive' = alive /\ temp' = temp /\ maxSize' = maxSize
      /\ pc' = [pc EXCEPT ![t] = "idle"] /\ item' = [item EXCEPT ![t] = NoItem]
      /\ ~Full /\ asleep' = {}
  BY DEF PushLinks, AtTest, Moves, AfterBroadcast, Hands, TypeOK
<1>. DEFINE g == Behind(NodeAt, size, x)
<1>3. /\ size \in Nat /\ next \in [Nodes -> Nodes \cup {Null}]
      /\ IsList(NodeAt, head, tail, next, size) /\ \A i \in 1..size : NodeAt[i] # x
  BY <1>1, <1>2 DEF TypeOK, Chained, Owned, Linked
<1>4. IsList(g, head', tail', next', size') /\ size' = size + 1
  BY <1>1, <1>3, ListPushed DEF LinkBehind
<1>5. NodeAt' = g
  BY <1>3, <1>4, NextNodeAtIs
<1>6. Chained'
  BY <1>4, <1>5 DEF Chained
<1>7. Hands'
  BY <1>2 DEF Hands, TypeOK
<1>8. Linked' = Linked \cup {x}
  <2>1. \A i \in 1..size : NodeAt'[i] = NodeAt[i]
    BY <1>3, <1>5 DEF Behind
  <2>2. NodeAt'[size + 1] = x
    BY <1>3, <1>5 DEF Behind
  <2>. QED BY <1>2, <1>3, <1>4, <2>1, <2>2 DEF Linked
<1>9. Held' = Held
  BY <1>2 DEF Held, TypeOK
<1>10. Owned'
  BY <1>1, <1>8, <1>9 DEF Owned, LinkBehind
<1>11. TypeOK'
  <2>1. head' \in Nodes \cup {Null} /\ tail' \in Nodes \cup {Null} /\ heap' \in SUBSET Nodes
    BY <1>1 DEF LinkBehind, TypeOK
  <2>2. size' \in Nat /\ maxSize' \in MaxSizes /\ (maxSize' > 0 => size' <= maxSize')
    BY <1>2, <1>3, <1>4, QueueAssumption DEF Full, TypeOK
  <2>3. next' \in [Nodes -> Nodes \cup {Null}]
    BY <1>1 DEF LinkBehind, TypeOK
  <2>4. data' \in [Nodes -> Items \cup {NoItem}]
    BY <1>1 DEF LinkBehind, TypeOK
  <2>5. pc' \in [Threads -> {"idle", "push", "pull", "pulled"}]
    BY <1>2 DEF TypeOK
  <2>. QED BY <1>2, <2>1, <2>2, <2>3, <2>4, <2>5 DEF TypeOK
<1>. QED BY <1>1, <1>5, <1>6, <1>7, <1>10, <1>11

LEMMA PullUnlinksStep ==
    ASSUME IInv, NEW t \in Threads, PullUnlinks(t)
    PROVE  IInv' /\ NodeAt' = Below(NodeAt, size) /\ head = NodeAt[1]
<1>. USE DEF IInv
<1>1. /\ pc[t] = "pull" /\ size # 0 /\ alive /\ alive' = alive /\ maxSize' = maxSize
      /\ temp' = [temp EXCEPT ![t] = head]
      /\ head' = next[head] /\ size' = size - 1
      /\ tail' = IF size - 1 = 0 THEN Null ELSE tail
      /\ pc' = [pc EXCEPT ![t] = "pulled"] /\ item' = item /\ asleep' = {}
      /\ next' = next /\ data' = data /\ heap' = heap
  BY DEF PullUnlinks, AtTest, Moves, AfterBroadcast, Hands, TypeOK
<1>. DEFINE g == Below(NodeAt, size)
<1>2. size \in Nat /\ size - 1 \in Nat /\ IsList(NodeAt, head, tail, next, size)
  BY <1>1 DEF TypeOK, Chained
<1>3. IsList(g, head', tail', next', size')
  BY <1>1, <1>2, ListPulled
<1>4. NodeAt' = g
  BY <1>1, <1>2, <1>3, NextNodeAtIs
<1>5. head = NodeAt[1] /\ head \in Nodes /\ head \in Linked
  <2>1. IsWalk(NodeAt, head, next, size) /\ NodeAt \in [1..size -> Nodes] /\ 1 \in 1..size
    BY <1>1, <1>2 DEF IsList
  <2>2. NodeAt[1] = head
    <3>. HIDE DEF NodeAt
    <3>. QED BY <2>1 DEF IsWalk
  <2>. QED BY <1>1, <2>1, <2>2 DEF Linked
<1>6. Chained'
  BY <1>3, <1>4 DEF Chained
<1>7. Linked' = Linked \ {head}
  <2>1. \A i \in 1..size - 1 : NodeAt'[i] = NodeAt[i + 1]
    BY <1>4 DEF Below
  <2>2. \A i, j \in 1..size : NodeAt[i] = NodeAt[j] => i = j
    BY <1>2 DEF IsList
  <2>3. Linked' = {NodeAt'[i] : i \in 1..size - 1} /\ Linked = {NodeAt[i] : i \in 1..size}
    BY <1>1 DEF Linked
  <2>4. ASSUME NEW y \in Linked' PROVE y \in Linked /\ y # head
    BY <1>2, <1>5, <2>1, <2>2, <2>3
  <2>5. ASSUME NEW y \in Linked, y # head PROVE y \in Linked'
    <3>1. PICK i \in 1..size : y = NodeAt[i]
      BY <2>3
    <3>2. i - 1 \in 1..size - 1 /\ y = NodeAt'[i - 1]
      BY <1>2, <1>5, <2>1, <2>5, <3>1
    <3>. QED BY <2>3, <3>2
  <2>. QED BY <2>4, <2>5
<1>8. Held' = Held \cup {head}
  <2>1. temp'[t] = head /\ pc'[t] = "pulled" /\ pc[t] # "pulled"
    BY <1>1 DEF TypeOK
  <2>2. \A u \in Threads \ {t} : temp'[u] = temp[u] /\ pc'[u] = pc[u]
    BY <1>1 DEF TypeOK
  <2>. QED BY <2>1, <2>2 DEF Held
<1>9. Owned'
  BY <1>1, <1>5, <1>7, <1>8 DEF Owned
<1>10. Hands'
  <2>1. \A u \in Threads : temp[u] # Null => temp[u] # head
    BY <1>5 DEF Hands, Owned, Held
  <2>. QED BY <1>1, <1>5, <2>1, QueueAssumption DEF Hands, TypeOK
<1>11. TypeOK'
  BY <1>1, <1>2, <1>5, QueueAssumption DEF TypeOK
<1>. QED BY <1>4, <1>5, <1>6, <1>9, <1>10, <1>11

LEMMA PullReturnsStep ==
    ASSUME IInv, NEW t \in Threads, PullReturns(t)
    PROVE  IInv' /\ NodeAt' = NodeAt
<1>. USE DEF IInv
<1>. DEFINE x == temp[t]
<1>1. /\ pc[t] = "pulled" /\ pc' = [pc EXCEPT ![t] = "idle"]
      /\ heap' = heap \ {x} /\ next' = [next EXCEPT ![x] = Null]
      /\ data' = [data EXCEPT ![x] = NoItem] /\ temp' = [temp EXCEPT ![t] = Null]
      /\ UNCHANGED <<head, tail, size, item, asleep, alive, maxSize>> /\ alive
  BY DEF PullReturns, Moves, Hands
<1>2. x \in Nodes /\ x \in Held /\ x \notin Linked
  BY <1>1 DEF TypeOK, Hands, Owned, Held
<1>3. /\ size \in Nat /\ IsList(NodeAt, head, tail, next, size)
      /\ \A i \in 1..size : NodeAt[i] \in Nodes /\ NodeAt[i] # x
  BY <1>1, <1>2 DEF TypeOK, Chained, Linked, IsList
<1>4. \A i \in 1..size : next'[NodeAt[i]] = next[NodeAt[i]]
  BY <1>1, <1>3 DEF TypeOK
<1>5. IsList(NodeAt, head', tail', next', size')
  BY <1>1, <1>3, <1>4, ListElsewhere
<1>6. NodeAt' = NodeAt
  BY <1>1, <1>3, <1>5, NextNodeAtIs
<1>7. Chained'
  BY <1>5, <1>6 DEF Chained
<1>8. Hands'
  BY <1>1 DEF Hands, TypeOK
<1>9. Linked' = Linked
  BY <1>1, <1>6 DEF Linked
<1>10. Held' = Held \ {x}
  <2>1. pc'[t] # "pulled" /\ \A u \in Threads \ {t} : temp'[u] = temp[u] /\ pc'[u] = pc[u]
    BY <1>1 DEF TypeOK
  <2>2. \A u \in Threads \ {t} : pc[u] = "pulled" => temp[u] # x
    BY <1>1 DEF Hands
  <2>. QED BY <2>1, <2>2 DEF Held
<1>11. Owned'
  BY <1>1, <1>2, <1>9, <1>10 DEF Owned
<1>12. TypeOK'
  BY <1>1, <1>2 DEF TypeOK
<1>. QED BY <1>6, <1>7, <1>8, <1>11, <1>12

LEMMA DestroyStep ==
    ASSUME IInv, Destroy
    PROVE  IInv'
<1>. USE DEF IInv
<1>1. /\ \A t \in Threads : pc[t] = "idle"
      /\ heap' = heap \ Linked /\ alive' = FALSE
      /\ UNCHANGED <<head, tail, size, next, data, pc, item, temp, asleep, maxSize>>
  BY DEF Destroy
<1>2. Held = {} /\ Held' = {} /\ Linked' = {}
  BY <1>1 DEF Held, Linked
<1>3. Owned'
  BY <1>1, <1>2 DEF Owned
<1>4. Chained' /\ Hands' /\ TypeOK'
  BY <1>1 DEF Chained, Hands, TypeOK
<1>. QED BY <1>3, <1>4

LEMMA IInvStep == IInv /\ [Next]_vars => IInv'
<1>1. SUFFICES ASSUME IInv, [Next]_vars PROVE IInv'
  OBVIOUS
<1>. DEFINE Other == /\ TypeOK' /\ list' = list /\ temp' = temp /\ alive' = alive
                     /\ \A t \in Threads : \/ pc'[t] = pc[t]
                                           \/ alive /\ pc[t] # "pulled" /\ pc'[t] # "pulled"
<1>2. TypeOK
  BY <1>1 DEF IInv
<1>3. ASSUME NEW t \in Threads, NEW i \in Items, CallPush(t, i) PROVE Other
  BY <1>2, <1>3 DEF CallPush, Moves, TypeOK, list
<1>4. ASSUME NEW t \in Threads, CallPull(t) PROVE Other
  BY <1>2, <1>4 DEF CallPull, Moves, TypeOK, list
<1>5. ASSUME NEW t \in Threads, PushSleeps(t) \/ PullSleeps(t) \/ SpuriousWakeup(t) PROVE Other
  BY <1>2, <1>5 DEF PushSleeps, PullSleeps, SpuriousWakeup, Sleep, TypeOK, list
<1>6. CASE UNCHANGED vars
  <2>1. Other
    BY <1>2, <1>6 DEF vars, TypeOK, list
  <2>. QED BY <1>1, <2>1, OtherStep
<1>7. ASSUME Other PROVE IInv'
  BY <1>1, <1>7, OtherStep
<1>. HIDE DEF Other
<1>. QED
  BY <1>1, <1>3, <1>4, <1>5, <1>6, <1>7, PushLinksStep, PullUnlinksStep, PullReturnsStep,
     DestroyStep DEF Next, Step

LEMMA Invariance == Spec => []IInv
BY InitIInv, IInvStep, PTL DEF Spec

\* As many different nodes are linked as size says.
LEMMA LinkedAreCounted ==
    ASSUME size \in Nat, alive, IsList(NodeAt, head, tail, next, size)
    PROVE  Cardinality(Linked) = size
<1>1. NodeAt \in [1..size -> Nodes] /\ \A i, j \in 1..size : NodeAt[i] = NodeAt[j] => i = j
  BY DEF IsList
<1>2. Linked = {NodeAt[i] : i \in 1..size}
  BY DEF Linked
<1>. DEFINE f == [i \in 1..size |-> NodeAt[i]]
<1>3. f \in Bijection(1..size, Linked)
  BY <1>1, <1>2 DEF Bijection, Injection, Surjection, IsInjective
<1>4. ExistsBijection(1..size, Linked)
  BY <1>3 DEF ExistsBijection
<1>. QED BY <1>4, FS_CountingElements

\* queue.c: head, tail, size and the links are one list, a puller's node is its
\* own and out of the list, and the heap holds nothing else.
THEOREM SpecNodesAreOwned == Spec => []NodesAreOwned
<1>1. IInv => NodesAreOwned
  <2>1. SUFFICES ASSUME IInv PROVE NodesAreOwned
    OBVIOUS
  <2>2. ASSUME alive
        PROVE  /\ size = 0 <=> head = Null
               /\ size = 0 <=> tail = Null
               /\ size > 0 => tail = NodeAt[size] /\ next[tail] = Null
               /\ Cardinality(Linked) = size
    <3>1. size \in Nat /\ IsList(NodeAt, head, tail, next, size)
      BY <2>1, <2>2 DEF IInv, TypeOK, Chained
    <3>2. size # 0 => head = NodeAt[1] /\ head \in Nodes
      <4>1. size # 0 => 1 \in 1..size
        BY <3>1
      <4>. HIDE DEF NodeAt
      <4>. QED BY <3>1, <4>1 DEF IsList, IsWalk
    <3>3. size # 0 => tail = NodeAt[size] /\ tail \in Nodes /\ next[tail] = Null
      BY <3>1 DEF IsList
    <3>4. size = 0 => head = Null /\ tail = Null
      BY <3>1 DEF IsList
    <3>5. Cardinality(Linked) = size
      BY <2>2, <3>1, LinkedAreCounted
    <3>. QED BY <3>1, <3>2, <3>3, <3>4, <3>5, QueueAssumption
  <2>. QED BY <2>1, <2>2 DEF IInv, NodesAreOwned, Owned, Hands
<1>. QED BY <1>1, Invariance, PTL
-------------------------------------------------------------------------------
LEMMA NoStrandedStep == TypeOK /\ NoStrandedCaller /\ [Next]_vars => NoStrandedCaller'
<1>1. SUFFICES ASSUME TypeOK, NoStrandedCaller, [Next]_vars PROVE NoStrandedCaller'
  OBVIOUS
<1>. USE DEF NoStrandedCaller, Full
<1>2. ASSUME NEW t \in Threads, NEW i \in Items, CallPush(t, i) PROVE NoStrandedCaller'
  BY <1>1, <1>2 DEF CallPush, Moves, TypeOK, list
<1>3. ASSUME NEW t \in Threads, CallPull(t) PROVE NoStrandedCaller'
  BY <1>1, <1>3 DEF CallPull, Moves, TypeOK, list
<1>4. ASSUME NEW t \in Threads, PushSleeps(t) \/ PullSleeps(t) PROVE NoStrandedCaller'
  BY <1>1, <1>4 DEF PushSleeps, PullSleeps, AtTest, Sleep, list
<1>5. ASSUME NEW t \in Threads, PushLinks(t) \/ PullUnlinks(t) PROVE NoStrandedCaller'
  BY <1>5 DEF PushLinks, PullUnlinks, AfterBroadcast
<1>6. ASSUME NEW t \in Threads, PullReturns(t) PROVE NoStrandedCaller'
  BY <1>1, <1>6 DEF PullReturns, Moves, TypeOK
<1>7. ASSUME NEW t \in Threads, SpuriousWakeup(t) PROVE NoStrandedCaller'
  BY <1>1, <1>7 DEF SpuriousWakeup, list
<1>8. CASE Destroy
  BY <1>1, <1>8 DEF Destroy
<1>9. CASE UNCHANGED vars
  BY <1>1, <1>9 DEF vars, list
<1>. QED BY <1>1, <1>2, <1>3, <1>4, <1>5, <1>6, <1>7, <1>8, <1>9 DEF Next, Step

\* queue.c: nobody sleeps in queue_pull beside an item or in queue_push beside
\* room, though pushers and pullers share the condition variable.
THEOREM SpecNoStrandedCaller == Spec => []NoStrandedCaller
<1>1. Init => NoStrandedCaller
  BY DEF Init, NoStrandedCaller
<1>2. IInv => TypeOK
  BY DEF IInv
<1>. QED BY <1>1, <1>2, NoStrandedStep, Invariance, PTL DEF Spec
-------------------------------------------------------------------------------
\* Only a pusher carries an item in.
Carries == \A t \in Threads : pc[t] # "push" => item[t] = NoItem

LEMMA CarriesStep == TypeOK /\ Carries /\ [Next]_vars => Carries'
<1>1. SUFFICES ASSUME TypeOK, Carries, [Next]_vars PROVE Carries'
  OBVIOUS
<1>. USE DEF Carries, TypeOK, Moves
<1>2. ASSUME NEW t \in Threads, NEW i \in Items, CallPush(t, i) PROVE Carries'
  BY <1>1, <1>2 DEF CallPush
<1>3. ASSUME NEW t \in Threads, CallPull(t) \/ PushLinks(t) \/ PullUnlinks(t) \/ PullReturns(t)
      PROVE  Carries'
  BY <1>1, <1>3 DEF CallPull, PushLinks, PullUnlinks, PullReturns
<1>4. ASSUME NEW t \in Threads, PushSleeps(t) \/ PullSleeps(t) \/ SpuriousWakeup(t)
      PROVE  Carries'
  BY <1>1, <1>4 DEF PushSleeps, PullSleeps, SpuriousWakeup, Sleep
<1>5. CASE Destroy \/ UNCHANGED vars
  BY <1>1, <1>5 DEF Destroy, vars
<1>. QED BY <1>1, <1>2, <1>3, <1>4, <1>5 DEF Next, Step

\* What the abstract queue holds, and what each thread carries, as Abs has them.
Contents == [i \in 1..size |-> data[NodeAt[i]]]
Handed == [t \in Threads |-> IF pc[t] = "pulled" THEN data[temp[t]] ELSE item[t]]

LEMMA ContentsIsASequence ==
    ASSUME IInv, alive
    PROVE  Contents \in Seq(Items \cup {NoItem}) /\ Len(Contents) = size
<1>1. size \in Nat /\ \A i \in 1..size : data[NodeAt[i]] \in Items \cup {NoItem}
  BY DEF IInv, TypeOK, Chained, IsList
<1>. QED BY <1>1 DEF Contents

LEMMA PushRefines ==
    ASSUME IInv, Carries, NEW t \in Threads, PushLinks(t)
    PROVE  Abs!Push(t)
<1>1. PICK x \in Nodes \ heap : LinkBehind(x, item[t]) /\ NodeAt' = Behind(NodeAt, size, x)
  BY PushLinksStep
<1>2. /\ pc[t] = "push" /\ alive /\ alive' = alive /\ temp' = temp /\ maxSize' = maxSize
      /\ pc' = [pc EXCEPT ![t] = "idle"] /\ item' = [item EXCEPT ![t] = NoItem] /\ ~Full
      /\ data' = [data EXCEPT ![x] = item[t]] /\ size' = size + 1
  BY <1>1 DEF PushLinks, AtTest, Moves, Hands, LinkBehind, IInv, TypeOK
<1>3. /\ Contents \in Seq(Items \cup {NoItem}) /\ Len(Contents) = size
      /\ size \in Nat /\ item[t] \in Items \cup {NoItem}
  BY <1>2, ContentsIsASequence DEF IInv, TypeOK
<1>4. \A i \in 1..size : NodeAt[i] \in heap
  BY <1>2 DEF IInv, Owned, Linked
<1>5. Contents' = Append(Contents, item[t])
  <2>1. Contents' = [i \in 1..size + 1 |-> data'[NodeAt'[i]]]
    BY <1>2 DEF Contents
  <2>2. \A i \in 1..size : data'[NodeAt'[i]] = data[NodeAt[i]]
    BY <1>1, <1>2, <1>3, <1>4 DEF Behind, IInv, TypeOK
  <2>3. data'[NodeAt'[size + 1]] = item[t]
    BY <1>1, <1>2, <1>3 DEF Behind, IInv, TypeOK
  <2>4. Append(Contents, item[t]) = [i \in 1..size + 1 |-> IF i = size + 1 THEN item[t] ELSE data[NodeAt[i]]]
    BY <1>3 DEF Contents
  <2>. QED BY <1>3, <2>1, <2>2, <2>3, <2>4
<1>6. Handed' = [Handed EXCEPT ![t] = NoItem] /\ Handed[t] = item[t]
  <2>1. \A u \in Threads : pc[u] = "pulled" => temp[u] \in Nodes /\ temp[u] # x
    BY <1>1 DEF IInv, Owned, Held, Hands, TypeOK
  <2>2. ASSUME NEW u \in Threads
        PROVE  Handed'[u] = IF u = t THEN NoItem ELSE Handed[u]
    BY <1>2, <2>1 DEF Handed, IInv, TypeOK
  <2>. QED BY <1>2, <2>2 DEF Handed
<1>7. ~(maxSize > 0 /\ Len(Contents) = maxSize)
  BY <1>2, <1>3 DEF Full
<1>. QED
  BY <1>2, <1>5, <1>6, <1>7 DEF Abs!Push, Abs!Moves, Abs!Full, Contents, Handed

LEMMA PullRefines ==
    ASSUME IInv, Carries, NEW t \in Threads, PullUnlinks(t)
    PROVE  Abs!Pull(t)
<1>1. NodeAt' = Below(NodeAt, size) /\ head = NodeAt[1]
  BY PullUnlinksStep
<1>2. /\ pc[t] = "pull" /\ size # 0 /\ alive /\ alive' = alive /\ maxSize' = maxSize
      /\ temp' = [temp EXCEPT ![t] = head] /\ size' = size - 1
      /\ pc' = [pc EXCEPT ![t] = "pulled"] /\ item' = item /\ data' = data
  BY DEF PullUnlinks, AtTest, Moves, Hands, IInv, TypeOK
<1>3. Contents \in Seq(Items \cup {NoItem}) /\ Len(Contents) = size /\ size \in Nat
  BY <1>2, ContentsIsASequence DEF IInv, TypeOK
<1>4. Contents' = Tail(Contents) /\ Contents # <<>> /\ Head(Contents) = data[head]
  <2>1. Contents' = [i \in 1..size - 1 |-> data[NodeAt[i + 1]]]
    BY <1>1, <1>2, <1>3 DEF Contents, Below
  <2>2. Tail(Contents) = [i \in 1..size - 1 |-> data[NodeAt[i + 1]]]
    BY <1>2, <1>3 DEF Contents
  <2>3. Contents[1] = data[head] /\ Contents # <<>>
    BY <1>1, <1>2, <1>3 DEF Contents
  <2>. QED BY <1>3, <2>1, <2>2, <2>3
<1>5. Handed' = [Handed EXCEPT ![t] = data[head]]
  BY <1>2 DEF Handed, IInv, TypeOK
<1>. QED BY <1>2, <1>4, <1>5 DEF Abs!Pull, Abs!Moves, Contents, Handed

LEMMA ReturnRefines ==
    ASSUME IInv, Carries, NEW t \in Threads, PullReturns(t)
    PROVE  Abs!Return(t)
<1>1. NodeAt' = NodeAt
  BY PullReturnsStep
<1>2. /\ pc[t] = "pulled" /\ pc' = [pc EXCEPT ![t] = "idle"] /\ temp' = [temp EXCEPT ![t] = Null]
      /\ data' = [data EXCEPT ![temp[t]] = NoItem] /\ alive
      /\ UNCHANGED <<size, item, alive, maxSize>>
  BY DEF PullReturns, Moves, IInv, Hands
<1>3. temp[t] \in Held /\ \A i \in 1..size : NodeAt[i] # temp[t]
  BY <1>2 DEF IInv, Owned, Held, Linked
<1>4. Contents' = Contents
  BY <1>1, <1>2, <1>3 DEF Contents, IInv, TypeOK, Chained, IsList
<1>5. Handed' = [Handed EXCEPT ![t] = NoItem]
  <2>1. \A u \in Threads \ {t} : pc[u] = "pulled" => temp[u] \in Nodes /\ temp[u] # temp[t]
    BY <1>2 DEF IInv, Hands, TypeOK
  <2>2. item[t] = NoItem
    BY <1>2 DEF Carries
  <2>3. ASSUME NEW u \in Threads
        PROVE  Handed'[u] = IF u = t THEN NoItem ELSE Handed[u]
    BY <1>2, <2>1, <2>2 DEF Handed, IInv, TypeOK
  <2>. QED BY <1>2, <2>3 DEF Handed
<1>. QED BY <1>2, <1>4, <1>5 DEF Abs!Return, Abs!Moves, Contents, Handed

\* queue.c implements the safety part of what queue.h promises: the linked list
\* is a FIFO and every pull returns the item it took.
THEOREM SpecImplementsSafe == Spec => Abs!SafeSpec
<1>1. Init => Abs!Init /\ Carries
  BY DEF Init, Abs!Init, Carries
<1>2. IInv /\ Carries /\ [Next]_vars => [Abs!Next]_(Abs!vars)
  <2>1. SUFFICES ASSUME IInv, Carries, [Next]_vars PROVE [Abs!Next]_(Abs!vars)
    OBVIOUS
  <2>. USE DEF Abs!Next, Abs!vars
  <2>2. ASSUME NEW t \in Threads, NEW i \in Items, CallPush(t, i) PROVE Abs!Next
    <3>1. /\ pc[t] = "idle" /\ pc' = [pc EXCEPT ![t] = "push"] /\ item' = [item EXCEPT ![t] = i]
          /\ alive /\ UNCHANGED <<size, data, temp, alive, maxSize>> /\ NodeAt' = NodeAt
      BY <2>2 DEF CallPush, Moves, list, NodeAt
    <3>2. Handed' = [Handed EXCEPT ![t] = i]
      BY <2>1, <3>1 DEF Handed, IInv, TypeOK
    <3>3. Abs!CallPush(t, i)
      BY <3>1, <3>2 DEF Abs!CallPush, Abs!Moves, Handed
    <3>. QED BY <3>3
  <2>3. ASSUME NEW t \in Threads, CallPull(t) PROVE Abs!Next
    <3>1. Abs!CallPull(t)
      BY <2>1, <2>3 DEF CallPull, Moves, Abs!CallPull, Abs!Moves, IInv, TypeOK, list, NodeAt, Carries
    <3>. QED BY <3>1
  <2>4. ASSUME NEW t \in Threads, PushLinks(t) \/ PullUnlinks(t) \/ PullReturns(t) PROVE Abs!Next
    BY <2>1, <2>4, PushRefines, PullRefines, ReturnRefines
  <2>5. ASSUME NEW t \in Threads, PushSleeps(t) \/ PullSleeps(t) \/ SpuriousWakeup(t)
        PROVE  UNCHANGED Abs!vars
    <3>1. UNCHANGED <<pc, item, temp, size, data, alive, maxSize>> /\ NodeAt' = NodeAt
      BY <2>5 DEF PushSleeps, PullSleeps, SpuriousWakeup, Sleep, list, NodeAt
    <3>. QED BY <3>1
  <2>6. CASE Destroy
    <3>1. Abs!Destroy
      BY <2>6 DEF Destroy, Abs!Destroy
    <3>. QED BY <3>1
  <2>7. CASE UNCHANGED vars
    BY <2>7 DEF vars, list, NodeAt
  <2>. QED BY <2>1, <2>2, <2>3, <2>4, <2>5, <2>6, <2>7 DEF Next, Step
<1>3. IInv => TypeOK
  BY DEF IInv
<1>. QED BY <1>1, <1>2, <1>3, CarriesStep, Invariance, PTL DEF Spec, Abs!SafeSpec
===============================================================================
