---------------------------- MODULE LibDrm_proofs ----------------------------
(***************************************************************************)
(* drm_wait never lets a deadlock form, for any sets of threads and drms.  *)
(*                                                                         *)
(* The argument: the graph is the waits and the recorded ownerships, so it *)
(* lags behind only for a thread that has just locked a drm and is not     *)
(* blocked.  When a request t -> d is let in, the nodes d leads to do not  *)
(* include t.  If a set S deadlocked by that request existed, the threads  *)
(* of S that d leads to would already have been deadlocked without t.      *)
(*                                                                         *)
(* Nor does it refuse for nothing.  With the request in, each node has at  *)
(* most one edge out, so a way on which the search meets a node twice goes *)
(* round for ever: each thread on it waits for a drm that the next thread  *)
(* owns.  These wait for one another, and t is one of them, since without  *)
(* t they would be deadlocked already.                                     *)
(***************************************************************************)
EXTENDS LibDrm, TLAPS

\* Where a thread is, what it wants and what it has just locked agree.
PlacesAgree == \A t \in Threads :
    /\ pc[t] = "idle" <=> want[t] = NoDrm
    /\ pc[t] = "record" => owner[want[t]] = t

IInv == TypeOK /\ PlacesAgree /\ GraphIsCurrent /\ NoDeadlock

LEMMA InitIInv == Init => IInv
<1>1. SUFFICES ASSUME Init PROVE IInv
  OBVIOUS
<1>2. TypeOK
  BY <1>1 DEF Init, TypeOK
<1>3. GraphIsCurrent /\ PlacesAgree
  BY <1>1, DrmAssumption DEF Init, GraphIsCurrent, PlacesAgree
<1>4. NoDeadlock
  BY <1>1 DEF Init, NoDeadlock, Deadlocked
<1>. QED BY <1>2, <1>3, <1>4 DEF IInv

\* The three parts that are about the bookkeeping, together.
Books == TypeOK /\ PlacesAgree /\ GraphIsCurrent

LEMMA BooksStep == Books /\ [Next]_vars => Books'
<1>1. SUFFICES ASSUME Books, [Next]_vars PROVE Books'
  OBVIOUS
<1>. USE DrmAssumption DEF Books, TypeOK, PlacesAgree, GraphIsCurrent, Unrecorded
<1>2. ASSUME NEW d \in Drms, DrmInit(d) PROVE Books'
  BY <1>1, <1>2 DEF DrmInit
<1>3. ASSUME NEW d \in Drms, DrmDestroy(d) PROVE Books'
  BY <1>1, <1>3 DEF DrmDestroy
<1>4. ASSUME NEW t \in Threads, WaitLocks(t) PROVE Books'
  BY <1>1, <1>4 DEF WaitLocks
<1>5. ASSUME NEW t \in Threads, WaitRecords(t) PROVE Books'
  <2>1. want[t] \in Drms /\ <<t, want[t]>> \in edges
    <3>1. pc[t] = "record" /\ want[t] \in Drms
      BY <1>1, <1>5 DEF WaitRecords
    <3>. QED BY <1>1, <3>1
  <2>2. t \in vertices /\ want[t] \in vertices
    BY <1>1, <2>1
  <2>3. TypeOK'
    BY <1>1, <1>5, <2>1, <2>2 DEF WaitRecords, Returns
  <2>4. PlacesAgree' /\ GraphIsCurrent'
    BY <1>1, <1>5, <2>1 DEF WaitRecords, Returns
  <2>. QED BY <2>3, <2>4
<1>6. ASSUME NEW t \in Threads, NEW d \in Drms, WaitRefusesOwner(t, d) PROVE Books'
  BY <1>1, <1>6 DEF WaitRefusesOwner, CallsWait, Returns
<1>7. ASSUME NEW t \in Threads, NEW d \in Drms, WaitRefusesCycle(t, d) PROVE Books'
  BY <1>1, <1>7 DEF WaitRefusesCycle, CallsWait, Returns
<1>8. ASSUME NEW t \in Threads, NEW d \in Drms, WaitRequests(t, d) PROVE Books'
  BY <1>1, <1>8 DEF WaitRequests, CallsWait
<1>9. ASSUME NEW t \in Threads, NEW d \in Drms, PostUnknown(t, d) PROVE Books'
  BY <1>1, <1>9 DEF PostUnknown, Returns
<1>10. ASSUME NEW t \in Threads, NEW d \in Drms, PostUnlocks(t, d) PROVE Books'
  <2>1. /\ edges' = edges \ {<<d, t>>} /\ owner' = [owner EXCEPT ![d] = NoThread]
        /\ pc' = pc /\ want' = want /\ vertices' = vertices /\ pc[t] = "idle"
        /\ owner[d] = t
    BY <1>1, <1>10 DEF PostUnlocks
  <2>2. TypeOK'
    BY <1>1, <1>10, <2>1 DEF PostUnlocks, Returns
  <2>3. PlacesAgree'
    BY <1>1, <2>1
  <2>4. ASSUME NEW u \in Threads, NEW x \in Drms
        PROVE  /\ <<u, x>> \in edges' <=> pc[u] # "idle" /\ want[u] = x
               /\ <<x, u>> \in edges' <=> owner'[x] = u /\ ~(pc[u] = "record" /\ want[u] = x)
    <3>1. <<u, x>> # <<d, t>>
      BY DrmAssumption
    <3>2. <<u, x>> \in edges' <=> <<u, x>> \in edges
      BY <2>1, <3>1
    <3>3. CASE x = d
      BY <1>1, <2>1, <3>2, <3>3
    <3>4. CASE x # d
      BY <1>1, <2>1, <3>2, <3>4
    <3>. QED BY <3>3, <3>4
  <2>. QED BY <2>1, <2>2, <2>3, <2>4
<1>11. ASSUME NEW t \in Threads, NEW d \in Drms, PostIgnored(t, d) PROVE Books'
  BY <1>1, <1>11 DEF PostIgnored, Returns
<1>12. CASE UNCHANGED vars
  BY <1>1, <1>12 DEF vars
<1>. QED
  BY <1>1, <1>2, <1>3, <1>4, <1>5, <1>6, <1>7, <1>8, <1>9, <1>10, <1>11, <1>12 DEF Next

\* A search that finds no cycle after t -> d went in has not come to t: some set
\* of nodes holds d, is closed under the edges, and leaves t out.
LEMMA AcyclicKeepsAway ==
    ASSUME NEW t \in Threads, NEW d \in Drms,
           ~isCyclic(edges \cup {<<t, d>>}, d)
    PROVE  \E C \in SUBSET (Threads \cup Drms) :
               d \in C /\ t \notin C /\ Closed(edges, C)
<1>. DEFINE E == edges \cup {<<t, d>>}
<1>1. t \notin Reach(E, d)
  BY DEF isCyclic
<1>2. PICK C \in SUBSET (Threads \cup Drms) : d \in C /\ Closed(E, C) /\ t \notin C
  BY <1>1 DEF Reach
<1>3. Closed(edges, C)
  BY <1>2 DEF Closed
<1>. QED BY <1>2, <1>3

\* A request that is let in closes no circle of waiting threads.
LEMMA RequestIsSafe ==
    ASSUME IInv, NEW t \in Threads, NEW d \in Drms, WaitRequests(t, d),
           NEW S \in SUBSET Threads, Deadlocked(S, pc, want)'
    PROVE  FALSE
<1>1. /\ pc[t] = "idle" /\ pc' = [pc EXCEPT ![t] = "acquire"]
      /\ want' = [want EXCEPT ![t] = d] /\ owner' = owner
      /\ ~isCyclic(edges \cup {<<t, d>>}, d)
  BY DEF WaitRequests, CallsWait
<1>2. PICK C \in SUBSET (Threads \cup Drms) : d \in C /\ t \notin C /\ Closed(edges, C)
  BY <1>1, AcyclicKeepsAway
<1>3. /\ \A s \in S : pc'[s] = "acquire" /\ owner[want'[s]] \in S
      /\ S # {}
  BY <1>1 DEF Deadlocked
<1>4. \A s \in S \ {t} : pc[s] = "acquire" /\ want'[s] = want[s] /\ owner[want[s]] \in S
  BY <1>1, <1>3 DEF IInv, TypeOK
\* Who owns a drm of C and is blocked is in C, for its ownership is recorded.
<1>5. ASSUME NEW x \in Drms, x \in C, owner[x] \in S
      PROVE  owner[x] \in (S \cap C) \ {t}
  <2>1. CASE owner[x] = t
    <3>1. <<x, t>> \in edges
      BY <1>1, <2>1 DEF IInv, GraphIsCurrent, Unrecorded
    <3>2. <<x, t>>[1] \in C => <<x, t>>[2] \in C
      BY <1>2, <3>1 DEF Closed
    <3>. QED BY <1>2, <1>5, <3>2
  <2>2. CASE owner[x] # t
    <3>1. pc[owner[x]] = "acquire" /\ owner[x] \in Threads
      BY <1>4, <1>5, <2>2
    <3>2. <<x, owner[x]>> \in edges
      BY <3>1 DEF IInv, GraphIsCurrent, Unrecorded
    <3>3. <<x, owner[x]>>[1] \in C => <<x, owner[x]>>[2] \in C
      BY <1>2, <3>2 DEF Closed
    <3>. QED BY <1>5, <2>2, <3>3
  <2>. QED BY <2>1, <2>2
<1>6. CASE t \in S
  <2>. DEFINE T == (S \cap C) \ {t}
  <2>1. owner[d] \in T
    <3>1. owner[d] \in S
      BY <1>1, <1>3, <1>6 DEF IInv, TypeOK
    <3>. QED BY <1>2, <1>5, <3>1
  <2>2. ASSUME NEW s \in T PROVE pc[s] = "acquire" /\ owner[want[s]] \in T
    <3>1. pc[s] = "acquire" /\ owner[want[s]] \in S /\ s \in Threads
      BY <1>4, <2>2
    <3>2. want[s] \in Drms
      BY <3>1 DEF IInv, TypeOK, PlacesAgree
    <3>3. <<s, want[s]>> \in edges
      BY <3>1, <3>2 DEF IInv, GraphIsCurrent
    <3>4. <<s, want[s]>>[1] \in C => <<s, want[s]>>[2] \in C
      BY <1>2, <3>3 DEF Closed
    <3>. QED BY <1>5, <3>1, <3>2, <3>4, <2>2
  <2>3. Deadlocked(T, pc, want)
    BY <2>1, <2>2 DEF Deadlocked
  <2>. QED BY <2>3 DEF IInv, NoDeadlock
<1>7. CASE t \notin S
  <2>1. Deadlocked(S, pc, want)
    BY <1>3, <1>4, <1>7 DEF Deadlocked
  <2>. QED BY <2>1 DEF IInv, NoDeadlock
<1>. QED BY <1>6, <1>7

\* Every other step: a set deadlocked after it was deadlocked before it.
LEMMA OtherStepsAreSafe ==
    ASSUME IInv, NEW S \in SUBSET Threads, Deadlocked(S, pc, want)',
           \/ UNCHANGED <<owner, pc, want>>
           \/ \E t \in Threads : WaitLocks(t) \/ WaitRecords(t)
           \/ \E t \in Threads, d \in Drms : PostUnlocks(t, d)
    PROVE  FALSE
<1>1. /\ S # {}
      /\ \A s \in S : pc'[s] = "acquire" /\ owner'[want'[s]] \in S
  BY DEF Deadlocked
<1>2. Deadlocked(S, pc, want)
  <2>1. CASE UNCHANGED <<owner, pc, want>>
    BY <1>1, <2>1 DEF Deadlocked
  <2>2. ASSUME NEW t \in Threads, WaitLocks(t) PROVE Deadlocked(S, pc, want)
    <3>1. /\ pc' = [pc EXCEPT ![t] = "record"] /\ want' = want
          /\ owner' = [owner EXCEPT ![want[t]] = t]
      BY <2>2 DEF WaitLocks
    <3>2. t \notin S
      BY <1>1, <3>1 DEF IInv, TypeOK
    <3>3. \A s \in S : pc[s] = "acquire" /\ want[s] \in Drms
      BY <1>1, <3>1, <3>2 DEF IInv, TypeOK, PlacesAgree
    <3>4. \A s \in S : owner[want[s]] \in S
      BY <1>1, <3>1, <3>2, <3>3 DEF IInv, TypeOK
    <3>. QED BY <1>1, <3>3, <3>4 DEF Deadlocked
  <2>3. ASSUME NEW t \in Threads, WaitRecords(t) PROVE Deadlocked(S, pc, want)
    <3>1. /\ pc' = [pc EXCEPT ![t] = "idle"] /\ owner' = owner
          /\ want' = [want EXCEPT ![t] = NoDrm]
      BY <2>3 DEF WaitRecords
    <3>2. t \notin S
      BY <1>1, <3>1 DEF IInv, TypeOK
    <3>. QED BY <1>1, <3>1, <3>2 DEF Deadlocked, IInv, TypeOK
  <2>4. ASSUME NEW t \in Threads, NEW d \in Drms, PostUnlocks(t, d)
        PROVE  Deadlocked(S, pc, want)
    <3>1. pc' = pc /\ want' = want /\ owner' = [owner EXCEPT ![d] = NoThread]
      BY <2>4 DEF PostUnlocks
    <3>2. \A s \in S : pc[s] = "acquire" /\ want[s] \in Drms
      BY <1>1, <3>1 DEF IInv, TypeOK, PlacesAgree
    <3>. QED BY <1>1, <3>1, <3>2, DrmAssumption DEF Deadlocked, IInv, TypeOK
  <2>. QED BY <2>1, <2>2, <2>3, <2>4
<1>. QED BY <1>2 DEF IInv, NoDeadlock

LEMMA IInvStep == IInv /\ [Next]_vars => IInv'
<1>1. SUFFICES ASSUME IInv, [Next]_vars PROVE IInv'
  OBVIOUS
<1>2. Books'
  BY <1>1, BooksStep DEF IInv, Books
<1>3. ASSUME NEW S \in SUBSET Threads, Deadlocked(S, pc, want)' PROVE FALSE
  <2>1. CASE \E t \in Threads, d \in Drms : WaitRequests(t, d)
    BY <1>1, <1>3, <2>1, RequestIsSafe
  <2>2. CASE ~\E t \in Threads, d \in Drms : WaitRequests(t, d)
    <3>1. \/ UNCHANGED <<owner, pc, want>>
          \/ \E t \in Threads : WaitLocks(t) \/ WaitRecords(t)
          \/ \E t \in Threads, d \in Drms : PostUnlocks(t, d)
      BY <1>1, <2>2 DEF Next, vars, DrmInit, DrmDestroy, WaitRefusesOwner,
                        WaitRefusesCycle, PostUnknown, PostIgnored
    <3>. QED BY <1>1, <1>3, <3>1, OtherStepsAreSafe
  <2>. QED BY <2>1, <2>2
<1>4. NoDeadlock'
  BY <1>3 DEF NoDeadlock
<1>. QED BY <1>2, <1>4 DEF IInv, Books

LEMMA Invariance == Spec => []IInv
BY InitIInv, IInvStep, PTL DEF Spec

\* libdrm.c: no set of threads is ever blocked on drms it holds itself.
THEOREM SpecNoDeadlock == Spec => []NoDeadlock
<1>1. IInv => NoDeadlock
  BY DEF IInv
<1>. QED BY <1>1, Invariance, PTL

\* libdrm.c: the resource allocation graph says who waits and who owns, except
\* for an owner that has not yet recorded its lock.
THEOREM SpecGraphIsCurrent == Spec => []GraphIsCurrent
<1>1. IInv => GraphIsCurrent
  BY DEF IInv
<1>. QED BY <1>1, Invariance, PTL
------------------------------------------------------------------------------
(* The search, in a graph in which a node leads to one other at most.  An   *)
(* endless search and a node without successor exclude each other.          *)

Nodes == Threads \cup Drms
Single(E) ==
    /\ E \subseteq Nodes \X Nodes
    /\ \A x, y, z : <<x, y>> \in E /\ <<x, z>> \in E => y = z
    /\ \A x : <<x, x>> \notin E
Ends(E, z) == \A y : <<z, y>> \notin E

LEMMA ReachIsClosed ==
    ASSUME NEW E, E \subseteq Nodes \X Nodes, NEW n \in Nodes
    PROVE  /\ Reach(E, n) \subseteq Nodes /\ n \in Reach(E, n)
           /\ \A x, y : x \in Reach(E, n) /\ <<x, y>> \in E => y \in Reach(E, n)
<1>1. Reach(E, n) \subseteq Nodes /\ n \in Reach(E, n)
  BY DEF Reach, Nodes
<1>2. ASSUME NEW x, NEW y, x \in Reach(E, n), <<x, y>> \in E PROVE y \in Reach(E, n)
  <2>1. y \in Nodes
    BY <1>2
  <2>2. ASSUME NEW C \in SUBSET Nodes, n \in C, Closed(E, C) PROVE y \in C
    <3>1. x \in C
      BY <1>2, <2>2 DEF Reach, Nodes
    <3>2. <<x, y>>[1] \in C => <<x, y>>[2] \in C
      BY <1>2, <2>2 DEF Closed
    <3>. QED BY <3>1, <3>2
  <2>. QED BY <2>1, <2>2 DEF Reach, Nodes
<1>. QED BY <1>1, <1>2

\* What holds of n and passes along the edges holds of all that n leads to.
LEMMA ReachIsLeast ==
    ASSUME NEW E, E \subseteq Nodes \X Nodes, NEW n \in Nodes, NEW C, n \in C,
           \A x, y : x \in C /\ <<x, y>> \in E => y \in C
    PROVE  Reach(E, n) \subseteq C
<1>. DEFINE D == C \cap Nodes
<1>1. D \in SUBSET Nodes /\ n \in D
  OBVIOUS
<1>2. Closed(E, D)
  <2>1. ASSUME NEW e \in E, e[1] \in D PROVE e[2] \in D
    <3>1. e = <<e[1], e[2]>> /\ e[2] \in Nodes
      OBVIOUS
    <3>. QED BY <2>1, <3>1
  <2>. QED BY <2>1 DEF Closed
<1>. HIDE DEF D
<1>3. Reach(E, n) \subseteq D
  BY <1>1, <1>2 DEF Reach, Nodes
<1>. QED BY <1>3 DEF D

LEMMA ReachOfReach ==
    ASSUME NEW E, E \subseteq Nodes \X Nodes, NEW n \in Nodes, NEW m \in Reach(E, n)
    PROVE  Reach(E, m) \subseteq Reach(E, n)
BY ReachIsClosed, ReachIsLeast

\* All that x leads to is x and what its one successor leads to.
LEMMA ReachThrough ==
    ASSUME NEW E, Single(E), NEW x \in Nodes, NEW y, <<x, y>> \in E
    PROVE  Reach(E, x) \subseteq {x} \cup Reach(E, y)
<1>1. E \subseteq Nodes \X Nodes /\ y \in Nodes
  BY DEF Single
<1>2. PICK C : C = {x} \cup Reach(E, y)
  OBVIOUS
<1>3. \A a, b : a \in C /\ <<a, b>> \in E => b \in C
  BY <1>1, <1>2, ReachIsClosed DEF Single
<1>. QED BY <1>1, <1>2, <1>3, ReachIsLeast

LEMMA ReachOfEnd ==
    ASSUME NEW E, Single(E), NEW z \in Nodes, Ends(E, z)
    PROVE  Reach(E, z) \subseteq {z}
<1>1. E \subseteq Nodes \X Nodes /\ \A a, b : a \in {z} /\ <<a, b>> \in E => b \in {z}
  BY DEF Single, Ends
<1>. QED BY <1>1, ReachIsLeast

\* Who comes back to n never gets away from it, so comes to no end.
LEMMA CircleHasNoEnd ==
    ASSUME NEW E, Single(E), NEW n \in Nodes, NEW p \in Reach(E, n), <<p, n>> \in E
    PROVE  \A z \in Reach(E, n) : ~Ends(E, z)
<1>1. E \subseteq Nodes \X Nodes
  BY DEF Single
<1>2. PICK C : C = {m \in Nodes : n \in Reach(E, m)}
  OBVIOUS
<1>3. n \in C
  BY <1>1, <1>2, ReachIsClosed
<1>4. ASSUME NEW x, NEW y, x \in C, <<x, y>> \in E PROVE y \in C
  <2>1. x \in Nodes /\ y \in Nodes /\ n \in Reach(E, x)
    BY <1>1, <1>2, <1>4
  <2>2. n \in Reach(E, y)
    <3>1. CASE x # n
      BY <1>4, <2>1, <3>1, ReachThrough
    <3>2. CASE x = n
      <4>1. p # n
        BY DEF Single
      <4>2. p \in Reach(E, y)
        BY <1>4, <2>1, <3>2, <4>1, ReachThrough
      <4>. QED BY <1>1, <2>1, <4>2, ReachIsClosed
    <3>. QED BY <3>1, <3>2
  <2>. QED BY <1>2, <2>1, <2>2
<1>5. Reach(E, n) \subseteq C
  BY <1>1, <1>3, <1>4, ReachIsLeast
<1>6. ASSUME NEW z \in Reach(E, n), Ends(E, z) PROVE FALSE
  <2>1. z \in Nodes /\ n \in Reach(E, z)
    BY <1>2, <1>5
  <2>2. n = z
    BY <1>6, <2>1, ReachOfEnd
  <2>3. ~Ends(E, n)
    <3>1. CASE p = n
      BY <3>1 DEF Single
    <3>2. CASE p # n
      BY <3>2, ReachOfEnd
    <3>. QED BY <3>1, <3>2
  <2>. QED BY <1>6, <2>2, <2>3
<1>. QED BY <1>6

\* Of two nodes on one way, one leads to the other.
LEMMA OneWay ==
    ASSUME NEW E, Single(E), NEW n \in Nodes, NEW p \in Reach(E, n), NEW q \in Reach(E, n)
    PROVE  q \in Reach(E, p) \/ p \in Reach(E, q)
<1>1. E \subseteq Nodes \X Nodes /\ q \in Nodes
  BY ReachIsClosed DEF Single
<1>2. PICK C : C = {m \in Nodes : q \in Reach(E, m) \/ m \in Reach(E, q)}
  OBVIOUS
<1>3. ASSUME NEW x, NEW y, x \in C, <<x, y>> \in E PROVE y \in C
  <2>1. x \in Nodes /\ y \in Nodes /\ (q \in Reach(E, x) \/ x \in Reach(E, q))
    BY <1>1, <1>2, <1>3
  <2>2. CASE x \in Reach(E, q)
    BY <1>1, <1>2, <1>3, <2>1, <2>2, ReachIsClosed
  <2>3. CASE q \in Reach(E, x)
    <3>1. q = x \/ q \in Reach(E, y)
      BY <1>3, <2>1, <2>3, ReachThrough
    <3>2. CASE q = x
      BY <1>1, <1>2, <1>3, <2>1, <3>2, ReachIsClosed
    <3>. QED BY <1>2, <2>1, <3>1, <3>2
  <2>. QED BY <2>1, <2>2, <2>3
<1>4. n \in C
  BY <1>2
<1>5. Reach(E, n) \subseteq C
  BY <1>1, <1>3, <1>4, ReachIsLeast
<1>. QED BY <1>2, <1>5

\* isCyclic tells: a way on which a node is met twice has no end.
LEMMA CyclicHasNoEnd ==
    ASSUME NEW E, Single(E), NEW n \in Nodes, isCyclic(E, n)
    PROVE  \A z \in Reach(E, n) : ~Ends(E, z)
<1>1. E \subseteq Nodes \X Nodes
  BY DEF Single
<1>2. CASE \E p \in Reach(E, n) : <<p, n>> \in E
  BY <1>2, CircleHasNoEnd
<1>3. ASSUME NEW x \in Reach(E, n), NEW p \in Reach(E, n), NEW q \in Reach(E, n), p # q,
             <<p, x>> \in E, <<q, x>> \in E, q \in Reach(E, p)
      PROVE  \A z \in Reach(E, n) : ~Ends(E, z)
  <2>1. x \in Nodes /\ p \in Nodes
    BY <1>1, <1>3
  <2>2. q \in Reach(E, x)
    BY <1>3, <2>1, ReachThrough
  <2>3. \A z \in Reach(E, x) : ~Ends(E, z)
    BY <1>3, <2>1, <2>2, CircleHasNoEnd
  <2>4. ASSUME NEW z \in Reach(E, n), Ends(E, z) PROVE FALSE
    <3>1. z \in Nodes
      BY <1>1, ReachIsClosed
    <3>2. z \in Reach(E, x) \/ x \in Reach(E, z)
      BY OneWay
    <3>3. x = z => z \in Reach(E, x)
      BY <1>1, <2>1, ReachIsClosed
    <3>. QED BY <2>3, <2>4, <3>1, <3>2, <3>3, ReachOfEnd
  <2>. QED BY <2>4
<1>4. CASE \E x, p, q \in Reach(E, n) : p # q /\ <<p, x>> \in E /\ <<q, x>> \in E
  BY <1>3, <1>4, OneWay
<1>. QED BY <1>2, <1>4 DEF isCyclic
------------------------------------------------------------------------------
\* The graph with the request of a thread that waits for nothing else.
LEMMA GraphIsSingle ==
    ASSUME IInv, NEW t \in Threads, NEW d \in Drms, pc[t] = "idle"
    PROVE  Single(edges \cup {<<t, d>>})
<1>1. edges \cup {<<t, d>>} \subseteq Nodes \X Nodes
  BY DEF IInv, TypeOK, Nodes
<1>2. ASSUME NEW x, NEW y, NEW z, <<x, y>> \in edges \cup {<<t, d>>}, <<x, z>> \in edges \cup {<<t, d>>}
      PROVE  y = z
  <2>1. CASE x \in Threads
    <3>1. y \in Drms /\ z \in Drms
      BY <1>2, <2>1, DrmAssumption DEF IInv, TypeOK
    <3>2. \A v \in Drms : <<x, v>> \in edges => pc[x] # "idle" /\ want[x] = v
      BY <2>1 DEF IInv, GraphIsCurrent
    <3>3. CASE x = t
      BY <1>2, <3>1, <3>2, <3>3
    <3>4. CASE x # t
      <4>1. <<x, y>> \in edges /\ <<x, z>> \in edges
        BY <1>2, <3>4
      <4>. QED BY <3>1, <3>2, <4>1
    <3>. QED BY <3>3, <3>4
  <2>2. CASE x \in Drms
    <3>1. <<x, y>> \in edges /\ <<x, z>> \in edges
      BY <1>2, <2>2, DrmAssumption
    <3>2. y \in Threads /\ z \in Threads
      BY <2>2, <3>1, DrmAssumption DEF IInv, TypeOK
    <3>3. owner[x] = y /\ owner[x] = z
      BY <2>2, <3>1, <3>2 DEF IInv, GraphIsCurrent
    <3>. QED BY <3>3
  <2>. QED BY <1>1, <1>2, <2>1, <2>2 DEF Nodes
<1>3. \A x : <<x, x>> \notin edges \cup {<<t, d>>}
  BY DrmAssumption DEF IInv, TypeOK
<1>. QED BY <1>1, <1>2, <1>3 DEF Single

\* The threads on an endless way from d wait for one another.
LEMMA RefusalIsNecessary ==
    ASSUME IInv, NEW t \in Threads, NEW d \in Drms, WaitRefusesCycle(t, d)
    PROVE  \E S \in SUBSET Threads :
               /\ t \in S
               /\ Deadlocked(S, [pc EXCEPT ![t] = "acquire"], [want EXCEPT ![t] = d])
<1>1. pc[t] = "idle" /\ isCyclic(edges \cup {<<t, d>>}, d)
  BY DEF WaitRefusesCycle, CallsWait
<1>2. PICK E : E = edges \cup {<<t, d>>}
  OBVIOUS
<1>3. PICK R : R = Reach(E, d)
  OBVIOUS
<1>4. /\ Single(E) /\ E \subseteq Nodes \X Nodes /\ d \in Nodes /\ R \subseteq Nodes /\ d \in R
      /\ \A x, y : x \in R /\ <<x, y>> \in E => y \in R
      /\ \A z \in R : \E y \in R : <<z, y>> \in E
  <2>1. Single(E) /\ E \subseteq Nodes \X Nodes /\ d \in Nodes
    BY <1>1, <1>2, GraphIsSingle DEF Single, Nodes
  <2>2. /\ R \subseteq Nodes /\ d \in R
        /\ \A x, y : x \in R /\ <<x, y>> \in E => y \in R
    BY <1>3, <2>1, ReachIsClosed
  <2>3. \A z \in R : ~Ends(E, z)
    BY <1>1, <1>2, <1>3, <2>1, CyclicHasNoEnd
  <2>. QED BY <2>1, <2>2, <2>3 DEF Ends
<1>5. ASSUME NEW x \in Drms, x \in R
      PROVE  owner[x] \in R \cap Threads /\ ~Unrecorded(owner[x], x)
  <2>1. PICK o \in R : <<x, o>> \in edges
    BY <1>2, <1>4, <1>5, DrmAssumption
  <2>2. o \in Threads
    BY <1>5, <2>1, DrmAssumption DEF IInv, TypeOK
  <2>3. owner[x] = o /\ ~Unrecorded(o, x)
    BY <1>5, <2>1, <2>2 DEF IInv, GraphIsCurrent
  <2>. QED BY <2>1, <2>2, <2>3
<1>6. ASSUME NEW s \in Threads, s \in R, s # t
      PROVE  pc[s] = "acquire" /\ want[s] \in Drms /\ owner[want[s]] \in R \cap Threads
  <2>1. PICK x \in R : <<s, x>> \in edges
    BY <1>2, <1>4, <1>6
  <2>2. x \in Drms
    BY <1>6, <2>1, DrmAssumption DEF IInv, TypeOK
  <2>3. pc[s] # "idle" /\ want[s] = x
    BY <1>6, <2>1, <2>2 DEF IInv, GraphIsCurrent
  <2>4. pc[s] # "record"
    BY <1>5, <1>6, <2>1, <2>2, <2>3 DEF IInv, PlacesAgree, Unrecorded
  <2>. QED BY <1>5, <1>6, <2>1, <2>2, <2>3, <2>4 DEF IInv, TypeOK
<1>7. owner[d] \in R \cap Threads
  BY <1>4, <1>5
<1>8. t \in R
  <2>1. SUFFICES ASSUME t \notin R PROVE FALSE
    OBVIOUS
  <2>2. Deadlocked(R \cap Threads, pc, want)
    BY <1>6, <1>7, <2>1 DEF Deadlocked
  <2>. QED BY <2>2 DEF IInv, NoDeadlock
<1>9. Deadlocked(R \cap Threads, [pc EXCEPT ![t] = "acquire"], [want EXCEPT ![t] = d])
  <2>1. PICK at : at = [pc EXCEPT ![t] = "acquire"]
    OBVIOUS
  <2>2. PICK wanted : wanted = [want EXCEPT ![t] = d]
    OBVIOUS
  <2>3. /\ at[t] = "acquire" /\ wanted[t] = d
        /\ \A s \in Threads \ {t} : at[s] = pc[s] /\ wanted[s] = want[s]
    BY <2>1, <2>2 DEF IInv, TypeOK
  <2>4. \A s \in R \cap Threads : at[s] = "acquire" /\ owner[wanted[s]] \in R \cap Threads
    BY <1>6, <1>7, <2>3
  <2>5. Deadlocked(R \cap Threads, at, wanted)
    BY <1>8, <2>4 DEF Deadlocked
  <2>. QED BY <2>1, <2>2, <2>5
<1>. QED BY <1>8, <1>9

\* libdrm.c, drm_wait: a request is refused for a cycle only if granting it
\* would leave a set of threads waiting for itself, though the graph the search
\* walks may lag behind the locks.
THEOREM SpecRefusalsAreNecessary == Spec => RefusalsAreNecessary
<1>1. IInv => \A t \in Threads, d \in Drms : WaitRefusesCycle(t, d) =>
          \E S \in SUBSET Threads :
              /\ t \in S
              /\ Deadlocked(S, [pc EXCEPT ![t] = "acquire"], [want EXCEPT ![t] = d])
  BY RefusalIsNecessary
<1>. QED BY <1>1, Invariance, PTL DEF RefusalsAreNecessary
==============================================================================
