------------------------------- MODULE LibDrm --------------------------------
(***************************************************************************)
(* deadlock_demolition/libdrm.c: mutexes (drms) that refuse a request that *)
(* would close a cycle in a resource allocation graph.  One global mutex m *)
(* guards the graph, but the drm's own mutex pm is locked after m is       *)
(* released, and the graph is brought up to date after that: between the   *)
(* two the graph still shows the new owner as a mere requester.            *)
(*                                                                         *)
(* A section under m is one step; pthread_mutex_lock(&drm->pm) is another. *)
(* A thread passes its own id, and destroys a drm nobody uses.             *)
(***************************************************************************)
EXTENDS Naturals, FiniteSets

CONSTANTS Threads, Drms, NoThread, NoDrm

ASSUME DrmAssumption ==
    /\ Threads \cap Drms = {}
    /\ NoThread \notin Threads
    /\ NoDrm \notin Drms

VARIABLES vertices, edges,   \* the graph g
          owner,             \* owner[d]: the thread that has d->pm locked
          pc,                \* where a thread is in drm_wait
          want,              \* want[t]: the drm it waits for
          answer             \* answer[t]: what its last call returned
vars == <<vertices, edges, owner, pc, want, answer>>

Init ==
    /\ vertices = {} /\ edges = {}
    /\ owner = [d \in Drms |-> NoThread]
    /\ pc = [t \in Threads |-> "idle"]
    /\ want = [t \in Threads |-> NoDrm]
    /\ answer = [t \in Threads |-> 0]

Returns(t, r) == answer' = [answer EXCEPT ![t] = r]

\* The nodes graph_neighbors leads to from n, however many steps away.
Closed(E, C) == \A e \in E : e[1] \in C => e[2] \in C
Reach(E, n) ==
    {x \in Threads \cup Drms :
        \A C \in SUBSET (Threads \cup Drms) : n \in C /\ Closed(E, C) => x \in C}

\* The depth-first search marks nodes in one set that it never clears: it
\* answers 1 as soon as it comes to any node a second time.
isCyclic(E, n) ==
    LET R == Reach(E, n) IN
    \/ \E p \in R : <<p, n>> \in E
    \/ \E x, p, q \in R : p # q /\ <<p, x>> \in E /\ <<q, x>> \in E

DrmInit(d) ==
    /\ d \notin vertices
    /\ vertices' = vertices \cup {d}
    /\ UNCHANGED <<edges, owner, pc, want, answer>>

CallsWait(t, d) ==
    /\ pc[t] = "idle"
    /\ d \in vertices
    /\ vertices' = vertices \cup {t}

WaitRefusesOwner(t, d) ==
    /\ CallsWait(t, d)
    /\ <<d, t>> \in edges
    /\ Returns(t, 0)
    /\ UNCHANGED <<edges, owner, pc, want>>

\* The new edge goes in, closes a cycle, and comes out again.
WaitRefusesCycle_LeavesEdge(t, d) ==
    /\ CallsWait(t, d)
    /\ <<d, t>> \notin edges
    /\ isCyclic(edges \cup {<<t, d>>}, d)
    /\ edges' = edges \cup {<<t, d>>}
    /\ Returns(t, 0)
    /\ UNCHANGED <<owner, pc, want>>

WaitRefusesCycle(t, d) ==
    /\ CallsWait(t, d)
    /\ <<d, t>> \notin edges
    /\ isCyclic(edges \cup {<<t, d>>}, d)
    /\ Returns(t, 0)
    /\ UNCHANGED <<edges, owner, pc, want>>

\* Check, then add: the search does not see the edge it asks about.
WaitRequests_CheckFirst(t, d) ==
    /\ CallsWait(t, d)
    /\ <<d, t>> \notin edges
    /\ ~isCyclic(edges, d)
    /\ edges' = edges \cup {<<t, d>>}
    /\ pc' = [pc EXCEPT ![t] = "acquire"]
    /\ want' = [want EXCEPT ![t] = d]
    /\ UNCHANGED <<owner, answer>>

WaitRequests(t, d) ==
    /\ CallsWait(t, d)
    /\ <<d, t>> \notin edges
    /\ ~isCyclic(edges \cup {<<t, d>>}, d)
    /\ edges' = edges \cup {<<t, d>>}
    /\ pc' = [pc EXCEPT ![t] = "acquire"]
    /\ want' = [want EXCEPT ![t] = d]
    /\ UNCHANGED <<owner, answer>>

\* pthread_mutex_lock(&drm->pm), with m released.
WaitLocks(t) ==
    /\ pc[t] = "acquire"
    /\ owner[want[t]] = NoThread
    /\ owner' = [owner EXCEPT ![want[t]] = t]
    /\ pc' = [pc EXCEPT ![t] = "record"]
    /\ UNCHANGED <<vertices, edges, want, answer>>

\* The request edge becomes an ownership edge.
WaitRecords_KeepsRequest(t) ==
    /\ pc[t] = "record"
    /\ edges' = edges \cup {<<want[t], t>>}
    /\ pc' = [pc EXCEPT ![t] = "idle"]
    /\ want' = [want EXCEPT ![t] = NoDrm]
    /\ Returns(t, 1)
    /\ UNCHANGED <<vertices, owner>>

WaitRecords(t) ==
    /\ pc[t] = "record"
    /\ edges' = (edges \ {<<t, want[t]>>}) \cup {<<want[t], t>>}
    /\ pc' = [pc EXCEPT ![t] = "idle"]
    /\ want' = [want EXCEPT ![t] = NoDrm]
    /\ Returns(t, 1)
    /\ UNCHANGED <<vertices, owner>>

PostUnknown(t, d) ==
    /\ pc[t] = "idle"
    /\ t \notin vertices \/ d \notin vertices
    /\ Returns(t, 0)
    /\ UNCHANGED <<vertices, edges, owner, pc, want>>

PostUnlocks_KeepsLock(t, d) ==
    /\ pc[t] = "idle"
    /\ t \in vertices /\ d \in vertices
    /\ <<d, t>> \in edges
    /\ edges' = edges \ {<<d, t>>}
    /\ Returns(t, 1)
    /\ UNCHANGED <<vertices, owner, pc, want>>

PostUnlocks(t, d) ==
    /\ pc[t] = "idle"
    /\ t \in vertices /\ d \in vertices
    /\ <<d, t>> \in edges
    /\ edges' = edges \ {<<d, t>>}
    /\ owner' = [owner EXCEPT ![d] = NoThread]
    /\ Returns(t, 1)
    /\ UNCHANGED <<vertices, pc, want>>

\* A thread that does not hold the drm is told 1 as well.
PostIgnored(t, d) ==
    /\ pc[t] = "idle"
    /\ t \in vertices /\ d \in vertices
    /\ <<d, t>> \notin edges
    /\ Returns(t, 1)
    /\ UNCHANGED <<vertices, edges, owner, pc, want>>

DrmDestroy(d) ==
    /\ d \in vertices
    /\ owner[d] = NoThread
    /\ \A t \in Threads : want[t] # d
    /\ vertices' = vertices \ {d}
    /\ edges' = {e \in edges : d \notin {e[1], e[2]}}
    /\ UNCHANGED <<owner, pc, want, answer>>

Next ==
    \/ \E d \in Drms : DrmInit(d) \/ DrmDestroy(d)
    \/ \E t \in Threads : WaitLocks(t) \/ WaitRecords(t)
    \/ \E t \in Threads, d \in Drms :
        \/ WaitRefusesOwner(t, d)
        \/ WaitRefusesCycle(t, d)
        \/ WaitRequests(t, d)
        \/ PostUnknown(t, d)
        \/ PostUnlocks(t, d)
        \/ PostIgnored(t, d)

Spec == Init /\ [][Next]_vars

\* A pthread mutex that keeps becoming free is not denied to one thread for
\* ever, and the program that uses the drms posts what it holds.
FairSpec ==
    /\ Spec
    /\ \A t \in Threads : WF_vars(WaitRecords(t)) /\ SF_vars(WaitLocks(t))
    /\ \A t \in Threads, d \in Drms : SF_vars(PostUnlocks(t, d))
------------------------------------------------------------------------------
TypeOK ==
    /\ vertices \in SUBSET (Threads \cup Drms)
    /\ edges \in SUBSET ((Threads \X Drms) \cup (Drms \X Threads))
    /\ \A e \in edges : e[1] \in vertices /\ e[2] \in vertices
    /\ owner \in [Drms -> Threads \cup {NoThread}]
    /\ pc \in [Threads -> {"idle", "acquire", "record"}]
    /\ want \in [Threads -> Drms \cup {NoDrm}]
    /\ answer \in [Threads -> {0, 1}]

\* t has locked d->pm and has not yet said so in the graph.
Unrecorded(t, d) == pc[t] = "record" /\ want[t] = d

\* Outside that window the graph says exactly who waits and who owns.
GraphIsCurrent == \A t \in Threads, d \in Drms :
    /\ <<t, d>> \in edges <=> pc[t] # "idle" /\ want[t] = d
    /\ <<d, t>> \in edges <=> owner[d] = t /\ ~Unrecorded(t, d)

\* Every thread of S waits for a drm that a thread of S has locked.
Deadlocked(S, at, wanted) ==
    /\ S # {}
    /\ \A t \in S : at[t] = "acquire" /\ owner[wanted[t]] \in S

\* No set of threads ever waits for itself, though a request is checked against
\* a graph that may lag behind the locks.
NoDeadlock == \A S \in SUBSET Threads : ~Deadlocked(S, pc, want)

\* A request is refused for a cycle only if granting it would deadlock there and
\* then: a lagging graph causes no false refusal.
RefusalsAreNecessary == [][\A t \in Threads, d \in Drms :
    WaitRefusesCycle(t, d) =>
        \E S \in SUBSET Threads :
            /\ t \in S
            /\ Deadlocked(S, [pc EXCEPT ![t] = "acquire"], [want EXCEPT ![t] = d])]_vars

\* A request that is let in gets its drm, if those who hold drms post them.
AdmittedRequestsAreServed ==
    \A t \in Threads : pc[t] = "acquire" ~> pc[t] = "idle"
==============================================================================
