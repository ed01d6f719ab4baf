------------------------ MODULE SemamoreBarrier_proofs ------------------------
(***************************************************************************)
(* Proofs about semamore.c, for any finite set of threads and any bounds,  *)
(* and about barrier.c, for any number of threads and of uses: the barrier *)
(* is safe as long as pthread_cond_wait returns only after a broadcast,    *)
(* and never loses count of a sleeper even when it does not.               *)
(*                                                                         *)
(* The argument about the barrier: with an exact count the thread that     *)
(* completes it is the only one awake, so all have finished the use before *)
(* and all start the next.  times_used is then no less than the uses       *)
(* before, and so is what a thread reads of it: the first write of the use *)
(* makes up for it.                                                        *)
(***************************************************************************)
EXTENDS Semamore, Barrier, FiniteSetTheorems, TLAPS

-----------------------------------------------------------------------------
(* The semamore. *)

\* Only a thread inside a call can be asleep.
SleepersAreInCalls == \A t \in asleep : pc[t] \in {"wait", "post"}

IInv == TypeOK /\ SleepersAreInCalls /\ NoStrandedWaiter /\ NoStrandedPoster

\* The contending threads are a finite set, so their number is a natural.
LEMMA ContendingFinite ==
    ASSUME NEW op
    PROVE  IsFiniteSet(Contending(op)) /\ Cardinality(Contending(op)) \in Nat
<1>1. Contending(op) \subseteq Threads
  BY DEF Contending
<1>2. IsFiniteSet(Contending(op))
  BY <1>1, FS_Subset, SemamoreAssumption
<1>. QED BY <1>2, FS_CardinalityType

\* A step that keeps the value, and takes nobody out of the posters that
\* contend, keeps a promise made to the sleeping posters.
LEMMA MoreContending ==
    ASSUME TypeOK, TypeOK', NoStrandedPoster, value' = value,
           Contending("post") \subseteq Contending("post")',
           Asleep("post")' \subseteq Asleep("post")
    PROVE  NoStrandedPoster'
<1>1. /\ IsFiniteSet(Contending("post")') /\ Cardinality(Contending("post")') \in Nat
      /\ Cardinality(Contending("post")) \in Nat
  <2>1. Contending("post")' \subseteq Threads
    BY DEF Contending
  <2>2. IsFiniteSet(Contending("post")')
    BY <2>1, FS_Subset, SemamoreAssumption
  <2>. QED BY <2>2, FS_CardinalityType, ContendingFinite
<1>2. Cardinality(Contending("post")) <= Cardinality(Contending("post")')
  BY <1>1, FS_Subset
<1>3. value \in Int /\ MaxVal \in Int
  BY SemamoreAssumption DEF TypeOK
<1>. QED BY <1>1, <1>2, <1>3 DEF NoStrandedPoster

LEMMA InitIInv == Init => IInv
<1>1. SUFFICES ASSUME Init PROVE IInv
  OBVIOUS
<1>2. asleep = {} /\ Asleep("wait") = {} /\ Asleep("post") = {}
  BY <1>1 DEF Init, Asleep
<1>. QED
  BY <1>1, <1>2, SemamoreAssumption
     DEF Init, IInv, TypeOK, SleepersAreInCalls, NoStrandedWaiter, NoStrandedPoster

LEMMA TypeOKStep == TypeOK /\ [Next]_vars => TypeOK'
<1>1. SUFFICES ASSUME TypeOK, [Next]_vars PROVE TypeOK'
  OBVIOUS
<1>. USE SemamoreAssumption DEF TypeOK
<1>2. ASSUME NEW t \in Threads, NEW op \in {"wait", "post"}, Call(t, op) PROVE TypeOK'
  BY <1>1, <1>2 DEF Call
<1>3. ASSUME NEW t \in Threads, WaitSleeps(t) PROVE TypeOK'
  BY <1>1, <1>3 DEF WaitSleeps, Sleep
<1>4. ASSUME NEW t \in Threads, WaitTakes(t) PROVE TypeOK'
  BY <1>1, <1>4 DEF WaitTakes, Return, AfterSignal
<1>5. ASSUME NEW t \in Threads, PostSleeps(t) PROVE TypeOK'
  BY <1>1, <1>5 DEF PostSleeps, Sleep
<1>6. ASSUME NEW t \in Threads, PostGives(t) PROVE TypeOK'
  BY <1>1, <1>6 DEF PostGives, Return, AfterBroadcast
<1>7. ASSUME NEW t \in Threads, SpuriousWakeup(t) PROVE TypeOK'
  BY <1>1, <1>7 DEF SpuriousWakeup
<1>8. CASE UNCHANGED vars
  BY <1>1, <1>8 DEF vars
<1>. QED BY <1>1, <1>2, <1>3, <1>4, <1>5, <1>6, <1>7, <1>8 DEF Next, Step

LEMMA IInvStep == IInv /\ [Next]_vars => IInv'
<1>1. SUFFICES ASSUME IInv, [Next]_vars PROVE IInv'
  OBVIOUS
<1>2. TypeOK /\ TypeOK' /\ SleepersAreInCalls /\ NoStrandedWaiter /\ NoStrandedPoster
  BY <1>1, TypeOKStep DEF IInv
<1>. DEFINE Rest == SleepersAreInCalls' /\ NoStrandedWaiter' /\ NoStrandedPoster'
<1>3. ASSUME NEW t \in Threads, NEW op \in {"wait", "post"}, Call(t, op) PROVE Rest
  <2>1. t \notin asleep /\ asleep' = asleep /\ value' = value
    BY <1>2, <1>3 DEF Call, SleepersAreInCalls
  <2>2. /\ Asleep("wait")' = Asleep("wait") /\ Asleep("post")' = Asleep("post")
        /\ Contending("post") \subseteq Contending("post")'
    BY <1>2, <1>3, <2>1 DEF Call, Asleep, Contending, AtTest, TypeOK
  <2>3. NoStrandedPoster'
    BY <1>2, <2>1, <2>2, MoreContending
  <2>4. SleepersAreInCalls'
    BY <1>2, <1>3, <2>1 DEF Call, SleepersAreInCalls, TypeOK
  <2>. QED BY <1>2, <2>1, <2>2, <2>3, <2>4 DEF NoStrandedWaiter
<1>4. ASSUME NEW t \in Threads, WaitSleeps(t) PROVE Rest
  <2>1. /\ value = 0 /\ value' = value /\ pc' = pc /\ asleep' = asleep \cup {t}
        /\ pc[t] = "wait"
    BY <1>4 DEF WaitSleeps, Sleep, AtTest
  <2>2. Asleep("post")' = Asleep("post") /\ Contending("post") \subseteq Contending("post")'
    BY <2>1 DEF Asleep, Contending, AtTest
  <2>3. NoStrandedPoster'
    BY <1>2, <2>1, <2>2, MoreContending
  <2>. QED BY <1>2, <2>1, <2>3 DEF SleepersAreInCalls, NoStrandedWaiter
<1>5. ASSUME NEW t \in Threads, WaitTakes(t) PROVE Rest
  <2>1. /\ AtTest(t, "wait") /\ value # 0 /\ value' = value - 1
        /\ asleep' \in AfterSignal(asleep) /\ pc' = [pc EXCEPT ![t] = "idle"]
    BY <1>5 DEF WaitTakes, Return
  <2>2. Asleep("wait") = {}
    BY <1>2, <2>1 DEF NoStrandedWaiter
  <2>3. SleepersAreInCalls'
    BY <1>2, <2>1 DEF SleepersAreInCalls, AfterSignal, AtTest, TypeOK
  <2>4. CASE asleep = {}
    <3>1. asleep' = {}
      BY <2>1, <2>4 DEF AfterSignal
    <3>2. Asleep("wait")' = {} /\ Asleep("post")' = {}
      BY <3>1 DEF Asleep
    <3>. QED BY <2>3, <3>2 DEF NoStrandedWaiter, NoStrandedPoster
  <2>5. CASE asleep # {}
    <3>1. PICK u \in asleep : asleep' = asleep \ {u}
      BY <2>1, <2>5 DEF AfterSignal
    <3>2. pc[u] = "post" /\ u # t
      BY <1>2, <2>1, <2>2, <3>1 DEF Asleep, SleepersAreInCalls, AtTest
    <3>3. Contending("post")' = Contending("post") \cup {u} /\ u \notin Contending("post")
      BY <1>2, <2>1, <3>1, <3>2 DEF Contending, AtTest, TypeOK
    <3>4. Cardinality(Contending("post")') = Cardinality(Contending("post")) + 1
      BY <3>3, ContendingFinite, FS_AddElement
    <3>5. u \in Asleep("post")
      BY <3>1, <3>2 DEF Asleep
    <3>6. value + Cardinality(Contending("post")) >= MaxVal
      BY <1>2, <3>5 DEF NoStrandedPoster
    <3>7. value' + Cardinality(Contending("post")') >= MaxVal
      BY <1>2, <2>1, <3>4, <3>6, ContendingFinite, SemamoreAssumption DEF TypeOK
    <3>8. Asleep("wait")' = {}
      BY <1>2, <2>1, <2>2, <3>1 DEF Asleep, TypeOK
    <3>. QED BY <2>3, <3>7, <3>8 DEF NoStrandedWaiter, NoStrandedPoster
  <2>. QED BY <2>4, <2>5
<1>6. ASSUME NEW t \in Threads, PostSleeps(t) PROVE Rest
  <2>1. /\ value = MaxVal /\ value' = value /\ pc' = pc /\ asleep' = asleep \cup {t}
        /\ pc[t] = "post"
    BY <1>6 DEF PostSleeps, Sleep, AtTest
  <2>2. Cardinality(Contending("post")') \in Nat
    <3>1. Contending("post")' \subseteq Threads
      BY DEF Contending
    <3>2. IsFiniteSet(Contending("post")')
      BY <3>1, FS_Subset, SemamoreAssumption
    <3>. QED BY <3>2, FS_CardinalityType
  <2>3. NoStrandedPoster'
    BY <2>1, <2>2, SemamoreAssumption DEF NoStrandedPoster
  <2>4. Asleep("wait")' = Asleep("wait")
    BY <2>1 DEF Asleep
  <2>. QED BY <1>2, <2>1, <2>3, <2>4 DEF SleepersAreInCalls, NoStrandedWaiter
<1>7. ASSUME NEW t \in Threads, PostGives(t) PROVE Rest
  <2>1. asleep' = {}
    BY <1>7 DEF PostGives, AfterBroadcast
  <2>2. Asleep("wait")' = {} /\ Asleep("post")' = {}
    BY <2>1 DEF Asleep
  <2>. QED BY <2>1, <2>2 DEF SleepersAreInCalls, NoStrandedWaiter, NoStrandedPoster
<1>8. ASSUME NEW t \in Threads, SpuriousWakeup(t) PROVE Rest
  <2>1. asleep' = asleep \ {t} /\ value' = value /\ pc' = pc
    BY <1>8 DEF SpuriousWakeup
  <2>2. /\ Asleep("post")' \subseteq Asleep("post") /\ Asleep("wait")' \subseteq Asleep("wait")
        /\ Contending("post") \subseteq Contending("post")'
    BY <2>1 DEF Asleep, Contending, AtTest
  <2>3. NoStrandedPoster'
    BY <1>2, <2>1, <2>2, MoreContending
  <2>. QED BY <1>2, <2>1, <2>2, <2>3 DEF SleepersAreInCalls, NoStrandedWaiter
<1>9. ASSUME UNCHANGED vars PROVE Rest
  <2>1. asleep' = asleep /\ value' = value /\ pc' = pc
    BY <1>9 DEF vars
  <2>. QED
    BY <1>2, <2>1 DEF SleepersAreInCalls, NoStrandedWaiter, NoStrandedPoster,
                      Asleep, Contending, AtTest
<1>10. Rest
  BY <1>1, <1>3, <1>4, <1>5, <1>6, <1>7, <1>8, <1>9 DEF Next, Step
<1>. QED BY <1>2, <1>10 DEF IInv

LEMMA Invariance == Spec => []IInv
BY InitIInv, IInvStep, PTL DEF Spec

\* semamore.c: the value stays within 0..max_val, whoever is woken and whenever.
THEOREM SpecTypeOK == Spec => []TypeOK
<1>1. IInv => TypeOK
  BY DEF IInv
<1>. QED BY <1>1, Invariance, PTL

\* semm_post's broadcast leaves no waiter asleep beside a free permit.
THEOREM SpecNoStrandedWaiter == Spec => []NoStrandedWaiter
<1>1. IInv => NoStrandedWaiter
  BY DEF IInv
<1>. QED BY <1>1, Invariance, PTL

\* semm_wait's single signals are enough for the sleeping posters.
THEOREM SpecNoStrandedPoster == Spec => []NoStrandedPoster
<1>1. IInv => NoStrandedPoster
  BY DEF IInv
<1>. QED BY <1>1, Invariance, PTL

\* Every step of semamore.c is a step of the counting semaphore of semamore.h,
\* or changes nothing it can see.
THEOREM SpecImplementsSafe == Spec => Abs!SafeSpec
<1>1. Init => Abs!Init
  BY DEF Init, Abs!Init
<1>2. TypeOK /\ [Next]_vars => [Abs!Next]_(Abs!vars)
  <2>1. SUFFICES ASSUME TypeOK, [Next]_vars PROVE [Abs!Next]_(Abs!vars)
    OBVIOUS
  <2>. USE DEF Abs!Next, Abs!vars
  <2>2. ASSUME NEW t \in Threads, NEW op \in {"wait", "post"}, Call(t, op)
        PROVE  Abs!Next
    BY <2>2 DEF Call, Abs!Call
  <2>3. ASSUME NEW t \in Threads, WaitTakes(t) PROVE Abs!Next
    <3>1. Abs!Down(t)
      BY <2>1, <2>3 DEF WaitTakes, AtTest, Return, Abs!Down, Abs!Return, TypeOK
    <3>. QED BY <3>1
  <2>4. ASSUME NEW t \in Threads, PostGives(t) PROVE Abs!Next
    <3>1. Abs!Up(t)
      BY <2>1, <2>4, SemamoreAssumption
         DEF PostGives, AtTest, Return, Abs!Up, Abs!Return, TypeOK
    <3>. QED BY <3>1
  <2>5. ASSUME NEW t \in Threads, WaitSleeps(t) \/ PostSleeps(t) \/ SpuriousWakeup(t)
        PROVE  UNCHANGED Abs!vars
    BY <2>5 DEF WaitSleeps, PostSleeps, Sleep, SpuriousWakeup
  <2>6. CASE UNCHANGED vars
    BY <2>6 DEF vars
  <2>. QED BY <2>1, <2>2, <2>3, <2>4, <2>5, <2>6 DEF Next, Step
<1>. QED BY <1>1, <1>2, SpecTypeOK, PTL DEF Spec, Abs!SafeSpec

-----------------------------------------------------------------------------
(* The barrier. *)

\* A thread is waiters only inside the wait, and is one call behind what it has
\* begun exactly while it is inside barrier_wait.
PlacesAgree == \A t \in Parties :
    /\ t \in waiters => place[t] = "waiting"
    /\ place[t] = "out" => returned[t] = entered[t]
    /\ place[t] # "out" => returned[t] + 1 = entered[t]

BarrierInv == BarrierTypeOK /\ PlacesAgree /\ SleepersAreCounted

LEMMA SomeThreads == NThreads \in Nat /\ NThreads > 0
  BY BarrierAssumption, FS_CardinalityType, FS_EmptySet DEF NThreads

\* The sleepers can be counted.
LEMMA SleepersAreFinite ==
    ASSUME BarrierTypeOK
    PROVE  IsFiniteSet(waiters) /\ Cardinality(waiters) \in Nat
<1>1. IsFiniteSet(waiters)
  BY BarrierAssumption, FS_Subset DEF BarrierTypeOK
<1>. QED BY <1>1, FS_CardinalityType

LEMMA InitBarrierInv == BarrierInit => BarrierInv
<1>1. SUFFICES ASSUME BarrierInit PROVE BarrierInv
  OBVIOUS
<1>2. Cardinality(waiters) = 0
  BY <1>1, FS_EmptySet DEF BarrierInit
<1>3. BarrierTypeOK
  BY <1>1, SomeThreads DEF BarrierInit, BarrierTypeOK
<1>4. PlacesAgree
  BY <1>1 DEF BarrierInit, PlacesAgree
<1>5. SleepersAreCounted
  BY <1>1, <1>2 DEF BarrierInit, SleepersAreCounted
<1>. QED BY <1>3, <1>4, <1>5 DEF BarrierInv

\* With an exact count, the thread that completes it is the only one not waiters.
LEMMA LastOneAwake ==
    ASSUME BarrierInv, ~woken, NEW t \in Parties, ArrivesLast(t)
    PROVE  waiters \cup {t} = Parties
<1>1. t \notin waiters
  BY DEF BarrierInv, PlacesAgree, ArrivesLast, Arrives
<1>2. IsFiniteSet(waiters) /\ waiters \cup {t} \subseteq Parties
  BY SleepersAreFinite DEF BarrierInv, BarrierTypeOK
<1>3. Cardinality(waiters \cup {t}) = Cardinality(waiters) + 1
  BY <1>1, <1>2, FS_AddElement
<1>4. Cardinality(waiters) + 1 = Cardinality(Parties)
  BY DEF BarrierInv, SleepersAreCounted, ArrivesLast, NThreads
<1>. QED BY <1>2, <1>3, <1>4, BarrierAssumption, FS_Subset

LEMMA BarrierInvStep == BarrierInv /\ [BarrierNext]_barrierVars => BarrierInv'
<1>1. SUFFICES ASSUME BarrierInv, [BarrierNext]_barrierVars PROVE BarrierInv'
  OBVIOUS
<1>2. IsFiniteSet(waiters) /\ Cardinality(waiters) \in Nat
  BY <1>1, SleepersAreFinite DEF BarrierInv
<1>. USE DEF BarrierInv, BarrierTypeOK, PlacesAgree, SleepersAreCounted
<1>3. ASSUME NEW t \in Parties, ArrivesEarly(t) PROVE BarrierInv'
  <2>1. t \notin waiters /\ waiters' = waiters \cup {t} /\ count' = count + 1
    BY <1>1, <1>3 DEF ArrivesEarly, Arrives
  <2>2. Cardinality(waiters') = Cardinality(waiters) + 1
    BY <1>2, <2>1, FS_AddElement
  <2>3. entered' = [entered EXCEPT ![t] = @ + 1] /\ place' = [place EXCEPT ![t] = "waiting"]
        /\ UNCHANGED <<timesUsed, reg, returned, gen, woken>> /\ place[t] = "out"
        /\ count + 1 # NThreads
    BY <1>3 DEF ArrivesEarly, Arrives
  <2>4. BarrierTypeOK'
    BY <1>1, <2>1, <2>3, SomeThreads
  <2>5. PlacesAgree'
    BY <1>1, <2>1, <2>3
  <2>6. ~woken' => \A u \in Parties : entered'[u] = IF u \in waiters' THEN gen' + 1 ELSE gen'
    BY <1>1, <2>1, <2>3
  <2>7. Cardinality(waiters') <= count' /\ (~woken' => count' = Cardinality(waiters'))
    BY <1>1, <1>2, <2>1, <2>2, <2>3
  <2>. QED BY <2>4, <2>5, <2>6, <2>7
<1>4. ASSUME NEW t \in Parties, ArrivesLast(t) PROVE BarrierInv'
  <2>1. /\ count' = 0 /\ waiters' = {} /\ gen' = gen + 1 /\ place[t] = "out"
        /\ entered' = [entered EXCEPT ![t] = @ + 1] /\ place' = [place EXCEPT ![t] = "tally"]
        /\ UNCHANGED <<timesUsed, reg, returned, woken>>
    BY <1>4 DEF ArrivesLast, Arrives, AfterBroadcast
  <2>2. ~woken => waiters \cup {t} = Parties /\ t \notin waiters
    BY <1>1, <1>4, <2>1, LastOneAwake
  <2>3. count' = Cardinality(waiters')
    BY <2>1, FS_EmptySet
  <2>4. BarrierTypeOK'
    BY <1>1, <2>1, SomeThreads
  <2>5. PlacesAgree'
    BY <1>1, <2>1
  <2>6. ~woken' => \A u \in Parties : entered'[u] = gen'
    BY <1>1, <2>1, <2>2
  <2>. QED BY <2>1, <2>3, <2>4, <2>5, <2>6
<1>5. ASSUME NEW t \in Parties, WakesUnasked(t) PROVE BarrierInv'
  <2>1. /\ t \in waiters /\ waiters' = waiters \ {t} /\ woken' = TRUE
        /\ UNCHANGED <<count, timesUsed, place, reg, entered, returned, gen>>
    BY <1>5 DEF WakesUnasked
  <2>2. Cardinality(waiters') = Cardinality(waiters) - 1
    BY <1>2, <2>1, FS_RemoveElement
  <2>3. Cardinality(waiters') <= count'
    BY <1>1, <1>2, <2>1, <2>2
  <2>. QED BY <1>1, <2>1, <2>3
<1>6. ASSUME NEW t \in Parties, Leaves(t) PROVE BarrierInv'
  BY <1>1, <1>6 DEF Leaves
<1>7. ASSUME NEW t \in Parties, ReadsTimesUsed(t) PROVE BarrierInv'
  BY <1>1, <1>7 DEF ReadsTimesUsed
<1>8. ASSUME NEW t \in Parties, WritesTimesUsed(t) PROVE BarrierInv'
  BY <1>1, <1>8 DEF WritesTimesUsed
<1>9. CASE UNCHANGED barrierVars
  BY <1>1, <1>9 DEF barrierVars
<1>. QED
  BY <1>1, <1>3, <1>4, <1>5, <1>6, <1>7, <1>8, <1>9 DEF BarrierNext, BarrierStep

\* Who has finished the latest use has tallied it or slept through a tally; who is
\* adding one to times_used adds it to no less than the uses before.
Tallied == ~woken =>
    /\ timesUsed + 1 >= gen
    /\ \A t \in Parties :
        /\ place[t] = "store" => reg[t] + 1 >= gen
        /\ place[t] = "out" \/ t \in waiters => timesUsed >= gen

LEMMA InitTallied == BarrierInit => Tallied
  BY DEF BarrierInit, Tallied

\* The next broadcast comes when all have finished the use before, and a write of
\* an old value still adds one to it.
LEMMA TalliedStep == BarrierInv /\ Tallied /\ [BarrierNext]_barrierVars => Tallied'
<1>1. SUFFICES ASSUME BarrierInv, Tallied, [BarrierNext]_barrierVars, ~woken' PROVE Tallied'
  BY DEF Tallied
<1>2. ASSUME NEW t \in Parties, ArrivesEarly(t) PROVE Tallied'
  BY <1>1, <1>2 DEF ArrivesEarly, Arrives, BarrierInv, BarrierTypeOK, Tallied
<1>3. ASSUME NEW t \in Parties, ArrivesLast(t) PROVE Tallied'
  <2>1. /\ waiters' = {} /\ gen' = gen + 1 /\ place[t] = "out"
        /\ place' = [place EXCEPT ![t] = "tally"] /\ UNCHANGED <<timesUsed, reg, woken>>
    BY <1>3 DEF ArrivesLast, Arrives, AfterBroadcast
  <2>2. \A u \in Parties : u # t => place[u] = "waiting"
    BY <1>1, <1>3, <2>1, LastOneAwake DEF BarrierInv, PlacesAgree
  <2>3. \A u \in Parties : place'[u] \notin {"out", "store"}
    BY <1>1, <2>1, <2>2 DEF BarrierInv, BarrierTypeOK
  <2>4. timesUsed >= gen
    BY <1>1, <2>1 DEF Tallied
  <2>. QED BY <1>1, <2>1, <2>3, <2>4 DEF BarrierInv, BarrierTypeOK, Tallied
<1>4. ASSUME NEW t \in Parties, WakesUnasked(t) PROVE Tallied'
  BY <1>1, <1>4 DEF WakesUnasked
<1>5. ASSUME NEW t \in Parties, Leaves(t) PROVE Tallied'
  BY <1>1, <1>5 DEF Leaves, BarrierInv, BarrierTypeOK, Tallied
<1>6. ASSUME NEW t \in Parties, ReadsTimesUsed(t) PROVE Tallied'
  BY <1>1, <1>6 DEF ReadsTimesUsed, BarrierInv, BarrierTypeOK, Tallied
<1>7. ASSUME NEW t \in Parties, WritesTimesUsed(t) PROVE Tallied'
  BY <1>1, <1>7 DEF WritesTimesUsed, BarrierInv, BarrierTypeOK, Tallied
<1>8. CASE UNCHANGED barrierVars
  BY <1>1, <1>8 DEF barrierVars, Tallied
<1>. QED
  BY <1>1, <1>2, <1>3, <1>4, <1>5, <1>6, <1>7, <1>8 DEF BarrierNext, BarrierStep

LEMMA BarrierInvImpliesSafe == BarrierInv => NobodyPassesEarly
<1>1. SUFFICES ASSUME BarrierInv, ~woken, NEW t \in Parties, NEW u \in Parties
               PROVE  returned[t] <= entered[u]
  BY DEF NobodyPassesEarly
<1>2. returned[t] \in Nat /\ entered[t] \in Nat /\ entered[u] \in Nat /\ gen \in Nat
  BY <1>1 DEF BarrierInv, BarrierTypeOK
<1>3. returned[t] <= gen
  BY <1>1, <1>2 DEF BarrierInv, PlacesAgree, SleepersAreCounted
<1>4. gen <= entered[u]
  BY <1>1, <1>2 DEF BarrierInv, SleepersAreCounted
<1>. QED BY <1>2, <1>3, <1>4

\* barrier_wait: until a wake-up is spurious, over any number of uses, nobody
\* finishes a use that somebody has not begun.
THEOREM SpecNobodyPassesEarly == BarrierSpec => []NobodyPassesEarly
  BY InitBarrierInv, BarrierInvStep, BarrierInvImpliesSafe, PTL DEF BarrierSpec

\* barrier_wait: no sleeper goes uncounted, and until a wake-up is spurious the
\* count is the number of threads waiters, all of them in the use in progress.
THEOREM SpecSleepersAreCounted == BarrierSpec => []SleepersAreCounted
<1>1. BarrierInv => SleepersAreCounted
  BY DEF BarrierInv
<1>. QED BY <1>1, InitBarrierInv, BarrierInvStep, PTL DEF BarrierSpec

\* barrier_wait: times_used is incremented with no lock held and increments are
\* lost, yet whenever nobody is inside it is at least the number of uses, until
\* a wake-up is spurious.
THEOREM SpecEveryUseIsTallied == BarrierSpec => []EveryUseIsTallied
<1>1. Tallied => EveryUseIsTallied
  BY BarrierAssumption DEF Tallied, EveryUseIsTallied, AllOut
<1>. QED BY <1>1, InitBarrierInv, BarrierInvStep, InitTallied, TalliedStep, PTL DEF BarrierSpec
==============================================================================
