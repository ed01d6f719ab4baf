---------------------------- MODULE Parmake_proofs ----------------------------
(***************************************************************************)
(* Proofs about parallel_make/parmake.c for any rules, makefiles and       *)
(* workers.                                                                *)
(*                                                                         *)
(* IInv holds whatever the makefile: the NULLs come last, the clock is     *)
(* ahead of every target, and what is queued or run has a reason on the    *)
(* disk.  Sound holds under Regular, which the makefile alone decides, and *)
(* has four parts that need each other.  Walk: what check_failed has       *)
(* entered and left is closed under dependencies, so each goal's walk goes *)
(* through all that is below it, and goals that are apart do not meet.     *)
(* Places: a rule is not entered, on the stack, queued, run by one worker  *)
(* or decided, and moves one way only; so it runs once.  Outcomes: what is *)
(* queued, run or satisfied has dependencies that are satisfied.           *)
(* AllLearnt: what the loops of a frame have found out so far stays true   *)
(* while the workers go on, because (DecidedIsSteady) what has been        *)
(* decided is never run again. FilesNeedFiles is what keeps check_failed   *)
(* from queueing a dependency instead of the rule (PhaseIsSound).          *)
(*                                                                         *)
(* Descendants is a function on 0..Cardinality(Rules); that its last level *)
(* leads no further is a count: until it does, every level adds a rule.    *)
(***************************************************************************)
EXTENDS Parmake, FiniteSetTheorems, SequenceTheorems, WellFoundedInduction, TLAPS

\* Every set of naturals that is not empty has a least element.  An induction over a
\* list or over levels is an appeal to the least index at which it would fail.
LEMMA LeastNatural ==
    ASSUME NEW T \in SUBSET Nat, T # {}
    PROVE  \E n \in T : \A m \in T : n <= m
<1>. DEFINE less == {pair \in Nat \X Nat : pair[1] < pair[2]}
<1>1. IsWellFoundedOn(less, Nat)
  BY NatLessThanWellFounded DEF OpToRel
<1>2. PICK n \in T : \A m \in T : <<m, n>> \notin less
  <2>. HIDE DEF less
  <2>. QED BY <1>1, WFMin, Zenon
<1>3. \A m \in T : ~(m < n)
  BY <1>2
<1>. QED BY <1>3

------------------------------------------------------------------------------
\* What a set of rules leads to in at most n steps, for n up to k.
IsLevels(f, deps, S, k) ==
    f = [n \in 0..k |-> IF n = 0 THEN S
                        ELSE f[n - 1] \cup UNION {Range(deps[r]) : r \in f[n - 1]}]

\* The levels are well defined.
LEMMA LevelsExist ==
    ASSUME NEW deps, NEW S, NEW N \in Nat
    PROVE  \E f : IsLevels(f, deps, S, N)
<1>. DEFINE T == {k \in Nat : ~\E f : IsLevels(f, deps, S, k)}
<1>1. SUFFICES ASSUME T # {} PROVE FALSE
  OBVIOUS
<1>2. PICK k \in T : \A m \in T : k <= m
  <2>. HIDE DEF T
  <2>1. T \in SUBSET Nat
    BY DEF T
  <2>. QED BY <1>1, <2>1, LeastNatural
<1>3. CASE k = 0
  <2>1. IsLevels([n \in 0..0 |-> S], deps, S, 0)
    BY DEF IsLevels
  <2>. QED BY <1>2, <1>3, <2>1
<1>4. CASE k # 0
  <2>1. k - 1 \in Nat /\ k - 1 \notin T
    BY <1>2, <1>4
  <2>2. PICK g : IsLevels(g, deps, S, k - 1)
    BY <2>1
  <2>. DEFINE Up(C) == C \cup UNION {Range(deps[r]) : r \in C}
              h == [n \in 0..k |-> IF n = k THEN Up(g[k - 1]) ELSE g[n]]
  <2>3. ASSUME NEW n \in 0..k PROVE h[n] = IF n = 0 THEN S ELSE Up(h[n - 1])
    <3>1. CASE n = k
      BY <1>2, <1>4, <3>1
    <3>2. CASE n # k
      <4>1. n \in 0..k - 1 /\ h[n] = g[n] /\ (n # 0 => h[n - 1] = g[n - 1])
        BY <1>2, <3>2
      <4>2. g[n] = IF n = 0 THEN S ELSE Up(g[n - 1])
        BY <2>2, <4>1 DEF IsLevels
      <4>. QED BY <4>1, <4>2
    <3>. QED BY <3>1, <3>2
  <2>4. h = [n \in 0..k |-> IF n = 0 THEN S ELSE Up(h[n - 1])]
    <3>. HIDE DEF Up
    <3>1. h = [n \in 0..k |-> h[n]]
      OBVIOUS
    <3>2. DOMAIN h = 0..k
      OBVIOUS
    <3>. HIDE DEF h
    <3>. QED BY <2>3, <3>1, <3>2
  <2>5. IsLevels(h, deps, S, k)
    <3>. HIDE DEF h
    <3>. QED BY <2>4 DEF IsLevels
  <2>. QED BY <1>2, <2>5
<1>. QED BY <1>3, <1>4

\* Descendants is the last level.
LEMMA DescendantsIsALevel ==
    ASSUME NEW deps, NEW S
    PROVE  \E f : IsLevels(f, deps, S, Cardinality(Rules)) /\ Descendants(deps, S) = f[Cardinality(Rules)]
<1>1. Cardinality(Rules) \in Nat
  BY ParmakeAssumption, FS_CardinalityType
<1>2. PICK f : f = CHOOSE g : IsLevels(g, deps, S, Cardinality(Rules))
  OBVIOUS
<1>3. IsLevels(f, deps, S, Cardinality(Rules))
  BY <1>1, <1>2, LevelsExist
<1>4. Descendants(deps, S) = f[Cardinality(Rules)]
  BY <1>2 DEF Descendants, IsLevels
<1>. QED BY <1>3, <1>4

\* C holds S and all that C leads to.
Covers(C, deps, S) ==
    C \in SUBSET Rules /\ S \subseteq C /\ \A r \in C : Range(deps[r]) \subseteq C

\* The levels hold S and nothing that is not below S.
LEMMA LevelsGrow ==
    ASSUME NEW deps \in [Rules -> Seq(Rules)], NEW S \in SUBSET Rules, NEW N \in Nat,
           NEW f, IsLevels(f, deps, S, N)
    PROVE  \A n \in 0..N :
               /\ f[n] \in SUBSET Rules /\ S \subseteq f[n]
               /\ \A C : Covers(C, deps, S) => f[n] \subseteq C
<1>. DEFINE Good(n) ==
               /\ f[n] \in SUBSET Rules /\ S \subseteq f[n]
               /\ \A C : Covers(C, deps, S) => f[n] \subseteq C
            T == {n \in 0..N : ~Good(n)}
<1>1. SUFFICES ASSUME T # {} PROVE FALSE
  OBVIOUS
<1>2. PICK n \in T : \A m \in T : n <= m
  <2>. HIDE DEF T
  <2>1. T \in SUBSET Nat
    BY DEF T
  <2>. QED BY <1>1, <2>1, LeastNatural
<1>3. f[n] = IF n = 0 THEN S ELSE f[n - 1] \cup UNION {Range(deps[r]) : r \in f[n - 1]}
  BY <1>2 DEF IsLevels
<1>4. CASE n = 0
  <2>1. f[n] = S
    BY <1>3, <1>4
  <2>. QED BY <1>2, <2>1 DEF Covers
<1>5. CASE n # 0
  <2>1. Good(n - 1)
    <3>1. n - 1 \in 0..N /\ n - 1 \notin T
      BY <1>2, <1>5
    <3>. QED BY <3>1
  <2>2. f[n] = f[n - 1] \cup UNION {Range(deps[r]) : r \in f[n - 1]}
    BY <1>3, <1>5
  <2>3. \A r \in f[n - 1] : Range(deps[r]) \subseteq Rules
    BY <2>1 DEF Range
  <2>4. f[n] \in SUBSET Rules /\ S \subseteq f[n]
    BY <2>1, <2>2, <2>3
  <2>5. ASSUME NEW C, Covers(C, deps, S) PROVE f[n] \subseteq C
    <3>1. f[n - 1] \subseteq C
      BY <2>1, <2>5
    <3>2. \A r \in f[n - 1] : Range(deps[r]) \subseteq C
      BY <2>5, <3>1 DEF Covers
    <3>. QED BY <2>2, <3>1, <3>2
  <2>. QED BY <1>2, <2>4, <2>5
<1>. QED BY <1>4, <1>5

\* With as many levels as there are rules the last one leads no further.
LEMMA LastLevelIsClosed ==
    ASSUME NEW deps \in [Rules -> Seq(Rules)], NEW S \in SUBSET Rules,
           NEW f, IsLevels(f, deps, S, Cardinality(Rules)),
           NEW r \in f[Cardinality(Rules)]
    PROVE  Range(deps[r]) \subseteq f[Cardinality(Rules)]
<1>1. PICK N \in Nat : N = Cardinality(Rules)
  BY ParmakeAssumption, FS_CardinalityType
<1>. DEFINE Closed(n) == \A q \in f[n] : Range(deps[q]) \subseteq f[n]
<1>2. \A n \in 0..N : f[n] \in SUBSET Rules /\ S \subseteq f[n]
  BY <1>1, LevelsGrow
<1>3. \A n \in 0..N : n # 0 => f[n] = f[n - 1] \cup UNION {Range(deps[q]) : q \in f[n - 1]}
  BY <1>1 DEF IsLevels
<1>4. SUFFICES ASSUME ~Closed(N) PROVE FALSE
  BY <1>1
<1>5. ASSUME NEW n \in 0..N PROVE ~Closed(n)
  <2>. DEFINE T == {m \in n..N : f[m] # f[n]}
  <2>1. SUFFICES ASSUME Closed(n) PROVE FALSE
    OBVIOUS
  <2>2. T # {}
    BY <1>4, <2>1
  <2>3. PICK m \in T : \A k \in T : m <= k
    <3>. HIDE DEF T
    <3>1. T \in SUBSET Nat
      BY DEF T
    <3>. QED BY <2>2, <3>1, LeastNatural
  <2>4. m # n /\ m \in 0..N /\ m # 0
    BY <2>3
  <2>5. f[m - 1] = f[n]
    <3>1. m - 1 \in n..N /\ m - 1 \notin T
      BY <2>3, <2>4
    <3>. QED BY <3>1
  <2>6. f[m] = f[n]
    <3>1. UNION {Range(deps[q]) : q \in f[n]} \subseteq f[n]
      BY <2>1
    <3>. QED BY <1>3, <2>4, <2>5, <3>1
  <2>. QED BY <2>3, <2>6
<1>6. ASSUME NEW n \in 0..N PROVE IsFiniteSet(f[n]) /\ Cardinality(f[n]) \in Nat
  BY <1>2, ParmakeAssumption, FS_Subset, FS_CardinalityType
<1>7. \A n \in 0..N : Cardinality(f[n]) > n
  <2>. DEFINE T == {n \in 0..N : ~(Cardinality(f[n]) > n)}
  <2>1. SUFFICES ASSUME T # {} PROVE FALSE
    OBVIOUS
  <2>2. PICK n \in T : \A k \in T : n <= k
    <3>. HIDE DEF T
    <3>1. T \in SUBSET Nat
      BY DEF T
    <3>. QED BY <2>1, <3>1, LeastNatural
  <2>3. CASE n = 0
    <3>1. f[0] # {}
      BY <1>5
    <3>. QED BY <1>6, <2>2, <2>3, <3>1, FS_EmptySet
  <2>4. CASE n # 0
    <3>1. n - 1 \in 0..N /\ Cardinality(f[n - 1]) > n - 1
      <4>1. n - 1 \in 0..N /\ n - 1 \notin T
        BY <2>2, <2>4
      <4>. QED BY <4>1
    <3>2. f[n - 1] \subseteq f[n] /\ f[n - 1] # f[n]
      <4>1. f[n] = f[n - 1] \cup UNION {Range(deps[q]) : q \in f[n - 1]}
        BY <1>3, <2>2, <2>4
      <4>2. PICK q \in f[n - 1] : ~(Range(deps[q]) \subseteq f[n - 1])
        BY <1>5, <3>1
      <4>. QED BY <4>1, <4>2
    <3>3. Cardinality(f[n - 1]) < Cardinality(f[n])
      BY <1>6, <2>2, <3>1, <3>2, FS_Subset
    <3>. QED BY <1>6, <2>2, <3>1, <3>3
  <2>. QED BY <2>3, <2>4
<1>8. Cardinality(f[N]) <= N
  BY <1>1, <1>2, ParmakeAssumption, FS_Subset
<1>. QED BY <1>1, <1>6, <1>7, <1>8

\* Descendants holds what it starts from and all that leads to; and it is the
\* least such set.
LEMMA DescendantsAreClosed ==
    ASSUME NEW deps \in [Rules -> Seq(Rules)], NEW S \in SUBSET Rules
    PROVE  /\ Descendants(deps, S) \in SUBSET Rules
           /\ S \subseteq Descendants(deps, S)
           /\ \A r \in Descendants(deps, S) : Range(deps[r]) \subseteq Descendants(deps, S)
           /\ \A C : Covers(C, deps, S) => Descendants(deps, S) \subseteq C
<1>1. PICK N \in Nat : N = Cardinality(Rules)
  BY ParmakeAssumption, FS_CardinalityType
<1>2. PICK f : IsLevels(f, deps, S, N) /\ Descendants(deps, S) = f[N]
  BY <1>1, DescendantsIsALevel
<1>3. \A r \in f[N] : Range(deps[r]) \subseteq f[N]
  BY <1>1, <1>2, LastLevelIsClosed
<1>4. N \in 0..N
  OBVIOUS
<1>5. \A n \in 0..N :
          /\ f[n] \in SUBSET Rules /\ S \subseteq f[n]
          /\ \A C : Covers(C, deps, S) => f[n] \subseteq C
  BY <1>2, LevelsGrow
<1>. QED BY <1>2, <1>3, <1>4, <1>5
------------------------------------------------------------------------------

Phases == {"descend", "await", "inspect", "disk", "missing", "newer"}
Frames == [rule : Rules, i : Nat \ {0}, stamp : Nat, phase : Phases]

Types ==
    /\ TypeOK
    /\ makefile \in Makefiles
    /\ stack \in Seq(Frames)
    /\ runs \in [Rules -> Nat]

\* The NULLs come behind all rules, and a worker leaves when all have been pulled.
NullsLast ==
    /\ \A i \in DOMAIN queue : queue[i] = Null =>
          /\ goal > Len(Goals) /\ stack = <<>>
          /\ \A j \in DOMAIN queue : j > i => queue[j] = Null
    /\ \A w \in Workers : task[w] = "gone" =>
          /\ goal > Len(Goals) /\ stack = <<>>
          /\ \A i \in DOMAIN queue : queue[i] = Null

\* Targets only get newer, by the rule that runs.
Clock ==
    /\ \A r \in Rules :
          /\ start[r] <= mtime[r] /\ mtime[r] < now
          /\ runs[r] = 0 => mtime[r] = start[r]
    /\ \A w \in Workers :
          /\ Running(w) => runs[task[w]] > 0
          /\ ~Running(w) => result[w] = "none"

\* Why a rule may be run.
Reason(r) ==
    \/ start[r] = 0
    \/ \E d \in DepSet(r) : start[d] = 0 \/ start[d] > start[r] \/ runs[d] > 0
Reasons ==
    /\ \A r \in Rules : runs[r] > 0 => Reason(r)
    /\ \A i \in DOMAIN queue : queue[i] # Null => Reason(queue[i])
    /\ \A k \in DOMAIN stack :
          stack[k].phase = "newer" => stack[k].stamp >= start[stack[k].rule]

\* The rules that have been entered: for earlier goals, or for this one.
Of(i) == Below({Goals[i]})
Old == UNION {Of(i) : i \in {j \in TakenGoals : j + 1 < goal}}
Seen == Old \cup visited
Stacked == {stack[k].rule : k \in DOMAIN stack}

\* The walk below the current goal: what has been entered and is not on the stack
\* any more has been walked through.
Walk ==
    /\ \A j, k \in DOMAIN stack : stack[j].rule = stack[k].rule => j = k
    /\ Stacked \subseteq visited
    /\ IF goal - 1 \in TakenGoals
       THEN Goals[goal - 1] \in visited /\ visited \subseteq Of(goal - 1)
       ELSE visited = {}
    /\ \A r \in visited \ Stacked : DepSet(r) \subseteq visited
    /\ \A k \in DOMAIN stack : \A j \in DOMAIN Deps[stack[k].rule] :
          stack[k].phase # "descend" \/ j < stack[k].i => Deps[stack[k].rule][j] \in visited

\* A rule is in one place: not entered, on the stack, queued, run by one worker, or
\* decided; and it gets there once.
Untouched(r) == state[r] = 0 /\ runs[r] = 0 /\ ~Pending(r)
Places ==
    /\ \A r \in Stacked \cup (Rules \ Seen) : Untouched(r)
    /\ \A r \in Seen : r \in Stacked \/ Pending(r) \/ state[r] # 0
    /\ \A i \in DOMAIN queue : queue[i] # Null =>
          /\ state[queue[i]] = 0 /\ runs[queue[i]] = 0
          /\ \A j \in DOMAIN queue : queue[j] = queue[i] => j = i
    /\ \A w \in Workers : Running(w) =>
          /\ state[task[w]] = 0
          /\ \A v \in Workers : task[v] = task[w] => v = w
    /\ \A r \in Rules : runs[r] <= 1

DepsDone(r) == \A d \in DepSet(r) : state[d] = 1
Current(r) == mtime[r] # 0 /\ \A d \in DepSet(r) : mtime[d] <= mtime[r]

\* What has been decided agrees with what was decided below it.
Outcomes ==
    /\ \A r \in Rules : Pending(r) \/ runs[r] > 0 \/ state[r] = 1 => DepsDone(r)
    /\ \A r \in Rules : state[r] = -1 => runs[r] > 0 \/ \E d \in DepSet(r) : state[d] = -1
    /\ \A r \in makefile.makes : state[r] = 1 => Current(r)
    /\ \A w \in Workers : task[w] \in makefile.makes /\ result[w] = "ok" => Current(task[w])

\* What the loops of a frame have established so far.
Learnt(f) ==
    /\ f.phase = "await" =>
          \A j \in DOMAIN Deps[f.rule] : j < f.i => state[Deps[f.rule][j]] # 0
    /\ f.phase = "inspect" => \A j \in DOMAIN Deps[f.rule] :
          state[Deps[f.rule][j]] # 0 /\ (j < f.i => state[Deps[f.rule][j]] # -1)
    /\ f.phase \in {"disk", "missing", "newer"} => DepsDone(f.rule)
    /\ f.phase \in {"missing", "newer"} => mtime[f.rule] # 0
    /\ f.phase = "newer" =>
          /\ f.stamp = mtime[f.rule]
          /\ \A j \in DOMAIN Deps[f.rule] : j < f.i => mtime[Deps[f.rule][j]] <= f.stamp

IInv == Types /\ NullsLast /\ Clock /\ Reasons
AllLearnt == \A k \in DOMAIN stack : Learnt(stack[k])
Sound == Walk /\ Places /\ Outcomes /\ AllLearnt
------------------------------------------------------------------------------
\* The makefile is one of those allowed.
LEMMA MakefileIsKnown ==
    ASSUME makefile \in Makefiles
    PROVE  /\ Deps \in [Rules -> Seq(Rules)] /\ Goals \in Seq(Rules)
           /\ start \in [Rules -> 0..Cardinality(Rules)] /\ makefile.makes \subseteq Rules
           /\ Cardinality(Rules) \in Nat
           /\ \A r \in Rules : DepSet(r) \subseteq Rules /\ DOMAIN Deps[r] = 1..Len(Deps[r])
           /\ \A r \in Rules : Len(Deps[r]) \in Nat
           /\ \A r \in Rules : \A j \in DOMAIN Deps[r] : Deps[r][j] \in DepSet(r)
           /\ \A r \in Rules : \A d \in DepSet(r) : \E j \in DOMAIN Deps[r] : Deps[r][j] = d
<1>1. /\ Deps \in [Rules -> Seq(Rules)] /\ Goals \in Seq(Rules)
      /\ start \in [Rules -> 0..Cardinality(Rules)] /\ makefile.makes \subseteq Rules
  BY ParmakeAssumption DEF Deps, Goals, start
<1>2. Cardinality(Rules) \in Nat
  BY ParmakeAssumption, FS_CardinalityType
<1>. QED BY <1>1, <1>2 DEF DepSet, Range

\* The frame check_failed is in.
LEMMA TopIsAFrame ==
    ASSUME stack \in Seq(Frames), stack # <<>>
    PROVE  /\ Len(stack) \in Nat /\ Len(stack) > 0 /\ Len(stack) \in DOMAIN stack
           /\ DOMAIN stack = 1..Len(stack)
           /\ Top = stack[Len(stack)] /\ Top \in Frames
  BY DEF Last, Top

\* Goto replaces the top frame.
LEMMA GotoChangesTheTop ==
    ASSUME stack \in Seq(Frames), stack # <<>>, NEW f \in Frames, Goto(f)
    PROVE  /\ stack' \in Seq(Frames) /\ DOMAIN stack' = DOMAIN stack
           /\ \A k \in DOMAIN stack : stack'[k] = IF k = Len(stack) THEN f ELSE stack[k]
  BY DEF Goto

\* A return drops the top frame.
LEMMA PopDropsTheTop ==
    ASSUME stack \in Seq(Frames), stack # <<>>, Pop
    PROVE  /\ stack' \in Seq(Frames) /\ DOMAIN stack' = DOMAIN stack \ {Len(stack)}
           /\ \A k \in DOMAIN stack' : stack'[k] = stack[k]
<1>1. PICK n \in Nat : n = Len(stack) /\ n > 0 /\ DOMAIN stack = 1..n
  BY TopIsAFrame
<1>2. stack' = SubSeq(stack, 1, n - 1)
  BY <1>1 DEF Pop, Front
<1>3. /\ stack' \in Seq(Frames) /\ Len(stack') = n - 1
      /\ \A k \in 1..n - 1 : stack'[k] = stack[k]
  BY <1>1, <1>2, SubSeqProperties
<1>4. DOMAIN stack' = 1..n - 1
  BY <1>1, <1>3
<1>5. 1..n - 1 = (1..n) \ {n}
  BY <1>1
<1>. QED BY <1>1, <1>3, <1>4, <1>5

\* The frame of a rule that is entered.
LEMMA EnterAddsAFrame ==
    ASSUME stack \in Seq(Frames), stack # <<>>, NEW r \in Rules,
           stack' = Append([stack EXCEPT ![Len(stack)].i = @ + 1], Frame(r))
    PROVE  /\ stack' \in Seq(Frames) /\ DOMAIN stack' = DOMAIN stack \cup {Len(stack) + 1}
           /\ Len(stack) + 1 \notin DOMAIN stack
           /\ stack'[Len(stack) + 1] = Frame(r)
           /\ \A k \in DOMAIN stack :
                  stack'[k] = IF k = Len(stack) THEN [Top EXCEPT !.i = @ + 1] ELSE stack[k]
<1>1. Frame(r) \in Frames
  BY DEF Frame, Frames, Phases
<1>2. PICK n \in Nat : n = Len(stack) /\ n > 0 /\ DOMAIN stack = 1..n
  BY TopIsAFrame
<1>3. PICK f : f = [Top EXCEPT !.i = @ + 1]
  OBVIOUS
<1>4. f \in Frames
  BY <1>3, TopIsAFrame, SMTT(40) DEF Frames
<1>5. PICK s : s = [stack EXCEPT ![n] = f]
  OBVIOUS
<1>6. s \in Seq(Frames) /\ Len(s) = n /\ \A k \in 1..n : s[k] = IF k = n THEN f ELSE stack[k]
  BY <1>2, <1>4, <1>5
<1>7. stack' = Append(s, Frame(r))
  BY <1>2, <1>3, <1>5 DEF Top, Last
<1>. QED BY <1>1, <1>2, <1>3, <1>6, <1>7

------------------------------------------------------------------------------
\* What the phases behind the descent do: the top frame goes on, or it is popped
\* with a rule pushed on the queue or with its own rule settled.
Quiet == UNCHANGED <<visited, goal, nulls, makefile, mtime, now, task, result, runs>>
Advances(f) == f.rule = Top.rule /\ f.phase # "descend" /\ Goto(f) /\ UNCHANGED <<queue, state>>
Hands(r) == Push(r) /\ Pop /\ UNCHANGED state
Settles(s) == Settle(Top.rule, s) /\ Pop /\ UNCHANGED queue
Phase == Await \/ Inspect \/ CheckDisk \/ FindMissing \/ FindNewer

\* What the loops make of the top frame is a frame of the same rule.
LEMMA FrameSteps ==
    ASSUME Types, stack # <<>>
    PROVE  /\ [Top EXCEPT !.i = @ + 1] \in Frames
           /\ [Top EXCEPT !.i = @ + 1].rule = Top.rule
           /\ [Top EXCEPT !.i = @ + 1].phase = Top.phase
           /\ [Top EXCEPT !.i = @ + 1].stamp = Top.stamp
           /\ [Top EXCEPT !.i = @ + 1].i = Top.i + 1
           /\ \A p \in Phases : /\ [Top EXCEPT !.phase = p, !.i = 1] \in Frames
                                /\ [Top EXCEPT !.phase = p, !.i = 1].rule = Top.rule
                                /\ [Top EXCEPT !.phase = p, !.i = 1].phase = p
                                /\ [Top EXCEPT !.phase = p, !.i = 1].i = 1
           /\ \A n \in Nat : /\ [Top EXCEPT !.phase = "newer", !.i = 1, !.stamp = n] \in Frames
                             /\ [Top EXCEPT !.phase = "newer", !.i = 1, !.stamp = n].rule = Top.rule
                             /\ [Top EXCEPT !.phase = "newer", !.i = 1, !.stamp = n].phase = "newer"
                             /\ [Top EXCEPT !.phase = "newer", !.i = 1, !.stamp = n].i = 1
                             /\ [Top EXCEPT !.phase = "newer", !.i = 1, !.stamp = n].stamp = n
<1>1. Top \in Frames
  BY TopIsAFrame DEF Types
<1>2. [Top EXCEPT !.i = @ + 1] \in Frames
  BY <1>1 DEF Frames
<1>3. /\ [Top EXCEPT !.i = @ + 1].rule = Top.rule /\ [Top EXCEPT !.i = @ + 1].phase = Top.phase
      /\ [Top EXCEPT !.i = @ + 1].stamp = Top.stamp /\ [Top EXCEPT !.i = @ + 1].i = Top.i + 1
  BY <1>1 DEF Frames
<1>4. ASSUME NEW f \in Frames, NEW p \in Phases
      PROVE  [f EXCEPT !.phase = p] \in Frames /\ [f EXCEPT !.i = 1] \in Frames
  BY <1>4 DEF Frames
<1>5. ASSUME NEW f \in Frames, NEW n \in Nat
      PROVE  [f EXCEPT !.stamp = n] \in Frames
  BY <1>5 DEF Frames
<1>6. ASSUME NEW p \in Phases
      PROVE  /\ [Top EXCEPT !.phase = p, !.i = 1] \in Frames
             /\ [Top EXCEPT !.phase = p, !.i = 1].rule = Top.rule
             /\ [Top EXCEPT !.phase = p, !.i = 1].phase = p
             /\ [Top EXCEPT !.phase = p, !.i = 1].i = 1
  <2>1. [Top EXCEPT !.phase = p, !.i = 1] = [[Top EXCEPT !.phase = p] EXCEPT !.i = 1]
    BY <1>1 DEF Frames
  <2>2. [Top EXCEPT !.phase = p, !.i = 1] \in Frames
    BY <1>1, <1>4, <1>6, <2>1
  <2>. QED BY <1>1, <2>2 DEF Frames
<1>7. ASSUME NEW n \in Nat
      PROVE  /\ [Top EXCEPT !.phase = "newer", !.i = 1, !.stamp = n] \in Frames
             /\ [Top EXCEPT !.phase = "newer", !.i = 1, !.stamp = n].rule = Top.rule
             /\ [Top EXCEPT !.phase = "newer", !.i = 1, !.stamp = n].phase = "newer"
             /\ [Top EXCEPT !.phase = "newer", !.i = 1, !.stamp = n].i = 1
             /\ [Top EXCEPT !.phase = "newer", !.i = 1, !.stamp = n].stamp = n
  <2>1. [Top EXCEPT !.phase = "newer", !.i = 1, !.stamp = n]
            = [[Top EXCEPT !.phase = "newer", !.i = 1] EXCEPT !.stamp = n]
    BY <1>1 DEF Frames
  <2>2. "newer" \in Phases
    BY DEF Phases
  <2>3. [Top EXCEPT !.phase = "newer", !.i = 1] \in Frames
    BY <1>6, <2>2
  <2>4. [Top EXCEPT !.phase = "newer", !.i = 1, !.stamp = n] \in Frames
    BY <1>5, <1>7, <2>1, <2>3
  <2>. QED BY <1>1, <2>4 DEF Frames
<1>. QED BY <1>2, <1>3, <1>6, <1>7

\* The dependency that a loop is at.
LEMMA DepIsADependency ==
    ASSUME Types, stack # <<>>, MoreDeps
    PROVE  /\ Top.rule \in Rules /\ Top.i \in DOMAIN Deps[Top.rule]
           /\ Dep = Deps[Top.rule][Top.i] /\ Dep \in DepSet(Top.rule) /\ Dep \in Rules
<1>1. Top.rule \in Rules /\ Top.i \in Nat \ {0}
  BY TopIsAFrame DEF Types, Frames
<1>2. /\ Deps \in [Rules -> Seq(Rules)] /\ DOMAIN Deps[Top.rule] = 1..Len(Deps[Top.rule])
      /\ DepSet(Top.rule) \subseteq Rules
      /\ \A j \in DOMAIN Deps[Top.rule] : Deps[Top.rule][j] \in DepSet(Top.rule)
  BY <1>1, MakefileIsKnown DEF Types
<1>3. Len(Deps[Top.rule]) \in Nat
  BY <1>1, <1>2
<1>4. Top.i \in DOMAIN Deps[Top.rule]
  BY <1>1, <1>2, <1>3 DEF MoreDeps
<1>. QED BY <1>1, <1>2, <1>4 DEF Dep

\* Every step behind the descent is one of these.
LEMMA PhaseSteps ==
    ASSUME Types, Phase
    PROVE  /\ stack # <<>> /\ Top.phase # "descend" /\ Quiet
           /\ \/ \E f \in Frames : Advances(f)
              \/ Hands(Top.rule)
              \/ At("missing") /\ MoreDeps /\ mtime[Dep] = 0 /\ Hands(Dep)
              \/ \E s \in {1, -1} : Settles(s)
<1>. USE DEF Quiet, disk, workers
<1>1. ASSUME stack # <<>>, Top.phase # "descend", NextDep, UNCHANGED <<queue, state>>
      PROVE  \E f \in Frames : Advances(f)
  BY <1>1, FrameSteps DEF NextDep, Advances
<1>2. ASSUME NEW p \in Phases, stack # <<>>, p # "descend", NextPhase(p), UNCHANGED <<queue, state>>
      PROVE  \E f \in Frames : Advances(f)
  BY <1>2, FrameSteps DEF NextPhase, Advances
<1>3. CASE Await
  <2>1. At("await") /\ Quiet /\ UNCHANGED <<queue, state>> /\ (NextDep \/ NextPhase("inspect"))
    BY <1>3 DEF Await
  <2>. QED BY <1>1, <1>2, <2>1 DEF At, Phases
<1>4. CASE Inspect
  <2>1. At("inspect") /\ Quiet /\ UNCHANGED queue
    BY <1>4 DEF Inspect
  <2>2. \/ Settles(-1)
        \/ UNCHANGED state /\ (NextDep \/ NextPhase("disk"))
    BY <1>4 DEF Inspect, Settles
  <2>. QED BY <1>1, <1>2, <2>1, <2>2 DEF At, Phases
<1>5. CASE CheckDisk
  <2>1. At("disk") /\ Quiet /\ UNCHANGED state
    BY <1>5 DEF CheckDisk
  <2>2. Hands(Top.rule) \/ (UNCHANGED queue /\ NextPhase("missing"))
    BY <1>5 DEF CheckDisk, Hands
  <2>. QED BY <1>2, <2>1, <2>2 DEF At, Phases
<1>6. CASE FindMissing
  <2>1. At("missing") /\ Quiet /\ UNCHANGED state
    BY <1>6 DEF FindMissing
  <2>2. \/ MoreDeps /\ mtime[Dep] = 0 /\ Hands(Dep)
        \/ UNCHANGED queue /\ NextDep
        \/ UNCHANGED queue /\ Goto([Top EXCEPT !.phase = "newer", !.i = 1, !.stamp = mtime[Top.rule]])
    BY <1>6 DEF FindMissing, Hands
  <2>3. mtime[Top.rule] \in Nat
    BY <2>1, TopIsAFrame DEF At, Types, TypeOK, Frames
  <2>4. ASSUME Goto([Top EXCEPT !.phase = "newer", !.i = 1, !.stamp = mtime[Top.rule]]), UNCHANGED queue
        PROVE  \E f \in Frames : Advances(f)
    BY <2>1, <2>3, <2>4, FrameSteps DEF At, Advances
  <2>. QED BY <1>1, <2>1, <2>2, <2>4 DEF At
<1>7. CASE FindNewer
  <2>1. At("newer") /\ Quiet
    BY <1>7 DEF FindNewer
  <2>2. \/ Hands(Top.rule)
        \/ UNCHANGED <<queue, state>> /\ NextDep
        \/ Settles(1)
    BY <1>7 DEF FindNewer, Hands, Settles
  <2>. QED BY <1>1, <2>1, <2>2 DEF At
<1>. QED BY <1>3, <1>4, <1>5, <1>6, <1>7 DEF Phase
------------------------------------------------------------------------------
\* Types, one action at a time.
LEMMA TypesOfTheRest ==
    ASSUME stack \in Seq(Frames), makefile \in Makefiles, runs \in [Rules -> Nat],
           visited \in SUBSET Rules,
           goal \in 1..(Len(Goals) + 1), nulls \in 0..Cardinality(Workers),
           queue \in Seq(Rules \cup {Null}), state \in [Rules -> {0, 1, -1}],
           mtime \in [Rules -> Nat], now \in Nat,
           task \in [Workers -> Rules \cup {"idle", "gone"}],
           result \in [Workers -> {"none", "ok", "failed"}]
    PROVE  Types
<1>1. \A i \in DOMAIN stack : stack[i] \in Frames
  OBVIOUS
<1>. QED BY <1>1 DEF Types, TypeOK, Frames, Phases

\* Types holds at the start.
LEMMA InitTypes == Init => Types
<1>1. SUFFICES ASSUME Init PROVE Types
  OBVIOUS
<1>2. stack \in Seq(Frames) /\ queue \in Seq(Rules \cup {Null})
  BY <1>1 DEF Init
<1>3. Cardinality(Workers) \in Nat /\ Cardinality(Rules) \in Nat /\ Len(Goals) \in Nat
  BY <1>1, ParmakeAssumption, FS_CardinalityType, MakefileIsKnown DEF Init
<1>4. start \in [Rules -> Nat]
  BY <1>1, <1>3, MakefileIsKnown DEF Init
<1>. QED BY <1>1, <1>2, <1>3, <1>4, TypesOfTheRest DEF Init

\* Every action keeps the types.
LEMMA TypesStep == Types /\ [Next]_vars => Types'
<1>1. SUFFICES ASSUME Types, [Next]_vars PROVE Types'
  OBVIOUS
<1>2. /\ stack \in Seq(Frames) /\ makefile \in Makefiles /\ runs \in [Rules -> Nat]
      /\ visited \in SUBSET Rules
      /\ goal \in 1..(Len(Goals) + 1) /\ nulls \in 0..Cardinality(Workers)
      /\ queue \in Seq(Rules \cup {Null}) /\ state \in [Rules -> {0, 1, -1}]
      /\ mtime \in [Rules -> Nat] /\ now \in Nat
      /\ task \in [Workers -> Rules \cup {"idle", "gone"}]
      /\ result \in [Workers -> {"none", "ok", "failed"}]
  BY <1>1 DEF Types, TypeOK
<1>3. Cardinality(Workers) \in Nat /\ Len(Goals) \in Nat /\ Goals \in Seq(Rules)
  BY <1>2, ParmakeAssumption, FS_CardinalityType, MakefileIsKnown
<1>4. ASSUME makefile' = makefile, stack' \in Seq(Frames), runs' \in [Rules -> Nat],
             visited' \in SUBSET Rules,
             goal' \in 1..(Len(Goals) + 1), nulls' \in 0..Cardinality(Workers),
             queue' \in Seq(Rules \cup {Null}), state' \in [Rules -> {0, 1, -1}],
             mtime' \in [Rules -> Nat], now' \in Nat,
             task' \in [Workers -> Rules \cup {"idle", "gone"}],
             result' \in [Workers -> {"none", "ok", "failed"}]
      PROVE  Types'
  <2>1. \A i \in DOMAIN stack' : stack'[i] \in Frames
    BY <1>4
  <2>2. Goals' = Goals
    BY <1>4 DEF Goals
  <2>. QED BY <1>2, <1>4, <2>1, <2>2 DEF Types, TypeOK, Frames, Phases
<1>5. CASE TakeGoal
  <2>1. Goals[goal] \in Rules
    BY <1>2, <1>3, <1>5 DEF TakeGoal
  <2>2. Frame(Goals[goal]) \in Frames
    BY <2>1 DEF Frame, Frames, Phases
  <2>3. stack' \in Seq(Frames) /\ visited' \in SUBSET Rules
    <3>1. <<>> \in Seq(Frames) /\ <<Frame(Goals[goal])>> \in Seq(Frames)
      BY <2>2
    <3>. QED BY <1>5, <2>1, <3>1 DEF TakeGoal
  <2>4. goal' \in 1..(Len(Goals) + 1)
    BY <1>2, <1>3, <1>5 DEF TakeGoal
  <2>. QED BY <1>2, <1>4, <1>5, <2>3, <2>4 DEF TakeGoal, disk, workers
<1>6. CASE Descend
  <2>1. stack # <<>>
    BY <1>6 DEF Descend, At
  <2>2. /\ \/ NextDep /\ UNCHANGED visited
           \/ /\ MoreDeps /\ visited' = visited \cup {Dep}
              /\ stack' = Append([stack EXCEPT ![Len(stack)].i = @ + 1], Frame(Dep))
           \/ NextPhase("await") /\ UNCHANGED visited
        /\ UNCHANGED <<goal, nulls, queue, state, makefile, mtime, now, task, result, runs>>
    BY <1>6 DEF Descend, disk, workers
  <2>3. NextDep \/ NextPhase("await") => stack' \in Seq(Frames)
    BY <1>1, <1>2, <2>1, FrameSteps, GotoChangesTheTop DEF NextDep, NextPhase, Phases
  <2>4. MoreDeps => Dep \in Rules
    BY <1>1, <2>1, DepIsADependency
  <2>5. stack' \in Seq(Frames) /\ visited' \in SUBSET Rules
    BY <1>2, <2>1, <2>2, <2>3, <2>4, EnterAddsAFrame
  <2>. QED BY <1>2, <1>4, <2>2, <2>5
<1>7. CASE Phase
  <2>1. stack # <<>> /\ Quiet
    BY <1>1, <1>7, PhaseSteps
  <2>2. Top.rule \in Rules /\ (MoreDeps => Dep \in Rules)
    BY <1>1, <1>2, <2>1, TopIsAFrame, DepIsADependency DEF Frames
  <2>3. \/ (\E f \in Frames : Goto(f)) /\ UNCHANGED <<queue, state>>
        \/ \E r \in Rules : Push(r) /\ Pop /\ UNCHANGED state
        \/ \E s \in {1, -1} : Settles(s)
    BY <1>1, <1>7, <2>2, PhaseSteps DEF Advances, Hands
  <2>4. stack' \in Seq(Frames)
    BY <1>2, <2>1, <2>3, GotoChangesTheTop, PopDropsTheTop DEF Settles
  <2>5. queue' \in Seq(Rules \cup {Null})
    <3>1. \A r \in Rules : Append(queue, r) \in Seq(Rules \cup {Null})
      BY <1>2
    <3>. QED BY <1>2, <2>3, <3>1 DEF Settles, Push
  <2>6. state' \in [Rules -> {0, 1, -1}]
    BY <1>2, <2>2, <2>3 DEF Settles, Settle
  <2>. QED BY <1>2, <1>4, <2>1, <2>4, <2>5, <2>6 DEF Quiet
<1>8. CASE PushNull
  <2>1. nulls' \in 0..Cardinality(Workers)
    BY <1>2, <1>3, <1>8 DEF PushNull
  <2>2. queue' \in Seq(Rules \cup {Null})
    BY <1>2, <1>8 DEF PushNull, Push
  <2>. QED BY <1>2, <1>4, <1>8, <2>1, <2>2 DEF PushNull, disk, workers
<1>9. ASSUME NEW w \in Workers, Pull(w) PROVE Types'
  <2>1. queue' \in Seq(Rules \cup {Null})
    BY <1>2, <1>9 DEF Pull
  <2>2. Head(queue) \in Rules \cup {Null}
    BY <1>2, <1>9 DEF Pull
  <2>3. task' \in [Workers -> Rules \cup {"idle", "gone"}]
    BY <1>2, <1>9, <2>2 DEF Pull
  <2>4. runs' \in [Rules -> Nat]
    BY <1>2, <1>9, <2>2 DEF Pull
  <2>. QED BY <1>2, <1>4, <1>9, <2>1, <2>3, <2>4 DEF Pull, main, disk
<1>10. ASSUME NEW w \in Workers, RunCommands(w) PROVE Types'
  <2>1. mtime' \in [Rules -> Nat] /\ now' \in Nat
    BY <1>2, <1>10 DEF RunCommands, Running
  <2>2. result' \in [Workers -> {"none", "ok", "failed"}]
    BY <1>2, <1>10 DEF RunCommands
  <2>. QED BY <1>2, <1>4, <1>10, <2>1, <2>2 DEF RunCommands, main
<1>11. ASSUME NEW w \in Workers, Report(w) PROVE Types'
  <2>1. state' \in [Rules -> {0, 1, -1}]
    BY <1>2, <1>11 DEF Report, Running, Settle
  <2>. QED BY <1>2, <1>4, <1>11, <2>1 DEF Report, main, disk
<1>12. CASE UNCHANGED vars
  BY <1>2, <1>4, <1>12 DEF vars, main
<1>13. MainStep => TakeGoal \/ Descend \/ Phase \/ PushNull
  BY DEF MainStep, Phase
<1>. QED
  BY <1>1, <1>5, <1>6, <1>7, <1>8, <1>9, <1>10, <1>11, <1>12, <1>13 DEF Next, WorkerStep
------------------------------------------------------------------------------
\* A push adds one entry at the end.
LEMMA PushedBehind ==
    ASSUME queue \in Seq(Rules \cup {Null}), NEW x, Push(x)
    PROVE  /\ Len(queue) \in Nat /\ DOMAIN queue = 1..Len(queue)
           /\ DOMAIN queue' = 1..Len(queue) + 1 /\ queue'[Len(queue) + 1] = x
           /\ \A i \in DOMAIN queue : queue'[i] = queue[i]
  BY DEF Push

\* A pull takes the first entry and moves the others up.
LEMMA PulledInFront ==
    ASSUME queue \in Seq(Rules \cup {Null}), queue # <<>>, queue' = Tail(queue)
    PROVE  /\ 1 \in DOMAIN queue /\ Head(queue) = queue[1] /\ Head(queue) \in Rules \cup {Null}
           /\ DOMAIN queue \in SUBSET Nat /\ DOMAIN queue' \in SUBSET Nat
           /\ \A i \in DOMAIN queue' : i + 1 \in DOMAIN queue /\ queue'[i] = queue[i + 1]
           /\ \A i \in DOMAIN queue : i # 1 => i - 1 \in DOMAIN queue' /\ queue'[i - 1] = queue[i]
           /\ \A i \in DOMAIN queue : queue[i] \in Rules \cup {Null}
<1>1. PICK n \in Nat : n = Len(queue) /\ n > 0 /\ DOMAIN queue = 1..n
  OBVIOUS
<1>2. Len(queue') = n - 1 /\ queue' \in Seq(Rules \cup {Null})
  BY <1>1
<1>3. DOMAIN queue' = 1..n - 1
  BY <1>1, <1>2
<1>4. \A i \in 1..n - 1 : queue'[i] = queue[i + 1]
  BY <1>1
<1>. QED BY <1>1, <1>3, <1>4

\* The NULL and the words for a worker without a rule are no rules.
LEMMA NoNullIsARule == Null \notin Rules /\ "idle" \notin Rules /\ "gone" \notin Rules
  BY ParmakeAssumption

\* Every action keeps the NULLs behind the rules.
LEMMA NullsLastStep == Types /\ NullsLast /\ [Next]_vars => NullsLast'
<1>1. SUFFICES ASSUME Types, NullsLast, [Next]_vars PROVE NullsLast'
  OBVIOUS
<1>2. queue \in Seq(Rules \cup {Null}) /\ task \in [Workers -> Rules \cup {"idle", "gone"}]
      /\ stack \in Seq(Frames)
  BY <1>1 DEF Types, TypeOK
<1>3. CASE TakeGoal
  <2>1. /\ ~(goal > Len(Goals)) /\ UNCHANGED <<queue, task>>
    BY <1>1, <1>2, <1>3, MakefileIsKnown DEF TakeGoal, workers, Types, TypeOK
  <2>2. /\ \A i \in DOMAIN queue : queue[i] # Null
        /\ \A w \in Workers : task[w] # "gone"
    BY <1>1, <2>1 DEF NullsLast
  <2>. QED BY <2>1, <2>2 DEF NullsLast
<1>4. CASE Descend \/ Phase
  <2>1. stack # <<>> /\ task' = task
    BY <1>1, <1>4, PhaseSteps DEF Descend, At, Quiet, workers
  <2>2. /\ \A i \in DOMAIN queue : queue[i] # Null
        /\ \A w \in Workers : task[w] # "gone"
    BY <1>1, <2>1 DEF NullsLast
  <2>3. queue' = queue \/ \E r \in Rules : Push(r)
    <3>1. Top.rule \in Rules /\ (MoreDeps => Dep \in Rules)
      BY <1>1, <1>2, <2>1, TopIsAFrame, DepIsADependency DEF Frames
    <3>. QED BY <1>1, <1>4, <3>1, PhaseSteps DEF Descend, Advances, Hands, Settles
  <2>4. \A i \in DOMAIN queue' : queue'[i] # Null
    <3>1. ASSUME NEW r \in Rules, Push(r) PROVE \A i \in DOMAIN queue' : queue'[i] # Null
      BY <1>2, <2>2, <3>1, PushedBehind, NoNullIsARule
    <3>. QED BY <2>2, <2>3, <3>1
  <2>. QED BY <2>1, <2>2, <2>4 DEF NullsLast
<1>5. CASE PushNull
  <2>1. stack = <<>> /\ goal > Len(Goals) /\ Push(Null) /\ UNCHANGED <<stack, goal, makefile, task>>
    BY <1>5 DEF PushNull, disk, workers
  <2>2. Goals' = Goals
    BY <2>1 DEF Goals
  <2>. QED BY <1>1, <1>2, <2>1, <2>2, PushedBehind DEF NullsLast
<1>6. ASSUME NEW w \in Workers, Pull(w) PROVE NullsLast'
  <2>1. queue # <<>> /\ queue' = Tail(queue) /\ UNCHANGED <<stack, goal, makefile>>
    BY <1>6 DEF Pull, main, disk
  <2>2. Goals' = Goals
    BY <2>1 DEF Goals
  <2>3. ASSUME NEW i \in DOMAIN queue', queue'[i] = Null
        PROVE  goal > Len(Goals) /\ stack = <<>> /\ \A j \in DOMAIN queue' : j > i => queue'[j] = Null
    BY <1>1, <1>2, <2>1, <2>3, PulledInFront DEF NullsLast
  <2>4. CASE Head(queue) = Null
    BY <1>1, <1>2, <2>1, <2>2, <2>3, <2>4, PulledInFront DEF NullsLast
  <2>5. CASE Head(queue) # Null
    <3>1. \A v \in Workers : task[v] # "gone"
      BY <1>1, <1>2, <2>1, <2>5, PulledInFront DEF NullsLast
    <3>2. Head(queue) \in Rules /\ task' = [task EXCEPT ![w] = Head(queue)]
      BY <1>2, <1>6, <2>1, <2>5, PulledInFront DEF Pull
    <3>3. \A v \in Workers : task'[v] # "gone"
      BY <1>2, <3>1, <3>2, NoNullIsARule
    <3>. QED BY <2>1, <2>2, <2>3, <3>3 DEF NullsLast
  <2>. QED BY <2>4, <2>5
<1>7. ASSUME NEW w \in Workers, RunCommands(w) \/ Report(w) PROVE NullsLast'
  <2>1. UNCHANGED <<stack, goal, makefile, queue>>
        /\ \A v \in Workers : task'[v] = "gone" => task[v] = "gone"
    BY <1>2, <1>7 DEF RunCommands, Report, main, disk
  <2>2. Goals' = Goals
    BY <2>1 DEF Goals
  <2>. QED BY <1>1, <2>1, <2>2 DEF NullsLast
<1>8. CASE UNCHANGED vars
  BY <1>1, <1>8 DEF vars, main, NullsLast, Goals
<1>9. MainStep => TakeGoal \/ Descend \/ Phase \/ PushNull
  BY DEF MainStep, Phase
<1>. QED BY <1>1, <1>3, <1>4, <1>5, <1>6, <1>7, <1>8, <1>9 DEF Next, WorkerStep

\* No step but a worker's touches the disk, and none the makefile.
LEMMA MainLeavesTheDisk ==
    ASSUME Types, MainStep
    PROVE  UNCHANGED <<makefile, mtime, now, task, result, runs>>
<1>1. CASE Phase
  BY <1>1, PhaseSteps DEF Quiet
<1>. QED BY <1>1 DEF MainStep, Phase, TakeGoal, Descend, PushNull, disk, workers

\* No step changes the makefile.
LEMMA MakefileStays == Types /\ [Next]_vars => makefile' = makefile
<1>1. SUFFICES ASSUME Types, [Next]_vars PROVE makefile' = makefile
  OBVIOUS
<1>2. ASSUME NEW w \in Workers, WorkerStep(w) PROVE makefile' = makefile
  BY <1>2 DEF WorkerStep, Pull, RunCommands, Report, disk
<1>3. CASE UNCHANGED vars
  BY <1>3 DEF vars
<1>. QED BY <1>1, <1>2, <1>3, MainLeavesTheDisk DEF Next

\* Every action keeps the clock ahead of the targets.
LEMMA ClockStep == Types /\ Clock /\ [Next]_vars => Clock'
<1>1. SUFFICES ASSUME Types, Clock, [Next]_vars PROVE Clock'
  OBVIOUS
<1>2. /\ start \in [Rules -> Nat] /\ mtime \in [Rules -> Nat] /\ now \in Nat
      /\ runs \in [Rules -> Nat] /\ queue \in Seq(Rules \cup {Null})
      /\ task \in [Workers -> Rules \cup {"idle", "gone"}]
      /\ result \in [Workers -> {"none", "ok", "failed"}]
  BY <1>1, MakefileIsKnown DEF Types, TypeOK
<1>3. start' = start
  BY <1>1, MakefileStays DEF start
<1>4. CASE MainStep \/ UNCHANGED vars
  <2>1. UNCHANGED <<mtime, now, task, result, runs>>
    BY <1>1, <1>4, MainLeavesTheDisk DEF vars
  <2>. QED BY <1>1, <1>3, <2>1 DEF Clock, Running
<1>5. ASSUME NEW w \in Workers, Pull(w) PROVE Clock'
  <2>1. Head(queue) \in Rules \cup {Null}
    BY <1>2, <1>5, PulledInFront DEF Pull
  <2>2. UNCHANGED <<mtime, now, result>> /\ task[w] = "idle"
    BY <1>5 DEF Pull, disk
  <2>3. CASE Head(queue) = Null
    <3>1. runs' = runs /\ task' = [task EXCEPT ![w] = "gone"]
      BY <1>5, <2>3 DEF Pull
    <3>. QED BY <1>1, <1>2, <1>3, <2>2, <3>1, NoNullIsARule DEF Clock, Running
  <2>4. CASE Head(queue) # Null
    <3>1. PICK r \in Rules : r = Head(queue)
      BY <2>1, <2>4
    <3>2. runs' = [runs EXCEPT ![r] = @ + 1] /\ task' = [task EXCEPT ![w] = r]
      BY <1>5, <2>4, <3>1 DEF Pull
    <3>3. runs'[r] = runs[r] + 1 /\ \A q \in Rules : q # r => runs'[q] = runs[q]
      BY <1>2, <3>2
    <3>4. task'[w] = r /\ \A v \in Workers : v # w => task'[v] = task[v]
      BY <1>2, <3>2
    <3>5. \A q \in Rules :
              /\ start'[q] <= mtime'[q] /\ mtime'[q] < now'
              /\ runs'[q] = 0 => mtime'[q] = start'[q]
      <4>1. runs'[r] # 0
        BY <1>2, <3>3
      <4>. QED BY <1>1, <1>3, <2>2, <3>3, <4>1 DEF Clock
    <3>6. ASSUME NEW v \in Workers
          PROVE  /\ task'[v] \in Rules => runs'[task'[v]] > 0
                 /\ task'[v] \notin Rules => result'[v] = "none"
      <4>1. CASE v = w
        BY <1>2, <3>3, <3>4, <4>1 DEF Running
      <4>2. CASE v # w
        <5>1. task'[v] = task[v]
          BY <3>4, <4>2
        <5>2. ASSUME task[v] \in Rules PROVE runs'[task[v]] > 0
          <6>1. PICK q \in Rules : q = task[v]
            BY <5>2
          <6>2. runs[q] > 0 /\ runs[q] \in Nat
            BY <1>1, <1>2, <6>1 DEF Clock, Running
          <6>. QED BY <3>3, <6>1, <6>2
        <5>3. task[v] \notin Rules => result'[v] = "none"
          BY <1>1, <2>2 DEF Clock, Running
        <5>. QED BY <5>1, <5>2, <5>3
      <4>. QED BY <4>1, <4>2
    <3>. QED BY <3>5, <3>6 DEF Clock, Running
  <2>. QED BY <2>3, <2>4
<1>6. ASSUME NEW w \in Workers, RunCommands(w) PROVE Clock'
  <2>1. task[w] \in Rules /\ UNCHANGED <<task, runs>> /\ runs[task[w]] > 0
    BY <1>1, <1>6 DEF RunCommands, Running, Clock
  <2>2. \A v \in Workers : v # w => result'[v] = result[v]
    BY <1>2, <1>6 DEF RunCommands
  <2>3. \/ UNCHANGED <<mtime, now>>
        \/ mtime' = [mtime EXCEPT ![task[w]] = now] /\ now' = now + 1
    BY <1>6 DEF RunCommands
  <2>. QED BY <1>1, <1>2, <1>3, <2>1, <2>2, <2>3 DEF Clock, Running
<1>7. ASSUME NEW w \in Workers, Report(w) PROVE Clock'
  <2>1. UNCHANGED <<mtime, now, runs>> /\ task' = [task EXCEPT ![w] = "idle"]
        /\ result' = [result EXCEPT ![w] = "none"]
    BY <1>7 DEF Report, disk
  <2>. QED BY <1>1, <1>2, <1>3, <2>1, NoNullIsARule DEF Clock, Running
<1>. QED BY <1>1, <1>4, <1>5, <1>6, <1>7 DEF Next, WorkerStep
------------------------------------------------------------------------------
\* What is read off the makefile stays.
LEMMA MakefileOperators ==
    ASSUME makefile' = makefile
    PROVE  Deps' = Deps /\ Goals' = Goals /\ start' = start /\ \A r : DepSet(r)' = DepSet(r)
  BY DEF Deps, Goals, start, DepSet

\* A reason to run a rule stays one.
LEMMA ReasonStays ==
    ASSUME Types, makefile' = makefile, \A q \in Rules : runs[q] > 0 => runs'[q] > 0,
           NEW r \in Rules, Reason(r)
    PROVE  Reason(r)'
<1>1. DepSet(r) \subseteq Rules
  BY MakefileIsKnown DEF Types
<1>2. start' = start /\ DepSet(r)' = DepSet(r)
  BY MakefileOperators
<1>. QED BY <1>1, <1>2 DEF Reason

\* Whatever is pushed has a reason to run.
LEMMA PhaseReasons ==
    ASSUME Types, Clock, Reasons, Phase
    PROVE  \/ \E f \in Frames : Advances(f) /\ (f.phase = "newer" => f.stamp >= start[f.rule])
           \/ \E r \in Rules : Hands(r) /\ Reason(r)
           \/ \E s \in {1, -1} : Settles(s)
<1>1. stack # <<>>
  BY PhaseSteps
<1>2. Top \in Frames /\ Top = stack[Len(stack)] /\ Len(stack) \in DOMAIN stack /\ Top.rule \in Rules
  BY <1>1, TopIsAFrame DEF Types, Frames
<1>3. MoreDeps => Dep \in Rules /\ Dep \in DepSet(Top.rule)
  BY <1>1, DepIsADependency
<1>4. Top.phase = "newer" => Top.stamp >= start[Top.rule]
  BY <1>2 DEF Reasons
<1>5. /\ start \in [Rules -> Nat] /\ mtime \in [Rules -> Nat]
      /\ \A r \in Rules : start[r] <= mtime[r] /\ (runs[r] = 0 => mtime[r] = start[r])
      /\ runs \in [Rules -> Nat]
  BY MakefileIsKnown DEF Types, TypeOK, Clock
<1>6. ASSUME NextDep, Top.phase # "descend", UNCHANGED <<queue, state>>
      PROVE  \E f \in Frames : Advances(f) /\ (f.phase = "newer" => f.stamp >= start[f.rule])
  BY <1>1, <1>4, <1>6, FrameSteps DEF NextDep, Advances
<1>7. ASSUME NEW p \in Phases, p # "descend", p # "newer", NextPhase(p), UNCHANGED <<queue, state>>
      PROVE  \E f \in Frames : Advances(f) /\ (f.phase = "newer" => f.stamp >= start[f.rule])
  BY <1>1, <1>7, FrameSteps DEF NextPhase, Advances
<1>8. CASE Await
  <2>1. At("await") /\ UNCHANGED <<queue, state>> /\ (NextDep \/ NextPhase("inspect"))
    BY <1>8 DEF Await
  <2>. QED BY <1>6, <1>7, <2>1 DEF At, Phases
<1>9. CASE Inspect
  <2>1. At("inspect") /\ UNCHANGED queue
    BY <1>9 DEF Inspect
  <2>2. Settles(-1) \/ (UNCHANGED state /\ (NextDep \/ NextPhase("disk")))
    BY <1>9 DEF Inspect, Settles
  <2>. QED BY <1>6, <1>7, <2>1, <2>2 DEF At, Phases
<1>10. CASE CheckDisk
  <2>1. At("disk") /\ UNCHANGED state
    BY <1>10 DEF CheckDisk
  <2>2. \/ mtime[Top.rule] = 0 /\ Hands(Top.rule)
        \/ UNCHANGED queue /\ NextPhase("missing")
    BY <1>10 DEF CheckDisk, Hands
  <2>3. mtime[Top.rule] = 0 => Reason(Top.rule)
    BY <1>2, <1>5 DEF Reason
  <2>. QED BY <1>2, <1>7, <2>1, <2>2, <2>3 DEF At, Phases
<1>11. CASE FindMissing
  <2>1. At("missing") /\ UNCHANGED state
    BY <1>11 DEF FindMissing
  <2>2. \/ MoreDeps /\ mtime[Dep] = 0 /\ Hands(Dep)
        \/ UNCHANGED queue /\ NextDep
        \/ UNCHANGED queue /\ Goto([Top EXCEPT !.phase = "newer", !.i = 1, !.stamp = mtime[Top.rule]])
    BY <1>11 DEF FindMissing, Hands
  <2>3. MoreDeps /\ mtime[Dep] = 0 => Reason(Dep)
    BY <1>3, <1>5 DEF Reason
  <2>4. ASSUME Goto([Top EXCEPT !.phase = "newer", !.i = 1, !.stamp = mtime[Top.rule]]), UNCHANGED queue
        PROVE  \E f \in Frames : Advances(f) /\ (f.phase = "newer" => f.stamp >= start[f.rule])
    <3>1. mtime[Top.rule] \in Nat /\ mtime[Top.rule] >= start[Top.rule]
      BY <1>2, <1>5
    <3>. QED BY <1>1, <2>1, <2>4, <3>1, FrameSteps DEF Advances
  <2>. QED BY <1>3, <1>6, <2>1, <2>2, <2>3, <2>4 DEF At
<1>12. CASE FindNewer
  <2>1. At("newer")
    BY <1>12 DEF FindNewer
  <2>2. \/ MoreDeps /\ Top.stamp < mtime[Dep] /\ Hands(Top.rule)
        \/ UNCHANGED <<queue, state>> /\ NextDep
        \/ Settles(1)
    BY <1>12 DEF FindNewer, Hands, Settles
  <2>3. MoreDeps /\ Top.stamp < mtime[Dep] => Reason(Top.rule)
    <3>1. SUFFICES ASSUME MoreDeps, Top.stamp < mtime[Dep] PROVE Reason(Top.rule)
      OBVIOUS
    <3>2. PICK d \in DepSet(Top.rule) : d \in Rules /\ d = Dep
      BY <1>3, <3>1
    <3>3. Top.stamp \in Nat
      BY <1>2 DEF Frames
    <3>4. start[Top.rule] < mtime[d]
      BY <1>2, <1>4, <1>5, <2>1, <3>1, <3>2, <3>3 DEF At
    <3>5. runs[d] > 0 \/ start[d] > start[Top.rule]
      BY <1>2, <1>5, <3>2, <3>4
    <3>. QED BY <3>2, <3>5 DEF Reason
  <2>. QED BY <1>2, <1>6, <2>1, <2>2, <2>3 DEF At
<1>. QED BY <1>8, <1>9, <1>10, <1>11, <1>12 DEF Phase

\* Every action has a reason for what it queues and runs.
LEMMA ReasonsStep == Types /\ Clock /\ Reasons /\ [Next]_vars => Reasons'
<1>1. SUFFICES ASSUME Types, Clock, Reasons, [Next]_vars PROVE Reasons'
  OBVIOUS
<1>2. queue \in Seq(Rules \cup {Null}) /\ runs \in [Rules -> Nat] /\ stack \in Seq(Frames)
      /\ task \in [Workers -> Rules \cup {"idle", "gone"}]
  BY <1>1 DEF Types, TypeOK
<1>3. makefile' = makefile /\ start' = start
  BY <1>1, MakefileStays DEF start
<1>4. \A i \in DOMAIN queue : queue[i] # Null => queue[i] \in Rules
  BY <1>2
<1>5. ASSUME runs' = runs,
             queue' = queue \/ Push(Null) \/ (\E r \in Rules : Reason(r) /\ Push(r)),
             \A k \in DOMAIN stack' :
                 stack'[k].phase = "newer" => stack'[k].stamp >= start[stack'[k].rule]
      PROVE  Reasons'
  <2>1. \A r \in Rules : Reason(r) => Reason(r)'
    BY <1>1, <1>3, <1>5, ReasonStays
  <2>2. ASSUME NEW i \in DOMAIN queue', queue'[i] # Null
        PROVE  queue'[i] \in Rules /\ Reason(queue'[i])
    <3>1. CASE queue' = queue
      BY <1>1, <1>4, <2>2, <3>1 DEF Reasons
    <3>2. CASE Push(Null)
      BY <1>1, <1>2, <1>4, <2>2, <3>2, PushedBehind DEF Reasons
    <3>3. ASSUME NEW r \in Rules, Reason(r), Push(r) PROVE queue'[i] \in Rules /\ Reason(queue'[i])
      BY <1>1, <1>2, <1>4, <2>2, <3>3, PushedBehind DEF Reasons
    <3>. QED BY <1>5, <3>1, <3>2, <3>3
  <2>3. \A i \in DOMAIN queue' : queue'[i] # Null => Reason(queue[i])'
    <3>1. SUFFICES ASSUME NEW i \in DOMAIN queue', queue'[i] # Null PROVE Reason(queue[i])'
      OBVIOUS
    <3>2. PICK r \in Rules : r = queue'[i] /\ Reason(r)
      BY <2>2, <3>1
    <3>3. Reason(r)'
      BY <2>1, <3>2
    <3>. QED BY <3>2, <3>3 DEF Reason
  <2>4. \A r \in Rules : runs'[r] > 0 => Reason(r)'
    BY <1>1, <1>5, <2>1 DEF Reasons
  <2>. QED BY <1>3, <1>5, <2>3, <2>4 DEF Reasons
<1>6. CASE TakeGoal
  <2>1. stack' = <<>> \/ \E r : stack' = <<Frame(r)>>
    BY <1>6 DEF TakeGoal
  <2>2. \A k \in DOMAIN stack' : stack'[k].phase # "newer"
    BY <2>1 DEF Frame
  <2>. QED BY <1>5, <1>6, <2>2 DEF TakeGoal, workers
<1>7. CASE Descend
  <2>1. stack # <<>> /\ Top.phase = "descend"
    BY <1>7 DEF Descend, At
  <2>2. Top = stack[Len(stack)] /\ Top \in Frames
    BY <1>2, <2>1, TopIsAFrame
  <2>3. \A k \in DOMAIN stack :
            stack[k].phase = "newer" => stack[k].stamp >= start[stack[k].rule]
    BY <1>1 DEF Reasons
  <2>4. ASSUME NEW f \in Frames, f.phase # "newer", Goto(f)
        PROVE  \A k \in DOMAIN stack' :
                   stack'[k].phase = "newer" => stack'[k].stamp >= start[stack'[k].rule]
    BY <1>2, <2>1, <2>3, <2>4, GotoChangesTheTop
  <2>5. ASSUME NEW r \in Rules,
               stack' = Append([stack EXCEPT ![Len(stack)].i = @ + 1], Frame(r))
        PROVE  \A k \in DOMAIN stack' :
                   stack'[k].phase = "newer" => stack'[k].stamp >= start[stack'[k].rule]
    <3>1. [Top EXCEPT !.i = @ + 1].phase = "descend" /\ Frame(r).phase = "descend"
      BY <1>1, <2>1, FrameSteps DEF Frame
    <3>. QED BY <1>2, <2>1, <2>3, <2>5, <3>1, EnterAddsAFrame
  <2>6. NextDep \/ NextPhase("await") \/ (MoreDeps /\ stack' = Append([stack EXCEPT ![Len(stack)].i = @ + 1], Frame(Dep)))
    BY <1>7 DEF Descend
  <2>7. NextDep \/ NextPhase("await") => \E f \in Frames : f.phase # "newer" /\ Goto(f)
    BY <1>1, <2>1, FrameSteps DEF NextDep, NextPhase, Phases
  <2>8. MoreDeps => Dep \in Rules
    BY <1>1, <2>1, DepIsADependency
  <2>9. \A k \in DOMAIN stack' :
            stack'[k].phase = "newer" => stack'[k].stamp >= start[stack'[k].rule]
    BY <2>4, <2>5, <2>6, <2>7, <2>8
  <2>. QED BY <1>5, <1>7, <2>9 DEF Descend, workers
<1>8. CASE Phase
  <2>1. stack # <<>> /\ Quiet
    BY <1>1, <1>8, PhaseSteps
  <2>2. \A k \in DOMAIN stack :
            stack[k].phase = "newer" => stack[k].stamp >= start[stack[k].rule]
    BY <1>1 DEF Reasons
  <2>3. ASSUME NEW f \in Frames, Advances(f), f.phase = "newer" => f.stamp >= start[f.rule]
        PROVE  Reasons'
    <3>1. \A k \in DOMAIN stack' :
              stack'[k].phase = "newer" => stack'[k].stamp >= start[stack'[k].rule]
      BY <1>2, <2>1, <2>2, <2>3, GotoChangesTheTop DEF Advances
    <3>. QED BY <1>5, <2>1, <2>3, <3>1 DEF Quiet, Advances
  <2>4. ASSUME Pop
        PROVE  \A k \in DOMAIN stack' :
                   stack'[k].phase = "newer" => stack'[k].stamp >= start[stack'[k].rule]
    BY <1>2, <2>1, <2>2, <2>4, PopDropsTheTop
  <2>5. ASSUME NEW r \in Rules, Hands(r), Reason(r) PROVE Reasons'
    BY <1>5, <2>1, <2>4, <2>5 DEF Quiet, Hands
  <2>6. ASSUME NEW s \in {1, -1}, Settles(s) PROVE Reasons'
    BY <1>5, <2>1, <2>4, <2>6 DEF Quiet, Settles
  <2>. QED BY <1>1, <1>8, <2>3, <2>5, <2>6, PhaseReasons
<1>9. CASE PushNull
  BY <1>1, <1>5, <1>9 DEF PushNull, workers, Reasons
<1>10. ASSUME NEW w \in Workers, Pull(w) PROVE Reasons'
  <2>1. queue # <<>> /\ queue' = Tail(queue) /\ stack' = stack
    BY <1>10 DEF Pull, main
  <2>2. /\ \A r \in Rules : runs[r] > 0 => runs'[r] > 0
        /\ \A r \in Rules : runs'[r] > 0 => runs[r] > 0 \/ r = Head(queue)
    <3>1. Head(queue) \in Rules \cup {Null}
      BY <1>2, <2>1, PulledInFront
    <3>2. CASE Head(queue) = Null
      BY <1>10, <3>2 DEF Pull
    <3>3. ASSUME NEW h \in Rules, h = Head(queue)
          PROVE  \A r \in Rules : runs'[r] = IF r = h THEN runs[r] + 1 ELSE runs[r]
      BY <1>2, <1>10, <3>3, NoNullIsARule DEF Pull
    <3>. QED BY <1>2, <3>1, <3>2, <3>3
  <2>3. \A r \in Rules : Reason(r) => Reason(r)'
    BY <1>1, <1>3, <2>2, ReasonStays
  <2>4. \A r \in Rules : r = Head(queue) => Reason(r)
    BY <1>1, <1>2, <2>1, PulledInFront, NoNullIsARule DEF Reasons
  <2>5. \A r \in Rules : runs'[r] > 0 => Reason(r)'
    BY <1>1, <2>2, <2>3, <2>4 DEF Reasons
  <2>6. \A i \in DOMAIN queue' : queue'[i] # Null => Reason(queue[i])'
    <3>1. SUFFICES ASSUME NEW i \in DOMAIN queue', queue'[i] # Null PROVE Reason(queue[i])'
      OBVIOUS
    <3>2. PICK r \in Rules : r = queue'[i] /\ Reason(r)
      BY <1>1, <1>2, <1>4, <2>1, <3>1, PulledInFront DEF Reasons
    <3>3. Reason(r)'
      BY <2>3, <3>2
    <3>. QED BY <3>2, <3>3 DEF Reason
  <2>. QED BY <1>1, <1>3, <2>1, <2>5, <2>6 DEF Reasons
<1>11. ASSUME NEW w \in Workers, RunCommands(w) \/ Report(w) PROVE Reasons'
  <2>1. UNCHANGED <<stack, queue, runs>>
    BY <1>11 DEF RunCommands, Report, main
  <2>. QED BY <1>1, <1>5, <2>1 DEF Reasons
<1>12. CASE UNCHANGED vars
  BY <1>1, <1>5, <1>12 DEF vars, main, Reasons
<1>13. MainStep => TakeGoal \/ Descend \/ Phase \/ PushNull
  BY DEF MainStep, Phase
<1>. QED
  BY <1>1, <1>6, <1>7, <1>8, <1>9, <1>10, <1>11, <1>12, <1>13 DEF Next, WorkerStep

\* What needs no Regular holds at the start.
LEMMA InitIInv == Init => IInv
<1>1. SUFFICES ASSUME Init PROVE IInv
  OBVIOUS
<1>2. Types
  BY <1>1, InitTypes
<1>3. NullsLast /\ Reasons
  BY <1>1 DEF Init, NullsLast, Reasons
<1>4. Clock
  <2>1. start \in [Rules -> 0..Cardinality(Rules)] /\ Cardinality(Rules) \in Nat
    BY <1>2, MakefileIsKnown DEF Types
  <2>. QED BY <1>1, <2>1, NoNullIsARule DEF Init, Clock, Running
<1>. QED BY <1>2, <1>3, <1>4 DEF IInv
------------------------------------------------------------------------------
\* What depends on the makefile alone stays.
LEMMA GoalOperators ==
    ASSUME makefile' = makefile
    PROVE  /\ TakenGoals' = TakenGoals /\ (Regular' <=> Regular)
           /\ \A i : Of(i)' = Of(i)
<1>1. Deps' = Deps /\ Goals' = Goals /\ start' = start /\ \A r : DepSet(r)' = DepSet(r)
  BY MakefileOperators
<1>2. \A S : Below(S)' = Below(S)
  BY <1>1 DEF Below
<1>3. \A r : isCyclic(r)' <=> isCyclic(r)
  BY <1>1, <1>2 DEF isCyclic
<1>4. TakenGoals' = TakenGoals
  BY <1>1, <1>3 DEF TakenGoals
<1>5. \A i : Of(i)' = Of(i)
  BY <1>1, <1>2 DEF Of
<1>6. GoalsAreApart' <=> GoalsAreApart
  BY <1>1, <1>2, <1>4 DEF GoalsAreApart
<1>7. FilesNeedFiles' <=> FilesNeedFiles
  BY <1>1 DEF FilesNeedFiles
<1>. QED BY <1>4, <1>5, <1>6, <1>7 DEF Regular

\* What a goal leads to.
LEMMA OfIsClosed ==
    ASSUME Types, NEW i \in TakenGoals
    PROVE  /\ Goals[i] \in Rules /\ i \in Nat /\ i > 0 /\ i <= Len(Goals)
           /\ Of(i) \subseteq Rules /\ Goals[i] \in Of(i)
           /\ \A r \in Of(i) : DepSet(r) \subseteq Of(i)
           /\ \A C \in SUBSET Rules :
                  Goals[i] \in C /\ (\A r \in C : DepSet(r) \subseteq C) => Of(i) \subseteq C
<1>1. i \in DOMAIN Goals /\ Goals \in Seq(Rules) /\ Deps \in [Rules -> Seq(Rules)]
  BY MakefileIsKnown DEF Types, TakenGoals
<1>2. Goals[i] \in Rules /\ i \in Nat /\ i > 0 /\ i <= Len(Goals)
  BY <1>1
<1>3. PICK S \in SUBSET Rules : S = {Goals[i]}
  BY <1>2
<1>4. PICK D : D = Descendants(Deps, S)
  OBVIOUS
<1>5. /\ D \in SUBSET Rules /\ S \subseteq D
      /\ \A r \in D : Range(Deps[r]) \subseteq D
      /\ \A C : Covers(C, Deps, S) => D \subseteq C
  BY <1>1, <1>4, DescendantsAreClosed
<1>6. Of(i) = D
  BY <1>3, <1>4 DEF Of, Below
<1>7. \A C \in SUBSET Rules :
          Goals[i] \in C /\ (\A r \in C : DepSet(r) \subseteq C) => Covers(C, Deps, S)
  BY <1>3 DEF Covers, DepSet
<1>8. \A r \in D : DepSet(r) \subseteq D
  BY <1>5 DEF DepSet
<1>9. Goals[i] \in D
  BY <1>3, <1>5
<1>. HIDE DEF Covers
<1>10. \A C \in SUBSET Rules :
          Goals[i] \in C /\ (\A r \in C : DepSet(r) \subseteq C) => D \subseteq C
  BY <1>5, <1>7
<1>. QED BY <1>2, <1>5, <1>6, <1>8, <1>9, <1>10

\* The rules on the stack when the top frame goes on ...
LEMMA StackedByGoto ==
    ASSUME Types, stack # <<>>, NEW f \in Frames, f.rule = Top.rule, Goto(f)
    PROVE  Stacked' = Stacked
  BY TopIsAFrame, GotoChangesTheTop DEF Types, Stacked

\* ... when it returns, its rule being there once ...
LEMMA StackedByPop ==
    ASSUME Types, Walk, stack # <<>>, Pop
    PROVE  Top.rule \in Stacked /\ Stacked' = Stacked \ {Top.rule}
  BY TopIsAFrame, PopDropsTheTop DEF Types, Stacked, Walk

\* ... and when a rule is entered.
LEMMA StackedByEnter ==
    ASSUME Types, stack # <<>>, NEW r \in Rules,
           stack' = Append([stack EXCEPT ![Len(stack)].i = @ + 1], Frame(r))
    PROVE  Stacked' = Stacked \cup {r}
<1>1. [Top EXCEPT !.i = @ + 1].rule = Top.rule /\ Frame(r).rule = r
  BY FrameSteps DEF Frame
<1>2. stack \in Seq(Frames)
  BY DEF Types
<1>3. \A k \in DOMAIN stack : stack'[k].rule = stack[k].rule
  BY <1>1, <1>2, EnterAddsAFrame, TopIsAFrame
<1>. QED BY <1>1, <1>2, <1>3, EnterAddsAFrame DEF Stacked

\* The rules on the stack are rules.
LEMMA TopIsStacked ==
    ASSUME Types, stack # <<>>
    PROVE  Top.rule \in Stacked /\ Top.rule \in Rules /\ Stacked \subseteq Rules
<1>1. stack \in Seq(Frames) /\ Len(stack) \in DOMAIN stack /\ Top = stack[Len(stack)]
  BY TopIsAFrame DEF Types
<1>2. \A k \in DOMAIN stack : stack[k].rule \in Rules
  <2>1. \A k \in DOMAIN stack : stack[k] \in Frames
    BY <1>1
  <2>. QED BY <2>1 DEF Frames
<1>. QED BY <1>1, <1>2 DEF Stacked
------------------------------------------------------------------------------
\* Steps outside the walk keep it.
LEMMA WalkKept ==
    ASSUME Walk, UNCHANGED <<makefile, stack, visited, goal>>
    PROVE  Walk'
  BY MakefileOperators, GoalOperators DEF Walk, Stacked

\* A frame that goes on, with the rules it has entered.
LEMMA WalkGoesOn ==
    ASSUME Types, Walk, UNCHANGED <<makefile, visited, goal>>, stack # <<>>,
           NEW f \in Frames, f.rule = Top.rule, Goto(f),
           \A j \in DOMAIN Deps[f.rule] :
               f.phase # "descend" \/ j < f.i => Deps[f.rule][j] \in visited
    PROVE  Walk'
<1>1. /\ Deps' = Deps /\ Goals' = Goals /\ TakenGoals' = TakenGoals
      /\ \A i : Of(i)' = Of(i) /\ \A r : DepSet(r)' = DepSet(r)
  BY MakefileOperators, GoalOperators
<1>2. /\ DOMAIN stack' = DOMAIN stack
      /\ \A k \in DOMAIN stack : stack'[k] = IF k = Len(stack) THEN f ELSE stack[k]
      /\ Top = stack[Len(stack)]
  BY GotoChangesTheTop, TopIsAFrame DEF Types
<1>3. Stacked' = Stacked
  BY StackedByGoto
<1>4. \A k \in DOMAIN stack : stack'[k].rule = stack[k].rule
  BY <1>2
<1>5. \A j, k \in DOMAIN stack' : stack'[j].rule = stack'[k].rule => j = k
  BY <1>2, <1>4 DEF Walk
<1>6. \A k \in DOMAIN stack' : \A j \in DOMAIN Deps[stack'[k].rule] :
          stack'[k].phase # "descend" \/ j < stack'[k].i => Deps[stack'[k].rule][j] \in visited
  BY <1>2 DEF Walk
<1>. QED BY <1>1, <1>3, <1>5, <1>6 DEF Walk

\* A frame that has entered all of its dependencies is popped.
LEMMA WalkPops ==
    ASSUME Types, Walk, UNCHANGED <<makefile, visited, goal>>, stack # <<>>, Pop,
           Top.phase # "descend"
    PROVE  Walk'
<1>1. /\ Deps' = Deps /\ Goals' = Goals /\ TakenGoals' = TakenGoals
      /\ \A i : Of(i)' = Of(i) /\ \A r : DepSet(r)' = DepSet(r)
  BY MakefileOperators, GoalOperators
<1>2. /\ DOMAIN stack' \subseteq DOMAIN stack
      /\ \A k \in DOMAIN stack' : stack'[k] = stack[k]
  BY PopDropsTheTop DEF Types
<1>3. Stacked' = Stacked \ {Top.rule}
  BY StackedByPop
<1>4. DepSet(Top.rule) \subseteq visited
  <2>1. Top = stack[Len(stack)] /\ Len(stack) \in DOMAIN stack /\ Top.rule \in Rules
    BY TopIsAFrame DEF Types, Frames
  <2>2. \A j \in DOMAIN Deps[Top.rule] : Deps[Top.rule][j] \in visited
    BY <2>1 DEF Walk
  <2>. QED BY <2>1, <2>2, MakefileIsKnown DEF Types
<1>5. \A j, k \in DOMAIN stack' : stack'[j].rule = stack'[k].rule => j = k
  BY <1>2 DEF Walk
<1>6. \A k \in DOMAIN stack' : \A j \in DOMAIN Deps[stack'[k].rule] :
          stack'[k].phase # "descend" \/ j < stack'[k].i => Deps[stack'[k].rule][j] \in visited
  BY <1>2 DEF Walk
<1>7. \A r \in visited \ Stacked' : DepSet(r) \subseteq visited
  BY <1>3, <1>4 DEF Walk
<1>. QED BY <1>1, <1>3, <1>5, <1>6, <1>7 DEF Walk

\* A dependency that has not been visited is entered.
LEMMA WalkEnters ==
    ASSUME Types, Walk, UNCHANGED <<makefile, goal>>, At("descend"), MoreDeps, Dep \notin visited,
           visited' = visited \cup {Dep},
           stack' = Append([stack EXCEPT ![Len(stack)].i = @ + 1], Frame(Dep))
    PROVE  Walk'
<1>1. /\ Deps' = Deps /\ Goals' = Goals /\ TakenGoals' = TakenGoals
      /\ \A i : Of(i)' = Of(i) /\ \A r : DepSet(r)' = DepSet(r)
  BY MakefileOperators, GoalOperators
<1>2. stack # <<>> /\ stack \in Seq(Frames) /\ Top.phase = "descend"
  BY DEF At, Types
<1>3. PICK r \in Rules : r = Dep /\ r \in DepSet(Top.rule) /\ r = Deps[Top.rule][Top.i]
  BY <1>2, DepIsADependency
<1>4. PICK n : n = Len(stack) /\ n \in DOMAIN stack /\ Top = stack[n] /\ Top \in Frames /\ n + 1 \notin DOMAIN stack
               /\ DOMAIN stack' = DOMAIN stack \cup {n + 1}
  BY <1>2, <1>3, TopIsAFrame, EnterAddsAFrame
<1>5. /\ stack'[n + 1] = Frame(r)
      /\ \A k \in DOMAIN stack : stack'[k] = IF k = n THEN [Top EXCEPT !.i = @ + 1] ELSE stack[k]
  BY <1>2, <1>3, <1>4, EnterAddsAFrame
<1>6. PICK f \in Frames : f = [Top EXCEPT !.i = @ + 1] /\ f.rule = Top.rule /\ f.phase = "descend" /\ f.i = Top.i + 1
  BY <1>2, FrameSteps, ZenonT(60)
<1>7. Stacked' = Stacked \cup {r}
  BY <1>2, <1>3, StackedByEnter
<1>8. \A j, k \in DOMAIN stack' : stack'[j].rule = stack'[k].rule => j = k
  <2>1. \A k \in DOMAIN stack : stack'[k].rule = stack[k].rule /\ stack[k].rule # r
    BY <1>3, <1>4, <1>5, <1>6 DEF Walk, Stacked
  <2>2. stack'[n + 1].rule = r
    <3>1. Frame(r).rule = r
      BY DEF Frame
    <3>. QED BY <1>5, <3>1
  <2>. QED BY <1>4, <2>1, <2>2 DEF Walk
<1>9. ASSUME NEW k \in DOMAIN stack', NEW j \in DOMAIN Deps[stack'[k].rule],
             stack'[k].phase # "descend" \/ j < stack'[k].i
      PROVE  Deps[stack'[k].rule][j] \in visited'
  <2>1. CASE k = n + 1
    <3>1. stack'[k].phase = "descend" /\ stack'[k].i = 1 /\ stack'[k].rule = r
      <4>1. Frame(r).phase = "descend" /\ Frame(r).i = 1 /\ Frame(r).rule = r
        BY DEF Frame
      <4>. QED BY <1>5, <2>1, <4>1
    <3>2. j \in Nat /\ j > 0
      <4>1. DOMAIN Deps[r] = 1..Len(Deps[r]) /\ Len(Deps[r]) \in Nat
        BY MakefileIsKnown DEF Types
      <4>. QED BY <1>9, <3>1, <4>1
    <3>. QED BY <1>9, <3>1, <3>2
  <2>2. CASE k = n
    <3>1. stack'[k] = f /\ j \in DOMAIN Deps[Top.rule] /\ j < Top.i + 1
      BY <1>4, <1>5, <1>6, <1>9, <2>2
    <3>2. j \in Nat /\ Top.i \in Nat
      <4>1. Top.rule \in Rules /\ Top.i \in Nat
        BY <1>4 DEF Frames
      <4>2. DOMAIN Deps[Top.rule] = 1..Len(Deps[Top.rule]) /\ Len(Deps[Top.rule]) \in Nat
        BY <4>1, MakefileIsKnown DEF Types
      <4>. QED BY <3>1, <4>1, <4>2
    <3>3. CASE j < Top.i
      BY <1>4, <1>6, <3>1, <3>3 DEF Walk
    <3>4. CASE j = Top.i
      BY <1>3, <1>6, <3>1, <3>4
    <3>. QED BY <3>1, <3>2, <3>3, <3>4
  <2>3. CASE k \in DOMAIN stack /\ k # n
    BY <1>5, <1>9, <2>3 DEF Walk
  <2>. QED BY <1>4, <2>1, <2>2, <2>3
<1>10. Stacked' \subseteq visited' /\ \A q \in visited' \ Stacked' : DepSet(q) \subseteq visited'
  <2>1. Stacked \subseteq visited /\ \A q \in visited \ Stacked : DepSet(q) \subseteq visited
    BY DEF Walk
  <2>2. visited' = visited \cup {r}
    BY <1>3
  <2>3. ASSUME NEW q \in visited' \ Stacked' PROVE DepSet(q) \subseteq visited
    <3>1. q \in visited \ Stacked
      BY <1>7, <2>2, <2>3
    <3>. QED BY <2>1, <3>1
  <2>. QED BY <1>7, <2>1, <2>2, <2>3
<1>11. /\ goal - 1 \in TakenGoals
       /\ Goals[goal - 1] \in visited' /\ visited' \subseteq Of(goal - 1)
  <2>1. Top.rule \in visited
    BY <1>2, TopIsStacked DEF Walk
  <2>2. goal - 1 \in TakenGoals /\ Goals[goal - 1] \in visited /\ visited \subseteq Of(goal - 1)
    BY <2>1 DEF Walk
  <2>3. r \in Of(goal - 1)
    BY <1>3, <2>1, <2>2, OfIsClosed
  <2>. QED BY <1>3, <2>2, <2>3
<1>12. \A k \in DOMAIN stack' : \A j \in DOMAIN Deps[stack'[k].rule] :
          stack'[k].phase # "descend" \/ j < stack'[k].i => Deps[stack'[k].rule][j] \in visited'
  BY <1>9
<1>13. (IF goal - 1 \in TakenGoals
        THEN Goals[goal - 1] \in visited /\ visited \subseteq Of(goal - 1)
        ELSE visited = {})'
  BY <1>1, <1>11
<1>14. (\A q \in visited \ Stacked : DepSet(q) \subseteq visited)'
  BY <1>1, <1>10
<1>15. (\A k \in DOMAIN stack : \A j \in DOMAIN Deps[stack[k].rule] :
          stack[k].phase # "descend" \/ j < stack[k].i => Deps[stack[k].rule][j] \in visited)'
  BY <1>1, <1>12
<1>. QED BY <1>8, <1>10, <1>13, <1>14, <1>15 DEF Walk
\* A goal is taken up: its rule is entered, unless it is dropped for a cycle.
LEMMA TakenUp ==
    ASSUME Types, TakeGoal
    PROVE  /\ goal \in Nat /\ goal' = goal + 1 /\ stack = <<>> /\ makefile' = makefile
           /\ UNCHANGED <<queue, state, mtime, now, task, result, runs>>
           /\ \/ goal \notin TakenGoals /\ visited' = {} /\ stack' = <<>>
              \/ /\ goal \in TakenGoals /\ Goals[goal] \in Rules
                 /\ visited' = {Goals[goal]} /\ stack' = <<Frame(Goals[goal])>>
<1>1. goal \in 1..Len(Goals) + 1 /\ Goals \in Seq(Rules) /\ Len(Goals) \in Nat
  BY MakefileIsKnown DEF Types, TypeOK
<1>2. goal \in DOMAIN Goals /\ Goals[goal] \in Rules
  BY <1>1 DEF TakeGoal
<1>3. goal \in TakenGoals <=> ~isCyclic(Goals[goal])
  BY <1>2 DEF TakenGoals
<1>4. /\ goal' = goal + 1 /\ stack = <<>> /\ makefile' = makefile
      /\ UNCHANGED <<queue, state, mtime, now, task, result, runs>>
      /\ \/ isCyclic(Goals[goal]) /\ visited' = {} /\ stack' = <<>>
         \/ ~isCyclic(Goals[goal]) /\ visited' = {Goals[goal]} /\ stack' = <<Frame(Goals[goal])>>
  BY DEF TakeGoal, disk, workers
<1>. QED BY <1>1, <1>2, <1>3, <1>4

\* A walk begins at its goal.
LEMMA WalkTakesGoal ==
    ASSUME Types, TakeGoal
    PROVE  Walk'
<1>1. /\ goal \in Nat /\ goal' = goal + 1 /\ makefile' = makefile
      /\ \/ goal \notin TakenGoals /\ visited' = {} /\ stack' = <<>>
         \/ /\ goal \in TakenGoals /\ Goals[goal] \in Rules
            /\ visited' = {Goals[goal]} /\ stack' = <<Frame(Goals[goal])>>
  BY TakenUp
<1>2. /\ Deps' = Deps /\ Goals' = Goals /\ TakenGoals' = TakenGoals
      /\ \A i : Of(i)' = Of(i) /\ \A r : DepSet(r)' = DepSet(r)
  BY <1>1, MakefileOperators, GoalOperators
<1>3. goal' - 1 = goal
  BY <1>1
<1>4. CASE goal \notin TakenGoals
  <2>1. visited' = {} /\ stack' = <<>>
    BY <1>1, <1>4
  <2>2. Stacked' = {}
    BY <2>1 DEF Stacked
  <2>. QED BY <1>2, <1>3, <1>4, <2>1, <2>2 DEF Walk
<1>5. CASE goal \in TakenGoals
  <2>1. PICK r \in Rules : r = Goals[goal] /\ visited' = {r} /\ stack' = <<Frame(r)>>
    BY <1>1, <1>5
  <2>2. Frame(r).rule = r /\ Frame(r).phase = "descend" /\ Frame(r).i = 1
    BY DEF Frame
  <2>3. DOMAIN stack' = {1} /\ stack'[1] = Frame(r)
    BY <2>1
  <2>4. Stacked' = {r}
    BY <2>2, <2>3 DEF Stacked
  <2>5. r \in Of(goal)
    BY <1>5, <2>1, OfIsClosed
  <2>6. (IF goal - 1 \in TakenGoals
         THEN Goals[goal - 1] \in visited /\ visited \subseteq Of(goal - 1)
         ELSE visited = {})'
    BY <1>2, <1>3, <1>5, <2>1, <2>5
  <2>7. (\A k \in DOMAIN stack : \A j \in DOMAIN Deps[stack[k].rule] :
            stack[k].phase # "descend" \/ j < stack[k].i => Deps[stack[k].rule][j] \in visited)'
    <3>1. \A j \in DOMAIN Deps[r] : ~(j < 1)
      <4>1. DOMAIN Deps[r] = 1..Len(Deps[r]) /\ Len(Deps[r]) \in Nat
        BY MakefileIsKnown DEF Types
      <4>. QED BY <4>1
    <3>. QED BY <1>2, <2>2, <2>3, <3>1
  <2>8. (\A j, k \in DOMAIN stack : stack[j].rule = stack[k].rule => j = k)'
    BY <2>3
  <2>9. (Stacked \subseteq visited /\ \A q \in visited \ Stacked : DepSet(q) \subseteq visited)'
    BY <2>1, <2>4
  <2>. QED BY <2>6, <2>7, <2>8, <2>9 DEF Walk
<1>. QED BY <1>4, <1>5

\* What Descend does.
LEMMA DescendSteps ==
    ASSUME Types, Descend
    PROVE  /\ At("descend") /\ stack # <<>>
           /\ UNCHANGED <<goal, nulls, queue, state, makefile, mtime, now, task, result, runs>>
           /\ \/ /\ MoreDeps /\ Dep \notin visited /\ visited' = visited \cup {Dep}
                 /\ stack' = Append([stack EXCEPT ![Len(stack)].i = @ + 1], Frame(Dep))
              \/ /\ UNCHANGED visited
                 /\ MoreDeps /\ Dep \in visited /\ Goto([Top EXCEPT !.i = @ + 1])
              \/ /\ UNCHANGED visited
                 /\ ~MoreDeps /\ Goto([Top EXCEPT !.phase = "await", !.i = 1])
<1>1. At("descend") /\ stack # <<>>
  BY DEF Descend, At
<1>. QED BY <1>1 DEF Descend, disk, workers, NextDep, NextPhase

\* Every action keeps to the walk.
LEMMA WalkStep == Types /\ Walk /\ [Next]_vars => Walk'
<1>1. SUFFICES ASSUME Types, Walk, [Next]_vars PROVE Walk'
  OBVIOUS
<1>2. CASE TakeGoal
  BY <1>1, <1>2, WalkTakesGoal
<1>3. CASE Descend
  <2>1. /\ At("descend") /\ stack # <<>> /\ Top.phase = "descend"
        /\ UNCHANGED <<goal, makefile>>
    BY <1>1, <1>3, DescendSteps DEF At
  <2>2. /\ Top = stack[Len(stack)] /\ Len(stack) \in DOMAIN stack
        /\ Top.rule \in Rules /\ Top.i \in Nat
    BY <1>1, <2>1, TopIsAFrame DEF Types, Frames
  <2>3. DOMAIN Deps[Top.rule] = 1..Len(Deps[Top.rule]) /\ Len(Deps[Top.rule]) \in Nat
    BY <1>1, <2>2, MakefileIsKnown DEF Types
  <2>4. \A j \in DOMAIN Deps[Top.rule] : j < Top.i => Deps[Top.rule][j] \in visited
    BY <1>1, <2>2 DEF Walk
  <2>5. ASSUME MoreDeps, Dep \in visited, Goto([Top EXCEPT !.i = @ + 1]), UNCHANGED visited
        PROVE  Walk'
    <3>1. PICK f \in Frames : f = [Top EXCEPT !.i = @ + 1] /\ f.rule = Top.rule
                                /\ f.phase = "descend" /\ f.i = Top.i + 1
      BY <1>1, <2>1, FrameSteps
    <3>2. ASSUME NEW j \in DOMAIN Deps[f.rule], j < f.i PROVE Deps[f.rule][j] \in visited
      <4>1. j \in Nat /\ (j < Top.i \/ j = Top.i)
        BY <2>2, <2>3, <3>1, <3>2
      <4>. QED BY <2>4, <2>5, <3>1, <3>2, <4>1 DEF Dep
    <3>. QED BY <1>1, <2>1, <2>5, <3>1, <3>2, WalkGoesOn
  <2>6. ASSUME ~MoreDeps, Goto([Top EXCEPT !.phase = "await", !.i = 1]), UNCHANGED visited
        PROVE  Walk'
    <3>1. PICK f \in Frames : f = [Top EXCEPT !.phase = "await", !.i = 1] /\ f.rule = Top.rule
      BY <1>1, <2>1, FrameSteps DEF Phases
    <3>2. ASSUME NEW j \in DOMAIN Deps[f.rule] PROVE Deps[f.rule][j] \in visited
      <4>1. j \in Nat /\ j < Top.i
        BY <2>2, <2>3, <2>6, <3>1, <3>2 DEF MoreDeps
      <4>. QED BY <2>4, <3>1, <3>2, <4>1
    <3>. QED BY <1>1, <2>1, <2>6, <3>1, <3>2, WalkGoesOn
  <2>. QED BY <1>1, <1>3, <2>1, <2>5, <2>6, DescendSteps, WalkEnters
<1>4. CASE Phase
  <2>1. stack # <<>> /\ Top.phase # "descend" /\ UNCHANGED <<goal, makefile, visited>>
    BY <1>1, <1>4, PhaseSteps DEF Quiet
  <2>2. Top = stack[Len(stack)] /\ Len(stack) \in DOMAIN stack
    BY <1>1, <2>1, TopIsAFrame DEF Types
  <2>3. \A j \in DOMAIN Deps[Top.rule] : Deps[Top.rule][j] \in visited
    BY <1>1, <2>1, <2>2 DEF Walk
  <2>4. ASSUME NEW f \in Frames, Advances(f) PROVE Walk'
    BY <1>1, <2>1, <2>3, <2>4, WalkGoesOn DEF Advances
  <2>5. Pop => Walk'
    BY <1>1, <2>1, WalkPops
  <2>. QED BY <1>1, <1>4, <2>4, <2>5, PhaseSteps DEF Hands, Settles
<1>5. CASE PushNull
  BY <1>1, <1>5, WalkKept DEF PushNull, disk
<1>6. ASSUME NEW w \in Workers, Pull(w) \/ RunCommands(w) \/ Report(w) PROVE Walk'
  BY <1>1, <1>6, WalkKept DEF Pull, RunCommands, Report, main, disk
<1>7. CASE UNCHANGED vars
  BY <1>1, <1>7, WalkKept DEF vars, main
<1>8. MainStep => TakeGoal \/ Descend \/ Phase \/ PushNull
  BY DEF MainStep, Phase
<1>. QED
  BY <1>1, <1>2, <1>3, <1>4, <1>5, <1>6, <1>7, <1>8 DEF Next, WorkerStep
------------------------------------------------------------------------------
\* What has been entered lies below the goals taken up so far.
LEMMA SeenIsBelowGoals ==
    ASSUME Types, Walk
    PROVE  /\ Seen \subseteq Rules
           /\ \A r \in Seen : \E i \in TakenGoals : i < goal /\ r \in Of(i)
           /\ \A i \in TakenGoals : i + 1 < goal => Of(i) \subseteq Seen
<1>1. goal \in Nat
  BY MakefileIsKnown DEF Types, TypeOK
<1>2. \A i \in TakenGoals : i \in Nat /\ Of(i) \subseteq Rules
  BY OfIsClosed
<1>3. ASSUME NEW r \in Seen PROVE \E i \in TakenGoals : i < goal /\ r \in Of(i)
  <2>1. CASE r \in Old
    BY <1>1, <1>2, <2>1 DEF Old
  <2>2. CASE r \in visited
    <3>1. goal - 1 \in TakenGoals /\ r \in Of(goal - 1)
      BY <2>2 DEF Walk
    <3>. QED BY <1>1, <3>1
  <2>. QED BY <1>3, <2>1, <2>2 DEF Seen
<1>4. Seen \subseteq Rules
  BY <1>2, <1>3
<1>5. \A i \in TakenGoals : i + 1 < goal => Of(i) \subseteq Seen
  BY DEF Seen, Old
<1>. QED BY <1>3, <1>4, <1>5

\* What has been entered changes with the walk only.
LEMMA SeenStays ==
    ASSUME UNCHANGED <<makefile, visited, goal>>
    PROVE  Seen' = Seen
  BY GoalOperators DEF Seen, Old

\* The walk below a goal has been through all of it when the stack is empty.
LEMMA GoalIsWalked ==
    ASSUME Types, Walk, stack = <<>>, goal - 1 \in TakenGoals
    PROVE  visited = Of(goal - 1)
<1>1. Stacked = {}
  BY DEF Stacked
<1>2. /\ Goals[goal - 1] \in visited /\ visited \subseteq Of(goal - 1)
      /\ \A r \in visited : DepSet(r) \subseteq visited
  BY <1>1 DEF Walk
<1>3. PICK i \in TakenGoals : i = goal - 1
  OBVIOUS
<1>4. visited \in SUBSET Rules
  BY DEF Types, TypeOK
<1>5. Of(i) \subseteq visited
  BY <1>2, <1>3, <1>4, OfIsClosed
<1>. QED BY <1>2, <1>3, <1>5

\* Goals that are apart do not come upon each other's rules.
LEMMA ApartGoals ==
    ASSUME Types, Walk, GoalsAreApart, NEW i \in TakenGoals, NEW r \in Of(i),
           NEW j \in TakenGoals, r \in Of(j)
    PROVE  i = j
  BY DEF GoalsAreApart, Of

\* A new goal has not been entered for an earlier one.
LEMMA SeenByTakingGoal ==
    ASSUME Types, Walk, GoalsAreApart, TakeGoal
    PROVE  Seen' = Seen \cup visited' /\ visited' \cap Seen = {}
<1>1. /\ goal \in Nat /\ goal' = goal + 1 /\ stack = <<>> /\ makefile' = makefile
      /\ \/ goal \notin TakenGoals /\ visited' = {}
         \/ goal \in TakenGoals /\ visited' = {Goals[goal]}
  BY TakenUp
<1>2. TakenGoals' = TakenGoals /\ \A i : Of(i)' = Of(i)
  BY <1>1, GoalOperators
<1>3. \A i \in TakenGoals : i \in Nat
  BY OfIsClosed
<1>4. Old' = UNION {Of(i) : i \in {j \in TakenGoals : j + 1 < goal + 1}}
  BY <1>1, <1>2 DEF Old
<1>5. Old' = Seen
  <2>1. CASE goal - 1 \in TakenGoals
    <3>1. visited = Of(goal - 1)
      BY <1>1, <2>1, GoalIsWalked
    <3>2. {j \in TakenGoals : j + 1 < goal + 1} = {j \in TakenGoals : j + 1 < goal} \cup {goal - 1}
      BY <1>1, <1>3, <2>1
    <3>. QED BY <1>4, <3>1, <3>2 DEF Seen, Old
  <2>2. CASE goal - 1 \notin TakenGoals
    <3>1. visited = {}
      BY <2>2 DEF Walk
    <3>2. {j \in TakenGoals : j + 1 < goal + 1} = {j \in TakenGoals : j + 1 < goal}
      BY <1>1, <1>3, <2>2
    <3>. QED BY <1>4, <3>1, <3>2 DEF Seen, Old
  <2>. QED BY <2>1, <2>2
<1>6. Seen' = Seen \cup visited'
  BY <1>5 DEF Seen
<1>7. visited' \cap Seen = {}
  <2>1. SUFFICES ASSUME NEW r \in Seen, r \in visited' PROVE FALSE
    OBVIOUS
  <2>2. goal \in TakenGoals /\ r \in Of(goal)
    BY <1>1, <2>1, OfIsClosed
  <2>3. PICK i \in TakenGoals : i < goal /\ r \in Of(i)
    BY <2>1, SeenIsBelowGoals
  <2>4. i = goal
    BY <2>2, <2>3, ApartGoals
  <2>. QED BY <1>1, <2>3, <2>4
<1>. QED BY <1>6, <1>7

\* Nor has a dependency that this walk has not visited.
LEMMA SeenByEntering ==
    ASSUME Types, Walk, GoalsAreApart, UNCHANGED <<makefile, goal>>, stack # <<>>,
           MoreDeps, Dep \notin visited, visited' = visited \cup {Dep}
    PROVE  Seen' = Seen \cup {Dep} /\ Dep \notin Seen
<1>1. Seen' = Seen \cup {Dep}
  BY GoalOperators DEF Seen, Old
<1>2. PICK r \in Rules : r = Dep /\ r \in DepSet(Top.rule)
  BY DepIsADependency
<1>3. Top.rule \in visited
  BY TopIsStacked DEF Walk
<1>4. goal - 1 \in TakenGoals /\ visited \subseteq Of(goal - 1)
  BY <1>3 DEF Walk
<1>5. r \in Of(goal - 1)
  BY <1>2, <1>3, <1>4, OfIsClosed
<1>6. ASSUME r \in Old PROVE FALSE
  <2>1. PICK i \in TakenGoals : i + 1 < goal /\ r \in Of(i)
    BY <1>6 DEF Old
  <2>2. i = goal - 1
    BY <1>4, <1>5, <2>1, ApartGoals
  <2>3. i \in Nat /\ goal \in Nat
    BY <2>1, OfIsClosed, MakefileIsKnown, SMTT(40) DEF Types, TypeOK
  <2>. QED BY <2>1, <2>2, <2>3
<1>. QED BY <1>1, <1>2, <1>6 DEF Seen
------------------------------------------------------------------------------
\* Where a rule is pending.
LEMMA PendingIs ==
    ASSUME Types, NEW r
    PROVE  Pending(r) <=> (\E i \in DOMAIN queue : queue[i] = r) \/ \E w \in Workers : task[w] = r
<1>1. DOMAIN queue = 1..Len(queue)
  BY DEF Types, TypeOK
<1>2. Contains(queue, r) <=> \E i \in DOMAIN queue : queue[i] = r
  BY <1>1 DEF Contains
<1>. QED BY <1>2 DEF Pending

\* What is pending changes with the queue and the workers only.
LEMMA PendingStays ==
    ASSUME UNCHANGED <<queue, task>>
    PROVE  \A r : Pending(r)' <=> Pending(r)
  BY DEF Pending

\* A push makes one rule pending.
LEMMA PendingByPush ==
    ASSUME Types, Types', NEW q, Push(q), UNCHANGED task
    PROVE  \A r : Pending(r)' <=> Pending(r) \/ r = q
<1>1. SUFFICES ASSUME NEW r PROVE Pending(r)' <=> Pending(r) \/ r = q
  OBVIOUS
<1>2. Pending(r)' <=> (\E i \in DOMAIN queue' : queue'[i] = r) \/ \E w \in Workers : task'[w] = r
  <2>1. DOMAIN queue' = 1..Len(queue')
    BY DEF Types, TypeOK
  <2>2. Contains(queue', r) <=> \E i \in DOMAIN queue' : queue'[i] = r
    BY <2>1 DEF Contains
  <2>. QED BY <2>2 DEF Pending
<1>3. DOMAIN queue' = DOMAIN queue \cup {Len(queue) + 1}
  BY DEF Types, TypeOK, Push
<1>4. \A i \in DOMAIN queue : queue'[i] = queue[i]
  BY DEF Types, TypeOK, Push
<1>5. queue'[Len(queue) + 1] = q
  BY DEF Types, TypeOK, Push
<1>. QED BY <1>2, <1>3, <1>4, <1>5, PendingIs

\* A rule that is pulled stays pending.
LEMMA PendingByPull ==
    ASSUME Types, Types', NEW w \in Workers, Pull(w)
    PROVE  \A r \in Rules : Pending(r)' <=> Pending(r)
<1>1. SUFFICES ASSUME NEW r \in Rules PROVE Pending(r)' <=> Pending(r)
  OBVIOUS
<1>2. Pending(r)' <=> (\E i \in DOMAIN queue' : queue'[i] = r) \/ \E v \in Workers : task'[v] = r
  <2>1. DOMAIN queue' = 1..Len(queue')
    BY DEF Types, TypeOK
  <2>2. Contains(queue', r) <=> \E i \in DOMAIN queue' : queue'[i] = r
    BY <2>1 DEF Contains
  <2>. QED BY <2>2 DEF Pending
<1>3. PICK n \in Nat : n = Len(queue) /\ n > 0 /\ DOMAIN queue = 1..n /\ queue[1] = Head(queue)
  BY DEF Types, TypeOK, Pull
<1>4. /\ queue' = Tail(queue) /\ DOMAIN queue' = 1..n - 1
      /\ \A i \in 1..n - 1 : queue'[i] = queue[i + 1]
  BY <1>3 DEF Types, TypeOK, Pull
<1>5. (\E i \in DOMAIN queue : queue[i] = r) <=> Head(queue) = r \/ \E i \in DOMAIN queue' : queue'[i] = r
  <2>1. ASSUME NEW i \in DOMAIN queue, queue[i] = r
        PROVE  Head(queue) = r \/ \E j \in DOMAIN queue' : queue'[j] = r
    <3>1. CASE i = 1
      BY <1>3, <2>1, <3>1
    <3>2. CASE i # 1
      <4>1. i - 1 \in 1..n - 1 /\ queue'[i - 1] = queue[i]
        BY <1>3, <1>4, <2>1, <3>2
      <4>. QED BY <1>4, <2>1, <4>1
    <3>. QED BY <3>1, <3>2
  <2>2. ASSUME NEW i \in DOMAIN queue', queue'[i] = r PROVE \E j \in DOMAIN queue : queue[j] = r
    BY <1>3, <1>4, <2>2
  <2>. QED BY <1>3, <2>1, <2>2
<1>6. task[w] = "idle" /\ task \in [Workers -> Rules \cup {"idle", "gone"}]
  BY DEF Types, TypeOK, Pull
<1>7. r # Null /\ r # "idle" /\ r # "gone"
  BY NoNullIsARule
<1>8. (\E v \in Workers : task'[v] = r) <=> (\E v \in Workers : task[v] = r) \/ Head(queue) = r
  <2>1. CASE Head(queue) = Null
    <3>1. task' = [task EXCEPT ![w] = "gone"]
      BY <2>1 DEF Pull
    <3>. QED BY <1>6, <1>7, <2>1, <3>1
  <2>2. CASE Head(queue) # Null
    <3>1. task' = [task EXCEPT ![w] = Head(queue)]
      BY <2>2 DEF Pull
    <3>. QED BY <1>6, <1>7, <3>1
  <2>. QED BY <2>1, <2>2
<1>. QED BY <1>2, <1>5, <1>8, PendingIs

\* A rule that runs is nowhere else, so reporting it is the end of it.
LEMMA PendingByReport ==
    ASSUME Types, Clock, Places, NEW w \in Workers, Report(w)
    PROVE  \A r \in Rules : Pending(r)' <=> Pending(r) /\ r # task[w]
<1>1. SUFFICES ASSUME NEW r \in Rules PROVE Pending(r)' <=> Pending(r) /\ r # task[w]
  OBVIOUS
<1>2. Running(w) /\ queue' = queue /\ task' = [task EXCEPT ![w] = "idle"]
  BY DEF Report
<1>3. task \in [Workers -> Rules \cup {"idle", "gone"}] /\ r # "idle" /\ task[w] \in Rules
  BY <1>2, NoNullIsARule DEF Types, TypeOK, Running
<1>4. Contains(queue, r)' <=> Contains(queue, r)
  BY <1>2 DEF Contains
<1>5. Contains(queue, r) => \E i \in DOMAIN queue : queue[i] = r
  <2>1. DOMAIN queue = 1..Len(queue)
    BY DEF Types, TypeOK
  <2>. QED BY <2>1 DEF Contains
<1>6. Contains(queue, r) => r # task[w]
  <2>1. runs[task[w]] > 0
    BY <1>2 DEF Clock
  <2>2. \A i \in DOMAIN queue : queue[i] # Null => runs[queue[i]] = 0
    BY DEF Places
  <2>. QED BY <1>3, <1>5, <2>1, <2>2, NoNullIsARule
<1>7. \A v \in Workers : task[v] = task[w] => v = w
  BY <1>2 DEF Places
<1>8. (\E v \in Workers : task'[v] = r) <=> (\E v \in Workers : task[v] = r) /\ r # task[w]
  BY <1>2, <1>3, <1>7
<1>. QED BY <1>4, <1>6, <1>8 DEF Pending
------------------------------------------------------------------------------
\* The walk enters rules that nobody has touched.
LEMMA PlacesByEntering ==
    ASSUME Places, UNCHANGED <<queue, state, task, runs>>, NEW E \in SUBSET Rules,
           Seen' = Seen \cup E, Stacked' = Stacked \cup E, E \cap Seen = {}
    PROVE  Places'
<1>1. \A r : Untouched(r)' <=> Untouched(r)
  BY PendingStays DEF Untouched
<1>2. \A r : Pending(r)' <=> Pending(r)
  BY PendingStays
<1>3. (\A r \in Stacked \cup (Rules \ Seen) : Untouched(r))'
  <2>1. \A r \in Stacked \cup (Rules \ Seen) : Untouched(r)
    BY DEF Places
  <2>2. Stacked' \cup (Rules \ Seen') \subseteq Stacked \cup (Rules \ Seen)
    OBVIOUS
  <2>. QED BY <1>1, <2>1, <2>2
<1>4. (\A r \in Seen : r \in Stacked \/ Pending(r) \/ state[r] # 0)'
  <2>1. \A r \in Seen : r \in Stacked \/ Pending(r) \/ state[r] # 0
    BY DEF Places
  <2>. QED BY <1>2, <2>1
<1>. QED BY <1>3, <1>4 DEF Places, Running

\* The rule on top is pushed.
LEMMA PlacesByHand ==
    ASSUME Types, Types', Clock, Walk, Places, UNCHANGED <<makefile, visited, goal, task, runs>>,
           stack # <<>>, Hands(Top.rule)
    PROVE  Places'
<1>1. PICK r \in Rules : r = Top.rule /\ r \in Stacked /\ Stacked' = Stacked \ {r}
  BY TopIsStacked, StackedByPop DEF Hands
<1>2. Push(r) /\ state' = state /\ Seen' = Seen
  BY <1>1, SeenStays DEF Hands
<1>3. \A q : Pending(q)' <=> Pending(q) \/ q = r
  BY <1>2, PendingByPush
<1>4. state[r] = 0 /\ runs[r] = 0 /\ ~Pending(r)
  BY <1>1 DEF Places, Untouched
<1>5. (\A q \in Stacked \cup (Rules \ Seen) : Untouched(q))'
  <2>1. r \in Seen
    BY <1>1 DEF Walk, Seen
  <2>2. \A q \in Stacked \cup (Rules \ Seen) : Untouched(q)
    BY DEF Places
  <2>3. Stacked' \cup (Rules \ Seen') \subseteq (Stacked \cup (Rules \ Seen)) \ {r}
    BY <1>1, <1>2, <2>1
  <2>4. \A q : q # r => (Untouched(q)' <=> Untouched(q))
    BY <1>2, <1>3 DEF Untouched
  <2>. QED BY <2>2, <2>3, <2>4
<1>6. (\A q \in Seen : q \in Stacked \/ Pending(q) \/ state[q] # 0)'
  <2>1. \A q \in Seen : q \in Stacked \/ Pending(q) \/ state[q] # 0
    BY DEF Places
  <2>. QED BY <1>1, <1>2, <1>3, <2>1
<1>7. (\A i \in DOMAIN queue : queue[i] # Null =>
          /\ state[queue[i]] = 0 /\ runs[queue[i]] = 0
          /\ \A j \in DOMAIN queue : queue[j] = queue[i] => j = i)'
  <2>1. PICK n \in Nat : n = Len(queue) /\ DOMAIN queue = 1..n /\ DOMAIN queue' = 1..n + 1
                         /\ queue'[n + 1] = r /\ \A i \in 1..n : queue'[i] = queue[i]
    BY <1>2, PushedBehind DEF Types, TypeOK
  <2>2. \A i \in 1..n : queue[i] # r
    BY <1>4, <2>1, PendingIs
  <2>3. \A i \in 1..n : queue[i] # Null =>
          /\ state[queue[i]] = 0 /\ runs[queue[i]] = 0
          /\ \A j \in 1..n : queue[j] = queue[i] => j = i
    BY <2>1 DEF Places
  <2>. QED BY <1>2, <1>4, <2>1, <2>2, <2>3
<1>. QED BY <1>2, <1>5, <1>6, <1>7 DEF Places, Running

\* The rule on top is decided.
LEMMA PlacesBySettling ==
    ASSUME Types, Walk, Places, UNCHANGED <<makefile, visited, goal, task, runs>>,
           stack # <<>>, NEW s \in {1, -1}, Settles(s)
    PROVE  Places'
<1>1. PICK r \in Rules : r = Top.rule /\ r \in Stacked /\ Stacked' = Stacked \ {r}
  BY TopIsStacked, StackedByPop DEF Settles
<1>2. queue' = queue /\ Seen' = Seen
  BY SeenStays DEF Settles
<1>3. state'[r] # 0 /\ \A q \in Rules : q # r => state'[q] = state[q]
  BY <1>1 DEF Settles, Settle, Types, TypeOK
<1>4. \A q : Pending(q)' <=> Pending(q)
  BY <1>2, PendingStays
<1>5. ~Pending(r)
  BY <1>1 DEF Places, Untouched
<1>6. (\A q \in Stacked \cup (Rules \ Seen) : Untouched(q))'
  <2>1. r \in Seen
    BY <1>1 DEF Walk, Seen
  <2>2. \A q \in Stacked \cup (Rules \ Seen) : Untouched(q)
    BY DEF Places
  <2>3. Stacked' \cup (Rules \ Seen') \subseteq (Stacked \cup (Rules \ Seen)) \ {r}
    BY <1>1, <1>2, <2>1
  <2>4. \A q \in Rules : q # r => (Untouched(q)' <=> Untouched(q))
    BY <1>3, <1>4 DEF Untouched
  <2>5. Stacked \subseteq Rules
    BY TopIsStacked
  <2>. QED BY <2>2, <2>3, <2>4, <2>5
<1>7. (\A q \in Seen : q \in Stacked \/ Pending(q) \/ state[q] # 0)'
  <2>1. \A q \in Seen : q \in Stacked \/ Pending(q) \/ state[q] # 0
    BY DEF Places
  <2>2. Seen \subseteq Rules
    BY SeenIsBelowGoals
  <2>. QED BY <1>1, <1>2, <1>3, <1>4, <2>1, <2>2
<1>8. \A i \in DOMAIN queue : queue[i] # Null => queue[i] \in Rules /\ queue[i] # r
  <2>1. \A i \in DOMAIN queue : queue[i] # Null => queue[i] \in Rules
    BY DEF Types, TypeOK
  <2>. QED BY <1>5, <2>1, PendingIs
<1>9. (\A i \in DOMAIN queue : queue[i] # Null =>
          /\ state[queue[i]] = 0 /\ runs[queue[i]] = 0
          /\ \A j \in DOMAIN queue : queue[j] = queue[i] => j = i)'
  BY <1>2, <1>3, <1>8 DEF Places
<1>10. (\A w \in Workers : Running(w) =>
          /\ state[task[w]] = 0
          /\ \A v \in Workers : task[v] = task[w] => v = w)'
  <2>1. \A w \in Workers : Running(w) => task[w] \in Rules /\ task[w] # r
    BY <1>5, PendingIs DEF Running
  <2>2. \A w \in Workers : Running(w)' <=> Running(w)
    BY DEF Running
  <2>. QED BY <1>3, <2>1, <2>2 DEF Places
<1>. QED BY <1>6, <1>7, <1>9, <1>10 DEF Places

\* A NULL takes no rule anywhere.
LEMMA PlacesByNull ==
    ASSUME Types, Types', Places, UNCHANGED <<makefile, visited, goal, task, runs, stack, state>>, Push(Null)
    PROVE  Places'
<1>1. \A q \in Rules : Pending(q)' <=> Pending(q)
  BY PendingByPush, NoNullIsARule
<1>2. Seen' = Seen /\ Stacked' = Stacked /\ Seen \subseteq Rules \cup Seen
  BY SeenStays DEF Stacked
<1>3. \A q \in Rules : Untouched(q)' <=> Untouched(q)
  BY <1>1 DEF Untouched
<1>4. Stacked \subseteq Rules
  <2>1. \A k \in DOMAIN stack : stack[k] \in Frames
    BY DEF Types
  <2>. QED BY <2>1 DEF Stacked, Frames
<1>5. (\A q \in Stacked \cup (Rules \ Seen) : Untouched(q))'
  BY <1>2, <1>3, <1>4 DEF Places
<1>6. (\A q \in Seen : q \in Stacked \/ Pending(q) \/ state[q] # 0)'
  <2>1. \A q : Pending(q) => Pending(q)'
    BY PendingByPush
  <2>. QED BY <1>2, <2>1 DEF Places
<1>7. (\A i \in DOMAIN queue : queue[i] # Null =>
          /\ state[queue[i]] = 0 /\ runs[queue[i]] = 0
          /\ \A j \in DOMAIN queue : queue[j] = queue[i] => j = i)'
  <2>1. PICK n \in Nat : n = Len(queue) /\ DOMAIN queue = 1..n /\ DOMAIN queue' = 1..n + 1
                         /\ queue'[n + 1] = Null /\ \A i \in 1..n : queue'[i] = queue[i]
    BY PushedBehind, ZenonT(60) DEF Types, TypeOK
  <2>2. \A i \in 1..n : queue[i] # Null =>
          /\ state[queue[i]] = 0 /\ runs[queue[i]] = 0
          /\ \A j \in 1..n : queue[j] = queue[i] => j = i
    BY <2>1 DEF Places
  <2>. QED BY <2>1, <2>2
<1>. QED BY <1>5, <1>6, <1>7 DEF Places, Running

\* A worker takes the first rule of the queue, or its NULL.
LEMMA PlacesByPull ==
    ASSUME Types, Types', Clock, Walk, Places, NEW w \in Workers, Pull(w)
    PROVE  Places'
<1>1. /\ task[w] = "idle" /\ queue # <<>> /\ queue' = Tail(queue)
      /\ UNCHANGED <<makefile, visited, goal, stack, state>>
  BY DEF Pull, main, disk
<1>2. /\ queue \in Seq(Rules \cup {Null}) /\ runs \in [Rules -> Nat]
      /\ task \in [Workers -> Rules \cup {"idle", "gone"}]
  BY DEF Types, TypeOK
<1>3. /\ 1 \in DOMAIN queue /\ Head(queue) = queue[1] /\ Head(queue) \in Rules \cup {Null}
      /\ DOMAIN queue \in SUBSET Nat /\ DOMAIN queue' \in SUBSET Nat
      /\ \A i \in DOMAIN queue' : i + 1 \in DOMAIN queue /\ queue'[i] = queue[i + 1]
  BY <1>1, <1>2, PulledInFront
<1>4. \A q \in Rules : Pending(q)' <=> Pending(q)
  BY PendingByPull
<1>5. Seen' = Seen /\ Stacked' = Stacked /\ Seen \subseteq Rules /\ Stacked \subseteq Rules
  <2>1. \A k \in DOMAIN stack : stack[k] \in Frames
    BY DEF Types
  <2>2. Stacked \subseteq Rules
    BY <2>1 DEF Stacked, Frames
  <2>. QED BY <1>1, <2>2, SeenStays, SeenIsBelowGoals DEF Stacked
<1>6. /\ \A q \in Rules : ~Pending(q) => runs'[q] = runs[q]
      /\ \A q \in Rules : q # Head(queue) => runs'[q] = runs[q]
      /\ Head(queue) # Null => runs[Head(queue)] = 0 /\ runs'[Head(queue)] = 1
  <2>1. CASE Head(queue) = Null
    BY <1>2, <2>1 DEF Pull
  <2>2. CASE Head(queue) # Null
    <3>1. PICK h \in Rules : h = Head(queue) /\ runs' = [runs EXCEPT ![h] = @ + 1]
      BY <1>3, <2>2 DEF Pull
    <3>2. Pending(h)
      BY <1>3, <3>1, PendingIs
    <3>3. runs[h] = 0
      BY <1>3, <2>2, <3>1 DEF Places
    <3>. QED BY <1>2, <3>1, <3>2, <3>3
  <2>. QED BY <2>1, <2>2
<1>7. (\A q \in Stacked \cup (Rules \ Seen) : Untouched(q))'
  <2>1. \A q \in Rules : Untouched(q) => Untouched(q)'
    BY <1>1, <1>4, <1>6 DEF Untouched
  <2>. QED BY <1>5, <2>1 DEF Places
<1>8. (\A q \in Seen : q \in Stacked \/ Pending(q) \/ state[q] # 0)'
  BY <1>1, <1>4, <1>5 DEF Places
<1>9. (\A i \in DOMAIN queue : queue[i] # Null =>
          /\ state[queue[i]] = 0 /\ runs[queue[i]] = 0
          /\ \A j \in DOMAIN queue : queue[j] = queue[i] => j = i)'
  <2>1. SUFFICES ASSUME NEW i \in DOMAIN queue', queue'[i] # Null
                 PROVE  /\ state'[queue'[i]] = 0 /\ runs'[queue'[i]] = 0
                        /\ \A j \in DOMAIN queue' : queue'[j] = queue'[i] => j = i
    OBVIOUS
  <2>2. PICK q \in Rules : q = queue'[i] /\ q = queue[i + 1] /\ i + 1 \in DOMAIN queue /\ i \in Nat
    BY <1>2, <1>3, <2>1
  <2>3. q # Null
    BY <2>2, NoNullIsARule
  <2>4. /\ state[q] = 0 /\ runs[q] = 0 /\ \A j \in DOMAIN queue : queue[j] = q => j = i + 1
    BY <2>2, <2>3 DEF Places
  <2>5. q # Head(queue)
    <3>1. 1 # i + 1 \/ i = 0
      BY <2>2
    <3>2. i # 0
      BY <1>1, <1>2, <2>1
    <3>. QED BY <1>3, <2>2, <2>4, <3>1, <3>2
  <2>6. \A j \in DOMAIN queue' : queue'[j] = q => j = i
    BY <1>3, <2>2, <2>4
  <2>. QED BY <1>1, <1>6, <2>2, <2>4, <2>5, <2>6
<1>10. \A v \in Workers : Running(v) => task[v] \in Rules /\ task[v] # Head(queue)
  <2>1. \A v \in Workers : Running(v) => task[v] \in Rules /\ runs[task[v]] > 0
    BY DEF Running, Clock
  <2>. QED BY <1>6, <2>1, NoNullIsARule
<1>11. (\A v \in Workers : Running(v) =>
          /\ state[task[v]] = 0
          /\ \A u \in Workers : task[u] = task[v] => u = v)'
  <2>1. CASE Head(queue) = Null
    <3>1. task' = [task EXCEPT ![w] = "gone"]
      BY <2>1 DEF Pull
    <3>2. \A v \in Workers : Running(v)' => v # w /\ Running(v) /\ task'[v] = task[v]
      BY <1>2, <3>1, NoNullIsARule DEF Running
    <3>. QED BY <1>1, <1>2, <3>1, <3>2, NoNullIsARule DEF Places, Running
  <2>2. CASE Head(queue) # Null
    <3>1. PICK h \in Rules : h = Head(queue) /\ task' = [task EXCEPT ![w] = h]
      BY <1>3, <2>2 DEF Pull
    <3>2. state[h] = 0
      BY <1>3, <2>2, <3>1 DEF Places
    <3>3. \A v \in Workers : task'[v] = IF v = w THEN h ELSE task[v]
      BY <1>2, <3>1
    <3>4. \A v \in Workers : task[v] # h
      BY <1>10, <3>1 DEF Running
    <3>5. \A v \in Workers : task[v] \in Rules =>
              state[task[v]] = 0 /\ \A u \in Workers : task[u] = task[v] => u = v
      BY DEF Places, Running
    <3>. QED BY <1>1, <3>2, <3>3, <3>4, <3>5 DEF Running
  <2>. QED BY <2>1, <2>2
<1>12. (\A q \in Rules : runs[q] <= 1)'
  <2>1. \A q \in Rules : runs[q] <= 1
    BY DEF Places
  <2>2. \A q \in Rules : q = Head(queue) => runs'[q] = 1
    BY <1>6, NoNullIsARule
  <2>. QED BY <1>6, <2>1, <2>2
<1>. QED BY <1>7, <1>8, <1>9, <1>11, <1>12 DEF Places

\* A worker publishes how its rule went.
LEMMA PlacesByReport ==
    ASSUME Types, Clock, Walk, Places, NEW w \in Workers, Report(w)
    PROVE  Places'
<1>1. /\ UNCHANGED <<makefile, visited, goal, stack, queue, runs>>
      /\ task' = [task EXCEPT ![w] = "idle"]
  BY DEF Report, main, disk
<1>2. PICK t \in Rules : t = task[w]
  BY DEF Report, Running
<1>3. /\ state \in [Rules -> {0, 1, -1}]
      /\ task \in [Workers -> Rules \cup {"idle", "gone"}]
      /\ queue \in Seq(Rules \cup {Null})
  BY DEF Types, TypeOK
<1>4. state'[t] # 0 /\ \A q \in Rules : q # t => state'[q] = state[q]
  BY <1>2, <1>3 DEF Report, Settle
<1>5. \A q \in Rules : Pending(q)' <=> Pending(q) /\ q # t
  BY <1>2, PendingByReport
<1>6. Pending(t) /\ runs[t] > 0
  BY <1>2, PendingIs DEF Clock, Running
<1>7. Seen' = Seen /\ Stacked' = Stacked /\ Seen \subseteq Rules /\ Stacked \subseteq Rules
  <2>1. \A k \in DOMAIN stack : stack[k] \in Frames
    BY DEF Types
  <2>2. Stacked \subseteq Rules
    BY <2>1 DEF Stacked, Frames
  <2>. QED BY <1>1, <2>2, SeenStays, SeenIsBelowGoals DEF Stacked
<1>8. (\A q \in Stacked \cup (Rules \ Seen) : Untouched(q))'
  <2>1. \A q \in Rules : Untouched(q) => Untouched(q)'
    BY <1>1, <1>4, <1>5, <1>6 DEF Untouched
  <2>. QED BY <1>7, <2>1 DEF Places
<1>9. (\A q \in Seen : q \in Stacked \/ Pending(q) \/ state[q] # 0)'
  BY <1>4, <1>5, <1>7 DEF Places
<1>10. (\A i \in DOMAIN queue : queue[i] # Null =>
          /\ state[queue[i]] = 0 /\ runs[queue[i]] = 0
          /\ \A j \in DOMAIN queue : queue[j] = queue[i] => j = i)'
  <2>1. \A i \in DOMAIN queue : queue[i] # Null => queue[i] \in Rules /\ runs[queue[i]] = 0
    BY <1>3 DEF Places
  <2>2. \A i \in DOMAIN queue : queue[i] # Null => queue[i] \in Rules /\ queue[i] # t
    BY <1>6, <2>1
  <2>. QED BY <1>1, <1>4, <2>2 DEF Places
<1>11. (\A v \in Workers : Running(v) =>
          /\ state[task[v]] = 0
          /\ \A u \in Workers : task[u] = task[v] => u = v)'
  <2>1. \A v \in Workers : Running(v)' => v # w /\ Running(v) /\ task'[v] = task[v] /\ task[v] # t
    BY <1>1, <1>2, <1>3, NoNullIsARule DEF Running, Places
  <2>2. \A v \in Workers : v # w => task'[v] = task[v]
    BY <1>1, <1>3
  <2>3. \A v \in Workers : task[v] \in Rules =>
              state[task[v]] = 0 /\ \A u \in Workers : task[u] = task[v] => u = v
    BY DEF Places, Running
  <2>4. task'[w] = "idle"
    BY <1>1, <1>3
  <2>. QED BY <1>4, <2>1, <2>2, <2>3, <2>4, NoNullIsARule DEF Running
<1>. QED BY <1>1, <1>8, <1>9, <1>10, <1>11 DEF Places
------------------------------------------------------------------------------
\* The walk under Regular: a rule is handed to the workers or decided only when
\* every dependency has been, and no dependency is handed out a second time.
LEMMA PhaseIsSound ==
    ASSUME IInv, Sound, Regular, Phase
    PROVE  /\ stack # <<>> /\ Quiet
           /\ \/ \E f \in Frames : Advances(f) /\ Learnt(f)
              \/ Hands(Top.rule) /\ DepsDone(Top.rule)
              \/ Settles(1) /\ DepsDone(Top.rule) /\ Current(Top.rule)
              \/ Settles(-1) /\ \E d \in DepSet(Top.rule) : state[d] = -1
<1>1. stack # <<>> /\ Top.phase # "descend" /\ Quiet
  BY PhaseSteps DEF IInv
<1>2. PICK r \in Rules : r = Top.rule /\ r \in Stacked
  BY <1>1, TopIsStacked DEF IInv
<1>3. Top \in Frames /\ Top = stack[Len(stack)] /\ Len(stack) \in DOMAIN stack
  BY <1>1, TopIsAFrame DEF IInv, Types
<1>4. Learnt(Top)
  BY <1>3 DEF Sound, AllLearnt
<1>5. /\ Top.i \in Nat \ {0} /\ Top.stamp \in Nat /\ Len(Deps[r]) \in Nat
      /\ DOMAIN Deps[r] = 1..Len(Deps[r]) /\ DepSet(r) \subseteq Rules
      /\ \A j \in DOMAIN Deps[r] : Deps[r][j] \in DepSet(r)
      /\ \A d \in DepSet(r) : \E j \in DOMAIN Deps[r] : Deps[r][j] = d
  BY <1>3, MakefileIsKnown DEF IInv, Types, Frames
<1>6. MoreDeps => Top.i \in DOMAIN Deps[r] /\ Dep = Deps[r][Top.i] /\ Dep \in DepSet(r)
  BY <1>1, <1>2, DepIsADependency DEF IInv
<1>7. ~MoreDeps => \A j \in DOMAIN Deps[r] : j < Top.i
  BY <1>2, <1>5 DEF MoreDeps
<1>8. /\ state \in [Rules -> {0, 1, -1}] /\ mtime \in [Rules -> Nat]
  BY DEF IInv, Types, TypeOK
<1>9. ASSUME NextDep, UNCHANGED <<queue, state>>
      PROVE  \E f \in Frames : Advances(f) /\ f.rule = r /\ f.phase = Top.phase
                               /\ f.i = Top.i + 1 /\ f.stamp = Top.stamp
  BY <1>1, <1>2, <1>9, FrameSteps DEF IInv, NextDep, Advances
<1>10. ASSUME NEW p \in Phases, p # "descend", NextPhase(p), UNCHANGED <<queue, state>>
       PROVE  \E f \in Frames : Advances(f) /\ f.rule = r /\ f.phase = p /\ f.i = 1
  BY <1>1, <1>2, <1>10, FrameSteps, ZenonT(60) DEF IInv, NextPhase, Advances
<1>11. \A j \in DOMAIN Deps[r] : j < Top.i + 1 => j < Top.i \/ j = Top.i
  BY <1>5
<1>12. \A j \in DOMAIN Deps[r] : ~(j < 1)
  BY <1>5
<1>13. CASE Await
  <2>1. Top.phase = "await" /\ UNCHANGED <<queue, state>>
    BY <1>13 DEF Await, At
  <2>2. \A j \in DOMAIN Deps[r] : j < Top.i => state[Deps[r][j]] # 0
    BY <1>2, <1>4, <2>1 DEF Learnt
  <2>3. CASE MoreDeps /\ state[Dep] # 0 /\ NextDep
    <3>1. PICK f \in Frames : Advances(f) /\ f.rule = r /\ f.phase = "await" /\ f.i = Top.i + 1
      BY <1>9, <2>1, <2>3
    <3>2. \A j \in DOMAIN Deps[r] : j < f.i => state[Deps[r][j]] # 0
      BY <1>6, <1>11, <2>2, <2>3, <3>1
    <3>. QED BY <1>1, <3>1, <3>2 DEF Learnt
  <2>4. CASE ~MoreDeps /\ NextPhase("inspect")
    <3>1. PICK f \in Frames : Advances(f) /\ f.rule = r /\ f.phase = "inspect" /\ f.i = 1
      BY <1>10, <2>1, <2>4 DEF Phases
    <3>2. \A j \in DOMAIN Deps[r] : state[Deps[r][j]] # 0 /\ ~(j < f.i)
      BY <1>7, <1>12, <2>2, <2>4, <3>1
    <3>. QED BY <1>1, <3>1, <3>2 DEF Learnt
  <2>. QED BY <1>13, <2>3, <2>4 DEF Await
<1>14. CASE Inspect
  <2>1. Top.phase = "inspect" /\ UNCHANGED queue
    BY <1>14 DEF Inspect, At
  <2>2. \A j \in DOMAIN Deps[r] :
            state[Deps[r][j]] # 0 /\ (j < Top.i => state[Deps[r][j]] # -1)
    BY <1>2, <1>4, <2>1 DEF Learnt
  <2>3. CASE MoreDeps /\ state[Dep] = -1 /\ Settle(Top.rule, -1) /\ Pop
    BY <1>1, <1>2, <1>6, <2>1, <2>3 DEF Settles
  <2>4. CASE MoreDeps /\ state[Dep] # -1 /\ NextDep /\ UNCHANGED state
    <3>1. PICK f \in Frames : Advances(f) /\ f.rule = r /\ f.phase = "inspect" /\ f.i = Top.i + 1
      BY <1>9, <2>1, <2>4
    <3>2. \A j \in DOMAIN Deps[r] :
              state[Deps[r][j]] # 0 /\ (j < f.i => state[Deps[r][j]] # -1)
      BY <1>6, <1>11, <2>2, <2>4, <3>1
    <3>. QED BY <1>1, <3>1, <3>2 DEF Learnt
  <2>5. CASE ~MoreDeps /\ NextPhase("disk") /\ UNCHANGED state
    <3>1. PICK f \in Frames : Advances(f) /\ f.rule = r /\ f.phase = "disk" /\ f.i = 1
      BY <1>10, <2>1, <2>5 DEF Phases
    <3>2. DepsDone(r)
      <4>1. \A j \in DOMAIN Deps[r] : state[Deps[r][j]] # 0 /\ state[Deps[r][j]] # -1
        BY <1>7, <2>2, <2>5
      <4>2. \A d \in DepSet(r) : d \in Rules /\ state[d] # 0 /\ state[d] # -1
        BY <1>5, <4>1
      <4>. QED BY <1>8, <4>2 DEF DepsDone
    <3>. QED BY <1>1, <3>1, <3>2 DEF Learnt
  <2>. QED BY <1>14, <2>3, <2>4, <2>5 DEF Inspect
<1>15. CASE CheckDisk
  <2>1. Top.phase = "disk" /\ UNCHANGED state
    BY <1>15 DEF CheckDisk, At
  <2>2. DepsDone(r)
    BY <1>2, <1>4, <2>1 DEF Learnt
  <2>3. CASE mtime[Top.rule] # 0 /\ NextPhase("missing") /\ UNCHANGED queue
    <3>1. PICK f \in Frames : Advances(f) /\ f.rule = r /\ f.phase = "missing" /\ f.i = 1
      BY <1>10, <2>1, <2>3 DEF Phases
    <3>. QED BY <1>1, <1>2, <2>2, <2>3, <3>1 DEF Learnt
  <2>. QED BY <1>1, <1>2, <1>15, <2>1, <2>2, <2>3 DEF CheckDisk, Hands
<1>16. CASE FindMissing
  <2>1. Top.phase = "missing" /\ UNCHANGED state
    BY <1>16 DEF FindMissing, At
  <2>2. DepsDone(r) /\ mtime[r] # 0
    BY <1>2, <1>4, <2>1 DEF Learnt
  <2>3. ASSUME MoreDeps, mtime[Dep] = 0 PROVE FALSE
    <3>1. PICK d \in DepSet(r) : d = Dep /\ d \in Rules
      BY <1>5, <1>6, <2>3
    <3>2. runs[r] = 0
      BY <1>2 DEF Sound, Places, Untouched
    <3>3. start[r] # 0
      BY <2>2, <3>2 DEF IInv, Clock
    <3>4. start[d] # 0 \/ d \in makefile.makes
      BY <3>3 DEF Regular, FilesNeedFiles
    <3>5. start[d] <= 0 /\ start[d] \in Nat
      <4>1. start \in [Rules -> 0..Cardinality(Rules)] /\ Cardinality(Rules) \in Nat
        BY MakefileIsKnown DEF IInv, Types
      <4>2. start[d] <= mtime[d]
        BY <3>1 DEF IInv, Clock
      <4>. QED BY <2>3, <3>1, <4>1, <4>2
    <3>6. d \in makefile.makes
      BY <3>4, <3>5
    <3>7. state[d] = 1
      BY <2>2, <3>1 DEF DepsDone
    <3>8. Current(d)
      BY <3>6, <3>7 DEF Sound, Outcomes
    <3>. QED BY <2>3, <3>1, <3>8 DEF Current
  <2>4. CASE MoreDeps /\ mtime[Dep] # 0 /\ NextDep /\ UNCHANGED queue
    <3>1. PICK f \in Frames : Advances(f) /\ f.rule = r /\ f.phase = "missing"
      BY <1>9, <2>1, <2>4
    <3>. QED BY <1>1, <2>2, <3>1 DEF Learnt
  <2>5. CASE /\ ~MoreDeps /\ UNCHANGED queue
             /\ Goto([Top EXCEPT !.phase = "newer", !.i = 1, !.stamp = mtime[Top.rule]])
    <3>1. PICK f \in Frames : Advances(f) /\ f.rule = r /\ f.phase = "newer" /\ f.i = 1
                              /\ f.stamp = mtime[r]
      BY <1>1, <1>2, <1>8, <2>1, <2>5, FrameSteps DEF IInv, Advances
    <3>2. \A j \in DOMAIN Deps[r] : ~(j < f.i)
      BY <1>12, <3>1
    <3>. QED BY <1>1, <2>2, <3>1, <3>2 DEF Learnt
  <2>. QED BY <1>16, <2>3, <2>4, <2>5 DEF FindMissing
<1>17. CASE FindNewer
  <2>1. Top.phase = "newer"
    BY <1>17 DEF FindNewer, At
  <2>2. /\ DepsDone(r) /\ mtime[r] # 0 /\ Top.stamp = mtime[r]
        /\ \A j \in DOMAIN Deps[r] : j < Top.i => mtime[Deps[r][j]] <= Top.stamp
    BY <1>2, <1>4, <2>1 DEF Learnt
  <2>3. CASE MoreDeps /\ Push(Top.rule) /\ Pop /\ UNCHANGED state
    BY <1>1, <1>2, <2>2, <2>3 DEF Hands
  <2>4. CASE MoreDeps /\ Top.stamp >= mtime[Dep] /\ NextDep /\ UNCHANGED <<queue, state>>
    <3>1. PICK f \in Frames : Advances(f) /\ f.rule = r /\ f.phase = "newer" /\ f.i = Top.i + 1
                              /\ f.stamp = Top.stamp
      BY <1>9, <2>1, <2>4
    <3>2. mtime[Dep] <= Top.stamp
      BY <1>5, <1>6, <1>8, <2>4
    <3>3. \A j \in DOMAIN Deps[r] : j < f.i => mtime[Deps[r][j]] <= f.stamp
      BY <1>6, <1>11, <2>2, <2>4, <3>1, <3>2
    <3>. QED BY <1>1, <2>2, <3>1, <3>3 DEF Learnt
  <2>5. CASE ~MoreDeps /\ Settle(Top.rule, 1) /\ Pop /\ UNCHANGED queue
    <3>1. Current(r)
      BY <1>5, <1>7, <2>2, <2>5 DEF Current
    <3>. QED BY <1>1, <1>2, <2>2, <2>5, <3>1 DEF Settles
  <2>. QED BY <1>17, <2>3, <2>4, <2>5 DEF FindNewer
<1>. QED BY <1>13, <1>14, <1>15, <1>16, <1>17 DEF Phase
------------------------------------------------------------------------------
\* Every action moves rules from one place to the next.
LEMMA PlacesStep == IInv /\ Types' /\ Sound /\ Regular /\ [Next]_vars => Places'
<1>1. SUFFICES ASSUME IInv, Types', Sound, Regular, [Next]_vars PROVE Places'
  OBVIOUS
<1>2. Types /\ Clock /\ Walk /\ Places /\ GoalsAreApart
  BY <1>1 DEF IInv, Sound, Regular
<1>3. ASSUME UNCHANGED <<queue, state, task, runs, makefile, visited, goal>>, Stacked' = Stacked
      PROVE  Places'
  <2>1. PICK E \in SUBSET Rules : E = {}
    OBVIOUS
  <2>2. Seen' = Seen \cup E /\ Stacked' = Stacked \cup E /\ E \cap Seen = {}
    BY <1>3, <2>1, SeenStays
  <2>. QED BY <1>2, <1>3, <2>2, PlacesByEntering
<1>4. CASE TakeGoal
  <2>1. /\ stack = <<>> /\ UNCHANGED <<queue, state, task, runs>>
        /\ \/ visited' = {} /\ stack' = <<>>
           \/ Goals[goal] \in Rules /\ visited' = {Goals[goal]} /\ stack' = <<Frame(Goals[goal])>>
    BY <1>2, <1>4, TakenUp
  <2>2. visited' \in SUBSET Rules
    BY <2>1
  <2>3. Stacked = {}
    BY <2>1 DEF Stacked
  <2>4. Stacked' = visited'
    <3>1. CASE visited' = {} /\ stack' = <<>>
      BY <3>1 DEF Stacked
    <3>2. CASE visited' = {Goals[goal]} /\ stack' = <<Frame(Goals[goal])>>
      <4>. DEFINE f == Frame(Goals[goal])
      <4>1. f.rule = Goals[goal]
        BY DEF Frame
      <4>2. DOMAIN stack' = {1} /\ stack'[1] = f
        BY <3>2, <4>1
      <4>. QED BY <3>2, <4>1, <4>2 DEF Stacked
    <3>. QED BY <2>1, <3>1, <3>2
  <2>5. PICK E \in SUBSET Rules : E = visited'
    BY <2>2
  <2>6. Seen' = Seen \cup E /\ Stacked' = Stacked \cup E /\ E \cap Seen = {}
    BY <1>2, <1>4, <2>3, <2>4, <2>5, SeenByTakingGoal
  <2>. QED BY <1>2, <2>1, <2>6, PlacesByEntering
<1>5. CASE Descend
  <2>1. stack # <<>> /\ UNCHANGED <<goal, queue, state, makefile, task, runs>>
    BY <1>2, <1>5, DescendSteps
  <2>2. ASSUME MoreDeps, Dep \notin visited, visited' = visited \cup {Dep},
               stack' = Append([stack EXCEPT ![Len(stack)].i = @ + 1], Frame(Dep))
        PROVE  Places'
    <3>1. Dep \in Rules
      BY <1>2, <2>1, <2>2, DepIsADependency
    <3>2. PICK E \in SUBSET Rules : E = {Dep}
      BY <3>1
    <3>3. Seen' = Seen \cup E /\ E \cap Seen = {}
      BY <1>2, <2>1, <2>2, <3>2, SeenByEntering
    <3>4. Stacked' = Stacked \cup E
      BY <1>2, <2>1, <2>2, <3>1, <3>2, StackedByEnter
    <3>. QED BY <1>2, <2>1, <3>3, <3>4, PlacesByEntering
  <2>3. ASSUME NEW f \in Frames, f.rule = Top.rule, Goto(f), UNCHANGED visited
        PROVE  Places'
    <3>1. Stacked' = Stacked
      BY <1>2, <2>1, <2>3, StackedByGoto
    <3>. QED BY <1>3, <2>1, <2>3, <3>1
  <2>4. \A f : f = [Top EXCEPT !.i = @ + 1] \/ f = [Top EXCEPT !.phase = "await", !.i = 1]
               => f \in Frames /\ f.rule = Top.rule
    BY <1>2, <2>1, FrameSteps, ZenonT(60) DEF Phases
  <2>. QED BY <1>2, <1>5, <2>2, <2>3, <2>4, DescendSteps
<1>6. CASE Phase
  <2>1. stack # <<>> /\ UNCHANGED <<makefile, visited, goal, task, runs>>
    BY <1>1, <1>6, PhaseIsSound DEF Quiet
  <2>2. ASSUME NEW f \in Frames, Advances(f) PROVE Places'
    <3>1. Stacked' = Stacked
      BY <1>2, <2>1, <2>2, StackedByGoto DEF Advances
    <3>. QED BY <1>3, <2>1, <2>2, <3>1 DEF Advances
  <2>3. CASE Hands(Top.rule)
    BY <1>1, <1>2, <2>1, <2>3, PlacesByHand
  <2>4. ASSUME NEW s \in {1, -1}, Settles(s) PROVE Places'
    BY <1>2, <2>1, <2>4, PlacesBySettling
  <2>. QED BY <1>1, <1>6, <2>2, <2>3, <2>4, PhaseIsSound
<1>7. CASE PushNull
  BY <1>1, <1>2, <1>7, PlacesByNull DEF PushNull, disk, workers
<1>8. ASSUME NEW w \in Workers, Pull(w) PROVE Places'
  BY <1>1, <1>2, <1>8, PlacesByPull
<1>9. ASSUME NEW w \in Workers, RunCommands(w) PROVE Places'
  <2>1. UNCHANGED <<queue, state, task, runs, makefile, visited, goal>> /\ Stacked' = Stacked
    BY <1>9 DEF RunCommands, main, Stacked
  <2>. QED BY <1>3, <2>1
<1>10. ASSUME NEW w \in Workers, Report(w) PROVE Places'
  BY <1>2, <1>10, PlacesByReport
<1>11. CASE UNCHANGED vars
  <2>1. UNCHANGED <<queue, state, task, runs, makefile, visited, goal>> /\ Stacked' = Stacked
    BY <1>11 DEF vars, main, Stacked
  <2>. QED BY <1>3, <2>1
<1>12. MainStep => TakeGoal \/ Descend \/ Phase \/ PushNull
  BY DEF MainStep, Phase
<1>. QED
  BY <1>1, <1>4, <1>5, <1>6, <1>7, <1>8, <1>9, <1>10, <1>11, <1>12 DEF Next, WorkerStep
------------------------------------------------------------------------------
\* What has been decided stays so, and its target is not touched again; nor is that
\* of a rule the walk is at.
Steady ==
    /\ \A d \in Rules : state[d] # 0 => state'[d] = state[d] /\ mtime'[d] = mtime[d]
    /\ \A d \in Stacked : mtime'[d] = mtime[d]

\* No step changes what has been decided, for a rule is run or settled only before.
LEMMA DecidedIsSteady == IInv /\ Sound /\ Regular /\ [Next]_vars => Steady
<1>1. SUFFICES ASSUME IInv, Sound, Regular, [Next]_vars PROVE Steady
  OBVIOUS
<1>2. /\ Types /\ Walk /\ Places
      /\ state \in [Rules -> {0, 1, -1}] /\ mtime \in [Rules -> Nat]
  BY <1>1 DEF IInv, Sound, Types, TypeOK
<1>3. ASSUME MainStep PROVE Steady
  <2>1. mtime' = mtime
    BY <1>2, <1>3, MainLeavesTheDisk
  <2>2. CASE Phase
    <3>1. stack # <<>> /\ (state' = state \/ \E s \in {1, -1} : Settle(Top.rule, s))
      BY <1>1, <2>2, PhaseIsSound DEF Advances, Hands, Settles
    <3>2. Top.rule \in Stacked /\ state[Top.rule] = 0
      BY <1>2, <3>1, TopIsStacked DEF Places, Untouched
    <3>. QED BY <1>2, <2>1, <3>1, <3>2 DEF Steady, Settle
  <2>3. CASE TakeGoal \/ Descend \/ PushNull
    BY <2>1, <2>3 DEF Steady, TakeGoal, Descend, PushNull
  <2>. QED BY <1>3, <2>2, <2>3 DEF MainStep, Phase
<1>4. ASSUME NEW w \in Workers, Pull(w) PROVE Steady
  BY <1>4 DEF Pull, disk, Steady
<1>5. ASSUME NEW w \in Workers, RunCommands(w) PROVE Steady
  <2>1. PICK t \in Rules : t = task[w]
    BY <1>5 DEF RunCommands, Running
  <2>2. state[t] = 0 /\ Pending(t)
    BY <1>2, <2>1, PendingIs DEF Places, Running
  <2>3. t \notin Stacked
    BY <1>2, <2>2 DEF Places, Untouched
  <2>4. state' = state /\ (mtime' = mtime \/ mtime' = [mtime EXCEPT ![t] = now])
    BY <1>5, <2>1 DEF RunCommands
  <2>5. \A d \in Rules : d # t => mtime'[d] = mtime[d]
    BY <1>2, <2>4
  <2>6. Stacked \subseteq Rules
    <3>1. \A k \in DOMAIN stack : stack[k] \in Frames
      BY <1>2 DEF Types
    <3>. QED BY <3>1 DEF Stacked, Frames
  <2>. QED BY <2>2, <2>3, <2>4, <2>5, <2>6 DEF Steady
<1>6. ASSUME NEW w \in Workers, Report(w) PROVE Steady
  <2>1. PICK t \in Rules : t = task[w] /\ state[t] = 0
    BY <1>2, <1>6 DEF Report, Running, Places
  <2>2. mtime' = mtime /\ \A d \in Rules : d # t => state'[d] = state[d]
    BY <1>2, <1>6, <2>1 DEF Report, disk, Settle
  <2>. QED BY <2>1, <2>2 DEF Steady
<1>7. CASE UNCHANGED vars
  BY <1>7 DEF vars, Steady
<1>. QED BY <1>1, <1>3, <1>4, <1>5, <1>6, <1>7 DEF Next, WorkerStep

\* Dependencies that have succeeded stay so, and their targets keep their times.
LEMMA DoneStays ==
    ASSUME Types, makefile' = makefile, Steady, NEW r \in Rules, DepsDone(r)
    PROVE  DepsDone(r)' /\ \A d \in DepSet(r) : mtime'[d] = mtime[d]
<1>1. DepSet(r) \subseteq Rules /\ DepSet(r)' = DepSet(r)
  BY MakefileIsKnown, MakefileOperators DEF Types
<1>2. \A d \in DepSet(r) : state[d] = 1 /\ state'[d] = state[d] /\ mtime'[d] = mtime[d]
  BY <1>1 DEF DepsDone, Steady
<1>. QED BY <1>1, <1>2 DEF DepsDone

\* A target that is up to date stays so.
LEMMA CurrentStays ==
    ASSUME Types, makefile' = makefile, Steady, NEW r \in Rules, DepsDone(r), Current(r),
           mtime'[r] = mtime[r]
    PROVE  Current(r)'
<1>1. DepSet(r)' = DepSet(r)
  BY MakefileOperators
<1>. QED BY <1>1, DoneStays DEF Current

\* A frame that has just been made, or has just begun to wait, has learnt nothing.
Fresh(f) == f.phase = "descend" \/ (f.phase = "await" /\ f.i = 1)

\* The frame of a rule that is entered is new.
LEMMA NewFramesAreFresh ==
    ASSUME NEW r \in Rules
    PROVE  Frame(r) \in Frames /\ Fresh(Frame(r))
<1>1. Frame(r) \in Frames
  BY DEF Frame, Frames, Phases
<1>2. Frame(r).phase = "descend"
  BY DEF Frame
<1>. QED BY <1>1, <1>2 DEF Fresh

\* A new frame has nothing to keep.
LEMMA FreshHasLearnt ==
    ASSUME Types', NEW f \in Frames, Fresh(f)
    PROVE  Learnt(f)'
<1>1. Deps' \in [Rules -> Seq(Rules)]
  BY ParmakeAssumption DEF Types, Deps
<1>2. f.rule \in Rules
  BY DEF Frames
<1>3. \A j \in DOMAIN Deps'[f.rule] : ~(j < 1)
  BY <1>1, <1>2
<1>. QED BY <1>3 DEF Learnt, Fresh

\* What a frame has learnt stays true while the workers go on.
LEMMA LearntStays ==
    ASSUME Types, makefile' = makefile, Steady, NEW f \in Frames, f.rule \in Stacked, Learnt(f)
    PROVE  Learnt(f)'
<1>1. PICK r \in Rules : r = f.rule /\ r \in Stacked
  BY DEF Frames
<1>2. /\ Deps' = Deps /\ DepSet(r) \subseteq Rules
      /\ \A j \in DOMAIN Deps[r] : Deps[r][j] \in DepSet(r)
  BY MakefileIsKnown, MakefileOperators DEF Types
<1>3. \A j \in DOMAIN Deps[r] : state[Deps[r][j]] # 0 => state'[Deps[r][j]] = state[Deps[r][j]]
  BY <1>2 DEF Steady
<1>4. mtime'[r] = mtime[r]
  BY <1>1 DEF Steady
<1>5. f.phase = "await" => \A j \in DOMAIN Deps[r] : j < f.i => state'[Deps[r][j]] # 0
  BY <1>1, <1>3 DEF Learnt
<1>6. f.phase = "inspect" => \A j \in DOMAIN Deps[r] :
          state'[Deps[r][j]] # 0 /\ (j < f.i => state'[Deps[r][j]] # -1)
  BY <1>1, <1>3 DEF Learnt
<1>7. f.phase \in {"disk", "missing", "newer"} =>
          DepsDone(r)' /\ \A d \in DepSet(r) : mtime'[d] = mtime[d]
  BY <1>1, DoneStays DEF Learnt
<1>8. f.phase \in {"missing", "newer"} => mtime'[r] # 0
  BY <1>1, <1>4 DEF Learnt
<1>9. f.phase = "newer" =>
          /\ f.stamp = mtime'[r]
          /\ \A j \in DOMAIN Deps[r] : j < f.i => mtime'[Deps[r][j]] <= f.stamp
  BY <1>1, <1>2, <1>4, <1>7 DEF Learnt
<1>. QED BY <1>1, <1>2, <1>5, <1>6, <1>7, <1>8, <1>9 DEF Learnt

\* The frames after a step are new, or know what they say already.
LEMMA LearntByFrames ==
    ASSUME Types, Types', makefile' = makefile, Steady,
           \A k \in DOMAIN stack' : \E f \in Frames :
               f = stack'[k] /\ (Fresh(f) \/ (f.rule \in Stacked /\ Learnt(f)))
    PROVE  AllLearnt'
<1>1. SUFFICES ASSUME NEW k \in DOMAIN stack' PROVE Learnt(stack[k])'
  BY DEF AllLearnt
<1>2. PICK f \in Frames : f = stack'[k] /\ (Fresh(f) \/ (f.rule \in Stacked /\ Learnt(f)))
  OBVIOUS
<1>3. Learnt(f)'
  BY <1>2, FreshHasLearnt, LearntStays
<1>. QED BY <1>2, <1>3 DEF Learnt

\* Every action keeps what the frames have learnt.
LEMMA LearntStep == IInv /\ Types' /\ Sound /\ Regular /\ [Next]_vars => AllLearnt'
<1>1. SUFFICES ASSUME IInv, Types', Sound, Regular, [Next]_vars PROVE AllLearnt'
  OBVIOUS
<1>2. /\ Types /\ AllLearnt /\ Steady /\ makefile' = makefile /\ stack \in Seq(Frames)
  BY <1>1, DecidedIsSteady, MakefileStays DEF IInv, Sound, Types
<1>3. \A k \in DOMAIN stack : stack[k] \in Frames /\ stack[k].rule \in Stacked /\ Learnt(stack[k])
  BY <1>2 DEF AllLearnt, Stacked
<1>4. ASSUME \A k \in DOMAIN stack' : k \in DOMAIN stack /\ stack'[k] = stack[k] PROVE AllLearnt'
  <2>1. \A k \in DOMAIN stack' : \E f \in Frames :
            f = stack'[k] /\ (Fresh(f) \/ (f.rule \in Stacked /\ Learnt(f)))
    BY <1>3, <1>4
  <2>. QED BY <1>1, <1>2, <2>1, LearntByFrames
<1>5. ASSUME NEW f \in Frames, Goto(f), stack # <<>>,
             Fresh(f) \/ (f.rule \in Stacked /\ Learnt(f))
      PROVE  AllLearnt'
  <2>1. \A k \in DOMAIN stack' : k \in DOMAIN stack /\ (stack'[k] = f \/ stack'[k] = stack[k])
    BY <1>2, <1>5, GotoChangesTheTop
  <2>2. \A k \in DOMAIN stack' : \E g \in Frames :
            g = stack'[k] /\ (Fresh(g) \/ (g.rule \in Stacked /\ Learnt(g)))
    BY <1>3, <1>5, <2>1
  <2>. QED BY <1>1, <1>2, <2>2, LearntByFrames
<1>6. CASE TakeGoal
  <2>1. \/ stack' = <<>>
        \/ Goals[goal] \in Rules /\ stack' = <<Frame(Goals[goal])>>
    BY <1>2, <1>6, TakenUp
  <2>2. \A k \in DOMAIN stack' : \E f \in Frames : f = stack'[k] /\ Fresh(f)
    <3>1. CASE stack' = <<>>
      BY <3>1
    <3>2. ASSUME NEW r \in Rules, stack' = <<Frame(r)>>
          PROVE  \A k \in DOMAIN stack' : \E f \in Frames : f = stack'[k] /\ Fresh(f)
      <4>1. PICK f \in Frames : f = Frame(r) /\ Fresh(f)
        BY NewFramesAreFresh
      <4>2. DOMAIN stack' = {1} /\ stack'[1] = f
        BY <3>2, <4>1
      <4>. QED BY <4>1, <4>2
    <3>. QED BY <2>1, <3>1, <3>2
  <2>. QED BY <1>1, <1>2, <2>2, LearntByFrames
<1>7. CASE Descend
  <2>1. stack # <<>> /\ Top.phase = "descend"
    BY <1>2, <1>7, DescendSteps DEF At
  <2>2. \A f : f = [Top EXCEPT !.i = @ + 1] \/ f = [Top EXCEPT !.phase = "await", !.i = 1]
               => f \in Frames /\ Fresh(f)
    <3>1. [Top EXCEPT !.i = @ + 1] \in Frames /\ [Top EXCEPT !.i = @ + 1].phase = "descend"
      BY <1>2, <2>1, FrameSteps
    <3>2. "await" \in Phases
      BY DEF Phases
    <3>3. /\ [Top EXCEPT !.phase = "await", !.i = 1] \in Frames
          /\ [Top EXCEPT !.phase = "await", !.i = 1].phase = "await"
          /\ [Top EXCEPT !.phase = "await", !.i = 1].i = 1
      BY <1>2, <2>1, <3>2, FrameSteps
    <3>. QED BY <3>1, <3>3 DEF Fresh
  <2>3. ASSUME NEW r \in Rules,
               stack' = Append([stack EXCEPT ![Len(stack)].i = @ + 1], Frame(r))
        PROVE  AllLearnt'
    <3>1. PICK f \in Frames : f = Frame(r) /\ Fresh(f)
      BY NewFramesAreFresh
    <3>2. PICK g \in Frames : g = [Top EXCEPT !.i = @ + 1] /\ Fresh(g)
      BY <2>2
    <3>3. \A k \in DOMAIN stack' : stack'[k] = f \/ stack'[k] = g \/ (k \in DOMAIN stack /\ stack'[k] = stack[k])
      BY <1>2, <2>1, <2>3, <3>1, <3>2, EnterAddsAFrame
    <3>4. \A k \in DOMAIN stack' : \E h \in Frames :
              h = stack'[k] /\ (Fresh(h) \/ (h.rule \in Stacked /\ Learnt(h)))
      BY <1>3, <3>1, <3>2, <3>3
    <3>. QED BY <1>1, <1>2, <3>4, LearntByFrames
  <2>4. MoreDeps => Dep \in Rules
    BY <1>2, <2>1, DepIsADependency
  <2>. QED BY <1>2, <1>5, <1>7, <2>1, <2>2, <2>3, <2>4, DescendSteps
<1>8. CASE Phase
  <2>1. stack # <<>> /\ Top.rule \in Stacked
    BY <1>1, <1>2, <1>8, PhaseIsSound, TopIsStacked
  <2>2. ASSUME NEW f \in Frames, Advances(f), Learnt(f) PROVE AllLearnt'
    BY <1>5, <2>1, <2>2 DEF Advances
  <2>3. ASSUME Pop PROVE AllLearnt'
    BY <1>2, <1>4, <2>1, <2>3, PopDropsTheTop
  <2>. QED BY <1>1, <1>8, <2>2, <2>3, PhaseIsSound DEF Hands, Settles
<1>9. ASSUME stack' = stack PROVE AllLearnt'
  BY <1>4, <1>9
<1>10. MainStep => TakeGoal \/ Descend \/ Phase \/ PushNull
  BY DEF MainStep, Phase
<1>11. [Next]_vars => TakeGoal \/ Descend \/ Phase \/ stack' = stack
  BY <1>10 DEF Next, WorkerStep, PushNull, Pull, RunCommands, Report, main, vars
<1>. QED BY <1>1, <1>6, <1>7, <1>8, <1>9, <1>11
------------------------------------------------------------------------------
\* The outcomes after a step that leaves the disk alone.
LEMMA OutcomesOnAStillDisk ==
    ASSUME IInv, Outcomes, Steady, UNCHANGED <<makefile, mtime>>,
           \A r \in Rules : runs[r] > 0 => runs'[r] > 0,
           \A r \in Rules : Pending(r)' \/ runs'[r] > 0 \/ state'[r] = 1 =>
               Pending(r) \/ runs[r] > 0 \/ state[r] = 1 \/ DepsDone(r),
           \A r \in Rules : state'[r] = -1 =>
               state[r] = -1 \/ runs'[r] > 0 \/ \E d \in DepSet(r) : state[d] = -1,
           \A r \in makefile.makes : state'[r] = 1 => state[r] = 1 \/ Current(r),
           \A w \in Workers : task'[w] \in Rules /\ result'[w] = "ok" =>
               task'[w] = task[w] /\ result[w] = "ok"
    PROVE  Outcomes'
<1>1. Types /\ makefile.makes \subseteq Rules /\ \A r \in Rules : DepSet(r) \subseteq Rules
  BY MakefileIsKnown DEF IInv, Types
<1>2. \A r : DepSet(r)' = DepSet(r)
  BY MakefileOperators
<1>3. \A r : Current(r)' <=> Current(r)
  BY <1>2 DEF Current
<1>4. (\A r \in Rules : Pending(r) \/ runs[r] > 0 \/ state[r] = 1 => DepsDone(r))'
  <2>1. \A r \in Rules : Pending(r)' \/ runs'[r] > 0 \/ state'[r] = 1 => DepsDone(r)
    BY DEF Outcomes
  <2>2. \A r \in Rules : DepsDone(r) => DepsDone(r)'
    BY <1>1, DoneStays
  <2>. QED BY <2>1, <2>2
<1>5. (\A r \in Rules : state[r] = -1 => runs[r] > 0 \/ \E d \in DepSet(r) : state[d] = -1)'
  <2>1. \A r \in Rules : state'[r] = -1 => runs'[r] > 0 \/ \E d \in DepSet(r) : state[d] = -1
    BY DEF Outcomes
  <2>2. \A d \in Rules : state[d] = -1 => state'[d] = -1
    BY DEF Steady
  <2>. QED BY <1>1, <1>2, <2>1, <2>2
<1>6. (\A r \in makefile.makes : state[r] = 1 => Current(r))'
  BY <1>3 DEF Outcomes
<1>7. (\A w \in Workers : task[w] \in makefile.makes /\ result[w] = "ok" => Current(task[w]))'
  <2>1. SUFFICES ASSUME NEW w \in Workers, task'[w] \in makefile.makes, result'[w] = "ok"
                 PROVE  Current(task[w])'
    OBVIOUS
  <2>2. PICK t \in Rules : t = task'[w] /\ t = task[w] /\ result[w] = "ok"
    BY <1>1, <2>1
  <2>3. Current(t)
    BY <2>1, <2>2 DEF Outcomes
  <2>4. Current(t)'
    BY <1>3, <2>3
  <2>. QED BY <2>2, <2>4 DEF Current
<1>. QED BY <1>4, <1>5, <1>6, <1>7 DEF Outcomes

\* The commands of a rule make its target newer than all it depends on.
LEMMA OutcomesByRunning ==
    ASSUME IInv, Sound, Steady, NEW w \in Workers, RunCommands(w)
    PROVE  Outcomes'
<1>1. /\ UNCHANGED <<makefile, queue, state, task, runs>>
      /\ Types /\ Clock /\ Places /\ Outcomes /\ makefile.makes \subseteq Rules
      /\ mtime \in [Rules -> Nat] /\ now \in Nat /\ result \in [Workers -> {"none", "ok", "failed"}]
  BY MakefileIsKnown DEF IInv, Sound, RunCommands, main, Types, TypeOK
<1>2. PICK t \in Rules : t = task[w] /\ Running(w) /\ state[t] = 0
  BY <1>1 DEF RunCommands, Running, Places
<1>3. \A q : Pending(q)' <=> Pending(q)
  BY <1>1, PendingStays
<1>4. \A q : DepSet(q)' = DepSet(q)
  BY <1>1, MakefileOperators
<1>5. \A q : DepsDone(q)' <=> DepsDone(q)
  BY <1>1, <1>4 DEF DepsDone
<1>6. mtime' = mtime \/ mtime' = [mtime EXCEPT ![t] = now]
  BY <1>2 DEF RunCommands
<1>7. \A q \in Rules : q # t => mtime'[q] = mtime[q]
  BY <1>1, <1>6
<1>8. Pending(t)
  BY <1>1, <1>2, PendingIs
<1>9. ASSUME NEW q \in Rules, q # t, DepsDone(q), Current(q) PROVE Current(q)'
  BY <1>1, <1>7, <1>9, CurrentStays
<1>10. (\A r \in makefile.makes : state[r] = 1 => Current(r))'
  <2>1. SUFFICES ASSUME NEW r \in Rules, r \in makefile.makes, state[r] = 1 PROVE Current(r)'
    BY <1>1
  <2>2. DepsDone(r) /\ Current(r) /\ r # t
    BY <1>1, <1>2, <2>1 DEF Outcomes
  <2>. QED BY <1>9, <2>2
<1>11. (\A v \in Workers : task[v] \in makefile.makes /\ result[v] = "ok" => Current(task[v]))'
  <2>1. SUFFICES ASSUME NEW v \in Workers, task[v] \in makefile.makes, result'[v] = "ok"
                 PROVE  Current(task[v])'
    BY <1>1
  <2>2. PICK q \in Rules : q = task[v] /\ Pending(q) /\ DepsDone(q)
    <3>1. task[v] \in Rules /\ Pending(task[v])
      BY <1>1, <2>1, PendingIs
    <3>. QED BY <1>1, <3>1 DEF Outcomes
  <2>3. Current(q)'
    <3>1. CASE v = w
      <4>1. q = t /\ mtime' = [mtime EXCEPT ![t] = now]
        BY <1>1, <1>2, <2>1, <2>2, <3>1 DEF RunCommands
      <4>2. mtime'[t] = now /\ now # 0 /\ \A d \in Rules : mtime'[d] <= now
        BY <1>1, <4>1 DEF Clock
      <4>3. DepSet(t) \subseteq Rules
        BY <1>1, MakefileIsKnown DEF Types
      <4>. QED BY <1>4, <4>1, <4>2, <4>3 DEF Current
    <3>2. CASE v # w
      <4>1. result[v] = "ok"
        BY <1>1, <2>1, <3>2 DEF RunCommands
      <4>2. Current(q)
        BY <1>1, <2>1, <2>2, <4>1 DEF Outcomes
      <4>3. q # t
        BY <1>1, <1>2, <2>2, <3>2 DEF Places
      <4>. QED BY <1>9, <2>2, <4>2, <4>3
    <3>. QED BY <3>1, <3>2
  <2>. QED BY <1>1, <2>2, <2>3 DEF Current
<1>12. (\A r \in Rules : Pending(r) \/ runs[r] > 0 \/ state[r] = 1 => DepsDone(r))'
  BY <1>1, <1>3, <1>5 DEF Outcomes
<1>13. (\A r \in Rules : state[r] = -1 => runs[r] > 0 \/ \E d \in DepSet(r) : state[d] = -1)'
  BY <1>1, <1>4 DEF Outcomes
<1>. QED BY <1>10, <1>11, <1>12, <1>13 DEF Outcomes

\* Every action decides in agreement with what was decided below.
LEMMA OutcomesStep == IInv /\ Types' /\ Sound /\ Regular /\ [Next]_vars => Outcomes'
<1>1. SUFFICES ASSUME IInv, Types', Sound, Regular, [Next]_vars PROVE Outcomes'
  OBVIOUS
<1>2. /\ Types /\ Clock /\ Walk /\ Places /\ Outcomes /\ Steady /\ makefile' = makefile
      /\ state \in [Rules -> {0, 1, -1}] /\ runs \in [Rules -> Nat]
      /\ task \in [Workers -> Rules \cup {"idle", "gone"}]
      /\ result \in [Workers -> {"none", "ok", "failed"}]
  BY <1>1, DecidedIsSteady, MakefileStays DEF IInv, Sound, Types, TypeOK
<1>3. makefile.makes \subseteq Rules
  BY <1>2, MakefileIsKnown DEF Types
<1>4. ASSUME UNCHANGED <<mtime, task, result, runs>>,
             \A r \in Rules : Pending(r)' => Pending(r) \/ DepsDone(r),
             \A r \in Rules : state'[r] = 1 => state[r] = 1 \/ (DepsDone(r) /\ Current(r)),
             \A r \in Rules : state'[r] = -1 => state[r] = -1 \/ \E d \in DepSet(r) : state[d] = -1
      PROVE  Outcomes'
  BY <1>1, <1>2, <1>3, <1>4, OutcomesOnAStillDisk
<1>5. ASSUME UNCHANGED <<mtime, task, result, runs, queue, state>> PROVE Outcomes'
  BY <1>4, <1>5, PendingStays
<1>6. CASE TakeGoal \/ Descend
  BY <1>2, <1>5, <1>6, TakenUp, DescendSteps
<1>7. CASE Phase
  <2>1. stack # <<>> /\ UNCHANGED <<mtime, task, result, runs>> /\ Top.rule \in Rules
    BY <1>1, <1>2, <1>7, PhaseIsSound, TopIsStacked DEF Quiet
  <2>2. ASSUME NEW f \in Frames, Advances(f) PROVE Outcomes'
    BY <1>5, <2>1, <2>2 DEF Advances
  <2>3. CASE Hands(Top.rule) /\ DepsDone(Top.rule)
    <3>1. state' = state /\ \A r : Pending(r)' <=> Pending(r) \/ r = Top.rule
      BY <1>1, <1>2, <2>1, <2>3, PendingByPush DEF Hands
    <3>. QED BY <1>4, <2>1, <2>3, <3>1
  <2>4. ASSUME NEW s \in {1, -1}, Settles(s)
        PROVE  /\ \A r : Pending(r)' <=> Pending(r)
               /\ \A r \in Rules : state'[r] = IF r = Top.rule THEN s ELSE state[r]
    BY <1>2, <2>1, <2>4, PendingStays DEF Settles, Settle
  <2>5. CASE Settles(1) /\ DepsDone(Top.rule) /\ Current(Top.rule)
    <3>1. /\ \A r : Pending(r)' <=> Pending(r)
          /\ \A r \in Rules : state'[r] = IF r = Top.rule THEN 1 ELSE state[r]
      BY <2>4, <2>5
    <3>. QED BY <1>4, <2>1, <2>5, <3>1
  <2>6. CASE Settles(-1) /\ \E d \in DepSet(Top.rule) : state[d] = -1
    <3>1. /\ \A r : Pending(r)' <=> Pending(r)
          /\ \A r \in Rules : state'[r] = IF r = Top.rule THEN -1 ELSE state[r]
      BY <2>4, <2>6
    <3>. QED BY <1>4, <2>1, <2>6, <3>1
  <2>. QED BY <1>1, <1>7, <2>2, <2>3, <2>5, <2>6, PhaseIsSound
<1>8. CASE PushNull
  <2>1. UNCHANGED <<mtime, task, result, runs, state>> /\ Push(Null)
    BY <1>8 DEF PushNull, disk, workers
  <2>2. \A r \in Rules : Pending(r)' <=> Pending(r)
    BY <1>1, <1>2, <2>1, PendingByPush, NoNullIsARule
  <2>. QED BY <1>4, <2>1, <2>2
<1>9. ASSUME NEW w \in Workers, Pull(w) PROVE Outcomes'
  <2>1. UNCHANGED <<state, mtime, result>> /\ task[w] = "idle"
    BY <1>9 DEF Pull, disk
  <2>2. \A r \in Rules : Pending(r)' <=> Pending(r)
    BY <1>1, <1>2, <1>9, PendingByPull
  <2>3. \A r \in Rules : (runs[r] > 0 => runs'[r] > 0) /\ (runs'[r] > 0 => runs[r] > 0 \/ Pending(r))
    <3>1. CASE runs' = runs
      BY <3>1
    <3>2. CASE runs' # runs
      <4>1. Head(queue) \in Rules /\ runs' = [runs EXCEPT ![Head(queue)] = @ + 1]
        BY <1>2, <1>9, <3>2, PulledInFront DEF Pull, Types, TypeOK
      <4>2. Pending(Head(queue))
        <5>1. 1 \in DOMAIN queue /\ Head(queue) = queue[1]
          BY <1>2, <1>9, PulledInFront DEF Pull, Types, TypeOK
        <5>. QED BY <1>2, <5>1, PendingIs
      <4>. QED BY <1>2, <4>1, <4>2
    <3>. QED BY <3>1, <3>2
  <2>4. result[w] = "none"
    BY <1>2, <2>1, NoNullIsARule DEF Clock, Running
  <2>5. \A v \in Workers : v # w => task'[v] = task[v]
    BY <1>2, <1>9 DEF Pull
  <2>6. \A v \in Workers : task'[v] \in Rules /\ result'[v] = "ok" =>
            task'[v] = task[v] /\ result[v] = "ok"
    BY <2>1, <2>4, <2>5
  <2>. QED BY <1>1, <1>2, <1>3, <2>1, <2>2, <2>3, <2>6, OutcomesOnAStillDisk
<1>10. ASSUME NEW w \in Workers, RunCommands(w) PROVE Outcomes'
  BY <1>1, <1>2, <1>10, OutcomesByRunning
<1>11. ASSUME NEW w \in Workers, Report(w) PROVE Outcomes'
  <2>1. /\ UNCHANGED <<mtime, runs>> /\ task' = [task EXCEPT ![w] = "idle"]
        /\ result' = [result EXCEPT ![w] = "none"]
    BY <1>11 DEF Report, disk
  <2>2. PICK t \in Rules : t = task[w]
    BY <1>11 DEF Report, Running
  <2>3. PICK s \in {1, -1} : s = (IF result[w] = "ok" THEN 1 ELSE -1) /\ state' = [state EXCEPT ![t] = s]
    BY <1>11, <2>2 DEF Report, Settle
  <2>4. \A r \in Rules : state'[r] = IF r = t THEN s ELSE state[r]
    BY <1>2, <2>3
  <2>5. \A r \in Rules : Pending(r)' <=> Pending(r) /\ r # t
    BY <1>2, <1>11, <2>2, PendingByReport
  <2>6. Pending(t) /\ runs[t] > 0
    BY <1>2, <2>2, PendingIs DEF Clock, Running
  <2>7. t \in makefile.makes /\ s = 1 => Current(t)
    BY <1>2, <2>2, <2>3 DEF Outcomes
  <2>8. \A v \in Workers : task'[v] \in Rules /\ result'[v] = "ok" =>
            task'[v] = task[v] /\ result[v] = "ok"
    BY <1>2, <2>1, NoNullIsARule
  <2>9. \A r \in Rules : Pending(r)' \/ runs'[r] > 0 \/ state'[r] = 1 =>
            Pending(r) \/ runs[r] > 0 \/ state[r] = 1 \/ DepsDone(r)
    BY <2>1, <2>4, <2>5, <2>6
  <2>10. \A r \in Rules : state'[r] = -1 =>
            state[r] = -1 \/ runs'[r] > 0 \/ \E d \in DepSet(r) : state[d] = -1
    BY <2>1, <2>4, <2>6
  <2>11. \A r \in makefile.makes : state'[r] = 1 => state[r] = 1 \/ Current(r)
    BY <1>3, <2>4, <2>7
  <2>. QED BY <1>1, <1>2, <2>1, <2>8, <2>9, <2>10, <2>11, OutcomesOnAStillDisk
<1>12. CASE UNCHANGED vars
  BY <1>5, <1>12 DEF vars
<1>13. MainStep => TakeGoal \/ Descend \/ Phase \/ PushNull
  BY DEF MainStep, Phase
<1>. QED
  BY <1>1, <1>6, <1>7, <1>8, <1>9, <1>10, <1>11, <1>12, <1>13 DEF Next, WorkerStep
------------------------------------------------------------------------------
\* What needs Regular holds at the start.
LEMMA InitSound == Init => Sound
<1>1. SUFFICES ASSUME Init PROVE Sound
  OBVIOUS
<1>2. Types
  BY <1>1, InitTypes
<1>3. stack = <<>> /\ visited = {} /\ goal = 1 /\ queue = <<>>
  BY <1>1 DEF Init
<1>4. /\ \A r \in Rules : state[r] = 0 /\ runs[r] = 0
      /\ \A w \in Workers : task[w] = "idle" /\ result[w] = "none"
      /\ makefile.makes \subseteq Rules
  BY <1>1, <1>2, MakefileIsKnown DEF Init, Types
<1>5. Stacked = {}
  BY <1>3 DEF Stacked
<1>6. Walk
  <2>1. goal - 1 \notin TakenGoals
    <3>1. \A i \in TakenGoals : i > 0
      BY <1>2, OfIsClosed
    <3>. QED BY <1>3, <3>1
  <2>. QED BY <1>3, <1>5, <2>1 DEF Walk
<1>7. Seen = {}
  <2>1. \A i \in TakenGoals : i \in Nat /\ i > 0
    BY <1>2, OfIsClosed
  <2>. QED BY <1>3, <2>1 DEF Seen, Old
<1>8. \A r \in Rules : ~Pending(r)
  <2>1. DOMAIN queue = {}
    BY <1>3
  <2>. QED BY <1>2, <1>4, <2>1, PendingIs, NoNullIsARule
<1>9. Places
  BY <1>3, <1>4, <1>5, <1>7, <1>8, NoNullIsARule DEF Places, Untouched, Running
<1>10. Outcomes
  BY <1>4, <1>8 DEF Outcomes
<1>11. AllLearnt
  BY <1>3 DEF AllLearnt
<1>. QED BY <1>6, <1>9, <1>10, <1>11 DEF Sound

\* IInv holds of every run, and Sound of the runs with a regular makefile.
LEMMA Soundness == Spec => [](IInv /\ (Regular => Sound))
<1>1. Init => IInv /\ (Regular => Sound)
  BY InitIInv, InitSound
<1>2. IInv /\ (Regular => Sound) /\ [Next]_vars => IInv' /\ (Regular => Sound)'
  <2>1. SUFFICES ASSUME IInv, Regular => Sound, [Next]_vars PROVE IInv' /\ (Regular => Sound)'
    OBVIOUS
  <2>2. IInv'
    BY <2>1, TypesStep, NullsLastStep, ClockStep, ReasonsStep DEF IInv
  <2>3. Regular' <=> Regular
    BY <2>1, MakefileStays, GoalOperators DEF IInv
  <2>4. ASSUME Regular PROVE Sound'
    <3>1. Sound /\ Types /\ Types'
      BY <2>1, <2>2, <2>4 DEF IInv
    <3>2. Walk'
      BY <2>1, <3>1, WalkStep DEF Sound
    <3>3. Places'
      BY <2>1, <2>4, <3>1, PlacesStep
    <3>4. Outcomes'
      BY <2>1, <2>4, <3>1, OutcomesStep
    <3>5. AllLearnt'
      BY <2>1, <2>4, <3>1, LearntStep
    <3>. QED BY <3>2, <3>3, <3>4, <3>5 DEF Sound
  <2>. QED BY <2>2, <2>3, <2>4
<1>. QED BY <1>1, <1>2, PTL DEF Spec
------------------------------------------------------------------------------
\* A rule that is pending has not been decided.
LEMMA PendingIsUndecided ==
    ASSUME Types, Places, NEW r \in Rules, Pending(r)
    PROVE  state[r] = 0
  BY PendingIs, NoNullIsARule DEF Places, Running

\* The walk has been through every wanted rule when parmake returns, and all that
\* it has handed out has been decided.
LEMMA FinishedIsDecided ==
    ASSUME IInv, Sound, Finished
    PROVE  \A r \in Wanted : r \in Rules /\ state[r] # 0
<1>1. /\ Types /\ Walk /\ Places /\ NullsLast /\ stack = <<>> /\ goal > Len(Goals)
      /\ \A w \in Workers : task[w] = "gone"
  BY DEF IInv, Sound, Finished
<1>2. Deps \in [Rules -> Seq(Rules)] /\ Goals \in Seq(Rules) /\ Len(Goals) \in Nat /\ goal \in Nat
  BY <1>1, MakefileIsKnown DEF Types, TypeOK
<1>3. ASSUME NEW i \in TakenGoals PROVE Of(i) \subseteq Seen
  <2>1. i \in Nat /\ i <= Len(Goals)
    BY <1>1, OfIsClosed
  <2>2. CASE i + 1 < goal
    BY <1>1, <2>2, SeenIsBelowGoals
  <2>3. CASE i = goal - 1
    BY <1>1, <1>3, <2>3, GoalIsWalked DEF Seen
  <2>. QED BY <1>1, <1>2, <2>1, <2>2, <2>3
<1>4. \A r \in Seen : DepSet(r) \subseteq Seen
  <2>1. SUFFICES ASSUME NEW r \in Seen PROVE DepSet(r) \subseteq Seen
    OBVIOUS
  <2>2. PICK i \in TakenGoals : r \in Of(i)
    BY <1>1, SeenIsBelowGoals
  <2>3. DepSet(r) \subseteq Of(i)
    BY <1>1, <2>2, OfIsClosed
  <2>. QED BY <1>3, <2>3
<1>5. PICK S \in SUBSET Rules : S = {Goals[i] : i \in TakenGoals}
  BY <1>1, OfIsClosed
<1>6. Covers(Seen, Deps, S)
  <2>1. Seen \in SUBSET Rules
    BY <1>1, SeenIsBelowGoals
  <2>2. S \subseteq Seen
    BY <1>1, <1>3, <1>5, OfIsClosed
  <2>. QED BY <1>4, <2>1, <2>2 DEF Covers, DepSet
<1>7. Wanted \subseteq Seen
  BY <1>2, <1>5, <1>6, DescendantsAreClosed DEF Wanted, Below
<1>8. \A r \in Rules : ~Pending(r)
  <2>1. PICK w \in Workers : task[w] = "gone"
    BY <1>1, ParmakeAssumption
  <2>2. \A i \in DOMAIN queue : queue[i] = Null
    BY <1>1, <2>1 DEF NullsLast
  <2>. QED BY <1>1, <2>2, PendingIs, NoNullIsARule
<1>9. Stacked = {} /\ Seen \subseteq Rules
  BY <1>1, SeenIsBelowGoals DEF Stacked
<1>. QED BY <1>1, <1>7, <1>8, <1>9 DEF Places

\* While a rule's commands run, each of its dependencies has succeeded and is neither
\* running nor due to run again (check_failed, parmake.c:100-155, and the workers),
\* when no rule is below two goals and files on the disk need only files that are
\* there or are made.
THEOREM SpecDependenciesFirst == Spec => []DependenciesFirst
<1>1. ASSUME IInv, Regular => Sound PROVE DependenciesFirst
  <2>1. SUFFICES ASSUME Regular, NEW w \in Workers, Running(w), NEW d \in DepSet(task[w])
                 PROVE  state[d] = 1 /\ ~Pending(d)
    BY DEF DependenciesFirst
  <2>2. Types /\ Places /\ Outcomes
    BY <1>1, <2>1 DEF IInv, Sound
  <2>3. task[w] \in Rules /\ Pending(task[w])
    BY <2>1, <2>2, PendingIs DEF Running
  <2>4. state[d] = 1
    BY <2>1, <2>2, <2>3 DEF Outcomes, DepsDone
  <2>5. d \in Rules
    BY <2>1, <2>2, <2>3, MakefileIsKnown DEF Types
  <2>. QED BY <2>2, <2>4, <2>5, PendingIsUndecided
<1>. QED BY <1>1, Soundness, PTL

\* No rule is taken from the queue twice, though many rules may need it.
THEOREM SpecRunsAtMostOnce == Spec => []RunsAtMostOnce
<1>1. ASSUME Regular => Sound PROVE RunsAtMostOnce
  BY <1>1 DEF RunsAtMostOnce, Sound, Places
<1>. QED BY <1>1, Soundness, PTL

\* When parmake returns, every wanted rule has been decided, a rule has failed only
\* if it ran or something below it failed, and a rule above a failure has not run.
THEOREM SpecOutcomesAgree == Spec => []OutcomesAgree
<1>1. ASSUME IInv, Regular => Sound PROVE OutcomesAgree
  <2>1. TypeOK
    BY <1>1 DEF IInv, Types
  <2>2. SUFFICES ASSUME Finished, Regular, NEW r \in Wanted
                 PROVE  /\ state[r] # 0
                        /\ state[r] = -1 => runs[r] > 0 \/ \E d \in DepSet(r) : state[d] = -1
                        /\ (\E d \in DepSet(r) : state[d] = -1) => state[r] = -1 /\ runs[r] = 0
    BY <2>1 DEF OutcomesAgree
  <2>3. /\ Outcomes /\ state \in [Rules -> {0, 1, -1}] /\ runs \in [Rules -> Nat]
    BY <1>1, <2>2 DEF IInv, Sound, Types, TypeOK
  <2>4. r \in Rules /\ state[r] # 0
    BY <1>1, <2>2, FinishedIsDecided
  <2>5. ASSUME NEW d \in DepSet(r), state[d] = -1 PROVE state[r] = -1 /\ runs[r] = 0
    <3>1. ~DepsDone(r)
      BY <2>5 DEF DepsDone
    <3>2. state[r] # 1 /\ ~(runs[r] > 0)
      BY <2>3, <2>4, <3>1 DEF Outcomes
    <3>. QED BY <2>3, <2>4, <3>2
  <2>. QED BY <2>3, <2>4, <2>5 DEF Outcomes
<1>. QED BY <1>1, Soundness, PTL

\* A target that was on the disk is made again only for a dependency that is new or
\* has been made again, whatever the makefile (parmake.c:143-155); and when parmake
\* returns, a satisfied file rule is on the disk and no dependency of it is newer.
THEOREM SpecMadeWhenOutOfDate == Spec => []MadeWhenOutOfDate
<1>1. ASSUME IInv, Regular => Sound PROVE MadeWhenOutOfDate
  <2>1. \A r \in Rules : runs[r] > 0 =>
            \/ start[r] = 0
            \/ \E d \in DepSet(r) : start[d] = 0 \/ start[d] > start[r] \/ runs[d] > 0
    BY <1>1 DEF IInv, Reasons, Reason
  <2>2. ASSUME Finished, Regular, NEW r \in Wanted \cap makefile.makes, state[r] = 1
        PROVE  mtime[r] # 0 /\ \A d \in DepSet(r) : mtime[d] <= mtime[r]
    BY <1>1, <2>2 DEF Sound, Outcomes, Current
  <2>. QED BY <2>1, <2>2 DEF MadeWhenOutOfDate
<1>. QED BY <1>1, Soundness, PTL
==============================================================================
