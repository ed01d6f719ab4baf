------------------------------- MODULE Parmake -------------------------------
(***************************************************************************)
(* parallel_make/parmake.c: the main thread walks the dependency graph of  *)
(* each goal depth first (check_failed) and pushes the rules to run on an  *)
(* unbounded queue; workers pull rules, run their commands and publish     *)
(* rule->state (0 not run, 1 satisfied, -1 failed) under m1.               *)
(*                                                                         *)
(* The recursion of check_failed is the stack; its loops over the          *)
(* dependencies are steps, for the workers change states and files between *)
(* them.  The disk is the modification time of each target, 0 when absent. *)
(* Commands create or touch the target of their own rule and nothing else, *)
(* and the clock ticks between two of them.                                *)
(***************************************************************************)
EXTENDS Integers, Sequences, SequencesExt, FiniteSets

CONSTANTS Rules, Workers,
          Makefiles,   \* what parmake may be called with, see below
          Null         \* no rule: the NULL that ends a worker

\* deps[r]: the dependencies of r, in graph_neighbors order; goals: in order;
\* makes: the rules whose commands create their target file; mayFail: the rules
\* with a command that may fail; disk: what is on the disk at the start, with the
\* times numbered in order.
ASSUME ParmakeAssumption ==
    /\ IsFiniteSet(Rules) /\ IsFiniteSet(Workers) /\ Workers # {}
    /\ \A f \in Makefiles :
        /\ f.deps \in [Rules -> Seq(Rules)] /\ f.goals \in Seq(Rules)
        /\ f.makes \subseteq Rules /\ f.mayFail \subseteq Rules
        /\ f.disk \in [Rules -> 0..Cardinality(Rules)]
    /\ Rules \cap {Null, "idle", "gone"} = {}

VARIABLES makefile,   \* the parsed makefile, the targets asked for and the disk
          stack,      \* the frames of check_failed: rule, phase, index, stamp
          visited,    \* the rules check_failed has entered for this goal
          goal,       \* the next goal to take up
          nulls,      \* the NULLs pushed so far
          queue,      \* task_queue
          state,      \* rule->state
          mtime, now, \* the disk and the clock
          task,       \* task[w]: the rule w is running, "idle" or "gone"
          result,     \* result[w]: how its commands went
          runs        \* history: how often each rule was taken from the queue
main == <<stack, visited, goal, nulls>>
vars == <<makefile, main, queue, state, mtime, now, task, result, runs>>

Deps == makefile.deps
Goals == makefile.goals
start == makefile.disk

DepSet(r) == Range(Deps[r])
\* Everything a set of rules leads to by deps, itself included.
Descendants(deps, S) ==
    LET below[n \in 0..Cardinality(Rules)] ==
            IF n = 0 THEN S ELSE below[n - 1] \cup UNION {Range(deps[r]) : r \in below[n - 1]}
    IN  below[Cardinality(Rules)]
Below(S) == Descendants(Deps, S)

\* isCyclic keeps the path it is on in visited: it answers true exactly when the
\* search comes back to a rule that is still on the path.
isCyclic(r) == \E n \in Below({r}) : n \in Below(DepSet(n))

Init ==
    /\ makefile \in Makefiles
    /\ stack = <<>> /\ visited = {} /\ goal = 1 /\ nulls = 0
    /\ queue = <<>>
    /\ state = [r \in Rules |-> 0]
    /\ mtime = start
    /\ now = 1 + Cardinality(Rules)
    /\ task = [w \in Workers |-> "idle"]
    /\ result = [w \in Workers |-> "none"]
    /\ runs = [r \in Rules |-> 0]
------------------------------------------------------------------------------
Frame(r) == [rule |-> r, phase |-> "descend", i |-> 1, stamp |-> 0]
Top == Last(stack)
At(phase) == stack # <<>> /\ Top.phase = phase
MoreDeps == Top.i <= Len(Deps[Top.rule])
Dep == Deps[Top.rule][Top.i]

Goto(frame) == stack' = [stack EXCEPT ![Len(stack)] = frame]
NextDep == Goto([Top EXCEPT !.i = @ + 1])
NextPhase(phase) == Goto([Top EXCEPT !.phase = phase, !.i = 1])
Pop == stack' = Front(stack)
Push(r) == queue' = Append(queue, r)
Settle(r, s) == state' = [state EXCEPT ![r] = s]

workers == <<task, result, runs>>
disk == <<mtime, now, makefile>>

\* The goals in order; a goal in or above a cycle is dropped altogether.
TakeGoal ==
    /\ stack = <<>>
    /\ goal <= Len(Goals)
    /\ goal' = goal + 1
    /\ IF isCyclic(Goals[goal])
       THEN visited' = {} /\ stack' = <<>>
       ELSE visited' = {Goals[goal]} /\ stack' = <<Frame(Goals[goal])>>
    /\ UNCHANGED <<nulls, queue, state, disk, workers>>

\* check_failed(dep) for each dependency; one already visited returns at once.
Descend_Unmarked ==
    /\ At("descend")
    /\ \/ /\ MoreDeps
          /\ stack' = Append([stack EXCEPT ![Len(stack)].i = @ + 1], Frame(Dep))
       \/ /\ ~MoreDeps
          /\ NextPhase("await")
    /\ UNCHANGED <<visited, goal, nulls, queue, state, disk, workers>>

Descend ==
    /\ At("descend")
    /\ \/ /\ MoreDeps /\ Dep \in visited
          /\ NextDep
          /\ UNCHANGED visited
       \/ /\ MoreDeps /\ Dep \notin visited
          /\ visited' = visited \cup {Dep}
          /\ stack' = Append([stack EXCEPT ![Len(stack)].i = @ + 1], Frame(Dep))
       \/ /\ ~MoreDeps
          /\ NextPhase("await")
          /\ UNCHANGED visited
    /\ UNCHANGED <<goal, nulls, queue, state, disk, workers>>

\* The main thread is the only one that waits on cv, every writer of a state
\* broadcasts under m1, and the wait is a loop: it is a guard.
Await_Skip ==
    /\ At("await")
    /\ \/ MoreDeps /\ (state[Dep] # 0 \/ runs[Dep] > 0) /\ NextDep
       \/ ~MoreDeps /\ NextPhase("inspect")
    /\ UNCHANGED <<visited, goal, nulls, queue, state, disk, workers>>

Await ==
    /\ At("await")
    /\ \/ MoreDeps /\ state[Dep] # 0 /\ NextDep
       \/ ~MoreDeps /\ NextPhase("inspect")
    /\ UNCHANGED <<visited, goal, nulls, queue, state, disk, workers>>

\* One failed dependency fails the rule, which is not run.
Inspect_Ignore ==
    /\ At("inspect")
    /\ IF MoreDeps THEN NextDep ELSE NextPhase("disk")
    /\ UNCHANGED <<visited, goal, nulls, queue, state, disk, workers>>

Inspect ==
    /\ At("inspect")
    /\ \/ /\ MoreDeps /\ state[Dep] = -1
          /\ Settle(Top.rule, -1)
          /\ Pop
       \/ MoreDeps /\ state[Dep] # -1 /\ NextDep /\ UNCHANGED state
       \/ ~MoreDeps /\ NextPhase("disk") /\ UNCHANGED state
    /\ UNCHANGED <<visited, goal, nulls, queue, disk, workers>>

\* A target that is not on the disk is made.
CheckDisk ==
    /\ At("disk")
    /\ \/ mtime[Top.rule] = 0 /\ Push(Top.rule) /\ Pop
       \/ mtime[Top.rule] # 0 /\ NextPhase("missing") /\ UNCHANGED queue
    /\ UNCHANGED <<visited, goal, nulls, state, disk, workers>>

\* A dependency that is not on the disk is pushed, and not the rule itself.
FindMissing ==
    /\ At("missing")
    /\ \/ MoreDeps /\ mtime[Dep] = 0 /\ Push(Dep) /\ Pop
       \/ MoreDeps /\ mtime[Dep] # 0 /\ NextDep /\ UNCHANGED queue
       \/ /\ ~MoreDeps
          /\ Goto([Top EXCEPT !.phase = "newer", !.i = 1, !.stamp = mtime[Top.rule]])
          /\ UNCHANGED queue
    /\ UNCHANGED <<visited, goal, nulls, state, disk, workers>>

\* A dependency newer than the target: run the rule.  None: it is satisfied.
FindNewer_FirstOnly ==
    /\ At("newer")
    /\ \/ MoreDeps /\ Top.i = 1 /\ Top.stamp < mtime[Dep]
          /\ Push(Top.rule) /\ Pop /\ UNCHANGED state
       \/ MoreDeps /\ ~(Top.i = 1 /\ Top.stamp < mtime[Dep])
          /\ NextDep /\ UNCHANGED <<queue, state>>
       \/ ~MoreDeps /\ Settle(Top.rule, 1) /\ Pop /\ UNCHANGED queue
    /\ UNCHANGED <<visited, goal, nulls, disk, workers>>

FindNewer ==
    /\ At("newer")
    /\ \/ MoreDeps /\ Top.stamp < mtime[Dep]
          /\ Push(Top.rule) /\ Pop /\ UNCHANGED state
       \/ MoreDeps /\ Top.stamp >= mtime[Dep]
          /\ NextDep /\ UNCHANGED <<queue, state>>
       \/ ~MoreDeps /\ Settle(Top.rule, 1) /\ Pop /\ UNCHANGED queue
    /\ UNCHANGED <<visited, goal, nulls, disk, workers>>

\* After the last goal, one NULL for each worker.
PushNull_TooFew ==
    /\ stack = <<>> /\ goal > Len(Goals)
    /\ nulls < Cardinality(Workers) - 1
    /\ nulls' = nulls + 1
    /\ Push(Null)
    /\ UNCHANGED <<stack, visited, goal, state, disk, workers>>

PushNull ==
    /\ stack = <<>> /\ goal > Len(Goals)
    /\ nulls < Cardinality(Workers)
    /\ nulls' = nulls + 1
    /\ Push(Null)
    /\ UNCHANGED <<stack, visited, goal, state, disk, workers>>

MainStep ==
    \/ TakeGoal \/ Descend \/ Await \/ Inspect
    \/ CheckDisk \/ FindMissing \/ FindNewer \/ PushNull
------------------------------------------------------------------------------
Pull(w) ==
    /\ task[w] = "idle" /\ queue # <<>>
    /\ queue' = Tail(queue)
    /\ \/ /\ Head(queue) = Null
          /\ task' = [task EXCEPT ![w] = "gone"]
          /\ UNCHANGED runs
       \/ /\ Head(queue) # Null
          /\ task' = [task EXCEPT ![w] = Head(queue)]
          /\ runs' = [runs EXCEPT ![Head(queue)] = @ + 1]
    /\ UNCHANGED <<main, state, disk, result>>

Running(w) == task[w] \in Rules

\* system() for each command; the rest are skipped once one fails.
RunCommands(w) ==
    /\ Running(w) /\ result[w] = "none"
    /\ \/ /\ result' = [result EXCEPT ![w] = "ok"]
          /\ IF task[w] \in makefile.makes
             THEN mtime' = [mtime EXCEPT ![task[w]] = now] /\ now' = now + 1
             ELSE UNCHANGED <<mtime, now>>
       \/ /\ task[w] \in makefile.mayFail
          /\ result' = [result EXCEPT ![w] = "failed"]
          /\ UNCHANGED <<mtime, now>>
    /\ UNCHANGED <<main, queue, state, task, runs, makefile>>

Report(w) ==
    /\ Running(w) /\ result[w] # "none"
    /\ Settle(task[w], IF result[w] = "ok" THEN 1 ELSE -1)
    /\ task' = [task EXCEPT ![w] = "idle"]
    /\ result' = [result EXCEPT ![w] = "none"]
    /\ UNCHANGED <<main, queue, disk, runs>>

WorkerStep(w) == Pull(w) \/ RunCommands(w) \/ Report(w)

\* The main thread has joined every worker.
Finished == stack = <<>> /\ goal > Len(Goals) /\ \A w \in Workers : task[w] = "gone"

Next == MainStep \/ \E w \in Workers : WorkerStep(w)

Spec == Init /\ [][Next]_vars
FairSpec == Spec /\ WF_vars(MainStep) /\ \A w \in Workers : WF_vars(WorkerStep(w))
------------------------------------------------------------------------------
TypeOK ==
    /\ \A i \in DOMAIN stack : stack[i] \in [rule : Rules, i : Nat \ {0}, stamp : Nat,
           phase : {"descend", "await", "inspect", "disk", "missing", "newer"}]
    /\ visited \in SUBSET Rules
    /\ goal \in 1..(Len(Goals) + 1) /\ nulls \in 0..Cardinality(Workers)
    /\ queue \in Seq(Rules \cup {Null})
    /\ state \in [Rules -> {0, 1, -1}]
    /\ mtime \in [Rules -> Nat] /\ now \in Nat
    /\ task \in [Workers -> Rules \cup {"idle", "gone"}]
    /\ result \in [Workers -> {"none", "ok", "failed"}]

Pending(r) == Contains(queue, r) \/ \E w \in Workers : task[w] = r

\* The goals that are not dropped for a cycle, and the rules below them.
TakenGoals == {i \in DOMAIN Goals : ~isCyclic(Goals[i])}
Wanted == Below({Goals[i] : i \in TakenGoals})

\* No rule is below two goals.
GoalsAreApart == \A i, j \in TakenGoals :
    i # j => Below({Goals[i]}) \cap Below({Goals[j]}) = {}

\* What a target that is on the disk depends on is there too, or made by a rule.
\* Otherwise check_failed may push the dependency a second time and leave the
\* rule undecided (parmake.c:131).
FilesNeedFiles == \A r \in Rules : start[r] # 0 =>
    \A d \in DepSet(r) : start[d] # 0 \/ d \in makefile.makes

Regular == GoalsAreApart /\ FilesNeedFiles

\* While a rule's commands run, each of its dependencies has succeeded and is
\* neither running nor due to run again: nothing a rule needs changes under it.
DependenciesFirst == Regular => \A w \in Workers :
    Running(w) => \A d \in DepSet(task[w]) : state[d] = 1 /\ ~Pending(d)

\* No rule is run twice, though many rules may need it.
RunsAtMostOnce == Regular => \A r \in Rules : runs[r] <= 1

\* When parmake returns, every wanted rule has been decided, a rule has failed
\* only if it ran or something below it failed, and a rule above a failure has
\* not run.
OutcomesAgree == TypeOK /\ (Finished /\ Regular => \A r \in Wanted :
    /\ state[r] # 0
    /\ state[r] = -1 => runs[r] > 0 \/ \E d \in DepSet(r) : state[d] = -1
    /\ (\E d \in DepSet(r) : state[d] = -1) => state[r] = -1 /\ runs[r] = 0)

\* A target that was on the disk is made again only for a dependency that is new
\* or has been made again; and when parmake returns, a satisfied file rule is on
\* the disk and no dependency of it is newer (parmake.c:143-155).
MadeWhenOutOfDate ==
    /\ \A r \in Rules : runs[r] > 0 =>
           \/ start[r] = 0
           \/ \E d \in DepSet(r) : start[d] = 0 \/ start[d] > start[r] \/ runs[d] > 0
    /\ Finished /\ Regular => \A r \in Wanted \cap makefile.makes : state[r] = 1 =>
           mtime[r] # 0 /\ \A d \in DepSet(r) : mtime[d] <= mtime[r]

\* parmake returns: the walk is never stuck on a rule nobody will run, and every
\* worker gets its NULL.
ParmakeReturns == <>Finished
==============================================================================
