------------------------------ MODULE Gthreads -------------------------------
(***************************************************************************)
(* savvy_scheduler: green threads (gthreads/gthreads.c) that switch stacks *)
(* in gtyield, when a timer's SIGALRM interrupts them or when they ask to, *)
(* over a library (libscheduler.c) that keeps the waiting jobs in a        *)
(* priority queue under one of six schemes.  Every second switch goes to   *)
(* the main thread, and the job it was taken from is put in `suspended`,   *)
(* beside the queue.                                                       *)
(*                                                                         *)
(* gtyield runs with SIGALRM blocked, in one step; its continuation in the *)
(* job it switches to is part of the step.  gtgo does not block it, so     *)
(* that an alarm, and with it whole quanta of other jobs, may come between *)
(* any two of its steps, and between the first look of priqueue_offer at   *)
(* the list and its last: an alarm that changes the list there leaves main *)
(* with an entry that is freed, or links the new one where it is lost, and *)
(* the model stops (`fate`).  It leaves out what an alarm within malloc or *)
(* free would do, and the queue's size, which is never read.               *)
(*                                                                         *)
(* A job's progress is counted in quanta, TIME_QUANTA being a fraction of  *)
(* a second.  The main thread creates the jobs, as in main.c, fewer than   *)
(* MAX_JOBS.  The stacks and the field `state`, which is never read, are   *)
(* left out.                                                               *)
(***************************************************************************)
EXTENDS PriQueue, FiniteSets, Functions

CONSTANTS NJobs,       \* the jobs are numbered in the order of their creation
          Second,      \* the quanta in a second
          Programs,    \* the programs to run: a scheme and, for each job, what
                       \* gtgo is told of it and its length, in quanta
          MaxMainQuanta,  \* a bound: how often the main thread sleeps or is interrupted
          Main, None

Jobs == 1..NJobs
NotRun == -1
Schemes == {"FCFS", "PPRI", "PRI", "PSRTF", "RR", "SJF"}

VARIABLES
    scheme,      \* pqueue_scheme
    plan,        \* plan[j]: the running time, priority and length of job j
    queue,       \* pqueue
    info,        \* info[j]: job->metadata, or None
    clock,       \* currtime(), in tenths of a quantum
    curr,        \* currjob: a job, or Main
    suspended,   \* a job, Main, or None
    counter,     \* counts modulo MAIN_FREQUENCY
    jobCount,    \* job_count
    created,     \* jobcount
    setUp,       \* the jobs whose context gtgo has filled in
    left,        \* left[j]: the quanta j has still to run
    mainPc,      \* the main thread: "spawning"; within gtgo "counted", "informed",
                 \* "offering", "offered"; "gtret", "exited"
    mainQuanta,
    fate,        \* "fine", or "late", a job having joined RR's queue behind a later one;
                 \* the end: "no context", "torn"
    ended,       \* history: the jobs that have run to their end
    sums         \* of the waiting and turnaround times of the jobs that have
                 \* finished, and sum_resp_time, of the last one alone
lib == <<queue, info>>
threads == <<curr, suspended, counter, jobCount, fate>>
vars == <<scheme, plan, lib, clock, threads, created, setUp, left, mainPc, mainQuanta, ended,
          sums>>

Init ==
    /\ \E p \in Programs : scheme = p.scheme /\ plan = p.plan
    /\ queue = <<>> /\ info = [j \in Jobs |-> None]
    /\ clock \in 0..(Second - 1)
    /\ curr = Main /\ suspended = None /\ counter = 1 /\ jobCount = 0
    /\ created = 0 /\ setUp = {}
    /\ left = [j \in Jobs |-> plan[j].length]
    /\ mainPc = "spawning" /\ mainQuanta = 0
    /\ fate = "fine" /\ ended = {}
    /\ sums = [wait |-> 0, turn |-> 0, resp |-> 0]

-----------------------------------------------------------------------------
(* currtime() divides the nanoseconds by ten times as many as a second     *)
(* has: within a second it advances by a tenth of the time that goes by,   *)
(* and makes up for it when the next second begins.                        *)

OneSecond == 10 * Second
NextQuantum(time) ==
    IF (time + 1) % OneSecond = Second THEN time + 1 + OneSecond - Second ELSE time + 1

-----------------------------------------------------------------------------
(* libscheduler.c: the comparers over a metadata table m.  A difference of *)
(* times is cut to whole seconds by the int it is assigned to.             *)

Sign(diff, unit, tie) == IF diff >= unit THEN 1 ELSE IF diff <= -unit THEN -1 ELSE tie
FirstCome(m, a, b) == Sign(m[a].arrival - m[b].arrival, OneSecond, IF a < b THEN -1 ELSE 1)
Compare_LateFirst(m, a, b) ==
    CASE scheme \in {"FCFS", "SJF", "PSRTF"} -> -FirstCome(m, a, b)
      [] scheme \in {"PRI", "PPRI"} -> Sign(m[a].priority - m[b].priority, 1, FirstCome(m, a, b))
      [] scheme = "RR" -> IF m[a].rr < m[b].rr THEN -1 ELSE 1

Compare(m, a, b) ==
    CASE scheme = "FCFS" -> FirstCome(m, a, b)
      [] scheme \in {"PRI", "PPRI"} -> Sign(m[a].priority - m[b].priority, 1, FirstCome(m, a, b))
      [] scheme = "PSRTF" -> Sign(m[a].runtime - m[a].executed - m[b].runtime - m[b].executed,
                                  OneSecond, FirstCome(m, a, b))
      [] scheme = "SJF" -> Sign(m[a].runtime - m[b].runtime, OneSecond, FirstCome(m, a, b))
      [] scheme = "RR" -> IF m[a].rr < m[b].rr THEN -1 ELSE 1

Offered(m, q, j) ==
    LET known == Range(q) \cup {j}
    IN  Offer(q, j, [pair \in known \X known |-> Compare(m, pair[1], pair[2])])

JobInfo == [arrival : Int, first : Int, prev : Int, executed : Int, rr : Int, runtime : Int, priority : Int]
NewInfo(j, time) ==
    [arrival |-> time, first |-> NotRun, prev |-> 0, executed |-> 0, rr |-> time,
     runtime |-> plan[j].runtime * OneSecond, priority |-> plan[j].priority]

\* the library's state l = [queue, info, run], run being the job to run next
Dispatch(l, time) ==
    LET j == Peek(l.queue, None)
    IN  [queue |-> Polled(l.queue), run |-> j,
         info |-> IF j = None THEN l.info
                  ELSE [l.info EXCEPT ![j].prev = time, ![j].first = IF @ = NotRun THEN time ELSE @]]

\* scheduler_job_finished; the number of jobs finished is that of `ended`
JobFinished(j, time) ==
    [wait |-> sums.wait + time - info[j].arrival - info[j].runtime,
     turn |-> sums.turn + time - info[j].arrival,
     resp |-> info[j].first - info[j].arrival]

Preemptive == {"PPRI", "PSRTF"}
QuantumExpired(l, evicted, time) ==
    LET charged == [l.info EXCEPT ![evicted].executed = @ + time - l.info[evicted].prev,
                                  ![evicted].prev = time]
        next == Peek(l.queue, None)
        requeued == IF scheme = "RR" THEN [charged EXCEPT ![evicted].rr = time] ELSE charged
    IN  IF evicted = None THEN Dispatch(l, time)
        ELSE IF \/ scheme \notin Preemptive \cup {"RR"}
                \/ scheme \in Preemptive /\ next # None /\ Compare(charged, evicted, next) = -1
        THEN [queue |-> l.queue, info |-> charged, run |-> evicted]
        ELSE Dispatch([queue |-> Offered(requeued, l.queue, evicted), info |-> requeued, run |-> None], time)

-----------------------------------------------------------------------------
(* gthreads.c: gtyield. *)

Library == [queue |-> queue, info |-> info, run |-> None]

\* lines 174-213, on the stack of `me`
SwitchFrom(l, me, susp, time) ==
    LET s == QuantumExpired(l, IF me = Main THEN None ELSE me, time)
        to == IF s.run = None THEN Main ELSE s.run
    IN  /\ queue' = s.queue /\ info' = s.info
        /\ curr' = to /\ suspended' = susp
        /\ fate' = IF mainPc = "offering" /\ s.queue # queue THEN "torn"
                   ELSE IF to # Main /\ to \notin setUp THEN "no context" ELSE fate

YieldToSuspended_KeepsIt(time) ==
    /\ curr = Main /\ suspended # None
    /\ IF suspended = Main
       THEN suspended' = None /\ UNCHANGED <<lib, curr, fate>>
       ELSE SwitchFrom(Library, suspended, suspended, time)
    /\ UNCHANGED <<counter, jobCount>>

YieldToSuspended_KeepsMain(time) ==
    /\ curr = Main /\ suspended # None
    /\ IF suspended = Main
       THEN UNCHANGED <<lib, curr, suspended, fate>>
       ELSE SwitchFrom(Library, suspended, None, time)
    /\ UNCHANGED <<counter, jobCount>>

\* back to the suspended job, which goes on behind its own switch
YieldToSuspended(time) ==
    /\ curr = Main /\ suspended # None
    /\ IF suspended = Main
       THEN suspended' = None /\ UNCHANGED <<lib, curr, fate>>
       ELSE SwitchFrom(Library, suspended, None, time)
    /\ UNCHANGED <<counter, jobCount>>

Interrupts == {"SIGALRM", "GTSLEEP"}
\* every second time the main thread runs; switching from itself it goes on
YieldToMain(sig, time) ==
    /\ ~(curr = Main /\ suspended # None)
    /\ sig \in Interrupts
    /\ counter' = (counter + 1) % 2
    /\ counter' = 0 /\ jobCount > 0
    /\ IF curr = Main
       THEN SwitchFrom(Library, Main, Main, time)
       ELSE suspended' = curr /\ curr' = Main /\ UNCHANGED <<lib, fate>>
    /\ UNCHANGED jobCount

YieldToScheduler(sig, time) ==
    /\ ~(curr = Main /\ suspended # None)
    /\ IF sig \in Interrupts
       THEN counter' = (counter + 1) % 2 /\ (counter' # 0 \/ jobCount = 0)
       ELSE UNCHANGED counter
    /\ SwitchFrom(Library, curr, suspended, time)
    /\ UNCHANGED jobCount

Yield(sig, time) == YieldToSuspended(time) \/ YieldToMain(sig, time) \/ YieldToScheduler(sig, time)

-----------------------------------------------------------------------------
(* The program. *)

Running == fate \in {"fine", "late"} /\ mainPc # "exited"
InGtgo == {"counted", "informed", "offering", "offered"}

\* a quantum ends in a job, which has run for it
AlarmInJob ==
    /\ Running /\ curr # Main /\ left[curr] > 0
    /\ clock' = NextQuantum(clock)
    /\ left' = [left EXCEPT ![curr] = @ - 1]
    /\ Yield("SIGALRM", NextQuantum(clock))
    /\ UNCHANGED <<scheme, plan, created, setUp, mainPc, mainQuanta, ended, sums>>

\* the main thread is interrupted, in gtgo too, or calls gtsleep
QuantumInMain ==
    /\ Running /\ curr = Main /\ mainPc \in InGtgo \cup {"spawning"}
    /\ mainQuanta < MaxMainQuanta
    /\ mainQuanta' = mainQuanta + 1
    /\ \/ clock' = NextQuantum(clock) /\ Yield("SIGALRM", NextQuantum(clock))
       \/ /\ mainPc = "spawning"
          /\ \E time \in {clock, NextQuantum(clock)} : clock' = time /\ Yield("GTSLEEP", time)
    /\ UNCHANGED <<scheme, plan, created, setUp, left, mainPc, ended, sums>>

\* a step of gtgo
GtgoStep(from, to) == Running /\ curr = Main /\ mainPc = from /\ mainPc' = to

\* the counters
GtgoCounts ==
    /\ GtgoStep("spawning", "counted") /\ created < NJobs
    /\ jobCount' = jobCount + 1 /\ created' = created + 1
    /\ UNCHANGED <<scheme, plan, lib, clock, curr, suspended, counter, fate, setUp, left>>
    /\ UNCHANGED <<mainQuanta, ended, sums>>

\* scheduler_new_job before it offers the job: the arrival is the time gtgo was
\* at currtime(), however long it then takes
GtgoInforms ==
    /\ GtgoStep("counted", "informed")
    /\ info' = [info EXCEPT ![created] = NewInfo(created, clock)]
    /\ UNCHANGED <<scheme, plan, queue, clock, threads, created, setUp, left, mainQuanta>>
    /\ UNCHANGED <<ended, sums>>

\* priqueue_offer's first look at the list
OfferLooks ==
    /\ GtgoStep("informed", "offering")
    /\ UNCHANGED <<scheme, plan, lib, clock, threads, created, setUp, left, mainQuanta>>
    /\ UNCHANGED <<ended, sums>>

\* under RR the comparer answers 1 both ways for two jobs of one time: a new job is
\* not less than such a one and goes behind those of later times with it
GoesBehindALaterOne(j) ==
    scheme = "RR" /\ \E a, b \in Range(queue) : info[a].rr = info[j].rr /\ info[j].rr < info[b].rr

\* its last, which links the entry in: the list is the one it looked at
OfferLinks ==
    /\ GtgoStep("offering", "offered")
    /\ queue' = Offered(info, queue, created)
    /\ fate' = IF GoesBehindALaterOne(created) THEN "late" ELSE fate
    /\ UNCHANGED <<scheme, plan, info, clock, curr, suspended, counter, jobCount, created>>
    /\ UNCHANGED <<setUp, left, mainQuanta, ended, sums>>

\* the context, in the rest of gtgo
GtgoSetsUp ==
    /\ GtgoStep("offered", "spawning")
    /\ setUp' = setUp \cup {created}
    /\ UNCHANGED <<scheme, plan, lib, clock, threads, created, left, mainQuanta, ended, sums>>

\* the job's function returns into gtstop: gtret(-1), gtyield(-1)
GtStop ==
    /\ Running /\ curr # Main /\ left[curr] = 0
    /\ jobCount' = jobCount - 1
    /\ ended' = ended \cup {curr} /\ sums' = JobFinished(curr, clock)
    /\ SwitchFrom([Library EXCEPT !.info[curr] = None], Main, suspended, clock)
    /\ UNCHANGED <<scheme, plan, clock, counter, created, setUp, left, mainPc, mainQuanta>>

CallGtret ==
    /\ Running /\ curr = Main /\ mainPc = "spawning"
    /\ mainPc' = "gtret"
    /\ UNCHANGED <<scheme, plan, lib, clock, threads, created, setUp, left, mainQuanta>>
    /\ UNCHANGED <<ended, sums>>

\* gtdoyield(0) returns FALSE, and gtret leaves its loop, when there is nothing
\* to switch to
GtretYields ==
    /\ Running /\ curr = Main /\ mainPc = "gtret"
    /\ Yield("none", clock)
    /\ mainPc' = IF suspended = None /\ curr' = Main THEN "exited" ELSE mainPc
    /\ UNCHANGED <<scheme, plan, clock, created, setUp, left, mainQuanta, ended, sums>>

Gtgo == GtgoCounts \/ GtgoInforms \/ OfferLooks \/ OfferLinks \/ GtgoSetsUp
MainStep == Gtgo \/ CallGtret \/ GtretYields
JobStep == AlarmInJob \/ GtStop
Next == MainStep \/ QuantumInMain \/ JobStep
Spec == Init /\ [][Next]_vars

\* the running thread runs on
FairSpec == Spec /\ WF_vars(MainStep) /\ WF_vars(JobStep)

-----------------------------------------------------------------------------
(* Properties. *)

\* The priority queue, the job that runs and the suspended one share the jobs out that
\* have been created and have not ended, but for the one gtgo has not linked in yet; a
\* suspended job waits for the main thread, which is why nothing is lost when a job is
\* suspended (gthreads.c:136-216, 269-275).
OnItsWay == IF mainPc \in {"counted", "informed", "offering"} THEN {created} ELSE {}
Informed == IF mainPc = "counted" THEN {} ELSE OnItsWay
Present == ((1..created) \ ended) \ OnItsWay
TypeOK ==
    /\ plan \in [Jobs -> [runtime : Nat, priority : Int, length : Nat]]
    /\ queue \in Seq(Jobs) /\ info \in [Jobs -> JobInfo \cup {None}]
    /\ clock \in Nat /\ created \in 0..NJobs /\ OnItsWay \subseteq Jobs
    /\ curr \in Jobs \cup {Main} /\ suspended \in Jobs \cup {Main, None}
JobsAreShared ==
    /\ IsInjective(queue)
    /\ Range(queue) \cup ({curr, suspended} \cap Jobs) = Present
    /\ ended \subseteq (1..created) \ OnItsWay
    /\ {curr, suspended} \cap Range(queue) = {}
    /\ curr \in Jobs => curr # suspended
    /\ \A j \in Jobs : info[j] # None <=> j \in Present \cup Informed
SuspendedBesideMain == suspended \in Jobs => curr = Main
ExitsAtTheEnd == mainPc = "exited" => Present = {}

Occurrences(j) == Cardinality({i \in DOMAIN queue : queue[i] = j})
                    + (IF curr = j THEN 1 ELSE 0) + (IF suspended = j THEN 1 ELSE 0)

\* No job is lost or doubled over the two places a job can wait in, whatever alarms come
\* while jobs run or gtgo makes one: one that gtgo has linked in and that has not ended is
\* running, suspended or in the queue, once, and no other job is in any of them; those
\* and the one gtgo is about to link in are the ones with metadata; and gtret, which
\* judges by one gtdoyield, leaves its loop only when every job has ended
\* (gthreads.c:136-216, 269-289, 335).  An alarm that changes the list while main is
\* within priqueue_offer ends what can be said, as main then holds a freed entry or
\* links its own where it is lost (libpriqueue.c:33-50, 59-66); so does the switch to a
\* job without a context.
JobsAreInOnePlace ==
    fate \notin {"torn", "no context"} =>
        /\ \A j \in Jobs :
              LET present == j <= created /\ j \notin ended /\ j \notin OnItsWay
              IN  /\ Occurrences(j) = (IF present THEN 1 ELSE 0)
                  /\ info[j] # None <=> present \/ j \in Informed
        /\ mainPc = "exited" => ended = 1..created

\* Of the jobs that have finished, turnaround and waiting differ by the times they were
\* said to run for, and none turned around in less than currtime() shows of the quanta
\* it ran for: whole seconds and a tenth of the rest (gthreads.c:41-50,
\* libscheduler.c:203-213).  Of sum_resp_time nothing is claimed: line 208 assigns it
\* where 206 and 207 add, so that it is the last job's alone.
AtLeast(quanta) == ((quanta \div Second) * OneSecond) + (quanta % Second)
SumsAreOfTheFinished ==
    LET Total(f) == MapThenSumSet(LAMBDA j : f[j], ended)
    IN  /\ sums.turn - sums.wait = Total([j \in Jobs |-> plan[j].runtime * OneSecond])
        /\ sums.turn >= Total([j \in Jobs |-> AtLeast(plan[j].length)])

\* What the schemes promise of two jobs (libscheduler.h): a comes before b.  RR
\* goes by who has waited longest.
Precedes(a, b) ==
    LET x == info[a]  y == info[b]
    IN  CASE scheme = "FCFS" -> x.arrival < y.arrival
          [] scheme = "SJF" -> x.runtime < y.runtime
          [] scheme \in {"PRI", "PPRI"} -> x.priority < y.priority
          [] scheme = "PSRTF" -> x.runtime - x.executed + OneSecond <= y.runtime - y.executed
          [] scheme = "RR" -> x.rr < y.rr
RunsFirst == curr \in Jobs => \A i \in DOMAIN queue : ~Precedes(queue[i], curr)
HandsOutAJob == curr' # curr /\ curr' # suspended
HandsOutInScheme == HandsOutAJob /\ scheme # "PSRTF" /\ fate = "fine"

\* Whenever the library hands out a job, no waiting job comes before it, under
\* every scheme but PSRTF, also when gtgo is interrupted between taking the time and
\* linking the job in; unless under RR a job was linked in behind a later one, for a
\* third of its own time (libscheduler.c:118-124, 154-201).
DispatchIsInOrder == [][HandsOutInScheme => RunsFirst']_vars

\* "psrtf checks the remaining time for the job" (libscheduler.h): under PSRTF no
\* waiting job has less left to run, by a second, than the one handed out.
ShortestRemainingFirst == [][HandsOutAJob /\ scheme = "PSRTF" => RunsFirst']_vars

\* All jobs run to their end and gtret returns, whatever is preempted and
\* suspended on the way, unless an interrupt within gtgo runs a job that has no
\* context yet or changes the list under it (gthreads.c:269-289).
Ended == mainPc = "exited" \/ fate \in {"no context", "torn"}
==============================================================================
