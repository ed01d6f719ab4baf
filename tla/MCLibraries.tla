---------------------------- MODULE MCLibraries ------------------------------
(***************************************************************************)
(* The programs of Libraries with what the configuration gives them, and   *)
(* the programs whose parameters stand here.  One run checks them all: the *)
(* initial state chooses the one that runs.                                *)
(***************************************************************************)
EXTENDS Libraries

CONSTANTS FreedText, Dot    \* of the password crackers

-----------------------------------------------------------------------------
(* What the programs of Libraries are given, where it is not a number. *)

\* malloc: three blocks of three sizes, one of them not aligned, which moves block
\* boundaries off the grid when realloc grows in place; the heap is extended twice
\* before sbrk fails.  mini_memcheck: five calls, on addresses that were given out and
\* that were not.  The status display: two threads beside the main thread, in an array
\* that starts with two entries.  The shim: two files and a directory, and three
\* descriptors, of which standard input may be one.  Virtual memory: two processes of two
\* pages each want eight frames of seven, so that pages are swapped out, with a TLB of two
\* nodes.

\* green threads: up to four jobs under each of the six schemes, of two kinds that
\* differ in what the scheme looks at; main is interrupted or sleeps at most twice.  Four
\* are what it takes for RR to link one in behind a later one.
Job(runtime, priority, length) == [runtime |-> runtime, priority |-> priority, length |-> length]
Runs(schemes, jobs) == {[scheme |-> s, plan |-> <<xy[1], xy[2], xy[2], xy[1]>>] :
                           s \in schemes, xy \in {p \in jobs \X jobs : p[1] # p[2]}}
MCPrograms ==
    Runs({"FCFS", "RR"}, {Job(0, 1, 1), Job(0, 1, 2)})
    \cup Runs({"SJF", "PSRTF"}, {Job(1, 1, 2), Job(2, 1, 4)})
    \cup Runs({"PRI", "PPRI"}, {Job(0, 1, 2), Job(0, 2, 2)})

\* shell: three lines, of every kind, and one interrupt
Token(kind, text) == [kind |-> kind, word |-> text]
Word(text) == Token("word", text)
TokenLines ==
    {<<Word("a"), Token("and", ""), Word("b")>>, <<Word("a"), Token("or", ""), Word("b")>>,
     <<Token("semi", "a"), Word("cd"), Token("and", ""), Word("b")>>, <<Word("b"), Token("amp", "")>>}
MCShellLines ==
    [kind : {"tokens"}, tokens : TokenLines] \cup [kind : {"prefix"}, word : {"a"}]
    \cup [kind : {"index", "kill", "stop", "cont"}, n : {1, 2}] \cup [kind : {"blank", "ps", "exit"}]

\* makefiles of five lines, with a target of two rules and one that is only a dependency
RuleLine(target, deps) == [kind |-> "rule", target |-> target, deps |-> deps]
MCMakefileLines ==
    {RuleLine("a", <<"b">>), RuleLine("a", <<"c">>), RuleLine("b", <<>>)}
    \cup [kind : {"recipe"}, command : {"x", "y"}] \cup [kind : {"blank", "bad"}]
MCMakefileGoals == {<<>>, <<"c">>, <<"b", "a">>}

\* virtual memory: two pages that may be read and written
MCSegments == <<[start |-> 1, end |-> 2, permissions |-> {"r", "w"}]>>

-----------------------------------------------------------------------------
\* password crackers: no, one and two lines; a hint of 'a', a hint of 'z', by which a
\* search may not end, and a hint without a letter, for either of two passwords.
InputLines(hints, secrets) == UNION {[1..n -> [hint : hints, secret : secrets]] : n \in 0..2}

Cracker1 == INSTANCE Cracker1 WITH Letters <- 2, NThreads <- 2,
    Inputs <- InputLines({<<0, Dot, Dot>>, <<Dot, Dot, Dot>>, <<1, Dot, Dot>>}, {<<0, 1, 0>>, <<1, 0, 0>>}),
    input <- v1, q <- v2, worker <- v3, created <- v4, numSuccessful <- v5, numFailed <- v6,
    summary <- v7
InCracker1 == which = "cracker1" /\ zero8
InitCracker1 == InCracker1 /\ Cracker1!Init
NextCracker1 == InCracker1 /\ Cracker1!Next /\ UNCHANGED <<which, from8>>

Cracker2 == INSTANCE Cracker2 WITH Letters <- 2, NThreads <- 3,
    Inputs <- InputLines({<<0, Dot, Dot>>}, {<<0, 1, 0>>, <<1, 0, 0>>}), Freed <- FreedText,
    input <- v1, line <- v2, main <- v3, pushed <- v4, queues <- v5, worker <- v6, fail <- v7,
    password <- v8, hashCount <- v9, exp <- v10, tried <- v11
InCracker2 == which = "cracker2" /\ zero12
InitCracker2 == InCracker2 /\ Cracker2!Init
NextCracker2 == InCracker2 /\ Cracker2!Next /\ UNCHANGED <<which, from12>>

\* map reduce: three lines of two keys, of one or more bytes, and no line at all, for
\* two mappers over pipes of one line
Line(length, key) == [length |-> length, key |-> key]
Files == {<<Line(1, "x"), Line(2, "y"), Line(1, "x")>>, <<Line(1, "x"), Line(3, "x"), Line(1, "y")>>, <<>>}

MapReduce == INSTANCE MapReduce WITH NMappers <- 2, PipeCapacity <- 1, Inputs <- Files,
    input <- v1, fds <- v2, status <- v3, forked <- v4, waited <- v5, printed <- v6,
    pipe <- v7, left <- v8, line <- v9, store <- v10
InMapReduce == which = "mapreduce" /\ zero11
InitMapReduce == InMapReduce /\ MapReduce!Init
NextMapReduce == InMapReduce /\ MapReduce!Next /\ UNCHANGED <<which, from11>>

\* lists that are shorter than the number of threads, as long, and longer with a
\* remainder of none, one and two
ParReduce == INSTANCE ParReduce WITH Lengths <- {1, 2, 3, 5, 7}, ThreadCounts <- {1, 2, 3},
    list <- v1, numThreads <- v2, main <- v3, created <- v4, out <- v5, result <- v6
InParReduce == which = "par_reduce" /\ zero7
InitParReduce == InParReduce /\ ParReduce!Init
NextParReduce == InParReduce /\ ParReduce!Next /\ UNCHANGED <<which, from7>>

-----------------------------------------------------------------------------
\* vector and string: up to three elements, so that the array grows once
Vector == INSTANCE Vector WITH Values <- {1, 2}, Default <- 1, InitialCapacity <- 2,
    MaxSize <- 3, Strings <- UNION {[1..n -> {1, 2}] : n \in 0..2}, v <- v1, ideal <- v2,
    asked <- v3, got <- v4
InVector == which = "vector" /\ zero5
InitVector == InVector /\ Vector!Init
NextVector == InVector /\ Vector!Next /\ UNCHANGED <<which, from5>>

\* minixfs: blocks of two bytes, two direct and two indirect ones; the file system
\* that mkfs makes, and one whose root holds one file, of six bytes, in all its blocks;
\* accesses within a block, over two that do not begin with one, over the direct ones,
\* within the indirect ones, and from the direct ones into the indirect ones, in part
\* and to the end
Blocks == 0..6
Inode(directory, nlink, size, direct, indirect) ==
    [nlink |-> nlink, dir |-> directory, size |-> size, direct |-> direct, indirect |-> indirect]
Unused == Inode(FALSE, 0, 0, <<-1, -1>>, -1)
Unit(name, ino) == [name |-> name, ino |-> ino]
NoUnits == [b \in Blocks |-> [u \in 0..7 |-> Unit("", 0)]]
Disk(used, inodes, units, numbers) ==
    [used |-> used, inode |-> [i \in 0..3 |-> IF i < Len(inodes) THEN inodes[i + 1] ELSE Unused],
     units |-> units, numbers |-> numbers, bytes |-> [b \in Blocks |-> <<0, 0>>]]
NoNumbers == [b \in Blocks |-> <<-1, -1>>]
Mkfs == [fs |-> Disk({}, <<Inode(TRUE, 1, 0, <<-1, -1>>, -1)>>, NoUnits, NoNumbers),
         named |-> <<>>, content |-> [i \in 0..3 |-> <<>>]]
OneFile ==
    [fs |-> Disk(0..5, <<Inode(TRUE, 1, 2, <<0, -1>>, -1), Inode(FALSE, 1, 6, <<1, 2>>, 3)>>,
                 [NoUnits EXCEPT ![0][0] = Unit("a", 0), ![0][1] = Unit("", 1)],
                 [NoNumbers EXCEPT ![3] = <<4, 5>>]),
     named |-> [path \in {<<"a">>} |-> 1],
     content |-> [i \in 0..3 |-> IF i = 1 THEN <<0, 0, 0, 0, 0, 0>> ELSE <<>>]]

Minixfs == INSTANCE Minixfs WITH NInodes <- 4, NBlocks <- 7, NDirect <- 2, BlockSize <- 2,
    DirUnits <- 8, Entry <- 2, MaxCalls <- 4, Images <- {Mkfs, OneFile},
    Paths <- {<<"a">>, <<"b">>, <<"b", "a">>},
    Spans <- {<<0, 1>>, <<1, 2>>, <<0, 4>>, <<4, 2>>, <<2, 5>>, <<0, 8>>}, fs <- v1,
    died <- v2, named <- v3, content <- v4, asked <- v5, got <- v6, calls <- v7
InMinixfs == which = "minixfs" /\ zero8
InitMinixfs == InMinixfs /\ Minixfs!Init
NextMinixfs == InMinixfs /\ Minixfs!Next /\ UNCHANGED <<which, from8>>

\* the shim's paths: every one of up to eight characters, which a name of two that is
\* taken back and another after it fit in
Path == INSTANCE FakefsPath WITH Names <- {"a"}, MaxLength <- 8, origVPath <- v1,
    currIdx <- v2, vPath <- v3, vIdx <- v4, atDirBoundary <- v5, done <- v6
InPath == which = "fakefs_path" /\ zero7
InitPath == InPath /\ Path!Init
NextPath == InPath /\ Path!Next /\ UNCHANGED <<which, from7>>

\* dd: blocks of two bytes of inputs of none to five, over an output of none or three;
\* two signals, and a read or a write that fails
Copies ==
    [block : {2}, count : 0..3, skip : 0..1, seek : 0..2, seekable : {TRUE},
     input : {[x \in 1..n |-> x] : n \in 0..5}, old : {<<>>, <<-1, -1, -1>>}]
    \cup [block : {2}, count : {0, 1}, skip : {1}, seek : {1}, seekable : {FALSE},
          input : {[x \in 1..n |-> x] : n \in 0..5}, old : {<<>>}]

Dd == INSTANCE Dd WITH Calls <- Copies, MaxSignals <- 2, MaxErrors <- 1, call <- v1,
    inPos <- v2, outPos <- v3, eof <- v4, output <- v5, i <- v6, counts <- v7, flag <- v8,
    pc <- v9, report <- v10, signals <- v11, errors <- v12
InDd == which = "dd" /\ zero13
InitDd == InDd /\ Dd!Init
NextDd == InDd /\ Dd!Next /\ UNCHANGED <<which, from13>>

\* lookup: the six words of sample.data, for which even numbers stand in their order, and
\* two words that are there or lie between
Node(word, left, right, count) == [word |-> word, left |-> left, right |-> right, count |-> count]
SampleData ==
    [o \in {4, 28, 52, 76, 96, 120} |->
        CASE o = 4 -> Node(8, 52, 28, 25) [] o = 28 -> Node(12, 96, 0, 17) [] o = 52 -> Node(4, 76, 120, 12)
          [] o = 76 -> Node(2, 0, 0, 10) [] o = 96 -> Node(10, 0, 0, 9) [] o = 120 -> Node(6, 0, 0, 3)]

Lookup == INSTANCE Lookup WITH Files <- {SampleData}, Requests <- [1..2 -> 1..13],
    Null <- Null, file <- v1, words <- v2, offset <- v3, printed <- v4
InLookup == which = "lookup" /\ zero5
InitLookup == InLookup /\ Lookup!Init
NextLookup == InLookup /\ Lookup!Next /\ UNCHANGED <<which, from5>>

-----------------------------------------------------------------------------
MCInit ==
    \/ Init \/ InitCracker1 \/ InitCracker2 \/ InitMapReduce \/ InitParReduce
    \/ InitVector \/ InitMinixfs \/ InitPath \/ InitDd \/ InitLookup
MCNext ==
    \/ Next \/ NextCracker1 \/ NextCracker2 \/ NextMapReduce \/ NextParReduce
    \/ NextVector \/ NextMinixfs \/ NextPath \/ NextDd \/ NextLookup

\* the programs that read their input and end
NextTerminating == NextCracker1 \/ NextCracker2 \/ NextMapReduce \/ NextParReduce \/ NextDd
    \/ NextLookup

\* A behaviour is one of Spec, of Libraries, or of a program that is added here.
MCSpec ==
    /\ MCInit /\ [][MCNext]_vars
    /\ WF_vars(GthreadsMain) /\ WF_vars(GthreadsJob) /\ WF_vars(NextTerminating)
    /\ WF_vars(ChatClientMain) /\ WF_vars(ChatClientCancelled)

-----------------------------------------------------------------------------
(* Properties. *)

\* What the crackers say is true for every schedule: cracker1's counts
\* (cracker1.c:24-70, 93), what cracker2 prints of a line, found by whom and after how
\* many hashes (cracker2.c:48-112, 139-173), and the status display, which shows a
\* thread doing what it last said it does (thread_status.c:154-274).
CrackersTellTheTruth ==
    /\ which = "cracker1" => Cracker1!CountsAreRight
    /\ which = "cracker2" => Cracker2!SummaryIsTrue
    /\ which = "thread_status" => ThreadStatus!StatusIsItsOwn

\* What several processes or threads make of an input is what one would make of it
\* (mapreduce.c:42-100, splitter.c:36-58, 101-152; par_reduce.c:32-72), short of the parts
\* whose splitter or mapper failed; what dd has copied and reports is what was asked for,
\* and short of it where a read or a write failed (dd.c:91-155); what lookup prints is in
\* the file (lookup1.c:17-40, lookup2.c:23-39); the sums of the scheduler's waiting and
\* turnaround times agree with the jobs that have finished, of its response time nothing
\* being said (gthreads.c:41-50, libscheduler.c:145-213); and a path of the shim's is the
\* file its names lead to (fakefs_utils.c:117-191).
ResultsAreExact ==
    /\ which = "mapreduce" => MapReduce!ReductionIsExact
    /\ which = "par_reduce" => ParReduce!ParReduceIsReduce
    /\ which = "dd" => Dd!CopyIsExact
    /\ which = "lookup" => Lookup!LookupIsExact
    /\ which = "gthreads" => Gthreads!SumsAreOfTheFinished
    /\ which = "fakefs_path" => Path!PathIsResolved

\* A vector holds the list it stands for and frees what it held (vector.c:143-285), and
\* split and slice of a string return its parts, but that a slice of nothing is NULL,
\* not the empty string its header allows (sstring.c:42-112, sstring.h:96-98).
VectorIsItsList == which = "vector" => Vector!VectorIsItsList

\* Every block of a minixfs is owned as its data map says, a path that is found is the
\* file that was created under it, and a read returns what was written there last
\* (minixfs_utils.c:60-97, minixfs.c:70-110, 146-361).
FilesKeepTheirOwn ==
    which = "minixfs" => Minixfs!BlocksAreOwned /\ Minixfs!NamesAreTheirs /\ Minixfs!ReadsSeeWrites

\* Every job of the green threads, every search that has an end and every reduction
\* ends: no worker waits for a task, a barrier or the end of a pipe that never comes
\* (gthreads.c:269-343, cracker1.c:42-69, cracker2.c:109-188, mapreduce.c:60-99,
\* par_reduce.c:32-72, dd.c:101-157).  An interrupt ends the chat client, whatever its
\* threads wait for (client.c:169-176, 202-205).
EverythingEnds ==
    /\ (which = "chat_client" /\ ChatClient!Interrupted)
           ~> (which = "chat_client" /\ ChatClient!Stops)
    /\ <>(/\ which = "gthreads" => Gthreads!Ended
          /\ which = "cracker1" => Cracker1!Ended
          /\ which = "cracker2" => Cracker2!Ended
          /\ which = "mapreduce" => MapReduce!Ended
          /\ which = "par_reduce" => ParReduce!Ended
          /\ which = "dd" => Dd!Ended
          /\ which = "lookup" => Lookup!Ended)
==============================================================================
