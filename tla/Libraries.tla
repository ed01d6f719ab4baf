----------------------------- MODULE Libraries ------------------------------
(***************************************************************************)
(* Programs of the repository that share nothing with each other, side by  *)
(* side: `which` names the one that runs, and v1, v2, ... are that         *)
(* program's variables, in the order of its VARIABLES; those it has no use *)
(* for stay 0.  Here stand the programs whose parameters are left open;    *)
(* MCLibraries gives them values and adds the others.                      *)
(***************************************************************************)
EXTENDS Integers, Sequences

CONSTANTS
    Null,
    NJobs, Second, Programs, MaxMainQuanta, MainJob, None,   \* of Gthreads
    StatusThreads, InitArraySize, MaxStatusCalls, \* of ThreadStatus
    Alignment, StructSize, HeapCapacity, MallocSizes, HeapLimit, MaxLive, \* of Malloc
    SizeofMetaData, MemcheckHeap, MemcheckSizes, MaxMemcheckCalls,    \* of MiniMemcheck
    ShellLines, MaxShellLines, MaxShellSigints,   \* of Shell
    MakefileLines, MakefileGoals, MaxMakefileLines,   \* of MakefileParser
    FakefsFiles, FakefsRoot, OpenMax, MaxFakefsOffset, MaxFakefsCalls,    \* of Fakefs
    VMPids, NFrames, TableSize, MaxNodes, Segments, Touched, PageValues, MaxVMCalls \* of VirtualMemory

VARIABLES which, v1, v2, v3, v4, v5, v6, v7, v8, v9, v10, v11, v12, v13, v14, v15, v16, v17

\* fromK: the variables from vK on; zeroK: none of them is in use
from17 == <<v17>>
from16 == <<v16, from17>>
from15 == <<v15, from16>>
from14 == <<v14, from15>>
from13 == <<v13, from14>>
from12 == <<v12, from13>>
from11 == <<v11, from12>>
from10 == <<v10, from11>>
from9 == <<v9, from10>>
from8 == <<v8, from9>>
from7 == <<v7, from8>>
from6 == <<v6, from7>>
from5 == <<v5, from6>>
from4 == <<v4, from5>>
from3 == <<v3, from4>>
from2 == <<v2, from3>>
vars == <<which, v1, from2>>
zero17 == v17 = 0
zero16 == v16 = 0 /\ zero17
zero15 == v15 = 0 /\ zero16
zero14 == v14 = 0 /\ zero15
zero13 == v13 = 0 /\ zero14
zero12 == v12 = 0 /\ zero13
zero11 == v11 = 0 /\ zero12
zero10 == v10 = 0 /\ zero11
zero9 == v9 = 0 /\ zero10
zero8 == v8 = 0 /\ zero9
zero7 == v7 = 0 /\ zero8
zero6 == v6 = 0 /\ zero7
zero5 == v5 = 0 /\ zero6
zero4 == v4 = 0 /\ zero5
zero3 == v3 = 0 /\ zero4
zero2 == v2 = 0 /\ zero3

-----------------------------------------------------------------------------
\* malloc
Malloc == INSTANCE Malloc WITH Alignment <- Alignment, StructSize <- StructSize,
    InitialCapacity <- HeapCapacity, Sizes <- MallocSizes, HeapLimit <- HeapLimit,
    MaxLive <- MaxLive, heap <- v1, brk <- v2, capacity <- v3, live <- v4
InMalloc == which = "malloc" /\ zero5
InitMalloc == InMalloc /\ Malloc!Init
NextMalloc == InMalloc /\ Malloc!Next /\ UNCHANGED <<which, from5>>

\* The initial capacity has room for a header, a realloc to 0 is a free, and NULL is no
\* address.
ASSUME MallocAssumption ==
    /\ Alignment \in Nat \ {0} /\ StructSize \in Nat \ {0}
    /\ HeapCapacity \in Nat /\ HeapCapacity >= StructSize
    /\ MallocSizes \subseteq Nat \ {0} /\ HeapLimit \in Nat
    /\ Null \notin Nat

\* mini_memcheck
MiniMemcheck == INSTANCE MiniMemcheck WITH SizeofMetaData <- SizeofMetaData,
    HeapSize <- MemcheckHeap, Sizes <- MemcheckSizes, MaxCalls <- MaxMemcheckCalls, list <- v1,
    size <- v2, requested <- v3, freed <- v4, invalid <- v5, fate <- v6, held <- v7,
    badFrees <- v8, calls <- v9
InMiniMemcheck == which = "mini_memcheck" /\ zero10
InitMiniMemcheck == InMiniMemcheck /\ MiniMemcheck!Init
NextMiniMemcheck == InMiniMemcheck /\ MiniMemcheck!Next /\ UNCHANGED <<which, from10>>

\* A request for no bytes is given nothing.
ASSUME MemcheckAssumption == MemcheckHeap \in Nat /\ MemcheckSizes \subseteq Nat \ {0}

Gthreads == INSTANCE Gthreads WITH NJobs <- NJobs, Second <- Second, Programs <- Programs,
    MaxMainQuanta <- MaxMainQuanta, Main <- MainJob, None <- None, scheme <- v1, plan <- v2,
    queue <- v3, info <- v4, clock <- v5, curr <- v6, suspended <- v7, counter <- v8,
    jobCount <- v9, created <- v10, setUp <- v11, left <- v12, mainPc <- v13,
    mainQuanta <- v14, fate <- v15, ended <- v16, sums <- v17
InGthreads == which = "gthreads"
InitGthreads == InGthreads /\ Gthreads!Init
NextGthreads == InGthreads /\ Gthreads!Next /\ UNCHANGED <<which>>
GthreadsMain == InGthreads /\ Gthreads!MainStep /\ UNCHANGED which
GthreadsJob == InGthreads /\ Gthreads!JobStep /\ UNCHANGED which

\* gtgo numbers the jobs; NULL and the main thread are none of them.
ASSUME GthreadsAssumption ==
    /\ NJobs \in Nat /\ Second \in Nat \ {0}
    /\ \A p \in Programs :
        /\ p.scheme \in Gthreads!Schemes
        /\ p.plan \in [1..NJobs -> [runtime : Nat, priority : Int, length : Nat]]
    /\ {MainJob, None} \cap (1..NJobs) = {} /\ None # MainJob
    /\ None \notin Gthreads!JobInfo

\* the status display
ThreadStatus == INSTANCE ThreadStatus WITH NThreads <- StatusThreads,
    InitArraySize <- InitArraySize, MaxCalls <- MaxStatusCalls, array <- v1, cap <- v2,
    thread <- v3, created <- v4, lost <- v5
InThreadStatus == which = "thread_status" /\ zero6
InitThreadStatus == InThreadStatus /\ ThreadStatus!Init
NextThreadStatus == InThreadStatus /\ ThreadStatus!Next /\ UNCHANGED <<which, from6>>

\* There is a main thread.
ASSUME StatusAssumption ==
    StatusThreads \in Nat \ {0} /\ InitArraySize \in Nat /\ MaxStatusCalls \in Nat

Shell == INSTANCE Shell WITH Lines <- ShellLines, MaxLines <- MaxShellLines,
    MaxSigints <- MaxShellSigints, pc <- v1, line <- v2, at <- v3, temp <- v4, after <- v5,
    procs <- v6, child <- v7, history <- v8, fate <- v9, leader <- v10, ran <- v11,
    lines <- v12, sigints <- v13
InShell == which = "shell" /\ zero14
InitShell == InShell /\ Shell!Init
NextShell == InShell /\ Shell!Next /\ UNCHANGED <<which, from14>>

Makefiles == INSTANCE MakefileParser WITH Lines <- MakefileLines, GoalLists <- MakefileGoals,
    MaxLines <- MaxMakefileLines, Null <- Null, text <- v1, goals <- v2, edges <- v3,
    commands <- v4, state <- v5, currRule <- v6, inCommandBlock <- v7, firstTarget <- v8,
    outcome <- v9
InMakefiles == which = "makefile" /\ zero10
InitMakefiles == InMakefiles /\ Makefiles!Init
NextMakefiles == InMakefiles /\ Makefiles!Next /\ UNCHANGED <<which, from10>>

\* A target begins with a letter, a digit, "." or "/", and no word is empty.
ASSUME MakefileAssumption ==
    \A line \in MakefileLines : line.kind = "rule" =>
        line.target \notin {"", Null} /\ "" \notin Makefiles!Range(line.deps)

Fakefs == INSTANCE Fakefs WITH Files <- FakefsFiles, Root <- FakefsRoot, OpenMax <- OpenMax,
    MaxOffset <- MaxFakefsOffset, MaxCalls <- MaxFakefsCalls, kernel <- v1, fdMap <- v2,
    file <- v3, dirs <- v4, size <- v5, fate <- v6, ideal <- v7, desc <- v8, leaked <- v9,
    calls <- v10
InFakefs == which = "fakefs" /\ zero11
InitFakefs == InFakefs /\ Fakefs!Init
NextFakefs == InFakefs /\ Fakefs!Next /\ UNCHANGED <<which, from11>>

\* A process may have standard input open.
ASSUME FakefsAssumption == OpenMax \in Nat \ {0} /\ MaxFakefsOffset \in Nat

\* virtual memory
VM == INSTANCE VirtualMemory WITH Pids <- VMPids, NFrames <- NFrames, TableSize <- TableSize,
    MaxNodes <- MaxNodes, Segments <- Segments, Touched <- Touched, Values <- PageValues,
    Null <- Null, MaxCalls <- MaxVMCalls, mm <- v1, shadow <- v2, outcome <- v3, calls <- v4
InVM == which = "virtual_memory" /\ zero5
InitVM == InVM /\ VM!Init
NextVM == InVM /\ VM!Next /\ UNCHANGED <<which, from5>>

\* Two pages fit into a table, one of the pages touched has the highest address, and
\* NULL is neither an entry nor a directory.
ASSUME VMAssumption ==
    /\ NFrames \in Nat /\ TableSize \in Nat /\ TableSize > 2
    /\ Touched \subseteq Nat /\ \E m \in Touched : \A v \in Touched : v <= m
    /\ Null \notin Int \X Int
    /\ Null \notin [0..VM!Max({VM!Top(v) : v \in Touched}) -> [present : BOOLEAN, base : Int]]

\* the chat client, and one interrupt
ChatClient == INSTANCE ChatClient WITH main <- v1, handler <- v2, pc <- v3, cancelled <- v4,
    closeChat <- v5, shut <- v6, gone <- v7, pointer <- v8, stream <- v9, outcome <- v10
InChatClient == which = "chat_client" /\ zero11
InitChatClient == InChatClient /\ ChatClient!Init
NextChatClient == InChatClient /\ ChatClient!Next /\ UNCHANGED <<which, from11>>
ChatClientMain == InChatClient /\ ChatClient!MainStep /\ UNCHANGED <<which, from11>>
ChatClientCancelled == InChatClient /\ ChatClient!CancelledStep /\ UNCHANGED <<which, from11>>

-----------------------------------------------------------------------------
Init ==
    \/ InitMalloc \/ InitMiniMemcheck \/ InitGthreads \/ InitThreadStatus \/ InitShell
    \/ InitMakefiles \/ InitFakefs \/ InitVM \/ InitChatClient
Next ==
    \/ NextMalloc \/ NextMiniMemcheck \/ NextGthreads \/ NextThreadStatus \/ NextShell
    \/ NextMakefiles \/ NextFakefs \/ NextVM \/ NextChatClient
Spec == Init /\ [][Next]_vars

-----------------------------------------------------------------------------
(* Properties. *)

\* malloc's blocks tile the heap, each on the list it belongs to, and no block of
\* the program's overlaps another (alloc.c:87-360); mini_memcheck's ledger is true of
\* the blocks it has given out (mini_memcheck.c:15-40, 93-124).
BlocksAreAccounted ==
    /\ which = "malloc" => Malloc!BlocksTileHeap /\ Malloc!EveryBlockIsAccounted
    /\ which = "mini_memcheck" => MiniMemcheck!LedgerIsRight

\* A job that gtgo has linked in and that has not ended waits in one place, until an alarm
\* changes the list under priqueue_offer (gthreads.c:136-216, 269-289).
JobsAreInOnePlace ==
    which = "gthreads" => Gthreads!JobsAreInOnePlace

\* Whenever the library hands out a job, no waiting job comes before it, under every
\* scheme but PSRTF; under RR as long as none has been linked in behind a later one
\* (libscheduler.c:118-124, 154-201).
DispatchIsInOrder ==
    [][which = "gthreads" /\ Gthreads!HandsOutInScheme => Gthreads!RunsFirst']_vars

\* The shell's list of processes is true between lines, and && || ; do what they say
\* (shell.c:82-105, 144-173, 232-267).
ShellKeepsItsWord == which = "shell" => Shell!ListIsTrue /\ Shell!OperatorsHold

\* A descriptor of the fakefs shim is what POSIX says of it, over open, dup, dup2,
\* close, lseek and the calls that open a path for a moment, until the first departure
\* from POSIX that `fate` names, an lseek before the file among them (core.c:38-205, dup.c:7-28,
\* stat.c:18-99, dir.c:6-80).
FakefsIsFaithful == which = "fakefs" => Fakefs!DescriptorsStandForTheirFiles

\* Wherever the chat client's threads are cancelled, they give back what they hold,
\* once (client.c:80-93, 114-131, 149-163, 169-176).
ThreadsGiveBack == which = "chat_client" => ChatClient!ThreadsGiveBack

\* The dependency graph is what the makefile says (parser.c:208-321).
ParsedAsWritten == which = "makefile" => Makefiles!ParsedAsWritten

\* A read of a process returns what it wrote to the page last, through the TLB, the page
\* tables and the swap files (mmu.c:22-176, 267-297, tlb.c:11-84, kernel.c:22-117).
ReadsSeeWrites == which = "virtual_memory" => VM!ReadsSeeWrites
==============================================================================
