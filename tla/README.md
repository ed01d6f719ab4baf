# Verification of the CS 241 systems code

`src/CS_241` is a collection of systems programs in C: synchronisation
primitives, a parallel make, network servers, a green-thread scheduler, a
malloc, a virtual-memory simulator, a file system, a shell.  Each program is
self-contained; they have in common that they are hard to test, because what
can go wrong depends on the order in which threads, clients, signals or calls
happen to run.  This directory keeps TLA+ models of the programs, the TLC
configurations that check them and the TLAPS proofs about them.  The rest of
the repository (`CS_357`, `CS_374`, `CS_440`, `MATH_482`, `Interview`) is
homework: numerical scripts, search stubs, notes.

Every definition is a translation of code; `PROJECT.json` names, for each, the
file and the lines.

Contents

1. The system: components, state, operations, interaction, what is hard
2. The modules and how they correspond to the code
3. Modelling conventions, fairness
4. The runs: questions, bounds, results
5. What is proved, and how
6. Where code and documentation disagree
7. What is not modelled, and why
8. Plan


## 1. The system

### Threads on mutexes and condition variables

| component | state | operations | what is hard | what makes it correct |
|---|---|---|---|---|
| **semamore** `critical_concurrency/semamore.c` | value, maximum, mutex, one condition variable | init, wait, post, destroy | waiters and posters share one condition variable; wait signals one sleeper, post wakes all | value within 0..max; nobody asleep who could go on; every call behaves like that of a semaphore |
| **blocking queue** `critical_concurrency/queue.c` | head, tail, size, list of nodes, one condition variable | create, push, pull, destroy | a node is read and freed outside the mutex; head/tail at the empty boundary; shared condition variable | FIFO; no leak and no use after free; nobody asleep who could go on |
| **reusable barrier** `critical_concurrency/barrier.c` | count, n_threads, times_used, condition variable | init, wait, destroy | a fast thread enters the next use before slow ones have left; the wait is not re-tested; times_used is updated outside the mutex | nobody passes early; everybody passes |
| **rendezvous** `critical_concurrency/rendezvous*.c` | two strings, two semaphores | two threads modify one string and print the other | order | nobody prints before the other has modified |
| **deadlock-resistant mutexes** `deadlock_demolition/libdrm.c` | a resource allocation graph under one global mutex, a mutex per drm | init, wait, post, destroy | the graph lags behind the locks it describes | no deadlock is admitted; no request refused without need; what is admitted is served |
| **parallel make** `parallel_make/parmake.c` | dependency graph, visited set, rule states, a blocking queue, the files' ages | check_failed (depth-first walk), workers, parmake | the walk reads states and ages while workers change them; goals that share rules; failure over two paths | dependencies first, once, no needless command, termination |
| **password crackers** `password_cracker/*.c` | a blocking queue of tasks; a barrier, a flag, counters | producer and workers | end of work; the flag that stops the others; results read after the barrier | every task is tried once, counters are sums |
| **parallel reduce** `teaching_threads/par_reduce.c` | slices of a list | fork, join, reduce | slice boundaries | equals the sequential reduction |

parmake and the crackers call the blocking queue; both crackers and the chat
server depend on pthread mutexes as parmake does.  Nothing else is shared
between programs.

### Servers

| component | state | operations | what is hard | what makes it correct |
|---|---|---|---|---|
| **chat server** `charming_chatroom/server.c`, `utils.c` | client slots, their count, a mutex, the process's descriptor table, the flag endSession | accept, broadcast, departure, shutdown on SIGINT | many threads broadcast; a descriptor number is reused between its close and its removal from the slot; refusal of a client too many | slots and count agree; one order of messages; a broadcast reaches all that listen |
| **chat client** `charming_chatroom/client.c` | a socket, two threads, their buffers | send, receive, leave on SIGINT | the handler cancels both threads wherever they wait | what they hold is given back, once; an interrupt ends the client |
| **nonstop server** `nonstop_networking/server.c`, `common.c` | epoll set, a record per client, a directory, the list of file names, a table of sizes | header, body, answer, error, clean-up | requests of several clients interleave event by event; PUTs that are cut short or too long; list, sizes and directory updated at different points | the three agree; answers are true; everyone is answered |
| **nonstop client** `nonstop_networking/client.c` | request, socket | send request, read response | half-close, exit at any point | - |

### Single processes

| component | state | operations | what is hard | what makes it correct |
|---|---|---|---|---|
| **green threads** `savvy_scheduler/gthreads/gthreads.c` | current job, suspended job, counters | gtgo, gtyield, gtsleep, gtret, gtstop, SIGALRM | an alarm in any place; a second place, beside the queue, where a job waits | no job lost or run twice; all end |
| **scheduler library** `savvy_scheduler/libscheduler.c`, `libpriqueue` | priority queue, metadata per job | new job, quantum expired, job finished, six comparers | comparers whose answer changes while a job waits | jobs are handed out in the scheme's order |
| **malloc** `malloc/alloc.c` | block list and free list in headers inside the heap | malloc, calloc, realloc, free | splitting and merging keep two doubly linked lists | blocks tile the heap; every block is held or free, once |
| **mini memcheck** `mini_memcheck/mini_memcheck.c` | a list of headers, three totals | malloc, calloc, realloc, free | realloc moves a header | the list is what is allocated; totals add up |
| **virtual memory** `ideal_indirection/*.c` | page directories and tables, a TLB, frames, swap files, segments | read, write, add and remove a process | eviction while the TLB holds pointers; process switch | a read returns what was last written there |
| **minixfs** `finding_filesystems/minixfs.c` | superblock, inodes, data blocks | create, read, write, chmod, chown, readdir | direct and indirect blocks, bounds | blocks are owned once; read returns what was written |
| **shell** `shell/shell.c` | history, processes, signal handlers | run, logical operators, redirection, background, kill/stop/cont | SIGCHLD and SIGINT against the main loop | a process is listed until it has ended |
| **vector, string** `vector/*.c` | buffer, size, capacity | insert, erase, resize, reserve ... | growth and shift | a sequence |
| **map reduce** `mapreduce/*.c` | pipes, processes | splitter, mapper, reducer | the ends of a pipe that must be closed | everything ends; chunks concatenate to the input |
| **dd** `deepfried_dd/dd.c` | two streams, five counts, the flag the SIGUSR1 handler sets | seek, copy, report | the last block is short or there is none; the handler sets the flag between any two steps | the output is the part asked for, in its place; what is reported is what was copied |
| **makefile parser** `parallel_make/parser.c` | the graph, the current rule, the first target | read a line, connect the goals | blocks of recipes begin and end; a target has several rules | the graph is what the makefile says |
| **fakefs shim** `finding_filesystems/fakefs_src/*.c` | the maps from descriptors and directory streams to open files | open, read, write, close, lseek, dup, dup2, opendir, the calls on paths | calls on paths are made of calls on descriptors; copies of a descriptor share a record | a descriptor is what POSIX says of it; a path is the file its names lead to |
| **small utilities** | - | env, time, camelCaser, lookup, pointers | - | a word is found where the tree has it |


## 2. The modules

| module | what it is | code |
|---|---|---|
| `CondVar` | what pthread_cond_signal and pthread_cond_broadcast do to the set of sleepers | POSIX, as used by three programs |
| `Semamore` | one action per branch of semm_wait and semm_post | semamore.c |
| `CountingSemaphore` | abstract: a bounded semaphore with no sleepers and no mutex | semamore.h |
| `BlockingQueue` | queue.c with its list, its heap of nodes and the part of queue_pull that runs outside the mutex | queue.c |
| `BlockingFIFO` | abstract: a bounded sequence | queue.h |
| `BlockingQueue_proofs` | the linked list, the sleepers, and refinement of `BlockingFIFO` | |
| `Barrier` | barrier_wait, with the read and the write of times_used as separate steps | barrier.c |
| `SemamoreBarrier_proofs` | the semaphore: invariance, and refinement of `CountingSemaphore`; the barrier: invariance | |
| `LibDrm`, `LibDrm_proofs` | the graph, the locks and the steps between taking a lock and recording it | libdrm.c |
| `Parmake`, `Parmake_proofs` | check_failed as an explicit stack, its loops step by step; workers | parmake.c |
| `MakefileParser` | the parser's loop over lines, then over goals | parser.c |
| `ChatServer`, `ChatServer_proofs` | main thread, slot threads, mutex, descriptor table | server.c, utils.c |
| `ChatClient` | main thread, writer, reader, the handler of SIGINT; cancellation point by point | client.c, chat_window.c |
| `NonstopServer`, `NonstopServer_proofs` | epoll events, the directory, the list, the sizes; clients | server.c, client.c, common.c |
| `PriQueue`, `Gthreads` | offer, peek and poll; the library's decisions and the switches of gtyield | libpriqueue.c, libscheduler.c, gthreads.c |
| `CrackerStrings` | the strings the crackers try: increment, shares of the space | libs/utils.c |
| `Cracker1`, `Cracker2` | the two searches, hash by hash | cracker1.c, cracker2.c |
| `ThreadStatus` | the display's array, entry by entry, with the steps outside its mutex | libs/thread_status.c |
| `ParReduce` | slices, threads, the reduction of the results | par_reduce.c, reduce.c |
| `MapReduce` | processes and the pipe ends each holds | mapreduce.c, splitter.c, core/mapper.c, reducer.c, libds.c |
| `Shell` | prompt, exec_command token by token, children, the handler of SIGINT | shell.c |
| `Malloc` | helpers as functions from heap to heap, calls as actions | alloc.c |
| `MiniMemcheck` | the list of headers and the totals over any allocator | mini_memcheck.c |
| `VirtualMemory` | MMU, TLB, segments, frames and swap | mmu.c, tlb.c, segments.c, kernel.c |
| `Vector` | a vector of pointers to copies, and a string on top of it | vector.c, sstring.c |
| `Minixfs` | inodes, direct and indirect blocks, directories, path lookup | minixfs.c, minixfs_utils.c, minixfs_provided.c |
| `Fakefs` | descriptors, the records behind them, and beside them what POSIX would have | core.c, dup.c, stat.c, dir.c, init.c |
| `FakefsPath` | fakefs_realpath's loop, character by character | fakefs_utils.c |
| `Dd` | the copying loop and the handler of SIGUSR1 | dd.c |
| `Lookup` | the search in a tree in a file, for several words | lookup1.c, lookup2.c |
| `MC...` | values for TLC, where a .cfg cannot write them | |
| `Libraries` | the programs that share nothing, side by side, with their parameters open: malloc, mini memcheck, green threads, status display, shell, makefile parser, fakefs, virtual memory, chat client | |
| `MCLibraries` | what these are given for TLC, and the programs whose parameters stand in it: crackers, map reduce, parallel reduce, vector, minixfs, fakefs paths, dd, lookup | |
| `Libraries_proofs` | proofs about the programs of `Libraries`: chat client, green threads, status display, shell, makefile parser, fakefs | |
| `Memory_proofs` | proofs about three more of them: malloc, mini memcheck, virtual memory | |

How they are put together:

* `Parmake`, `Cracker1` and `Cracker2` use the queue as a plain sequence: that
  `queue.c` behaves as one is what `BlockingQueue!ImplementsFIFO` says.
  `Cracker2` uses a barrier that lets all pass when the last has come: that the
  threads of a barrier pass together is `Barrier`'s subject.
* `Parmake` starts from a graph; `MakefileParser` is where graphs come from.
* `Fakefs` serves files known by their path; `FakefsPath` is how a path is made,
  `Minixfs` what happens to the file.
* `ChatServer` has clients as a server sees them, `ChatClient` a server as a
  client sees it.
* `Libraries` and `MCLibraries` hold the programs that share nothing with each
  other.  The initial state chooses one of them (`which`); `v1`, `v2`, ... stand
  for the variables of the chosen one, and those it has no use for stay 0.
  `Libraries` has the programs about which something is proved: all their
  parameters are its constants, with an assumption for each program that needs
  one.  `MCLibraries` extends it by values for TLC and by the other programs; a
  behaviour of its `MCSpec` is one of `Libraries`' `Spec`, with fairness, or of a
  program that is added, so that what is proved of `Spec` is what the run checks.
* `Semamore`, `BlockingQueue`, `Barrier` and `LibDrm` are checked as they are:
  their .cfg gives every constant its value.

How the state corresponds to the code:

* *Semamore, BlockingQueue.*  `pc[t]` is the call thread t is inside, `asleep` the
  threads inside pthread_cond_wait; a thread inside a call and not asleep contends
  for the mutex and will re-test its condition.
* *Barrier.*  `place[t]` is where thread t is in barrier_wait, `waiters` the threads
  inside pthread_cond_wait.  Its `Init`, `Spec` and so on bear its name
  (`BarrierInit`, `BarrierSpec`, `FairBarrierSpec`), so that one module can hold the
  proofs about it and about Semamore.
* *BlockingQueue.*  `next` and `data` are the fields of the nodes, `heap` the
  nodes allocated; malloc returns any node not in the heap.  In `pc = "pulled"`
  a puller holds an unlinked node (`temp`) outside the mutex.
* *LibDrm.*  `owner[d]` is the lock pm; `edges` the graph.  `pc = "acquire"`: m
  is released, pm not yet taken.  `pc = "record"`: pm is taken and the graph
  still shows a request.
* *Parmake.*  `stack` holds a frame per activation of check_failed, with the
  loop it is in and its index; `state`, `mtime`, `queue` are what walk and
  workers share.
* *MakefileParser.*  `edges`, `commands` and `state` are the graph and the
  rules in it; `currRule`, `inCommandBlock` and `firstTarget` are locals.  `text`
  is what has been read.
* *ChatServer.*  `clients[i]` holds descriptor numbers, `fdTable` what a number
  stands for; accept() gives out the lowest free one.
* *ChatClient.*  `pointer` follows the three pointers whose blocks the clean-up
  handlers free; `pc[t]` is where thread t is, `cancelled` whom pthread_cancel
  was called for.
* *NonstopServer.*  `state[c]` is info->state; `disk`, `fileList`, `fileSize`
  the three records of what is stored; `busy` the client whose body read_body
  is waiting for.  `accepted` and `refused` are history.
* *Gthreads.*  `info[j]` is job->metadata, `queue` the priority queue from its
  head, `suspended`, `curr`, `counter` the statics of gthreads.c.  gtyield runs with
  SIGALRM blocked and is one step.  gtgo does not block it and is cut into five, which
  `mainPc` counts: the counters, the job's metadata, the first look of priqueue_offer
  at the list, the linking, the context (`setUp` has the jobs that have one).  An
  alarm between any two of them runs quanta of other jobs.  `fate` is "torn" when it
  changes the list between the look and the linking: the handler's poll frees an entry
  main may hold, or main links its own behind one that has moved.  The clock is
  currtime()'s, which divides the nanoseconds by 1e10 (gthreads.c:48): in a second it
  advances by a tenth of one, and then catches up (`NextQuantum`).
* *Cracker1, Cracker2.*  `worker[t]` is a thread's place and its locals, `q` and
  `queues` the queues, `fail`, `password` and `hashCount` the shared results.
  `tried` is history.
* *ThreadStatus.*  `array` is status_array with thread_count entries, `cap` its
  capacity; `thread[t].idx` an index that t has looked up and will use.
* *MapReduce.*  `fds[p]` is the set of pipe ends process p holds, copied by
  fork and changed by close; `pipe` what is in a pipe.  Any child may fail: a splitter
  on a file or a count it does not take, the others at exec.
* *Shell.*  `procs` is all_process, `child` what the system knows of each
  process; `pc`, `line`, `at`, `temp` and `after` the place in exec_command.
* *Malloc.*  `heap.at` maps the address of each header to its fields.
* *MiniMemcheck.*  `list` is the chain from head, `size` the field request_size.
* *VirtualMemory.*  `mm` is what the four files keep: directories, tables,
  frames, the TLB's nodes, the swap files.  `shadow` is history: a memory per
  process, which is what the whole is to look like.
* *Vector.*  `v.array` holds addresses, `v.mem` the live copies; `ideal` is the
  list it stands for.
* *Minixfs.*  `fs` is the image: inodes, the data map, and each block as bytes,
  as directory units or as numbers.  `named` and `content` are history: what
  POSIX would have.
* *Fakefs.*  `fdMap` and `dirs` are the shim's two maps, `file` its records,
  `kernel` the real descriptors.  `ideal` and `desc` are history: the descriptors
  as POSIX has them.
* *Dd.*  `inPos`, `outPos` and `eof` belong to the streams, `counts` are the
  five statics, `flag` is what the handler sets.  fread and fwrite return counts of
  their own; `errors` is how often either has failed.


## 3. Conventions

**Atomic steps.**  What runs under a mutex, up to its release or to
pthread_cond_wait, is one step.  What runs outside is cut at every access to
shared state (`barrier.c`'s times_used, `queue.c`'s node, `libdrm.c`'s pm,
`server.c`'s close, `thread_status.c`'s entries, `cracker2.c`'s fail).  A program
of one thread is cut at its events (epoll) or its interrupts (alarms, signals).
A library without threads has one step per call (`Malloc`, `Vector`,
`MiniMemcheck`, `VirtualMemory`, `Minixfs`, `Fakefs`).

**Sleepers.**  pthread_cond_wait may return spuriously in `Semamore`,
`BlockingQueue` and `Barrier`: in the first two nothing depends on it, the wait
being in a loop; `Barrier` records it (`woken`), because barrier.c does not
re-test.  barrier.h:24 promises a barrier that behaves "near exactly like
pthread_barrier's", which are immune to them; the properties are therefore split
into what holds up to the first spurious wake-up and what holds always.

**Where the code stops being defined.**  Some legal sequences of calls lead the
code to freed memory, through a null pointer or out of an array.  A variable
records it (`lost` in `ThreadStatus`, `mm.lost` in `VirtualMemory`, `fate` in
`MiniMemcheck`, `Shell`, `Fakefs` and `Gthreads`, `died` in `Minixfs`), the places
where it happens are named in the action, and the properties say what holds up to
there.  Section 6 lists them.

**Fairness.**

* *Semamore, BlockingQueue, Barrier:* weak fairness of each thread's step in
  a call: a thread that contends for a mutex gets it at last.  No fairness of
  making a call.
* *LibDrm:* strong fairness of taking pm and of posting: a lock that keeps
  becoming free is not denied for ever, and holders post what they hold.  The
  second is an assumption about the program that uses the library.
* *Parmake:* weak fairness of the main thread and of each worker; the cv wait is
  the guard of the main thread's step, which is the only waiter.
* *ChatServer:* weak fairness of the threads, strong where they take the mutex.
  Only the violation run uses it: the server blocks although it is treated
  fairly.
* *NonstopServer:* weak fairness for each descriptor (epoll_wait reports every
  ready one) and for each connected client to go on or exit.  None for
  connecting, and none for SIGINT.
* *Gthreads:* weak fairness of the running thread.  None for alarms in the main
  thread.
* *The crackers, MapReduce, ParReduce, Dd, Lookup:* these read an input that ends; weak
  fairness of the program as a whole.  No thread in them can take steps for ever
  while another waits, so more is not needed.
* *ChatClient:* weak fairness of the main thread, its handler included, and of
  a thread that has been cancelled: nothing holds up either.  None for the
  user, the network and the server.

**Assumptions** a reader should know, by module:

* *BlockingQueue:* a max_size that is not positive means no bound; then only the
  number of node addresses bounds the model.  queue_destroy is called when
  nobody is inside a call.
* *LibDrm:* a thread passes its own id, and destroys a drm nobody uses.
* *Parmake:* a rule's commands create or touch its own target only, and the
  clock ticks between two of them (st_mtime has whole seconds: commands within
  one second are not told apart by the code, and are left out).
* *MakefileParser:* words are whole.  A line is a rule, a recipe, blank, or bad,
  which ends the parser.
* *ChatServer:* a message is sent and received in one piece (the helpers in
  utils.c retry); writes never block; SIGINT reaches the main thread; SIGPIPE
  kills.
* *ChatClient:* cancellation is deferred, as it is by default; SIGINT is handled
  in the main thread, once.
* *NonstopServer:* a header arrives in one piece and names are shorter than
  FILENAME_SIZE; different contents have different sizes; clients act while the
  server runs; the directory is not empty when `remove(dir_name)` is called, so
  that this fails; descriptor numbers and the leak of overwrite_f are left out.
  A size that a client never sent is an uninitialised variable in read_body: any
  outcome is possible.
* *Gthreads:* a quantum is much longer than gtyield; quanta are a fraction of a second
  (comparers that assign a difference of times to an int cut it to seconds,
  which is modelled); the main thread creates all jobs, fewer than MAX_JOBS.  What an
  alarm would do within malloc and free, which both sides of priqueue_offer call, is
  left out.
* *Crackers:* crypt is one to one, so that a hash is the password it hides.
* *ThreadStatus:* the plain build, in which LOCK_IF_SANITIZED is empty.
* *MapReduce:* the mapper makes one pair of a line and the reducer counts; no
  fork fails, an exec or a splitter may, before it writes.
* *ParReduce:* the reducer is associative and has an identity.
* *Shell:* a command is one word; what a child does before execvp, redirection
  included, succeeds or fails as a whole; process numbers are not reused.
* *Malloc:* nobody else calls sbrk; sizes are far from 2^64; no double free.
* *MiniMemcheck:* the allocator below gives any free place, or none.  One
  thread: the list has no lock.
* *VirtualMemory:* an address counts for its page, a page for one value; an
  access does not cross a page.
* *Vector:* calls are legal by the assertions of vector.c.
* *Minixfs:* the image is one that mkfs makes or that such calls lead to.
* *Fakefs:* the program is one thread; reads and writes are of one byte; a file
  counts for its size.  open is called without O_APPEND and O_TRUNC, which the shim
  ignores (core.c:57-66): with them it would not do what POSIX says.
* *Dd:* a byte counts as written when fwrite has taken it.
* *Lookup:* the file holds a search tree, whose words are shorter than the 20
  bytes that lookup1 reads of one.


## 4. The runs

| run | question | bounds | why they are enough |
|---|---|---|---|
| `semamore` | Does one signal in wait and a broadcast in post strand anybody? Is it a semaphore? | 5 threads, value 1 of at most 2, endless calls | sleepers of both kinds and contenders of both kinds at the same time need four threads; a fifth acts |
| `queue` | Is it a FIFO, without a leak, a use after free, or a stranded caller? | 3 threads, 2 items, 4 node addresses, bound 1 and none | two pullers hold nodes while a third links; the list goes 0, 1, 2 and back; freed nodes are reused |
| `barrier` | Does anybody pass early, over several uses and with fast threads? | 3 threads, 3 uses | one thread may be a use ahead of another, and with two the third completes the count; a third use shows that the state is as at the start |
| `libdrm` | Can requests be admitted into a deadlock, or refused without one? | 3 threads, 2 drms, created, destroyed, posted wrongly | a cycle, a third thread that waits on it, and the lag of two threads at a time |
| `parmake` | Is every rule run at the right time, at most once, when it is out of date and only then? Does parmake return? | 2 workers; a phony diamond whose rules may all fail beside a goal above a cycle; the diamond as files over 81 disks; two goals that share a rule, and two that do not, over the same disks | diamond: the smallest graph in which a rule is reached twice; ages 0 (absent), 1, 2 show every comparison, and which files are missing; the second goal's walk begins while the first one's rules run |
| `parmake_lost` | violation, see 6 | testfile5 | |
| `chat_server` | Do slots, count and descriptors stay together? In what order do messages arrive, and does everybody get them? | 3 clients, 2 slots, a message each (symmetry in the clients; the properties are safety) | one client is refused or takes over a slot and a number; two senders and two receivers order two messages |
| `chat_server_full` | violation, see 6 | 1 slot | |
| `nonstop` | Do list, sizes and directory agree? Are answers true, and given? | 3 clients, every three requests about one file (one LIST, one empty PUT); failing headers and a file that cannot be opened | each pair of verbs interleaves, with a third request that sees the result |
| `nonstop_unlisted` | violation, see 6 | as above | |
| `gthreads_psrtf` | violation, see 6 | 3 jobs of one and of three seconds | |
| `libraries` | the programs that share nothing, below | | |

What `libraries` holds, about 743,000 states in all:

| program | question | bounds | why they are enough |
|---|---|---|---|
| malloc | Do the two lists describe the heap after every sequence of calls? | 3 blocks of sizes 1, 4, 7 (alignment 2, header 2), heap of 28 | both neighbours free, in-place growth, splits, a second sbrk and its failure all happen |
| mini memcheck | Is the ledger right after every sequence of calls, wrong frees included? | 5 calls, sizes 1 and 2 in a heap of 6 | the list has several blocks and loses any of them; addresses are reused and freed twice |
| green threads | Is a job ever lost, are jobs handed out in order, are the sums of waiting and turnaround times those of the finished, and do they all end? | up to 4 jobs of two lengths or priorities, six schemes, 2 interruptions of the main thread, in gtgo too | a job is suspended while another waits and a third is created; gtgo is interrupted between any two steps; under RR the fourth is linked in behind a later one |
| cracker 1 | Are the counts right, and does every search end that can? | 2 threads, 3 letters of an alphabet of 2, up to 2 lines | a password is in the space of its hint or not; the prefix is empty, `a...`, `z...`; two workers meet at the NULL |
| cracker 2 | Is what is printed of a line true of it? | 3 threads, 4 strings to try, up to 2 lines | the shares are uneven; a second line reuses what the first left |
| thread status | Is every thread shown as it is? | 3 threads, 2 calls each, an array of 2 | the array grows while others are inside calls |
| map reduce | Is what is reduced all of the input that was split and mapped, once? Does everything end? | 2 mappers, pipes of capacity 1, three inputs | a line that spans the split, an empty chunk, an empty input; a full pipe holds up its writer |
| parallel reduce | Is the result the sequential one? | lengths 1, 2, 3, 5, 7, 1 to 3 threads | no more elements than threads; remainders 0, 1 and 2 |
| virtual memory | Is a read what was last written there? | 2 processes, 2 pages each, 7 frames, a TLB of 2, 9 calls | directories, tables and pages of both do not fit the frames, and three pages not the TLB; nine calls are a write, its eviction by another process, and its return |
| vector | Is it the list it stands for, with no leak and no use after free? | up to 3 elements, capacity from 2 | the array grows; an element is given to the call that moves or frees it |
| minixfs | Are blocks owned once, names their files', reads what was written? | 4 inodes, 7 blocks of 2 bytes, 2 direct and 2 indirect, 6 spans, 4 calls, two images | spans within a block, across direct and indirect, whole blocks and parts, past the end; the disk runs out of blocks |
| shell | Is the list of processes true, and do the operators and, or and then hold? | 3 lines out of 16, one SIGINT | a background process is named by a later line, and SIGINT falls between any two steps of the second |
| fakefs | Is a descriptor what POSIX says of it? | 2 files, 3 descriptors, offsets to 2, 5 calls | a copy, both files open, and no descriptor left for the calls on paths |
| fakefs paths | Is a path the file its names lead to? | all paths of up to 8 characters out of `a`, `.` and `/` (also tried up to 10) | a name of two characters taken back with another after it |
| chat client | Is what a cancelled thread holds given back? Does an interrupt end it? | one interrupt, messages without end | every place a thread can be cancelled at, in both threads |
| makefile parser | Is the graph what the makefile says? | 5 lines of 7 kinds, 3 lists of goals | a target with two rules and recipes before, between and after |
| dd | Is the copy exact, and is the report true? | blocks of 2, inputs of 0 to 5 bytes, outputs of 0 and 3, counts 0 to 3, seeks, 2 signals | an input that ends within a block, at its end, and before the part asked for; a read or a write that fails after any number of bytes |
| lookup | Is what is printed of a word in the file? | the six words of sample.data, two requests of thirteen | each word, and a place before, between and behind any two |

Properties worth knowing:

* `Semamore!NoStrandedPoster` is the argument why single signals are enough:
  while a poster sleeps every free slot is owed to a poster that is awake and
  will broadcast.
* `BlockingQueue!NodesAreOwned`: the heap is exactly the list and the nodes in
  pullers' hands.
* `Barrier!EveryUseIsTallied`: increments of times_used do get lost (it may be
  below the number of calls), but not all of one use.
* `LibDrm!RefusalsAreNecessary`: although the graph lags, a request is refused
  only if granting it would deadlock there and then.
* `Parmake!DependenciesFirst`, `RunsAtMostOnce`, `OutcomesAgree` and the second
  half of `MadeWhenOutOfDate` hold of a `Regular` makefile.  No rule of it is below
  two goals (`GoalsAreApart`): visited is cleared between goals (parmake.c:187),
  and a phony rule below two goals is run for each.  And a target on the disk
  depends only on what is there too or is made (`FilesNeedFiles`): otherwise
  parmake.c:131 pushes the dependency, perhaps a second time, in the place of the
  rule.
* `BlockingQueue!ImplementsFIFO` and `Semamore!ImplementsSemaphore` are
  refinements with their fairness: a blocked call of the list is a blocked call
  of the sequence, and served when that is.
* `Gthreads!JobsAreInOnePlace` holds wherever an alarm strikes in gtgo, until one
  changes the list under priqueue_offer or a job without a context is switched to;
  the run has both, and nothing is claimed of what follows.
* `Gthreads!DispatchIsInOrder` excepts RR once a job was linked in behind a later one:
  for two jobs of one time comparer_rr answers 1 both ways (libscheduler.c:118-124), and
  priqueue_offer then takes neither place before the later one.  It needs gtgo to be
  interrupted between the time it takes and the linking.
* `ResultsAreExact` holds the scheduler's statistics too, but for the response time:
  the sums of waiting and turnaround times are those of the jobs that finished, and
  no job turned around in less than the clock shows of the quanta it ran for.  Of
  sum_resp_time it claims nothing, since it is no sum (section 6).
* `ResultsAreExact` of dd: what was read and not lost by a failed write is in the
  output, in order and in place; the tallies in are those of the reads, the tallies out
  those of the writes, and they agree when nothing failed.
* `Minixfs!ReadsSeeWrites` is about the accesses that the arithmetic of minixfs_write
  and minixfs_read serves (`Served`): those within a block, and those that begin with one,
  whatever they end with, from direct blocks into indirect ones included.
* `Vector!VectorIsItsList` has sstring_slice return NULL for start = end, as the code does
  and the header does not say (section 6).
* `ChatServer!DescriptorsAreOwned` excepts the moment between a thread's close()
  and its leaving the list (server.c:195): the number may by then be another
  client's, who then receives a broadcast twice.
* `NonstopServer!CatalogueAgrees` says what a refused PUT leaves intact: the
  list still names only files that exist, each once.  It does not keep the old
  contents, which were truncated when the file was opened.
* `Cracker2!SummaryIsTrue`: `fail` is read and written without a lock, and the
  summary is right all the same, hashes included, because the barrier lies
  between the last write and the print.
* `ThreadStatus!StatusIsItsOwn` holds until the array has to grow.  From there
  on a thread may write to freed memory; `lost` says so.
* `VirtualMemory!ReadsSeeWrites` compares what the TLB, the tables, the frames
  and the swap files make of a read with a memory per process.
* `Minixfs!NamesAreTheirs` and `BlocksAreOwned` hold although directory entries
  overwrite each other (section 6): files are lost, never confused.
* `Fakefs!DescriptorsStandForTheirFiles` is a refinement in the form of an
  invariant: the shim's maps beside the descriptors POSIX would have, up to the first
  departure that `fate` names, an lseek to a negative offset among them.
* `ChatClient!ThreadsGiveBack` also says that a message the server has begun to
  receive is never followed by another one's bytes.

Where a module has a type invariant that is not a property of a run of its own,
it is the first conjunct of one that is (`NodesAreOwned`, `DescriptorsAreOwned`,
`CatalogueAgrees`, `OutcomesAgree`), or it is proved (section 5).

Every property is violated when a plausible mistake is put into the code's
model; `PROJECT.json` lists one such mistake for each (`mutants`), kept beside
the definition it changes as `<definition>_<mistake>`.


## 5. What is proved

All proofs are of the specifications without fairness, for every value of the
constants allowed by the module's assumption.  Where a property holds under a
condition only (`Regular`, `~woken`, `~lost`), the condition is part of the property, which the runs check
as it is.

**Semamore** (`SemamoreAssumption`: finitely many threads, max > 0, init within
0..max).  `IInv` is the type invariant, that sleepers are in calls, and the two
properties of sleepers.  The hard step is semm_wait: it frees a slot and wakes
one thread.  If that is a poster, it joins the contenders that the free slots
are owed to; if it is a waiter, `NoStrandedWaiter` says that waiters sleep only
at value 0, so that the value before the step was positive only if no waiter
slept.  Hence a single signal never goes to the wrong kind.  `SpecTypeOK`,
`SpecNoStrandedWaiter` and `SpecNoStrandedPoster` follow, and from the type
invariant `SpecImplementsSafe`: every step is a step of `CountingSemaphore` or
leaves it unchanged.

**BlockingQueue** (`QueueAssumption`: finitely many threads; any addresses, items
and maximum).  The nodes are listed by a function from 1..size: `IsList` says that
it starts at the head, follows `next`, ends at the tail and repeats nothing.
`SameWalk` makes it the walk from the head, `Linked` its range.  `IInv` adds
`Hands`, that each thread that has pulled holds a node (`temp`) and nobody is
inside a queue that was destroyed, and `Owned`: held nodes are different, not
linked, and with the linked ones they are the heap.  A push lengthens the
function by a node that malloc took from outside the heap, a pull drops its first
(`PushLinksStep`, `PullUnlinksStep`), so that no step sees a freed node.
`SpecNodesAreOwned` follows, and `SpecNoStrandedCaller`, for which each change of
size wakes whom it could let go on.  `SpecImplementsSafe` maps the list to the
sequence of its data: every step is a step of `BlockingFIFO` or leaves it
unchanged, and a pull returns the item it took, although it reads the node
outside the mutex.  parmake and both crackers rest on this.

**Barrier** (`BarrierAssumption`: finitely many threads, at least one).  `BarrierInv`
adds where a thread is in its calls (`PlacesAgree`) to `SleepersAreCounted`: with
no spurious wake-up the count is the number of sleepers and each thread has
begun as many uses as there have been broadcasts, plus one if it sleeps.  The
thread that completes the count is then the only one awake that has not begun
the next use, so that resetting the count and waking everybody is right.
`SpecNobodyPassesEarly` and `SpecSleepersAreCounted` follow, for any number of
uses.  `SpecEveryUseIsTallied` needs `Tallied`: who has finished the latest use
adds one to a value no less than the number of uses before it, because the
broadcast of that use came after all had tallied the one before.

**LibDrm** (`DrmAssumption`).  `IInv` is the type invariant, `PlacesAgree` (who
records owns the lock), `GraphIsCurrent` and `NoDeadlock`.  `GraphIsCurrent` says
by how much the graph lags: an edge from a drm to its owner is missing exactly
while the owner is about to record it.  A deadlocked set is one whose threads
all wait, hence whose members have all recorded what they hold; its edges are all
in the graph, and the request that would complete the set closes a cycle through
the requester, which isCyclic finds.  `SpecNoDeadlock` and `SpecGraphIsCurrent`
are the theorems.  `SpecRefusalsAreNecessary` is the converse.  Every node of the
graph leads to one other at most, so that a search from the requester that comes
back to it never meets a node without a successor (`CircleHasNoEnd`).  A thread
about to record would be such a node; hence the threads on the circle all wait,
for drms that the next one holds, and would be deadlocked once the request is
granted.

**Parmake** (`ParmakeAssumption`: any rules, workers, goals, disks and any
graph).  What holds of every makefile is `IInv`: `Types`, the NULLs behind the
rules in the queue, a `Clock` ahead of every target, and `Reasons`, why a rule may
be queued.  What holds of a `Regular` one is `Sound`:

* `Walk`: a rule is on the stack once, and what has been entered and is off the
  stack has all it depends on entered too, so that a walk that is over has been
  through all that is below its goal.  For this `Descendants`, which is computed
  level by level, has to be the least set closed under dependencies: a level that
  still grows takes in one more of finitely many rules, so that the last level no
  longer does (`LastLevelIsClosed`).
* `Places`: a rule is not entered, or on the stack, queued, run by one worker, or
  decided, and in one of these only; this makes `runs` at most 1.
* `Outcomes`: what has been decided agrees with what was decided below it, times
  included.
* `AllLearnt`: what each frame of check_failed has found out in the loops it is
  through, and that it stays true while the workers go on.  A state once read as
  decided stays so (`DecidedIsSteady`), and a frame that found one undecided
  waits or hands the rule to the workers.

`SpecDependenciesFirst`, `SpecRunsAtMostOnce`, `SpecOutcomesAgree` and
`SpecMadeWhenOutOfDate` follow; the first half of the last needs no `Regular`.

**ChatServer** (`ChatAssumption`: finitely many clients, at least one slot, and a
`Nobody` that is neither a client nor a number of a slot or of the main thread).
There are three layers.  `Books` is about slots and descriptors: a slot is taken
while it has a thread, an open descriptor is of one connection, and a slot's
descriptor is its own; a client that is connecting finds a free number, since
otherwise as many clients as there are would be connected beside it.
`SpecCountIsListed` and `SpecDescriptorsAreOwned` follow.  `Letters` is about
messages: each is unread, with one thread, or in inboxes; the mutex lets one
thread broadcast; behind its message nothing has been written yet.  Hence no two
inboxes have two messages in opposite orders (`SpecOneOrder`).  `Reached` says
which slots a broadcast has come by, all of which have the message if they listen:
`SpecBroadcastReachesAll`.

**NonstopServer** (`NonstopAssumption`: any clients, names and requests).
`Catalogue` is what holds while a body is being read and between bodies: listed
names are listed once, exist and have a size, and a name with no refused body has
in the directory, in the list and in the table what was last accepted.  What
StartPut saw of the old file (`Overwrites`) is still true when the body ends,
because the server reads one body at a time and serves no DELETE meanwhile.
`SpecCatalogueAgrees` and `SpecGetsAreExact` follow.  `SpecPutAnswersAreTrue` needs
`Told`, which relates the server's state of a client to the client's own stage.

**The programs of `Libraries`** (`Libraries_proofs`; `Memory_proofs` for malloc, mini
memcheck and virtual memory).  A step of `Spec` is one of the program that was chosen,
and an inductive invariant is that program's.  One after the other:

* *Chat client* (no assumption; any number of messages): `TypeOK`, `PlacesHold`,
  which says for each place a thread can be at what it holds, and
  `OneAfterTheOther`.  `SpecThreadsGiveBack` follows.
* *Green threads* (`GthreadsAssumption`: any number of jobs, any lengths,
  priorities and quanta, all six schemes).  `Places` says that the jobs that gtgo has
  linked in are those in the queue, the running one and the suspended one, each once,
  and that a job is suspended only while main runs, so that gtyield's switch to main
  never overwrites one that still waits.  The job gtgo is about to link in is in none of
  them and, from one step to the other, without metadata or with it (`OnItsWay`,
  `Informed`); alarms come between these steps as they do elsewhere, and the claim ends
  with `fate` "torn" or "no context" only.  A switch is followed call by call through the
  library (offer, poll, quantum, dispatch); for this the queue's comparer may be
  anything.  `SpecJobsAreInOnePlace` follows.
  `SpecDispatchIsInOrder` says how the comparer matters.  `OrderInv` adds that the
  queue ascends by the scheme's key (`Sorted`: arrival, run time, priority, or the
  time of the last turn), unless `fate` says that a job was linked in late, and that no
  stamp lies ahead and later jobs arrive later (`Stamped`).  `OfferSorts` shows that
  priqueue_offer keeps a queue in order when the comparer agrees with the keys and
  either never puts each of two jobs behind the other or the new one belongs at the
  end.  The first holds of FCFS, SJF, PRI
  and PPRI (`CompareAgrees`: run times are whole seconds, which is what
  the comparer's unit tells apart).  RR's comparer answers 1 both ways for two jobs of
  one time; the second holds of a job that is requeued, and of a new one unless gtgo
  was interrupted so that a job of a later time waits by now: then the first holds, or
  it is linked in late (`GoesBehindALaterOne`).  Of PSRTF neither holds: its
  comparer's answer changes while jobs wait, and `gthreads_psrtf` shows it hand
  out a job too early.
* *Status display* (`StatusAssumption`: any number of threads, calls and entries).
  Threads are created in order, entries never move within the array, and an
  index that a thread has looked up is that of its own entry.
  `SpecStatusIsItsOwn` follows: as long as no entry is touched while the array
  moves, each thread has one entry, and it shows what the thread last said, or
  that it is blocked.
* *malloc* (`MallocAssumption`: any alignment, header, initial capacity with room
  for a header, sizes, and limit of the heap).  `MallocInv`: the blocks tile the
  heap up to the break, and the links in both directions go from each to its
  neighbour (`Tiled`); the free list is doubly linked, without repetition, and has
  just the free blocks (`Listed`); and the program holds the others, each at least
  as long as it asked for (`Holds`).  Within a call the marks in the headers and the
  free list disagree; so each helper (add to and remove from the free list,
  coalesce, split, first fit, append) has two lemmas, what it does to each header
  and that it keeps `Sound`, in which the blocks of the free list are a set of
  their own.  The heap is walked by the properties from header to header, which is
  related to `Tiled` by the least place at which the two would differ (`WalkIs`).
  `SpecBlocksAreAccounted` follows: blocks tile the heap, and what the program holds
  is neither lost, cut short nor overlapped.
* *mini memcheck* (`MemcheckAssumption`: any header, heap and sizes but 0).
  `MemcheckInv`: as long as `fate` is fine the list has the blocks that are out, once
  each (`Kept`), and what was requested less what was freed is the sum of their
  sizes.  A fold over a set is the same in every order; `SumsExist` and `SumAdds`,
  which say so for sums, rest on the finite set having a least subset that fails.  It
  is the other half of `SpecBlocksAreAccounted`.
* *Shell* (no assumption; any lines, any number of them, any interrupts).
  `ListInv`, as long as `fate` is fine: an entry of the list is the shell, the child
  that is being attended to, or a background child that has not been waited for and
  leads its group, and a child that runs or is stopped is listed from the end of
  the fork on; the entry of the child attended to may be without a pid or freed, at
  named places of exec_command only.  `OperatorsInv`: of the commands of a line that
  ran, all but the last let the next one run.  `SpecShellKeepsItsWord` follows.
* *Makefile parser* (`MakefileAssumption`: no word is empty, which strtok sees to,
  and a target begins with a letter, a digit, `.` or `/`, parser.c:81-83).
  `MakefileInv` is the property itself and, while the parser reads, what it knows
  of the text so far: the graph (`GraphHolds`), the last rule line and the first
  (`PlaceHolds`), and whether recipes have followed the last, on which it depends
  if the next one is added to its commands or begins them anew.
  `SpecParsedAsWritten` follows, for any lines and goals.
* *fakefs* (`FakefsAssumption`: at least one descriptor; any files).  `FakefsInv`,
  as long as `fate` is fine: fd_map leads to records that are live and the numbers
  it knows are taken (`ShimHolds`); a descriptor of the host's is not in it, one of
  a fake file leads to the path and the offset that POSIX gives it, which just its
  copies share (`PosixHolds`); and a directory stream has a descriptor of its own
  (`StreamsHold`).  Calls on a path are open and close with a call on a descriptor
  between them, and are proved so.  `SpecFakefsIsFaithful` follows.
* *Virtual memory* (`VMAssumption`: a table has room for two pages, some page
  touched has the highest address, NULL is neither an entry nor a directory; any
  processes, frames, segments and TLB).  `VMInv` says that there is a `W`, what
  stands on each page, such that every page is in the frame that its entry names,
  with that entry in entry_mapping, or on the disk under it, and the other frames
  are free or hold tables and directories, which are never evicted (`KernelHolds`);
  every process has a directory and a table of its own (`ProcsHold`); the TLB's
  nodes are of the process that ran last and name its entries (`TlbHolds`); and `W` is
  what the processes wrote (`Shadowed`).  The hard step is a page fault: the frame
  that is found may have been any other page's, of any process (`Given`), and a node
  of the TLB that names an entry stays right because the entry does not move.
  `SpecReadsSeeWrites` follows, up to the first NULL that is followed or page table
  that is replaced (`mm.lost`, section 6); the pages of a process are therefore the two
  that mmu_add_process gives it.

Where a fact needs an induction over a list, over levels of a graph or over a
count, it is an appeal to the least index at which the fact would fail
(`LeastNatural`, or well-foundedness of the naturals), since induction theorems
that take an operator cannot be used.

**Only model-checked:**

* liveness under fairness: `EverybodyPasses`, `ParmakeReturns`, the ends of the programs and of
  the jobs, that everyone is answered, and the fairness part of `ImplementsSemaphore`
  and `ImplementsFIFO`;
* `ResultsAreExact`, `CrackersTellTheTruth` (but for the status display) and
  `VectorIsItsList`: what map reduce, parallel reduce, dd, the crackers, the vector
  and the paths of fakefs make of their input is compared with a fold or a
  recursive definition over the whole input, which is induction over data;
* `FilesKeepTheirOwn`: minixfs writes a span block by block and finds a path name
  by name, with folds over both; the same holds;
* `ShortestRemainingFirst` and the other properties of the violation runs, which
  do not hold.


## 6. Where code and documentation disagree

Shown by a run:

* `parmake_lost`: a rule whose target exists and whose dependency, not a rule,
  does not, is never queued nor settled (parmake.c:131): the dependency is pushed
  in its place and parmake waits for ever.  testfile5 expects the rules above it
  to run.
* `chat_server_full`: the path that refuses a client too many leaves the mutex
  locked (server.c:135); the comment at server.c:64 says the server continues
  accepting.
* `nonstop_unlisted`: a refused PUT removes the directory instead of the file
  (server.c:258), which fails; what was written stays, the next PUT takes the
  file for an old one and does not list it, and a DELETE of it is answered "No
  such file" although it removes it.
* `gthreads_psrtf`: comparer_psrtf has a sign wrong (libscheduler.c:112) and adds
  the time the second job has run for.

Seen while modelling, with no run of their own.  In the models they are either
there, as the places where a `fate` or `lost` changes, or left out by an
assumption of section 3.

*Threads and scheduling*

* barrier.c's wait is not in a loop: a spurious wake-up passes the barrier early, which
  pthread_barrier_wait (barrier.h:24) does not.
* drm_post returns 1 also when the thread does not hold the drm (libdrm.h:28
  promises 0); drm_destroy changes the graph without its mutex (libdrm.c:97).
* st_mtime is compared in whole seconds (parmake.c:146).
* the average response time is the last job's divided by the number of jobs:
  libscheduler.c:208 assigns sum_resp_time where 206 and 207 add, against
  libscheduler.h:214 and scheduler_test.c:384-388.  In the model, too, the field is the
  last job's, and no property claims more of it.
* currtime divides the nanoseconds by 1e10 instead of 1e9 (gthreads.c:48), so that times
  within a second are a tenth of what they are; comparers and averages work on them.
* comparer_rr answers 1 both ways for two jobs of one time (libscheduler.c:118-124): a
  job that is offered late goes behind jobs of later times (`fate` "late").
* an alarm in gtgo, between the job's registration and its context
  (gthreads.c:274-285), may switch to a job without a stack; one in priqueue_offer that
  changes the list leaves main with a freed entry, or loses the new one (gthreads.c:274,
  libpriqueue.c:33-50, 59-66; `fate` "torn"); stacks[] is read
  after jobcount is incremented (gthreads.c:276): entry 0 is never used and the
  hundredth job reads past the end.
* cracker 1 does not end on a prefix of z's (cracker1.c:55); cracker 2 may free a
  password twice (cracker2.c:173).
* the status array moves while threads use their entries outside the mutex
  (thread_status.c:210).

*Servers and clients*

* GET of a file whose first PUT was refused dereferences a missing size and ends
  the nonstop server (server.c:174).
* a chat client that stops reading blocks its writer inside the mutex
  (server.c:157); a write to one that is gone raises SIGPIPE (utils.c:62).
* an interrupt before the chat client's threads exist cancels thread 0, and after
  their end a joined one; a writer whose write fails leaks its buffer.

*Memory and files*

* free(NULL) in alloc.c is a crash; its comment (alloc.c:147) says no action.
* mini_realloc looks for the block sizeof(meta_data) headers before the payload
  instead of one (mini_memcheck.c:65), so that it finds another or runs off the
  list; it frees a block that realloc has moved.  The list has no lock.
* a write that misses the TLB on a page that is not in memory puts a fresh frame
  in the place of its page table, whose other pages are lost (mmu.c:134).
  remove_swap_file misses the suffix of the files swap_to_disk makes.
* minixfs_virtual_read returns 0 for the last piece and a huge count past the end
  (minixfs.c:129).  minixfs_write reckons the number of blocks it needs with `a + b > 0 ? 1
  : 0`, which is 1 whatever is written (minixfs.c:156), so that a file gets its first
  block and no more; a write to others goes by the number -1, or through an
  indirect block that is not there.  And the length of the last piece of an access over
  several blocks is reckoned from off + count less what went into the first block
  (minixfs.c:200, 220, 256), where count less that is meant: an access over several blocks
  that does not begin with one is not served (`Served`).  A directory grows by less than
  an entry, so that entries overwrite each other's tails.
* fakefs: dup2 returns 1 instead of the descriptor; a dup'd record is freed by the
  first close, because nobody raises refcount; close keeps the real descriptor
  open; lseek stores and returns a negative offset, where POSIX has EINVAL and keeps the
  old one (core.c:124-140); open ignores O_APPEND and O_TRUNC (core.c:57-66); once
  descriptors have run out, open files its record under -1; chmod goes
  on with -1; dup does not enter descriptor 0.  `aa/../a/` keeps a second slash at
  the end, which the lookup does not mind.

*Others*

* the shell puts a child in its group only after exec may have begun
  (shell.c:157), and the handler may see an entry that is not filled in.
* mapreduce does not look at a splitter's exit status (mapreduce.c:87-90), although the
  comment at mapreduce.c:84 would have every child's printed: when one fails
  (splitter.c:40-58, 88-96) its part of the input is missing and nothing is said.
* sstring_slice returns NULL for start = end (sstring.c:100), which sstring.h:96-98
  allows and which would be an empty string.
* dd looks at neither ferror nor a short fwrite (dd.c:133-144): what a write loses is
  lost, and without -c an input that can never be read is tried for ever (dd.c:125).  A
  SIGUSR1 between the report and the reset of its flag is forgotten; `-c 0`
  copies everything; total_bytes is an int.


## 7. What is not modelled, and why

* *Rendezvous:* rendezvous.c is the exercise, in which nothing is synchronised;
  rendezvous_sol.c does not compile.  There is no program that keeps the promise.
* *Text:* how a makefile's line is cut into words, option parsing, formatting,
  logs, the chat client's windows.  The products are constants.
* *minixfs:* attributes (chmod, chown, stat) and the virtual directory.
* *fakefs:* how a path inside the image is told from one outside, access, mkdir,
  readdir, and the calls that only say they are not implemented.
* *Small utilities* but `lookup` (`env`, `time`, `pointers`): a single pass over the
  input each, nothing another step could disturb.  `camelCaser.c` does not compile:
  stray keystrokes are in the middle of a condition (camelCaser.c:93).
* Destruction of mutexes and condition variables; drm_destroy concurrent with
  other calls, whose effect depends on a graph library that is not in the
  repository; blocking writes in the chat server.
* The contents of malloc's blocks, the stacks of green threads.
* `CS_357`, `CS_374`, `CS_440`, `MATH_482`, `Interview`: scripts of straight-line
  arithmetic, stubs and notes.

How much that is: of the C files of the components, `map` covers 57% of the
lines; most of the rest are includes, comments, parsing and printing.  Of all
the files of the repository it covers about a fifth: the largest others are
headers of the course's containers with no code of the repository behind them,
tables of digits, tests and homework, which hold nothing that moves from one
state to another.


## 8. Plan

Done, in this order, the most concurrent first: condition variables, semamore,
blocking queue, barrier, libdrm, parmake, chat server, nonstop server, malloc,
green threads; then the crackers with their status display, map reduce, parallel
reduce, virtual memory, vector, mini memcheck, minixfs, shell, fakefs, the chat
client, the makefile parser, dd and lookup.

Proved, in this order: the semaphore, the barrier, the mutexes, the blocking
queue, the nonstop server, the chat server, parmake, the chat client, the green
threads, the status display, malloc, mini memcheck, the shell, the makefile
parser, fakefs, virtual memory.

What is left, in this order:

1. `Cracker1!CountsAreRight`, its part about tasks: the NULL is in the queue or in
   a worker's hand, and so is every task that has not been counted.
2. `Vector!VectorIsItsList`, with the splitting of a string left out.
3. `Minixfs!BlocksAreOwned`: a block that is marked in the data map is in one inode
   or in one block of numbers.

Modelling that would still say something: the virtual directory and the
attributes of minixfs.
