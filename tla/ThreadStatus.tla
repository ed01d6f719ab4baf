---------------------------- MODULE ThreadStatus -----------------------------
(***************************************************************************)
(* password_cracker/libs/thread_status.c: what each thread is doing, in an *)
(* array that grows.  The mutex guards looking a thread up; the entries    *)
(* are read and written outside it (LOCK_IF_SANITIZED is empty in a plain  *)
(* build).  An access in flight while the array moves goes to freed        *)
(* memory: `lost`, after which nothing is promised.                        *)
(***************************************************************************)
EXTENDS Integers, Sequences

CONSTANTS NThreads,       \* thread 0 is the main thread, which creates the others
          InitArraySize, MaxCalls

VARIABLES array, cap,     \* status_array[0..thread_count - 1]; its index 0 is at 1
          thread,         \* pc, index, saved entry, own status, calls left
          created, lost
vars == <<array, cap, thread, created, lost>>

Threads == 0..NThreads - 1
Entry(t) == [id |-> t, status |-> "(none)"]

Init ==
    /\ array = <<>> /\ cap = InitArraySize
    /\ thread = [t \in Threads |-> [pc |-> IF t = 0 THEN "run" ELSE "absent", idx |-> 0,
                                    saved |-> Entry(t), status |-> "(none)", calls |-> MaxCalls]]
    /\ created = 0 /\ lost = FALSE

InFlight(t) == thread[t].pc \in {"save", "restore", "set"}

InitThreadArray == IF array = <<>> THEN <<Entry(0)>> ELSE array

IndexOf(arr, t) == {k \in DOMAIN arr : arr[k].id = t}

\* the array after findThreadId(t)
FindThreadId(t) ==
    IF IndexOf(InitThreadArray, t) # {} THEN InitThreadArray ELSE Append(InitThreadArray, Entry(t))

\* addThread doubles the array when it is full, and realloc moves it
AddThread(t) ==
    LET moves == Len(FindThreadId(t)) > cap
    IN  /\ array' = FindThreadId(t)
        /\ cap' = IF moves THEN 2 * cap ELSE cap
        /\ lost' = (lost \/ (moves /\ \E u \in Threads \ {t} : InFlight(u)))

IdxIn(arr, t) == CHOOSE k \in IndexOf(arr, t) : \A i \in IndexOf(arr, t) : k <= i

\* ts_pthread_create by the main thread: the child runs before it is looked up,
\* and may look itself up first
CreateThread ==
    /\ thread[0].pc = "run" /\ created < NThreads - 1
    /\ created' = created + 1
    /\ thread' = [thread EXCEPT ![created'].pc = "run", ![0].pc = "created"]
    /\ array' = InitThreadArray
    /\ UNCHANGED <<cap, lost>>

RegisterChild ==
    /\ thread[0].pc = "created"
    /\ AddThread(created)
    /\ thread' = [thread EXCEPT ![0].pc = "run"]
    /\ UNCHANGED created

\* a call of a wrapper, or of threadStatusSet: it looks the thread up and is
\* then about to touch its entry
Enter(t) ==
    /\ thread[t].pc = "run" /\ thread[t].calls > 0
    /\ AddThread(t)
    /\ \E pc \in {"save", "set"} :
          thread' = [thread EXCEPT ![t].pc = pc, ![t].idx = IdxIn(array', t), ![t].calls = @ - 1]
    /\ UNCHANGED created

Set(t) ==
    /\ thread[t].pc = "set"
    /\ array' = [array EXCEPT ![thread[t].idx] = [id |-> t, status |-> "working"]]
    /\ thread' = [thread EXCEPT ![t].status = "working", ![t].pc = "run"]
    /\ UNCHANGED <<cap, created, lost>>

SaveStatus(t) ==
    /\ thread[t].pc = "save"
    /\ array' = [array EXCEPT ![thread[t].idx].status = "blocked"]
    /\ thread' = [thread EXCEPT ![t].saved = array[thread[t].idx], ![t].pc = "blocked"]
    /\ UNCHANGED <<cap, created, lost>>

\* the call that was wrapped returns
Unblocked(t) ==
    /\ thread[t].pc = "blocked"
    /\ thread' = [thread EXCEPT ![t].pc = "restore"]
    /\ UNCHANGED <<array, cap, created, lost>>

RestoreStatus(t) ==
    /\ thread[t].pc = "restore"
    /\ array' = [array EXCEPT ![thread[t].idx] = thread[t].saved]
    /\ thread' = [thread EXCEPT ![t].pc = "run"]
    /\ UNCHANGED <<cap, created, lost>>

Wrapper(t) == SaveStatus(t) \/ Unblocked(t) \/ RestoreStatus(t)

Next ==
    /\ ~lost
    /\ CreateThread \/ RegisterChild \/ \E t \in Threads : Enter(t) \/ Set(t) \/ Wrapper(t)
Spec == Init /\ [][Next]_vars

-----------------------------------------------------------------------------
(* Properties. *)

\* Outside its blocking calls a thread is shown doing what it last said it does,
\* inside one it is shown blocked, and it has one entry, whoever looked it up
\* first; nothing is lost before the array has to grow (thread_status.c:154-274).
StatusIsItsOwn ==
    /\ lost => Len(array) > InitArraySize
    /\ ~lost => \A t \in Threads :
          /\ \A k, m \in IndexOf(array, t) : k = m
          /\ \A k \in IndexOf(array, t) :
                array[k].status = IF thread[t].pc \in {"blocked", "restore"} THEN "blocked"
                                  ELSE thread[t].status

\* What is behind it: entries never move, a thread that touches one knows its place,
\* one without an entry has not said anything yet, and threads are created in order.
TypeOK ==
    /\ array \in Seq([id : Threads, status : {"(none)", "working", "blocked"}])
    /\ thread \in [Threads -> [pc : {"absent", "run", "created", "save", "set", "blocked", "restore"},
                              idx : Nat, saved : [id : Threads, status : {"(none)", "working"}],
                              status : {"(none)", "working"}, calls : Int]]
    /\ cap \in Nat /\ created \in Threads
EntriesAreKnown ==
    /\ cap >= InitArraySize /\ (lost => Len(array) > InitArraySize)
    /\ \A k, m \in DOMAIN array : array[k].id = array[m].id => k = m
    /\ \A t \in Threads : t > created => thread[t].pc = "absent"
    /\ \A t \in Threads :
          LET w == thread[t]
              inside == w.pc \in {"blocked", "restore"}
          IN  /\ inside \/ w.pc \in {"save", "set"} => w.idx \in IndexOf(array, t)
              /\ inside => w.saved = [id |-> t, status |-> w.status]
              /\ IndexOf(array, t) = {} => w.status = "(none)"
              /\ \A k \in IndexOf(array, t) : array[k].status = IF inside THEN "blocked" ELSE w.status
==============================================================================
