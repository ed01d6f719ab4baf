----------------------------- MODULE MapReduce -------------------------------
(***************************************************************************)
(* mapreduce/: mapreduce.c starts a splitter and a mapper for every chunk  *)
(* of the input and one reducer, joined by pipes, and waits for them.  A   *)
(* process reads to the end of its pipe, which comes when no process holds *)
(* the other end open any more, and a fork inherits whatever the parent    *)
(* holds at the time.                                                      *)
(*                                                                         *)
(* A line counts for its length, by which the input is split, and its key; *)
(* a mapper makes one pair of each line, the reducer counts them by key.   *)
(***************************************************************************)
EXTENDS Integers, Sequences, FiniteSetsExt, Functions

CONSTANTS NMappers,
          Inputs,        \* the inputs: sequences of [length, key]
          PipeCapacity,  \* how many lines or pairs a pipe holds
          Null

Mappers == 1..NMappers
Out == NMappers + 1      \* the pipe to the reducer
Pipes == 1..Out
Parent == <<"parent", 0>>
Splitter(i) == <<"splitter", i>>
Mapper(i) == <<"mapper", i>>
Reducer == <<"reducer", 0>>
Children == [i \in Mappers |-> Splitter(i)] \o [i \in Mappers |-> Mapper(i)] \o <<Reducer>>

VARIABLES input,
          fds,      \* fds[p]: the pipe ends p holds open
          status,   \* status[p]: "none", "running", "ended", "failed"
          forked, waited,  \* how many of Children
          printed,  \* the children whose exit status was printed
          pipe,
          left,     \* left[i]: what splitter i has still to write
          line,     \* line[i]: what mapper i is working on
          store     \* the reducer's datastore: how often each key has come
vars == <<input, fds, status, forked, waited, printed, pipe, left, line, store>>

-----------------------------------------------------------------------------
(* splitter.c *)

Length(file) == SumFunction([n \in DOMAIN file |-> file[n].length])
EndOf(file, k) == Length(SubSeq(file, 1, k))

\* the first line beginning after offset
NextLine(file, offset) ==
    Min(({EndOf(file, k) : k \in 0..Len(file)} \cap (offset + 1..Length(file))) \cup {Length(file)})

\* write_portion, idx counted from 1
Portion(file, idx) ==
    LET offset(n) == (Length(file) * n) \div NMappers
        start == IF idx = 1 THEN 0 ELSE NextLine(file, offset(idx - 1))
        end == IF idx = NMappers THEN Length(file) ELSE NextLine(file, offset(idx))
        within == {k \in DOMAIN file : EndOf(file, k - 1) >= start /\ EndOf(file, k) <= end}
    IN  IF within = {} THEN <<>> ELSE SubSeq(file, Min(within), Max(within))

-----------------------------------------------------------------------------
(* mapreduce.c *)

Init ==
    /\ input \in Inputs
    /\ fds = [p \in {Parent} \cup Range(Children) |-> IF p = Parent THEN {"r", "w"} \X Pipes ELSE {}]
    /\ status = [p \in Range(Children) |-> "none"]
    /\ forked = 0 /\ waited = 0 /\ printed = {}
    /\ pipe = [x \in Pipes |-> <<>>]
    /\ left = [i \in Mappers |-> Portion(input, i)]
    /\ line = [i \in Mappers |-> Null]
    /\ store = <<>>

\* the ends the parent closes before it forks p, and those p closes itself
ClosedBefore(p) ==
    CASE p[1] = "splitter" -> {}
      [] p[1] = "mapper" -> {<<"w", p[2]>>}
      [] p[1] = "reducer" -> {<<"w", Out>>}
ClosedIn(p) ==
    CASE p[1] = "splitter" -> {<<"r", p[2]>>}
      [] p[1] = "mapper" -> {<<"r", Out>>}
      [] p[1] = "reducer" -> {}

\* a splitter fails on a file it cannot open or a count it does not take, before it
\* writes; the executables of the mappers and of the reducer come from the command line
Fork ==
    LET p == Children[forked + 1]
        open == fds[Parent] \ ClosedBefore(p)
    IN  /\ forked < Len(Children)
        /\ forked' = forked + 1
        /\ \E ok \in BOOLEAN :
              /\ status' = [status EXCEPT ![p] = IF ok THEN "running" ELSE "failed"]
              /\ fds' = [fds EXCEPT ![Parent] = open, ![p] = IF ok THEN open \ ClosedIn(p) ELSE {}]
        /\ UNCHANGED <<input, waited, printed, pipe, left, line, store>>

\* waitpid, in the order of the forks; a splitter's status is not looked at
Wait ==
    LET p == Children[waited + 1]
    IN  /\ forked = Len(Children) /\ waited < forked
        /\ status[p] \in {"ended", "failed"}
        /\ waited' = waited + 1
        /\ printed' = IF status[p] = "failed" /\ p[1] # "splitter" THEN printed \cup {p} ELSE printed
        /\ UNCHANGED <<input, fds, status, forked, pipe, left, line, store>>

-----------------------------------------------------------------------------
(* The children.  The parent keeps every read end, so no write is refused. *)

Ends(p) ==
    /\ status[p] = "running"
    /\ status' = [status EXCEPT ![p] = "ended"]
    /\ fds' = [fds EXCEPT ![p] = {}]
    /\ UNCHANGED <<input, forked, waited, printed, pipe, left, line, store>>

HasRoom(x) == Len(pipe[x]) < PipeCapacity
AtEnd(x) == pipe[x] = <<>> /\ \A p \in DOMAIN fds : <<"w", x>> \notin fds[p]

SplitterWrites(i) ==
    /\ status[Splitter(i)] = "running" /\ left[i] # <<>> /\ HasRoom(i)
    /\ pipe' = [pipe EXCEPT ![i] = Append(@, Head(left[i]))]
    /\ left' = [left EXCEPT ![i] = Tail(@)]
    /\ UNCHANGED <<input, fds, status, forked, waited, printed, line, store>>

SplitterEnds(i) == left[i] = <<>> /\ Ends(Splitter(i))

MapperReads(i) ==
    /\ status[Mapper(i)] = "running" /\ line[i] = Null /\ pipe[i] # <<>>
    /\ line' = [line EXCEPT ![i] = Head(pipe[i])]
    /\ pipe' = [pipe EXCEPT ![i] = Tail(@)]
    /\ UNCHANGED <<input, fds, status, forked, waited, printed, left, store>>

MapperWrites(i) ==
    /\ status[Mapper(i)] = "running" /\ line[i] # Null /\ HasRoom(Out)
    /\ pipe' = [pipe EXCEPT ![Out] = Append(@, line[i].key)]
    /\ line' = [line EXCEPT ![i] = Null]
    /\ UNCHANGED <<input, fds, status, forked, waited, printed, left, store>>

MapperEnds(i) == line[i] = Null /\ AtEnd(i) /\ Ends(Mapper(i))

\* core/libds.c; a put does not replace, an update does not add
DatastorePut(ds, key, value) ==
    IF key \in DOMAIN ds THEN ds ELSE [k \in DOMAIN ds \cup {key} |-> IF k = key THEN value ELSE ds[k]]
DatastoreGet(ds, key) == IF key \in DOMAIN ds THEN ds[key] ELSE Null
DatastoreUpdate(ds, key, value) == [k \in DOMAIN ds |-> IF k = key THEN value ELSE ds[k]]

ReducerReads ==
    /\ status[Reducer] = "running" /\ pipe[Out] # <<>>
    /\ LET key == Head(pipe[Out])
           currVal == DatastoreGet(store, key)
       IN  store' = IF currVal = Null THEN DatastorePut(store, key, 1)
                    ELSE DatastoreUpdate(store, key, currVal + 1)
    /\ pipe' = [pipe EXCEPT ![Out] = Tail(@)]
    /\ UNCHANGED <<input, fds, status, forked, waited, printed, left, line>>

ReducerEnds == AtEnd(Out) /\ Ends(Reducer)

Next ==
    \/ Fork \/ Wait \/ ReducerReads \/ ReducerEnds
    \/ \E i \in Mappers : \/ SplitterWrites(i) \/ SplitterEnds(i)
                          \/ MapperReads(i) \/ MapperWrites(i) \/ MapperEnds(i)
Spec == Init /\ [][Next]_vars /\ WF_vars(Next)

-----------------------------------------------------------------------------
(* Properties. *)

Finished == waited = Len(Children)
Failed(p) == status[p] = "failed"

Keys == {ln.key : ln \in Range(input)}
Counted(key) == IF key \in DOMAIN store THEN store[key] ELSE 0
Lines(i, key) == Cardinality({k \in DOMAIN Portion(input, i) : Portion(input, i)[k].key = key})

\* When mapreduce ends, every line whose splitter and mapper ran has been counted, once,
\* and with all of them that is every line of the input, whatever the order of the
\* processes; and the mappers and the reducer that failed, no others, have been printed
\* (mapreduce.c:42-100, splitter.c:36-58, 101-152).  The comment at mapreduce.c:84 would
\* have every child's exit code printed: a splitter's is not looked at (lines 87-90), so
\* that a part of the input can be missing and nothing said.
ReductionIsExact ==
    Finished =>
        /\ printed = {p \in DOMAIN status : Failed(p) /\ p[1] # "splitter"}
        /\ ~Failed(Reducer) => \A key \in Keys :
              /\ Counted(key) = MapThenSumSet(LAMBDA i : Lines(i, key),
                                            {i \in Mappers : ~Failed(Splitter(i)) /\ ~Failed(Mapper(i))})
              /\ (\A p \in DOMAIN status : ~Failed(p)) =>
                    Counted(key) = Cardinality({k \in DOMAIN input : input[k].key = key})

\* mapreduce ends, unless a child failed whose input does not fit in its pipe:
\* the parent holds the read end, so the writer waits for ever (mapreduce.c:60-98).
Ended ==
    \/ Finished
    \/ \E i \in Mappers : Failed(Mapper(i)) /\ Len(Portion(input, i)) > PipeCapacity
    \/ Failed(Reducer) /\ Len(input) > PipeCapacity
==============================================================================
