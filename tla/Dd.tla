--------------------------------- MODULE Dd ----------------------------------
(***************************************************************************)
(* deepfried_dd/dd.c: copies blocks from the input to the output and, at   *)
(* SIGUSR1, reports what it has copied before the next block.              *)
(*                                                                         *)
(* The handler may run between any two steps.  A read or a write may fail  *)
(* half-way, which dd does not look at: it counts what it was told and     *)
(* goes on.  Times are left out, and so is what the C library buffers: a   *)
(* byte counts as written when fwrite has taken it.                        *)
(***************************************************************************)
EXTENDS Integers, Sequences, FiniteSets, FiniteSetsExt

CONSTANTS Calls,      \* arguments, and the files: see below
          MaxSignals, MaxErrors  \* bounds; without -c, dd would try for ever to read a
                                 \* file that it cannot

\* block, count, skip, seek: -b, -c, -p and -k; seekable: whether fseek works on the
\* two; input and old: what is in the two files

Hole == 0   \* the byte of a gap

VARIABLES call,
          inPos, outPos, eof,   \* of the two streams
          output, i,
          counts,               \* full and partial, in and out, and total_bytes
          flag,                 \* print_status_report_flag
          pc,
          report,               \* history: the last status report
          signals,
          errors                \* history: how many reads and writes have failed
vars == <<call, inPos, outPos, eof, output, i, counts, flag, pc, report, signals, errors>>

Zero == [fullIn |-> 0, partialIn |-> 0, fullOut |-> 0, partialOut |-> 0, total |-> 0]
Sought(blocks) == IF call.seekable THEN blocks * call.block ELSE 0

Init ==
    /\ call \in Calls
    /\ inPos = Sought(call.skip) /\ outPos = Sought(call.seek) /\ eof = FALSE
    /\ output = call.old /\ i = 0 /\ counts = Zero
    /\ flag = FALSE /\ pc = "loop" /\ report = Zero /\ signals = 0
    /\ errors = [read |-> 0, write |-> 0]

\* -c 0 is no -c
More == IF call.count # 0 THEN i < call.count ELSE ~eof
Turn ==
    /\ pc = "loop" /\ More /\ pc' = IF flag THEN "report" ELSE "copy"
    /\ UNCHANGED <<inPos, outPos, eof, output, i, counts, flag, report, errors>>

\* a signal that comes in between is forgotten
PrintStatusReport ==
    /\ pc = "report" /\ pc' = "clear" /\ report' = counts
    /\ UNCHANGED <<inPos, outPos, eof, output, i, counts, flag, errors>>
ClearFlag ==
    /\ pc = "clear" /\ pc' = "copy" /\ flag' = FALSE
    /\ UNCHANGED <<inPos, outPos, eof, output, i, counts, report, errors>>

\* a block, or what is left
Fread == LET left == Max({0, Len(call.input) - inPos}) IN SubSeq(call.input, inPos + 1, inPos + Min({call.block, left}))

\* what is beyond the end of the output up to where it is written is a hole
Written(bytes) ==
    IF bytes = <<>> THEN output
    ELSE [x \in 1..Max({Len(output), outPos + Len(bytes)}) |->
            IF x \in outPos + 1..outPos + Len(bytes) THEN bytes[x - outPos]
            ELSE IF x <= Len(output) THEN output[x] ELSE Hole]

\* of the bytes read and written
Tally(bytesread, byteswrite) ==
    LET Full(n) == IF n = call.block THEN 1 ELSE 0
        Partial(n) == IF n \notin {0, call.block} THEN 1 ELSE 0
    IN  [fullIn |-> counts.fullIn + Full(bytesread), partialIn |-> counts.partialIn + Partial(bytesread),
         fullOut |-> counts.fullOut + Full(byteswrite), partialOut |-> counts.partialOut + Partial(byteswrite),
         total |-> counts.total + byteswrite]

\* a read that fails has read less than a block, and is no end of file; a write that
\* fails has written less than it was given, and the rest is lost
CopyBlock ==
    /\ pc = "copy" /\ pc' = "loop"
    /\ \E bytesread \in 0..Len(Fread) : \E byteswrite \in 0..bytesread : \E readFails \in BOOLEAN :
          /\ IF readFails THEN bytesread < call.block ELSE bytesread = Len(Fread)
          /\ errors' = [read |-> errors.read + (IF readFails THEN 1 ELSE 0),
                        write |-> errors.write + (IF byteswrite < bytesread THEN 1 ELSE 0)]
          /\ errors'.read + errors'.write <= MaxErrors
          /\ output' = Written(SubSeq(Fread, 1, byteswrite)) /\ counts' = Tally(bytesread, byteswrite)
          /\ inPos' = inPos + bytesread /\ outPos' = outPos + byteswrite
          /\ eof' = (eof \/ (~readFails /\ bytesread < call.block))
    /\ i' = i + 1
    /\ UNCHANGED <<flag, report>>

Returns ==
    /\ pc = "loop" /\ ~More /\ pc' = "done" /\ report' = counts
    /\ UNCHANGED <<inPos, outPos, eof, output, i, counts, flag, errors>>

Main == (Turn \/ PrintStatusReport \/ ClearFlag \/ CopyBlock \/ Returns) /\ UNCHANGED <<call, signals>>
SigusrHandler ==
    /\ pc # "done" /\ signals < MaxSignals /\ signals' = signals + 1 /\ flag' = TRUE
    /\ UNCHANGED <<call, inPos, outPos, eof, output, i, counts, pc, report, errors>>
Next == Main \/ SigusrHandler
Spec == Init /\ [][Next]_vars /\ WF_vars(Main)

-----------------------------------------------------------------------------
(* Properties. *)

\* The bytes read and no others are in the output, where they should be and in their
\* order, but for those a failed write has lost; what was there before is left alone.  The
\* tallies in are of what was read, those out of what was written.  As long as nothing
\* fails, both are the same, a report says what is in the files at a boundary of blocks,
\* and in the end that is all of the input that was asked for (dd.c:91-155); when
\* something does, dd without -c still reads to the end, and nothing is lost by a read.
CopyIsExact ==
    LET from == Sought(call.skip)  to == Sought(call.seek)  n == counts.total  read == inPos - from
        asked == Max({0, Len(call.input) - from})
        all == IF call.count = 0 THEN asked ELSE Min({call.count * call.block, asked})
        \* blocks: of one or more bytes, those that are not full
        Tallied(full, partial, bytes) ==
            bytes - full * call.block \in partial..partial * (call.block - 1)
        Holds(r) == /\ r.total = r.fullIn * call.block + r.partialIn * (asked % call.block)
                    /\ r.partialIn \in {0, 1} /\ r.fullOut = r.fullIn /\ r.partialOut = r.partialIn
    IN  /\ \E kept \in kSubset(n, from + 1..inPos) :
              \A x \in kept : output[to + Cardinality({y \in kept : y <= x})] = call.input[x]
        /\ \A x \in DOMAIN output \ (to + 1..to + n) : output[x] = IF x <= Len(call.old) THEN call.old[x] ELSE Hole
        /\ Len(output) = IF n = 0 THEN Len(call.old) ELSE Max({Len(call.old), to + n})
        /\ Tallied(counts.fullIn, counts.partialIn, read) /\ Tallied(counts.fullOut, counts.partialOut, n)
        /\ errors.write = 0 => n = read
        /\ errors = [read |-> 0, write |-> 0] => Holds(counts) /\ Holds(report)
        /\ report.total <= n
        /\ pc = "done" => /\ report = counts
                          /\ call.count = 0 => read = asked
                          /\ errors = [read |-> 0, write |-> 0] => n = all

\* It ends, whatever signals come (dd.c:101-157), unless its input has no end or can
\* never be read.
Ended == pc = "done"
==============================================================================
