--------------------------- MODULE VirtualMemory -----------------------------
(***************************************************************************)
(* ideal_indirection/: the MMU (mmu.c) with its TLB (tlb.c), the segments  *)
(* (segments.c) and the kernel that hands out frames and swaps pages to    *)
(* disk (kernel.c).  An address counts for its page; a page holds one      *)
(* value, 0 in a fresh frame.  Frame 0 is the page at NULL, outside        *)
(* physical memory.  An entry of a page table is known by its address, a   *)
(* frame and an index.  Only present and base_addr matter of an entry:     *)
(* read_write is set wherever present is.                                  *)
(***************************************************************************)
EXTENDS Integers, Sequences, FiniteSetsExt

CONSTANTS Pids,
          NFrames,      \* NUM_PHYSICAL_PAGES
          TableSize,    \* NUM_ENTRIES
          MaxNodes,     \* MAX_NODES
          Segments,     \* in the order of the enum, from mmu_add_process
          Touched,      \* the pages the program reads and writes
          Values, Null,
          MaxCalls      \* a bound

VARIABLES mm,       \* what mmu.c, tlb.c and kernel.c keep
          shadow,   \* history: shadow[pid][page] is what pid last wrote there
          outcome,  \* history: of the last read, what it got and what it should
          calls     \* history: how many have been made
vars == <<mm, shadow, outcome, calls>>

Frames == 1..NFrames
Reserved == <<-1, 0>>     \* no entry
Absent == [present |-> FALSE, base |-> 0]
BlankTable == [i \in 0..TableSize - 1 |-> Absent]

\* a node without an entry, as tlb_create makes it
Sentinel == [page |-> 0, entry |-> Null]

Init ==
    /\ mm = [dir |-> [p \in Pids |-> Null],           \* page_directories
             dirFrame |-> [p \in Pids |-> 0],
             table |-> [f \in Frames |-> BlankTable], \* a frame read as a page table
             data |-> [f \in Frames |-> 0],           \* a frame read as a page
             owner |-> [f \in Frames |-> Null],       \* entry_mapping
             disk |-> <<>>,                           \* the swap files, by entry
             tlb |-> <<Sentinel>>, curr |-> 0,
             got |-> 0,                               \* what the last helper returned
             lost |-> FALSE]                          \* a NULL was followed, or a page table replaced
    /\ shadow = [p \in Pids |-> [v \in Touched |-> 0]]
    /\ outcome = [got |-> 0, want |-> 0] /\ calls = 0

-----------------------------------------------------------------------------
(* kernel.c, as functions from state to state *)

Entry(s, e) == s.table[e[1]][e[2]]
SetEntry(s, e, base) == [s EXCEPT !.table[e[1]][e[2]] = [present |-> base # 0, base |-> base]]

Grant(s, f, entry) ==
    [s EXCEPT !.owner[f] = IF entry = Null THEN Reserved ELSE entry,
              !.data[f] = 0, !.table[f] = BlankTable, !.got = f]

WritePageToDisk(s, e) ==
    [s EXCEPT !.disk = [d \in DOMAIN @ \cup {e} |-> IF d = e THEN s.data[Entry(s, e).base] ELSE @[d]]]

\* the page in the frame goes to the disk
Evicted(s, f) == SetEntry(WritePageToDisk(s, s.owner[f]), s.owner[f], 0)

AskKernelForFrame(s, entry) ==
    LET free == {f \in Frames : s.owner[f] = Null}
        others == {f \in Frames : s.owner[f] \notin {Reserved, entry}}
    IN  IF free # {} THEN Grant(s, Min(free), entry)
        ELSE IF others = {} THEN [s EXCEPT !.got = 0]
        ELSE Grant(Evicted(s, Min(others)), Min(others), entry)

ReadPageFromDisk(s, e) ==
    IF e \in DOMAIN s.disk THEN [s EXCEPT !.data[Entry(s, e).base] = s.disk[e]] ELSE s

\* what every page fault on an entry does
Fault(s, e) ==
    LET asked == AskKernelForFrame(s, e)
    IN  ReadPageFromDisk(SetEntry(asked, e, asked.got), e)

-----------------------------------------------------------------------------
(* tlb.c: a list, the most recently used node first *)

TlbFind(s, page) == {k \in DOMAIN s.tlb : s.tlb[k].page = page}

\* the node that is found moves to the front and its entry, if any, is returned
TlbEntry(s, page) == IF TlbFind(s, page) = {} THEN Null ELSE s.tlb[Min(TlbFind(s, page))].entry
TlbGetPte(s, page) ==
    LET k == Min(TlbFind(s, page))
    IN  IF TlbFind(s, page) = {} THEN s ELSE [s EXCEPT !.tlb = <<@[k]>> \o SubSeq(@, 1, k - 1) \o SubSeq(@, k + 1, Len(@))]

TlbAddPte(s, page, entry) ==
    LET n == Len(s.tlb)
        kept == IF n >= MaxNodes THEN SubSeq(s.tlb, 1, n - 1) ELSE s.tlb
    IN  [s EXCEPT !.tlb = <<[page |-> page, entry |-> entry]>> \o kept]

SwitchTo_KeepsTlb(s, pid) == [s EXCEPT !.curr = pid]
SwitchTo(s, pid) == IF s.curr = pid THEN s ELSE [s EXCEPT !.tlb = <<Sentinel>>, !.curr = pid]

-----------------------------------------------------------------------------
(* mmu.c *)

\* the first segment the page is in; end is compared with <=
FindSegment(page) ==
    LET found == {k \in DOMAIN Segments : Segments[k].start <= page /\ page <= Segments[k].end}
    IN  IF found = {} THEN Null ELSE Segments[Min(found)]
Permitted(page, permission) == FindSegment(page) # Null /\ permission \in FindSegment(page).permissions

Top(page) == page \div TableSize
Index(page) == page % TableSize
SetPde(s, pid, page, f) == [s EXCEPT !.dir[pid][Top(page)] = [present |-> TRUE, base |-> f]]

Access(s, e, writes, value) ==
    LET f == Entry(s, e).base
    IN  IF f = 0 THEN [s EXCEPT !.lost = TRUE]
        ELSE IF writes THEN [s EXCEPT !.data[f] = value] ELSE [s EXCEPT !.got = s.data[f]]

\* the table's address is taken from the directory before the directory's own
\* fault: the entry written is one of page 0
ReadMiss(s, pid, page) ==
    LET pde == s.dir[pid][Top(page)]
        e == <<pde.base, Index(page)>>
    IN  IF ~pde.present THEN [s EXCEPT !.lost = TRUE]
        ELSE Access(TlbAddPte(s, page, e), e, FALSE, 0)

\* a fault on the entry also gives the directory a new frame for the table, by
\* which the other pages of the old one are lost
WriteMiss(s, pid, page, value) ==
    LET pde == s.dir[pid][Top(page)]
        asked == AskKernelForFrame(s, Null)
        s1 == IF pde.present THEN s ELSE asked
        e == <<IF pde.present THEN pde.base ELSE asked.got, Index(page)>>
        moved == AskKernelForFrame(s1, e)
        s2 == IF Entry(s1, e).present THEN s1 ELSE [Fault(SetPde(moved, pid, page, moved.got), e) EXCEPT !.lost = TRUE]
    IN  Access(TlbAddPte(s2, page, e), e, TRUE, value)

Hit(s, e, writes, value) == Access(IF Entry(s, e).present THEN s ELSE Fault(s, e), e, writes, value)

ReadFrom(s, pid, page) ==
    LET current == SwitchTo(s, pid)
        looked == TlbGetPte(current, page)
        e == TlbEntry(current, page)
    IN  IF e = Null THEN ReadMiss(looked, pid, page) ELSE Hit(looked, e, FALSE, 0)

WriteTo(s, pid, page, value) ==
    LET current == SwitchTo(s, pid)
        looked == TlbGetPte(current, page)
        e == TlbEntry(current, page)
    IN  IF e = Null THEN WriteMiss(looked, pid, page, value) ELSE Hit(looked, e, TRUE, value)

\* a directory, the table of the first 4 MB and its pages 1 and 2
Added(s, pid) ==
    LET s1 == AskKernelForFrame(s, Null)
        s2 == AskKernelForFrame(s1, Null)
        t == s2.got
        s3 == AskKernelForFrame(s2, <<t, 1>>)
        s4 == SetEntry(s3, <<t, 1>>, s3.got)
        s5 == AskKernelForFrame(s4, <<t, 2>>)
        s6 == SetEntry(s5, <<t, 2>>, s5.got)
        blank == [d \in 0..Max({Top(v) : v \in Touched}) |-> Absent]
    IN  [s6 EXCEPT !.dir[pid] = [blank EXCEPT ![0] = [present |-> TRUE, base |-> t]],
                   !.dirFrame[pid] = s1.got,
                   !.lost = 0 \in {s1.got, t, s3.got, s5.got}]

\* remove_swap_file misses the .bin of the name and removes nothing
Removed(s, pid) ==
    LET pdes == {d \in DOMAIN s.dir[pid] : s.dir[pid][d].present}
        tables == {s.dir[pid][d].base : d \in pdes}
        pages == {s.table[t][k].base : t \in tables, k \in 0..TableSize - 1} \ {0}
        gone == {s.dirFrame[pid]} \cup tables \cup pages
    IN  [s EXCEPT !.owner = [f \in Frames |-> IF f \in gone THEN Null ELSE @[f]],
                  !.dir[pid] = Null, !.dirFrame[pid] = 0,
                  !.tlb = IF s.curr = pid THEN <<Sentinel>> ELSE @]

-----------------------------------------------------------------------------
(* The program's calls. *)

AddProcess(pid) ==
    /\ mm.dir[pid] = Null
    /\ mm' = Added(mm, pid)
    /\ shadow' = [shadow EXCEPT ![pid] = [v \in Touched |-> 0]]
    /\ UNCHANGED outcome

RemoveProcess(pid) ==
    /\ mm.dir[pid] # Null
    /\ mm' = Removed(mm, pid)
    /\ UNCHANGED <<shadow, outcome>>

\* a segmentation fault is counted and changes nothing else
Read(pid, page) ==
    /\ mm.dir[pid] # Null /\ Permitted(page, "r")
    /\ mm' = ReadFrom(mm, pid, page)
    /\ outcome' = [got |-> mm'.got, want |-> shadow[pid][page]]
    /\ UNCHANGED shadow

Write(pid, page, value) ==
    /\ mm.dir[pid] # Null /\ Permitted(page, "w")
    /\ mm' = WriteTo(mm, pid, page, value)
    /\ shadow' = [shadow EXCEPT ![pid][page] = value]
    /\ UNCHANGED outcome

Next ==
    /\ ~mm.lost /\ calls < MaxCalls /\ calls' = calls + 1
    /\ \E pid \in Pids :
          \/ AddProcess(pid) \/ RemoveProcess(pid)
          \/ \E page \in Touched : Read(pid, page) \/ \E value \in Values : Write(pid, page, value)
Spec == Init /\ [][Next]_vars

-----------------------------------------------------------------------------
(* Properties. *)

\* A read returns what the same process last wrote to that page, or 0 if it has
\* not written there since it was added, whichever processes ran, ended and began
\* in between, whatever the TLB remembers and whatever was swapped out, up to the
\* first access that misses the TLB on a page that is not in memory
\* (mmu.c:22-176, 267-297, tlb.c:11-84, kernel.c:22-117).
ReadsSeeWrites == mm.lost \/ outcome.got = outcome.want
==============================================================================
