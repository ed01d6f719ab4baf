----------------------------- MODULE Memory_proofs -----------------------------
(***************************************************************************)
(* Proofs about the memory programs of Libraries, for every value of their *)
(* parameters.  Virtual memory: a read gets what was written.  Its         *)
(* inductive invariant VMInv says that there is a content of every page    *)
(* such that a page is in the frame its entry names, or on the disk, the   *)
(* TLB names entries of the process that runs, and the contents are what   *)
(* the processes wrote; the proof goes upwards: the kernel, which hands    *)
(* out frames and swaps; a page fault; a TLB; an access, hit or missed; a  *)
(* process that begins or ends; the calls.  malloc: its blocks tile the    *)
(* heap.  mini_memcheck: its ledger is right.  The last section puts them  *)
(* together, as that of Libraries_proofs does.  v1, v2, ... are the        *)
(* programs' variables, as Libraries has them.                             *)
(***************************************************************************)
EXTENDS Libraries, SequenceTheorems, FiniteSetTheorems, WellFoundedInduction, TLAPS

\* A set of naturals that is not empty has a least one.
LEMMA LeastNatural ==
    ASSUME NEW T \in SUBSET Nat, T # {}
    PROVE  \E n \in T : \A m \in T : n <= m
<1>. DEFINE less == {pair \in Nat \X Nat : pair[1] < pair[2]}
<1>1. IsWellFoundedOn(less, Nat)
  BY NatLessThanWellFounded DEF OpToRel
<1>2. PICK n \in T : \A m \in T : <<m, n>> \notin less
  <2>. HIDE DEF less
  <2>. QED BY <1>1, WFMin, Zenon
<1>3. \A m \in T : ~(m < n)
  BY <1>2
<1>. QED BY <1>3

-----------------------------------------------------------------------------
(* The kernel. *)

\* What a frame or an entry may be, and the fields of mm.
Frames == 1..NFrames
Slots == 0..(TableSize - 1)
Entries == Frames \X Slots
Pte == [present : BOOLEAN, base : Int]
Directory == [0..VM!Max({VM!Top(v) : v \in Touched}) -> Pte]
MemoryFields == {"dir", "dirFrame", "table", "data", "owner", "disk", "tlb", "curr", "got", "lost"}

\* What kernel.c keeps has the shape that it declares.
Shaped(s) ==
    /\ s = [x \in MemoryFields |-> s[x]]
    /\ s.table \in [Frames -> [Slots -> Pte]]
    /\ s.data = [f \in Frames |-> s.data[f]] /\ s.owner = [f \in Frames |-> s.owner[f]]
    /\ \A f \in Frames : s.owner[f] \in {Null, VM!Reserved} \cup Entries

\* A page is in the frame that its entry names, or on the disk.
InFrame(s, e, x) == LET f == s.table[e[1]][e[2]].base
                    IN  /\ f \in Frames /\ s.table[e[1]][e[2]].present
                        /\ s.owner[f] = e /\ s.data[f] = x
OnDisk(s, e, x) == s.table[e[1]][e[2]] = VM!Absent /\ e \in DOMAIN s.disk /\ s.disk[e] = x

\* G is the entries of pages and W what stands on them: every page is somewhere, every
\* frame that is not free is a page's or holds a table or a directory, and no other
\* entry of such a table is present.
KernelHolds(s, G, W) ==
    /\ Shaped(s) /\ G \subseteq Entries
    /\ \A f \in Frames : s.owner[f] \in {Null, VM!Reserved} \cup G
    /\ \A e \in G : s.owner[e[1]] = VM!Reserved
    /\ \A e \in G : InFrame(s, e, W[e]) \/ OnDisk(s, e, W[e])
    /\ \A f \in Frames : s.owner[f] \in G =>
          s.table[s.owner[f][1]][s.owner[f][2]] = [present |-> TRUE, base |-> f]
    /\ \A f \in Frames, k \in Slots :
          s.owner[f] = VM!Reserved /\ <<f, k>> \notin G => s.table[f][k] = VM!Absent

\* What the kernel leaves alone.
SameMmu(s, a) == a.dir = s.dir /\ a.dirFrame = s.dirFrame /\ a.tlb = s.tlb /\ a.curr = s.curr /\ a.lost = s.lost
SameKernel(s, a) == a.table = s.table /\ a.data = s.data /\ a.owner = s.owner /\ a.disk = s.disk

\* a is s with the frame f given to o; the page that was in it is on the disk.
Given(s, a, f, o) ==
    /\ f \in Frames /\ s.owner[f] # VM!Reserved /\ s.owner[f] # o
    /\ Shaped(a) /\ SameMmu(s, a) /\ a.got = f
    /\ \A g \in Frames : /\ a.owner[g] = (IF g = f THEN o ELSE s.owner[g])
                         /\ a.data[g] = (IF g = f THEN 0 ELSE s.data[g])
    /\ \A g \in Frames, k \in Slots :
          a.table[g][k] = (IF g = f \/ <<g, k>> = s.owner[f] THEN VM!Absent ELSE s.table[g][k])
    /\ \A e : e # s.owner[f] /\ e \in DOMAIN s.disk => e \in DOMAIN a.disk /\ a.disk[e] = s.disk[e]
    /\ s.owner[f] \in Entries =>
          /\ s.owner[f] \in DOMAIN a.disk
          /\ a.disk[s.owner[f]] = s.data[s.table[s.owner[f][1]][s.owner[f][2]].base]

\* NULL, the mark of a kernel's frame and an entry are three things, and so are they
\* for the module.
LEMMA MarksDiffer ==
    /\ Null # VM!Reserved /\ Null \notin Entries /\ VM!Reserved \notin Entries
    /\ VM!Frames = Frames /\ VM!Absent \in Pte /\ VM!Absent.base = 0 /\ VM!Absent.present = FALSE
    /\ Slots # {} /\ 1 \in Slots /\ 2 \in Slots /\ 0 \notin Frames
<1>1. Null \notin Int \X Int /\ NFrames \in Nat /\ TableSize \in Nat /\ TableSize > 2
  BY VMAssumption
<1>2. VM!Reserved \in Int \X Int /\ Entries \subseteq Int \X Int
  BY <1>1 DEF VM!Reserved, Entries, Frames, Slots
<1>3. VM!Reserved \notin Entries
  BY <1>1 DEF VM!Reserved, Entries, Frames, Slots
<1>. QED BY <1>1, <1>2, <1>3 DEF VM!Frames, Frames, VM!Absent, Pte, Slots

\* A set of numbers that is not empty has a first.
LEMMA FirstOf ==
    ASSUME NEW S \in SUBSET Nat, S # {}
    PROVE  VM!Min(S) \in S
<1>1. \E x \in S : \A y \in S : x <= y
  BY LeastNatural
<1>. QED BY <1>1 DEF VM!Min

\* A set of frames that is not empty has a first.
LEMMA FirstFrame ==
    ASSUME NEW S \in SUBSET Frames, S # {}
    PROVE  VM!Min(S) \in S
<1>1. S \in SUBSET Nat
  BY VMAssumption DEF Frames
<1>. QED BY <1>1, FirstOf

\* Of a number and TableSize: the quotient is a number, the remainder a slot, and a
\* number below TableSize is its own remainder.
LEMMA TopAndIndex ==
    ASSUME NEW v \in Nat
    PROVE  /\ VM!Top(v) \in Nat /\ VM!Index(v) \in Slots
           /\ VM!Top(v) = 0 => VM!Index(v) = v
<1>1. TableSize \in Nat /\ TableSize > 2
  BY VMAssumption
<1>2. v = TableSize * (v \div TableSize) + (v % TableSize)
  BY <1>1
<1>3. v \div TableSize \in Nat /\ v % TableSize \in 0..(TableSize - 1)
  BY <1>1
<1>4. v \div TableSize = 0 => v % TableSize = v
  BY <1>1, <1>2, <1>3
<1>. QED BY <1>3, <1>4 DEF VM!Top, VM!Index, Slots

\* A later page is in a later table, so that the directory has room for all.
LEMMA DirectoryHolds ==
    /\ VM!Max({VM!Top(v) : v \in Touched}) \in Nat
    /\ \A v \in Touched : VM!Top(v) \in 0..VM!Max({VM!Top(w) : w \in Touched})
<1>. DEFINE S == {VM!Top(v) : v \in Touched}
<1>1. TableSize \in Nat /\ TableSize > 2 /\ Touched \subseteq Nat
  BY VMAssumption
<1>2. PICK m \in Touched : \A v \in Touched : v <= m
  BY VMAssumption
<1>3. ASSUME NEW v \in Touched
      PROVE  VM!Top(v) <= VM!Top(m)
  <2>. DEFINE a == v \div TableSize
              b == m \div TableSize
  <2>1. v \in Nat /\ m \in Nat /\ v <= m
    BY <1>1, <1>2
  <2>2. /\ a \in Nat /\ b \in Nat
        /\ v = TableSize * a + (v % TableSize) /\ m = TableSize * b + (m % TableSize)
        /\ v % TableSize \in 0..(TableSize - 1) /\ m % TableSize \in 0..(TableSize - 1)
    BY <1>1, <2>1
  <2>. HIDE DEF a, b
  <2>3. ~(a > b)
    <3>. SUFFICES ASSUME a > b
                  PROVE  FALSE
      OBVIOUS
    <3>1. PICK c \in Nat : a = b + 1 + c
      <4>1. a - b - 1 \in Nat /\ a = b + 1 + (a - b - 1)
        BY <2>2
      <4>. QED BY <4>1
    <3>2. TableSize * a = TableSize * b + TableSize + TableSize * c
      BY <1>1, <2>2, <3>1
    <3>3. TableSize * c >= 0 /\ TableSize * b \in Int /\ TableSize * c \in Int
      BY <1>1, <2>2
    <3>. QED BY <1>1, <2>1, <2>2, <3>2, <3>3
  <2>4. a <= b
    BY <2>2, <2>3
  <2>. QED BY <2>4 DEF a, b, VM!Top
<1>4. S \in SUBSET Nat
  BY <1>1, TopAndIndex
<1>5. VM!Top(m) \in S /\ \A x \in S : VM!Top(m) >= x
  BY <1>1, <1>2, <1>3, TopAndIndex
<1>6. VM!Max(S) \in S /\ \A x \in S : VM!Max(S) >= x
  <2>. HIDE DEF S
  <2>. QED BY <1>5 DEF VM!Max
<1>. QED BY <1>4, <1>6

\* What the three helpers of the kernel do to each field.
Granted(s, a, f, o) ==
    /\ Shaped(a) /\ SameMmu(s, a) /\ a.disk = s.disk /\ a.got = f
    /\ \A g \in Frames : /\ a.owner[g] = (IF g = f THEN o ELSE s.owner[g])
                         /\ a.data[g] = (IF g = f THEN 0 ELSE s.data[g])
    /\ \A g \in Frames, k \in Slots : a.table[g][k] = (IF g = f THEN VM!Absent ELSE s.table[g][k])
Entered(s, t, e, base) ==
    /\ Shaped(t) /\ SameMmu(s, t) /\ t.disk = s.disk /\ t.got = s.got
    /\ t.data = s.data /\ t.owner = s.owner
    /\ \A g \in Frames, k \in Slots :
          t.table[g][k] = (IF <<g, k>> = e THEN [present |-> base # 0, base |-> base] ELSE s.table[g][k])
Swapped(s, t, e) ==
    /\ Shaped(t) /\ SameMmu(s, t) /\ t.got = s.got
    /\ t.table = s.table /\ t.data = s.data /\ t.owner = s.owner
    /\ e \in DOMAIN t.disk /\ t.disk[e] = s.data[s.table[e[1]][e[2]].base]
    /\ \A d : d # e /\ d \in DOMAIN s.disk => d \in DOMAIN t.disk /\ t.disk[d] = s.disk[d]

\* A frame that is granted is blank, and nothing else changes.
LEMMA GrantIs ==
    ASSUME NEW s, Shaped(s), NEW f \in Frames, NEW entry \in {Null} \cup Entries
    PROVE  Granted(s, VM!Grant(s, f, entry), f, IF entry = Null THEN VM!Reserved ELSE entry)
<1>. DEFINE o == IF entry = Null THEN VM!Reserved ELSE entry
            a == VM!Grant(s, f, entry)
            table == [s.table EXCEPT ![f] = VM!BlankTable]
            data == [s.data EXCEPT ![f] = 0]
            owner == [s.owner EXCEPT ![f] = o]
<1>0. s = [x \in MemoryFields |-> s[x]]
  BY DEF Shaped
<1>1. /\ a = [x \in MemoryFields |-> a[x]]
      /\ a.table = table /\ a.data = data /\ a.owner = owner /\ a.disk = s.disk /\ a.got = f
      /\ SameMmu(s, a)
  <2>. HIDE DEF o, table, data, owner
  <2>1. a = [s EXCEPT !.owner = owner, !.data = data, !.table = table, !.got = f]
    BY DEF VM!Grant, o, table, data, owner
  <2>. HIDE DEF a
  <2>. QED BY <1>0, <2>1 DEF MemoryFields, SameMmu
<1>2. VM!BlankTable \in [Slots -> Pte] /\ \A k \in Slots : VM!BlankTable[k] = VM!Absent
  BY MarksDiffer DEF VM!BlankTable, Slots
<1>3. table \in [Frames -> [Slots -> Pte]]
      /\ \A g \in Frames : table[g] = IF g = f THEN VM!BlankTable ELSE s.table[g]
  BY <1>2 DEF Shaped
<1>4. data = [g \in Frames |-> data[g]] /\ \A g \in Frames : data[g] = IF g = f THEN 0 ELSE s.data[g]
  BY DEF Shaped
<1>5. owner = [g \in Frames |-> owner[g]] /\ \A g \in Frames : owner[g] = IF g = f THEN o ELSE s.owner[g]
  BY DEF Shaped
<1>6. o \in {VM!Reserved} \cup Entries
  OBVIOUS
<1>7. \A g \in Frames : s.owner[g] \in {Null, VM!Reserved} \cup Entries
  BY DEF Shaped
<1>. HIDE DEF a, table, data, owner, o
<1>8. Shaped(a)
  BY <1>1, <1>3, <1>4, <1>5, <1>6, <1>7 DEF Shaped
<1>9. Granted(s, a, f, o)
  BY <1>1, <1>2, <1>3, <1>4, <1>5, <1>8 DEF Granted
<1>. QED BY <1>9 DEF a, o

\* Setting an entry changes that entry alone.
LEMMA SetEntryIs ==
    ASSUME NEW s, Shaped(s), NEW e \in Entries, NEW base \in Int
    PROVE  Entered(s, VM!SetEntry(s, e, base), e, base)
<1>. DEFINE t == VM!SetEntry(s, e, base)
            pte == [present |-> base # 0, base |-> base]
            table == [s.table EXCEPT ![e[1]][e[2]] = pte]
<1>0. s = [x \in MemoryFields |-> s[x]] /\ e[1] \in Frames /\ e[2] \in Slots /\ e = <<e[1], e[2]>>
  BY DEF Shaped, Entries
<1>1. /\ t = [x \in MemoryFields |-> t[x]]
      /\ t.table = table /\ t.data = s.data /\ t.owner = s.owner /\ t.disk = s.disk /\ t.got = s.got
      /\ SameMmu(s, t)
  <2>1. t = [s EXCEPT !.table = table]
    BY DEF VM!SetEntry
  <2>. HIDE DEF t, table
  <2>. QED BY <1>0, <2>1 DEF MemoryFields, SameMmu
<1>2. pte \in Pte
  BY DEF Pte
<1>. HIDE DEF pte
<1>3. table \in [Frames -> [Slots -> Pte]]
      /\ \A g \in Frames, k \in Slots : table[g][k] = IF <<g, k>> = e THEN pte ELSE s.table[g][k]
  BY <1>0, <1>2 DEF Shaped
<1>. HIDE DEF t, table
<1>4. Shaped(t)
  BY <1>1, <1>3 DEF Shaped
<1>5. \A g \in Frames, k \in Slots :
        t.table[g][k] = IF <<g, k>> = e THEN [present |-> base # 0, base |-> base] ELSE s.table[g][k]
  BY <1>1, <1>3 DEF pte
<1>6. Entered(s, t, e, base)
  BY <1>1, <1>4, <1>5, Zenon DEF Entered
<1>. QED BY <1>6 DEF t

\* A page that is written to the disk stands there, and nothing else changes.
LEMMA WritePageIs ==
    ASSUME NEW s, Shaped(s), NEW e \in Entries
    PROVE  Swapped(s, VM!WritePageToDisk(s, e), e)
<1>. DEFINE t == VM!WritePageToDisk(s, e)
            x == s.data[s.table[e[1]][e[2]].base]
            disk == [d \in DOMAIN s.disk \cup {e} |-> IF d = e THEN x ELSE s.disk[d]]
<1>0. s = [y \in MemoryFields |-> s[y]]
  BY DEF Shaped
<1>1. /\ t = [y \in MemoryFields |-> t[y]]
      /\ t.table = s.table /\ t.data = s.data /\ t.owner = s.owner /\ t.disk = disk /\ t.got = s.got
      /\ SameMmu(s, t)
  <2>1. t = [s EXCEPT !.disk = disk]
    BY DEF VM!WritePageToDisk, VM!Entry
  <2>. HIDE DEF t, disk
  <2>. QED BY <1>0, <2>1 DEF MemoryFields, SameMmu
<1>2. /\ e \in DOMAIN disk /\ disk[e] = x
      /\ \A d : d # e /\ d \in DOMAIN s.disk => d \in DOMAIN disk /\ disk[d] = s.disk[d]
  <2>. HIDE DEF x
  <2>. QED OBVIOUS
<1>. HIDE DEF t, disk
<1>3. Shaped(t)
  BY <1>1 DEF Shaped
<1>4. Swapped(s, t, e)
  BY <1>1, <1>2, <1>3 DEF Swapped
<1>. QED BY <1>4 DEF t

\* What a call to the kernel for a frame can come to: no frame but the kernel's own and
\* the one asked for, or a frame that is blank and whose page, if any, was saved.
Answered(s, a, entry, o) ==
    \/ /\ \A f \in Frames : s.owner[f] \in {VM!Reserved, entry} \ {Null}
       /\ Shaped(a) /\ SameMmu(s, a) /\ SameKernel(s, a) /\ a.got = 0
    \/ \E f \in Frames : Given(s, a, f, o)
LEMMA AskGives ==
    ASSUME NEW s, Shaped(s), NEW entry \in {Null} \cup Entries
    PROVE  Answered(s, VM!AskKernelForFrame(s, entry), entry, IF entry = Null THEN VM!Reserved ELSE entry)
<1>. DEFINE o == IF entry = Null THEN VM!Reserved ELSE entry
            a == VM!AskKernelForFrame(s, entry)
            free == {f \in VM!Frames : s.owner[f] = Null}
            others == {f \in VM!Frames : s.owner[f] \notin {VM!Reserved, entry}}
            victim == VM!Min(others)
            w == VM!WritePageToDisk(s, s.owner[victim])
            t == VM!Evicted(s, victim)
<1>0. /\ o \in {VM!Reserved} \cup Entries /\ Null # o
      /\ \A f \in Frames : s.owner[f] \in {Null, VM!Reserved} \cup Entries
      /\ s = [x \in MemoryFields |-> s[x]]
  BY MarksDiffer DEF Shaped
<1>1. /\ free # {} => a = VM!Grant(s, VM!Min(free), entry)
      /\ free = {} /\ others = {} => a = [s EXCEPT !.got = 0]
      /\ free = {} /\ others # {} => a = VM!Grant(t, victim, entry)
  <2>. HIDE DEF w, t
  <2>. QED BY DEF VM!AskKernelForFrame, t
<1>F. VM!Frames = Frames
  BY MarksDiffer, Zenon
<1>2. CASE free # {}
  <2>. DEFINE f == VM!Min(free)
  <2>1. f \in Frames /\ s.owner[f] = Null
    BY <1>F, <1>2, FirstFrame
  <2>2. Granted(s, a, f, o)
    BY <1>1, <1>2, <2>1, GrantIs, Zenon
  <2>. HIDE DEF f, a, o
  <2>3. Given(s, a, f, o)
    <3>1. s.owner[f] # VM!Reserved /\ s.owner[f] \notin Entries /\ s.owner[f] # o
      BY <1>0, <2>1, MarksDiffer
    <3>2. Shaped(a) /\ SameMmu(s, a) /\ a.got = f /\ a.disk = s.disk
      BY <2>2, Zenon DEF Granted
    <3>3. \A g \in Frames, k \in Slots : <<g, k>> # s.owner[f]
      BY <3>1 DEF Entries
    <3>4. \A g \in Frames, k \in Slots : a.table[g][k] = (IF g = f THEN VM!Absent ELSE s.table[g][k])
      BY <2>2, Zenon DEF Granted
    <3>5. \A g \in Frames : /\ a.owner[g] = (IF g = f THEN o ELSE s.owner[g])
                            /\ a.data[g] = (IF g = f THEN 0 ELSE s.data[g])
      BY <2>2, Zenon DEF Granted
    <3>. QED BY <2>1, <3>1, <3>2, <3>3, <3>4, <3>5 DEF Given
  <2>. QED BY <2>1, <2>3, Zenon DEF Answered, a, o
<1>3. CASE free = {} /\ others = {}
  <2>1. a = [s EXCEPT !.got = 0]
    BY <1>1, <1>3
  <2>. HIDE DEF a
  <2>2. Shaped(a) /\ SameMmu(s, a) /\ SameKernel(s, a) /\ a.got = 0
    BY <1>0, <2>1 DEF Shaped, MemoryFields, SameMmu, SameKernel
  <2>3. \A f \in Frames : s.owner[f] \in {VM!Reserved, entry} \ {Null}
    BY <1>F, <1>3
  <2>. HIDE DEF o
  <2>4. Answered(s, a, entry, o)
    BY <2>2, <2>3, Zenon DEF Answered
  <2>. QED BY <2>4, Zenon DEF a, o
<1>4. CASE free = {} /\ others # {}
  <2>1. victim \in Frames /\ s.owner[victim] \notin {VM!Reserved, entry}
    BY <1>F, <1>4, FirstFrame
  <2>2. s.owner[victim] # Null
    BY <1>F, <1>4, <2>1
  <2>3. s.owner[victim] \in Entries
    BY <1>0, <2>1, <2>2
  <2>4. Swapped(s, w, s.owner[victim])
    BY <2>3, WritePageIs, Zenon
  <2>5. Shaped(w)
    BY <2>4, Zenon DEF Swapped
  <2>6. Entered(w, t, s.owner[victim], 0)
    BY <2>3, <2>5, SetEntryIs DEF VM!Evicted
  <2>7. Shaped(t)
    BY <2>6, Zenon DEF Entered
  <2>8. a = VM!Grant(t, victim, entry)
    BY <1>1, <1>4
  <2>9. Granted(t, a, victim, o)
    BY <2>1, <2>7, <2>8, GrantIs, Zenon
  <2>10. s.owner[victim] # o
    BY <2>1 
  <2>. HIDE DEF a, o, t, w, victim
  <2>11. Given(s, a, victim, o)
    <3>1. \A g \in Frames : /\ a.owner[g] = (IF g = victim THEN o ELSE s.owner[g])
                            /\ a.data[g] = (IF g = victim THEN 0 ELSE s.data[g])
      <4>1. t.owner = w.owner /\ t.data = w.data /\ w.owner = s.owner /\ w.data = s.data
        BY <2>4, <2>6, Zenon DEF Swapped, Entered
      <4>2. \A g \in Frames : /\ a.owner[g] = (IF g = victim THEN o ELSE t.owner[g])
                              /\ a.data[g] = (IF g = victim THEN 0 ELSE t.data[g])
        BY <2>9, Zenon DEF Granted
      <4>. QED BY <4>1, <4>2
    <3>2. \A g \in Frames, k \in Slots :
             a.table[g][k] = (IF g = victim \/ <<g, k>> = s.owner[victim] THEN VM!Absent ELSE s.table[g][k])
      <4>1. w.table = s.table
        BY <2>4, Zenon DEF Swapped
      <4>2. \A g \in Frames, k \in Slots : t.table[g][k] =
               (IF <<g, k>> = s.owner[victim] THEN [present |-> 0 # 0, base |-> 0] ELSE w.table[g][k])
        BY <2>6, Zenon DEF Entered
      <4>3. [present |-> 0 # 0, base |-> 0] = VM!Absent
        BY DEF VM!Absent
      <4>4. \A g \in Frames, k \in Slots : t.table[g][k] =
               (IF <<g, k>> = s.owner[victim] THEN VM!Absent ELSE w.table[g][k])
        BY <4>2, <4>3, Zenon
      <4>5. \A g \in Frames, k \in Slots :
               a.table[g][k] = (IF g = victim THEN VM!Absent ELSE t.table[g][k])
        BY <2>9, Zenon DEF Granted
      <4>. QED BY <4>1, <4>4, <4>5
    <3>3. SameMmu(s, a) /\ Shaped(a) /\ a.got = victim /\ a.disk = w.disk
      <4>1. SameMmu(s, w) /\ SameMmu(w, t) /\ SameMmu(t, a)
        BY <2>4, <2>6, <2>9, Zenon DEF Swapped, Entered, Granted
      <4>2. Shaped(a) /\ a.got = victim /\ a.disk = t.disk /\ t.disk = w.disk
        BY <2>6, <2>9, Zenon DEF Entered, Granted
      <4>3. SameMmu(s, a)
        BY <4>1 DEF SameMmu
      <4>. QED BY <4>2, <4>3
    <3>4. /\ \A e : e # s.owner[victim] /\ e \in DOMAIN s.disk => e \in DOMAIN a.disk /\ a.disk[e] = s.disk[e]
          /\ s.owner[victim] \in DOMAIN a.disk
          /\ a.disk[s.owner[victim]] = s.data[s.table[s.owner[victim][1]][s.owner[victim][2]].base]
      BY <2>4, <3>3 DEF Swapped
    <3>. QED BY <2>1, <2>10, <3>1, <3>2, <3>3, <3>4 DEF Given
  <2>. QED BY <2>1, <2>11, Zenon DEF Answered, a, o
<1>. QED BY <1>2, <1>3, <1>4

\* The kernel's promises but for the frame f, which was just given out.
HoldsBut(a, G, W, f) ==
    /\ Shaped(a) /\ G \subseteq Entries
    /\ \A g \in Frames \ {f} : a.owner[g] \in {Null, VM!Reserved} \cup G
    /\ \A e \in G : a.owner[e[1]] = VM!Reserved /\ e[1] \in Frames \ {f}
    /\ \A e \in G : (InFrame(a, e, W[e]) /\ a.table[e[1]][e[2]].base # f) \/ OnDisk(a, e, W[e])
    /\ \A g \in Frames \ {f} : a.owner[g] \in G =>
          a.table[a.owner[g][1]][a.owner[g][2]] = [present |-> TRUE, base |-> g]
    /\ \A g \in Frames \ {f}, k \in Slots :
          a.owner[g] = VM!Reserved /\ <<g, k>> \notin G => a.table[g][k] = VM!Absent
    /\ \A k \in Slots : a.table[f][k] = VM!Absent

\* A frame that is given out leaves everything in place: the page that was in it is on
\* the disk, and no other page was in it.
LEMMA GivenKeeps ==
    ASSUME NEW s, NEW a, NEW G, NEW W, NEW f \in Frames, NEW o,
           KernelHolds(s, G, W), Given(s, a, f, o), o = VM!Reserved \/ o \notin G
    PROVE  HoldsBut(a, G, W, f)
<1>1. /\ Shaped(s) /\ G \subseteq Entries
      /\ \A g \in Frames : s.owner[g] \in {Null, VM!Reserved} \cup G
      /\ \A e \in G : s.owner[e[1]] = VM!Reserved
      /\ \A e \in G : InFrame(s, e, W[e]) \/ OnDisk(s, e, W[e])
  BY Zenon DEF KernelHolds
<1>2. /\ \A g \in Frames : s.owner[g] \in G =>
             s.table[s.owner[g][1]][s.owner[g][2]] = [present |-> TRUE, base |-> g]
      /\ \A g \in Frames, k \in Slots :
             s.owner[g] = VM!Reserved /\ <<g, k>> \notin G => s.table[g][k] = VM!Absent
  BY Zenon DEF KernelHolds
<1>3. /\ s.owner[f] # VM!Reserved /\ s.owner[f] # o
      /\ Shaped(a) /\ SameMmu(s, a) /\ a.got = f
      /\ \A g \in Frames : /\ a.owner[g] = (IF g = f THEN o ELSE s.owner[g])
                           /\ a.data[g] = (IF g = f THEN 0 ELSE s.data[g])
  BY Zenon DEF Given
<1>4. \A g \in Frames, k \in Slots :
         a.table[g][k] = (IF g = f \/ <<g, k>> = s.owner[f] THEN VM!Absent ELSE s.table[g][k])
  BY Zenon DEF Given
<1>5. \A e : e # s.owner[f] /\ e \in DOMAIN s.disk => e \in DOMAIN a.disk /\ a.disk[e] = s.disk[e]
  BY Zenon DEF Given
<1>6. s.owner[f] \in Entries =>
         /\ s.owner[f] \in DOMAIN a.disk
         /\ a.disk[s.owner[f]] = s.data[s.table[s.owner[f][1]][s.owner[f][2]].base]
  BY Zenon DEF Given
<1>7. \A e \in G : e[1] \in Frames \ {f} /\ e[2] \in Slots /\ e = <<e[1], e[2]>> /\ e # VM!Reserved
  BY <1>1, <1>3, MarksDiffer DEF Entries
<1>8. \A g \in Frames \ {f} : s.owner[g] \in G => s.owner[g] # s.owner[f]
  <2>. SUFFICES ASSUME NEW g \in Frames \ {f}, s.owner[g] \in G, s.owner[g] = s.owner[f]
                PROVE  FALSE
    OBVIOUS
  <2>1. [present |-> TRUE, base |-> g] = [present |-> TRUE, base |-> f]
    BY <1>2, Zenon
  <2>. QED BY <2>1
<1>9. \A e \in G : a.table[e[1]][e[2]] = (IF e = s.owner[f] THEN VM!Absent ELSE s.table[e[1]][e[2]])
  BY <1>4, <1>7
<1>10. \A g \in Frames \ {f} : a.owner[g] = s.owner[g]
  BY <1>3
<1>11. \A g \in Frames \ {f} : a.owner[g] \in {Null, VM!Reserved} \cup G
  BY <1>1, <1>10
<1>12. \A e \in G : a.owner[e[1]] = VM!Reserved
  BY <1>1, <1>7, <1>10
<1>13. ASSUME NEW e \in G
       PROVE  (InFrame(a, e, W[e]) /\ a.table[e[1]][e[2]].base # f) \/ OnDisk(a, e, W[e])
  <2>. DEFINE g == s.table[e[1]][e[2]].base
  <2>1. CASE e = s.owner[f]
    <3>1. s.table[e[1]][e[2]] = [present |-> TRUE, base |-> f]
      BY <1>2, <2>1, Zenon
    <3>2. g = f /\ s.table[e[1]][e[2]].present
      BY <3>1
    <3>3. s.table[e[1]][e[2]] # VM!Absent
      BY <3>1 DEF VM!Absent
    <3>4. InFrame(s, e, W[e])
      BY <1>1, <3>3, Zenon DEF OnDisk
    <3>5. s.data[f] = W[e]
      BY <3>2, <3>4, Zenon DEF InFrame
    <3>6. e \in Entries
      BY <1>1
    <3>7. a.table[e[1]][e[2]] = VM!Absent /\ e \in DOMAIN a.disk /\ a.disk[e] = s.data[g]
      BY <1>6, <1>9, <2>1, <3>6
    <3>. QED BY <3>2, <3>5, <3>7, Zenon DEF OnDisk
  <2>2. CASE e # s.owner[f] /\ InFrame(s, e, W[e])
    <3>1. g \in Frames /\ s.table[e[1]][e[2]].present /\ s.owner[g] = e /\ s.data[g] = W[e]
      BY <2>2, Zenon DEF InFrame
    <3>2. g # f
      BY <2>2, <3>1
    <3>3. a.table[e[1]][e[2]] = s.table[e[1]][e[2]]
      BY <1>9, <2>2
    <3>4. a.owner[g] = e /\ a.data[g] = W[e]
      BY <1>3, <3>1, <3>2
    <3>. HIDE DEF g
    <3>5. a.table[e[1]][e[2]].base = g /\ a.table[e[1]][e[2]].present
      BY <3>1, <3>3, Zenon DEF g
    <3>. QED BY <3>1, <3>2, <3>4, <3>5, Zenon DEF InFrame
  <2>3. CASE e # s.owner[f] /\ OnDisk(s, e, W[e])
    <3>1. s.table[e[1]][e[2]] = VM!Absent /\ e \in DOMAIN s.disk /\ s.disk[e] = W[e]
      BY <2>3, Zenon DEF OnDisk
    <3>2. a.table[e[1]][e[2]] = VM!Absent /\ e \in DOMAIN a.disk /\ a.disk[e] = W[e]
      BY <1>5, <1>9, <2>3, <3>1
    <3>. QED BY <3>2, Zenon DEF OnDisk
  <2>. QED BY <1>1, <2>1, <2>2, <2>3
<1>14. \A g \in Frames \ {f} : a.owner[g] \in G =>
          a.table[a.owner[g][1]][a.owner[g][2]] = [present |-> TRUE, base |-> g]
  BY <1>2, <1>8, <1>9, <1>10
<1>15. ASSUME NEW g \in Frames \ {f}, NEW k \in Slots, a.owner[g] = VM!Reserved, <<g, k>> \notin G
       PROVE  a.table[g][k] = VM!Absent
  BY <1>2, <1>4, <1>10, <1>15
<1>16. \A k \in Slots : a.table[f][k] = VM!Absent
  BY <1>4
<1>. QED BY <1>1, <1>3, <1>7, <1>11, <1>12, <1>13, <1>14, <1>15, <1>16 DEF HoldsBut

\* A frame for a table or a directory.
LEMMA ReserveKeeps ==
    ASSUME NEW s, NEW a, NEW G, NEW W, NEW f \in Frames,
           KernelHolds(s, G, W), Given(s, a, f, VM!Reserved)
    PROVE  KernelHolds(a, G, W)
<1>1. HoldsBut(a, G, W, f)
  BY GivenKeeps, Zenon
<1>2. a.owner[f] = VM!Reserved
  BY DEF Given
<1>3. Shaped(a) /\ G \subseteq Entries /\ \A e \in G : a.owner[e[1]] = VM!Reserved
  BY <1>1, Zenon DEF HoldsBut
<1>4. \A e \in G : InFrame(a, e, W[e]) \/ OnDisk(a, e, W[e])
  BY <1>1, Zenon DEF HoldsBut
<1>5. /\ \A g \in Frames \ {f} : a.owner[g] \in {Null, VM!Reserved} \cup G
      /\ \A g \in Frames \ {f} : a.owner[g] \in G =>
            a.table[a.owner[g][1]][a.owner[g][2]] = [present |-> TRUE, base |-> g]
      /\ \A g \in Frames \ {f}, k \in Slots :
            a.owner[g] = VM!Reserved /\ <<g, k>> \notin G => a.table[g][k] = VM!Absent
      /\ \A k \in Slots : a.table[f][k] = VM!Absent
  BY <1>1, Zenon DEF HoldsBut
<1>6. VM!Reserved \notin G
  BY <1>3, MarksDiffer
<1>7. \A g \in Frames : a.owner[g] \in {Null, VM!Reserved} \cup G
  BY <1>2, <1>5
<1>8. \A g \in Frames : a.owner[g] \in G =>
         a.table[a.owner[g][1]][a.owner[g][2]] = [present |-> TRUE, base |-> g]
  BY <1>2, <1>5, <1>6
<1>9. \A g \in Frames, k \in Slots :
         a.owner[g] = VM!Reserved /\ <<g, k>> \notin G => a.table[g][k] = VM!Absent
  BY <1>5
<1>. QED BY <1>3, <1>4, <1>7, <1>8, <1>9, Zenon DEF KernelHolds

\* A frame for a page that had none: the page is in it and is blank.
LEMMA EnterKeeps ==
    ASSUME NEW s, NEW a, NEW t, NEW G, NEW W, NEW V, NEW e, NEW f \in Frames,
           KernelHolds(s, G, W), Given(s, a, f, e), e \in Entries \ G,
           s.owner[e[1]] = VM!Reserved, Entered(a, t, e, f),
           V[e] = 0, \A d \in G : V[d] = W[d]
    PROVE  KernelHolds(t, G \cup {e}, V) /\ InFrame(t, e, 0)
<1>1. HoldsBut(a, G, W, f)
  BY GivenKeeps, Zenon
<1>2. a.owner[f] = e /\ a.data[f] = 0 /\ e[1] \in Frames \ {f} /\ e[2] \in Slots /\ e = <<e[1], e[2]>>
  BY DEF Given, Entries
<1>3. a.owner[e[1]] = VM!Reserved
  BY <1>2 DEF Given
<1>4. Shaped(t) /\ t.owner = a.owner /\ t.data = a.data /\ t.disk = a.disk
  BY Zenon DEF Entered
<1>5. \A g \in Frames, k \in Slots :
         t.table[g][k] = (IF <<g, k>> = e THEN [present |-> f # 0, base |-> f] ELSE a.table[g][k])
  BY Zenon DEF Entered
<1>6. f # 0
  BY MarksDiffer
<1>7. t.table[e[1]][e[2]] = [present |-> TRUE, base |-> f]
  BY <1>2, <1>5, <1>6
<1>8. G \subseteq Entries /\ \A d \in G : a.owner[d[1]] = VM!Reserved
  BY <1>1, Zenon DEF HoldsBut
<1>9. \A d \in G : d[1] \in Frames /\ d[2] \in Slots /\ d = <<d[1], d[2]>> /\ d # e
  BY <1>8 DEF Entries
<1>10. \A d \in G : t.table[d[1]][d[2]] = a.table[d[1]][d[2]]
  BY <1>2, <1>5, <1>9
<1>11. e # VM!Reserved /\ e # Null /\ VM!Reserved \notin G
  BY <1>8, MarksDiffer
<1>12. \A g \in Frames : t.owner[g] \in {Null, VM!Reserved} \cup (G \cup {e})
  <2>1. \A g \in Frames \ {f} : a.owner[g] \in {Null, VM!Reserved} \cup G
    BY <1>1, Zenon DEF HoldsBut
  <2>. QED BY <1>2, <1>4, <2>1
<1>13. \A d \in G \cup {e} : t.owner[d[1]] = VM!Reserved
  BY <1>3, <1>4, <1>8
<1>14. InFrame(t, e, 0)
  <2>1. t.table[e[1]][e[2]].base = f /\ t.table[e[1]][e[2]].present
    BY <1>7
  <2>. QED BY <1>2, <1>4, <2>1, Zenon DEF InFrame
<1>15. ASSUME NEW d \in G
       PROVE  InFrame(t, d, W[d]) \/ OnDisk(t, d, W[d])
  <2>1. InFrame(a, d, W[d]) \/ OnDisk(a, d, W[d])
    BY <1>1, Zenon DEF HoldsBut
  <2>2. t.table[d[1]][d[2]] = a.table[d[1]][d[2]]
    BY <1>10
  <2>. QED BY <1>4, <2>1, <2>2, Zenon DEF InFrame, OnDisk
<1>16. \A d \in G \cup {e} : InFrame(t, d, V[d]) \/ OnDisk(t, d, V[d])
  <2>. SUFFICES ASSUME NEW d \in G \cup {e}
                PROVE  InFrame(t, d, V[d]) \/ OnDisk(t, d, V[d])
    OBVIOUS
  <2>1. CASE d \in G
    BY <1>15, <2>1
  <2>2. CASE d = e
    BY <1>14, <2>2
  <2>. QED BY <2>1, <2>2
<1>17. ASSUME NEW g \in Frames, t.owner[g] \in G \cup {e}
       PROVE  t.table[t.owner[g][1]][t.owner[g][2]] = [present |-> TRUE, base |-> g]
  <2>1. CASE g = f
    BY <1>2, <1>4, <1>7, <2>1
  <2>2. CASE g # f
    <3>1. a.owner[g] # e
      <4>1. a.owner[g] \in {Null, VM!Reserved} \cup G
        BY <1>1, <2>2 DEF HoldsBut
      <4>. QED BY <1>11, <4>1
    <3>2. a.owner[g] \in G /\ g \in Frames \ {f}
      BY <1>4, <1>17, <2>2, <3>1
    <3>3. a.table[a.owner[g][1]][a.owner[g][2]] = [present |-> TRUE, base |-> g]
      BY <1>1, <3>2, Zenon DEF HoldsBut
    <3>. QED BY <1>4, <1>10, <3>2, <3>3
  <2>. QED BY <2>1, <2>2
<1>18. ASSUME NEW g \in Frames, NEW k \in Slots, t.owner[g] = VM!Reserved, <<g, k>> \notin G \cup {e}
       PROVE  t.table[g][k] = VM!Absent
  <2>1. g # f
    BY <1>2, <1>4, <1>11, <1>18
  <2>2. a.table[g][k] = VM!Absent
    BY <1>1, <1>4, <1>18, <2>1 DEF HoldsBut
  <2>. QED BY <1>5, <1>18, <2>2
<1>19. G \cup {e} \subseteq Entries
  BY <1>8
<1>. QED BY <1>4, <1>12, <1>13, <1>14, <1>16, <1>17, <1>18, <1>19, Zenon DEF KernelHolds

\* Reading or writing the page of an entry that is in a frame.
LEMMA DataKeeps ==
    ASSUME NEW s, NEW t, NEW G, NEW W, NEW V, NEW e \in G, NEW f, NEW x,
           KernelHolds(s, G, W), InFrame(s, e, W[e]), f = s.table[e[1]][e[2]].base,
           Shaped(t), t.table = s.table, t.owner = s.owner, t.disk = s.disk,
           \A g \in Frames : t.data[g] = IF g = f THEN x ELSE s.data[g],
           V[e] = x, \A d \in G \ {e} : V[d] = W[d]
    PROVE  KernelHolds(t, G, V) /\ InFrame(t, e, x)
<1>1. f \in Frames /\ s.owner[f] = e /\ s.table[e[1]][e[2]].present
  BY Zenon DEF InFrame
<1>2. InFrame(t, e, x)
  <2>1. t.data[f] = x
    BY <1>1
  <2>. QED BY <1>1, <2>1, Zenon DEF InFrame
<1>3. ASSUME NEW d \in G \ {e}
      PROVE  InFrame(t, d, W[d]) \/ OnDisk(t, d, W[d])
  <2>1. InFrame(s, d, W[d]) \/ OnDisk(s, d, W[d])
    BY Zenon DEF KernelHolds
  <2>2. CASE InFrame(s, d, W[d])
    <3>. DEFINE g == s.table[d[1]][d[2]].base
    <3>1. g \in Frames /\ s.owner[g] = d /\ s.data[g] = W[d] /\ s.table[d[1]][d[2]].present
      BY <2>2, Zenon DEF InFrame
    <3>2. t.data[g] = W[d]
      BY <1>1, <3>1
    <3>. QED BY <3>1, <3>2, Zenon DEF InFrame
  <2>3. CASE OnDisk(s, d, W[d])
    BY <2>3, Zenon DEF OnDisk
  <2>. QED BY <2>1, <2>2, <2>3
<1>4. \A d \in G : InFrame(t, d, V[d]) \/ OnDisk(t, d, V[d])
  <2>. SUFFICES ASSUME NEW d \in G
                PROVE  InFrame(t, d, V[d]) \/ OnDisk(t, d, V[d])
    OBVIOUS
  <2>1. CASE d = e
    BY <1>2, <2>1
  <2>2. CASE d # e
    BY <1>3, <2>2
  <2>. QED BY <2>1, <2>2
<1>. QED BY <1>2, <1>4 DEF KernelHolds

\* A page that comes back from the disk is in its frame, and nothing else changes.
Restored(t, r, e) ==
    /\ Shaped(r) /\ SameMmu(t, r)
    /\ r.table = t.table /\ r.owner = t.owner /\ r.disk = t.disk
    /\ e \in DOMAIN t.disk =>
          \A g \in Frames : r.data[g] = IF g = t.table[e[1]][e[2]].base THEN t.disk[e] ELSE t.data[g]
LEMMA ReadPageIs ==
    ASSUME NEW t, Shaped(t), NEW e
    PROVE  Restored(t, VM!ReadPageFromDisk(t, e), e)
<1>. DEFINE r == VM!ReadPageFromDisk(t, e)
            f == t.table[e[1]][e[2]].base
            data == [t.data EXCEPT ![f] = t.disk[e]]
<1>1. /\ e \in DOMAIN t.disk => r = [t EXCEPT !.data = data]
      /\ e \notin DOMAIN t.disk => r = t
  BY DEF VM!ReadPageFromDisk, VM!Entry
<1>2. data = [g \in Frames |-> data[g]]
      /\ \A g \in Frames : data[g] = IF g = f THEN t.disk[e] ELSE t.data[g]
  <2>. HIDE DEF f
  <2>. QED BY DEF Shaped
<1>. HIDE DEF r, data
<1>3. CASE e \in DOMAIN t.disk
  <2>1. r = [t EXCEPT !.data = data] /\ t = [x \in MemoryFields |-> t[x]]
    BY <1>1, <1>3 DEF Shaped
  <2>2. /\ r = [x \in MemoryFields |-> r[x]] /\ r.data = data
        /\ r.table = t.table /\ r.owner = t.owner /\ r.disk = t.disk /\ SameMmu(t, r)
    BY <2>1 DEF MemoryFields, SameMmu
  <2>3. Shaped(r)
    BY <1>2, <2>2 DEF Shaped
  <2>4. Restored(t, r, e)
    BY <1>2, <2>2, <2>3 DEF Restored
  <2>. QED BY <2>4 DEF r
<1>4. CASE e \notin DOMAIN t.disk
  <2>1. r = t
    BY <1>1, <1>4
  <2>2. Restored(t, r, e)
    BY <1>4, <2>1 DEF Restored, SameMmu
  <2>. QED BY <2>2 DEF r
<1>. QED BY <1>3, <1>4

\* A call for a frame and a fault leave what the kernel keeps in shape.
LEMMA AskShape ==
    ASSUME NEW s, Shaped(s), NEW entry \in {Null} \cup Entries
    PROVE  Shaped(VM!AskKernelForFrame(s, entry)) /\ VM!AskKernelForFrame(s, entry).got \in Int
<1>. DEFINE a == VM!AskKernelForFrame(s, entry)
            o == IF entry = Null THEN VM!Reserved ELSE entry
<1>1. Answered(s, a, entry, o)
  <2>. HIDE DEF a, o
  <2>. QED BY AskGives, Zenon DEF a, o
<1>. HIDE DEF a, o
<1>2. \A f \in Frames : Given(s, a, f, o) => Shaped(a) /\ a.got = f /\ f \in Int
  BY VMAssumption DEF Given, Frames
<1>3. Shaped(a) /\ a.got \in Int
  BY <1>1, <1>2 DEF Answered
<1>. QED BY <1>3, Zenon DEF a
LEMMA FaultShape ==
    ASSUME NEW s, Shaped(s), NEW e \in Entries
    PROVE  Shaped(VM!Fault(s, e))
<1>. DEFINE a == VM!AskKernelForFrame(s, e)
            t == VM!SetEntry(a, e, a.got)
            r == VM!ReadPageFromDisk(t, e)
<1>1. VM!Fault(s, e) = r
  <2>. HIDE DEF r
  <2>. QED BY DEF VM!Fault, r
<1>2. Shaped(a) /\ a.got \in Int
  <2>. HIDE DEF a
  <2>. QED BY AskShape DEF a
<1>. HIDE DEF a
<1>3. Shaped(t)
  BY <1>2, SetEntryIs DEF Entered
<1>. HIDE DEF t
<1>4. Shaped(r)
  BY <1>3, ReadPageIs DEF Restored
<1>. QED BY <1>1, <1>4, Zenon

\* An entry that is not there gets a frame and its page comes back from the disk, or
\* no frame is left.
Faulted(s, r, G, W, e) ==
    \/ /\ KernelHolds(r, G, W) /\ InFrame(r, e, W[e]) /\ SameMmu(s, r)
       /\ \A g \in Frames : s.owner[g] = VM!Reserved => r.owner[g] = VM!Reserved
    \/ Shaped(r) /\ r.table[e[1]][e[2]].base = 0
LEMMA FaultKeeps ==
    ASSUME NEW s, NEW G, NEW W, NEW e \in G, KernelHolds(s, G, W), ~s.table[e[1]][e[2]].present
    PROVE  Faulted(s, VM!Fault(s, e), G, W, e)
<1>. DEFINE a == VM!AskKernelForFrame(s, e)
            t == VM!SetEntry(a, e, a.got)
            r == VM!ReadPageFromDisk(t, e)
<1>1. VM!Fault(s, e) = r
  <2>. HIDE DEF r
  <2>. QED BY DEF VM!Fault, r
<1>2. Shaped(s) /\ G \subseteq Entries /\ e \in Entries
  BY DEF KernelHolds
<1>3. e[1] \in Frames /\ e[2] \in Slots /\ e = <<e[1], e[2]>> /\ e # Null
  BY <1>2, MarksDiffer DEF Entries
<1>4. OnDisk(s, e, W[e])
  BY Zenon DEF KernelHolds, InFrame
<1>5. Answered(s, a, e, e)
  <2>. HIDE DEF a
  <2>1. Answered(s, a, e, IF e = Null THEN VM!Reserved ELSE e)
    BY <1>2, AskGives, Zenon DEF a
  <2>. QED BY <1>3, <2>1
<1>. HIDE DEF a
<1>6. Shaped(a) /\ a.got \in Int
  BY <1>2, AskShape DEF a
<1>7. Entered(a, t, e, a.got)
  BY <1>2, <1>6, SetEntryIs
<1>8. Shaped(t) /\ t.disk = a.disk /\ t.owner = a.owner /\ t.data = a.data /\ SameMmu(a, t)
  BY <1>7, Zenon DEF Entered
<1>9. t.table[e[1]][e[2]].base = a.got
  <2>1. t.table[e[1]][e[2]] = [present |-> a.got # 0, base |-> a.got]
    BY <1>3, <1>7 DEF Entered
  <2>. QED BY <2>1
<1>. HIDE DEF t
<1>10. Restored(t, r, e)
  BY <1>8, ReadPageIs
<1>. HIDE DEF r
<1>11. Shaped(r) /\ r.table = t.table /\ r.owner = t.owner /\ r.disk = t.disk /\ SameMmu(t, r)
  BY <1>10, Zenon DEF Restored
<1>12. e \in DOMAIN t.disk => \A g \in Frames : r.data[g] = IF g = a.got THEN t.disk[e] ELSE t.data[g]
  BY <1>9, <1>10 DEF Restored
<1>13. CASE a.got = 0
  BY <1>1, <1>9, <1>11, <1>13 DEF Faulted
<1>14. CASE \E f \in Frames : Given(s, a, f, e)
  <2>. PICK f \in Frames : Given(s, a, f, e)
    BY <1>14
  <2>. DEFINE H == G \ {e}
              V == [d \in Entries |-> IF d = e THEN 0 ELSE W[d]]
  <2>1. a.got = f /\ SameMmu(s, a) /\ s.owner[f] # e /\ s.owner[f] # VM!Reserved
    BY DEF Given
  <2>2. \A g \in Frames : a.owner[g] = (IF g = f THEN e ELSE s.owner[g])
    BY Zenon DEF Given
  <2>3. s.table[e[1]][e[2]] = VM!Absent /\ e \in DOMAIN s.disk /\ s.disk[e] = W[e]
    BY <1>4, Zenon DEF OnDisk
  <2>4. e \in DOMAIN t.disk /\ t.disk[e] = W[e]
    BY <1>8, <2>1, <2>3 DEF Given
  <2>5. s.owner[e[1]] = VM!Reserved
    BY DEF KernelHolds
  <2>6. \A g \in Frames : s.owner[g] # e
    <3>. SUFFICES ASSUME NEW g \in Frames, s.owner[g] = e
                  PROVE  FALSE
      OBVIOUS
    <3>1. s.table[e[1]][e[2]] = [present |-> TRUE, base |-> g]
      BY Zenon DEF KernelHolds
    <3>. QED BY <2>3, <3>1 DEF VM!Absent
  <2>7. KernelHolds(s, H, W)
    <3>1. \A g \in Frames : s.owner[g] \in {Null, VM!Reserved} \cup H
      BY <2>6 DEF KernelHolds
    <3>2. \A g \in Frames, k \in Slots :
             s.owner[g] = VM!Reserved /\ <<g, k>> \notin H => s.table[g][k] = VM!Absent
      BY <1>3, <2>3 DEF KernelHolds
    <3>. QED BY <3>1, <3>2 DEF KernelHolds
  <2>8. V[e] = 0 /\ \A d \in H : V[d] = W[d]
    BY <1>2
  <2>9. e \in Entries \ H
    BY <1>2
  <2>10. H \cup {e} = G
    OBVIOUS
  <2>. HIDE DEF H, V
  <2>11. KernelHolds(t, H \cup {e}, V) /\ InFrame(t, e, 0)
    <3>1. Entered(a, t, e, f)
      BY <1>7, <2>1
    <3>2. V[e] = 0
      BY <2>8
    <3>3. \A d \in H : V[d] = W[d]
      BY <2>8
    <3>. QED BY <2>5, <2>7, <2>9, <3>1, <3>2, <3>3, EnterKeeps, ZenonT(60)
  <2>12. KernelHolds(t, G, V) /\ InFrame(t, e, V[e])
    BY <2>8, <2>10, <2>11
  <2>13. \A d \in G \ {e} : W[d] = V[d]
    BY <2>8 DEF H
  <2>14. \A g \in Frames : r.data[g] = IF g = f THEN W[e] ELSE t.data[g]
    BY <1>12, <2>1, <2>4
  <2>15. KernelHolds(r, G, W) /\ InFrame(r, e, W[e])
    BY <1>9, <1>11, <2>1, <2>12, <2>13, <2>14, DataKeeps
  <2>16. SameMmu(s, r)
    BY <1>8, <1>11, <2>1 DEF SameMmu
  <2>17. \A g \in Frames : s.owner[g] = VM!Reserved => r.owner[g] = VM!Reserved
    BY <1>8, <1>11, <2>1, <2>2
  <2>. QED BY <1>1, <2>15, <2>16, <2>17 DEF Faulted
<1>. QED BY <1>5, <1>13, <1>14 DEF Answered

\* The processes there are, the table of each, and the entries of their pages.
Live(s) == {p \in VMPids : s.dir[p] # Null}
TableOf(s, p) == s.dir[p][0].base
Pages(s) == {<<TableOf(s, p), k>> : p \in Live(s), k \in {1, 2}}

\* Each process has a directory with one table in it, both in frames of their own; the
\* last frame that a process was given for a page is still no table's.
ProcHolds(s, p) ==
    /\ s.dir[p] \in Directory /\ s.dir[p][0].present
    /\ \A d \in DOMAIN s.dir[p] : s.dir[p][d].present => d = 0
    /\ TableOf(s, p) \in Frames /\ s.owner[TableOf(s, p)] = VM!Reserved
    /\ s.dirFrame[p] \in Frames /\ s.owner[s.dirFrame[p]] = VM!Reserved
    /\ \A q \in Live(s) : p # q => TableOf(s, p) # TableOf(s, q) /\ s.dirFrame[p] # s.dirFrame[q]
    /\ \A q \in Live(s) : TableOf(s, p) # s.dirFrame[q]
ProcsHold(s) ==
    /\ s.dir = [p \in VMPids |-> s.dir[p]] /\ s.dirFrame = [p \in VMPids |-> s.dirFrame[p]]
    /\ \A p \in Live(s) : ProcHolds(s, p)
    /\ Live(s) # {} => \E f \in Frames : s.owner[f] # VM!Reserved

\* A node of the TLB is of the process that runs, and names the entry of its page.
Nodes(s) == {VM!Sentinel} \cup
    {[page |-> k, entry |-> <<TableOf(s, p), k>>] : p \in {q \in Live(s) : q = s.curr}, k \in {1, 2}}
TlbHolds(s) == s.tlb \in Seq(Nodes(s))

MmuHolds(s, W) == KernelHolds(s, Pages(s), W) /\ ProcsHold(s) /\ TlbHolds(s)
Shadowed(s, sh, W) ==
    \A p \in Live(s), k \in {1, 2} \cap Touched : W[<<TableOf(s, p), k>>] = sh[p][k]

\* These depend on what the kernel, the directories and the TLB hold alone.
SameTables(s, t) == t.dir = s.dir /\ t.dirFrame = s.dirFrame /\ t.curr = s.curr
LEMMA SameTablesIs ==
    ASSUME NEW s, NEW t, SameTables(s, t)
    PROVE  /\ Live(t) = Live(s) /\ Pages(t) = Pages(s) /\ Nodes(t) = Nodes(s)
           /\ \A p : TableOf(t, p) = TableOf(s, p)
<1>1. \A p : TableOf(t, p) = TableOf(s, p)
  BY DEF SameTables, TableOf
<1>2. Live(t) = Live(s)
  BY DEF SameTables, Live
<1>3. Pages(t) = Pages(s)
  BY <1>1, <1>2 DEF Pages
<1>4. Nodes(t) = Nodes(s)
  <2>1. {q \in Live(t) : q = t.curr} = {q \in Live(s) : q = s.curr}
    BY <1>2 DEF SameTables
  <2>. QED BY <1>1, <2>1 DEF Nodes
<1>. QED BY <1>1, <1>2, <1>3, <1>4

\* Steps of the kernel that keep the frames of tables and directories keep the rest.
LEMMA MmuStays ==
    ASSUME NEW s, NEW t, NEW W, NEW V, MmuHolds(s, W), SameTables(s, t), t.tlb = s.tlb,
           KernelHolds(t, Pages(s), V),
           \A g \in Frames : s.owner[g] = VM!Reserved => t.owner[g] = VM!Reserved,
           \E f \in Frames : t.owner[f] # VM!Reserved
    PROVE  MmuHolds(t, V) /\ Pages(t) = Pages(s) /\ Live(t) = Live(s)
<1>1. /\ Live(t) = Live(s) /\ Pages(t) = Pages(s) /\ Nodes(t) = Nodes(s)
      /\ \A p : TableOf(t, p) = TableOf(s, p)
  BY SameTablesIs, Zenon
<1>2. ProcsHold(s) /\ TlbHolds(s)
  BY DEF MmuHolds
<1>3. TlbHolds(t)
  BY <1>1, <1>2 DEF TlbHolds
<1>4. ProcsHold(t)
  <2>1. ASSUME NEW p \in Live(s)
        PROVE  ProcHolds(t, p)
    <3>1. ProcHolds(s, p)
      BY <1>2, Zenon DEF ProcsHold
    <3>2. t.dir = s.dir /\ t.dirFrame = s.dirFrame
      BY DEF SameTables
    <3>3. t.owner[TableOf(s, p)] = VM!Reserved /\ t.owner[s.dirFrame[p]] = VM!Reserved
      BY <3>1 DEF ProcHolds
    <3>. QED BY <1>1, <3>1, <3>2, <3>3, Zenon DEF ProcHolds
  <2>2. t.dir = [p \in VMPids |-> t.dir[p]] /\ t.dirFrame = [p \in VMPids |-> t.dirFrame[p]]
    BY <1>2, Zenon DEF ProcsHold, SameTables
  <2>. QED BY <1>1, <2>1, <2>2, Zenon DEF ProcsHold
<1>5. KernelHolds(t, Pages(t), V)
  BY <1>1
<1>. QED BY <1>1, <1>3, <1>4, <1>5, Zenon DEF MmuHolds

\* What is known of a live process: its entries, and which pages its directory finds.
LEMMA PagesOf ==
    ASSUME NEW s, NEW W, MmuHolds(s, W), NEW p \in Live(s), NEW v \in Touched,
           s.dir[p][VM!Top(v)].present
    PROVE  /\ s.dir[p][VM!Top(v)].base = TableOf(s, p) /\ VM!Index(v) = v
           /\ <<TableOf(s, p), v>> \in Entries
           /\ s.table[TableOf(s, p)][v] # VM!Absent =>
                 <<TableOf(s, p), v>> \in Pages(s) /\ v \in {1, 2}
<1>1. ProcsHold(s) /\ KernelHolds(s, Pages(s), W)
  BY DEF MmuHolds
<1>2. v \in Nat
  BY VMAssumption
<1>3. VM!Top(v) \in DOMAIN s.dir[p]
  BY <1>1, DirectoryHolds DEF ProcsHold, ProcHolds, Directory
<1>4. VM!Top(v) = 0
  BY <1>1, <1>3 DEF ProcsHold, ProcHolds
<1>5. VM!Index(v) = v /\ v \in Slots
  BY <1>2, <1>4, TopAndIndex
<1>6. TableOf(s, p) \in Frames /\ s.owner[TableOf(s, p)] = VM!Reserved
  BY <1>1 DEF ProcsHold, ProcHolds
<1>7. ASSUME s.table[TableOf(s, p)][v] # VM!Absent
      PROVE  <<TableOf(s, p), v>> \in Pages(s) /\ v \in {1, 2}
  <2>1. <<TableOf(s, p), v>> \in Pages(s)
    BY <1>1, <1>5, <1>6, <1>7, Zenon DEF KernelHolds
  <2>. QED BY <2>1 DEF Pages
<1>8. s.dir[p][VM!Top(v)].base = TableOf(s, p)
  BY <1>4 DEF TableOf
<1>9. <<TableOf(s, p), v>> \in Entries
  BY <1>5, <1>6 DEF Entries
<1>. QED BY <1>5, <1>7, <1>8, <1>9, Zenon

\* An access to an entry whose page is in a frame reads or writes that page, and one to
\* an entry without a frame follows NULL.
Accessed(s, t, W, V, e, writes, value) ==
    /\ SameTables(s, t) /\ MmuHolds(t, V)
    /\ V[e] = (IF writes THEN value ELSE W[e]) /\ \A d \in Pages(s) \ {e} : V[d] = W[d]
    /\ ~writes => t.got = W[e]
LEMMA AccessIs ==
    ASSUME NEW s, NEW W, NEW V, NEW e \in Pages(s), NEW writes \in BOOLEAN, NEW value,
           MmuHolds(s, W), InFrame(s, e, W[e]),
           V[e] = (IF writes THEN value ELSE W[e]), \A d \in Pages(s) \ {e} : V[d] = W[d]
    PROVE  Accessed(s, VM!Access(s, e, writes, value), W, V, e, writes, value)
<1>. DEFINE f == s.table[e[1]][e[2]].base
            t == VM!Access(s, e, writes, value)
            data == [s.data EXCEPT ![f] = value]
<1>1. KernelHolds(s, Pages(s), W) /\ Shaped(s)
  BY DEF MmuHolds, KernelHolds
<1>2. f \in Frames /\ f # 0 /\ s.owner[f] = e /\ s.data[f] = W[e]
  BY MarksDiffer DEF InFrame
<1>3. e # VM!Reserved
  BY <1>1, MarksDiffer DEF KernelHolds
<1>4. /\ writes => t = [s EXCEPT !.data = data]
      /\ ~writes => t = [s EXCEPT !.got = s.data[f]]
  BY <1>2 DEF VM!Access, VM!Entry
<1>5. data = [g \in Frames |-> data[g]]
      /\ \A g \in Frames : data[g] = IF g = f THEN value ELSE s.data[g]
  <2>. HIDE DEF f
  <2>. QED BY <1>1 DEF Shaped
<1>. HIDE DEF data, t
<1>6. /\ t = [x \in MemoryFields |-> t[x]]
      /\ t.table = s.table /\ t.owner = s.owner /\ t.disk = s.disk /\ t.tlb = s.tlb
      /\ SameTables(s, t)
      /\ t.data = (IF writes THEN data ELSE s.data)
      /\ ~writes => t.got = s.data[f]
  <2>. HIDE DEF f
  <2>1. s = [x \in MemoryFields |-> s[x]]
    BY <1>1 DEF Shaped
  <2>2. CASE writes
    BY <1>4, <2>1, <2>2 DEF MemoryFields, SameTables
  <2>3. CASE ~writes
    BY <1>4, <2>1, <2>3 DEF MemoryFields, SameTables
  <2>. QED BY <2>2, <2>3
<1>7. Shaped(t)
  BY <1>1, <1>5, <1>6 DEF Shaped
<1>8. \A g \in Frames : t.data[g] = IF g = f THEN V[e] ELSE s.data[g]
  BY <1>2, <1>5, <1>6
<1>9. KernelHolds(t, Pages(s), V)
  <2>. HIDE DEF f
  <2>. QED BY <1>1, <1>6, <1>7, <1>8, DataKeeps DEF f
<1>10. MmuHolds(t, V)
  <2>1. \E g \in Frames : t.owner[g] # VM!Reserved
    BY <1>2, <1>3, <1>6
  <2>. QED BY <1>6, <1>9, <2>1, MmuStays
<1>11. ~writes => t.got = W[e]
  BY <1>2, <1>6
<1>12. Accessed(s, t, W, V, e, writes, value)
  BY <1>6, <1>10, <1>11 DEF Accessed
<1>. QED BY <1>12 DEF t
LEMMA AccessIsLost ==
    ASSUME NEW s, Shaped(s), NEW e, NEW writes \in BOOLEAN, NEW value,
           s.lost = TRUE \/ s.table[e[1]][e[2]].base = 0
    PROVE  VM!Access(s, e, writes, value).lost = TRUE
<1>. DEFINE f == s.table[e[1]][e[2]].base
            t == VM!Access(s, e, writes, value)
<1>1. s = [x \in MemoryFields |-> s[x]]
  BY DEF Shaped
<1>2. /\ f = 0 => t = [s EXCEPT !.lost = TRUE]
      /\ f # 0 /\ writes => t = [s EXCEPT !.data = [s.data EXCEPT ![f] = value]]
      /\ f # 0 /\ ~writes => t = [s EXCEPT !.got = s.data[f]]
  BY DEF VM!Access, VM!Entry
<1>. HIDE DEF f, t
<1>3. CASE f = 0
  BY <1>1, <1>2, <1>3 DEF MemoryFields, t
<1>4. CASE f # 0 /\ writes
  <2>1. t.lost = s.lost
    BY <1>1, <1>2, <1>4 DEF MemoryFields
  <2>. QED BY <1>4, <2>1 DEF t, f
<1>5. CASE f # 0 /\ ~writes
  <2>1. t.lost = s.lost
    BY <1>1, <1>2, <1>5 DEF MemoryFields
  <2>. QED BY <1>5, <2>1 DEF t, f
<1>. QED BY <1>3, <1>4, <1>5

\* Steps of the TLB keep the rest.
TlbStep(s, t) ==
    /\ Shaped(t) /\ SameKernel(s, t) /\ t.dir = s.dir /\ t.dirFrame = s.dirFrame
LEMMA TlbStays ==
    ASSUME NEW s, NEW t, NEW W, MmuHolds(s, W), TlbStep(s, t), TlbHolds(t)
    PROVE  MmuHolds(t, W) /\ Pages(t) = Pages(s) /\ Live(t) = Live(s)
<1>1. Live(t) = Live(s) /\ (\A p : TableOf(t, p) = TableOf(s, p))
  BY DEF TlbStep, Live, TableOf
<1>2. Pages(t) = Pages(s)
  BY <1>1 DEF Pages
<1>3. t.table = s.table /\ t.data = s.data /\ t.owner = s.owner /\ t.disk = s.disk
  BY DEF TlbStep, SameKernel
<1>4. KernelHolds(t, Pages(t), W)
  <2>1. KernelHolds(s, Pages(s), W) /\ Shaped(t)
    BY DEF MmuHolds, TlbStep
  <2>2. \A e, x : InFrame(t, e, x) = InFrame(s, e, x) /\ OnDisk(t, e, x) = OnDisk(s, e, x)
    BY <1>3, Zenon DEF InFrame, OnDisk
  <2>. QED BY <1>2, <1>3, <2>1, <2>2 DEF KernelHolds
<1>5. ProcsHold(t)
  <2>1. ProcsHold(s)
    BY DEF MmuHolds
  <2>2. ASSUME NEW p \in Live(s)
        PROVE  ProcHolds(t, p)
    <3>1. ProcHolds(s, p) /\ t.dir = s.dir /\ t.dirFrame = s.dirFrame
      BY <2>1, Zenon DEF ProcsHold, TlbStep
    <3>. QED BY <1>1, <1>3, <3>1, Zenon DEF ProcHolds
  <2>3. t.dir = [p \in VMPids |-> t.dir[p]] /\ t.dirFrame = [p \in VMPids |-> t.dirFrame[p]]
    BY <2>1, Zenon DEF ProcsHold, TlbStep
  <2>. QED BY <1>1, <1>3, <2>1, <2>2, <2>3, Zenon DEF ProcsHold
<1>. QED BY <1>1, <1>2, <1>4, <1>5 DEF MmuHolds

\* A change of process empties the TLB.
LEMMA SwitchIs ==
    ASSUME NEW s, NEW W, NEW pid \in Live(s), MmuHolds(s, W)
    PROVE  LET t == VM!SwitchTo(s, pid)
           IN  /\ MmuHolds(t, W) /\ Pages(t) = Pages(s) /\ Live(t) = Live(s)
               /\ t.curr = pid /\ t.dir = s.dir
<1>. DEFINE t == VM!SwitchTo(s, pid)
<1>1. CASE s.curr = pid
  BY <1>1 DEF VM!SwitchTo
<1>2. CASE s.curr # pid
  <2>1. t = [s EXCEPT !.tlb = <<VM!Sentinel>>, !.curr = pid]
    BY <1>2 DEF VM!SwitchTo
  <2>2. Shaped(s)
    BY DEF MmuHolds, KernelHolds
  <2>. HIDE DEF t
  <2>3. TlbStep(s, t) /\ t.tlb = <<VM!Sentinel>> /\ t.curr = pid
    BY <2>1, <2>2 DEF TlbStep, SameKernel, Shaped, MemoryFields
  <2>4. VM!Sentinel \in Nodes(t)
    BY DEF Nodes
  <2>. HIDE DEF Nodes
  <2>5. TlbHolds(t)
    BY <2>3, <2>4 DEF TlbHolds
  <2>6. MmuHolds(t, W) /\ Pages(t) = Pages(s) /\ Live(t) = Live(s)
    BY <2>3, <2>5, TlbStays
  <2>. QED BY <2>3, <2>6 DEF t, TlbStep
<1>. QED BY <1>1, <1>2

\* The node that is found is one of the page; it moves to the front.
LEMMA FindIs ==
    ASSUME NEW s, TlbHolds(s), NEW page, VM!TlbFind(s, page) # {}
    PROVE  LET k == VM!Min(VM!TlbFind(s, page))
           IN  k \in 1..Len(s.tlb) /\ s.tlb[k] \in Nodes(s) /\ s.tlb[k].page = page
<1>. DEFINE k == VM!Min(VM!TlbFind(s, page))
<1>1. s.tlb \in Seq(Nodes(s))
  BY DEF TlbHolds
<1>2. DOMAIN s.tlb = 1..Len(s.tlb) /\ Len(s.tlb) \in Nat
  BY <1>1
<1>3. VM!TlbFind(s, page) \in SUBSET Nat
  BY <1>2 DEF VM!TlbFind
<1>4. k \in VM!TlbFind(s, page)
  BY <1>3, FirstOf
<1>. HIDE DEF k
<1>5. k \in 1..Len(s.tlb) /\ s.tlb[k].page = page
  BY <1>2, <1>4 DEF VM!TlbFind
<1>6. s.tlb[k] \in Nodes(s)
  BY <1>1, <1>5
<1>. QED BY <1>5, <1>6 DEF k
LEMMA LookIs ==
    ASSUME NEW s, NEW W, MmuHolds(s, W), NEW page
    PROVE  LET t == VM!TlbGetPte(s, page)
           IN  /\ MmuHolds(t, W) /\ Pages(t) = Pages(s) /\ Live(t) = Live(s)
               /\ t.curr = s.curr /\ t.dir = s.dir
<1>. DEFINE t == VM!TlbGetPte(s, page)
            k == VM!Min(VM!TlbFind(s, page))
            tlb == <<s.tlb[k]>> \o SubSeq(s.tlb, 1, k - 1) \o SubSeq(s.tlb, k + 1, Len(s.tlb))
<1>1. CASE VM!TlbFind(s, page) = {}
  BY <1>1 DEF VM!TlbGetPte
<1>2. CASE VM!TlbFind(s, page) # {}
  <2>1. t = [s EXCEPT !.tlb = tlb]
    BY <1>2 DEF VM!TlbGetPte
  <2>2. Shaped(s) /\ TlbHolds(s)
    BY DEF MmuHolds, KernelHolds
  <2>3. k \in 1..Len(s.tlb) /\ s.tlb[k] \in Nodes(s) /\ s.tlb \in Seq(Nodes(s))
    BY <1>2, <2>2, FindIs DEF TlbHolds
  <2>4. tlb \in Seq(Nodes(s))
    <3>. HIDE DEF k
    <3>1. SubSeq(s.tlb, 1, k - 1) \in Seq(Nodes(s)) /\ SubSeq(s.tlb, k + 1, Len(s.tlb)) \in Seq(Nodes(s))
      BY <2>3, SubSeqProperties
    <3>2. <<s.tlb[k]>> \in Seq(Nodes(s))
      BY <2>3
    <3>. QED BY <3>1, <3>2, ConcatProperties
  <2>. HIDE DEF t, tlb
  <2>5. TlbStep(s, t) /\ t.tlb = tlb /\ SameTables(s, t)
    BY <2>1, <2>2 DEF TlbStep, SameTables, SameKernel, Shaped, MemoryFields
  <2>6. TlbHolds(t)
    <3>1. Nodes(t) = Nodes(s)
      BY <2>5, SameTablesIs, Zenon
    <3>. QED BY <2>4, <2>5, <3>1 DEF TlbHolds
  <2>7. MmuHolds(t, W) /\ Pages(t) = Pages(s) /\ Live(t) = Live(s)
    BY <2>5, <2>6, TlbStays
  <2>. QED BY <2>5, <2>7 DEF t, SameTables
<1>. QED BY <1>1, <1>2

\* An entry that is found is the page's, of the process that runs.
LEMMA FoundIs ==
    ASSUME NEW s, NEW W, MmuHolds(s, W), NEW page, VM!TlbEntry(s, page) # Null
    PROVE  /\ s.curr \in Live(s) /\ page \in {1, 2}
           /\ VM!TlbEntry(s, page) = <<TableOf(s, s.curr), page>>
           /\ VM!TlbEntry(s, page) \in Pages(s)
<1>. DEFINE k == VM!Min(VM!TlbFind(s, page))
<1>1. VM!TlbFind(s, page) # {} /\ VM!TlbEntry(s, page) = s.tlb[k].entry
  BY DEF VM!TlbEntry
<1>2. s.tlb[k] \in Nodes(s) /\ s.tlb[k].page = page
  BY <1>1, FindIs DEF MmuHolds
<1>. HIDE DEF k
<1>3. s.tlb[k] # VM!Sentinel
  BY <1>1 DEF VM!Sentinel
<1>4. PICK p \in {q \in Live(s) : q = s.curr}, j \in {1, 2} :
         s.tlb[k] = [page |-> j, entry |-> <<TableOf(s, p), j>>]
  BY <1>2, <1>3 DEF Nodes
<1>5. p = s.curr /\ p \in Live(s) /\ j = page /\ s.tlb[k].entry = <<TableOf(s, p), j>>
  BY <1>2, <1>4
<1>6. <<TableOf(s, p), j>> \in Pages(s)
  BY <1>5 DEF Pages
<1>. QED BY <1>1, <1>5, <1>6

\* A node of the process that runs may be added.
LEMMA AddIs ==
    ASSUME NEW s, NEW W, MmuHolds(s, W), s.curr \in Live(s), NEW page \in {1, 2}
    PROVE  LET t == VM!TlbAddPte(s, page, <<TableOf(s, s.curr), page>>)
           IN  /\ MmuHolds(t, W) /\ Pages(t) = Pages(s) /\ Live(t) = Live(s)
               /\ SameKernel(s, t) /\ t.dir = s.dir
<1>. DEFINE e == <<TableOf(s, s.curr), page>>
            t == VM!TlbAddPte(s, page, e)
            n == Len(s.tlb)
            kept == IF n >= MaxNodes THEN SubSeq(s.tlb, 1, n - 1) ELSE s.tlb
            tlb == <<[page |-> page, entry |-> e]>> \o kept
<1>1. t = [s EXCEPT !.tlb = tlb]
  BY DEF VM!TlbAddPte
<1>2. Shaped(s) /\ s.tlb \in Seq(Nodes(s))
  BY DEF MmuHolds, KernelHolds, TlbHolds
<1>3. [page |-> page, entry |-> e] \in Nodes(s)
  <2>1. s.curr \in {q \in Live(s) : q = s.curr}
    OBVIOUS
  <2>. QED BY <2>1 DEF Nodes
<1>. HIDE DEF e
<1>4. kept \in Seq(Nodes(s))
  <2>1. n \in Nat
    BY <1>2
  <2>2. CASE n = 0
    <3>1. SubSeq(s.tlb, 1, n - 1) = <<>>
      BY <1>2, <2>2
    <3>. QED BY <1>2, <3>1
  <2>3. CASE n # 0
    <3>1. SubSeq(s.tlb, 1, n - 1) \in Seq(Nodes(s))
      BY <1>2, <2>1, <2>3, SubSeqProperties
    <3>. QED BY <1>2, <3>1
  <2>. QED BY <2>2, <2>3
<1>. HIDE DEF kept, n
<1>5. tlb \in Seq(Nodes(s))
  <2>1. <<[page |-> page, entry |-> e]>> \in Seq(Nodes(s))
    BY <1>3
  <2>. QED BY <1>4, <2>1, ConcatProperties
<1>. HIDE DEF t, tlb
<1>6. TlbStep(s, t) /\ t.tlb = tlb /\ SameTables(s, t)
  BY <1>1, <1>2 DEF TlbStep, SameTables, SameKernel, Shaped, MemoryFields
<1>7. TlbHolds(t)
  <2>1. Nodes(t) = Nodes(s)
    BY <1>6, SameTablesIs, Zenon
  <2>. QED BY <1>5, <1>6, <2>1 DEF TlbHolds
<1>8. MmuHolds(t, W) /\ Pages(t) = Pages(s) /\ Live(t) = Live(s)
  BY <1>6, <1>7, TlbStays
<1>. QED BY <1>6, <1>8 DEF t, e, TlbStep

\* Whatever is added to the TLB, the kernel's fields are in shape.
LEMMA AddShape ==
    ASSUME NEW s, Shaped(s), NEW page, NEW e
    PROVE  /\ Shaped(VM!TlbAddPte(s, page, e)) /\ SameKernel(s, VM!TlbAddPte(s, page, e))
           /\ VM!TlbAddPte(s, page, e).lost = s.lost
<1>. DEFINE t == VM!TlbAddPte(s, page, e)
            tlb == <<[page |-> page, entry |-> e]>> \o
                     (IF Len(s.tlb) >= MaxNodes THEN SubSeq(s.tlb, 1, Len(s.tlb) - 1) ELSE s.tlb)
<1>1. t = [s EXCEPT !.tlb = tlb]
  BY DEF VM!TlbAddPte
<1>. HIDE DEF t, tlb
<1>2. Shaped(t) /\ SameKernel(s, t) /\ t.lost = s.lost
  BY <1>1 DEF SameKernel, Shaped, MemoryFields
<1>. QED BY <1>2 DEF t

\* What an access to the entry e comes to: the program is lost, or what stands on e is
\* read or changed and all the rest is as it was.
Changes(s, W, V, e, writes, value) ==
    /\ V[e] = (IF writes THEN value ELSE W[e])
    /\ \A d \in Pages(s) \ {e} : V[d] = W[d]
Done(s, t, W, V, e, writes) ==
    \/ t.lost = TRUE
    \/ /\ e \in Pages(s) /\ MmuHolds(t, V) /\ (~writes => t.got = W[e])
       /\ t.dir = s.dir /\ Pages(t) = Pages(s) /\ Live(t) = Live(s)

\* An access to a page that is in memory.
LEMMA AccessIsDone ==
    ASSUME NEW s, NEW W, NEW V, NEW e \in Pages(s), NEW writes \in BOOLEAN, NEW value,
           MmuHolds(s, W), s.table[e[1]][e[2]] # VM!Absent, Changes(s, W, V, e, writes, value)
    PROVE  Done(s, VM!Access(s, e, writes, value), W, V, e, writes)
<1>. DEFINE t == VM!Access(s, e, writes, value)
<1>1. InFrame(s, e, W[e])
  BY Zenon DEF MmuHolds, KernelHolds, OnDisk
<1>2. V[e] = (IF writes THEN value ELSE W[e]) /\ \A d \in Pages(s) \ {e} : V[d] = W[d]
  BY Zenon DEF Changes
<1>3. Accessed(s, t, W, V, e, writes, value)
  BY <1>1, <1>2, AccessIs
<1>. HIDE DEF t
<1>4. ~writes => t.got = W[e]
  BY <1>3 DEF Accessed
<1>5. SameTables(s, t) /\ MmuHolds(t, V)
  BY <1>3 DEF Accessed
<1>6. t.dir = s.dir /\ Pages(t) = Pages(s) /\ Live(t) = Live(s)
  BY <1>5, SameTablesIs DEF SameTables
<1>7. Done(s, t, W, V, e, writes)
  BY <1>4, <1>5, <1>6 DEF Done
<1>. QED BY <1>7 DEF t

\* An access through the TLB, with a fault on the page if it is not in memory.
LEMMA HitIs ==
    ASSUME NEW s, NEW W, NEW V, NEW e \in Pages(s), NEW writes \in BOOLEAN, NEW value,
           MmuHolds(s, W), Changes(s, W, V, e, writes, value)
    PROVE  Done(s, VM!Hit(s, e, writes, value), W, V, e, writes)
<1>. DEFINE r == VM!Fault(s, e)
            t == VM!Access(r, e, writes, value)
<1>1. KernelHolds(s, Pages(s), W) /\ Pages(s) \subseteq Entries
  BY DEF MmuHolds, KernelHolds
<1>2. CASE s.table[e[1]][e[2]].present
  <2>1. VM!Hit(s, e, writes, value) = VM!Access(s, e, writes, value)
    BY <1>2 DEF VM!Hit, VM!Entry
  <2>2. s.table[e[1]][e[2]] # VM!Absent
    BY <1>2 DEF VM!Absent
  <2>. QED BY <2>1, <2>2, AccessIsDone
<1>3. CASE ~s.table[e[1]][e[2]].present
  <2>1. VM!Hit(s, e, writes, value) = t
    <3>. HIDE DEF r
    <3>. QED BY <1>3 DEF VM!Hit, VM!Entry, r
  <2>2. Faulted(s, r, Pages(s), W, e)
    BY <1>1, <1>3, FaultKeeps, Zenon
  <2>. HIDE DEF r
  <2>3. CASE Shaped(r) /\ r.table[e[1]][e[2]].base = 0
    <3>1. t.lost = TRUE
      BY <2>3, AccessIsLost
    <3>. QED BY <2>1, <3>1 DEF Done
  <2>4. CASE /\ KernelHolds(r, Pages(s), W) /\ InFrame(r, e, W[e]) /\ SameMmu(s, r)
             /\ \A g \in Frames : s.owner[g] = VM!Reserved => r.owner[g] = VM!Reserved
    <3>1. SameTables(s, r) /\ r.tlb = s.tlb
      BY <2>4 DEF SameMmu, SameTables
    <3>2. \E f \in Frames : r.owner[f] # VM!Reserved
      BY <1>1, <2>4, MarksDiffer DEF InFrame
    <3>3. MmuHolds(r, W) /\ Pages(r) = Pages(s) /\ Live(r) = Live(s)
      BY <2>4, <3>1, <3>2, MmuStays
    <3>4. r.table[e[1]][e[2]] # VM!Absent
      BY <2>4 DEF InFrame, VM!Absent
    <3>5. Changes(r, W, V, e, writes, value)
      BY <3>3, Zenon DEF Changes
    <3>6. Done(r, t, W, V, e, writes)
      BY <3>3, <3>4, <3>5, AccessIsDone
    <3>. HIDE DEF t
    <3>7. Done(s, t, W, V, e, writes)
      BY <3>1, <3>3, <3>6 DEF Done, SameTables
    <3>. QED BY <2>1, <3>7
  <2>. QED BY <2>2, <2>3, <2>4 DEF Faulted
<1>. QED BY <1>2, <1>3

\* An access that misses the TLB, to a page that is in memory.
LEMMA MissIs ==
    ASSUME NEW s, NEW W, NEW V, NEW page \in Touched, NEW writes \in BOOLEAN, NEW value,
           MmuHolds(s, W), s.curr \in Live(s), s.dir[s.curr][VM!Top(page)].present,
           NEW e, e = <<TableOf(s, s.curr), page>>,
           s.table[e[1]][e[2]] # VM!Absent, Changes(s, W, V, e, writes, value)
    PROVE  Done(s, VM!Access(VM!TlbAddPte(s, page, e), e, writes, value), W, V, e, writes)
<1>. DEFINE r == VM!TlbAddPte(s, page, e)
            t == VM!Access(r, e, writes, value)
<1>1. e \in Pages(s) /\ page \in {1, 2}
  BY PagesOf
<1>2. MmuHolds(r, W) /\ Pages(r) = Pages(s) /\ Live(r) = Live(s) /\ SameKernel(s, r) /\ r.dir = s.dir
  BY <1>1, AddIs
<1>. HIDE DEF r
<1>3. r.table[e[1]][e[2]] # VM!Absent /\ Changes(r, W, V, e, writes, value)
  BY <1>2 DEF SameKernel, Changes
<1>4. Done(r, t, W, V, e, writes)
  BY <1>1, <1>2, <1>3, AccessIsDone
<1>. HIDE DEF t
<1>5. Done(s, t, W, V, e, writes)
  BY <1>2, <1>4 DEF Done
<1>. QED BY <1>5 DEF t, r

LEMMA ReadMissIs ==
    ASSUME NEW s, NEW W, NEW page \in Touched, NEW e,
           MmuHolds(s, W), s.curr \in Live(s), e = <<TableOf(s, s.curr), page>>
    PROVE  Done(s, VM!ReadMiss(s, s.curr, page), W, W, e, FALSE)
<1>. DEFINE pde == s.dir[s.curr][VM!Top(page)]
            r == VM!TlbAddPte(s, page, e)
            t == VM!ReadMiss(s, s.curr, page)
<1>1. Shaped(s)
  BY DEF MmuHolds, KernelHolds
<1>2. CASE ~pde.present
  <2>1. t = [s EXCEPT !.lost = TRUE]
    BY <1>2 DEF VM!ReadMiss
  <2>2. t.lost = TRUE
    BY <1>1, <2>1 DEF Shaped, MemoryFields
  <2>. QED BY <2>2 DEF Done
<1>3. CASE pde.present
  <2>1. pde.base = TableOf(s, s.curr) /\ VM!Index(page) = page
    BY <1>3, PagesOf
  <2>2. t = VM!Access(r, e, FALSE, 0)
    <3>. HIDE DEF r
    <3>. QED BY <1>3, <2>1 DEF VM!ReadMiss, r
  <2>3. CASE s.table[e[1]][e[2]] # VM!Absent
    <3>1. Changes(s, W, W, e, FALSE, 0)
      BY DEF Changes
    <3>. QED BY <1>3, <2>2, <2>3, <3>1, MissIs
  <2>4. CASE s.table[e[1]][e[2]] = VM!Absent
    <3>1. Shaped(r) /\ SameKernel(s, r)
      BY <1>1, AddShape
    <3>. HIDE DEF r
    <3>2. r.table[e[1]][e[2]].base = 0
      BY <2>4, <3>1 DEF SameKernel, VM!Absent
    <3>3. t.lost = TRUE
      BY <2>2, <3>1, <3>2, AccessIsLost
    <3>. QED BY <3>3 DEF Done
  <2>. QED BY <2>3, <2>4
<1>. QED BY <1>2, <1>3

\* Setting an entry of a directory is no matter of the kernel's.
LEMMA SetPdeShape ==
    ASSUME NEW s, Shaped(s), NEW pid, NEW page, NEW f
    PROVE  Shaped(VM!SetPde(s, pid, page, f))
<1>. DEFINE t == VM!SetPde(s, pid, page, f)
            dir == [s.dir EXCEPT ![pid][VM!Top(page)] = [present |-> TRUE, base |-> f]]
<1>1. t = [s EXCEPT !.dir = dir]
  BY DEF VM!SetPde
<1>. HIDE DEF t, dir
<1>2. Shaped(t)
  BY <1>1 DEF Shaped, MemoryFields
<1>. QED BY <1>2 DEF t

LEMMA WriteMissIs ==
    ASSUME NEW s, NEW W, NEW V, NEW page \in Touched, NEW value, NEW e,
           MmuHolds(s, W), s.curr \in Live(s), e = <<TableOf(s, s.curr), page>>,
           Changes(s, W, V, e, TRUE, value)
    PROVE  Done(s, VM!WriteMiss(s, s.curr, page, value), W, V, e, TRUE)
<1>. DEFINE pid == s.curr
            pde == s.dir[pid][VM!Top(page)]
            asked == VM!AskKernelForFrame(s, Null)
            s1 == IF pde.present THEN s ELSE asked
            d == <<IF pde.present THEN pde.base ELSE asked.got, VM!Index(page)>>
            moved == VM!AskKernelForFrame(s1, d)
            fault == VM!Fault(VM!SetPde(moved, pid, page, moved.got), d)
            s2 == IF VM!Entry(s1, d).present THEN s1 ELSE [fault EXCEPT !.lost = TRUE]
            t == VM!Access(VM!TlbAddPte(s2, page, d), d, TRUE, value)
<1>0. Shaped(s) /\ ProcsHold(s) /\ page \in Nat
  BY VMAssumption DEF MmuHolds, KernelHolds
<1>1. VM!WriteMiss(s, s.curr, page, value) = t
  <2>. HIDE DEF s2, d
  <2>. QED BY DEF VM!WriteMiss, s2, d
<1>. HIDE DEF t
<1>2. ASSUME Shaped(s1), d \in Entries, ~VM!Entry(s1, d).present
      PROVE  t.lost = TRUE
  <2>1. Shaped(moved)
    BY <1>2, AskShape
  <2>. HIDE DEF moved
  <2>2. Shaped(VM!SetPde(moved, pid, page, moved.got))
    BY <2>1, SetPdeShape
  <2>3. Shaped(fault)
    BY <1>2, <2>2, FaultShape
  <2>4. s2 = [fault EXCEPT !.lost = TRUE]
    BY <1>2
  <2>. HIDE DEF fault, s2
  <2>5. Shaped(s2) /\ s2.lost = TRUE
    BY <2>3, <2>4 DEF Shaped, MemoryFields
  <2>. DEFINE r == VM!TlbAddPte(s2, page, d)
  <2>6. Shaped(r) /\ r.lost = TRUE
    BY <2>5, AddShape
  <2>. HIDE DEF r, d
  <2>. QED BY <2>6, AccessIsLost DEF t, r
<1>3. CASE ~pde.present
  <2>1. Answered(s, asked, Null, VM!Reserved)
    <3>. HIDE DEF asked
    <3>1. Answered(s, asked, Null, IF Null = Null THEN VM!Reserved ELSE Null)
      BY <1>0, AskGives, Zenon DEF asked
    <3>. QED BY <3>1
  <2>. HIDE DEF asked
  <2>2. \E f \in Frames : s.owner[f] # VM!Reserved
    BY <1>0 DEF ProcsHold
  <2>3. PICK f \in Frames : Given(s, asked, f, VM!Reserved)
    BY <2>1, <2>2 DEF Answered
  <2>4. Shaped(asked) /\ asked.got = f /\ \A k \in Slots : asked.table[f][k] = VM!Absent
    BY <2>3 DEF Given
  <2>5. d = <<f, VM!Index(page)>> /\ s1 = asked /\ VM!Index(page) \in Slots
    BY <1>0, <1>3, <2>4, TopAndIndex
  <2>6. d \in Entries
    BY <2>5 DEF Entries
  <2>7. ~VM!Entry(s1, d).present
    BY <2>4, <2>5 DEF VM!Entry, VM!Absent
  <2>8. t.lost = TRUE
    BY <1>2, <2>4, <2>5, <2>6, <2>7
  <2>. QED BY <1>1, <2>8 DEF Done
<1>4. CASE pde.present
  <2>1. pde.base = TableOf(s, pid) /\ VM!Index(page) = page /\ e \in Entries
    BY <1>4, PagesOf
  <2>2. d = e /\ s1 = s
    BY <1>4, <2>1
  <2>3. CASE ~VM!Entry(s, e).present
    <3>1. t.lost = TRUE
      BY <1>0, <1>2, <2>1, <2>2, <2>3
    <3>. QED BY <1>1, <3>1 DEF Done
  <2>4. CASE VM!Entry(s, e).present
    <3>1. s.table[e[1]][e[2]] # VM!Absent
      BY <2>4 DEF VM!Entry, VM!Absent
    <3>2. s2 = s
      BY <2>2, <2>4
    <3>. HIDE DEF s2, d
    <3>3. t = VM!Access(VM!TlbAddPte(s, page, e), e, TRUE, value)
      BY <2>2, <3>2 DEF t
    <3>4. Done(s, t, W, V, e, TRUE)
      BY <1>4, <3>1, <3>3, MissIs
    <3>. QED BY <1>1, <3>4
  <2>. QED BY <2>3, <2>4
<1>. QED BY <1>3, <1>4

\* A read and a write, through the TLB or not.
LEMMA ReadFromIs ==
    ASSUME NEW s, NEW W, NEW pid \in Live(s), NEW page \in Touched, NEW e,
           MmuHolds(s, W), e = <<TableOf(s, pid), page>>
    PROVE  Done(s, VM!ReadFrom(s, pid, page), W, W, e, FALSE)
<1>. DEFINE current == VM!SwitchTo(s, pid)
            looked == VM!TlbGetPte(current, page)
            d == VM!TlbEntry(current, page)
            t == VM!ReadFrom(s, pid, page)
<1>1. t = IF d = Null THEN VM!ReadMiss(looked, pid, page) ELSE VM!Hit(looked, d, FALSE, 0)
  <2>. HIDE DEF current, looked, d
  <2>. QED BY Zenon DEF VM!ReadFrom, t, current, looked, d
<1>2. /\ MmuHolds(current, W) /\ Pages(current) = Pages(s) /\ Live(current) = Live(s)
      /\ current.curr = pid /\ current.dir = s.dir
  BY SwitchIs
<1>. HIDE DEF current
<1>3. /\ MmuHolds(looked, W) /\ Pages(looked) = Pages(s) /\ Live(looked) = Live(s)
      /\ looked.curr = pid /\ looked.dir = s.dir
  BY <1>2, LookIs
<1>4. d # Null => d = e /\ e \in Pages(s)
  BY <1>2, FoundIs DEF TableOf
<1>. HIDE DEF looked, d, t
<1>5. Done(looked, t, W, W, e, FALSE)
  <2>1. CASE d = Null
    <3>1. e = <<TableOf(looked, looked.curr), page>> /\ looked.curr \in Live(looked)
      BY <1>3 DEF TableOf
    <3>2. Done(looked, VM!ReadMiss(looked, looked.curr, page), W, W, e, FALSE)
      BY <1>3, <3>1, ReadMissIs
    <3>. QED BY <1>1, <1>3, <2>1, <3>2
  <2>2. CASE d # Null
    <3>1. Changes(looked, W, W, e, FALSE, 0)
      BY DEF Changes
    <3>2. Done(looked, VM!Hit(looked, e, FALSE, 0), W, W, e, FALSE)
      BY <1>3, <1>4, <2>2, <3>1, HitIs
    <3>. QED BY <1>1, <1>4, <2>2, <3>2
  <2>. QED BY <2>1, <2>2
<1>6. Done(s, t, W, W, e, FALSE)
  BY <1>3, <1>5 DEF Done
<1>. QED BY <1>6 DEF t
LEMMA WriteToIs ==
    ASSUME NEW s, NEW W, NEW V, NEW pid \in Live(s), NEW page \in Touched, NEW value, NEW e,
           MmuHolds(s, W), e = <<TableOf(s, pid), page>>, Changes(s, W, V, e, TRUE, value)
    PROVE  Done(s, VM!WriteTo(s, pid, page, value), W, V, e, TRUE)
<1>. DEFINE current == VM!SwitchTo(s, pid)
            looked == VM!TlbGetPte(current, page)
            d == VM!TlbEntry(current, page)
            t == VM!WriteTo(s, pid, page, value)
<1>1. t = IF d = Null THEN VM!WriteMiss(looked, pid, page, value) ELSE VM!Hit(looked, d, TRUE, value)
  <2>. HIDE DEF current, looked, d
  <2>. QED BY Zenon DEF VM!WriteTo, t, current, looked, d
<1>2. /\ MmuHolds(current, W) /\ Pages(current) = Pages(s) /\ Live(current) = Live(s)
      /\ current.curr = pid /\ current.dir = s.dir
  BY SwitchIs
<1>. HIDE DEF current
<1>3. /\ MmuHolds(looked, W) /\ Pages(looked) = Pages(s) /\ Live(looked) = Live(s)
      /\ looked.curr = pid /\ looked.dir = s.dir
  BY <1>2, LookIs
<1>4. d # Null => d = e /\ e \in Pages(s)
  BY <1>2, FoundIs DEF TableOf
<1>. HIDE DEF looked, d, t
<1>5. Changes(looked, W, V, e, TRUE, value)
  BY <1>3, Zenon DEF Changes
<1>6. Done(looked, t, W, V, e, TRUE)
  <2>1. CASE d = Null
    <3>1. e = <<TableOf(looked, looked.curr), page>> /\ looked.curr \in Live(looked)
      BY <1>3 DEF TableOf
    <3>2. Done(looked, VM!WriteMiss(looked, looked.curr, page, value), W, V, e, TRUE)
      BY <1>3, <1>5, <3>1, WriteMissIs
    <3>. QED BY <1>1, <1>3, <2>1, <3>2
  <2>2. CASE d # Null
    <3>1. Done(looked, VM!Hit(looked, e, TRUE, value), W, V, e, TRUE)
      BY <1>3, <1>4, <1>5, <2>2, HitIs
    <3>. QED BY <1>1, <1>4, <2>2, <3>1
  <2>. QED BY <2>1, <2>2
<1>7. Done(s, t, W, V, e, TRUE)
  BY <1>3, <1>6 DEF Done
<1>. QED BY <1>7 DEF t

\* A helper of the kernel never takes a field away.
LEMMA AskKeepsFields ==
    ASSUME NEW s, NEW entry
    PROVE  DOMAIN VM!AskKernelForFrame(s, entry) = DOMAIN s
<1>1. \A t, f : DOMAIN VM!Grant(t, f, entry) = DOMAIN t
  BY DEF VM!Grant
<1>2. \A t, f : DOMAIN VM!Evicted(t, f) = DOMAIN t
  BY DEF VM!Evicted, VM!SetEntry, VM!WritePageToDisk
<1>. DEFINE free == {f \in VM!Frames : s.owner[f] = Null}
            others == {f \in VM!Frames : s.owner[f] \notin {VM!Reserved, entry}}
            a == VM!AskKernelForFrame(s, entry)
<1>3. \/ a = VM!Grant(s, VM!Min(free), entry)
      \/ a = [s EXCEPT !.got = 0]
      \/ a = VM!Grant(VM!Evicted(s, VM!Min(others)), VM!Min(others), entry)
  BY DEF VM!AskKernelForFrame
<1>. HIDE DEF a, free, others
<1>4. DOMAIN [s EXCEPT !.got = 0] = DOMAIN s
  OBVIOUS
<1>5. DOMAIN a = DOMAIN s
  BY <1>1, <1>2, <1>3, <1>4
<1>. QED BY <1>5 DEF a

\* A page that a new table is given: the frames of tables stay, and the page is there.
Entering(s, t, G, V, e) ==
    /\ KernelHolds(t, G \cup {e}, V) /\ InFrame(t, e, 0) /\ SameMmu(s, t)
    /\ \A g \in Frames : s.owner[g] = VM!Reserved => t.owner[g] = VM!Reserved
LEMMA EnteringIs ==
    ASSUME NEW s, NEW G, NEW W, NEW V, NEW e \in Entries \ G, KernelHolds(s, G, W),
           s.owner[e[1]] = VM!Reserved, V[e] = 0, \A d \in G : V[d] = W[d],
           NEW a, a = VM!AskKernelForFrame(s, e), a.got # 0
    PROVE  Entering(s, VM!SetEntry(a, e, a.got), G, V, e)
<1>. DEFINE t == VM!SetEntry(a, e, a.got)
<1>1. Shaped(s) /\ e # Null
  BY MarksDiffer DEF KernelHolds
<1>2. Answered(s, a, e, IF e = Null THEN VM!Reserved ELSE e)
  BY <1>1, AskGives, Zenon
<1>3. PICK f \in Frames : Given(s, a, f, e)
  BY <1>1, <1>2 DEF Answered
<1>4. Shaped(a) /\ a.got = f /\ f \in Int /\ SameMmu(s, a)
  BY <1>3, VMAssumption DEF Given, Frames
<1>5. Entered(a, t, e, f)
  BY <1>4, SetEntryIs
<1>. HIDE DEF t
<1>6. KernelHolds(t, G \cup {e}, V) /\ InFrame(t, e, 0)
  BY <1>3, <1>5, EnterKeeps, Zenon
<1>7. SameMmu(a, t) /\ t.owner = a.owner
  BY <1>5 DEF Entered
<1>8. SameMmu(s, t)
  BY <1>4, <1>7 DEF SameMmu
<1>9. \A g \in Frames : s.owner[g] = VM!Reserved => t.owner[g] = VM!Reserved
  BY <1>3, <1>7 DEF Given
<1>10. Entering(s, t, G, V, e)
  BY <1>6, <1>8, <1>9 DEF Entering
<1>. QED BY <1>10 DEF t

\* A frame for a directory or a table.
Reserving(s, a, G, W) ==
    /\ KernelHolds(a, G, W) /\ SameMmu(s, a)
    /\ a.got \in Frames /\ s.owner[a.got] # VM!Reserved /\ a.owner[a.got] = VM!Reserved
    /\ \A g \in Frames : s.owner[g] = VM!Reserved => a.owner[g] = VM!Reserved
LEMMA ReservingIs ==
    ASSUME NEW s, NEW G, NEW W, KernelHolds(s, G, W),
           NEW a, a = VM!AskKernelForFrame(s, Null), a.got # 0
    PROVE  Reserving(s, a, G, W)
<1>1. Answered(s, a, Null, IF Null = Null THEN VM!Reserved ELSE Null)
  BY AskGives, Zenon DEF KernelHolds
<1>2. PICK f \in Frames : Given(s, a, f, VM!Reserved)
  BY <1>1 DEF Answered
<1>3. KernelHolds(a, G, W)
  BY <1>2, ReserveKeeps, Zenon
<1>. QED BY <1>2, <1>3 DEF Given, Reserving

\* A process that is added has blank pages, and the others have what they had.
LEMMA AddedIs ==
    ASSUME NEW s, NEW W, MmuHolds(s, W), NEW pid \in VMPids, pid \notin Live(s),
           NEW z, z = VM!Added(s, pid), ~z.lost
    PROVE  /\ Live(z) = Live(s) \cup {pid}
           /\ \A p \in Live(s) : TableOf(z, p) = TableOf(s, p)
           /\ \E V : /\ MmuHolds(z, V) /\ \A d \in Pages(s) : V[d] = W[d]
                     /\ \A k \in {1, 2} : V[<<TableOf(z, pid), k>>] = 0
<1>. DEFINE s1 == VM!AskKernelForFrame(s, Null)
            s2 == VM!AskKernelForFrame(s1, Null)
            t == s2.got
            e1 == <<t, 1>>
            e2 == <<t, 2>>
            s3 == VM!AskKernelForFrame(s2, e1)
            s4 == VM!SetEntry(s3, e1, s3.got)
            s5 == VM!AskKernelForFrame(s4, e2)
            s6 == VM!SetEntry(s5, e2, s5.got)
            blank == [d \in 0..VM!Max({VM!Top(v) : v \in Touched}) |-> VM!Absent]
            entry == [blank EXCEPT ![0] = [present |-> TRUE, base |-> t]]
            dir == [s6.dir EXCEPT ![pid] = entry]
            dirFrame == [s6.dirFrame EXCEPT ![pid] = s1.got]
            bad == 0 \in {s1.got, t, s3.got, s5.got}
<1>0. KernelHolds(s, Pages(s), W) /\ Shaped(s) /\ ProcsHold(s) /\ TlbHolds(s)
  BY DEF MmuHolds, KernelHolds
<1>1. z = [s6 EXCEPT !.dir = dir, !.dirFrame = dirFrame, !.lost = bad]
  <2>. HIDE DEF s1, s2, s3, s4, s5, s6
  <2>. QED BY DEF VM!Added, s1, s2, s3, s4, s5, s6
<1>2. DOMAIN s6 = DOMAIN s
  <2>1. DOMAIN s1 = DOMAIN s /\ DOMAIN s2 = DOMAIN s1 /\ DOMAIN s3 = DOMAIN s2 /\ DOMAIN s5 = DOMAIN s4
    BY AskKeepsFields, Zenon
  <2>2. \A r, e, b : DOMAIN VM!SetEntry(r, e, b) = DOMAIN r
    BY DEF VM!SetEntry
  <2>. HIDE DEF s1, s2, s3, s5
  <2>3. DOMAIN s4 = DOMAIN s3 /\ DOMAIN s6 = DOMAIN s5
    BY <2>2
  <2>. QED BY <2>1, <2>3
<1>3. DOMAIN s = MemoryFields
  BY <1>0 DEF Shaped
<1>. HIDE DEF s1, s2, s3, s4, s5, s6, dir, dirFrame
<1>4. z.lost = bad
  BY <1>1, <1>2, <1>3 DEF MemoryFields
<1>5. s1.got # 0 /\ t # 0 /\ s3.got # 0 /\ s5.got # 0
  BY <1>4
<1>. HIDE DEF bad
<1>6. Reserving(s, s1, Pages(s), W)
  BY <1>0, <1>5, ReservingIs DEF s1
<1>7. Reserving(s1, s2, Pages(s), W)
  BY <1>5, <1>6, ReservingIs DEF s2, Reserving
<1>8. /\ s1.got \in Frames /\ s.owner[s1.got] # VM!Reserved /\ s1.owner[s1.got] = VM!Reserved
      /\ s2.owner[s1.got] = VM!Reserved
      /\ t \in Frames /\ s1.owner[t] # VM!Reserved /\ s2.owner[t] = VM!Reserved
      /\ s.owner[t] # VM!Reserved /\ t # s1.got
      /\ \A g \in Frames : s.owner[g] = VM!Reserved => s2.owner[g] = VM!Reserved
  BY <1>6, <1>7 DEF Reserving
<1>9. KernelHolds(s2, Pages(s), W) /\ SameMmu(s, s2)
  BY <1>6, <1>7 DEF Reserving, SameMmu
<1>10. e1 \in Entries \ Pages(s) /\ e2 \in (Entries \ Pages(s)) \ {e1} /\ e1[1] = t /\ e2[1] = t
  <2>1. \A d \in Pages(s) : s.owner[d[1]] = VM!Reserved
    BY <1>0 DEF KernelHolds
  <2>. QED BY <1>8, <2>1, MarksDiffer DEF Entries
<1>. DEFINE V == [d \in Entries |-> IF d \in {e1, e2} THEN 0 ELSE W[d]]
<1>11. /\ V[e1] = 0 /\ V[e2] = 0
       /\ \A d \in Pages(s) : V[d] = W[d]
       /\ \A d \in Pages(s) \cup {e1} : V[d] = V[d]
  <2>1. Pages(s) \subseteq Entries
    BY <1>0 DEF KernelHolds
  <2>. QED BY <1>10, <2>1
<1>. HIDE DEF V
<1>12. Entering(s2, s4, Pages(s), V, e1)
  <2>1. s2.owner[e1[1]] = VM!Reserved /\ e1 \in Entries \ Pages(s)
    BY <1>8, <1>10
  <2>. HIDE DEF e1
  <2>. QED BY <1>5, <1>9, <1>11, <2>1, EnteringIs DEF s3, s4
<1>13. /\ KernelHolds(s4, Pages(s) \cup {e1}, V) /\ SameMmu(s2, s4)
       /\ \A g \in Frames : s2.owner[g] = VM!Reserved => s4.owner[g] = VM!Reserved
  BY <1>12, Zenon DEF Entering
<1>14. Entering(s4, s6, Pages(s) \cup {e1}, V, e2)
  <2>1. s4.owner[e2[1]] = VM!Reserved /\ e2 \in Entries \ (Pages(s) \cup {e1})
    BY <1>8, <1>10, <1>13
  <2>. HIDE DEF e1, e2
  <2>. QED BY <1>5, <1>11, <1>13, <2>1, EnteringIs DEF s5, s6
<1>15. /\ KernelHolds(s6, (Pages(s) \cup {e1}) \cup {e2}, V) /\ SameMmu(s4, s6) /\ InFrame(s6, e2, 0)
       /\ \A g \in Frames : s4.owner[g] = VM!Reserved => s6.owner[g] = VM!Reserved
  BY <1>14, Zenon DEF Entering
<1>16. SameMmu(s, s6) /\ \A g \in Frames : s2.owner[g] = VM!Reserved => s6.owner[g] = VM!Reserved
  BY <1>9, <1>13, <1>15 DEF SameMmu
<1>17. Shaped(s6)
  BY <1>15 DEF KernelHolds
<1>18. /\ Shaped(z) /\ SameKernel(s6, z) /\ z.tlb = s6.tlb /\ z.curr = s6.curr
       /\ z.dir = dir /\ z.dirFrame = dirFrame
  BY <1>1, <1>17 DEF Shaped, MemoryFields, SameKernel
<1>19. entry \in Directory /\ entry[0].present /\ entry[0].base = t /\ DOMAIN entry = DOMAIN blank
       /\ \A d \in DOMAIN entry : entry[d].present => d = 0
  <2>1. 0 \in DOMAIN blank /\ DOMAIN blank = 0..VM!Max({VM!Top(v) : v \in Touched})
    BY DirectoryHolds
  <2>2. t \in Int
    BY <1>8, VMAssumption DEF Frames
  <2>3. blank \in Directory
    BY MarksDiffer DEF Directory
  <2>4. \A d \in DOMAIN blank : blank[d] = VM!Absent
    OBVIOUS
  <2>. HIDE DEF blank
  <2>5. entry \in Directory
    BY <2>2, <2>3 DEF Directory, Pte
  <2>6. \A d \in DOMAIN blank : entry[d] = IF d = 0 THEN [present |-> TRUE, base |-> t] ELSE VM!Absent
    BY <2>4
  <2>. QED BY <2>1, <2>5, <2>6, MarksDiffer
<1>. HIDE DEF entry
<1>20. /\ dir = [p \in VMPids |-> dir[p]] /\ dir[pid] = entry /\ \A p \in VMPids \ {pid} : dir[p] = s.dir[p]
       /\ dirFrame = [p \in VMPids |-> dirFrame[p]] /\ dirFrame[pid] = s1.got
       /\ \A p \in VMPids \ {pid} : dirFrame[p] = s.dirFrame[p]
  <2>1. s6.dir = s.dir /\ s6.dirFrame = s.dirFrame
    BY <1>16 DEF SameMmu
  <2>2. s.dir = [p \in VMPids |-> s.dir[p]] /\ s.dirFrame = [p \in VMPids |-> s.dirFrame[p]]
    BY <1>0 DEF ProcsHold
  <2>. QED BY <2>1, <2>2 DEF dir, dirFrame
<1>21. entry # Null
  BY <1>19, VMAssumption DEF Directory, Pte
<1>22. Live(z) = Live(s) \cup {pid} /\ Live(s) \subseteq VMPids \ {pid}
  BY <1>18, <1>20, <1>21 DEF Live
<1>23. TableOf(z, pid) = t /\ \A p \in Live(s) : TableOf(z, p) = TableOf(s, p)
  BY <1>18, <1>19, <1>20, <1>22 DEF TableOf
<1>24. Pages(z) = (Pages(s) \cup {e1}) \cup {e2}
  <2>1. \A d : d \in Pages(z) <=> \E p \in Live(z), k \in {1, 2} : d = <<TableOf(z, p), k>>
    BY DEF Pages
  <2>2. \A d : d \in Pages(s) <=> \E p \in Live(s), k \in {1, 2} : d = <<TableOf(s, p), k>>
    BY DEF Pages
  <2>3. \A d : d \in Pages(z) <=>
           \/ \E p \in Live(s), k \in {1, 2} : d = <<TableOf(s, p), k>>
           \/ \E k \in {1, 2} : d = <<t, k>>
    BY <1>22, <1>23, <2>1
  <2>. QED BY <2>2, <2>3
<1>. HIDE DEF e1, e2
<1>25. KernelHolds(z, Pages(z), V)
  <2>1. \A e, x : InFrame(z, e, x) = InFrame(s6, e, x) /\ OnDisk(z, e, x) = OnDisk(s6, e, x)
    BY <1>18, Zenon DEF SameKernel, InFrame, OnDisk
  <2>. QED BY <1>15, <1>18, <1>24, <2>1 DEF SameKernel, KernelHolds
<1>26. \A g \in Frames : s.owner[g] = VM!Reserved => z.owner[g] = VM!Reserved
  BY <1>8, <1>16, <1>18 DEF SameKernel
<1>27. z.owner[t] = VM!Reserved /\ z.owner[s1.got] = VM!Reserved
  BY <1>8, <1>16, <1>18 DEF SameKernel
<1>28. ASSUME NEW p \in Live(s)
       PROVE  ProcHolds(z, p)
  <2>1. ProcHolds(s, p)
    BY <1>0 DEF ProcsHold
  <2>2. /\ z.dir[p] = s.dir[p] /\ z.dirFrame[p] = s.dirFrame[p] /\ TableOf(z, p) = TableOf(s, p)
        /\ \A q \in Live(s) : z.dirFrame[q] = s.dirFrame[q] /\ TableOf(z, q) = TableOf(s, q)
    BY <1>18, <1>20, <1>22, <1>23
  <2>3. /\ TableOf(s, p) # t /\ s.dirFrame[p] # t /\ TableOf(s, p) # s1.got /\ s.dirFrame[p] # s1.got
    BY <1>8, <2>1 DEF ProcHolds
  <2>4. z.dirFrame[pid] = s1.got
    BY <1>18, <1>20
  <2>5. z.owner[TableOf(s, p)] = VM!Reserved /\ z.owner[s.dirFrame[p]] = VM!Reserved
    BY <1>26, <2>1 DEF ProcHolds
  <2>. QED BY <1>22, <1>23, <2>1, <2>2, <2>3, <2>4, <2>5 DEF ProcHolds
<1>29. ProcHolds(z, pid)
  <2>1. \A q \in Live(s) : /\ TableOf(s, q) # t /\ s.dirFrame[q] # t
                           /\ TableOf(s, q) # s1.got /\ s.dirFrame[q] # s1.got
    BY <1>0, <1>8 DEF ProcsHold, ProcHolds
  <2>2. \A q \in Live(s) : z.dirFrame[q] = s.dirFrame[q] /\ TableOf(z, q) = TableOf(s, q)
    BY <1>18, <1>20, <1>22, <1>23
  <2>3. z.dir[pid] = entry /\ z.dirFrame[pid] = s1.got
    BY <1>18, <1>20
  <2>. QED BY <1>8, <1>19, <1>22, <1>23, <1>27, <2>1, <2>2, <2>3 DEF ProcHolds
<1>30. ProcsHold(z)
  <2>1. \E f \in Frames : z.owner[f] # VM!Reserved
    <3>1. e2 # VM!Reserved
      BY <1>10, MarksDiffer
    <3>2. \E f \in Frames : s6.owner[f] = e2
      BY <1>15 DEF InFrame
    <3>. QED BY <1>18, <3>1, <3>2 DEF SameKernel
  <2>2. \A p \in Live(z) : ProcHolds(z, p)
    BY <1>22, <1>28, <1>29
  <2>. QED BY <1>18, <1>20, <2>1, <2>2, Zenon DEF ProcsHold
<1>31. TlbHolds(z)
  <2>1. z.curr = s.curr /\ z.tlb = s.tlb
    BY <1>16, <1>18 DEF SameMmu
  <2>2. Nodes(s) \subseteq Nodes(z)
    <3>1. {q \in Live(s) : q = s.curr} \subseteq {q \in Live(z) : q = z.curr}
      BY <1>22, <2>1
    <3>. QED BY <1>23, <3>1 DEF Nodes
  <2>. HIDE DEF Nodes
  <2>. QED BY <1>0, <2>1, <2>2 DEF TlbHolds
<1>32. MmuHolds(z, V)
  BY <1>25, <1>30, <1>31 DEF MmuHolds
<1>33. \A k \in {1, 2} : V[<<TableOf(z, pid), k>>] = 0
  BY <1>11, <1>23 DEF e1, e2
<1>. QED BY <1>11, <1>22, <1>23, <1>32, <1>33

\* A process that is removed gives back the frames of its directory, its table and its
\* pages, and the others keep theirs.
LEMMA RemovedIs ==
    ASSUME NEW s, NEW W, MmuHolds(s, W), NEW pid \in Live(s), NEW z, z = VM!Removed(s, pid)
    PROVE  /\ MmuHolds(z, W) /\ Live(z) = Live(s) \ {pid}
           /\ \A p \in Live(z) : TableOf(z, p) = TableOf(s, p)
<1>. DEFINE t == TableOf(s, pid)
            pdes == {d \in DOMAIN s.dir[pid] : s.dir[pid][d].present}
            tables == {s.dir[pid][d].base : d \in pdes}
            pages == {s.table[g][k].base : g \in tables, k \in 0..TableSize - 1} \ {0}
            gone == ({s.dirFrame[pid]} \cup tables) \cup pages
            owner == [f \in VM!Frames |-> IF f \in gone THEN Null ELSE s.owner[f]]
            dir == [s.dir EXCEPT ![pid] = Null]
            dirFrame == [s.dirFrame EXCEPT ![pid] = 0]
            tlb == IF s.curr = pid THEN <<VM!Sentinel>> ELSE s.tlb
<1>0. KernelHolds(s, Pages(s), W) /\ Shaped(s) /\ ProcsHold(s) /\ TlbHolds(s)
  BY DEF MmuHolds, KernelHolds
<1>1. z = [s EXCEPT !.owner = owner, !.dir = dir, !.dirFrame = dirFrame, !.tlb = tlb]
  BY DEF VM!Removed
<1>2. ProcHolds(s, pid)
  BY <1>0 DEF ProcsHold
<1>3. tables = {t}
  <2>1. 0 \in DOMAIN s.dir[pid]
    BY <1>2, DirectoryHolds DEF ProcHolds, Directory
  <2>2. pdes = {0}
    BY <1>2, <2>1 DEF ProcHolds
  <2>. QED BY <2>2 DEF TableOf
<1>. HIDE DEF t, pdes, tables
<1>4. \A x \in pages : x # 0 /\ \E k \in Slots : x = s.table[t][k].base
  <2>1. pages = {s.table[t][k].base : k \in Slots} \ {0}
    BY <1>3 DEF Slots
  <2>. QED BY <2>1
<1>5. \A k \in Slots : s.table[t][k].base # 0 => s.table[t][k].base \in pages
  BY <1>3 DEF Slots
<1>. HIDE DEF pages
<1>6. gone = ({s.dirFrame[pid]} \cup {t}) \cup pages
  BY <1>3
<1>. USE DEF t
<1>. HIDE DEF gone
<1>7. owner = [f \in Frames |-> owner[f]]
      /\ \A f \in Frames : owner[f] = IF f \in gone THEN Null ELSE s.owner[f]
  BY MarksDiffer
<1>. HIDE DEF owner
<1>8. /\ dir = [p \in VMPids |-> dir[p]] /\ dir[pid] = Null /\ \A p \in VMPids \ {pid} : dir[p] = s.dir[p]
      /\ dirFrame = [p \in VMPids |-> dirFrame[p]]
      /\ \A p \in VMPids \ {pid} : dirFrame[p] = s.dirFrame[p]
  <2>1. s.dir = [p \in VMPids |-> s.dir[p]] /\ s.dirFrame = [p \in VMPids |-> s.dirFrame[p]] /\ pid \in VMPids
    BY <1>0 DEF ProcsHold, Live
  <2>. QED BY <2>1
<1>. HIDE DEF dir, dirFrame, tlb
<1>9. /\ z = [x \in MemoryFields |-> z[x]] /\ z.owner = owner /\ z.dir = dir /\ z.dirFrame = dirFrame
      /\ z.tlb = tlb /\ z.table = s.table /\ z.data = s.data /\ z.disk = s.disk /\ z.curr = s.curr
  <2>1. s = [x \in MemoryFields |-> s[x]]
    BY <1>0 DEF Shaped
  <2>. QED BY <1>1, <2>1 DEF MemoryFields
<1>10. Shaped(z)
  BY <1>0, <1>7, <1>9 DEF Shaped
<1>11. Live(z) = Live(s) \ {pid}
  BY <1>8, <1>9 DEF Live
<1>12. \A p \in Live(z) : TableOf(z, p) = TableOf(s, p) /\ z.dirFrame[p] = s.dirFrame[p] /\ z.dir[p] = s.dir[p]
  BY <1>8, <1>9, <1>11 DEF TableOf, Live
<1>13. \A d : d \in Pages(z) <=> \E p \in Live(s) \ {pid}, k \in {1, 2} : d = <<TableOf(s, p), k>>
  BY <1>11, <1>12 DEF Pages
<1>14. \A d : d \in Pages(s) <=> \E p \in Live(s), k \in {1, 2} : d = <<TableOf(s, p), k>>
  BY DEF Pages
<1>15. \A d : d \in Pages(s) => d \in Pages(z) \/ \E k \in {1, 2} : d = <<t, k>>
  BY <1>13, <1>14
<1>16. Pages(z) \subseteq Pages(s) /\ \A d \in Pages(z) : d[1] # t /\ d[1] # s.dirFrame[pid]
  <2>1. \A p \in Live(s) \ {pid} : TableOf(s, p) # t /\ TableOf(s, p) # s.dirFrame[pid]
    <3>. SUFFICES ASSUME NEW p \in Live(s) \ {pid}
                  PROVE  TableOf(s, p) # t /\ TableOf(s, p) # s.dirFrame[pid]
      OBVIOUS
    <3>1. ProcHolds(s, p)
      BY <1>0 DEF ProcsHold
    <3>. QED BY <3>1 DEF ProcHolds
  <2>. QED BY <1>13, <1>14, <2>1
\* what is in the frames of the pages
<1>17. \A x \in pages : x \in Frames => s.owner[x] \in Pages(s) /\ \E k \in {1, 2} : s.owner[x] = <<t, k>>
  <2>. SUFFICES ASSUME NEW x \in pages, x \in Frames
                PROVE  s.owner[x] \in Pages(s) /\ \E k \in {1, 2} : s.owner[x] = <<t, k>>
    OBVIOUS
  <2>1. PICK k \in Slots : x = s.table[t][k].base /\ x # 0
    BY <1>4
  <2>2. s.table[t][k] # VM!Absent
    BY <2>1, MarksDiffer
  <2>3. t \in Frames /\ s.owner[t] = VM!Reserved
    BY <1>2 DEF ProcHolds
  <2>4. <<t, k>> \in Pages(s)
    BY <1>0, <2>2, <2>3, Zenon DEF KernelHolds
  <2>5. k \in {1, 2}
    BY <1>14, <2>4
  <2>6. InFrame(s, <<t, k>>, W[<<t, k>>])
    <3>1. ~OnDisk(s, <<t, k>>, W[<<t, k>>])
      BY <2>2 DEF OnDisk
    <3>. QED BY <1>0, <2>4, <3>1, Zenon DEF KernelHolds
  <2>7. s.owner[x] = <<t, k>>
    BY <2>1, <2>6 DEF InFrame
  <2>. QED BY <2>4, <2>5, <2>7
<1>18. VM!Reserved \notin Pages(s) /\ Pages(s) \subseteq Entries
  BY <1>0, MarksDiffer DEF KernelHolds
<1>19. \A f \in Frames : f \in gone => s.owner[f] = VM!Reserved \/ s.owner[f] \in Pages(s) \ Pages(z)
  <2>1. s.owner[s.dirFrame[pid]] = VM!Reserved /\ s.owner[t] = VM!Reserved
    BY <1>2 DEF ProcHolds
  <2>2. \A k \in {1, 2} : <<t, k>> \notin Pages(z)
    BY <1>16
  <2>. QED BY <1>6, <1>17, <2>1, <2>2
\* a frame whose owner stays
<1>20. \A f \in Frames : s.owner[f] = VM!Reserved /\ f # t /\ f # s.dirFrame[pid] => z.owner[f] = VM!Reserved
  <2>1. \A f \in Frames : s.owner[f] = VM!Reserved /\ f # t /\ f # s.dirFrame[pid] => f \notin gone
    BY <1>6, <1>17, <1>18
  <2>. QED BY <1>7, <1>9, <2>1
<1>21. \A f \in Frames : s.owner[f] \in Pages(z) => z.owner[f] = s.owner[f]
  BY <1>7, <1>9, <1>16, <1>18, <1>19
<1>22. KernelHolds(z, Pages(z), W)
  <2>1. ASSUME NEW f \in Frames
        PROVE  z.owner[f] \in {Null, VM!Reserved} \cup Pages(z)
    <3>1. CASE f \in gone
      BY <1>7, <1>9, <3>1
    <3>2. CASE f \notin gone
      <4>1. z.owner[f] = s.owner[f] /\ s.owner[f] \in {Null, VM!Reserved} \cup Pages(s)
        BY <1>0, <1>7, <1>9, <3>2 DEF KernelHolds
      <4>2. ASSUME s.owner[f] \in Pages(s) \ Pages(z)
            PROVE  FALSE
        <5>1. PICK k \in {1, 2} : s.owner[f] = <<t, k>>
          BY <1>15, <4>2
        <5>2. s.table[s.owner[f][1]][s.owner[f][2]] = [present |-> TRUE, base |-> f]
          BY <1>0, <4>2, Zenon DEF KernelHolds
        <5>3. s.table[t][k].base = f /\ k \in Slots /\ f # 0
          BY <5>1, <5>2, MarksDiffer
        <5>4. f \in pages
          BY <1>5, <5>3
        <5>. QED BY <1>6, <3>2, <5>4
      <4>. QED BY <4>1, <4>2
    <3>. QED BY <3>1, <3>2
  <2>2. ASSUME NEW e \in Pages(z)
        PROVE  z.owner[e[1]] = VM!Reserved /\ (InFrame(z, e, W[e]) \/ OnDisk(z, e, W[e]))
    <3>1. e \in Pages(s) /\ e[1] # t /\ e[1] # s.dirFrame[pid] /\ e[1] \in Frames
      BY <1>16, <1>18 DEF Entries
    <3>2. s.owner[e[1]] = VM!Reserved /\ (InFrame(s, e, W[e]) \/ OnDisk(s, e, W[e]))
      BY <1>0, <3>1, Zenon DEF KernelHolds
    <3>3. z.owner[e[1]] = VM!Reserved
      BY <1>20, <3>1, <3>2
    <3>4. CASE InFrame(s, e, W[e])
      <4>. DEFINE f == s.table[e[1]][e[2]].base
      <4>1. f \in Frames /\ s.owner[f] = e /\ s.data[f] = W[e] /\ s.table[e[1]][e[2]].present
        BY <3>4, Zenon DEF InFrame
      <4>2. z.owner[f] = e
        BY <1>21, <4>1
      <4>. QED BY <1>9, <3>3, <4>1, <4>2, Zenon DEF InFrame
    <3>5. CASE OnDisk(s, e, W[e])
      BY <1>9, <3>3, <3>5, Zenon DEF OnDisk
    <3>. QED BY <3>2, <3>4, <3>5
  <2>3. \A f \in Frames : z.owner[f] # Null => z.owner[f] = s.owner[f] /\ f \notin gone
    BY <1>7, <1>9
  <2>4. ASSUME NEW f \in Frames, z.owner[f] \in Pages(z)
        PROVE  z.table[z.owner[f][1]][z.owner[f][2]] = [present |-> TRUE, base |-> f]
    <3>1. z.owner[f] # Null
      BY <1>16, <1>18, <2>4, MarksDiffer
    <3>2. z.owner[f] = s.owner[f] /\ s.owner[f] \in Pages(s)
      BY <1>16, <2>3, <2>4, <3>1
    <3>3. s.table[s.owner[f][1]][s.owner[f][2]] = [present |-> TRUE, base |-> f]
      BY <1>0, <3>2, Zenon DEF KernelHolds
    <3>. QED BY <1>9, <3>2, <3>3
  <2>5. ASSUME NEW f \in Frames, NEW k \in Slots, z.owner[f] = VM!Reserved, <<f, k>> \notin Pages(z)
        PROVE  z.table[f][k] = VM!Absent
    <3>1. s.owner[f] = VM!Reserved /\ f \notin gone
      BY <2>3, <2>5, MarksDiffer
    <3>2. <<f, k>> \notin Pages(s)
      BY <1>6, <1>15, <2>5, <3>1
    <3>3. s.table[f][k] = VM!Absent
      BY <1>0, <3>1, <3>2, Zenon DEF KernelHolds
    <3>. QED BY <1>9, <3>3
  <2>6. Pages(z) \subseteq Entries
    BY <1>16, <1>18
  <2>. QED BY <1>10, <2>1, <2>2, <2>4, <2>5, <2>6, Zenon DEF KernelHolds
<1>23. ProcsHold(z)
  <2>1. ASSUME NEW p \in Live(z)
        PROVE  ProcHolds(z, p)
    <3>1. ProcHolds(s, p) /\ p \in Live(s) /\ p # pid /\ pid \in Live(s)
      BY <1>0, <1>11 DEF ProcsHold
    <3>2. TableOf(z, p) = TableOf(s, p) /\ z.dirFrame[p] = s.dirFrame[p] /\ z.dir[p] = s.dir[p]
      BY <1>12
    <3>3. \A q \in Live(z) : q \in Live(s) /\ TableOf(z, q) = TableOf(s, q) /\ z.dirFrame[q] = s.dirFrame[q]
      BY <1>11, <1>12
    <3>4. t # s.dirFrame[p] /\ TableOf(s, p) # t /\ TableOf(s, p) # s.dirFrame[pid]
          /\ s.dirFrame[p] # s.dirFrame[pid]
      BY <1>2, <3>1 DEF ProcHolds
    <3>5. z.owner[TableOf(s, p)] = VM!Reserved /\ z.owner[s.dirFrame[p]] = VM!Reserved
      BY <1>20, <3>1, <3>4 DEF ProcHolds
    <3>. QED BY <3>1, <3>2, <3>3, <3>5 DEF ProcHolds
  <2>2. \E f \in Frames : z.owner[f] # VM!Reserved
    <3>1. t \in Frames /\ t \in gone
      BY <1>2, <1>6 DEF ProcHolds
    <3>. QED BY <1>7, <1>9, <3>1, MarksDiffer
  <2>. QED BY <1>8, <1>9, <2>1, <2>2, Zenon DEF ProcsHold
<1>24. TlbHolds(z)
  <2>1. CASE s.curr = pid
    <3>1. z.tlb = <<VM!Sentinel>> /\ VM!Sentinel \in Nodes(z)
      BY <1>9, <2>1 DEF Nodes, tlb
    <3>. HIDE DEF Nodes
    <3>. QED BY <3>1 DEF TlbHolds
  <2>2. CASE s.curr # pid
    <3>1. z.tlb = s.tlb /\ z.curr = s.curr
      BY <1>9, <2>2 DEF tlb
    <3>2. Nodes(s) \subseteq Nodes(z)
      <4>1. {q \in Live(s) : q = s.curr} = {q \in Live(z) : q = z.curr}
        BY <1>11, <2>2, <3>1
      <4>2. \A q \in {p \in Live(z) : p = z.curr} : TableOf(z, q) = TableOf(s, q)
        BY <1>12
      <4>. QED BY <4>1, <4>2 DEF Nodes
    <3>. HIDE DEF Nodes
    <3>. QED BY <1>0, <3>1, <3>2 DEF TlbHolds
  <2>. QED BY <2>1, <2>2
<1>25. MmuHolds(z, W)
  BY <1>22, <1>23, <1>24 DEF MmuHolds
<1>. QED BY <1>11, <1>12, <1>25

\* What holds of the virtual memory while nothing is lost: what stands on the pages is
\* what the processes wrote, and the last read got it.
VMHolds(s, sh) == \E W : MmuHolds(s, W) /\ Shadowed(s, sh, W)
VMInv ==
    /\ v2 = [p \in VMPids |-> v2[p]] /\ \A p \in VMPids : v2[p] = [v \in Touched |-> v2[p][v]]
    /\ ~v1.lost => VMHolds(v1, v2) /\ v3.got = v3.want

\* At first there is no process, every frame is free and nothing is on the disk.
LEMMA VMStarts ==
    ASSUME VM!Init
    PROVE  VMInv
<1>1. /\ v1.dir = [p \in VMPids |-> Null] /\ v1.dirFrame = [p \in VMPids |-> 0]
      /\ v1.table = [f \in VM!Frames |-> VM!BlankTable] /\ v1.data = [f \in VM!Frames |-> 0]
      /\ v1.owner = [f \in VM!Frames |-> Null] /\ v1.tlb = <<VM!Sentinel>>
      /\ v1 = [x \in MemoryFields |-> v1[x]]
  BY DEF VM!Init, MemoryFields
<1>2. Shaped(v1)
  <2>1. VM!BlankTable \in [Slots -> Pte]
    BY MarksDiffer DEF VM!BlankTable, Slots
  <2>. QED BY <1>1, <2>1, MarksDiffer DEF Shaped
<1>3. Live(v1) = {}
  BY <1>1 DEF Live
<1>4. Pages(v1) = {}
  BY <1>3 DEF Pages
<1>5. KernelHolds(v1, {}, {})
  BY <1>1, <1>2, MarksDiffer DEF KernelHolds
<1>6. ProcsHold(v1)
  BY <1>1, <1>3 DEF ProcsHold
<1>7. TlbHolds(v1)
  <2>1. VM!Sentinel \in Nodes(v1)
    BY DEF Nodes
  <2>. HIDE DEF Nodes
  <2>. QED BY <1>1, <2>1 DEF TlbHolds
<1>8. MmuHolds(v1, {}) /\ Shadowed(v1, v2, {})
  BY <1>3, <1>4, <1>5, <1>6, <1>7 DEF MmuHolds, Shadowed
<1>. QED BY <1>8 DEF VMInv, VMHolds, VM!Init

\* No call disturbs it.
LEMMA VMStep ==
    ASSUME VMInv, VM!Next
    PROVE  VMInv'
<1>0. ~v1.lost
  BY DEF VM!Next
<1>1. PICK W : MmuHolds(v1, W) /\ Shadowed(v1, v2, W)
  BY <1>0 DEF VMInv, VMHolds
<1>2. v3.got = v3.want
  BY <1>0 DEF VMInv
<1>3. \A p : p \in Live(v1) <=> p \in VMPids /\ v1.dir[p] # Null
  BY DEF Live
<1>4. PICK pid \in VMPids :
         \/ VM!AddProcess(pid) \/ VM!RemoveProcess(pid)
         \/ \E page \in Touched : VM!Read(pid, page) \/ \E value \in PageValues : VM!Write(pid, page, value)
  BY DEF VM!Next
<1>5. ASSUME VM!AddProcess(pid)
      PROVE  VMInv'
  <2>1. /\ v1.dir[pid] = Null /\ v1' = VM!Added(v1, pid)
        /\ v2' = [v2 EXCEPT ![pid] = [v \in Touched |-> 0]] /\ v3' = v3
    BY <1>5 DEF VM!AddProcess
  <2>2. /\ v2' = [p \in VMPids |-> v2'[p]] /\ v2'[pid] = [v \in Touched |-> 0]
        /\ \A p \in VMPids \ {pid} : v2'[p] = v2[p]
    BY <2>1 DEF VMInv
  <2>3. \A p \in VMPids : v2'[p] = [v \in Touched |-> v2'[p][v]]
    BY <2>2 DEF VMInv
  <2>4. ASSUME ~v1'.lost
        PROVE  VMHolds(v1, v2)'
    <3>1. pid \notin Live(v1)
      BY <1>3, <2>1
    <3>2. /\ Live(v1') = Live(v1) \cup {pid}
          /\ \A p \in Live(v1) : TableOf(v1', p) = TableOf(v1, p)
          /\ \E V : /\ MmuHolds(v1', V) /\ \A d \in Pages(v1) : V[d] = W[d]
                    /\ \A k \in {1, 2} : V[<<TableOf(v1', pid), k>>] = 0
      BY <1>1, <2>1, <2>4, <3>1, AddedIs
    <3>3. PICK V : /\ MmuHolds(v1', V) /\ \A d \in Pages(v1) : V[d] = W[d]
                   /\ \A k \in {1, 2} : V[<<TableOf(v1', pid), k>>] = 0
      BY <3>2
    <3>4. Shadowed(v1', v2', V)
      <4>. SUFFICES ASSUME NEW p \in Live(v1'), NEW k \in {1, 2} \cap Touched
                    PROVE  V[<<TableOf(v1', p), k>>] = v2'[p][k]
        BY DEF Shadowed
      <4>1. CASE p = pid
        BY <2>2, <3>3, <4>1
      <4>2. CASE p # pid
        <5>1. p \in Live(v1) /\ p \in VMPids /\ <<TableOf(v1, p), k>> \in Pages(v1)
          BY <1>3, <3>2, <4>2 DEF Pages
        <5>. QED BY <1>1, <2>2, <3>2, <3>3, <4>2, <5>1 DEF Shadowed
      <4>. QED BY <4>1, <4>2
    <3>. QED BY <3>3, <3>4 DEF VMHolds
  <2>. QED BY <1>2, <2>1, <2>2, <2>3, <2>4 DEF VMInv
<1>6. ASSUME VM!RemoveProcess(pid)
      PROVE  VMInv'
  <2>1. v1.dir[pid] # Null /\ v1' = VM!Removed(v1, pid) /\ v2' = v2 /\ v3' = v3
    BY <1>6 DEF VM!RemoveProcess
  <2>2. /\ MmuHolds(v1', W) /\ Live(v1') = Live(v1) \ {pid}
        /\ \A p \in Live(v1') : TableOf(v1', p) = TableOf(v1, p)
    BY <1>1, <1>3, <2>1, RemovedIs
  <2>3. Shadowed(v1', v2', W)
    BY <1>1, <2>1, <2>2 DEF Shadowed
  <2>4. VMHolds(v1, v2)'
    BY <2>2, <2>3 DEF VMHolds
  <2>. QED BY <1>2, <2>1, <2>4 DEF VMInv
<1>7. ASSUME NEW page \in Touched, VM!Read(pid, page)
      PROVE  VMInv'
  <2>. DEFINE e == <<TableOf(v1, pid), page>>
  <2>1. /\ v1.dir[pid] # Null /\ v1' = VM!ReadFrom(v1, pid, page) /\ v2' = v2
        /\ v3' = [got |-> v1'.got, want |-> v2[pid][page]]
    BY <1>7 DEF VM!Read
  <2>2. Done(v1, v1', W, W, e, FALSE) /\ pid \in Live(v1)
    BY <1>1, <1>3, <2>1, ReadFromIs
  <2>3. ASSUME ~v1'.lost
        PROVE  VMHolds(v1, v2)' /\ v3'.got = v3'.want
    <3>1. /\ e \in Pages(v1) /\ MmuHolds(v1', W) /\ v1'.got = W[e]
          /\ v1'.dir = v1.dir /\ Live(v1') = Live(v1)
      BY <2>2, <2>3 DEF Done
    <3>2. page \in {1, 2} \cap Touched
      BY <3>1 DEF Pages
    <3>3. W[e] = v2[pid][page]
      BY <1>1, <2>2, <3>2 DEF Shadowed
    <3>4. Shadowed(v1', v2', W)
      BY <1>1, <2>1, <3>1 DEF Shadowed, TableOf
    <3>. QED BY <2>1, <3>1, <3>3, <3>4 DEF VMHolds
  <2>. QED BY <2>1, <2>3 DEF VMInv
<1>8. ASSUME NEW page \in Touched, NEW value \in PageValues, VM!Write(pid, page, value)
      PROVE  VMInv'
  <2>. DEFINE e == <<TableOf(v1, pid), page>>
              V == [d \in Pages(v1) \cup {e} |-> IF d = e THEN value ELSE W[d]]
  <2>1. /\ v1.dir[pid] # Null /\ v1' = VM!WriteTo(v1, pid, page, value)
        /\ v2' = [v2 EXCEPT ![pid][page] = value] /\ v3' = v3
    BY <1>8 DEF VM!Write
  <2>2. /\ v2' = [p \in VMPids |-> v2'[p]] /\ \A p \in VMPids : v2'[p] = [v \in Touched |-> v2'[p][v]]
        /\ \A p \in VMPids, v \in Touched :
              v2'[p][v] = IF p = pid /\ v = page THEN value ELSE v2[p][v]
    BY <2>1 DEF VMInv
  <2>3. V[e] = value /\ \A d \in Pages(v1) \ {e} : V[d] = W[d]
    OBVIOUS
  <2>. HIDE DEF V
  <2>4. Changes(v1, W, V, e, TRUE, value)
    BY <2>3 DEF Changes
  <2>5. Done(v1, v1', W, V, e, TRUE) /\ pid \in Live(v1)
    BY <1>1, <1>3, <2>1, <2>4, WriteToIs
  <2>6. ASSUME ~v1'.lost
        PROVE  VMHolds(v1, v2)'
    <3>1. e \in Pages(v1) /\ MmuHolds(v1', V) /\ v1'.dir = v1.dir /\ Live(v1') = Live(v1)
      BY <2>5, <2>6 DEF Done
    <3>2. ProcsHold(v1)
      BY <1>1 DEF MmuHolds
    <3>3. Shadowed(v1', v2', V)
      <4>. SUFFICES ASSUME NEW p \in Live(v1), NEW k \in {1, 2} \cap Touched
                    PROVE  V[<<TableOf(v1, p), k>>] = v2'[p][k]
        BY <3>1 DEF Shadowed, TableOf
      <4>1. CASE p = pid /\ k = page
        BY <2>2, <2>3, <4>1
      <4>2. CASE ~(p = pid /\ k = page)
        <5>1. p # pid => TableOf(v1, p) # TableOf(v1, pid)
          BY <2>5, <3>2 DEF ProcsHold, ProcHolds
        <5>2. <<TableOf(v1, p), k>> \in Pages(v1) \ {e}
          BY <4>2, <5>1 DEF Pages
        <5>3. V[<<TableOf(v1, p), k>>] = W[<<TableOf(v1, p), k>>]
          BY <2>3, <5>2
        <5>. QED BY <1>1, <1>3, <2>2, <4>2, <5>3 DEF Shadowed
      <4>. QED BY <4>1, <4>2
    <3>. QED BY <3>1, <3>3 DEF VMHolds
  <2>. QED BY <1>2, <2>1, <2>2, <2>6 DEF VMInv
<1>. QED BY <1>4, <1>5, <1>6, <1>7, <1>8

\* Hence the property.
LEMMA VMReads ==
    ASSUME VMInv
    PROVE  VM!ReadsSeeWrites
BY DEF VMInv, VM!ReadsSeeWrites

-----------------------------------------------------------------------------
(* malloc. *)

\* The headers, as alloc.c declares them, and where they lie.
Headers == [size : Nat, free : {0, 1}, prev : Nat \cup {Null}, next : Nat \cup {Null},
           prevFree : Nat \cup {Null}, nextFree : Nat \cup {Null}]
Heaped(h) ==
    /\ h = [at |-> h.at, head |-> h.head, end |-> h.end, freeHead |-> h.freeHead, freeEnd |-> h.freeEnd]
    /\ DOMAIN h.at \subseteq Nat /\ IsFiniteSet(DOMAIN h.at)
    /\ h.at \in [DOMAIN h.at -> Headers]

\* Where the block after p begins.
After(h, p) == p + StructSize + h.at[p].size

\* The blocks tile the heap up to the program break b: the links in both directions
\* go from each to its neighbour, and none begins inside another.
Tiled(h, b) ==
    /\ h.head = 0 /\ 0 \in DOMAIN h.at /\ h.at[0].prev = Null
    /\ h.end \in DOMAIN h.at /\ h.at[h.end].next = Null /\ After(h, h.end) = b
    /\ \A p \in DOMAIN h.at : p # h.end =>
          h.at[p].next = After(h, p) /\ After(h, p) \in DOMAIN h.at /\ h.at[After(h, p)].prev = p
    /\ \A p \in DOMAIN h.at : p # 0 =>
          h.at[p].prev \in DOMAIN h.at /\ h.at[p].prev # h.end /\ h.at[h.at[p].prev].next = p
    /\ \A p, q \in DOMAIN h.at : p < q => After(h, p) <= q
    /\ \A p \in DOMAIN h.at : After(h, p) <= b

\* The free list is f, from freeHead to freeEnd, with n blocks, which are those of F.
Linked(h, F, n, f) ==
    /\ n \in Nat /\ f \in [0..(n - 1) -> DOMAIN h.at]
    /\ \A q : q \in F <=> \E i \in 0..(n - 1) : f[i] = q
    /\ \A i, k \in 0..(n - 1) : f[i] = f[k] => i = k
    /\ h.freeHead = IF n = 0 THEN Null ELSE f[0]
    /\ h.freeEnd = IF n = 0 THEN Null ELSE f[n - 1]
    /\ \A i \in 0..(n - 1) :
          /\ h.at[f[i]].prevFree = IF i = 0 THEN Null ELSE f[i - 1]
          /\ h.at[f[i]].nextFree = IF i = n - 1 THEN Null ELSE f[i + 1]
Listed(h, F) == \E n \in Nat : \E f \in [0..(n - 1) -> DOMAIN h.at] : Linked(h, F, n, f)

\* What the helpers keep: a heap up to b, whose free list has the blocks of F.  The
\* headers' marks say the same of a block only between the calls.
Sound(h, b, F) == Heaped(h) /\ Tiled(h, b) /\ Listed(h, F)

\* g has h's blocks, whatever lists they are on.
SameBlocks(g, h) ==
    /\ g.head = h.head /\ g.end = h.end /\ DOMAIN g.at = DOMAIN h.at
    /\ \A q \in DOMAIN h.at : g.at[q].size = h.at[q].size /\ g.at[q].prev = h.at[q].prev /\ g.at[q].next = h.at[q].next

\* So does g, and p alone has got another mark.
MarkedOnly(g, h, p, x) ==
    SameBlocks(g, h) /\ \A q \in DOMAIN h.at : g.at[q].free = IF q = p THEN x ELSE h.at[q].free

\* g has one block for p and q of h, and the other blocks of h ...
OneBlock(g, h, p, q) ==
    /\ DOMAIN g.at = DOMAIN h.at \ {q} /\ p # q
    /\ g.at[p].size = h.at[p].size + h.at[q].size + StructSize /\ g.at[p].free = 0
    /\ g.at[p].next = h.at[q].next
    /\ \A r \in DOMAIN h.at \ {p, q} : g.at[r].size = h.at[r].size /\ g.at[r].free = h.at[r].free

\* ... or p, cut down to size, and a free block at rest for p of h.
TwoBlocks(g, h, p, size, rest) ==
    /\ DOMAIN g.at = DOMAIN h.at \cup {rest} /\ rest \notin DOMAIN h.at
    /\ g.at[p].size = size /\ g.at[rest].free = 0
    /\ \A r \in DOMAIN h.at : g.at[r].free = h.at[r].free
    /\ \A r \in DOMAIN h.at \ {p} : g.at[r].size = h.at[r].size

\* Only the blocks matter to the tiling.
LEMMA SameTiling ==
    ASSUME NEW g, NEW h, NEW b, SameBlocks(g, h), Tiled(h, b)
    PROVE  Tiled(g, b)
BY DEF SameBlocks, Tiled, After

\* removefromlist marks the block and clears its links; the blocks before and behind it
\* in the list are linked to each other.
LEMMA UnlistedIs ==
    ASSUME NEW h, Heaped(h), NEW p \in DOMAIN h.at
    PROVE  LET g == Malloc!RemoveFromList(h, p)
           IN  /\ Heaped(g) /\ SameBlocks(g, h)
               /\ \A q \in DOMAIN h.at : g.at[q].free = IF q = p THEN 1 ELSE h.at[q].free
               /\ \A q \in DOMAIN h.at \ {p} :
                    /\ g.at[q].nextFree = IF p # h.freeHead /\ q = h.at[p].prevFree THEN h.at[p].nextFree ELSE h.at[q].nextFree
                    /\ g.at[q].prevFree = IF p # h.freeEnd /\ q = h.at[p].nextFree THEN h.at[p].prevFree ELSE h.at[q].prevFree
               /\ g.freeHead = IF p = h.freeHead THEN h.at[p].nextFree ELSE h.freeHead
               /\ g.freeEnd = IF p = h.freeEnd THEN h.at[p].prevFree ELSE h.freeEnd
<1>. DEFINE b == h.at[p]
            taken == [h.at EXCEPT ![p] = [b EXCEPT !.free = 1, !.prevFree = Null, !.nextFree = Null]]
            bridged == [q \in DOMAIN taken |->
                      [taken[q] EXCEPT !.nextFree = IF p # h.freeHead /\ q = b.prevFree THEN b.nextFree ELSE @,
                                       !.prevFree = IF p # h.freeEnd /\ q = b.nextFree THEN b.prevFree ELSE @]]
            g == Malloc!RemoveFromList(h, p)
<1>1. g = [h EXCEPT !.at = bridged, !.freeHead = IF p = @ THEN b.nextFree ELSE @,
                    !.freeEnd = IF p = @ THEN b.prevFree ELSE @]
  BY DEF Malloc!RemoveFromList
<1>2. /\ DOMAIN taken = DOMAIN h.at
      /\ \A q \in DOMAIN h.at : q # p => taken[q] = h.at[q]
      /\ taken[p] = [b EXCEPT !.free = 1, !.prevFree = Null, !.nextFree = Null]
      /\ taken \in [DOMAIN h.at -> Headers]
  BY DEF Heaped, Headers
<1>3. \A q \in DOMAIN h.at : LET c == bridged[q]
        IN  /\ c \in Headers
            /\ c.free = taken[q].free /\ c.size = taken[q].size /\ c.prev = taken[q].prev /\ c.next = taken[q].next
            /\ c.nextFree = IF p # h.freeHead /\ q = b.prevFree THEN b.nextFree ELSE taken[q].nextFree
            /\ c.prevFree = IF p # h.freeEnd /\ q = b.nextFree THEN b.prevFree ELSE taken[q].prevFree
  <2>. SUFFICES ASSUME NEW q \in DOMAIN h.at
                PROVE  LET c == bridged[q]
        IN  /\ c \in Headers
            /\ c.free = taken[q].free /\ c.size = taken[q].size /\ c.prev = taken[q].prev /\ c.next = taken[q].next
            /\ c.nextFree = IF p # h.freeHead /\ q = b.prevFree THEN b.nextFree ELSE taken[q].nextFree
            /\ c.prevFree = IF p # h.freeEnd /\ q = b.nextFree THEN b.prevFree ELSE taken[q].prevFree
    OBVIOUS
  <2>1. taken[q] \in Headers /\ b \in Headers
    BY <1>2 DEF Heaped
  <2>2. bridged[q] = [taken[q] EXCEPT !.nextFree = IF p # h.freeHead /\ q = b.prevFree THEN b.nextFree ELSE @,
                                       !.prevFree = IF p # h.freeEnd /\ q = b.nextFree THEN b.prevFree ELSE @]
    BY <1>2
  <2>. HIDE DEF bridged, taken, b
  <2>. QED BY <2>1, <2>2 DEF Headers
<1>4. DOMAIN bridged = DOMAIN h.at /\ bridged = [q \in DOMAIN h.at |-> bridged[q]]
  <2>. HIDE DEF taken, b
  <2>. QED BY <1>2
<1>5. \A q \in DOMAIN h.at : /\ taken[q].size = h.at[q].size /\ taken[q].prev = h.at[q].prev /\ taken[q].next = h.at[q].next
        /\ taken[q].free = IF q = p THEN 1 ELSE h.at[q].free
  BY <1>2 DEF Heaped, Headers
<1>6. /\ g.at = bridged /\ g.head = h.head /\ g.end = h.end
      /\ g = [at |-> g.at, head |-> g.head, end |-> g.end, freeHead |-> g.freeHead, freeEnd |-> g.freeEnd]
      /\ g.freeHead = IF p = h.freeHead THEN b.nextFree ELSE h.freeHead
      /\ g.freeEnd = IF p = h.freeEnd THEN b.prevFree ELSE h.freeEnd
  <2>. HIDE DEF bridged, b, taken, g
  <2>. QED BY <1>1 DEF Heaped
<1>7. Heaped(g) /\ SameBlocks(g, h)
  <2>. HIDE DEF bridged, b, taken, g
  <2>. QED BY <1>3, <1>4, <1>5, <1>6 DEF Heaped, SameBlocks
<1>8. /\ \A q \in DOMAIN h.at : g.at[q].free = IF q = p THEN 1 ELSE h.at[q].free
      /\ \A q \in DOMAIN h.at \ {p} :
           /\ g.at[q].nextFree = IF p # h.freeHead /\ q = b.prevFree THEN b.nextFree ELSE h.at[q].nextFree
           /\ g.at[q].prevFree = IF p # h.freeEnd /\ q = b.nextFree THEN b.prevFree ELSE h.at[q].prevFree
  <2>. HIDE DEF bridged, taken, b, g
  <2>1. \A q \in DOMAIN h.at \ {p} : taken[q] = h.at[q]
    BY <1>2
  <2>. QED BY <2>1, <1>3, <1>5, <1>6
<1>. HIDE DEF bridged, taken
<1>. QED BY <1>6, <1>7, <1>8

\* removefromlist takes one block off the list and leaves the others in their order.
LEMMA RemovedKeeps ==
    ASSUME NEW h, NEW b, NEW F, Sound(h, b, F), NEW p \in F
    PROVE  LET g == Malloc!RemoveFromList(h, p)
           IN  Sound(g, b, F \ {p}) /\ p \in DOMAIN h.at /\ MarkedOnly(g, h, p, 1)
<1>. DEFINE g == Malloc!RemoveFromList(h, p)
<1>1. PICK n \in Nat : \E f \in [0..(n - 1) -> DOMAIN h.at] : Linked(h, F, n, f)
  BY DEF Sound, Listed
<1>2. PICK f \in [0..(n - 1) -> DOMAIN h.at] : Linked(h, F, n, f)
  BY <1>1
<1>3. PICK k \in 0..(n - 1) : f[k] = p
  BY <1>2 DEF Linked
<1>4. p \in DOMAIN h.at /\ Heaped(h) /\ Tiled(h, b)
  BY <1>3 DEF Sound
<1>5. /\ Heaped(g) /\ SameBlocks(g, h)
      /\ \A q \in DOMAIN h.at : g.at[q].free = IF q = p THEN 1 ELSE h.at[q].free
      /\ \A q \in DOMAIN h.at \ {p} :
           /\ g.at[q].nextFree = IF p # h.freeHead /\ q = h.at[p].prevFree THEN h.at[p].nextFree ELSE h.at[q].nextFree
           /\ g.at[q].prevFree = IF p # h.freeEnd /\ q = h.at[p].nextFree THEN h.at[p].prevFree ELSE h.at[q].prevFree
      /\ g.freeHead = IF p = h.freeHead THEN h.at[p].nextFree ELSE h.freeHead
      /\ g.freeEnd = IF p = h.freeEnd THEN h.at[p].prevFree ELSE h.freeEnd
  BY <1>4, UnlistedIs
<1>. DEFINE m == n - 1
            e == [i \in 0..(m - 1) |-> IF i < k THEN f[i] ELSE f[i + 1]]
<1>. HIDE DEF g
<1>6. m \in Nat /\ DOMAIN g.at = DOMAIN h.at
  BY <1>3, <1>5 DEF SameBlocks
<1>7. e \in [0..(m - 1) -> DOMAIN g.at]
  BY <1>3, <1>6
<1>8. \A i \in 0..(m - 1) : e[i] = IF i < k THEN f[i] ELSE f[i + 1]
  OBVIOUS
<1>9. Null \notin Nat /\ DOMAIN h.at \subseteq Nat
  BY <1>4, MallocAssumption DEF Heaped
<1>. HIDE DEF e
<1>10. Linked(g, F \ {p}, m, e)
  <2>1. \A q : q \in F \ {p} <=> \E i \in 0..(m - 1) : e[i] = q
    <3>1. ASSUME NEW q \in F \ {p}
          PROVE  \E i \in 0..(m - 1) : e[i] = q
      <4>1. PICK i \in 0..(n - 1) : f[i] = q
        BY <1>2 DEF Linked
      <4>2. CASE i < k
        BY <4>1, <4>2, <1>8, <1>3
      <4>3. CASE i > k
        <5>1. i - 1 \in 0..(m - 1) /\ ~(i - 1 < k) /\ (i - 1) + 1 = i
          BY <4>3, <1>3
        <5>. QED BY <5>1, <4>1, <1>8
      <4>. QED BY <4>1, <4>2, <4>3, <1>3
    <3>2. ASSUME NEW i \in 0..(m - 1)
          PROVE  e[i] \in F \ {p}
      <4>1. i # k => f[i] # p
        BY <1>2, <1>3 DEF Linked
      <4>2. i + 1 \in 0..(n - 1) /\ i \in 0..(n - 1) /\ (i + 1 = k => i < k)
        BY <1>3
      <4>3. f[i] \in F /\ f[i + 1] \in F
        BY <4>2, <1>2 DEF Linked
      <4>4. ~(i < k) => f[i + 1] # p
        BY <4>2, <1>2, <1>3 DEF Linked
      <4>5. i < k => f[i] # p
        BY <4>1, <1>3
      <4>. QED BY <4>3, <4>4, <4>5, <1>8
    <3>. QED BY <3>1, <3>2
  <2>2. \A i, j \in 0..(m - 1) : e[i] = e[j] => i = j
    <3>1. \A i, j \in 0..(n - 1) : f[i] = f[j] => i = j
      BY <1>2 DEF Linked
    <3>. QED BY <3>1, <1>3, <1>8
  <2>3. /\ g.freeHead = IF m = 0 THEN Null ELSE e[0]
        /\ g.freeEnd = IF m = 0 THEN Null ELSE e[m - 1]
    <3>1. p = h.freeHead <=> k = 0
      BY <1>2, <1>3 DEF Linked
    <3>2. p = h.freeEnd <=> k = n - 1
      BY <1>2, <1>3 DEF Linked
    <3>3. h.at[p].prevFree = (IF k = 0 THEN Null ELSE f[k - 1]) /\ h.at[p].nextFree = (IF k = n - 1 THEN Null ELSE f[k + 1])
      BY <1>2, <1>3 DEF Linked
    <3>4. h.freeHead = f[0] /\ h.freeEnd = f[n - 1]
      BY <1>2, <1>3 DEF Linked
    <3>5. g.freeHead = IF m = 0 THEN Null ELSE e[0]
      <4>1. CASE k = 0
        BY <4>1, <3>1, <3>3, <1>3, <1>5, <1>8
      <4>2. CASE k # 0
        BY <4>2, <3>1, <3>4, <1>3, <1>5, <1>8
      <4>. QED BY <4>1, <4>2
    <3>6. g.freeEnd = IF m = 0 THEN Null ELSE e[m - 1]
      <4>1. CASE k = n - 1
        BY <4>1, <3>2, <3>3, <1>3, <1>5, <1>8
      <4>2. CASE k # n - 1
        BY <4>2, <3>2, <3>4, <1>3, <1>5, <1>8
      <4>. QED BY <4>1, <4>2
    <3>. QED BY <3>5, <3>6
  <2>4. ASSUME NEW i \in 0..(m - 1)
        PROVE  /\ g.at[e[i]].prevFree = IF i = 0 THEN Null ELSE e[i - 1]
               /\ g.at[e[i]].nextFree = IF i = m - 1 THEN Null ELSE e[i + 1]
    <3>1. p # h.freeHead <=> k # 0
      BY <1>2, <1>3 DEF Linked
    <3>2. p # h.freeEnd <=> k # n - 1
      BY <1>2, <1>3 DEF Linked
    <3>3. h.at[p].prevFree = (IF k = 0 THEN Null ELSE f[k - 1]) /\ h.at[p].nextFree = (IF k = n - 1 THEN Null ELSE f[k + 1])
      BY <1>2, <1>3 DEF Linked
    <3>. DEFINE j == IF i < k THEN i ELSE i + 1
    <3>4. j \in 0..(n - 1) /\ j # k /\ e[i] = f[j]
      BY <1>3, <1>8
    <3>5. f[j] \in DOMAIN h.at \ {p} /\ f[j] # Null
      <4>. HIDE DEF j, m
      <4>1. f[j] # f[k]
        BY <3>4, <1>2, <1>3 DEF Linked
      <4>2. f[j] \in DOMAIN h.at
        BY <3>4
      <4>. QED BY <4>1, <4>2, <1>3, <1>9
    <3>6. h.at[f[j]].prevFree = (IF j = 0 THEN Null ELSE f[j - 1]) /\ h.at[f[j]].nextFree = (IF j = n - 1 THEN Null ELSE f[j + 1])
      BY <3>4, <1>2 DEF Linked
    <3>7. k # 0 => (f[j] = f[k - 1] <=> j = k - 1)
      BY <3>4, <1>2, <1>3 DEF Linked
    <3>8. k # n - 1 => (f[j] = f[k + 1] <=> j = k + 1)
      BY <3>4, <1>2, <1>3 DEF Linked
    <3>9. g.at[f[j]].nextFree = IF k # 0 /\ j = k - 1 THEN h.at[p].nextFree ELSE h.at[f[j]].nextFree
      BY <3>1, <3>3, <3>5, <3>7, <1>5
    <3>10. g.at[f[j]].prevFree = IF k # n - 1 /\ j = k + 1 THEN h.at[p].prevFree ELSE h.at[f[j]].prevFree
      BY <3>2, <3>3, <3>5, <3>8, <1>5
    <3>11. g.at[e[i]].nextFree = IF i = m - 1 THEN Null ELSE e[i + 1]
      <4>1. CASE j = k - 1
        BY <4>1, <3>3, <3>4, <3>9, <1>3, <1>8
      <4>2. CASE j # k - 1
        BY <4>2, <3>4, <3>6, <3>9, <1>3, <1>8
      <4>. QED BY <4>1, <4>2
    <3>12. g.at[e[i]].prevFree = IF i = 0 THEN Null ELSE e[i - 1]
      <4>1. CASE j = k + 1
        BY <4>1, <3>3, <3>4, <3>10, <1>3, <1>8
      <4>2. CASE j # k + 1
        BY <4>2, <3>4, <3>6, <3>10, <1>3, <1>8
      <4>. QED BY <4>1, <4>2
    <3>. QED BY <3>11, <3>12
  <2>. QED BY <2>1, <2>2, <2>3, <2>4, <1>6, <1>7 DEF Linked
<1>11. Tiled(g, b)
  BY <1>4, <1>5, SameTiling
<1>. HIDE DEF m
<1>12. Listed(g, F \ {p})
  BY <1>6, <1>7, <1>10 DEF Listed
<1>. QED BY <1>4, <1>5, <1>11, <1>12 DEF Sound, MarkedOnly, g

\* addtolist marks the block free and appends it to the list.
LEMMA ListedIs ==
    ASSUME NEW h, Heaped(h), h.freeEnd \in DOMAIN h.at \/ h.freeHead = Null, NEW p \in DOMAIN h.at, p # h.freeEnd
    PROVE  LET g == Malloc!AddToList(h, p)
           IN  /\ Heaped(g) /\ SameBlocks(g, h)
               /\ \A q \in DOMAIN h.at : g.at[q].free = IF q = p THEN 0 ELSE h.at[q].free
               /\ \A q \in DOMAIN h.at \ {p} :
                    /\ g.at[q].nextFree = IF h.freeHead # Null /\ q = h.freeEnd THEN p ELSE h.at[q].nextFree
                    /\ g.at[q].prevFree = h.at[q].prevFree
               /\ g.at[p].nextFree = Null
               /\ g.at[p].prevFree = IF h.freeHead = Null THEN Null ELSE h.freeEnd
               /\ g.freeHead = IF h.freeHead = Null THEN p ELSE h.freeHead
               /\ g.freeEnd = p
<1>. DEFINE g == Malloc!AddToList(h, p)
<1>0. h.at[p] \in Headers /\ p \in Nat
  BY DEF Heaped
<1>1. CASE h.freeHead = Null
  <2>. DEFINE c == [h.at[p] EXCEPT !.free = 0, !.prevFree = Null, !.nextFree = Null]
  <2>1. /\ c \in Headers /\ c.size = h.at[p].size /\ c.prev = h.at[p].prev /\ c.next = h.at[p].next
        /\ c.free = 0 /\ c.prevFree = Null /\ c.nextFree = Null
    BY <1>0 DEF Headers
  <2>2. g = [h EXCEPT !.at = [h.at EXCEPT ![p] = c], !.freeHead = p, !.freeEnd = p]
    BY <1>1 DEF Malloc!AddToList, Heaped
  <2>. HIDE DEF c
  <2>3. /\ g.at = [h.at EXCEPT ![p] = c] /\ g.head = h.head /\ g.end = h.end /\ g.freeHead = p /\ g.freeEnd = p
        /\ g = [at |-> g.at, head |-> g.head, end |-> g.end, freeHead |-> g.freeHead, freeEnd |-> g.freeEnd]
    <3>. HIDE DEF g
    <3>. QED BY <2>2 DEF Heaped
  <2>. HIDE DEF g
  <2>4. /\ g.at \in [DOMAIN h.at -> Headers] /\ DOMAIN g.at = DOMAIN h.at
        /\ g.at[p] = c /\ \A q \in DOMAIN h.at \ {p} : g.at[q] = h.at[q]
    BY <2>1, <2>3 DEF Heaped
  <2>5. Heaped(g) /\ SameBlocks(g, h)
    BY <2>1, <2>3, <2>4 DEF Heaped, SameBlocks
  <2>6. \A q \in DOMAIN h.at : g.at[q].free = IF q = p THEN 0 ELSE h.at[q].free
    BY <2>1, <2>4
  <2>. QED BY <1>1, <2>1, <2>3, <2>4, <2>5, <2>6 DEF g
<1>2. CASE h.freeHead # Null
  <2>. DEFINE z == h.freeEnd
              d == [h.at[z] EXCEPT !.nextFree = p]
              c == [h.at[p] EXCEPT !.free = 0, !.prevFree = z, !.nextFree = Null]
  <2>0. z \in DOMAIN h.at /\ z # p /\ h.at[z] \in Headers /\ z \in Nat
    BY <1>2 DEF Heaped
  <2>1. /\ c \in Headers /\ c.size = h.at[p].size /\ c.prev = h.at[p].prev /\ c.next = h.at[p].next
        /\ c.free = 0 /\ c.prevFree = z /\ c.nextFree = Null
    <3>. HIDE DEF z
    <3>. QED BY <1>0, <2>0 DEF Headers
  <2>2. /\ d \in Headers /\ d.size = h.at[z].size /\ d.prev = h.at[z].prev /\ d.next = h.at[z].next
        /\ d.free = h.at[z].free /\ d.prevFree = h.at[z].prevFree /\ d.nextFree = p
    <3>. HIDE DEF z
    <3>. QED BY <1>0, <2>0 DEF Headers
  <2>3. g = [h EXCEPT !.at = [[h.at EXCEPT ![z] = d] EXCEPT ![p] = c], !.freeEnd = p]
    <3>. HIDE DEF c, d
    <3>1. g = [h EXCEPT !.at[z].nextFree = p, !.at[p] = c, !.freeEnd = p]
      BY <1>2 DEF Malloc!AddToList, c
    <3>. QED BY <3>1, <2>0 DEF Heaped, d
  <2>. DEFINE at == [[h.at EXCEPT ![z] = d] EXCEPT ![p] = c]
  <2>. HIDE DEF c, d, z
  <2>4. /\ at \in [DOMAIN h.at -> Headers] /\ DOMAIN at = DOMAIN h.at
        /\ at[p] = c /\ at[z] = d /\ \A q \in DOMAIN h.at \ {p, z} : at[q] = h.at[q]
    BY <2>0, <2>1, <2>2 DEF Heaped
  <2>. HIDE DEF at
  <2>5. /\ g.at = at /\ g.head = h.head /\ g.end = h.end /\ g.freeHead = h.freeHead /\ g.freeEnd = p
        /\ g = [at |-> g.at, head |-> g.head, end |-> g.end, freeHead |-> g.freeHead, freeEnd |-> g.freeEnd]
    <3>. HIDE DEF g
    <3>. QED BY <2>3 DEF Heaped, at
  <2>6. z = h.freeEnd
    BY DEF z
  <2>. HIDE DEF g
  <2>7. Heaped(g) /\ SameBlocks(g, h)
    BY <2>0, <2>1, <2>2, <2>4, <2>5 DEF Heaped, SameBlocks
  <2>8. \A q \in DOMAIN h.at : g.at[q].free = IF q = p THEN 0 ELSE h.at[q].free
    BY <2>0, <2>1, <2>2, <2>4, <2>5
  <2>9. \A q \in DOMAIN h.at \ {p} :
           g.at[q].nextFree = (IF q = z THEN p ELSE h.at[q].nextFree) /\ g.at[q].prevFree = h.at[q].prevFree
    BY <2>0, <2>2, <2>4, <2>5
  <2>10. g.at[p].nextFree = Null /\ g.at[p].prevFree = z
    BY <2>1, <2>4, <2>5
  <2>. QED BY <1>2, <2>5, <2>6, <2>7, <2>8, <2>9, <2>10 DEF g
<1>. QED BY <1>1, <1>2

\* addtolist puts one block more on the list.
LEMMA AddedKeeps ==
    ASSUME NEW h, NEW b, NEW F, Sound(h, b, F), NEW p \in DOMAIN h.at \ F
    PROVE  LET g == Malloc!AddToList(h, p)
           IN  Sound(g, b, F \cup {p}) /\ MarkedOnly(g, h, p, 0)
<1>. DEFINE g == Malloc!AddToList(h, p)
<1>1. PICK n \in Nat : \E f \in [0..(n - 1) -> DOMAIN h.at] : Linked(h, F, n, f)
  BY DEF Sound, Listed
<1>2. PICK f \in [0..(n - 1) -> DOMAIN h.at] : Linked(h, F, n, f)
  BY <1>1
<1>3. Heaped(h) /\ Tiled(h, b) /\ DOMAIN h.at \subseteq Nat /\ Null \notin Nat
  BY MallocAssumption DEF Sound, Heaped
<1>4. \A i \in 0..(n - 1) : f[i] # p /\ f[i] # Null
  BY <1>2, <1>3 DEF Linked
<1>5. n = 0 <=> h.freeHead = Null
  BY <1>2, <1>4 DEF Linked
<1>6. n # 0 => h.freeEnd = f[n - 1] /\ h.freeHead = f[0]
  BY <1>2 DEF Linked
<1>7. h.freeEnd # p /\ (h.freeEnd \in DOMAIN h.at \/ h.freeHead = Null)
  BY <1>2, <1>3, <1>4, <1>5, <1>6 DEF Linked
<1>8. /\ Heaped(g) /\ SameBlocks(g, h)
      /\ \A q \in DOMAIN h.at : g.at[q].free = IF q = p THEN 0 ELSE h.at[q].free
      /\ \A q \in DOMAIN h.at \ {p} :
           /\ g.at[q].nextFree = IF h.freeHead # Null /\ q = h.freeEnd THEN p ELSE h.at[q].nextFree
           /\ g.at[q].prevFree = h.at[q].prevFree
      /\ g.at[p].nextFree = Null
      /\ g.at[p].prevFree = IF h.freeHead = Null THEN Null ELSE h.freeEnd
      /\ g.freeHead = IF h.freeHead = Null THEN p ELSE h.freeHead
      /\ g.freeEnd = p
  BY <1>3, <1>7, ListedIs
<1>. HIDE DEF g
<1>. DEFINE m == n + 1
            e == [i \in 0..(m - 1) |-> IF i < n THEN f[i] ELSE p]
<1>9. m \in Nat /\ DOMAIN g.at = DOMAIN h.at
  BY <1>8 DEF SameBlocks
<1>10. e \in [0..(m - 1) -> DOMAIN g.at]
  BY <1>9
<1>11. \A i \in 0..(m - 1) : e[i] = IF i < n THEN f[i] ELSE p
  OBVIOUS
<1>. HIDE DEF e
<1>12. Linked(g, F \cup {p}, m, e)
  <2>1. \A q : q \in F \cup {p} <=> \E i \in 0..(m - 1) : e[i] = q
    <3>1. n \in 0..(m - 1) /\ \A i \in 0..(n - 1) : i \in 0..(m - 1) /\ i < n
      OBVIOUS
    <3>2. e[n] = p /\ \A i \in 0..(n - 1) : e[i] = f[i]
      BY <3>1, <1>11
    <3>3. \A i \in 0..(m - 1) : i = n \/ i \in 0..(n - 1)
      OBVIOUS
    <3>. HIDE DEF m
    <3>. QED BY <3>1, <3>2, <3>3, <1>2 DEF Linked
  <2>2. \A i, j \in 0..(m - 1) : e[i] = e[j] => i = j
    <3>1. \A i, j \in 0..(n - 1) : f[i] = f[j] => i = j
      BY <1>2 DEF Linked
    <3>2. \A i \in 0..(m - 1) : IF i < n THEN i \in 0..(n - 1) ELSE i = n
      OBVIOUS
    <3>. QED BY <3>1, <3>2, <1>4, <1>11
  <2>3. g.freeHead = e[0] /\ g.freeEnd = e[m - 1] /\ m # 0
    BY <1>5, <1>6, <1>8, <1>11
  <2>4. ASSUME NEW i \in 0..(m - 1)
        PROVE  /\ g.at[e[i]].prevFree = IF i = 0 THEN Null ELSE e[i - 1]
               /\ g.at[e[i]].nextFree = IF i = m - 1 THEN Null ELSE e[i + 1]
    <3>1. CASE i = n
      BY <3>1, <1>5, <1>6, <1>8, <1>11
    <3>2. CASE i # n
      <4>1. i \in 0..(n - 1) /\ e[i] = f[i] /\ n # 0
        BY <3>2, <1>11
      <4>2. f[i] \in DOMAIN h.at \ {p} /\ (f[i] = h.freeEnd <=> i = n - 1)
        <5>1. f[i] \in DOMAIN h.at /\ f[i] # p
          BY <4>1, <1>4
        <5>2. \A j, k \in 0..(n - 1) : f[j] = f[k] => j = k
          BY <1>2 DEF Linked
        <5>3. n - 1 \in 0..(n - 1) /\ h.freeEnd = f[n - 1]
          BY <4>1, <1>6
        <5>. HIDE DEF m
        <5>. QED BY <4>1, <5>1, <5>2, <5>3
      <4>3. h.at[f[i]].prevFree = (IF i = 0 THEN Null ELSE f[i - 1]) /\ h.at[f[i]].nextFree = (IF i = n - 1 THEN Null ELSE f[i + 1])
        BY <4>1, <1>2 DEF Linked
      <4>4. g.at[f[i]].prevFree = IF i = 0 THEN Null ELSE f[i - 1]
        BY <4>2, <4>3, <1>8
      <4>5. g.at[f[i]].nextFree = IF i = n - 1 THEN p ELSE f[i + 1]
        BY <4>1, <4>2, <4>3, <1>5, <1>8
      <4>. QED BY <4>1, <4>4, <4>5, <1>11
    <3>. QED BY <3>1, <3>2
  <2>. QED BY <2>1, <2>2, <2>3, <2>4, <1>9, <1>10 DEF Linked
<1>13. Tiled(g, b)
  BY <1>3, <1>8, SameTiling
<1>. HIDE DEF m
<1>14. Listed(g, F \cup {p})
  BY <1>9, <1>10, <1>12 DEF Listed
<1>. QED BY <1>8, <1>13, <1>14 DEF Sound, MarkedOnly, g

\* coalesce gives p the room of q, its next, and q's header is gone.
LEMMA CoalescedIs ==
    ASSUME NEW h, Heaped(h), NEW p \in DOMAIN h.at, NEW q \in DOMAIN h.at \ {p},
           q # h.end => h.at[q].next \in DOMAIN h.at \ {p, q}
    PROVE  LET g == Malloc!Coalesce(h, p, q)
           IN  /\ Heaped(g) /\ DOMAIN g.at = DOMAIN h.at \ {q}
               /\ g.at[p].size = h.at[p].size + h.at[q].size + StructSize /\ g.at[p].free = 0
               /\ g.at[p].next = h.at[q].next /\ g.at[p].prev = h.at[p].prev
               /\ \A r \in DOMAIN h.at \ {p, q} :
                    /\ g.at[r].size = h.at[r].size /\ g.at[r].free = h.at[r].free /\ g.at[r].next = h.at[r].next
                    /\ g.at[r].prev = IF q # h.end /\ r = h.at[q].next THEN p ELSE h.at[r].prev
               /\ \A r \in DOMAIN h.at \ {q} :
                    g.at[r].prevFree = h.at[r].prevFree /\ g.at[r].nextFree = h.at[r].nextFree
               /\ g.head = h.head /\ g.end = (IF q = h.end THEN p ELSE h.end)
               /\ g.freeHead = h.freeHead /\ g.freeEnd = h.freeEnd
<1>. DEFINE b == h.at[q]
            c == [[[h.at[p] EXCEPT !.size = @ + b.size + StructSize] EXCEPT !.free = 0] EXCEPT !.next = b.next]
            grown == [h.at EXCEPT ![p] = c]
            d == [grown[b.next] EXCEPT !.prev = p]
            joined == IF q = h.end THEN grown ELSE [grown EXCEPT ![b.next] = d]
            g == Malloc!Coalesce(h, p, q)
<1>0. h.at[p] \in Headers /\ h.at[q] \in Headers /\ p \in Nat /\ StructSize \in Nat
  BY MallocAssumption DEF Heaped
<1>1. g = [h EXCEPT !.at = Malloc!Without(joined, q), !.end = IF q = h.end THEN p ELSE h.end]
  BY DEF Malloc!Coalesce, Heaped
<1>2. /\ c \in Headers /\ c.size = h.at[p].size + b.size + StructSize /\ c.free = 0 /\ c.next = b.next
      /\ c.prev = h.at[p].prev /\ c.prevFree = h.at[p].prevFree /\ c.nextFree = h.at[p].nextFree
  <2>. DEFINE a == h.at[p]
  <2>1. a \in Headers /\ b \in Headers
    BY <1>0
  <2>. HIDE DEF a, b
  <2>2. a.size + b.size + StructSize \in Nat
    BY <2>1, <1>0 DEF Headers
  <2>. DEFINE n == a.size + b.size + StructSize
  <2>3. c = [[[a EXCEPT !.size = n] EXCEPT !.free = 0] EXCEPT !.next = b.next]
    BY DEF a
  <2>. HIDE DEF c, n
  <2>4. n \in Nat /\ n = a.size + b.size + StructSize
    BY <2>2 DEF n
  <2>5. /\ c \in Headers /\ c.size = n /\ c.free = 0 /\ c.next = b.next
        /\ c.prev = a.prev /\ c.prevFree = a.prevFree /\ c.nextFree = a.nextFree
    BY <2>1, <2>3, <2>4 DEF Headers
  <2>. QED BY <2>4, <2>5 DEF a
<1>. HIDE DEF c
<1>3. /\ grown \in [DOMAIN h.at -> Headers] /\ DOMAIN grown = DOMAIN h.at
      /\ grown[p] = c /\ \A r \in DOMAIN h.at \ {p} : grown[r] = h.at[r]
  BY <1>2 DEF Heaped
<1>. HIDE DEF grown
<1>4. /\ joined \in [DOMAIN h.at -> Headers] /\ DOMAIN joined = DOMAIN h.at /\ joined[p] = c
      /\ \A r \in DOMAIN h.at \ {p, q} :
           /\ joined[r].size = h.at[r].size /\ joined[r].free = h.at[r].free /\ joined[r].next = h.at[r].next
           /\ joined[r].prevFree = h.at[r].prevFree /\ joined[r].nextFree = h.at[r].nextFree
           /\ joined[r].prev = IF q # h.end /\ r = b.next THEN p ELSE h.at[r].prev
  <2>1. CASE q = h.end
    BY <2>1, <1>3
  <2>2. CASE q # h.end
    <3>. HIDE DEF b
    <3>0. b.next \in DOMAIN h.at \ {p, q}
      BY <2>2 DEF b
    <3>1. grown[b.next] \in Headers /\ grown[b.next] = h.at[b.next]
      BY <3>0, <1>3
    <3>2. /\ d \in Headers /\ d.prev = p /\ d.size = grown[b.next].size /\ d.free = grown[b.next].free
          /\ d.next = grown[b.next].next
          /\ d.prevFree = grown[b.next].prevFree /\ d.nextFree = grown[b.next].nextFree
      BY <3>1, <1>0 DEF Headers
    <3>. HIDE DEF d
    <3>3. /\ joined \in [DOMAIN h.at -> Headers] /\ DOMAIN joined = DOMAIN h.at /\ joined[b.next] = d
          /\ \A r \in DOMAIN h.at \ {b.next} : joined[r] = grown[r]
      BY <2>2, <3>0, <3>2, <1>3
    <3>. HIDE DEF joined
    <3>. QED BY <2>2, <3>0, <3>1, <3>2, <3>3, <1>3
  <2>. QED BY <2>1, <2>2
<1>. HIDE DEF joined, b
<1>5. /\ g.at = Malloc!Without(joined, q) /\ g.head = h.head /\ g.end = (IF q = h.end THEN p ELSE h.end)
      /\ g.freeHead = h.freeHead /\ g.freeEnd = h.freeEnd
      /\ g = [at |-> g.at, head |-> g.head, end |-> g.end, freeHead |-> g.freeHead, freeEnd |-> g.freeEnd]
  BY <1>1 DEF Heaped
<1>. HIDE DEF g
<1>6. /\ DOMAIN g.at = DOMAIN h.at \ {q} /\ g.at \in [DOMAIN g.at -> Headers]
      /\ \A r \in DOMAIN h.at \ {q} : g.at[r] = joined[r]
  BY <1>4, <1>5 DEF Malloc!Without
<1>7. Heaped(g)
  <2>1. IsFiniteSet(DOMAIN g.at)
    BY <1>6, FS_Subset DEF Heaped
  <2>. QED BY <2>1, <1>5, <1>6 DEF Heaped
<1>. QED BY <1>2, <1>4, <1>5, <1>6, <1>7 DEF b, g

\* coalesce merges p and q, which is behind it and on no list, and the heap is as sound
\* as it was.
LEMMA CoalescedKeeps ==
    ASSUME NEW h, NEW b, NEW F, Sound(h, b, F), NEW p \in DOMAIN h.at, h.at[p].next # Null,
           h.at[p].next \notin F
    PROVE  LET q == h.at[p].next
               g == Malloc!Coalesce(h, p, q)
           IN  Sound(g, b, F) /\ q \in DOMAIN h.at /\ OneBlock(g, h, p, q)
<1>. DEFINE q == h.at[p].next
            g == Malloc!Coalesce(h, p, q)
<1>0. Heaped(h) /\ Tiled(h, b) /\ StructSize \in Nat \ {0} /\ DOMAIN h.at \subseteq Nat
      /\ \A r \in DOMAIN h.at : h.at[r].size \in Nat
  BY MallocAssumption DEF Sound, Heaped, Headers
<1>1. p # h.end /\ q = After(h, p) /\ q \in DOMAIN h.at /\ p < q
  <2>1. p # h.end
    BY <1>0 DEF Tiled
  <2>2. q = After(h, p) /\ After(h, p) \in DOMAIN h.at
    BY <2>1, <1>0 DEF Tiled
  <2>3. p < After(h, p)
    BY <1>0 DEF After
  <2>. QED BY <2>1, <2>2, <2>3
<1>. HIDE DEF q
<1>2. q # h.end => h.at[q].next = After(h, q) /\ After(h, q) \in DOMAIN h.at /\ q < After(h, q)
  BY <1>0, <1>1 DEF Tiled, After
<1>3. /\ Heaped(g) /\ DOMAIN g.at = DOMAIN h.at \ {q}
      /\ g.at[p].size = h.at[p].size + h.at[q].size + StructSize /\ g.at[p].free = 0
      /\ g.at[p].next = h.at[q].next /\ g.at[p].prev = h.at[p].prev
      /\ \A r \in DOMAIN h.at \ {p, q} :
            /\ g.at[r].size = h.at[r].size /\ g.at[r].free = h.at[r].free /\ g.at[r].next = h.at[r].next
            /\ g.at[r].prev = IF q # h.end /\ r = h.at[q].next THEN p ELSE h.at[r].prev
      /\ \A r \in DOMAIN h.at \ {q} :
            g.at[r].prevFree = h.at[r].prevFree /\ g.at[r].nextFree = h.at[r].nextFree
      /\ g.head = h.head /\ g.end = (IF q = h.end THEN p ELSE h.end)
      /\ g.freeHead = h.freeHead /\ g.freeEnd = h.freeEnd
  <2>1. p < q /\ q \in DOMAIN h.at \ {p} /\ (q # h.end => h.at[q].next \in DOMAIN h.at \ {p, q})
    BY <1>0, <1>1, <1>2
  <2>. QED BY <1>0, <2>1, CoalescedIs
<1>. HIDE DEF g
<1>4. After(g, p) = After(h, q) /\ \A r \in DOMAIN h.at \ {p, q} : After(g, r) = After(h, r)
  BY <1>0, <1>1, <1>3 DEF After
<1>5. Tiled(g, b)
  <2>1. g.head = 0 /\ 0 \in DOMAIN g.at /\ g.at[0].prev = Null
    <3>1. 0 # q /\ h.at[0].prev = Null
      BY <1>0, <1>1 DEF Tiled
    <3>2. q # h.end => h.at[q].next # 0
      BY <1>0, <1>1, <1>2
    <3>. QED BY <3>1, <3>2, <1>0, <1>3 DEF Tiled
  <2>2. g.end \in DOMAIN g.at /\ g.at[g.end].next = Null /\ After(g, g.end) = b
    BY <1>0, <1>1, <1>3, <1>4 DEF Tiled
  <2>3. ASSUME NEW r \in DOMAIN g.at, r # g.end
        PROVE  g.at[r].next = After(g, r) /\ After(g, r) \in DOMAIN g.at /\ g.at[After(g, r)].prev = r
    <3>1. CASE r = p
      BY <3>1, <2>3, <1>0, <1>1, <1>2, <1>3, <1>4
    <3>2. CASE r # p
      <4>1. r \in DOMAIN h.at \ {p, q} /\ r # h.end
        BY <3>2, <2>3, <1>3
      <4>2. h.at[r].next = After(h, r) /\ After(h, r) \in DOMAIN h.at /\ h.at[After(h, r)].prev = r
        BY <4>1, <1>0 DEF Tiled
      <4>3. h.at[q].prev = p /\ (q # h.end => h.at[After(h, q)].prev = q)
        BY <1>0, <1>1 DEF Tiled
      <4>4. After(h, r) # q /\ (q # h.end => After(h, r) # h.at[q].next)
        BY <4>1, <4>2, <4>3, <1>2
      <4>5. After(h, r) \in DOMAIN h.at \ {q} /\ g.at[After(h, r)].prev = h.at[After(h, r)].prev
        BY <4>2, <4>4, <1>3
      <4>. QED BY <4>1, <4>2, <4>5, <1>3, <1>4
    <3>. QED BY <3>1, <3>2
  <2>4. ASSUME NEW r \in DOMAIN g.at, r # 0
        PROVE  g.at[r].prev \in DOMAIN g.at /\ g.at[r].prev # g.end /\ g.at[g.at[r].prev].next = r
    <3>1. h.at[r].prev \in DOMAIN h.at /\ h.at[r].prev # h.end /\ h.at[h.at[r].prev].next = r /\ r \in DOMAIN h.at \ {q}
      BY <2>4, <1>0, <1>3 DEF Tiled
    <3>2. CASE q # h.end /\ r = h.at[q].next
      <4>1. r # p /\ g.at[r].prev = p
        BY <3>2, <1>0, <1>1, <1>2, <1>3
      <4>. QED BY <3>2, <4>1, <1>0, <1>1, <1>3
    <3>3. CASE ~(q # h.end /\ r = h.at[q].next)
      <4>1. g.at[r].prev = h.at[r].prev
        BY <3>1, <3>3, <1>3
      <4>2. h.at[r].prev # q /\ h.at[r].prev # p
        BY <3>1, <3>3 DEF q
      <4>3. h.at[r].prev \in DOMAIN h.at \ {p, q}
        BY <3>1, <4>2
      <4>4. g.at[h.at[r].prev].next = h.at[h.at[r].prev].next
        BY <4>3, <1>3
      <4>. QED BY <3>1, <4>1, <4>2, <4>3, <4>4, <1>3
    <3>. QED BY <3>2, <3>3
  <2>5. \A r, s \in DOMAIN g.at : r < s => After(g, r) <= s
    <3>1. \A r, s \in DOMAIN h.at : r < s => After(h, r) <= s
      BY <1>0 DEF Tiled
    <3>2. \A s \in DOMAIN g.at : p < s => q < s
      BY <3>1, <1>0, <1>1, <1>3
    <3>. QED BY <3>1, <3>2, <1>0, <1>1, <1>3, <1>4
  <2>6. \A r \in DOMAIN g.at : After(g, r) <= b
    BY <1>0, <1>1, <1>3, <1>4 DEF Tiled
  <2>. QED BY <2>1, <2>2, <2>3, <2>4, <2>5, <2>6 DEF Tiled
<1>6. Listed(g, F)
  <2>1. PICK n \in Nat : \E f \in [0..(n - 1) -> DOMAIN h.at] : Linked(h, F, n, f)
    BY DEF Sound, Listed
  <2>2. PICK f \in [0..(n - 1) -> DOMAIN h.at] : Linked(h, F, n, f)
    BY <2>1
  <2>3. \A i \in 0..(n - 1) : f[i] \in F /\ f[i] # q /\ f[i] \in DOMAIN g.at
    BY <2>2, <1>3 DEF Linked, q
  <2>4. f \in [0..(n - 1) -> DOMAIN g.at]
    BY <2>3
  <2>5. \A i \in 0..(n - 1) : /\ g.at[f[i]].prevFree = h.at[f[i]].prevFree
                              /\ g.at[f[i]].nextFree = h.at[f[i]].nextFree
    BY <2>3, <1>3
  <2>6. Linked(g, F, n, f)
    BY <2>2, <2>4, <2>5, <1>3 DEF Linked
  <2>. QED BY <2>4, <2>6 DEF Listed
<1>. QED BY <1>0, <1>1, <1>3, <1>5, <1>6 DEF Sound, OneBlock, g, q

\* split before its call of addtolist: p is cut down to size, and what is behind begins a
\* block of its own.
Rest(p, size) == Malloc!Payload(p) + size
Remainder(h, p, size) ==
    [size |-> h.at[p].size - size - StructSize, free |-> 0, prev |-> p, next |-> h.at[p].next,
     prevFree |-> Null, nextFree |-> Null]
CutDown(h, p, size) ==
    LET cut == [h.at EXCEPT ![p].next = Rest(p, size), ![p].size = size]
        joined == IF p = h.end THEN cut ELSE [cut EXCEPT ![h.at[p].next].prev = Rest(p, size)]
    IN  [h EXCEPT !.at = Malloc!With(joined, Rest(p, size), Remainder(h, p, size)),
                  !.end = IF p = @ THEN Rest(p, size) ELSE @]

LEMMA SplitIsCut ==
    ASSUME NEW h, NEW p, NEW size
    PROVE  Malloc!Split(h, p, size) = Malloc!AddToList(CutDown(h, p, size), Rest(p, size))
BY DEF Malloc!Split, CutDown, Rest, Remainder

LEMMA CutDownIs ==
    ASSUME NEW h, Heaped(h), NEW p \in DOMAIN h.at, NEW size \in Nat, h.at[p].size - size >= StructSize,
           Rest(p, size) \notin DOMAIN h.at,
           p # h.end => h.at[p].next \in DOMAIN h.at \ {p}
    PROVE  LET g == CutDown(h, p, size)
               rest == Rest(p, size)
           IN  /\ Heaped(g) /\ DOMAIN g.at = DOMAIN h.at \cup {rest}
               /\ g.at[rest] = Remainder(h, p, size)
               /\ g.at[p].size = size /\ g.at[p].next = rest /\ g.at[p].prev = h.at[p].prev
               /\ \A r \in DOMAIN h.at \ {p} :
                    /\ g.at[r].size = h.at[r].size /\ g.at[r].next = h.at[r].next
                    /\ g.at[r].prev = IF p # h.end /\ r = h.at[p].next THEN rest ELSE h.at[r].prev
               /\ \A r \in DOMAIN h.at :
                    /\ g.at[r].free = h.at[r].free
                    /\ g.at[r].prevFree = h.at[r].prevFree /\ g.at[r].nextFree = h.at[r].nextFree
               /\ g.head = h.head /\ g.end = (IF p = h.end THEN rest ELSE h.end)
               /\ g.freeHead = h.freeHead /\ g.freeEnd = h.freeEnd
<1>. DEFINE rest == Rest(p, size)
            a == h.at[p]
            c == [[a EXCEPT !.next = rest] EXCEPT !.size = size]
            cut == [h.at EXCEPT ![p] = c]
            d == [cut[a.next] EXCEPT !.prev = rest]
            joined == IF p = h.end THEN cut ELSE [cut EXCEPT ![a.next] = d]
            x == Remainder(h, p, size)
            g == CutDown(h, p, size)
<1>0. a \in Headers /\ p \in Nat /\ StructSize \in Nat /\ rest \in Nat /\ size \in Nat /\ rest # p /\ rest \notin DOMAIN h.at
  BY MallocAssumption DEF Heaped, Rest, Malloc!Payload
<1>1. g = [h EXCEPT !.at = Malloc!With(joined, rest, x), !.end = IF p = h.end THEN rest ELSE h.end]
  BY DEF CutDown, Heaped
<1>2. x \in Headers
  <2>1. a.size - size - StructSize \in Nat /\ a.next \in Nat \cup {Null}
    BY <1>0 DEF Headers
  <2>. QED BY <2>1, <1>0 DEF Remainder, Headers
<1>. HIDE DEF rest, x
<1>3. /\ c \in Headers /\ c.size = size /\ c.next = rest /\ c.free = a.free
      /\ c.prev = a.prev /\ c.prevFree = a.prevFree /\ c.nextFree = a.nextFree
  <2>. HIDE DEF a
  <2>. QED BY <1>0 DEF Headers
<1>. HIDE DEF c
<1>4. /\ cut \in [DOMAIN h.at -> Headers] /\ DOMAIN cut = DOMAIN h.at
      /\ cut[p] = c /\ \A r \in DOMAIN h.at \ {p} : cut[r] = h.at[r]
  BY <1>3 DEF Heaped
<1>. HIDE DEF cut
<1>5. /\ joined \in [DOMAIN h.at -> Headers] /\ DOMAIN joined = DOMAIN h.at /\ joined[p] = c
      /\ \A r \in DOMAIN h.at \ {p} :
           /\ joined[r].size = h.at[r].size /\ joined[r].free = h.at[r].free /\ joined[r].next = h.at[r].next
           /\ joined[r].prevFree = h.at[r].prevFree /\ joined[r].nextFree = h.at[r].nextFree
           /\ joined[r].prev = IF p # h.end /\ r = a.next THEN rest ELSE h.at[r].prev
  <2>1. CASE p = h.end
    BY <2>1, <1>4
  <2>2. CASE p # h.end
    <3>0. a.next \in DOMAIN h.at \ {p}
      BY <2>2
    <3>. HIDE DEF a
    <3>1. cut[a.next] \in Headers /\ cut[a.next] = h.at[a.next]
      BY <3>0, <1>4
    <3>2. /\ d \in Headers /\ d.prev = rest /\ d.size = cut[a.next].size /\ d.free = cut[a.next].free
          /\ d.next = cut[a.next].next
          /\ d.prevFree = cut[a.next].prevFree /\ d.nextFree = cut[a.next].nextFree
      BY <3>1, <1>0 DEF Headers
    <3>. HIDE DEF d
    <3>3. /\ joined \in [DOMAIN h.at -> Headers] /\ DOMAIN joined = DOMAIN h.at /\ joined[a.next] = d
          /\ \A r \in DOMAIN h.at \ {a.next} : joined[r] = cut[r]
      BY <2>2, <3>0, <3>2, <1>4
    <3>. HIDE DEF joined
    <3>. QED BY <2>2, <3>0, <3>1, <3>2, <3>3, <1>4
  <2>. QED BY <2>1, <2>2
<1>. HIDE DEF joined
<1>6. /\ g.at = Malloc!With(joined, rest, x) /\ g.head = h.head /\ g.end = (IF p = h.end THEN rest ELSE h.end)
      /\ g.freeHead = h.freeHead /\ g.freeEnd = h.freeEnd
      /\ g = [at |-> g.at, head |-> g.head, end |-> g.end, freeHead |-> g.freeHead, freeEnd |-> g.freeEnd]
  BY <1>1 DEF Heaped
<1>. HIDE DEF g
<1>7. /\ DOMAIN g.at = DOMAIN h.at \cup {rest} /\ g.at \in [DOMAIN g.at -> Headers]
      /\ g.at[rest] = x /\ \A r \in DOMAIN h.at : g.at[r] = joined[r]
  BY <1>0, <1>2, <1>5, <1>6 DEF Malloc!With
<1>8. Heaped(g)
  <2>1. IsFiniteSet(DOMAIN g.at)
    BY <1>7, FS_AddElement DEF Heaped
  <2>. QED BY <2>1, <1>0, <1>6, <1>7 DEF Heaped
<1>9. \A r \in DOMAIN h.at \ {p} :
           /\ g.at[r].size = h.at[r].size /\ g.at[r].next = h.at[r].next
           /\ g.at[r].prev = IF p # h.end /\ r = a.next THEN rest ELSE h.at[r].prev
  <2>. HIDE DEF a
  <2>. QED BY <1>5, <1>7
<1>10. \A r \in DOMAIN h.at :
           /\ g.at[r].free = h.at[r].free
           /\ g.at[r].prevFree = h.at[r].prevFree /\ g.at[r].nextFree = h.at[r].nextFree
  BY <1>3, <1>5, <1>7
<1>11. g.at[p].size = size /\ g.at[p].next = rest /\ g.at[p].prev = h.at[p].prev
  BY <1>3, <1>5, <1>7
<1>. QED BY <1>6, <1>7, <1>8, <1>9, <1>10, <1>11 DEF rest, g, x

\* split makes two blocks of one, and puts the second on the free list.
LEMMA SplitKeeps ==
    ASSUME NEW h, NEW b, NEW F, Sound(h, b, F), NEW p \in DOMAIN h.at, NEW size \in Nat,
           h.at[p].size - size >= StructSize
    PROVE  LET g == Malloc!Split(h, p, size)
               rest == Rest(p, size)
           IN  Sound(g, b, F \cup {rest}) /\ TwoBlocks(g, h, p, size, rest)
<1>. DEFINE rest == Rest(p, size)
            g == CutDown(h, p, size)
<1>0. Heaped(h) /\ Tiled(h, b) /\ StructSize \in Nat \ {0} /\ DOMAIN h.at \subseteq Nat
      /\ \A r \in DOMAIN h.at : h.at[r].size \in Nat
  BY MallocAssumption DEF Sound, Heaped, Headers
<1>1. rest = p + StructSize + size
  BY DEF Rest, Malloc!Payload
<1>. HIDE DEF rest
<1>2. p < rest /\ rest + StructSize <= After(h, p) /\ rest \in Nat
  BY <1>0, <1>1 DEF After
<1>3. rest \notin DOMAIN h.at
  <2>1. ASSUME NEW q \in DOMAIN h.at, p < q
        PROVE  After(h, p) <= q
    BY <2>1, <1>0 DEF Tiled
  <2>. QED BY <2>1, <1>0, <1>2 DEF After
<1>4. p # h.end => h.at[p].next = After(h, p) /\ After(h, p) \in DOMAIN h.at \ {p}
  <2>1. p # h.end => h.at[p].next = After(h, p) /\ After(h, p) \in DOMAIN h.at
    BY <1>0 DEF Tiled
  <2>2. After(h, p) # p
    BY <1>0 DEF After
  <2>. QED BY <2>1, <2>2
<1>5. /\ Heaped(g) /\ DOMAIN g.at = DOMAIN h.at \cup {rest}
      /\ g.at[rest] = Remainder(h, p, size)
      /\ g.at[p].size = size /\ g.at[p].next = rest /\ g.at[p].prev = h.at[p].prev
      /\ \A r \in DOMAIN h.at \ {p} :
           /\ g.at[r].size = h.at[r].size /\ g.at[r].next = h.at[r].next
           /\ g.at[r].prev = IF p # h.end /\ r = h.at[p].next THEN rest ELSE h.at[r].prev
      /\ \A r \in DOMAIN h.at :
           /\ g.at[r].free = h.at[r].free
           /\ g.at[r].prevFree = h.at[r].prevFree /\ g.at[r].nextFree = h.at[r].nextFree
      /\ g.head = h.head /\ g.end = (IF p = h.end THEN rest ELSE h.end)
      /\ g.freeHead = h.freeHead /\ g.freeEnd = h.freeEnd
  BY <1>0, <1>3, <1>4, CutDownIs DEF rest
<1>. HIDE DEF g
<1>6. /\ g.at[rest].size = h.at[p].size - size - StructSize /\ g.at[rest].free = 0
      /\ g.at[rest].prev = p /\ g.at[rest].next = h.at[p].next
  BY <1>5 DEF Remainder
<1>7. /\ After(g, p) = rest /\ After(g, rest) = After(h, p)
      /\ \A r \in DOMAIN h.at \ {p} : After(g, r) = After(h, r)
  BY <1>0, <1>1, <1>5, <1>6 DEF After
<1>8. Tiled(g, b)
  <2>1. g.head = 0 /\ 0 \in DOMAIN g.at /\ g.at[0].prev = Null
    <3>1. p # h.end => h.at[p].next # 0
      BY <1>0, <1>2, <1>4
    <3>. QED BY <3>1, <1>0, <1>5 DEF Tiled
  <2>2. g.end \in DOMAIN g.at /\ g.at[g.end].next = Null /\ After(g, g.end) = b
    <3>1. h.end \in DOMAIN h.at /\ h.at[h.end].next = Null /\ After(h, h.end) = b
      BY <1>0 DEF Tiled
    <3>. QED BY <3>1, <1>5, <1>6, <1>7
  <2>3. ASSUME NEW r \in DOMAIN g.at, r # g.end
        PROVE  g.at[r].next = After(g, r) /\ After(g, r) \in DOMAIN g.at /\ g.at[After(g, r)].prev = r
    <3>1. CASE r = p
      BY <3>1, <1>5, <1>6, <1>7
    <3>2. CASE r = rest
      BY <2>3, <3>2, <1>3, <1>4, <1>5, <1>6, <1>7
    <3>3. CASE r # p /\ r # rest
      <4>1. r \in DOMAIN h.at \ {p} /\ r # h.end
        BY <2>3, <3>3, <1>5
      <4>2. h.at[r].next = After(h, r) /\ After(h, r) \in DOMAIN h.at /\ h.at[After(h, r)].prev = r
        BY <4>1, <1>0 DEF Tiled
      <4>3. p # h.end => h.at[After(h, p)].prev = p
        BY <1>0 DEF Tiled
      <4>4. p # h.end => After(h, r) # h.at[p].next
        BY <4>1, <4>2, <4>3, <1>4
      <4>5. g.at[After(h, r)].prev = h.at[After(h, r)].prev
        BY <4>2, <4>4, <1>5
      <4>. QED BY <4>1, <4>2, <4>5, <1>5, <1>7
    <3>. QED BY <3>1, <3>2, <3>3
  <2>4. ASSUME NEW r \in DOMAIN g.at, r # 0
        PROVE  g.at[r].prev \in DOMAIN g.at /\ g.at[r].prev # g.end /\ g.at[g.at[r].prev].next = r
    <3>1. CASE r = rest
      BY <3>1, <1>2, <1>3, <1>5, <1>6
    <3>2. CASE r # rest
      <4>1. h.at[r].prev \in DOMAIN h.at /\ h.at[r].prev # h.end /\ h.at[h.at[r].prev].next = r /\ r \in DOMAIN h.at
        BY <2>4, <3>2, <1>0, <1>5 DEF Tiled
      <4>2. CASE p # h.end /\ r = h.at[p].next
        <5>1. r # p /\ g.at[r].prev = rest
          BY <4>1, <4>2, <1>4, <1>5
        <5>2. rest # h.end
          BY <1>0, <1>3 DEF Tiled
        <5>. QED BY <4>2, <5>1, <5>2, <1>5, <1>6
      <4>3. CASE ~(p # h.end /\ r = h.at[p].next)
        <5>1. g.at[r].prev = h.at[r].prev
          BY <4>1, <4>3, <1>5
        <5>2. h.at[r].prev # p
          BY <4>1, <4>3
        <5>3. g.at[h.at[r].prev].next = h.at[h.at[r].prev].next
          BY <4>1, <5>2, <1>5
        <5>4. h.at[r].prev # rest
          BY <4>1, <1>3
        <5>. QED BY <4>1, <5>1, <5>2, <5>3, <5>4, <1>5
      <4>. QED BY <4>2, <4>3
    <3>. QED BY <3>1, <3>2
  <2>5. \A r, s \in DOMAIN g.at : r < s => After(g, r) <= s
    <3>1. \A r, s \in DOMAIN h.at : r < s => After(h, r) <= s
      BY <1>0 DEF Tiled
    <3>2. \A r \in DOMAIN h.at : After(h, r) \in Nat /\ r < After(h, r)
      BY <1>0 DEF After
    <3>3. \A s \in DOMAIN h.at : p < s => rest <= s
      BY <3>1, <3>2, <1>0, <1>2
    <3>4. \A s \in DOMAIN h.at : s < rest /\ s # p => s < p
      BY <3>1, <3>2, <1>0, <1>2
    <3>5. \A s \in DOMAIN h.at : rest < s => p < s
      BY <1>0, <1>2
    <3>. QED BY <3>1, <3>2, <3>3, <3>4, <3>5, <1>0, <1>2, <1>5, <1>7
  <2>6. \A r \in DOMAIN g.at : After(g, r) <= b
    <3>1. \A r \in DOMAIN h.at : After(h, r) <= b /\ After(h, r) \in Nat
      BY <1>0 DEF Tiled, After
    <3>2. b \in Nat
      BY <3>1, <1>0 DEF Tiled
    <3>3. rest <= After(h, p) /\ After(h, p) <= b
      BY <3>1, <3>2, <1>0, <1>2
    <3>4. ASSUME NEW r \in DOMAIN g.at
          PROVE  After(g, r) <= b
      <4>1. CASE r = p
        BY <4>1, <3>1, <3>2, <3>3, <1>2, <1>7
      <4>2. CASE r = rest
        BY <4>2, <3>3, <1>7
      <4>3. CASE r # p /\ r # rest
        BY <4>3, <3>1, <1>5, <1>7
      <4>. QED BY <4>1, <4>2, <4>3
    <3>. QED BY <3>4
  <2>. QED BY <2>1, <2>2, <2>3, <2>4, <2>5, <2>6 DEF Tiled
<1>9. Listed(g, F) /\ rest \notin F
  <2>1. PICK n \in Nat : \E f \in [0..(n - 1) -> DOMAIN h.at] : Linked(h, F, n, f)
    BY DEF Sound, Listed
  <2>2. PICK f \in [0..(n - 1) -> DOMAIN h.at] : Linked(h, F, n, f)
    BY <2>1
  <2>3. f \in [0..(n - 1) -> DOMAIN g.at]
    BY <2>2, <1>5
  <2>4. \A i \in 0..(n - 1) : /\ g.at[f[i]].prevFree = h.at[f[i]].prevFree
                              /\ g.at[f[i]].nextFree = h.at[f[i]].nextFree
    BY <1>5
  <2>5. Linked(g, F, n, f)
    BY <2>2, <2>3, <2>4, <1>5 DEF Linked
  <2>6. rest \notin F
    BY <2>2, <1>3 DEF Linked
  <2>. QED BY <2>3, <2>5, <2>6 DEF Listed
<1>10. Sound(g, b, F) /\ rest \in DOMAIN g.at \ F
  BY <1>5, <1>8, <1>9 DEF Sound
<1>. DEFINE k == Malloc!AddToList(g, rest)
<1>11. Sound(k, b, F \cup {rest}) /\ MarkedOnly(k, g, rest, 0)
  BY <1>10, AddedKeeps
<1>12. k = Malloc!Split(h, p, size)
  BY SplitIsCut DEF g, rest
<1>. HIDE DEF k
<1>13. /\ DOMAIN k.at = DOMAIN h.at \cup {rest} /\ k.at[p].size = size /\ k.at[rest].free = 0
       /\ \A r \in DOMAIN h.at : k.at[r].free = h.at[r].free
       /\ \A r \in DOMAIN h.at \ {p} : k.at[r].size = h.at[r].size
  BY <1>3, <1>5, <1>11 DEF MarkedOnly, SameBlocks
<1>. QED BY <1>3, <1>11, <1>12, <1>13 DEF TwoBlocks, rest

\* Min gives the least size of a set of them.
LEMMA LeastOfSizes ==
    ASSUME NEW T \in SUBSET Nat, T # {}
    PROVE  Malloc!Min(T) \in T /\ \A m \in T : Malloc!Min(T) <= m
BY LeastNatural DEF Malloc!Min

\* The module's Cardinality is the library's.
LEMMA MallocCardinality == \A S : Malloc!Cardinality(S) = Cardinality(S)
BY DEF Malloc!Cardinality, Cardinality, Malloc!IsFiniteSet, IsFiniteSet

\* malloc's walk comes to the blocks of the free list, in their order, and to the list's
\* end: a list without repetition is not longer than there are blocks.
LEMMA WalkIs ==
    ASSUME NEW h, Heaped(h), NEW F, NEW n, NEW f, Linked(h, F, n, f)
    PROVE  /\ Cardinality(DOMAIN h.at) \in Nat /\ n <= Cardinality(DOMAIN h.at)
           /\ Malloc!FreeWalk(h) = [k \in 0..Cardinality(DOMAIN h.at) |-> IF k < n THEN f[k] ELSE Null]
<1>. DEFINE C == Cardinality(DOMAIN h.at)
            W == [k \in 0..C |-> IF k < n THEN f[k] ELSE Null]
            Next1(w, k) == IF k = 0 THEN h.freeHead
                           ELSE IF w[k - 1] = Null THEN Null ELSE h.at[w[k - 1]].nextFree
<1>1. C \in Nat /\ n <= C
  <2>1. f \in Injection(0..(n - 1), DOMAIN h.at)
    BY DEF Linked, Injection, IsInjective
  <2>2. IsFiniteSet(DOMAIN h.at)
    BY DEF Heaped
  <2>3. n \in Nat /\ 0 \in Int /\ n - 1 \in Int
    BY DEF Linked
  <2>4. Cardinality(0..(n - 1)) = IF 0 > n - 1 THEN 0 ELSE (n - 1) - 0 + 1
    BY <2>3, FS_Interval
  <2>5. C \in Nat /\ Cardinality(0..(n - 1)) <= C
    BY <2>1, <2>2, FS_Injection, FS_CardinalityType
  <2>. QED BY <2>3, <2>4, <2>5
<1>. HIDE DEF C
<1>2. \A k \in 0..C : W[k] = Next1(W, k)
  <2>. SUFFICES ASSUME NEW k \in 0..C
                PROVE  W[k] = Next1(W, k)
    OBVIOUS
  <2>1. n \in Nat /\ \A i \in 0..(n - 1) : f[i] # Null
    BY MallocAssumption DEF Linked, Heaped
  <2>2. CASE k = 0
    BY <2>1, <2>2, <1>1 DEF Linked
  <2>3. CASE k # 0
    <3>1. k - 1 \in 0..C /\ W[k - 1] = IF k - 1 < n THEN f[k - 1] ELSE Null
      BY <2>3, <1>1
    <3>2. CASE k - 1 < n
      <4>1. k - 1 \in 0..(n - 1)
        BY <2>1, <2>3, <3>2, <1>1
      <4>2. h.at[f[k - 1]].nextFree = IF k - 1 = n - 1 THEN Null ELSE f[(k - 1) + 1]
        BY <4>1 DEF Linked
      <4>3. W[k] = IF k < n THEN f[k] ELSE Null
        OBVIOUS
      <4>4. f[k - 1] # Null
        BY <4>1, <2>1
      <4>5. Next1(W, k) = h.at[f[k - 1]].nextFree
        BY <2>3, <3>1, <3>2, <4>4
      <4>. HIDE DEF W, Next1
      <4>. QED BY <4>1, <4>2, <4>3, <4>5, <2>1
    <3>3. CASE ~(k - 1 < n)
      <4>1. ~(k < n)
        BY <3>3, <2>1, <1>1
      <4>. QED BY <2>3, <3>1, <3>3, <4>1
    <3>. QED BY <3>2, <3>3
  <2>. QED BY <2>2, <2>3
<1>. DEFINE Walks(w) == w = [k \in 0..C |-> Next1(w, k)]
<1>3. Walks(W)
  <2>1. W = [k \in 0..C |-> W[k]]
    OBVIOUS
  <2>. HIDE DEF W, Next1
  <2>. QED BY <2>1, <1>2
<1>4. ASSUME NEW w, Walks(w)
      PROVE  w = W
  <2>1. \A k \in 0..C : w[k] = Next1(w, k)
    <3>. HIDE DEF Next1
    <3>. QED BY <1>4
  <2>. DEFINE T == {k \in 0..C : w[k] # W[k]}
  <2>2. ASSUME T # {}
        PROVE  FALSE
    <3>1. T \in SUBSET Nat
      OBVIOUS
    <3>2. PICK k \in T : \A m \in T : k <= m
      BY <2>2, <3>1, LeastNatural
    <3>3. k \in 0..C /\ w[k] # W[k] /\ w[k] = Next1(w, k) /\ W[k] = Next1(W, k)
      <4>1. k \in 0..C /\ w[k] # W[k]
        BY <3>2
      <4>. HIDE DEF W, Next1
      <4>. QED BY <4>1, <2>1, <1>2
    <3>4. k # 0 => w[k - 1] = W[k - 1]
      <4>1. k # 0 => k - 1 \in 0..C /\ ~(k <= k - 1)
        BY <3>3, <1>1
      <4>. HIDE DEF W
      <4>. QED BY <4>1, <3>2
    <3>. HIDE DEF W
    <3>. QED BY <3>3, <3>4
  <2>3. DOMAIN w = 0..C /\ DOMAIN W = 0..C
    <3>. HIDE DEF Next1
    <3>. QED BY <1>4
  <2>4. w = [k \in 0..C |-> w[k]]
    <3>. HIDE DEF Next1
    <3>. QED BY <1>4
  <2>. HIDE DEF Walks, Next1
  <2>. QED BY <2>2, <2>3, <2>4
<1>5. Malloc!FreeWalk(h) = CHOOSE w : Walks(w)
  BY MallocCardinality, Zenon DEF Malloc!FreeWalk, C
<1>. HIDE DEF Walks, W
<1>6. Walks(CHOOSE w : Walks(w))
  BY <1>3
<1>7. Malloc!FreeWalk(h) = W
  BY <1>4, <1>5, <1>6
<1>. QED BY <1>1, <1>7 DEF W, C

\* The blocks that are marked free, and those the program holds.
Free(h) == {q \in DOMAIN h.at : h.at[q].free = 0}
Used(h) == {q \in DOMAIN h.at : h.at[q].free = 1}

\* A list that is sound has blocks of the heap, and none twice as far as its set goes.
LEMMA ListedAreBlocks ==
    ASSUME NEW h, NEW F, Listed(h, F)
    PROVE  F \subseteq DOMAIN h.at
BY DEF Listed, Linked

\* The mark of a block is no part of the tiling or the list.
LEMMA MarkedKeeps ==
    ASSUME NEW h, NEW b, NEW F, Sound(h, b, F), NEW p \in DOMAIN h.at, NEW x \in {0, 1}
    PROVE  LET g == [h EXCEPT !.at[p].free = x]
           IN  Sound(g, b, F) /\ MarkedOnly(g, h, p, x)
<1>. DEFINE g == [h EXCEPT !.at[p].free = x]
            c == [h.at[p] EXCEPT !.free = x]
<1>0. Heaped(h) /\ Tiled(h, b) /\ h.at[p] \in Headers
  BY DEF Sound, Heaped
<1>1. /\ c \in Headers /\ c.size = h.at[p].size /\ c.prev = h.at[p].prev /\ c.next = h.at[p].next
      /\ c.free = x /\ c.prevFree = h.at[p].prevFree /\ c.nextFree = h.at[p].nextFree
  BY <1>0 DEF Headers
<1>2. g = [h EXCEPT !.at = [h.at EXCEPT ![p] = c]]
  BY <1>0 DEF Heaped
<1>. HIDE DEF c
<1>3. /\ g.at = [h.at EXCEPT ![p] = c] /\ g.head = h.head /\ g.end = h.end
      /\ g.freeHead = h.freeHead /\ g.freeEnd = h.freeEnd
      /\ g = [at |-> g.at, head |-> g.head, end |-> g.end, freeHead |-> g.freeHead, freeEnd |-> g.freeEnd]
  <2>. HIDE DEF g
  <2>. QED BY <1>0, <1>2 DEF Heaped
<1>. HIDE DEF g
<1>4. /\ g.at \in [DOMAIN h.at -> Headers] /\ DOMAIN g.at = DOMAIN h.at
      /\ g.at[p] = c /\ \A q \in DOMAIN h.at \ {p} : g.at[q] = h.at[q]
  BY <1>0, <1>1, <1>3 DEF Heaped
<1>5. Heaped(g) /\ SameBlocks(g, h)
  BY <1>0, <1>1, <1>3, <1>4 DEF Heaped, SameBlocks
<1>6. Listed(g, F)
  <2>1. PICK n \in Nat : \E f \in [0..(n - 1) -> DOMAIN h.at] : Linked(h, F, n, f)
    BY DEF Sound, Listed
  <2>2. PICK f \in [0..(n - 1) -> DOMAIN h.at] : Linked(h, F, n, f)
    BY <2>1
  <2>3. \A i \in 0..(n - 1) : /\ g.at[f[i]].prevFree = h.at[f[i]].prevFree
                              /\ g.at[f[i]].nextFree = h.at[f[i]].nextFree
    BY <1>1, <1>4
  <2>4. Linked(g, F, n, f)
    BY <2>2, <2>3, <1>3, <1>4 DEF Linked
  <2>. QED BY <2>4, <1>4 DEF Listed
<1>7. \A q \in DOMAIN h.at : g.at[q].free = IF q = p THEN x ELSE h.at[q].free
  BY <1>1, <1>4
<1>. QED BY <1>0, <1>5, <1>6, <1>7, SameTiling DEF Sound, MarkedOnly, g

\* malloc's search ends at a free block that is long enough, or finds none.
LEMMA FirstFitFinds ==
    ASSUME NEW h, NEW b, NEW F, Sound(h, b, F), NEW size, Malloc!FirstFit(h, size) # Null
    PROVE  LET p == Malloc!FirstFit(h, size)
           IN  p \in F /\ p \in DOMAIN h.at /\ h.at[p].free = 0 /\ h.at[p].size >= size
<1>. DEFINE walk == Malloc!FreeWalk(h)
            fits == {n \in DOMAIN walk : walk[n] # Null /\ h.at[walk[n]].free = 0 /\ h.at[walk[n]].size >= size}
<1>1. PICK n \in Nat : \E f \in [0..(n - 1) -> DOMAIN h.at] : Linked(h, F, n, f)
  BY DEF Sound, Listed
<1>2. PICK f \in [0..(n - 1) -> DOMAIN h.at] : Linked(h, F, n, f)
  BY <1>1
<1>. DEFINE C == Cardinality(DOMAIN h.at)
<1>3. C \in Nat /\ walk = [k \in 0..C |-> IF k < n THEN f[k] ELSE Null]
  BY <1>2, WalkIs DEF Sound
<1>. HIDE DEF walk, C
<1>4. DOMAIN walk = 0..C
  BY <1>3
<1>5. Malloc!FirstFit(h, size) = IF fits = {} THEN Null ELSE walk[Malloc!Min(fits)]
  BY DEF Malloc!FirstFit, walk
<1>6. fits \in SUBSET Nat /\ fits # {}
  <2>1. fits \subseteq DOMAIN walk /\ DOMAIN walk \subseteq Nat
    BY <1>3, <1>4
  <2>. HIDE DEF fits
  <2>. QED BY <2>1, <1>5
<1>7. Malloc!Min(fits) \in fits
  <2>. HIDE DEF fits
  <2>. QED BY <1>6, LeastOfSizes
<1>. DEFINE m == Malloc!Min(fits)
<1>8. m \in DOMAIN walk /\ walk[m] # Null /\ h.at[walk[m]].free = 0 /\ h.at[walk[m]].size >= size
  BY <1>7
<1>9. Malloc!FirstFit(h, size) = walk[m]
  BY <1>5, <1>6
<1>. HIDE DEF m, fits
<1>10. m \in 0..(n - 1) /\ walk[m] = f[m]
  BY <1>3, <1>4, <1>8
<1>. QED BY <1>2, <1>8, <1>9, <1>10 DEF Linked

\* A block that fits is cut if it is much too long, and taken off the list.
LEMMA TakeKeeps ==
    ASSUME NEW h, NEW b, Sound(h, b, Free(h)), NEW p \in Free(h), NEW size \in Nat, h.at[p].size >= size
    PROVE  LET g == Malloc!Take(h, p, size)
           IN  /\ Sound(g, b, Free(g)) /\ Used(g) = Used(h) \cup {p} /\ g.at[p].size >= size
               /\ \A q \in Used(h) : g.at[q].size = h.at[q].size
<1>0. /\ StructSize \in Nat \ {0} /\ p \in DOMAIN h.at /\ h.at[p].free = 0
      /\ \A q \in DOMAIN h.at : h.at[q].free \in {0, 1} /\ h.at[q].size \in Nat
  BY MallocAssumption DEF Sound, Heaped, Headers, Free
<1>1. CASE ~Malloc!Spare(h.at[p], size)
  <2>. DEFINE g == Malloc!RemoveFromList(h, p)
  <2>1. Sound(g, b, Free(h) \ {p}) /\ MarkedOnly(g, h, p, 1)
    BY RemovedKeeps
  <2>2. Malloc!Take(h, p, size) = g
    BY <1>1 DEF Malloc!Take
  <2>. HIDE DEF g
  <2>3. Free(g) = Free(h) \ {p} /\ Used(g) = Used(h) \cup {p}
    BY <1>0, <2>1 DEF Free, Used, MarkedOnly, SameBlocks
  <2>4. g.at[p].size >= size /\ \A q \in Used(h) : g.at[q].size = h.at[q].size
    BY <1>0, <2>1 DEF MarkedOnly, SameBlocks, Used
  <2>. QED BY <2>1, <2>2, <2>3, <2>4
<1>2. CASE Malloc!Spare(h.at[p], size)
  <2>. DEFINE m == [h EXCEPT !.at[p].free = 1]
              k == Malloc!Split(m, p, size)
              g == Malloc!RemoveFromList(k, p)
              rest == Rest(p, size)
  <2>1. Sound(m, b, Free(h)) /\ MarkedOnly(m, h, p, 1)
    BY <1>0, MarkedKeeps
  <2>2. Malloc!Take(h, p, size) = g
    BY <1>2 DEF Malloc!Take
  <2>. HIDE DEF m
  <2>3. p \in DOMAIN m.at /\ m.at[p].size - size >= StructSize
    <3>1. h.at[p].size - size > 2 * StructSize
      BY <1>2 DEF Malloc!Spare
    <3>. QED BY <3>1, <2>1, <1>0 DEF MarkedOnly, SameBlocks
  <2>4. Sound(k, b, Free(h) \cup {rest}) /\ TwoBlocks(k, m, p, size, rest)
    BY <2>1, <2>3, SplitKeeps
  <2>. HIDE DEF k, rest
  <2>5. Sound(g, b, (Free(h) \cup {rest}) \ {p}) /\ MarkedOnly(g, k, p, 1)
    BY <2>4, RemovedKeeps
  <2>. HIDE DEF g
  <2>6. /\ DOMAIN g.at = DOMAIN h.at \cup {rest} /\ rest \notin DOMAIN h.at /\ g.at[rest].free = 0
        /\ \A q \in DOMAIN h.at : g.at[q].free = IF q = p THEN 1 ELSE h.at[q].free
        /\ \A q \in DOMAIN h.at \ {p} : g.at[q].size = h.at[q].size
        /\ g.at[p].size = size
    BY <1>0, <2>1, <2>4, <2>5 DEF MarkedOnly, TwoBlocks, SameBlocks
  <2>7. Free(g) = (Free(h) \cup {rest}) \ {p} /\ Used(g) = Used(h) \cup {p}
    BY <1>0, <2>6 DEF Free, Used
  <2>8. g.at[p].size >= size /\ \A q \in Used(h) : g.at[q].size = h.at[q].size
    BY <1>0, <2>6 DEF Used
  <2>. QED BY <2>2, <2>5, <2>7, <2>8
<1>. QED BY <1>1, <1>2

\* A free block and the one behind it, on no list, become one free block.
Merged(g, a, b) == Malloc!AddToList(Malloc!Coalesce(Malloc!RemoveFromList(g, a), a, b), a)
LEMMA MergedKeeps ==
    ASSUME NEW h, NEW b, NEW F, Sound(h, b, F), NEW a \in F, NEW c, c = h.at[a].next, c # Null, c \notin F
    PROVE  Sound(Merged(h, a, c), b, F) /\ a \in DOMAIN h.at /\ c \in DOMAIN h.at /\ OneBlock(Merged(h, a, c), h, a, c)
<1>. DEFINE m == Malloc!RemoveFromList(h, a)
            k == Malloc!Coalesce(m, a, c)
            g == Malloc!AddToList(k, a)
<1>1. Sound(m, b, F \ {a}) /\ MarkedOnly(m, h, a, 1) /\ a \in DOMAIN h.at
  BY RemovedKeeps
<1>. HIDE DEF m
<1>2. a \in DOMAIN m.at /\ m.at[a].next = c /\ c \notin F \ {a}
  BY <1>1 DEF MarkedOnly, SameBlocks
<1>3. Sound(k, b, F \ {a}) /\ c \in DOMAIN m.at /\ OneBlock(k, m, a, c)
  BY <1>1, <1>2, CoalescedKeeps
<1>. HIDE DEF k
<1>4. a \in DOMAIN k.at \ (F \ {a})
  BY <1>2, <1>3 DEF OneBlock
<1>5. Sound(g, b, (F \ {a}) \cup {a}) /\ MarkedOnly(g, k, a, 0)
  BY <1>3, <1>4, AddedKeeps
<1>. HIDE DEF g
<1>6. (F \ {a}) \cup {a} = F
  OBVIOUS
<1>7. c \in DOMAIN h.at /\ OneBlock(g, h, a, c)
  BY <1>1, <1>3, <1>4, <1>5 DEF MarkedOnly, OneBlock, SameBlocks
<1>8. g = Merged(h, a, c)
  BY DEF Merged, g, k, m
<1>. QED BY <1>1, <1>5, <1>6, <1>7, <1>8

\* free gives the block to the free list, one block with the free ones beside it.
LEMMA FreedKeeps ==
    ASSUME NEW h, NEW b, Sound(h, b, Free(h)), NEW p \in Used(h)
    PROVE  LET g == Malloc!Freed(h, p)
           IN  /\ Sound(g, b, Free(g)) /\ Used(g) = Used(h) \ {p}
               /\ \A q \in Used(g) : g.at[q].size = h.at[q].size
<1>. DEFINE m == [h EXCEPT !.at[p].free = 0]
            prev == m.at[p].prev
            next == m.at[p].next
            free1 == prev # Null /\ m.at[prev].free = 0
            free2 == next # Null /\ m.at[next].free = 0
            F == Free(h)
            g == Malloc!Freed(h, p)
            Settled(k) == Sound(k, b, Free(k)) /\ Used(k) = Used(h) \ {p} /\ \A q \in Used(k) : k.at[q].size = h.at[q].size
<1>. SUFFICES Settled(g)
  OBVIOUS
<1>0. /\ p \in DOMAIN h.at /\ p \notin F /\ h.at[p].free = 1 /\ Null \notin DOMAIN h.at
      /\ F \subseteq DOMAIN h.at /\ \A q \in DOMAIN h.at : q \in F <=> h.at[q].free = 0
      /\ \A q \in DOMAIN h.at : h.at[q].free \in {0, 1}
  BY MallocAssumption DEF Sound, Heaped, Headers, Used, Free
<1>1. Sound(m, b, F) /\ MarkedOnly(m, h, p, 0)
  BY <1>0, MarkedKeeps
<1>2. g = CASE ~free1 /\ ~free2 -> Malloc!AddToList(m, p)
            [] ~free1 /\ free2 -> Malloc!AddToList(Malloc!Coalesce(Malloc!RemoveFromList(m, next), p, next), p)
            [] free1 /\ ~free2 -> Merged(m, prev, p)
            [] free1 /\ free2 -> Merged(Malloc!RemoveFromList(Merged(m, prev, p), next), prev, next)
  BY DEF Malloc!Freed, Merged
<1>. HIDE DEF m, F
<1>3. /\ DOMAIN m.at = DOMAIN h.at /\ m.at[p].free = 0
      /\ \A q \in DOMAIN m.at : m.at[q].size = h.at[q].size
      /\ \A q \in DOMAIN m.at \ {p} : m.at[q].free = h.at[q].free
  BY <1>0, <1>1 DEF MarkedOnly, SameBlocks
<1>4. /\ next # Null => next \in DOMAIN m.at \ {p} /\ m.at[next].prev = p
      /\ prev # Null => prev \in DOMAIN m.at \ {p} /\ m.at[prev].next = p
      /\ prev # Null /\ next # Null => prev # next
  <2>0. Tiled(m, b) /\ DOMAIN m.at \subseteq Nat /\ StructSize \in Nat \ {0} /\ \A q \in DOMAIN m.at : m.at[q].size \in Nat
    BY <1>1, MallocAssumption DEF Sound, Heaped, Headers
  <2>1. ASSUME next # Null
        PROVE  next \in DOMAIN m.at /\ m.at[next].prev = p /\ p < next
    <3>1. p # m.end
      BY <2>0, <2>1 DEF Tiled
    <3>2. next = After(m, p) /\ After(m, p) \in DOMAIN m.at /\ m.at[After(m, p)].prev = p
      BY <3>1, <2>0, <1>0, <1>3 DEF Tiled
    <3>3. p < After(m, p)
      BY <2>0, <1>0, <1>3 DEF After
    <3>. QED BY <3>2, <3>3
  <2>2. ASSUME prev # Null
        PROVE  prev \in DOMAIN m.at /\ m.at[prev].next = p /\ prev < p
    <3>1. p # 0
      BY <2>0, <2>2 DEF Tiled
    <3>2. prev \in DOMAIN m.at /\ prev # m.end /\ m.at[prev].next = p
      BY <3>1, <2>0, <1>0, <1>3 DEF Tiled
    <3>3. m.at[prev].next = After(m, prev)
      BY <3>2, <2>0 DEF Tiled
    <3>. HIDE DEF prev
    <3>4. prev < After(m, prev)
      BY <3>2, <2>0 DEF After
    <3>. QED BY <3>2, <3>3, <3>4
  <2>. HIDE DEF next, prev
  <2>. QED BY <2>0, <2>1, <2>2, <1>0, <1>3
<1>5. (free1 => prev \in F) /\ (free2 => next \in F)
  BY <1>0, <1>3, <1>4
<1>. HIDE DEF g, Settled
<1>6. CASE ~free1 /\ ~free2
  <2>. DEFINE k == Malloc!AddToList(m, p)
  <2>1. Sound(k, b, F \cup {p}) /\ MarkedOnly(k, m, p, 0)
    BY <1>0, <1>1, <1>3, AddedKeeps
  <2>2. g = k
    BY <1>2, <1>6
  <2>. HIDE DEF k
  <2>3. Free(k) = F \cup {p} /\ Used(k) = Used(h) \ {p} /\ \A q \in Used(k) : k.at[q].size = h.at[q].size
    BY <2>1, <1>0, <1>3 DEF MarkedOnly, SameBlocks, Free, Used
  <2>. QED BY <2>1, <2>2, <2>3 DEF Settled
<1>7. CASE ~free1 /\ free2
  <2>. DEFINE l == Malloc!RemoveFromList(m, next)
              j == Malloc!Coalesce(l, p, next)
              k == Malloc!AddToList(j, p)
  <2>0. next # Null /\ next \in F /\ next \in DOMAIN m.at \ {p}
    BY <1>4, <1>5, <1>7
  <2>1. Sound(l, b, F \ {next}) /\ MarkedOnly(l, m, next, 1)
    BY <2>0, <1>1, RemovedKeeps
  <2>2. g = k
    BY <1>2, <1>7
  <2>. HIDE DEF l
  <2>3. p \in DOMAIN l.at /\ l.at[p].next = next /\ next \notin F \ {next}
    BY <2>1, <1>0, <1>3 DEF MarkedOnly, SameBlocks
  <2>. HIDE DEF next
  <2>4. Sound(j, b, F \ {next}) /\ OneBlock(j, l, p, next)
    BY <2>0, <2>1, <2>3, CoalescedKeeps
  <2>. HIDE DEF j
  <2>5. p \in DOMAIN j.at \ (F \ {next})
    BY <2>3, <2>4, <1>0 DEF OneBlock
  <2>6. Sound(k, b, (F \ {next}) \cup {p}) /\ MarkedOnly(k, j, p, 0)
    BY <2>4, <2>5, AddedKeeps
  <2>. HIDE DEF k
  <2>7. /\ DOMAIN k.at = DOMAIN h.at \ {next} /\ k.at[p].free = 0
        /\ \A q \in DOMAIN k.at \ {p} : k.at[q].free = h.at[q].free /\ k.at[q].size = h.at[q].size
    BY <2>0, <2>1, <2>4, <2>6, <1>0, <1>3 DEF MarkedOnly, SameBlocks, OneBlock
  <2>8. Free(k) = (F \ {next}) \cup {p} /\ Used(k) = Used(h) \ {p} /\ \A q \in Used(k) : k.at[q].size = h.at[q].size
    BY <2>0, <2>7, <1>0 DEF Free, Used
  <2>. QED BY <2>2, <2>6, <2>8 DEF Settled
<1>8. CASE free1 /\ ~free2
  <2>. DEFINE k == Merged(m, prev, p)
  <2>0. prev # Null /\ prev \in F /\ prev \in DOMAIN m.at \ {p} /\ p = m.at[prev].next /\ p # Null
    BY <1>0, <1>4, <1>5, <1>8
  <2>. HIDE DEF prev
  <2>1. Sound(k, b, F) /\ OneBlock(k, m, prev, p)
    BY <2>0, <1>0, <1>1, MergedKeeps
  <2>2. g = k
    BY <1>2, <1>8
  <2>. HIDE DEF k
  <2>3. Free(k) = F /\ Used(k) = Used(h) \ {p} /\ \A q \in Used(k) : k.at[q].size = h.at[q].size
    BY <2>0, <2>1, <1>0, <1>3 DEF OneBlock, Free, Used
  <2>. QED BY <2>1, <2>2, <2>3 DEF Settled
<1>9. CASE free1 /\ free2
  <2>. DEFINE j == Merged(m, prev, p)
              l == Malloc!RemoveFromList(j, next)
              k == Merged(l, prev, next)
  <2>0. /\ prev # Null /\ prev \in F /\ prev \in DOMAIN m.at \ {p} /\ p = m.at[prev].next /\ p # Null
        /\ next # Null /\ next \in F /\ next \in DOMAIN m.at \ {p} /\ next # prev /\ next = m.at[p].next
    BY <1>0, <1>4, <1>5, <1>9
  <2>2. g = k
    BY <1>2, <1>9
  <2>. HIDE DEF prev, next
  <2>3. Sound(j, b, F) /\ OneBlock(j, m, prev, p)
    BY <2>0, <1>0, <1>1, MergedKeeps
  <2>. HIDE DEF j
  <2>4. Sound(l, b, F \ {next}) /\ MarkedOnly(l, j, next, 1)
    BY <2>0, <2>3, RemovedKeeps
  <2>. HIDE DEF l
  <2>5. prev \in F \ {next} /\ next = l.at[prev].next /\ next \notin F \ {next}
    BY <2>0, <2>3, <2>4 DEF OneBlock, MarkedOnly, SameBlocks
  <2>6. Sound(k, b, F \ {next}) /\ OneBlock(k, l, prev, next)
    BY <2>0, <2>4, <2>5, MergedKeeps
  <2>. HIDE DEF k
  <2>7. /\ DOMAIN k.at = DOMAIN h.at \ {p, next} /\ k.at[prev].free = 0
        /\ \A q \in DOMAIN k.at \ {prev} : k.at[q].free = h.at[q].free /\ k.at[q].size = h.at[q].size
    <3>1. DOMAIN j.at = DOMAIN h.at \ {p} /\ \A q \in DOMAIN j.at \ {prev} : j.at[q].free = h.at[q].free /\ j.at[q].size = h.at[q].size
      BY <2>0, <2>3, <1>3 DEF OneBlock
    <3>2. DOMAIN l.at = DOMAIN j.at /\ \A q \in DOMAIN j.at \ {next} : l.at[q].free = j.at[q].free /\ l.at[q].size = j.at[q].size
      BY <2>4 DEF MarkedOnly, SameBlocks
    <3>3. /\ DOMAIN k.at = DOMAIN l.at \ {next} /\ k.at[prev].free = 0
          /\ \A q \in DOMAIN l.at \ {prev, next} : k.at[q].free = l.at[q].free /\ k.at[q].size = l.at[q].size
      BY <2>6 DEF OneBlock
    <3>. QED BY <3>1, <3>2, <3>3
  <2>8. Free(k) = F \ {next} /\ Used(k) = Used(h) \ {p} /\ \A q \in Used(k) : k.at[q].size = h.at[q].size
    BY <2>0, <2>7, <1>0, <1>3 DEF Free, Used
  <2>. QED BY <2>2, <2>6, <2>8 DEF Settled
<1>. QED BY <1>6, <1>7, <1>8, <1>9

\* ALIGN rounds up.
LEMMA AlignIs ==
    ASSUME NEW x \in Nat
    PROVE  Malloc!ALIGN(x) \in Nat /\ Malloc!ALIGN(x) >= x
<1>1. Alignment \in Nat /\ Alignment > 0
  BY MallocAssumption
<1>. DEFINE y == x + Alignment - 1
            q == y \div Alignment
            r == y % Alignment
<1>2. y \in Nat
  BY <1>1
<1>. HIDE DEF y
<1>3. q \in Nat /\ r \in 0..(Alignment - 1) /\ y = Alignment * q + r
  BY <1>1, <1>2
<1>. HIDE DEF q, r
<1>4. Alignment * q \in Nat /\ q * Alignment = Alignment * q
  BY <1>1, <1>3
<1>5. Alignment * q >= x
  BY <1>1, <1>3, <1>4 DEF y
<1>. QED BY <1>4, <1>5 DEF Malloc!ALIGN, y, q

\* The state that malloc and realloc work on: before the first call there is no heap.
Bare == [at |-> <<>>, head |-> Null, end |-> Null, freeHead |-> Null, freeEnd |-> Null]
Ready(s) ==
    /\ s = [heap |-> s.heap, brk |-> s.brk, capacity |-> s.capacity, got |-> s.got]
    /\ s.capacity \in Nat /\ s.capacity >= StructSize
    /\ IF s.heap.head = Null THEN s.heap = Bare /\ s.brk = 0 ELSE Sound(s.heap, s.brk, Free(s.heap))

\* The program's blocks are those of h, as long as they were there.
SameUse(g, h) == Used(g) = Used(h) /\ \A q \in Used(h) : g.at[q].size = h.at[q].size

LEMMA BareIs ==
    /\ DOMAIN Bare.at = {} /\ Bare.head = Null /\ Bare.end = Null /\ Bare.freeHead = Null /\ Bare.freeEnd = Null
    /\ Free(Bare) = {} /\ Used(Bare) = {}
<1>1. Bare.at = <<>> /\ DOMAIN <<>> = {}
  BY DEF Bare
<1>. QED BY <1>1 DEF Bare, Free, Used

\* The first call makes one free block of the whole heap.
LEMMA BeginKeeps ==
    ASSUME NEW s, Ready(s), NEW size \in Nat \ {0}
    PROVE  LET r == Malloc!Begin(s, size)
           IN  Ready(r) /\ r.got = s.got /\ SameUse(r.heap, s.heap)
<1>. DEFINE c == Malloc!ALIGN(size + s.capacity - 1)
            r == Malloc!Begin(s, size)
<1>. SUFFICES Ready(r) /\ r.got = s.got /\ SameUse(r.heap, s.heap)
  OBVIOUS
<1>0. /\ StructSize \in Nat \ {0} /\ Null \notin Nat
      /\ s = [heap |-> s.heap, brk |-> s.brk, capacity |-> s.capacity, got |-> s.got]
      /\ s.capacity \in Nat /\ s.capacity >= StructSize
  BY MallocAssumption DEF Ready
<1>1. c \in Nat /\ c >= StructSize
  <2>1. size + s.capacity - 1 \in Nat /\ size + s.capacity - 1 >= StructSize
    BY <1>0
  <2>2. c \in Nat /\ c >= size + s.capacity - 1
    BY <2>1, AlignIs
  <2>. HIDE DEF c
  <2>. QED BY <2>1, <2>2, <1>0
<1>. HIDE DEF c
<1>2. CASE s.heap.head # Null
  <2>1. r = s
    BY <1>2 DEF Malloc!Begin
  <2>. QED BY <2>1 DEF SameUse
<1>3. CASE s.heap.head = Null
  <2>1. s.heap = Bare /\ s.brk = 0
    BY <1>3 DEF Ready
  <2>2. CASE s.brk + c > HeapLimit
    <3>1. r = [s EXCEPT !.capacity = c]
      BY <1>3, <2>2 DEF Malloc!Begin, c
    <3>2. r = [heap |-> s.heap, brk |-> s.brk, capacity |-> c, got |-> s.got]
      <4>. HIDE DEF r
      <4>. QED BY <3>1, <1>0
    <3>. HIDE DEF r
    <3>3. r.heap = s.heap /\ r.brk = s.brk /\ r.capacity = c /\ r.got = s.got
      BY <3>2
    <3>4. Ready(r)
      BY <3>2, <3>3, <2>1, <1>1, <1>3 DEF Ready
    <3>. QED BY <3>3, <3>4 DEF SameUse
  <2>3. CASE ~(s.brk + c > HeapLimit)
    <3>. DEFINE x == Malloc!Block(c - StructSize, Null)
                at == Malloc!With(<<>>, s.brk, x)
                h == [at |-> at, head |-> s.brk, end |-> s.brk, freeHead |-> s.brk, freeEnd |-> s.brk]
    <3>1. r = [s EXCEPT !.capacity = c, !.brk = @ + c, !.heap = h]
      BY <1>3, <2>3 DEF Malloc!Begin, c
    <3>2. DOMAIN at = {0} /\ at[0] = x /\ at = [q \in {0} |-> x]
      <4>. HIDE DEF x
      <4>. QED BY <2>1 DEF Malloc!With
    <3>3. /\ x \in Headers /\ x.size = c - StructSize /\ x.free = 0 /\ x.prev = Null /\ x.next = Null
          /\ x.prevFree = Null /\ x.nextFree = Null
      <4>1. c - StructSize \in Nat
        BY <1>0, <1>1
      <4>. QED BY <4>1 DEF Malloc!Block, Headers
    <3>. HIDE DEF x, at
    <3>4. h.at = at /\ h.head = 0 /\ h.end = 0 /\ h.freeHead = 0 /\ h.freeEnd = 0
          /\ h = [at |-> h.at, head |-> h.head, end |-> h.end, freeHead |-> h.freeHead, freeEnd |-> h.freeEnd]
      BY <2>1
    <3>. HIDE DEF h
    <3>5. Heaped(h)
      <4>1. IsFiniteSet(DOMAIN h.at)
        BY <3>2, <3>4, FS_Singleton
      <4>. QED BY <4>1, <3>2, <3>3, <3>4 DEF Heaped
    <3>6. Tiled(h, c)
      <4>1. 0 + StructSize + (c - StructSize) = c
        BY <1>0, <1>1
      <4>2. After(h, 0) = c
        BY <4>1, <3>2, <3>3, <3>4 DEF After
      <4>. QED BY <4>2, <3>2, <3>3, <3>4, <1>1 DEF Tiled
    <3>7. Free(h) = {0} /\ Used(h) = {}
      BY <3>2, <3>3, <3>4 DEF Free, Used
    <3>8. Listed(h, {0})
      <4>. DEFINE f == [i \in 0..(1 - 1) |-> 0]
      <4>1. f \in [0..(1 - 1) -> DOMAIN h.at] /\ 1 \in Nat
        BY <3>2, <3>4
      <4>2. Linked(h, {0}, 1, f)
        BY <4>1, <3>2, <3>3, <3>4 DEF Linked
      <4>. HIDE DEF f
      <4>. QED BY <4>1, <4>2 DEF Listed
    <3>9. r = [heap |-> h, brk |-> c, capacity |-> c, got |-> s.got]
      <4>1. s.brk + c = c
        BY <2>1, <1>1
      <4>. HIDE DEF r
      <4>. QED BY <4>1, <3>1, <1>0
    <3>. HIDE DEF r
    <3>10. Ready(r)
      <4>1. Sound(h, c, Free(h))
        BY <3>5, <3>6, <3>7, <3>8 DEF Sound
      <4>2. h.head # Null
        BY <3>4, <1>0
      <4>. QED BY <4>1, <4>2, <3>9, <1>1 DEF Ready
    <3>11. r.heap = h /\ r.got = s.got
      BY <3>9
    <3>12. Used(s.heap) = {}
      BY <2>1, BareIs
    <3>. QED BY <3>7, <3>10, <3>11, <3>12 DEF SameUse
  <2>. QED BY <2>2, <2>3
<1>. QED BY <1>2, <1>3

\* resize appends a free block at the program break.
Appended(h, x, size) ==
    [[h EXCEPT !.at = Malloc!With([h.at EXCEPT ![h.end].next = x], x, Malloc!Block(size, h.end))] EXCEPT !.end = x]

OneMore(g, h, b) ==
    /\ DOMAIN g.at = DOMAIN h.at \cup {b} /\ b \notin DOMAIN h.at /\ g.at[b].free = 0
    /\ \A q \in DOMAIN h.at : g.at[q].free = h.at[q].free /\ g.at[q].size = h.at[q].size
LEMMA AppendedKeeps ==
    ASSUME NEW h, NEW b, NEW F, Sound(h, b, F), NEW size \in Nat, NEW c, c = b + StructSize + size
    PROVE  LET g == Appended(h, b, size)
           IN  Sound(g, c, F) /\ OneMore(g, h, b)
<1>. DEFINE z == h.end
            d == [h.at[z] EXCEPT !.next = b]
            linked == [h.at EXCEPT ![z] = d]
            x == Malloc!Block(size, z)
            at == Malloc!With(linked, b, x)
            g == Appended(h, b, size)
<1>0. /\ Heaped(h) /\ Tiled(h, b) /\ StructSize \in Nat \ {0} /\ DOMAIN h.at \subseteq Nat
      /\ \A q \in DOMAIN h.at : h.at[q] \in Headers /\ h.at[q].size \in Nat
      /\ Null \notin Nat
  BY MallocAssumption DEF Sound, Heaped, Headers
<1>1. z \in DOMAIN h.at /\ h.at[z].next = Null /\ After(h, z) = b /\ h.at[z] \in Headers
  BY <1>0 DEF Tiled
<1>2. b \in Nat /\ b \notin DOMAIN h.at /\ \A q \in DOMAIN h.at : q < b /\ After(h, q) \in Nat /\ After(h, q) <= b /\ q < After(h, q)
  <2>1. \A q \in DOMAIN h.at : After(h, q) \in Nat /\ q < After(h, q)
    BY <1>0 DEF After
  <2>2. \A q \in DOMAIN h.at : After(h, q) <= b
    BY <1>0 DEF Tiled
  <2>. HIDE DEF z
  <2>3. b \in Nat
    BY <2>1, <1>1
  <2>. QED BY <2>1, <2>2, <2>3, <1>0
<1>3. g = [[h EXCEPT !.at = at] EXCEPT !.end = b]
  BY <1>1 DEF Appended
<1>. HIDE DEF z
<1>4. /\ d \in Headers /\ d.size = h.at[z].size /\ d.prev = h.at[z].prev /\ d.next = b
      /\ d.free = h.at[z].free /\ d.prevFree = h.at[z].prevFree /\ d.nextFree = h.at[z].nextFree
  BY <1>1, <1>2 DEF Headers
<1>5. /\ x \in Headers /\ x.size = size /\ x.free = 0 /\ x.prev = z /\ x.next = Null
  <2>1. z \in Nat
    BY <1>0, <1>1
  <2>. QED BY <2>1 DEF Malloc!Block, Headers
<1>. HIDE DEF d, x
<1>6. /\ linked \in [DOMAIN h.at -> Headers] /\ DOMAIN linked = DOMAIN h.at
      /\ linked[z] = d /\ \A q \in DOMAIN h.at \ {z} : linked[q] = h.at[q]
  BY <1>0, <1>1, <1>4 DEF Heaped
<1>. HIDE DEF linked
<1>7. /\ at \in [DOMAIN h.at \cup {b} -> Headers] /\ DOMAIN at = DOMAIN h.at \cup {b} /\ at[b] = x
      /\ \A q \in DOMAIN h.at : at[q] = linked[q]
  BY <1>2, <1>5, <1>6 DEF Malloc!With
<1>. HIDE DEF at
<1>8. /\ g.at = at /\ g.head = h.head /\ g.end = b /\ g.freeHead = h.freeHead /\ g.freeEnd = h.freeEnd
      /\ g = [at |-> g.at, head |-> g.head, end |-> g.end, freeHead |-> g.freeHead, freeEnd |-> g.freeEnd]
  <2>. HIDE DEF g
  <2>. QED BY <1>0, <1>3 DEF Heaped
<1>. HIDE DEF g
<1>9. Heaped(g)
  <2>1. IsFiniteSet(DOMAIN h.at \cup {b})
    BY <1>0, FS_AddElement DEF Heaped
  <2>. QED BY <2>1, <1>0, <1>2, <1>7, <1>8 DEF Heaped
<1>10. /\ g.at[b].size = size /\ g.at[b].free = 0 /\ g.at[b].prev = z /\ g.at[b].next = Null
       /\ g.at[z].next = b
       /\ \A q \in DOMAIN h.at \ {z} : g.at[q].next = h.at[q].next
       /\ \A q \in DOMAIN h.at :
            /\ g.at[q].size = h.at[q].size /\ g.at[q].free = h.at[q].free /\ g.at[q].prev = h.at[q].prev
            /\ g.at[q].prevFree = h.at[q].prevFree /\ g.at[q].nextFree = h.at[q].nextFree
       /\ DOMAIN g.at = DOMAIN h.at \cup {b}
  BY <1>1, <1>4, <1>5, <1>6, <1>7, <1>8
<1>11. After(g, b) = b + StructSize + size /\ \A q \in DOMAIN h.at : After(g, q) = After(h, q)
  BY <1>10 DEF After
<1>12. Tiled(g, c)
  <2>1. g.head = 0 /\ 0 \in DOMAIN g.at /\ g.at[0].prev = Null
    BY <1>0, <1>8, <1>10 DEF Tiled
  <2>2. g.end \in DOMAIN g.at /\ g.at[g.end].next = Null /\ After(g, g.end) = c
    BY <1>8, <1>10, <1>11
  <2>3. ASSUME NEW q \in DOMAIN g.at, q # g.end
        PROVE  g.at[q].next = After(g, q) /\ After(g, q) \in DOMAIN g.at /\ g.at[After(g, q)].prev = q
    <3>1. CASE q = z
      BY <3>1, <1>1, <1>10, <1>11
    <3>2. CASE q # z
      <4>1. q \in DOMAIN h.at \ {z}
        BY <2>3, <3>2, <1>8, <1>10
      <4>2. h.at[q].next = After(h, q) /\ After(h, q) \in DOMAIN h.at /\ h.at[After(h, q)].prev = q
        BY <4>1, <1>0 DEF Tiled, z
      <4>. QED BY <4>1, <4>2, <1>10, <1>11
    <3>. QED BY <3>1, <3>2
  <2>4. ASSUME NEW q \in DOMAIN g.at, q # 0
        PROVE  g.at[q].prev \in DOMAIN g.at /\ g.at[q].prev # g.end /\ g.at[g.at[q].prev].next = q
    <3>1. CASE q = b
      BY <3>1, <1>1, <1>2, <1>8, <1>10
    <3>2. CASE q # b
      <4>1. q \in DOMAIN h.at
        BY <3>2, <1>10
      <4>2. h.at[q].prev \in DOMAIN h.at /\ h.at[q].prev # z /\ h.at[h.at[q].prev].next = q
        BY <4>1, <2>4, <1>0 DEF Tiled, z
      <4>3. h.at[q].prev # b
        BY <4>2, <1>2
      <4>. QED BY <4>1, <4>2, <4>3, <1>8, <1>10
    <3>. QED BY <3>1, <3>2
  <2>5. \A q, r \in DOMAIN g.at : q < r => After(g, q) <= r
    <3>1. \A q, r \in DOMAIN h.at : q < r => After(h, q) <= r
      BY <1>0 DEF Tiled
    <3>2. \A r \in DOMAIN h.at : ~(b < r)
      BY <1>0, <1>2
    <3>. QED BY <3>1, <3>2, <1>2, <1>10, <1>11
  <2>6. \A q \in DOMAIN g.at : After(g, q) <= c
    <3>1. b <= c /\ c \in Nat
      BY <1>0, <1>2
    <3>2. \A q \in DOMAIN h.at : After(h, q) <= c
      BY <3>1, <1>0, <1>2
    <3>. QED BY <3>2, <1>0, <1>2, <1>10, <1>11
  <2>. QED BY <2>1, <2>2, <2>3, <2>4, <2>5, <2>6 DEF Tiled
<1>13. Listed(g, F)
  <2>1. PICK n \in Nat : \E f \in [0..(n - 1) -> DOMAIN h.at] : Linked(h, F, n, f)
    BY DEF Sound, Listed
  <2>2. PICK f \in [0..(n - 1) -> DOMAIN h.at] : Linked(h, F, n, f)
    BY <2>1
  <2>3. f \in [0..(n - 1) -> DOMAIN g.at]
    BY <2>2, <1>10
  <2>4. \A i \in 0..(n - 1) : /\ g.at[f[i]].prevFree = h.at[f[i]].prevFree
                              /\ g.at[f[i]].nextFree = h.at[f[i]].nextFree
    BY <1>10
  <2>5. Linked(g, F, n, f)
    BY <2>2, <2>3, <2>4, <1>8 DEF Linked
  <2>. QED BY <2>3, <2>5 DEF Listed
<1>. QED BY <1>2, <1>9, <1>10, <1>12, <1>13 DEF Sound, OneMore, g

\* addtolist neither reads nor writes the end of the heap.
LEMMA EndIsApart ==
    ASSUME NEW h, NEW p, NEW x,
           h = [at |-> h.at, head |-> h.head, end |-> h.end, freeHead |-> h.freeHead, freeEnd |-> h.freeEnd]
    PROVE  [Malloc!AddToList(h, p) EXCEPT !.end = x] = Malloc!AddToList([h EXCEPT !.end = x], p)
<1>. DEFINE g == [h EXCEPT !.end = x]
<1>1. /\ g.at = h.at /\ g.freeHead = h.freeHead /\ g.freeEnd = h.freeEnd
      /\ g = [at |-> h.at, head |-> h.head, end |-> x, freeHead |-> h.freeHead, freeEnd |-> h.freeEnd]
  OBVIOUS
<1>. HIDE DEF g
<1>2. CASE h.freeHead = Null
  <2>. DEFINE at == [h.at EXCEPT ![p] = [@ EXCEPT !.free = 0, !.prevFree = Null, !.nextFree = Null]]
  <2>1. Malloc!AddToList(h, p) = [h EXCEPT !.at = at, !.freeHead = p, !.freeEnd = p]
    BY <1>2 DEF Malloc!AddToList
  <2>2. Malloc!AddToList(g, p) = [g EXCEPT !.at = at, !.freeHead = p, !.freeEnd = p]
    BY <1>1, <1>2 DEF Malloc!AddToList
  <2>. HIDE DEF at
  <2>3. Malloc!AddToList(h, p) = [at |-> at, head |-> h.head, end |-> h.end, freeHead |-> p, freeEnd |-> p]
    BY <2>1
  <2>4. Malloc!AddToList(g, p) = [at |-> at, head |-> h.head, end |-> x, freeHead |-> p, freeEnd |-> p]
    BY <2>2, <1>1
  <2>. QED BY <2>3, <2>4 DEF g
<1>3. CASE h.freeHead # Null
  <2>. DEFINE at == [[h.at EXCEPT ![h.freeEnd].nextFree = p]
                       EXCEPT ![p] = [@ EXCEPT !.free = 0, !.prevFree = h.freeEnd, !.nextFree = Null]]
  <2>1. Malloc!AddToList(h, p) = [h EXCEPT !.at = at, !.freeEnd = p]
    BY <1>3 DEF Malloc!AddToList
  <2>2. Malloc!AddToList(g, p) = [g EXCEPT !.at = at, !.freeEnd = p]
    <3>. DEFINE ag == [[g.at EXCEPT ![g.freeEnd].nextFree = p]
                         EXCEPT ![p] = [@ EXCEPT !.free = 0, !.prevFree = g.freeEnd, !.nextFree = Null]]
    <3>1. g.freeHead # Null
      BY <1>1, <1>3
    <3>2. Malloc!AddToList(g, p) = [g EXCEPT !.at = ag, !.freeEnd = p]
      BY <3>1 DEF Malloc!AddToList
    <3>3. ag = at
      BY <1>1
    <3>. HIDE DEF at, ag
    <3>. QED BY <3>2, <3>3
  <2>. HIDE DEF at
  <2>3. Malloc!AddToList(h, p) = [at |-> at, head |-> h.head, end |-> h.end, freeHead |-> h.freeHead, freeEnd |-> p]
    BY <2>1
  <2>4. Malloc!AddToList(g, p) = [at |-> at, head |-> h.head, end |-> x, freeHead |-> h.freeHead, freeEnd |-> p]
    BY <2>2, <1>1
  <2>. QED BY <2>3, <2>4 DEF g
<1>. QED BY <1>2, <1>3

\* resize gives the heap one more free block, or leaves it when sbrk fails.
LEMMA ResizeKeeps ==
    ASSUME NEW s, Ready(s), s.heap.head # Null, NEW size \in Nat
    PROVE  LET r == Malloc!Resize(s, size)
           IN  Ready(r) /\ r.got = s.got /\ SameUse(r.heap, s.heap)
<1>. DEFINE h == s.heap
            b == s.brk
            total == Malloc!ALIGN(size + StructSize + s.capacity - 1)
            r == Malloc!Resize(s, size)
<1>. SUFFICES Ready(r) /\ r.got = s.got /\ SameUse(r.heap, s.heap)
  OBVIOUS
<1>0. /\ StructSize \in Nat \ {0} /\ Null \notin Nat
      /\ s = [heap |-> s.heap, brk |-> s.brk, capacity |-> s.capacity, got |-> s.got]
      /\ s.capacity \in Nat /\ s.capacity >= StructSize
      /\ Sound(h, b, Free(h))
  BY MallocAssumption DEF Ready
<1>1. total \in Nat /\ total >= StructSize
  <2>1. size + StructSize + s.capacity - 1 \in Nat /\ size + StructSize + s.capacity - 1 >= StructSize
    BY <1>0
  <2>2. total \in Nat /\ total >= size + StructSize + s.capacity - 1
    BY <2>1, AlignIs
  <2>. HIDE DEF total
  <2>. QED BY <2>1, <2>2, <1>0
<1>2. CASE b + total > HeapLimit
  <2>1. r = s
    BY <1>2 DEF Malloc!Resize
  <2>. QED BY <2>1 DEF SameUse
<1>3. CASE ~(b + total > HeapLimit)
  <2>. DEFINE room == total - StructSize
              linked == Malloc!With([h.at EXCEPT ![h.end].next = b], b, Malloc!Block(room, h.end))
              g0 == [h EXCEPT !.at = linked]
              g1 == Appended(h, b, room)
              g == Malloc!AddToList(g1, b)
  <2>1. r = [s EXCEPT !.capacity = @ + total, !.brk = @ + total, !.heap = [Malloc!AddToList(g0, b) EXCEPT !.end = b]]
    BY <1>3 DEF Malloc!Resize
  <2>. HIDE DEF total
  <2>2. g1 = [g0 EXCEPT !.end = b]
    BY DEF Appended
  <2>. HIDE DEF linked
  <2>3. g0 = [at |-> g0.at, head |-> g0.head, end |-> g0.end, freeHead |-> g0.freeHead, freeEnd |-> g0.freeEnd]
    BY <1>0 DEF Sound, Heaped
  <2>. HIDE DEF g0, g1
  <2>4. [Malloc!AddToList(g0, b) EXCEPT !.end = b] = g
    BY <2>2, <2>3, EndIsApart
  <2>5. room \in Nat /\ b + StructSize + room = b + total /\ b \in Nat
    <3>1. b \in Nat
      <4>1. b = h.end + StructSize + h.at[h.end].size /\ h.end \in Nat /\ h.at[h.end].size \in Nat
        BY <1>0 DEF Sound, Heaped, Tiled, After, Headers
      <4>. QED BY <4>1, <1>0
    <3>. QED BY <3>1, <1>0, <1>1
  <2>. HIDE DEF room
  <2>6. Sound(g1, b + total, Free(h)) /\ OneMore(g1, h, b)
    BY <1>0, <2>5, AppendedKeeps DEF g1
  <2>7. b \in DOMAIN g1.at \ Free(h)
    BY <2>6 DEF Free, OneMore
  <2>8. Sound(g, b + total, Free(h) \cup {b}) /\ MarkedOnly(g, g1, b, 0)
    BY <2>6, <2>7, AddedKeeps
  <2>. HIDE DEF g
  <2>9. /\ DOMAIN g.at = DOMAIN h.at \cup {b} /\ g.at[b].free = 0 /\ g.head = g1.head
        /\ \A q \in DOMAIN h.at : g.at[q].free = h.at[q].free /\ g.at[q].size = h.at[q].size
    BY <2>6, <2>8 DEF MarkedOnly, SameBlocks, OneMore
  <2>10. Free(g) = Free(h) \cup {b} /\ SameUse(g, h)
    BY <2>6, <2>9 DEF Free, Used, SameUse, OneMore
  <2>11. r = [heap |-> g, brk |-> b + total, capacity |-> s.capacity + total, got |-> s.got]
    <3>. HIDE DEF r
    <3>. QED BY <2>1, <2>4, <1>0
  <2>. HIDE DEF r
  <2>12. r.heap = g /\ r.brk = b + total /\ r.capacity = s.capacity + total /\ r.got = s.got
    BY <2>11
  <2>13. g.head # Null
    BY <2>8, <1>0 DEF Sound, Tiled
  <2>14. r.capacity \in Nat /\ r.capacity >= StructSize
    BY <2>12, <1>0, <1>1
  <2>15. Ready(r)
    BY <2>8, <2>10, <2>11, <2>12, <2>13, <2>14 DEF Ready
  <2>. QED BY <2>10, <2>12, <2>15
<1>. QED BY <1>2, <1>3

\* Without a heap there is nothing to find.
LEMMA BareWalk == Malloc!FreeWalk(Bare) = [n \in 0..0 |-> Null]
<1>1. DOMAIN Bare.at = {} /\ Bare.freeHead = Null
  BY BareIs
<1>2. Cardinality(DOMAIN Bare.at) = 0
  BY <1>1, FS_EmptySet
<1>. QED BY <1>1, <1>2, MallocCardinality DEF Malloc!FreeWalk

LEMMA BareHasNone == \A size : Malloc!FirstFit(Bare, size) = Null
<1>. DEFINE walk == Malloc!FreeWalk(Bare)
<1>3. walk = [n \in 0..0 |-> Null]
  BY BareWalk
<1>. HIDE DEF walk
<1>. TAKE size
<1>4. {n \in DOMAIN walk : walk[n] # Null /\ Bare.at[walk[n]].free = 0 /\ Bare.at[walk[n]].size >= size} = {}
  BY <1>3
<1>. QED BY <1>4 DEF Malloc!FirstFit, walk

\* malloc returns a block of its own, at least as long as asked, or Null and nothing is
\* taken; the program's other blocks keep their lengths.
GivesOne(r, s, asked) ==
    /\ r.got \notin Used(s.heap) /\ Used(r.heap) = Used(s.heap) \cup {r.got} /\ r.got # Null
    /\ r.heap.at[r.got].size >= asked
    /\ \A q \in Used(s.heap) : r.heap.at[q].size = s.heap.at[q].size

LEMMA AllocatedKeeps ==
    ASSUME NEW s, Ready(s), s.got = Null, NEW asked \in Nat \ {0}
    PROVE  LET r == Malloc!Allocated(s, asked)
           IN  Ready(r) /\ IF r.got = Null THEN SameUse(r.heap, s.heap) ELSE GivesOne(r, s, asked)
<1>. DEFINE size == Malloc!ALIGN(asked)
            s1 == Malloc!Begin(s, size)
            s2 == IF s1.heap.head # Null /\ Malloc!FirstFit(s1.heap, size) = Null THEN Malloc!Resize(s1, size) ELSE s1
            p == Malloc!FirstFit(s2.heap, size)
            r == Malloc!Allocated(s, asked)
<1>. SUFFICES Ready(r) /\ IF r.got = Null THEN SameUse(r.heap, s.heap) ELSE GivesOne(r, s, asked)
  OBVIOUS
<1>1. r = IF p = Null THEN s2 ELSE [s2 EXCEPT !.heap = Malloc!Take(@, p, size), !.got = p]
  BY DEF Malloc!Allocated
<1>. HIDE DEF r
<1>2. size \in Nat \ {0} /\ size >= asked
  <2>1. size \in Nat /\ size >= asked
    BY AlignIs
  <2>. HIDE DEF size
  <2>. QED BY <2>1
<1>. HIDE DEF size
<1>3. Ready(s1) /\ s1.got = s.got /\ SameUse(s1.heap, s.heap)
  BY <1>2, BeginKeeps
<1>. HIDE DEF s1
<1>4. Ready(s2) /\ s2.got = s.got /\ SameUse(s2.heap, s.heap)
  <2>1. CASE s1.heap.head # Null /\ Malloc!FirstFit(s1.heap, size) = Null
    <3>1. s2 = Malloc!Resize(s1, size)
      BY <2>1
    <3>. HIDE DEF s2
    <3>2. Ready(s2) /\ s2.got = s1.got /\ SameUse(s2.heap, s1.heap)
      BY <3>1, <2>1, <1>2, <1>3, ResizeKeeps
    <3>. QED BY <3>2, <1>3 DEF SameUse
  <2>2. CASE ~(s1.heap.head # Null /\ Malloc!FirstFit(s1.heap, size) = Null)
    BY <2>2, <1>3
  <2>. QED BY <2>1, <2>2
<1>. HIDE DEF s2
<1>5. CASE p = Null
  BY <1>1, <1>4, <1>5
<1>6. CASE p # Null
  <2>. DEFINE h == s2.heap
              g == Malloc!Take(h, p, size)
  <2>0. /\ s2 = [heap |-> s2.heap, brk |-> s2.brk, capacity |-> s2.capacity, got |-> s2.got]
        /\ s2.capacity \in Nat /\ s2.capacity >= StructSize
    BY <1>4 DEF Ready
  <2>1. h.head # Null
    <3>1. ASSUME h.head = Null
          PROVE  Malloc!FirstFit(h, size) = Null
      BY <3>1, <1>4, BareHasNone DEF Ready
    <3>. QED BY <3>1, <1>6
  <2>2. Sound(h, s2.brk, Free(h))
    BY <2>1, <1>4 DEF Ready
  <2>3. p \in Free(h) /\ h.at[p].size >= size
    BY <2>2, <1>6, FirstFitFinds
  <2>. HIDE DEF p
  <2>4. /\ Sound(g, s2.brk, Free(g)) /\ Used(g) = Used(h) \cup {p} /\ g.at[p].size >= size
        /\ \A q \in Used(h) : g.at[q].size = h.at[q].size
    BY <2>2, <2>3, <1>2, TakeKeeps
  <2>5. r = [heap |-> g, brk |-> s2.brk, capacity |-> s2.capacity, got |-> p]
    <3>1. r = [s2 EXCEPT !.heap = g, !.got = p]
      BY <1>1, <1>6
    <3>. HIDE DEF g
    <3>. QED BY <3>1, <2>0
  <2>. HIDE DEF g
  <2>6. r.heap = g /\ r.brk = s2.brk /\ r.capacity = s2.capacity /\ r.got = p
    BY <2>5
  <2>7. g.head # Null
    BY <2>4, MallocAssumption DEF Sound, Tiled
  <2>8. Ready(r)
    BY <2>0, <2>4, <2>5, <2>6, <2>7 DEF Ready
  <2>9. Used(h) = Used(s.heap) /\ \A q \in Used(s.heap) : h.at[q].size = s.heap.at[q].size
    BY <1>4 DEF SameUse
  <2>10. p \notin Used(h)
    BY <2>3 DEF Free, Used
  <2>11. g.at[p].size >= asked
    <3>1. g.at[p].size \in Nat
      <4>1. p \in DOMAIN g.at
        BY <2>4 DEF Used
      <4>. QED BY <4>1, <2>4 DEF Sound, Heaped, Headers
    <3>. QED BY <3>1, <2>4, <1>2
  <2>12. GivesOne(r, s, asked)
    BY <2>4, <2>6, <2>9, <2>10, <2>11, <1>6 DEF GivesOne
  <2>. QED BY <2>6, <2>8, <2>12, <1>6
<1>. QED BY <1>5, <1>6

\* realloc gives the program a block as long as asked in place of p, perhaps p itself, or
\* Null and nothing has changed.
InPlaceOf(r, s, p, size) ==
    /\ Used(r.heap) = (Used(s.heap) \ {p}) \cup {r.got} /\ r.got # Null
    /\ r.heap.at[r.got].size >= size
    /\ \A q \in Used(s.heap) \ {p} : q # r.got /\ r.heap.at[q].size = s.heap.at[q].size

LEMMA ReallocatedKeeps ==
    ASSUME NEW s, Ready(s), s.got = Null, NEW p \in Used(s.heap), NEW size \in Nat \ {0}
    PROVE  LET r == Malloc!Reallocated(s, p, size)
           IN  Ready(r) /\ IF r.got = Null THEN SameUse(r.heap, s.heap) ELSE InPlaceOf(r, s, p, size)
<1>. DEFINE h == s.heap
            d == h.at[p]
            next == d.next
            tooSmall == size < StructSize \/ d.size + h.at[next].size < size - StructSize
            moved == Malloc!Allocated(s, size)
            taken == Malloc!RemoveFromList(h, next)
            joined == Malloc!Coalesce(taken, p, next)
            absorbed == [joined EXCEPT !.at[p].free = d.free]
            r == Malloc!Reallocated(s, p, size)
<1>. SUFFICES Ready(r) /\ IF r.got = Null THEN SameUse(r.heap, s.heap) ELSE InPlaceOf(r, s, p, size)
  OBVIOUS
<1>1. r = IF d.size >= size THEN [s EXCEPT !.got = p]
          ELSE IF next = Null \/ h.at[next].free = 1 \/ tooSmall
          THEN IF moved.got = Null THEN moved ELSE [moved EXCEPT !.heap = Malloc!Freed(@, p)]
          ELSE [s EXCEPT !.heap = IF Malloc!Spare(absorbed.at[p], size) THEN Malloc!Split(absorbed, p, size) ELSE absorbed,
                         !.got = p]
  BY DEF Malloc!Reallocated
<1>. HIDE DEF r
<1>2. /\ s = [heap |-> s.heap, brk |-> s.brk, capacity |-> s.capacity, got |-> s.got]
      /\ s.capacity \in Nat /\ s.capacity >= StructSize
      /\ h.head # Null /\ Sound(h, s.brk, Free(h))
  <2>1. h.head # Null
    BY BareIs DEF Ready
  <2>. QED BY <2>1 DEF Ready
<1>3. /\ p \in DOMAIN h.at /\ d.free = 1 /\ p # Null /\ p \notin Free(h)
      /\ StructSize \in Nat \ {0} /\ Null \notin Nat
      /\ \A q \in DOMAIN h.at : h.at[q] \in Headers /\ h.at[q].size \in Nat /\ h.at[q].free \in {0, 1}
  BY <1>2, MallocAssumption DEF Used, Free, Sound, Heaped, Headers
<1>. HIDE DEF moved
<1>4. CASE d.size >= size
  <2>1. r = [heap |-> s.heap, brk |-> s.brk, capacity |-> s.capacity, got |-> p]
    <3>1. r = [s EXCEPT !.got = p]
      BY <1>1, <1>4
    <3>. QED BY <3>1, <1>2
  <2>2. r.heap = h /\ r.brk = s.brk /\ r.capacity = s.capacity /\ r.got = p
    BY <2>1
  <2>3. Ready(r)
    BY <1>2, <2>1, <2>2 DEF Ready
  <2>4. InPlaceOf(r, s, p, size)
    BY <1>3, <1>4, <2>2 DEF InPlaceOf
  <2>. QED BY <1>3, <2>2, <2>3, <2>4
<1>5. CASE ~(d.size >= size) /\ (next = Null \/ h.at[next].free = 1 \/ tooSmall)
  <2>1. Ready(moved) /\ IF moved.got = Null THEN SameUse(moved.heap, h) ELSE GivesOne(moved, s, size)
    BY AllocatedKeeps DEF moved
  <2>2. CASE moved.got = Null
    <3>1. r = moved
      BY <1>1, <1>5, <2>2
    <3>. QED BY <3>1, <2>1, <2>2
  <2>3. CASE moved.got # Null
    <3>. DEFINE m == moved.heap
                g == Malloc!Freed(m, p)
                c == moved.got
    <3>1. /\ c \notin Used(h) /\ Used(m) = Used(h) \cup {c}
          /\ m.at[c].size >= size /\ \A q \in Used(h) : m.at[q].size = h.at[q].size
      BY <2>1, <2>3 DEF GivesOne
    <3>2. m.head # Null
      <4>1. m # Bare
        BY <3>1, BareIs
      <4>. QED BY <4>1, <2>1 DEF Ready
    <3>3. /\ moved = [heap |-> m, brk |-> moved.brk, capacity |-> moved.capacity, got |-> c]
          /\ moved.capacity \in Nat /\ moved.capacity >= StructSize /\ Sound(m, moved.brk, Free(m))
      BY <2>1, <3>2 DEF Ready
    <3>4. /\ Sound(g, moved.brk, Free(g)) /\ Used(g) = Used(m) \ {p}
          /\ \A q \in Used(g) : g.at[q].size = m.at[q].size
      BY <3>1, <3>3, FreedKeeps
    <3>5. r = [heap |-> g, brk |-> moved.brk, capacity |-> moved.capacity, got |-> c]
      <4>1. r = [moved EXCEPT !.heap = g]
        BY <1>1, <1>5, <2>3
      <4>. HIDE DEF g
      <4>. QED BY <4>1, <3>3
    <3>. HIDE DEF g
    <3>6. r.heap = g /\ r.brk = moved.brk /\ r.capacity = moved.capacity /\ r.got = c
      BY <3>5
    <3>7. g.head # Null
      BY <3>4, <1>3 DEF Sound, Tiled
    <3>8. Ready(r)
      BY <3>3, <3>4, <3>5, <3>6, <3>7 DEF Ready
    <3>9. Used(g) = (Used(h) \ {p}) \cup {c} /\ c # p
      BY <3>1, <3>4
    <3>10. InPlaceOf(r, s, p, size)
      BY <2>3, <3>1, <3>4, <3>6, <3>9 DEF InPlaceOf
    <3>. QED BY <2>3, <3>6, <3>8, <3>10
  <2>. QED BY <2>2, <2>3
<1>6. CASE ~(d.size >= size) /\ ~(next = Null \/ h.at[next].free = 1 \/ tooSmall)
  <2>. DEFINE F == Free(h) \ {next}
  <2>1. next # Null /\ next \in DOMAIN h.at /\ next \in Free(h)
    <3>1. p # h.end
      BY <1>2, <1>6 DEF Sound, Tiled
    <3>2. next \in DOMAIN h.at
      BY <3>1, <1>2, <1>3 DEF Sound, Tiled
    <3>. QED BY <3>2, <1>3, <1>6 DEF Free
  <2>2. d.size + h.at[next].size >= size - StructSize
    <3>. HIDE DEF d, next
    <3>. QED BY <1>6, <1>3, <2>1 DEF d
  <2>3. Sound(taken, s.brk, F) /\ MarkedOnly(taken, h, next, 1)
    BY <1>2, <2>1, RemovedKeeps
  <2>. HIDE DEF taken
  <2>4. /\ p \in DOMAIN taken.at /\ taken.at[p].next = next /\ next \notin F /\ p # next
        /\ DOMAIN taken.at = DOMAIN h.at
        /\ \A q \in DOMAIN h.at : taken.at[q].size = h.at[q].size
        /\ \A q \in DOMAIN h.at \ {next} : taken.at[q].free = h.at[q].free
    BY <2>1, <2>3, <1>3 DEF MarkedOnly, SameBlocks
  <2>. HIDE DEF F
  <2>5. Sound(joined, s.brk, F) /\ OneBlock(joined, taken, p, next)
    BY <2>1, <2>3, <2>4, CoalescedKeeps
  <2>. HIDE DEF joined
  <2>6. p \in DOMAIN joined.at /\ d.free \in {0, 1}
    BY <2>4, <2>5, <1>3 DEF OneBlock
  <2>7. Sound(absorbed, s.brk, F) /\ MarkedOnly(absorbed, joined, p, d.free)
    <3>. HIDE DEF d
    <3>. QED BY <2>5, <2>6, MarkedKeeps
  <2>. HIDE DEF absorbed
  <2>8. /\ DOMAIN absorbed.at = DOMAIN h.at \ {next} /\ absorbed.at[p].free = 1
        /\ absorbed.at[p].size = d.size + h.at[next].size + StructSize
        /\ \A q \in DOMAIN h.at \ {p, next} : absorbed.at[q].free = h.at[q].free /\ absorbed.at[q].size = h.at[q].size
    <3>1. /\ DOMAIN absorbed.at = DOMAIN joined.at /\ absorbed.at[p].free = d.free
          /\ \A q \in DOMAIN joined.at : absorbed.at[q].size = joined.at[q].size
          /\ \A q \in DOMAIN joined.at \ {p} : absorbed.at[q].free = joined.at[q].free
      BY <2>6, <2>7 DEF MarkedOnly, SameBlocks
    <3>2. /\ DOMAIN joined.at = DOMAIN h.at \ {next}
          /\ joined.at[p].size = taken.at[p].size + taken.at[next].size + StructSize
          /\ \A q \in DOMAIN h.at \ {p, next} : joined.at[q].size = taken.at[q].size /\ joined.at[q].free = taken.at[q].free
      BY <2>4, <2>5 DEF OneBlock
    <3>3. taken.at[p].size = d.size /\ taken.at[next].size = h.at[next].size /\ d.free = 1
      BY <1>3, <2>1, <2>4
    <3>. HIDE DEF d, next
    <3>. QED BY <2>4, <2>6, <3>1, <3>2, <3>3
  <2>9. absorbed.at[p].size >= size /\ absorbed.at[p].size \in Nat /\ p \in DOMAIN absorbed.at
    <3>1. d.size \in Nat /\ h.at[next].size \in Nat
      BY <1>3, <2>1
    <3>2. p \in DOMAIN absorbed.at
      BY <2>4, <2>8, <1>3
    <3>. HIDE DEF d, next
    <3>. QED BY <3>1, <3>2, <2>2, <2>8, <1>3
  <2>. DEFINE g == IF Malloc!Spare(absorbed.at[p], size) THEN Malloc!Split(absorbed, p, size) ELSE absorbed
  <2>10. /\ Sound(g, s.brk, Free(g)) /\ Used(g) = Used(h) /\ g.at[p].size >= size
         /\ \A q \in Used(h) \ {p} : g.at[q].size = h.at[q].size
    <3>1. F = {q \in DOMAIN absorbed.at : absorbed.at[q].free = 0}
      BY <1>3, <2>8 DEF F, Free
    <3>2. Used(absorbed) = Used(h)
      BY <1>3, <2>1, <2>8 DEF Used, Free
    <3>3. \A q \in Used(h) \ {p} : q \in DOMAIN absorbed.at \ {p} /\ absorbed.at[q].size = h.at[q].size
      BY <2>1, <2>8 DEF Used, Free
    <3>4. CASE Malloc!Spare(absorbed.at[p], size)
      <4>. DEFINE k == Malloc!Split(absorbed, p, size)
                  rest == Rest(p, size)
      <4>1. absorbed.at[p].size - size >= StructSize
        BY <3>4, <2>9, <1>3 DEF Malloc!Spare
      <4>2. Sound(k, s.brk, F \cup {rest}) /\ TwoBlocks(k, absorbed, p, size, rest)
        BY <4>1, <2>7, <2>9, SplitKeeps
      <4>3. g = k
        BY <3>4
      <4>. HIDE DEF k, rest, g
      <4>4. Free(k) = F \cup {rest} /\ Used(k) = Used(h)
        BY <4>2, <3>1, <3>2 DEF TwoBlocks, Free, Used
      <4>5. k.at[p].size = size /\ \A q \in Used(h) \ {p} : k.at[q].size = h.at[q].size
        BY <4>2, <3>3 DEF TwoBlocks
      <4>. QED BY <4>2, <4>3, <4>4, <4>5
    <3>5. CASE ~Malloc!Spare(absorbed.at[p], size)
      <4>1. g = absorbed /\ Free(absorbed) = F
        BY <3>1, <3>5 DEF Free
      <4>. HIDE DEF g
      <4>. QED BY <4>1, <3>2, <3>3, <2>7, <2>9
    <3>. QED BY <3>4, <3>5
  <2>11. r = [heap |-> g, brk |-> s.brk, capacity |-> s.capacity, got |-> p]
    <3>1. r = [s EXCEPT !.heap = g, !.got = p]
      BY <1>1, <1>6
    <3>. HIDE DEF g
    <3>. QED BY <3>1, <1>2
  <2>. HIDE DEF g
  <2>12. r.heap = g /\ r.brk = s.brk /\ r.capacity = s.capacity /\ r.got = p
    BY <2>11
  <2>13. g.head # Null
    BY <2>10, <1>3 DEF Sound, Tiled
  <2>14. Ready(r)
    BY <1>2, <2>10, <2>11, <2>12, <2>13 DEF Ready
  <2>15. InPlaceOf(r, s, p, size)
    <3>1. Used(g) = (Used(h) \ {p}) \cup {p}
      BY <2>10
    <3>. QED BY <1>3, <2>10, <2>12, <3>1 DEF InPlaceOf
  <2>. QED BY <1>3, <2>12, <2>14, <2>15
<1>. QED BY <1>4, <1>5, <1>6

\* The inductive invariant: a sound heap, of which the program holds the blocks that are
\* in use, each as long as it was asked for.
Holds(blocks, h) == DOMAIN blocks = Used(h) /\ \A p \in DOMAIN blocks : h.at[p].size >= blocks[p]
MallocInv == Ready(Malloc!Now) /\ Holds(v4, v1)

LEMMA MallocInit ==
    ASSUME Malloc!Init
    PROVE  MallocInv
<1>1. v1 = Bare /\ v2 = 0 /\ v3 = HeapCapacity /\ v4 = <<>> /\ DOMAIN v4 = {}
  BY DEF Malloc!Init, Bare
<1>2. Ready(Malloc!Now)
  BY <1>1, BareIs, MallocAssumption DEF Ready, Malloc!Now
<1>. QED BY <1>1, <1>2, BareIs DEF MallocInv, Holds

\* A call that gives the state s and the blocks `blocks`.
LEMMA BecomesKeeps ==
    ASSUME NEW s, Malloc!Becomes(s), Ready(s), NEW blocks, v4' = blocks, Holds(blocks, s.heap)
    PROVE  MallocInv'
<1>1. v1' = s.heap /\ v2' = s.brk /\ v3' = s.capacity
  BY DEF Malloc!Becomes
<1>. DEFINE n == [heap |-> v1', brk |-> v2', capacity |-> v3', got |-> Null]
<1>2. n.heap = s.heap /\ n.brk = s.brk /\ n.capacity = s.capacity /\ n.got = Null
      /\ n = [heap |-> n.heap, brk |-> n.brk, capacity |-> n.capacity, got |-> n.got]
  BY <1>1
<1>. HIDE DEF n
<1>3. Ready(n)
  BY <1>2 DEF Ready
<1>4. Ready(Malloc!Now)'
  BY <1>3 DEF n, Malloc!Now, Ready
<1>. QED BY <1>1, <1>4 DEF MallocInv, Holds

LEMMA MallocKeeps ==
    ASSUME MallocInv, NEW size \in MallocSizes, Malloc!CallMalloc(size)
    PROVE  MallocInv'
<1>. DEFINE s == Malloc!Now
            r == Malloc!Allocated(s, size)
            blocks == IF r.got = Null THEN v4 ELSE Malloc!With(v4, r.got, size)
<1>1. Malloc!Becomes(r) /\ v4' = blocks
  BY DEF Malloc!CallMalloc
<1>2. size \in Nat \ {0} /\ Ready(s) /\ Holds(v4, v1)
  BY MallocAssumption DEF MallocInv
<1>3. s.got = Null /\ s.heap = v1
  BY DEF Malloc!Now
<1>. HIDE DEF s
<1>4. Ready(r) /\ IF r.got = Null THEN SameUse(r.heap, s.heap) ELSE GivesOne(r, s, size)
  BY <1>2, <1>3, AllocatedKeeps
<1>. HIDE DEF r
<1>5. Holds(blocks, r.heap)
  <2>1. CASE r.got = Null
    BY <2>1, <1>2, <1>3, <1>4 DEF Holds, SameUse
  <2>2. CASE r.got # Null
    <3>. DEFINE c == r.got
    <3>1. /\ c \notin DOMAIN v4 /\ Used(r.heap) = DOMAIN v4 \cup {c} /\ r.heap.at[c].size >= size
          /\ \A q \in DOMAIN v4 : r.heap.at[q].size = v1.at[q].size
      BY <2>2, <1>2, <1>3, <1>4 DEF GivesOne, Holds
    <3>2. blocks = [q \in DOMAIN v4 \cup {c} |-> IF q = c THEN size ELSE v4[q]]
      BY <2>2 DEF Malloc!With
    <3>. HIDE DEF blocks, c
    <3>3. \A q \in DOMAIN v4 : r.heap.at[q].size >= v4[q]
      BY <3>1, <1>2 DEF Holds
    <3>4. DOMAIN blocks = DOMAIN v4 \cup {c}
      BY <3>2
    <3>5. ASSUME NEW q \in DOMAIN blocks
          PROVE  r.heap.at[q].size >= blocks[q]
      BY <3>1, <3>2, <3>3, <3>4
    <3>. QED BY <3>1, <3>4, <3>5 DEF Holds
  <2>. QED BY <2>1, <2>2
<1>. HIDE DEF blocks
<1>. QED BY <1>1, <1>4, <1>5, BecomesKeeps

LEMMA ReallocKeeps ==
    ASSUME MallocInv, NEW p \in DOMAIN v4, NEW size \in MallocSizes, Malloc!CallRealloc(p, size)
    PROVE  MallocInv'
<1>. DEFINE s == Malloc!Now
            r == Malloc!Reallocated(s, p, size)
            blocks == IF r.got = Null THEN v4 ELSE Malloc!With(Malloc!Without(v4, p), r.got, size)
<1>1. Malloc!Becomes(r) /\ v4' = blocks
  BY DEF Malloc!CallRealloc
<1>2. size \in Nat \ {0} /\ Ready(s) /\ Holds(v4, v1)
  BY MallocAssumption DEF MallocInv
<1>3. s.got = Null /\ s.heap = v1
  BY DEF Malloc!Now
<1>. HIDE DEF s
<1>4. Ready(r) /\ IF r.got = Null THEN SameUse(r.heap, s.heap) ELSE InPlaceOf(r, s, p, size)
  <2>1. p \in Used(s.heap)
    BY <1>2, <1>3 DEF Holds
  <2>. QED BY <2>1, <1>2, <1>3, ReallocatedKeeps
<1>. HIDE DEF r
<1>5. Holds(blocks, r.heap)
  <2>1. CASE r.got = Null
    BY <2>1, <1>2, <1>3, <1>4 DEF Holds, SameUse
  <2>2. CASE r.got # Null
    <3>. DEFINE c == r.got
                kept == Malloc!Without(v4, p)
    <3>1. /\ Used(r.heap) = (DOMAIN v4 \ {p}) \cup {c} /\ r.heap.at[c].size >= size
          /\ \A q \in DOMAIN v4 \ {p} : q # c /\ r.heap.at[q].size = v1.at[q].size
      BY <2>2, <1>2, <1>3, <1>4 DEF InPlaceOf, Holds
    <3>2. DOMAIN kept = DOMAIN v4 \ {p} /\ \A q \in DOMAIN v4 \ {p} : kept[q] = v4[q]
      BY DEF Malloc!Without
    <3>. HIDE DEF kept
    <3>3. blocks = [q \in DOMAIN kept \cup {c} |-> IF q = c THEN size ELSE kept[q]]
      BY <2>2 DEF Malloc!With, kept
    <3>. HIDE DEF blocks, c
    <3>4. \A q \in DOMAIN v4 \ {p} : r.heap.at[q].size >= v4[q]
      BY <3>1, <1>2 DEF Holds
    <3>5. DOMAIN blocks = (DOMAIN v4 \ {p}) \cup {c}
      BY <3>2, <3>3
    <3>6. ASSUME NEW q \in DOMAIN blocks
          PROVE  r.heap.at[q].size >= blocks[q]
      BY <3>1, <3>2, <3>3, <3>4, <3>5
    <3>. QED BY <3>1, <3>5, <3>6 DEF Holds
  <2>. QED BY <2>1, <2>2
<1>. HIDE DEF blocks
<1>. QED BY <1>1, <1>4, <1>5, BecomesKeeps

LEMMA FreeKeeps ==
    ASSUME MallocInv, NEW p \in DOMAIN v4, Malloc!CallFree(p)
    PROVE  MallocInv'
<1>. DEFINE s == Malloc!Now
            g == Malloc!Freed(v1, p)
            r == [s EXCEPT !.heap = g]
            blocks == Malloc!Without(v4, p)
<1>1. v1' = g /\ v2' = v2 /\ v3' = v3 /\ v4' = blocks
  BY DEF Malloc!CallFree
<1>2. Ready(s) /\ p \in Used(v1) /\ Holds(v4, v1)
  BY DEF MallocInv, Holds
<1>3. s.heap = v1 /\ s.brk = v2 /\ s.capacity = v3 /\ s.got = Null
      /\ s = [heap |-> s.heap, brk |-> s.brk, capacity |-> s.capacity, got |-> s.got]
  BY DEF Malloc!Now
<1>. HIDE DEF s
<1>4. Sound(v1, v2, Free(v1))
  BY <1>2, <1>3, BareIs DEF Ready
<1>5. Sound(g, v2, Free(g)) /\ Used(g) = Used(v1) \ {p} /\ \A q \in Used(g) : g.at[q].size = v1.at[q].size
  BY <1>2, <1>4, FreedKeeps
<1>. HIDE DEF g
<1>6. r = [heap |-> g, brk |-> v2, capacity |-> v3, got |-> Null]
  BY <1>3
<1>. HIDE DEF r
<1>7. r.heap = g /\ r.brk = v2 /\ r.capacity = v3 /\ r.got = Null
  BY <1>6
<1>8. g.head # Null
  BY <1>5, MallocAssumption DEF Sound, Tiled
<1>9. Ready(r)
  BY <1>2, <1>3, <1>5, <1>6, <1>7, <1>8 DEF Ready
<1>10. Holds(blocks, r.heap)
  <2>1. DOMAIN blocks = DOMAIN v4 \ {p} /\ \A q \in DOMAIN v4 \ {p} : blocks[q] = v4[q]
    BY DEF Malloc!Without
  <2>. HIDE DEF blocks
  <2>. QED BY <2>1, <1>2, <1>5, <1>7 DEF Holds
<1>11. Malloc!Becomes(r)
  BY <1>1, <1>7 DEF Malloc!Becomes
<1>. HIDE DEF blocks
<1>. QED BY <1>1, <1>9, <1>10, <1>11, BecomesKeeps

LEMMA MallocStep ==
    ASSUME MallocInv, [Malloc!Next]_(Malloc!vars)
    PROVE  MallocInv'
<1>1. CASE UNCHANGED Malloc!vars
  BY <1>1 DEF Malloc!vars, MallocInv, Malloc!Now, Ready, Holds
<1>2. CASE Malloc!Next
  <2>1. CASE \E size \in MallocSizes : Malloc!CallMalloc(size)
    BY <2>1, MallocKeeps
  <2>2. CASE \E p \in DOMAIN v4 : Malloc!CallFree(p)
    BY <2>2, FreeKeeps
  <2>3. CASE \E p \in DOMAIN v4 : \E size \in MallocSizes : Malloc!CallRealloc(p, size)
    BY <2>3, ReallocKeeps
  <2>. QED BY <1>2, <2>1, <2>2, <2>3 DEF Malloc!Next
<1>. QED BY <1>1, <1>2

\* What the invariant says of the blocks' order ...
LEMMA MallocTiles ==
    ASSUME MallocInv
    PROVE  Malloc!BlocksTileHeap
<1>. SUFFICES ASSUME v1.head # Null
              PROVE  /\ v1.head = 0 /\ v1.at[0].prev = Null
                     /\ \A p \in DOMAIN v1.at :
                           /\ v1.at[p].size >= 0
                           /\ IF p = v1.end THEN v1.at[p].next = Null /\ After(v1, p) = v2
                              ELSE /\ v1.at[p].next = After(v1, p)
                                   /\ After(v1, p) \in DOMAIN v1.at /\ v1.at[After(v1, p)].prev = p
  BY DEF Malloc!BlocksTileHeap, Malloc!Payload, After
<1>1. Sound(v1, v2, Free(v1))
  BY DEF MallocInv, Ready, Malloc!Now
<1>2. \A p \in DOMAIN v1.at : v1.at[p].size >= 0
  BY <1>1 DEF Sound, Heaped, Headers
<1>. QED BY <1>1, <1>2 DEF Sound, Tiled

\* ... and of the list of the free ones.
LEMMA MallocAccounts ==
    ASSUME MallocInv
    PROVE  Malloc!EveryBlockIsAccounted
<1>. DEFINE walk == Malloc!FreeWalk(v1)
            onList == {n \in DOMAIN walk : walk[n] # Null}
            listed == {walk[n] : n \in onList}
<1>. SUFFICES /\ listed = Free(v1)
              /\ Cardinality(onList) = Cardinality(listed)
              /\ \A n \in onList : v1.at[walk[n]].prevFree = IF n = 0 THEN Null ELSE walk[n - 1]
              /\ \A n \in onList : walk[n] = v1.freeEnd <=> v1.at[walk[n]].nextFree = Null
  BY MallocCardinality DEF Malloc!EveryBlockIsAccounted, MallocInv, Holds, Free, Used
<1>1. Ready(Malloc!Now) /\ Malloc!Now.heap = v1 /\ Malloc!Now.brk = v2
  BY DEF MallocInv, Malloc!Now
<1>2. CASE v1.head = Null
  <2>1. v1 = Bare
    BY <1>1, <1>2 DEF Ready
  <2>2. walk = [k \in 0..0 |-> Null]
    BY <2>1, BareWalk
  <2>. HIDE DEF walk
  <2>3. onList = {}
    BY <2>2
  <2>. HIDE DEF onList
  <2>4. listed = {}
    BY <2>3
  <2>. QED BY <2>1, <2>3, <2>4, BareIs
<1>3. CASE v1.head # Null
  <2>0. Sound(v1, v2, Free(v1))
    BY <1>1, <1>3 DEF Ready
  <2>1. PICK n \in Nat : \E f \in [0..(n - 1) -> DOMAIN v1.at] : Linked(v1, Free(v1), n, f)
    BY <2>0 DEF Sound, Listed
  <2>2. PICK f \in [0..(n - 1) -> DOMAIN v1.at] : Linked(v1, Free(v1), n, f)
    BY <2>1
  <2>. DEFINE C == Cardinality(DOMAIN v1.at)
  <2>3. C \in Nat /\ n <= C /\ walk = [k \in 0..C |-> IF k < n THEN f[k] ELSE Null]
    BY <2>0, <2>2, WalkIs DEF Sound
  <2>. HIDE DEF walk, C
  <2>4. \A i \in 0..(n - 1) : f[i] # Null
    BY <2>0, MallocAssumption DEF Sound, Heaped
  <2>5. onList = 0..(n - 1) /\ \A i \in 0..(n - 1) : walk[i] = f[i]
    <3>1. DOMAIN walk = 0..C /\ \A k \in 0..C : walk[k] = IF k < n THEN f[k] ELSE Null
      BY <2>3
    <3>2. \A k \in 0..C : k < n <=> k \in 0..(n - 1)
      OBVIOUS
    <3>3. \A k \in 0..(n - 1) : k \in 0..C /\ k < n
      BY <2>3
    <3>. QED BY <3>1, <3>2, <3>3, <2>4
  <2>. HIDE DEF onList
  <2>6. listed = Free(v1)
    <3>1. \A q : q \in Free(v1) <=> \E i \in 0..(n - 1) : f[i] = q
      BY <2>2 DEF Linked
    <3>. QED BY <3>1, <2>5
  <2>. HIDE DEF listed
  <2>7. Cardinality(onList) = Cardinality(listed)
    <3>1. f \in Bijection(0..(n - 1), listed)
      <4>1. \A i, k \in 0..(n - 1) : f[i] = f[k] => i = k
        BY <2>2 DEF Linked
      <4>2. \A q : q \in listed <=> \E i \in 0..(n - 1) : f[i] = q
        BY <2>2, <2>6 DEF Linked
      <4>3. f \in [0..(n - 1) -> listed]
        BY <4>2
      <4>. QED BY <4>1, <4>2, <4>3 DEF Bijection, Injection, Surjection, IsInjective
    <3>2. IsFiniteSet(0..(n - 1))
      BY FS_Interval
    <3>. DEFINE I == 0..(n - 1)
    <3>3. Cardinality(listed) = Cardinality(I)
      <4>. HIDE DEF I
      <4>1. f \in Bijection(I, listed) /\ IsFiniteSet(I)
        BY <3>1, <3>2 DEF I
      <4>. QED BY <4>1, FS_Bijection DEF ExistsBijection
    <3>. QED BY <3>3, <2>5
  <2>8. ASSUME NEW i \in onList
        PROVE  /\ v1.at[walk[i]].prevFree = IF i = 0 THEN Null ELSE walk[i - 1]
               /\ walk[i] = v1.freeEnd <=> v1.at[walk[i]].nextFree = Null
    <3>1. i \in 0..(n - 1) /\ walk[i] = f[i] /\ n # 0
      BY <2>5
    <3>2. v1.at[f[i]].prevFree = (IF i = 0 THEN Null ELSE f[i - 1]) /\ v1.at[f[i]].nextFree = (IF i = n - 1 THEN Null ELSE f[i + 1])
      BY <3>1, <2>2 DEF Linked
    <3>3. i # 0 => i - 1 \in 0..(n - 1) /\ walk[i - 1] = f[i - 1]
      BY <3>1, <2>5
    <3>4. i # n - 1 => f[i + 1] # Null
      BY <3>1, <2>4
    <3>5. v1.freeEnd = f[n - 1] /\ (f[i] = f[n - 1] => i = n - 1)
      BY <3>1, <2>2 DEF Linked
    <3>. QED BY <3>1, <3>2, <3>3, <3>4, <3>5
  <2>. QED BY <2>6, <2>7, <2>8
<1>. QED BY <1>2, <1>3

-----------------------------------------------------------------------------
(* mini_memcheck. *)

\* The sum of f over T, as MiniMemcheck has it.
Sum(f, T) == MiniMemcheck!MapThenSumSet(LAMBDA a : f[a], T)

\* g has the sum of f for each of the sets.
Sums(g, f, sets) ==
    /\ g \in [sets -> Int]
    /\ {} \in sets => g[{}] = 0
    /\ \A s \in sets : \A a \in s : g[s] = f[a] + g[s \ {a}]

\* There is such a g, whatever element is taken first.
LEMMA SumsExist ==
    ASSUME NEW S, IsFiniteSet(S), NEW f \in [S -> Int]
    PROVE  \E g : Sums(g, f, SUBSET S)
<1>. DEFINE upTo(k) == {s \in SUBSET S : Cardinality(s) <= k}
            bad == {k \in Nat : ~ \E g : Sums(g, f, upTo(k))}
<1>1. \A s \in SUBSET S : IsFiniteSet(s) /\ Cardinality(s) \in Nat /\ Cardinality(s) <= Cardinality(S)
  BY FS_Subset, FS_CardinalityType
<1>2. \A s \in SUBSET S : s = {} <=> Cardinality(s) = 0
  BY <1>1, FS_EmptySet
<1>3. \A s \in SUBSET S : \A a \in s : Cardinality(s \ {a}) = Cardinality(s) - 1
  BY <1>1, FS_RemoveElement
<1>4. \E g : Sums(g, f, upTo(0))
  <2>1. upTo(0) = {{}}
    BY <1>1, <1>2
  <2>. DEFINE g == [s \in {{}} |-> 0]
  <2>2. Sums(g, f, {{}})
    BY DEF Sums
  <2>. QED BY <2>1, <2>2
<1>5. ASSUME NEW k \in Nat, NEW g, Sums(g, f, upTo(k))
      PROVE  \E h : Sums(h, f, upTo(k + 1))
  <2>. DEFINE c(s) == CHOOSE x \in s : TRUE
              h == [s \in upTo(k + 1) |-> IF s = {} THEN 0 ELSE f[c(s)] + g[s \ {c(s)}]]
  <2>0. \A s \in upTo(k + 1) : s # {} => c(s) \in s /\ c(s) \in S
    OBVIOUS
  <2>1. \A s \in upTo(k + 1) : \A a \in s : s \ {a} \in upTo(k) /\ a \in S
    <3>1. SUFFICES ASSUME NEW s \in upTo(k + 1), NEW a \in s
                   PROVE  s \ {a} \in upTo(k) /\ a \in S
      OBVIOUS
    <3>2. s \in SUBSET S /\ Cardinality(s) <= k + 1 /\ Cardinality(s) \in Nat
      BY <1>1
    <3>3. Cardinality(s \ {a}) = Cardinality(s) - 1
      BY <3>2, <1>3
    <3>4. Cardinality(s \ {a}) <= k
      BY <3>2, <3>3
    <3>. QED BY <3>2, <3>4
  <2>2. upTo(k) \subseteq upTo(k + 1)
    BY <1>1
  <2>3. \A s \in upTo(k + 1) : h[s] = IF s = {} THEN 0 ELSE f[c(s)] + g[s \ {c(s)}]
    OBVIOUS
  <2>4. h \in [upTo(k + 1) -> Int]
    <3>1. \A s \in upTo(k + 1) : (IF s = {} THEN 0 ELSE f[c(s)] + g[s \ {c(s)}]) \in Int
      <4>. HIDE DEF upTo, c
      <4>. QED BY <2>0, <2>1, <1>5 DEF Sums
    <3>. HIDE DEF upTo, c
    <3>. QED BY <3>1
  <2>. HIDE DEF h, c, upTo
  <2>5. \A s \in upTo(k) : h[s] = g[s]
    BY <2>0, <2>2, <2>3, <1>5 DEF Sums
  <2>6. ASSUME NEW s \in upTo(k + 1), NEW a \in s
        PROVE  h[s] = f[a] + h[s \ {a}]
    <3>1. h[s \ {a}] = g[s \ {a}] /\ s # {}
      BY <2>1, <2>5
    <3>2. CASE a = c(s)
      BY <3>1, <3>2, <2>3
    <3>3. CASE a # c(s)
      <4>. DEFINE t == s \ {a}  u == s \ {c(s)}  w == t \ {c(s)}
      <4>1. c(s) \in t /\ a \in u /\ w = u \ {a}
        BY <3>1, <3>3, <2>0
      <4>2. t \in upTo(k) /\ u \in upTo(k)
        BY <2>1, <2>0, <3>1
      <4>3. w \in upTo(k)
        BY <4>1, <4>2, <2>2, <2>1, <1>1, <1>3 DEF upTo
      <4>4. g[t] = f[c(s)] + g[w] /\ g[u] = f[a] + g[w]
        BY <4>1, <4>2, <1>5 DEF Sums
      <4>5. f[a] \in Int /\ f[c(s)] \in Int /\ g[w] \in Int
        BY <2>0, <2>1, <3>1, <4>3, <1>5 DEF Sums
      <4>6. h[s] = f[c(s)] + g[u]
        BY <2>3, <3>1
      <4>. HIDE DEF t, u, w
      <4>7. h[s] = f[a] + g[t]
        BY <4>4, <4>5, <4>6
      <4>. QED BY <4>7, <3>1 DEF t
    <3>. QED BY <3>2, <3>3
  <2>7. {} \in upTo(k + 1) => h[{}] = 0
    BY <2>3
  <2>. QED BY <2>4, <2>6, <2>7 DEF Sums
<1>6. bad = {}
  <2>1. SUFFICES ASSUME bad # {} PROVE FALSE
    OBVIOUS
  <2>2. PICK n \in bad : \A m \in bad : n <= m
    BY <2>1, LeastNatural
  <2>3. n # 0
    BY <1>4, <2>2
  <2>4. PICK k \in Nat : n = k + 1
    BY <2>2, <2>3
  <2>5. ~ (n <= k)
    BY <2>4
  <2>6. k \notin bad
    BY <2>2, <2>5
  <2>. HIDE DEF upTo
  <2>7. \E g : Sums(g, f, upTo(k))
    BY <2>6
  <2>8. \E g : Sums(g, f, upTo(n))
    BY <2>4, <2>7, <1>5
  <2>. QED BY <2>2, <2>8
<1>7. upTo(Cardinality(S)) = SUBSET S
  BY <1>1
<1>9. \A k \in Nat : \E g : Sums(g, f, upTo(k))
  <2>. HIDE DEF upTo
  <2>. QED BY <1>6
<1>8. Cardinality(S) \in Nat
  BY FS_CardinalityType
<1>. HIDE DEF upTo
<1>. QED BY <1>9, <1>7, <1>8

\* Sum takes the elements as it chooses; it is the sum for each set all the same.
LEMMA SumIs ==
    ASSUME NEW S, IsFiniteSet(S), NEW f \in [S -> Int], NEW g, Sums(g, f, SUBSET S),
           NEW T \in SUBSET S, NEW h, \A a \in T : h[a] = f[a]
    PROVE  Sum(h, T) = g[T]
<1>. DEFINE c(s) == CHOOSE x \in s : TRUE
            Iterates(i) == i = [s \in SUBSET T |-> IF s = {} THEN 0 ELSE h[c(s)] + i[s \ {c(s)}]]
            it == CHOOSE i : Iterates(i)
            r == [s \in SUBSET T |-> g[s]]
<1>1. \A s \in SUBSET T : s # {} => c(s) \in s /\ c(s) \in T /\ s \ {c(s)} \in SUBSET T
  OBVIOUS
<1>2. Sum(h, T) = it[T]
  BY DEF Sum, MiniMemcheck!MapThenSumSet, MiniMemcheck!MapThenFoldSet
<1>. HIDE DEF c
<1>3. \A s \in SUBSET T : r[s] = IF s = {} THEN 0 ELSE h[c(s)] + r[s \ {c(s)}]
  BY <1>1 DEF Sums
<1>4. Iterates(r)
  <2>. DEFINE b(s) == IF s = {} THEN 0 ELSE h[c(s)] + r[s \ {c(s)}]
  <2>1. r = [s \in SUBSET T |-> r[s]]
    OBVIOUS
  <2>2. \A s \in SUBSET T : r[s] = b(s)
    BY <1>3
  <2>. HIDE DEF r
  <2>. QED BY <2>1, <2>2
<1>5. Iterates(it)
  <2>. HIDE DEF Iterates, r
  <2>. QED BY <1>4
<1>6. \A s \in SUBSET T : it[s] = IF s = {} THEN 0 ELSE h[c(s)] + it[s \ {c(s)}]
  <2>. HIDE DEF it
  <2>1. it = [s \in SUBSET T |-> IF s = {} THEN 0 ELSE h[c(s)] + it[s \ {c(s)}]]
    BY <1>5
  <2>. QED BY <2>1
<1>. HIDE DEF it, r
<1>. DEFINE bad == {s \in SUBSET T : it[s] # g[s]}
            sizes == {Cardinality(s) : s \in bad}
<1>7. \A s \in SUBSET T : IsFiniteSet(s) /\ Cardinality(s) \in Nat
  BY FS_Subset, FS_CardinalityType
<1>8. bad = {}
  <2>1. SUFFICES ASSUME bad # {} PROVE FALSE
    OBVIOUS
  <2>2. PICK n \in sizes : \A m \in sizes : n <= m
    <3>1. sizes \in SUBSET Nat /\ sizes # {}
      BY <2>1, <1>7
    <3>. HIDE DEF sizes
    <3>. QED BY <3>1, LeastNatural
  <2>3. PICK s \in bad : n = Cardinality(s)
    OBVIOUS
  <2>4. s # {}
    BY <1>6, <2>3 DEF Sums
  <2>. DEFINE x == c(s)  t == s \ {x}
  <2>5. x \in s /\ t \in SUBSET T
    BY <1>1, <2>4, <2>3
  <2>6. Cardinality(t) = Cardinality(s) - 1
    BY <2>5, <2>3, <1>7, FS_RemoveElement
  <2>7. t \notin bad
    BY <2>2, <2>3, <2>6, <1>7
  <2>8. it[t] = g[t]
    BY <2>5, <2>7
  <2>9. it[s] = h[x] + it[t] /\ g[s] = f[x] + g[t] /\ h[x] = f[x]
    BY <2>4, <2>5, <2>3, <1>6 DEF Sums
  <2>. QED BY <2>8, <2>9, <2>3
<1>. QED BY <1>2, <1>8

\* One element more.
LEMMA SumAdds ==
    ASSUME NEW S, IsFiniteSet(S), NEW f \in [S -> Int], NEW a \in S, NEW h, \A b \in S \ {a} : h[b] = f[b]
    PROVE  Sum(f, S) \in Int /\ Sum(f, S) = f[a] + Sum(h, S \ {a})
<1>1. PICK g : Sums(g, f, SUBSET S)
  BY SumsExist
<1>2. Sum(f, S) = g[S]
  BY <1>1, SumIs
<1>3. Sum(h, S \ {a}) = g[S \ {a}]
  BY <1>1, SumIs
<1>4. g[S] = f[a] + g[S \ {a}] /\ g[S] \in Int
  BY <1>1 DEF Sums
<1>. QED BY <1>2, <1>3, <1>4

\* Nothing adds up to 0.
LEMMA SumOfNone == \A f : Sum(f, {}) = 0
<1>. SUFFICES ASSUME NEW f, NEW E, \A x : x \notin E PROVE Sum(f, E) = 0
  OBVIOUS
<1>. DEFINE e == [x \in E |-> 0]
<1>1. e \in [E -> Int] /\ IsFiniteSet(E) /\ (\A a \in E : f[a] = e[a]) /\ E \in SUBSET E
  <2>1. E = {}
    OBVIOUS
  <2>. QED BY <2>1, FS_EmptySet
<1>. HIDE DEF e
<1>2. PICK g : Sums(g, e, SUBSET E)
  BY <1>1, SumsExist
<1>3. Sum(f, E) = g[E]
  BY <1>1, <1>2, SumIs
<1>4. E = {} /\ E \in SUBSET E
  OBVIOUS
<1>. QED BY <1>2, <1>3, <1>4 DEF Sums

\* An address before a list without it.
LEMMA PushedIs ==
    ASSUME NEW A, NEW q \in Seq(A), MiniMemcheck!IsInjective(q), NEW a \in A, a \notin MiniMemcheck!Range(q)
    PROVE  LET r == <<a>> \o q
           IN  r \in Seq(A) /\ MiniMemcheck!IsInjective(r) /\ MiniMemcheck!Range(r) = MiniMemcheck!Range(q) \cup {a}
<1>. DEFINE r == <<a>> \o q
<1>1. r \in Seq(A) /\ Len(r) = Len(q) + 1 /\ DOMAIN r = 1..(Len(q) + 1) /\ DOMAIN q = 1..Len(q) /\ Len(q) \in Nat
  OBVIOUS
<1>2. r[1] = a /\ \A i \in 1..Len(q) : r[i + 1] = q[i]
  OBVIOUS
<1>3. \A k \in DOMAIN r : k = 1 \/ \E i \in 1..Len(q) : k = i + 1
  <2>. SUFFICES ASSUME NEW k \in DOMAIN r, k # 1 PROVE \E i \in 1..Len(q) : k = i + 1
    OBVIOUS
  <2>. k - 1 \in 1..Len(q) /\ k = (k - 1) + 1
    BY <1>1
  <2>. QED OBVIOUS
<1>. HIDE DEF r
<1>4. MiniMemcheck!IsInjective(r)
  <2>. SUFFICES ASSUME NEW i \in DOMAIN r, NEW k \in DOMAIN r, r[i] = r[k] PROVE i = k
    BY DEF MiniMemcheck!IsInjective
  <2>1. \A j \in 1..Len(q) : q[j] # a
    BY <1>1 DEF MiniMemcheck!Range
  <2>2. \A j, l \in 1..Len(q) : q[j] = q[l] => j = l
    BY <1>1 DEF MiniMemcheck!IsInjective
  <2>. QED BY <1>2, <1>3, <2>1, <2>2
<1>5. ASSUME NEW x PROVE x \in MiniMemcheck!Range(r) <=> x \in MiniMemcheck!Range(q) \/ x = a
  <2>1. 1 \in DOMAIN r /\ \A i \in 1..Len(q) : i + 1 \in DOMAIN r
    BY <1>1
  <2>2. x \in MiniMemcheck!Range(r) <=> \E k \in DOMAIN r : x = r[k]
    BY DEF MiniMemcheck!Range
  <2>3. x \in MiniMemcheck!Range(q) <=> \E i \in 1..Len(q) : x = q[i]
    BY <1>1 DEF MiniMemcheck!Range
  <2>4. ASSUME NEW k \in DOMAIN r, x = r[k] PROVE x = a \/ \E i \in 1..Len(q) : x = q[i]
    BY <2>4, <1>2, <1>3
  <2>5. ASSUME NEW i \in 1..Len(q), x = q[i] PROVE \E k \in DOMAIN r : x = r[k]
    BY <2>5, <2>1, <1>2
  <2>. QED BY <2>1, <2>2, <2>3, <2>4, <2>5, <1>2
<1>. QED BY <1>1, <1>4, <1>5 DEF r

\* The list without one of its addresses.
LEMMA UnlinkedIs ==
    ASSUME NEW A, v1 \in Seq(A), MiniMemcheck!IsInjective(v1), NEW a \in MiniMemcheck!Range(v1)
    PROVE  LET r == MiniMemcheck!Unlinked(a)
           IN  r \in Seq(A) /\ MiniMemcheck!IsInjective(r) /\ MiniMemcheck!Range(r) = MiniMemcheck!Range(v1) \ {a}
<1>. DEFINE r == MiniMemcheck!Unlinked(a)
            at == {i \in DOMAIN v1 : v1[i] = a}
            n == MiniMemcheck!Min(at)
            front == SubSeq(v1, 1, n - 1)  back == SubSeq(v1, n + 1, Len(v1))
<1>1. DOMAIN v1 = 1..Len(v1) /\ Len(v1) \in Nat
  OBVIOUS
<1>2. at \in SUBSET Nat /\ at # {}
  BY <1>1 DEF MiniMemcheck!Range
<1>3. n \in 1..Len(v1) /\ v1[n] = a
  <2>1. n \in at
    <3>. HIDE DEF at
    <3>. QED BY <1>2, LeastNatural DEF MiniMemcheck!Min
  <2>. QED BY <2>1, <1>1
<1>4. r = front \o back
  BY DEF MiniMemcheck!Unlinked
<1>. HIDE DEF n, r
<1>5. front \in Seq(A) /\ Len(front) = n - 1 /\ \A i \in 1..(n - 1) : front[i] = v1[i]
  BY <1>1, <1>3
<1>6. back \in Seq(A) /\ Len(back) = Len(v1) - n /\ \A i \in 1..(Len(v1) - n) : back[i] = v1[i + n]
  <2>1. back = [i \in 1..(Len(v1) - n) |-> v1[i + n]]
    BY <1>1, <1>3
  <2>2. \A i \in 1..(Len(v1) - n) : v1[i + n] \in A
    BY <1>1, <1>3
  <2>. DEFINE m == Len(v1) - n
  <2>3. m \in Nat
    BY <1>1, <1>3
  <2>. HIDE DEF m, back
  <2>4. back \in [1..m -> A]
    BY <2>1, <2>2 DEF m
  <2>5. back \in Seq(A) /\ Len(back) = m
    BY <2>3, <2>4
  <2>6. \A i \in 1..m : back[i] = v1[i + n]
    BY <2>1 DEF m
  <2>. QED BY <2>5, <2>6 DEF m
<1>. HIDE DEF front, back
<1>7. r \in Seq(A) /\ Len(r) = Len(v1) - 1 /\ DOMAIN r = 1..(Len(v1) - 1)
  <2>1. r \in Seq(A) /\ Len(r) = Len(front) + Len(back) /\ DOMAIN r = 1..Len(r)
    <3>1. front \in Seq(A) /\ back \in Seq(A)
      BY <1>5, <1>6
    <3>2. r \in Seq(A) /\ Len(r) = Len(front) + Len(back)
      BY <3>1, <1>4, ConcatProperties
    <3>3. DOMAIN r = 1..Len(r)
      BY <3>2
    <3>. QED BY <3>2, <3>3
  <2>2. (n - 1) + (Len(v1) - n) = Len(v1) - 1
    BY <1>1, <1>3
  <2>. QED BY <2>1, <2>2, <1>5, <1>6
<1>8. \A i \in 1..(Len(v1) - 1) : r[i] = v1[IF i < n THEN i ELSE i + 1]
  <2>. SUFFICES ASSUME NEW i \in 1..(Len(v1) - 1) PROVE r[i] = v1[IF i < n THEN i ELSE i + 1]
    OBVIOUS
  <2>1. CASE i < n
    BY <2>1, <1>1, <1>3, <1>4, <1>5, <1>6
  <2>2. CASE ~(i < n)
    <3>1. i - (n - 1) \in 1..(Len(v1) - n)
      BY <2>2, <1>1, <1>3
    <3>2. r[i] = back[i - (n - 1)]
      BY <2>2, <1>1, <1>3, <1>4, <1>5, <1>6
    <3>3. back[i - (n - 1)] = v1[(i - (n - 1)) + n]
      BY <3>1, <1>6
    <3>4. (i - (n - 1)) + n = i + 1
      BY <1>1, <1>3
    <3>. QED BY <3>2, <3>3, <3>4, <2>2
  <2>. QED BY <2>1, <2>2
<1>. HIDE DEF at
<1>9. \A i, k \in 1..Len(v1) : v1[i] = v1[k] => i = k
  BY <1>1 DEF MiniMemcheck!IsInjective
<1>10. MiniMemcheck!IsInjective(r)
  <2>. SUFFICES ASSUME NEW i \in 1..(Len(v1) - 1), NEW k \in 1..(Len(v1) - 1), r[i] = r[k]
                PROVE  i = k
    BY <1>7 DEF MiniMemcheck!IsInjective
  <2>. DEFINE from(j) == IF j < n THEN j ELSE j + 1
  <2>1. from(i) \in 1..Len(v1) /\ from(k) \in 1..Len(v1)
    BY <1>1, <1>3
  <2>2. v1[from(i)] = v1[from(k)]
    BY <1>8
  <2>3. from(i) = from(k)
    <3>. HIDE DEF from
    <3>. QED BY <2>1, <2>2, <1>9
  <2>. QED BY <2>3, <1>1, <1>3
<1>11. ASSUME NEW x PROVE x \in MiniMemcheck!Range(r) <=> x \in MiniMemcheck!Range(v1) /\ x # a
  <2>1. ASSUME x \in MiniMemcheck!Range(r) PROVE x \in MiniMemcheck!Range(v1) /\ x # a
    <3>1. PICK i \in 1..(Len(v1) - 1) : x = r[i]
      BY <2>1, <1>7 DEF MiniMemcheck!Range
    <3>2. PICK k \in 1..Len(v1) : k # n /\ x = v1[k]
      BY <3>1, <1>8, <1>1, <1>3
    <3>. QED BY <3>2, <1>1, <1>3, <1>9 DEF MiniMemcheck!Range
  <2>2. ASSUME x \in MiniMemcheck!Range(v1), x # a PROVE x \in MiniMemcheck!Range(r)
    <3>1. PICK k \in 1..Len(v1) : k # n /\ x = v1[k]
      BY <2>2, <1>1, <1>3 DEF MiniMemcheck!Range
    <3>2. PICK i \in 1..(Len(v1) - 1) : k = IF i < n THEN i ELSE i + 1
      <4>1. CASE k < n
        BY <4>1, <1>1, <1>3
      <4>2. CASE k > n
        <5>. k - 1 \in 1..(Len(v1) - 1) /\ ~(k - 1 < n) /\ k = (k - 1) + 1
          BY <4>2, <1>1, <1>3
        <5>. QED OBVIOUS
      <4>. QED BY <3>1, <1>1, <1>3, <4>1, <4>2
    <3>3. x = r[i]
      BY <3>1, <3>2, <1>8
    <3>. QED BY <3>3, <1>7 DEF MiniMemcheck!Range
  <2>. QED BY <2>1, <2>2
<1>. QED BY <1>7, <1>10, <1>11 DEF r

\* While no sizes are confused: the list has the blocks that are out, once each; the
\* program's payloads are theirs; and the counters agree with both.
Kept(list, size, requested, freed, invalid, held, badFrees) ==
    /\ list \in Seq(MiniMemcheck!Addresses) /\ MiniMemcheck!IsInjective(list)
    /\ MiniMemcheck!Range(list) = DOMAIN size
    /\ DOMAIN size \subseteq MiniMemcheck!Addresses /\ size \in [DOMAIN size -> Nat]
    /\ held = [payload \in {a + 1 : a \in DOMAIN size} |-> size[payload - 1]]
    /\ requested \in Int /\ freed \in Int /\ requested - freed = Sum(size, DOMAIN size)
    /\ invalid \in Nat /\ badFrees = invalid
MemcheckInv == v6 = "fine" => Kept(v1, v2, v3, v4, v5, v7, v8)

\* Nothing is given out yet.
LEMMA MemcheckInit ==
    ASSUME MiniMemcheck!Init
    PROVE  MemcheckInv
<1>1. v1 = <<>> /\ v2 = <<>> /\ v3 = 0 /\ v4 = 0 /\ v5 = 0 /\ v7 = <<>> /\ v8 = 0
  BY DEF MiniMemcheck!Init
<1>2. <<>> \in Seq(MiniMemcheck!Addresses) /\ DOMAIN <<>> = {} /\ <<>> \in [{} -> Nat]
  OBVIOUS
<1>3. MiniMemcheck!IsInjective(v1) /\ MiniMemcheck!Range(v1) = {}
  BY <1>1, <1>2 DEF MiniMemcheck!IsInjective, MiniMemcheck!Range
<1>4. v7 = [payload \in {a + 1 : a \in DOMAIN v2} |-> v2[payload - 1]]
  BY <1>1
<1>5. Sum(v2, DOMAIN v2) = 0
  BY <1>1, <1>2, SumOfNone
<1>. QED BY <1>1, <1>2, <1>3, <1>4, <1>5 DEF Kept, MemcheckInv

\* A block more: mini_malloc links it in at the head.
LEMMA GivenOutKeeps ==
    ASSUME MemcheckInv, NEW n \in MemcheckSizes, MiniMemcheck!Allocated(n)
    PROVE  MemcheckInv'
<1>. SUFFICES ASSUME v6 = "fine" PROVE Kept(v1, v2, v3, v4, v5, v7, v8)'
  BY DEF MiniMemcheck!Allocated, MemcheckInv
<1>0. Kept(v1, v2, v3, v4, v5, v7, v8)
  BY DEF MemcheckInv
<1>1. PICK a \in MiniMemcheck!Addresses :
          /\ MiniMemcheck!Fits(a, n, v2)
          /\ v1' = <<a>> \o v1 /\ v2' = MiniMemcheck!Put(v2, a, n)
          /\ v3' = v3 + n /\ v7' = MiniMemcheck!Put(v7, a + 1, n)
          /\ v4' = v4 /\ v5' = v5 /\ v8' = v8
  BY DEF MiniMemcheck!Allocated
<1>2. n \in Nat /\ \A b \in MiniMemcheck!Addresses : b \in Nat
  BY MemcheckAssumption DEF MiniMemcheck!Addresses
<1>3. a \notin DOMAIN v2
  <2>. SUFFICES ASSUME a \in DOMAIN v2 PROVE FALSE
    OBVIOUS
  <2>1. v2[a] \in Nat /\ a \in Nat
    BY <1>0, <1>2 DEF Kept
  <2>2. a + n < a \/ a + v2[a] < a
    BY <1>1 DEF MiniMemcheck!Fits
  <2>. QED BY <2>1, <2>2, <1>2
<1>4. /\ DOMAIN v2' = DOMAIN v2 \cup {a} /\ v2' \in [DOMAIN v2' -> Nat]
      /\ v2'[a] = n /\ \A b \in DOMAIN v2' \ {a} : v2'[b] = v2[b]
  BY <1>0, <1>1, <1>2 DEF Kept, MiniMemcheck!Put
<1>5. v1' \in Seq(MiniMemcheck!Addresses) /\ MiniMemcheck!IsInjective(v1') /\ MiniMemcheck!Range(v1') = DOMAIN v2'
  <2>1. a \notin MiniMemcheck!Range(v1)
    BY <1>0, <1>3 DEF Kept
  <2>. QED BY <2>1, <1>0, <1>1, <1>4, PushedIs DEF Kept
<1>6. Sum(v2', DOMAIN v2') = Sum(v2, DOMAIN v2) + n /\ Sum(v2, DOMAIN v2) \in Int
  <2>1. IsFiniteSet(DOMAIN v2')
    <3>1. DOMAIN v2' \subseteq 1..MemcheckHeap
      BY <1>0, <1>1, <1>4 DEF Kept, MiniMemcheck!Addresses
    <3>2. IsFiniteSet(1..MemcheckHeap)
      BY MemcheckAssumption, FS_Interval
    <3>. QED BY <3>1, <3>2, FS_Subset
  <2>2. DOMAIN v2' \ {a} = DOMAIN v2 /\ a \in DOMAIN v2'
    BY <1>3, <1>4
  <2>3. v2' \in [DOMAIN v2' -> Int]
    BY <1>4
  <2>4. \A b \in DOMAIN v2' \ {a} : v2[b] = v2'[b]
    BY <1>4
  <2>6. Sum(v2', DOMAIN v2') \in Int /\ Sum(v2', DOMAIN v2') = v2'[a] + Sum(v2, DOMAIN v2' \ {a})
    BY <2>1, <2>2, <2>3, <2>4, SumAdds
  <2>5. Sum(v2, DOMAIN v2) \in Int
    BY <1>0 DEF Kept
  <2>. QED BY <2>2, <2>6, <2>5, <1>2, <1>4
<1>7. v7' = [payload \in {b + 1 : b \in DOMAIN v2'} |-> v2'[payload - 1]]
  <2>. DEFINE P == {b + 1 : b \in DOMAIN v2'}
  <2>1. DOMAIN v7 = {b + 1 : b \in DOMAIN v2} /\ \A b \in DOMAIN v2 : v7[b + 1] = v2[(b + 1) - 1]
    BY <1>0 DEF Kept
  <2>2. \A b \in DOMAIN v2' : b \in Nat /\ (b + 1) - 1 = b
    BY <1>0, <1>1, <1>2, <1>4 DEF Kept
  <2>3. v7' = [p \in DOMAIN v7 \cup {a + 1} |-> IF p = a + 1 THEN n ELSE v7[p]]
    BY <1>1 DEF MiniMemcheck!Put
  <2>4. DOMAIN v7 \cup {a + 1} = P
    BY <2>1, <1>4
  <2>5. \A p \in P : (IF p = a + 1 THEN n ELSE v7[p]) = v2'[p - 1]
    <3>. SUFFICES ASSUME NEW b \in DOMAIN v2' PROVE (IF b + 1 = a + 1 THEN n ELSE v7[b + 1]) = v2'[(b + 1) - 1]
      OBVIOUS
    <3>1. CASE b = a
      BY <3>1, <2>2, <1>4
    <3>2. CASE b # a
      BY <3>2, <2>1, <2>2, <1>1, <1>2, <1>4
    <3>. QED BY <3>1, <3>2
  <2>. HIDE DEF P
  <2>6. v7' = [p \in P |-> v2'[p - 1]]
    BY <2>3, <2>4, <2>5
  <2>. QED BY <2>6 DEF P
<1>8. v3' \in Int /\ v4' \in Int /\ v3' - v4' = Sum(v2', DOMAIN v2')
  BY <1>0, <1>1, <1>2, <1>6 DEF Kept
<1>9. DOMAIN v2' \subseteq MiniMemcheck!Addresses
  BY <1>0, <1>1, <1>4 DEF Kept
<1>. QED BY <1>0, <1>1, <1>4, <1>5, <1>7, <1>8, <1>9 DEF Kept

\* One less, or the count of the frees in error.
LEMMA TakenBackKeeps ==
    ASSUME MemcheckInv, NEW payload \in MiniMemcheck!Addresses, MiniMemcheck!CallFree(payload)
    PROVE  MemcheckInv'
<1>. SUFFICES ASSUME v6 = "fine" PROVE Kept(v1, v2, v3, v4, v5, v7, v8)'
  BY DEF MiniMemcheck!CallFree, MemcheckInv
<1>. DEFINE a == payload - 1  ours == a \in MiniMemcheck!Range(v1)
<1>0. Kept(v1, v2, v3, v4, v5, v7, v8)
  BY DEF MemcheckInv
<1>1. /\ v1' = (IF ours THEN MiniMemcheck!Unlinked(a) ELSE v1) /\ v2' = MiniMemcheck!Drop(v2, a)
      /\ v4' = IF ours THEN v4 + v2[a] ELSE v4
      /\ v5' = IF ours THEN v5 ELSE v5 + 1
      /\ v7' = MiniMemcheck!Drop(v7, payload)
      /\ v8' = IF payload \in DOMAIN v7 THEN v8 ELSE v8 + 1
      /\ v3' = v3
  BY DEF MiniMemcheck!CallFree
<1>2. payload \in Nat /\ a \in Int /\ payload = a + 1 /\ \A b \in MiniMemcheck!Addresses : b \in Nat
  BY MemcheckAssumption DEF MiniMemcheck!Addresses
<1>3. ours <=> a \in DOMAIN v2
  BY <1>0 DEF Kept
<1>. HIDE DEF a, ours
<1>4. /\ DOMAIN v2' = DOMAIN v2 \ {a} /\ v2' \in [DOMAIN v2' -> Nat]
      /\ \A b \in DOMAIN v2 \ {a} : v2'[b] = v2[b]
  BY <1>0, <1>1 DEF Kept, MiniMemcheck!Drop
<1>5. v1' \in Seq(MiniMemcheck!Addresses) /\ MiniMemcheck!IsInjective(v1') /\ MiniMemcheck!Range(v1') = DOMAIN v2'
  <2>1. CASE ours
    BY <2>1, <1>0, <1>1, <1>4, UnlinkedIs DEF Kept, ours
  <2>2. CASE ~ours
    <3>1. v1' = v1 /\ DOMAIN v2' = DOMAIN v2
      BY <2>2, <1>1, <1>3, <1>4
    <3>. QED BY <3>1, <1>0 DEF Kept
  <2>. QED BY <2>1, <2>2
<1>6. v3' \in Int /\ v4' \in Int /\ v3' - v4' = Sum(v2', DOMAIN v2')
  <2>1. CASE ours
    <3>1. IsFiniteSet(DOMAIN v2)
      <4>1. DOMAIN v2 \subseteq 1..MemcheckHeap
        BY <1>0 DEF Kept, MiniMemcheck!Addresses
      <4>2. IsFiniteSet(1..MemcheckHeap)
        BY MemcheckAssumption, FS_Interval
      <4>. QED BY <4>1, <4>2, FS_Subset
    <3>2. v2 \in [DOMAIN v2 -> Int] /\ a \in DOMAIN v2 /\ v2[a] \in Int
      BY <1>0, <1>3, <2>1 DEF Kept
    <3>3. Sum(v2, DOMAIN v2) \in Int /\ Sum(v2, DOMAIN v2) = v2[a] + Sum(v2', DOMAIN v2 \ {a})
      BY <3>1, <3>2, <1>4, SumAdds
    <3>4. Sum(v2', DOMAIN v2 \ {a}) \in Int
      <4>1. IsFiniteSet(DOMAIN v2 \ {a}) /\ v2' \in [DOMAIN v2 \ {a} -> Int]
        BY <3>1, <1>4, FS_RemoveElement
      <4>2. PICK g : Sums(g, v2', SUBSET (DOMAIN v2 \ {a}))
        BY <4>1, SumsExist
      <4>3. Sum(v2', DOMAIN v2 \ {a}) = g[DOMAIN v2 \ {a}]
        BY <4>1, <4>2, SumIs
      <4>. QED BY <4>2, <4>3 DEF Sums
    <3>5. v3 \in Int /\ v4 \in Int /\ v3 - v4 = Sum(v2, DOMAIN v2)
      BY <1>0 DEF Kept
    <3>6. v3' = v3 /\ v4' = v4 + v2[a] /\ DOMAIN v2' = DOMAIN v2 \ {a}
      BY <2>1, <1>1, <1>4
    <3>. QED BY <3>2, <3>3, <3>4, <3>5, <3>6
  <2>2. CASE ~ours
    <3>1. v2' = v2 /\ v3' = v3 /\ v4' = v4
      BY <2>2, <1>0, <1>1, <1>3 DEF Kept, MiniMemcheck!Drop
    <3>. QED BY <3>1, <1>0 DEF Kept
  <2>. QED BY <2>1, <2>2
<1>7. v7' = [p \in {b + 1 : b \in DOMAIN v2'} |-> v2'[p - 1]]
  <2>. DEFINE P == {b + 1 : b \in DOMAIN v2'}
  <2>1. DOMAIN v7 = {b + 1 : b \in DOMAIN v2} /\ \A b \in DOMAIN v2 : v7[b + 1] = v2[(b + 1) - 1]
    BY <1>0 DEF Kept
  <2>2. \A b \in DOMAIN v2 : b \in Nat /\ (b + 1) - 1 = b
    BY <1>0, <1>2 DEF Kept
  <2>3. v7' = [p \in DOMAIN v7 \ {payload} |-> v7[p]]
    BY <1>1 DEF MiniMemcheck!Drop
  <2>4. DOMAIN v7 \ {payload} = P
    BY <2>1, <2>2, <1>2, <1>4
  <2>5. \A p \in P : v7[p] = v2'[p - 1]
    BY <2>1, <2>2, <1>4
  <2>. HIDE DEF P
  <2>6. v7' = [p \in P |-> v2'[p - 1]]
    BY <2>3, <2>4, <2>5
  <2>. QED BY <2>6 DEF P
<1>8. v5' \in Nat /\ v8' = v5'
  <2>1. payload \in DOMAIN v7 <=> a \in DOMAIN v2
    BY <1>0, <1>2 DEF Kept
  <2>. QED BY <2>1, <1>0, <1>1, <1>3 DEF Kept
<1>9. DOMAIN v2' \subseteq MiniMemcheck!Addresses
  BY <1>0, <1>4 DEF Kept
<1>. QED BY <1>4, <1>5, <1>6, <1>7, <1>8, <1>9 DEF Kept

\* Every call keeps the ledger, but a realloc that confuses the sizes, or the program's
\* death, after which it is not asked for.
LEMMA MemcheckStep ==
    ASSUME MemcheckInv, [MiniMemcheck!Next]_(MiniMemcheck!vars)
    PROVE  MemcheckInv'
<1>1. ASSUME NEW n \in MemcheckSizes, MiniMemcheck!CallMalloc(n) \/ MiniMemcheck!CallCalloc(n) PROVE MemcheckInv'
  <2>1. CASE MiniMemcheck!Allocated(n)
    BY <2>1, GivenOutKeeps
  <2>2. CASE MiniMemcheck!Refused
    BY <2>2 DEF MiniMemcheck!Refused, MemcheckInv
  <2>3. CASE MiniMemcheck!Dies
    BY <2>3 DEF MiniMemcheck!Dies, MemcheckInv
  <2>. QED BY <1>1, <2>1, <2>2, <2>3 DEF MiniMemcheck!CallMalloc, MiniMemcheck!CallCalloc
<1>2. ASSUME NEW payload \in MiniMemcheck!Addresses, NEW n \in MemcheckSizes, MiniMemcheck!CallRealloc(payload, n)
      PROVE  MemcheckInv'
  <2>1. CASE MiniMemcheck!Refused
    BY <2>1 DEF MiniMemcheck!Refused, MemcheckInv
  <2>2. CASE v6' # "fine"
    BY <2>2 DEF MemcheckInv
  <2>. QED BY <1>2, <2>1, <2>2 DEF MiniMemcheck!CallRealloc, MiniMemcheck!Dies
<1>3. CASE UNCHANGED MiniMemcheck!vars
  BY <1>3 DEF MiniMemcheck!vars, MemcheckInv
<1>. QED BY <1>1, <1>2, <1>3, TakenBackKeeps DEF MiniMemcheck!Next

\* What the run checks of it.
LEMMA MemcheckIsRight ==
    ASSUME MemcheckInv
    PROVE  MiniMemcheck!LedgerIsRight
BY DEF MemcheckInv, Kept, Sum, MiniMemcheck!LedgerIsRight

-----------------------------------------------------------------------------
(* All the programs. *)

\* A step is one of the program that was chosen.
LEMMA OfTheChosen ==
    ASSUME [Next]_vars
    PROVE  /\ which' = which
           /\ which = "virtual_memory" => [VM!Next]_(VM!vars)
           /\ which = "malloc" => [Malloc!Next]_(Malloc!vars)
           /\ which = "mini_memcheck" => [MiniMemcheck!Next]_(MiniMemcheck!vars)
<1>1. CASE UNCHANGED vars
  BY <1>1 DEF vars, from2, from3, from4, from5, from6, from7, from8, from9, VM!vars, Malloc!vars, MiniMemcheck!vars
<1>2. CASE Next
  BY <1>2 DEF Next, NextMalloc, NextMiniMemcheck, NextGthreads, NextThreadStatus, NextShell, NextMakefiles,
     NextFakefs, NextVM, NextChatClient, InMalloc, InMiniMemcheck, InGthreads, InThreadStatus, InShell,
     InMakefiles, InFakefs, InVM, InChatClient
<1>. QED BY <1>1, <1>2

\* The invariant of the program that was chosen.
ChosenMemoryInv ==
    /\ which = "virtual_memory" => VMInv
    /\ which = "malloc" => MallocInv
    /\ which = "mini_memcheck" => MemcheckInv

\* It holds at the start ...
LEMMA ChosenMemoryInit ==
    ASSUME Init
    PROVE  ChosenMemoryInv
<1>1. /\ which = "virtual_memory" => VM!Init
      /\ which = "malloc" => Malloc!Init
      /\ which = "mini_memcheck" => MiniMemcheck!Init
  BY DEF Init, InitMalloc, InitMiniMemcheck, InitGthreads, InitThreadStatus, InitShell, InitMakefiles,
     InitFakefs, InitVM, InitChatClient, InMalloc, InMiniMemcheck, InGthreads, InThreadStatus, InShell,
     InMakefiles, InFakefs, InVM, InChatClient
<1>. QED BY <1>1, VMStarts, MallocInit, MemcheckInit DEF ChosenMemoryInv

\* ... every step keeps it ...
LEMMA ChosenMemoryStep ==
    ASSUME ChosenMemoryInv, [Next]_vars
    PROVE  ChosenMemoryInv'
<1>0. which' = which
  BY OfTheChosen
<1>1. CASE which = "virtual_memory"
  <2>1. [VM!Next]_(VM!vars) /\ VMInv
    BY <1>1, OfTheChosen DEF ChosenMemoryInv
  <2>2. ASSUME UNCHANGED VM!vars
        PROVE  VMInv'
    <3>1. v1' = v1 /\ v2' = v2 /\ v3' = v3
      BY <2>2 DEF VM!vars
    <3>. QED BY <2>1, <3>1 DEF VMInv, VMHolds
  <2>3. VMInv'
    BY <2>1, <2>2, VMStep
  <2>. QED BY <1>0, <1>1, <2>3 DEF ChosenMemoryInv
<1>2. CASE which = "malloc"
  BY <1>0, <1>2, OfTheChosen, MallocStep DEF ChosenMemoryInv
<1>3. CASE which = "mini_memcheck"
  BY <1>0, <1>3, OfTheChosen, MemcheckStep DEF ChosenMemoryInv
<1>. QED BY <1>0, <1>1, <1>2, <1>3 DEF ChosenMemoryInv

\* ... so that it always holds.
LEMMA SpecChosenMemoryInv == Spec => []ChosenMemoryInv
BY ChosenMemoryInit, ChosenMemoryStep, PTL DEF Spec

\* As long as no NULL is followed and no page table lost, a read of a process returns what
\* it wrote to the page last, for any processes and any frames: whatever was swapped out
\* in between, and whatever the TLB still knows (mmu.c:22-176, 267-297, tlb.c:11-84,
\* kernel.c:22-117).
THEOREM SpecReadsSeeWrites == Spec => []ReadsSeeWrites
<1>1. ChosenMemoryInv => ReadsSeeWrites
  BY VMReads DEF ChosenMemoryInv, ReadsSeeWrites
<1>. QED BY <1>1, SpecChosenMemoryInv, PTL

\* malloc's blocks tile the heap up to the program break, the free ones and no others
\* are on the free list, and no block of the program's is lost, cut short or overlaps
\* another (alloc.c:87-360); mini_memcheck's list, counters and count of the frees in
\* error are right until a realloc confuses the sizes (mini_memcheck.c:15-40, 93-124).
THEOREM SpecBlocksAreAccounted == Spec => []BlocksAreAccounted
<1>1. ChosenMemoryInv => BlocksAreAccounted
  BY MallocTiles, MallocAccounts, MemcheckIsRight DEF ChosenMemoryInv, BlocksAreAccounted
<1>. QED BY <1>1, SpecChosenMemoryInv, PTL
===============================================================================
