------------------------------- MODULE Minixfs -------------------------------
(***************************************************************************)
(* finding_filesystems/: minixfs.c over minixfs_utils.c and                *)
(* minixfs_provided.c, functions on one file system.  Directories are      *)
(* measured in units of sizeof(minixfs_dirent), the amount by which a new  *)
(* entry makes its directory grow; the entry itself is FILE_NAME_ENTRY     *)
(* long: the name in its first unit and the inode's number in its last.    *)
(* Block -1, UNASSIGNED_NODE, is in the inode table, behind the inodes in  *)
(* use.  Attributes and the virtual directory are left out.                *)
(***************************************************************************)
EXTENDS Integers, Sequences, FiniteSetsExt

CONSTANTS NInodes, NBlocks,
          NDirect,          \* NUM_DIRECT_BLOCKS, and NUM_INDIRECT_BLOCKS
          BlockSize,        \* in bytes
          DirUnits, Entry,  \* a block and FILE_NAME_ENTRY, in units
          Images,           \* the file systems to start from
          Paths, Spans,     \* what the program names, and <<off, count>>
          MaxCalls          \* a bound

UNASSIGNED == -1
Inodes == 0..NInodes - 1
Blocks == 0..NBlocks - 1
Slots == 0..2 * NDirect - 1  \* the direct blocks, then the indirect ones

VARIABLES fs,        \* inode, used, units, bytes, numbers
          died,      \* a NULL or a wild pointer was followed
          named,     \* history: the inode of each path that should be there
          content,   \* history: what each inode's file should hold, by inode
          asked, got,  \* history: the last read
          calls
vars == <<fs, died, named, content, asked, got, calls>>

Blank == [name |-> "", ino |-> 0]
Spoiled == <<-1>>

Init ==
    /\ \E image \in Images : fs = image.fs /\ named = image.named /\ content = image.content
    /\ died = FALSE /\ asked = <<>> /\ got = <<>> /\ calls = 0

-----------------------------------------------------------------------------
(* Directories. *)

Root == 0
BlockOf(d, k) == d.direct[k + 1]
Unit(s, d, u) ==
    LET b == BlockOf(d, u \div DirUnits) IN s.units[b][u % DirUnits]

\* the units looked at: entry after entry while size, which is unsigned, has not
\* come to exactly 0, in the blocks before the first unassigned one
EntriesOf(d) ==
    LET last == {k \in 0..NDirect - 1 : BlockOf(d, k) = UNASSIGNED}
        room == (IF last = {} THEN NDirect ELSE Min(last)) * DirUnits
    IN  {u \in 0..room - 1 : u % Entry = 0 /\ (d.size < 0 \/ d.size % Entry # 0 \/ u < d.size)}

EntryAt(s, d, u) == [name |-> Unit(s, d, u).name, ino |-> Unit(s, d, u + Entry - 1).ino]

\* an entry without a number is passed over
FindInodeNamed(s, d, name) ==
    LET hits == {u \in EntriesOf(d) : EntryAt(s, d, u).name = name /\ EntryAt(s, d, u).ino # 0}
    IN  IF hits = {} THEN UNASSIGNED ELSE EntryAt(s, d, Min(hits)).ino

GetInode(s, path) ==
    LET reached[n \in 0..Len(path)] ==
          IF n = 0 THEN Root
          ELSE LET i == reached[n - 1]
               IN  IF i = UNASSIGNED \/ ~s.inode[i].dir THEN UNASSIGNED
                   ELSE FindInodeNamed(s, s.inode[i], path[n])
    IN  reached[Len(path)]

ParentDirectory(s, path) == GetInode(s, SubSeq(path, 1, Len(path) - 1))

\* but if it is the first, there is nothing it could be passed over for
Undefined(s) == \E i \in Inodes :
    LET d == s.inode[i]
    IN  d.nlink > 0 /\ d.dir /\ 0 \in EntriesOf(d) /\ EntryAt(s, d, 0).ino = 0

InitInode == [nlink |-> 1, dir |-> FALSE, size |-> 0,
              direct |-> [k \in 1..NDirect |-> UNASSIGNED], indirect |-> UNASSIGNED]

MakeStringFromDirent(block, u, name, ino) ==
    [x \in DOMAIN block |->
        IF x = u THEN [name |-> name, ino |-> 0]
        ELSE IF x = u + Entry - 1 THEN [name |-> "", ino |-> ino]
        ELSE IF x \in u..u + Entry - 1 THEN Blank
        ELSE IF x = u + Entry THEN [block[x] EXCEPT !.name = ""]  \* sprintf's NUL
        ELSE block[x]]

FirstUnusedInode(s) == LET free == {i \in Inodes \ {Root} : s.inode[i].nlink = 0}
                       IN  IF free = {} THEN UNASSIGNED ELSE Min(free)

CanCreate(s, path) ==
    /\ path # <<>> /\ GetInode(s, path) = UNASSIGNED
    /\ ParentDirectory(s, path) # UNASSIGNED /\ s.inode[ParentDirectory(s, path)].dir
    /\ FirstUnusedInode(s) # UNASSIGNED

\* in a directory without a block for it the entry is lost
CreateInodeForPath(s, path) ==
    LET p == ParentDirectory(s, path)
        i == FirstUnusedInode(s)
        size == s.inode[p].size
        b == BlockOf(s.inode[p], size \div DirUnits)
        made == [s EXCEPT !.inode[i] = InitInode, !.inode[p].size = size + 1]
    IN  IF ~CanCreate(s, path) THEN s
        ELSE IF b = UNASSIGNED THEN made
        ELSE [made EXCEPT !.units[b] = MakeStringFromDirent(@, size % DirUnits, path[Len(path)], i)]

-----------------------------------------------------------------------------
(* Blocks. *)

BlockAt(s, node, slot) ==
    IF slot < NDirect THEN node.direct[slot + 1]
    ELSE IF node.indirect = UNASSIGNED THEN UNASSIGNED
    ELSE s.numbers[node.indirect][slot - NDirect + 1]

FreeInode_LeavesIndirect(s, i) ==
    LET node == s.inode[i]
        blocks == {BlockAt(s, node, slot) : slot \in 0..NDirect - 1} \cup {node.indirect}
    IN  [s EXCEPT !.inode[i].nlink = 0, !.used = @ \ blocks]

FreeInode(s, i) ==
    LET node == s.inode[i]
        blocks == {BlockAt(s, node, slot) : slot \in Slots} \cup {node.indirect}
    IN  [s EXCEPT !.inode[i].nlink = 0, !.used = @ \ blocks]

\* minixfs_min_blockcount: what minixfs_write asks for is 1 block, however much it is to
\* write, its expression being (a + b > 0) ? 1 : 0
AddFirstBlock(s, i, b) ==
    [s EXCEPT !.inode[i].direct[1] = b, !.used = @ \cup {b}, !.bytes[b] = [x \in 1..BlockSize |-> 0]]

Piece(slot, from, n) == [slot |-> slot, from |-> from, n |-> n]
Whole(first, end) == [k \in 1..(IF end < first THEN 0 ELSE end - first) |-> Piece(first + k - 1, 0, BlockSize)]

\* what minixfs_write and minixfs_read copy, piece by piece: within a block; or the
\* rest of the first block, whole ones, direct and then indirect, and a part of the last,
\* but for an access that ends with the direct blocks.  The length of that part is
\* reckoned from off + count less what went into the first block, where count less that
\* is meant: it is right if the access begins with a block.  A piece of no bytes is none,
\* wherever its block number was read.
Pieces(off, count) ==
    LET end == (off + count) \div BlockSize
        start == off \div BlockSize
        from == off % BlockSize
        tail == (count + off - (BlockSize - from)) % BlockSize
        last == IF off + count = NDirect * BlockSize THEN <<>> ELSE <<Piece(end, 0, tail)>>
        all == IF from + count <= BlockSize THEN <<Piece(start, from, count)>>
               ELSE <<Piece(start, from, BlockSize - from)>> \o Whole(start + 1, end) \o last
    IN  SelectSeq(all, LAMBDA piece : piece.n > 0)

\* an access the arithmetic serves: within a block, or from the beginning of one on
Served(off, count) == (off % BlockSize) + count <= BlockSize \/ off % BlockSize = 0

Assigned(s, i, pieces) ==
    \A k \in DOMAIN pieces : pieces[k].slot \in Slots /\ BlockAt(s, s.inode[i], pieces[k].slot) # UNASSIGNED

\* an indirect block that is not there gives block numbers from nowhere, and so does
\* what lies behind its last
Wild(s, i, pieces) ==
    \E k \in DOMAIN pieces :
       pieces[k].slot \notin Slots \/ (pieces[k].slot >= NDirect /\ s.inode[i].indirect = UNASSIGNED)

Copied(s, i, pieces, byte) ==
    [s EXCEPT !.bytes = [b \in Blocks |-> [x \in 1..BlockSize |->
        IF \E k \in DOMAIN pieces : /\ pieces[k].slot \in Slots /\ BlockAt(s, s.inode[i], pieces[k].slot) = b
                                    /\ x \in pieces[k].from + 1..pieces[k].from + pieces[k].n
        THEN byte ELSE @[b][x]]]]

Gathered(s, i, pieces) ==
    LET Bytes(k) == LET b == BlockAt(s, s.inode[i], pieces[k].slot)
                    IN  SubSeq(s.bytes[b], pieces[k].from + 1, pieces[k].from + pieces[k].n)
        joined[k \in 0..Len(pieces)] == IF k = 0 THEN <<>> ELSE joined[k - 1] \o Bytes(k)
    IN  joined[Len(pieces)]

Moved(pieces) == MapThenSumSet(LAMBDA k : pieces[k].n, DOMAIN pieces)

-----------------------------------------------------------------------------
(* The program's calls. *)

Called == ~died /\ ~Undefined(fs) /\ calls < MaxCalls /\ calls' = calls + 1
Quietly == asked' = <<>> /\ got' = <<>>
Dies == died' = TRUE /\ Quietly /\ UNCHANGED <<fs, named, content>>

With(f, k, x) == [i \in DOMAIN f \cup {k} |-> IF i = k THEN x ELSE f[i]]

\* direct[] is read at a place size, once below 0, is far out of
Strays(path) == CanCreate(fs, path) /\ fs.inode[ParentDirectory(fs, path)].size < 0

Named(path, i) == named' = With(named, path, i) /\ content' = [content EXCEPT ![i] = <<>>]

\* minixfs_open with O_CREAT, or minixfs_mkdir
Create(path, dir) ==
    LET i == FirstUnusedInode(fs)
    IN  /\ Called /\ CanCreate(fs, path)
        /\ \/ Strays(path) /\ Dies
           \/ /\ ~Strays(path)
              /\ fs' = [CreateInodeForPath(fs, path) EXCEPT !.inode[i].dir = dir]
              /\ Named(path, i) /\ Quietly /\ UNCHANGED died

\* a file that is not found is created, and must be found then
Write(path, off, count, byte) ==
    LET s == CreateInodeForPath(fs, path)
        new == CanCreate(fs, path)
        i == GetInode(s, path)
        pieces == Pieces(off, count)
        upto == off + (IF (off % BlockSize) + count <= BlockSize THEN count ELSE Moved(pieces))
        good == Served(off, count)
        full == s.inode[i].direct[1] = UNASSIGNED /\ Blocks \ s.used = {}
        Grown(t) == [t EXCEPT !.inode[i].size = Max({@, upto})]
        Put(old) == [x \in 1..Max({Len(old), off + count}) |->
                       IF x \in off + 1..off + count THEN byte ELSE IF x <= Len(old) THEN old[x] ELSE 0]
        Store(t) ==
            /\ fs' = Grown(Copied(t, i, pieces, byte))
            /\ named' = IF new THEN With(named, path, i) ELSE named
            /\ content' = [content EXCEPT ![i] = IF ~good \/ ~Assigned(t, i, pieces) \/ @ = Spoiled THEN Spoiled
                                                 ELSE Put(IF new THEN <<>> ELSE @)]
            /\ Quietly /\ UNCHANGED died
    IN  /\ Called
        /\ off + count <= 2 * NDirect * BlockSize
        /\ \/ (Strays(path) \/ (new /\ i = UNASSIGNED)) /\ Dies
           \/ /\ ~Strays(path) /\ i # UNASSIGNED /\ ~s.inode[i].dir
              /\ \/ ~full /\ Wild(s, i, pieces) /\ Dies
                 \/ ~Wild(s, i, pieces) /\ s.inode[i].direct[1] # UNASSIGNED /\ Store(s)
                 \/ /\ ~Wild(s, i, pieces) /\ s.inode[i].direct[1] = UNASSIGNED
                    /\ \E b \in Blocks \ s.used : Store(AddFirstBlock(s, i, b))
              \* no block is left: ENOSPC, but the file has been created
                 \/ /\ full
                    /\ fs' = s /\ Quietly /\ UNCHANGED died
                    /\ IF new THEN Named(path, i) ELSE UNCHANGED <<named, content>>

Read(path, off, count) ==
    LET i == GetInode(fs, path)
        n == Min({count, fs.inode[i].size - off})
        pieces == Pieces(off, n)
    IN  /\ Called
        /\ i # UNASSIGNED /\ ~fs.inode[i].dir /\ off < fs.inode[i].size
        /\ \/ Wild(fs, i, pieces) /\ Dies
           \/ /\ ~Wild(fs, i, pieces)
              /\ asked' = <<i, off, n>>
              /\ got' = IF Assigned(fs, i, pieces) THEN Gathered(fs, i, pieces) ELSE Spoiled
              /\ UNCHANGED <<fs, died, named, content>>

\* the entries from the one with the number on are moved down, in its block
Unlink(path) ==
    LET i == GetInode(fs, path)
        p == ParentDirectory(fs, path)
        d == fs.inode[p]
        hits == {u \in EntriesOf([d EXCEPT !.size = IF @ < 0 THEN @ ELSE ((@ + Entry - 1) \div Entry) * Entry]) :
                    EntryAt(fs, d, u).ino = i}
        b == BlockOf(d, Min(hits) \div DirUnits)
        shifted == [u \in 0..DirUnits - 1 |->
                      IF u >= Min(hits) % DirUnits /\ u + Entry < DirUnits THEN fs.units[b][u + Entry]
                      ELSE fs.units[b][u]]
        cut == [fs EXCEPT !.inode[p].size = @ - Entry,
                          !.units = IF hits = {} THEN @ ELSE [@ EXCEPT ![b] = shifted]]
    IN  /\ Called
        /\ path # <<>> /\ i # UNASSIGNED
        /\ fs' = FreeInode(cut, i)
        /\ named' = [q \in {q \in DOMAIN named : Len(q) < Len(path) \/ SubSeq(q, 1, Len(path)) # path} |-> named[q]]
        /\ content' = [content EXCEPT ![i] = <<>>]
        /\ Quietly /\ UNCHANGED died

\* size is brought to exactly 0, or the entries are counted for ever
Readdir(path) ==
    LET i == GetInode(fs, path)
    IN  /\ Called /\ i # UNASSIGNED /\ fs.inode[i].dir
        /\ fs.inode[i].size % Entry # 0 /\ Dies

Next == \E path \in Paths :
    \/ \E dir \in BOOLEAN : Create(path, dir)
    \/ \E span \in Spans : Write(path, span[1], span[2], calls + 1) \/ Read(path, span[1], span[2])
    \/ Unlink(path) \/ Readdir(path) \/ Readdir(SubSeq(path, 1, Len(path) - 1))
Spec == Init /\ [][Next]_vars

-----------------------------------------------------------------------------
(* Properties. *)

\* The data map is exact: a block is marked used just when it belongs to an inode
\* in use, and then to one, in one place (minixfs_provided.c:18-125,
\* minixfs_utils.c:60-97).
BlocksAreOwned ==
    LET inUse == {i \in Inodes : fs.inode[i].nlink > 0}
        at == [x \in inUse \X (Slots \cup {-1}) |->
                 IF x[2] = -1 THEN fs.inode[x[1]].indirect ELSE BlockAt(fs, fs.inode[x[1]], x[2])]
        places == {x \in DOMAIN at : at[x] # UNASSIGNED}
    IN  /\ fs.used = {at[x] : x \in places}
        /\ \A x, y \in places : at[x] = at[y] => x = y

\* A read that the arithmetic serves gets what was written there, of a file all of
\* whose writes were served and found their blocks: within a block, or from the
\* beginning of one over any number of them, direct and indirect (minixfs.c:146-361).
ReadsSeeWrites ==
    asked # <<>> =>
        LET i == asked[1]  off == asked[2]  n == asked[3]
        IN  content[i] # Spoiled /\ Served(off, n) => got = SubSeq(content[i], off + 1, off + n)

\* A path that is found is the inode that was made for it, and nothing is found that
\* was unlinked: entries that overwrite each other's numbers lose files but never
\* confuse them (minixfs.c:70-110, minixfs_utils.c:187-274,
\* minixfs_provided.c:196-237).
NamesAreTheirs ==
    \A path \in Paths : GetInode(fs, path) # UNASSIGNED =>
        path \in DOMAIN named /\ named[path] = GetInode(fs, path)
==============================================================================
