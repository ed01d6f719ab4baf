------------------------------- MODULE Fakefs --------------------------------
(***************************************************************************)
(* finding_filesystems/fakefs_src/: the library that stands between a      *)
(* program and libc and serves paths below the image with minixfs.  A      *)
(* descriptor of such a file is a real one, of /dev/null, and an entry of  *)
(* fd_map; calls on paths are made of calls on descriptors.                *)
(*                                                                         *)
(* Paths are resolved.  A file is known by its path, even while it is      *)
(* open, and counts for its size; reads and writes are of one byte.  open  *)
(* looks at no flag but O_CREAT: POSIX's O_APPEND and O_TRUNC, which the   *)
(* shim ignores (core.c:57-66), are left out.  `fate` leaves "fine" where  *)
(* the shim does not keep up with POSIX otherwise, after which nothing is  *)
(* promised.                                                               *)
(***************************************************************************)
EXTENDS Integers, Sequences, FiniteSets, FiniteSetsExt

CONSTANTS Files, Root,     \* paths: files, and the one directory
          OpenMax,         \* how many descriptors a process may have
          MaxOffset, MaxCalls  \* bounds

Descriptors == 0..OpenMax - 1
Real == "real"             \* a file of the host
HostFile == 0              \* and its description

VARIABLES kernel,   \* kernel[fd]: "free", "null" for /dev/null, or Real
          fdMap,    \* fd_map: addresses of fakefiles; -1 may be a key
          file,     \* the live fakefiles, by address
          dirs,     \* dir_fd_map: the descriptor of each stream
          size,     \* of the files there are
          fate,
          ideal,    \* history: what POSIX says of the program's descriptors: which
          desc,     \* open file description they have, with a path and an offset
          leaked,   \* history: descriptors opendir has forgotten
          calls
shim == <<kernel, fdMap, file, dirs, size, fate>>
posix == <<ideal, desc, leaked>>
vars == <<shim, posix, calls>>

Init ==
    /\ \E stdin \in {"free", Real} :
          /\ kernel = [fd \in Descriptors |-> IF fd = 0 THEN stdin ELSE "free"]
          /\ ideal = IF stdin = Real THEN [fd \in {0} |-> HostFile] ELSE <<>>
    /\ fdMap = <<>> /\ file = <<>> /\ dirs = <<>> /\ desc = <<>>
    /\ size = <<>> /\ fate = "fine" /\ leaked = {} /\ calls = 0

With(f, k, x) == [i \in DOMAIN f \cup {k} |-> IF i = k THEN x ELSE f[i]]
Without(f, k) == [i \in DOMAIN f \ {k} |-> f[i]]

-----------------------------------------------------------------------------
(* The calls others are made of, on the state s of the shim. *)

Now == [kernel |-> kernel, fdMap |-> fdMap, file |-> file, size |-> size, got |-> -1, fate |-> fate]

Fresh(f) == Min((1..Cardinality(DOMAIN f) + 1) \ DOMAIN f)
Exists(s, path) == path = Root \/ path \in DOMAIN s.size

\* orig_open, and orig_opendir, take the lowest number that is free
OrigOpen(s, what) ==
    LET free == {fd \in Descriptors : s.kernel[fd] = "free"}
    IN  IF free = {} THEN [s EXCEPT !.got = -1]
        ELSE [s EXCEPT !.got = Min(free), !.kernel[Min(free)] = what]

\* without a descriptor left the file is entered under -1
Open(s, path, creates) ==
    LET made == IF creates /\ ~Exists(s, path) THEN [s EXCEPT !.size = With(@, path, 0)] ELSE s
        o == OrigOpen(made, "null")
        a == Fresh(s.file)
    IN  IF ~Exists(made, path) THEN [s EXCEPT !.got = -1]
        ELSE [o EXCEPT !.file = With(@, a, [path |-> path, offset |-> 0, refcount |-> 1]),
                       !.fdMap = With(@, o.got, a)]

Close_KeepsEntry(s, fd) ==
    IF fd \notin DOMAIN s.fdMap THEN (IF fd = -1 THEN s ELSE [s EXCEPT !.kernel[fd] = "free"])
    ELSE [s EXCEPT !.file = Without(@, s.fdMap[fd])]
\* the number itself stays open; no call counts a second reference
Close(s, fd) ==
    LET a == s.fdMap[fd]
        removed == [s EXCEPT !.fdMap = Without(@, fd)]
    IN  IF fd \notin DOMAIN s.fdMap THEN (IF fd = -1 THEN s ELSE [s EXCEPT !.kernel[fd] = "free"])
        ELSE IF s.file[a].refcount > 1 THEN [removed EXCEPT !.file[a].refcount = @ - 1]
        ELSE [removed EXCEPT !.file = Without(@, a),
                             !.fate = IF \E g \in DOMAIN removed.fdMap : removed.fdMap[g] = a THEN "freed" ELSE @]

Becomes(s) ==
    /\ kernel' = s.kernel /\ fdMap' = s.fdMap /\ file' = s.file /\ size' = s.size /\ fate' = s.fate

-----------------------------------------------------------------------------
(* The program's calls. *)

Called == fate = "fine" /\ calls < MaxCalls /\ calls' = calls + 1
Fake == {fd \in DOMAIN ideal : ideal[fd] # HostFile}
InStreams == {dirs[d] : d \in DOMAIN dirs}

\* open and creat
OpenFile(path, creates) ==
    LET s == Open(Now, path, creates)
        id == Cardinality(DOMAIN desc) + 1
    IN  /\ Called /\ Becomes(s) /\ UNCHANGED <<dirs, leaked>>
        /\ IF s.got = -1 THEN UNCHANGED <<ideal, desc>>
           ELSE /\ ideal' = With(ideal, s.got, id)
                /\ desc' = With(desc, id, [path |-> path, offset |-> 0])

OpenReal ==
    LET s == OrigOpen(Now, Real)
    IN  /\ Called /\ s.got # -1 /\ Becomes(s)
        /\ ideal' = With(ideal, s.got, HostFile) /\ UNCHANGED <<dirs, desc, leaked>>

CloseFile(fd) ==
    /\ Called /\ fd \in DOMAIN ideal \ InStreams
    /\ Becomes(Close(Now, fd))
    /\ ideal' = Without(ideal, fd) /\ UNCHANGED <<dirs, desc, leaked>>

\* read, write and lseek put the offset of the fakefile where they end
Moves(fd, offset, ideally) ==
    /\ file' = [file EXCEPT ![fdMap[fd]].offset = offset]
    /\ desc' = [desc EXCEPT ![ideal[fd]].offset = ideally]
    /\ UNCHANGED <<kernel, fdMap, dirs, fate, ideal, leaked>>

Usable(fd) == fd \in Fake /\ fdMap[fd] \in DOMAIN file /\ file[fdMap[fd]].path \in Files

Read(fd) ==
    LET f == file[fdMap[fd]]
        After(offset) == IF f.path \in DOMAIN size /\ offset < size[f.path] THEN offset + 1 ELSE offset
    IN  /\ Called /\ Usable(fd)
        /\ Moves(fd, After(f.offset), After(desc[ideal[fd]].offset)) /\ UNCHANGED size

\* minixfs_write makes a file that is gone anew
Write(fd) ==
    LET f == file[fdMap[fd]]
        old == IF f.path \in DOMAIN size THEN size[f.path] ELSE 0
    IN  /\ Called /\ Usable(fd) /\ f.offset < MaxOffset
        /\ Moves(fd, f.offset + 1, desc[ideal[fd]].offset + 1)
        /\ size' = With(size, f.path, Max({old, f.offset + 1}))

\* a place before the file is stored and returned too, where POSIX refuses it
Lseek(fd, whence, by) ==
    LET f == file[fdMap[fd]]
        To(offset) == by + CASE whence = "SEEK_SET" -> 0 [] whence = "SEEK_CUR" -> offset
                             [] whence = "SEEK_END" -> size[f.path]
    IN  /\ Called /\ Usable(fd) /\ (whence = "SEEK_END" => f.path \in DOMAIN size)
        /\ To(f.offset) \in -MaxOffset..MaxOffset
        /\ IF To(f.offset) >= 0 THEN Moves(fd, To(f.offset), To(desc[ideal[fd]].offset))
           ELSE /\ file' = [file EXCEPT ![fdMap[fd]].offset = To(f.offset)]
                /\ fate' = "negative" /\ UNCHANGED <<kernel, fdMap, dirs, posix>>
        /\ UNCHANGED size

\* the copy is not entered when its number is 0
Dup(fd) ==
    LET o == OrigOpen(Now, IF fd \in DOMAIN fdMap THEN "null" ELSE Real)
    IN  /\ Called /\ fd \in DOMAIN ideal /\ o.got # -1
        /\ Becomes(IF fd \notin DOMAIN fdMap THEN o
                   ELSE IF o.got > 0 THEN [o EXCEPT !.fdMap = With(@, o.got, fdMap[fd])]
                   ELSE [o EXCEPT !.fate = "missed"])
        /\ ideal' = With(ideal, o.got, ideal[fd]) /\ UNCHANGED <<dirs, desc, leaked>>

\* a file of the host that is put over a fake one stays hidden behind it.  What
\* dup2 returns, 1 for a fake file, is left out.
Dup2(fd, newfd) ==
    /\ Called /\ fd \in DOMAIN ideal /\ newfd \notin InStreams \cup DOMAIN dirs
    /\ kernel' = [kernel EXCEPT ![newfd] = kernel[fd]]
    /\ IF fd \in DOMAIN fdMap THEN fdMap' = With(fdMap, newfd, fdMap[fd]) /\ UNCHANGED fate
       ELSE fate' = (IF newfd \in DOMAIN fdMap THEN "hidden" ELSE fate) /\ UNCHANGED fdMap
    /\ ideal' = With(ideal, newfd, ideal[fd]) /\ UNCHANGED <<file, dirs, size, desc, leaked>>

Unlink(path) ==
    /\ Called /\ path \in DOMAIN size
    /\ size' = Without(size, path)
    /\ UNCHANGED <<kernel, fdMap, file, dirs, fate, posix>>

\* stat and its kin; chmod and chown.  These go on with the -1 of an open that
\* has failed, which may be the key of another file.
Stat(path) ==
    LET s == Open(Now, path, FALSE)
    IN  /\ Called /\ Becomes(IF s.got = -1 THEN s ELSE Close(s, s.got))
        /\ UNCHANGED <<dirs, posix>>

Chmod(path) ==
    LET s == Open(Now, path, FALSE)
        other == -1 \in DOMAIN s.fdMap /\ s.file[s.fdMap[-1]].path # path
    IN  /\ Called /\ Becomes([Close(s, s.got) EXCEPT !.fate = IF s.got = -1 /\ other THEN "strayed" ELSE @])
        /\ UNCHANGED <<dirs, posix>>

\* the descriptor of what turns out not to be a directory stays open
OpenDir(path) ==
    LET s == Open(Now, path, FALSE)
        d == OrigOpen(s, Real)
        known == s.got \in DOMAIN s.fdMap
        isDir == known /\ s.file[s.fdMap[s.got]].path = Root
        strays == s.got = -1 /\ isDir /\ path # Root
        id == Cardinality(DOMAIN desc) + 1
    IN  /\ Called
        /\ IF ~isDir THEN Becomes(s) /\ leaked' = leaked \cup {s.got} /\ UNCHANGED <<dirs, ideal, desc>>
           ELSE IF d.got = -1
           THEN Becomes(d) /\ dirs' = With(dirs, -1, s.got) /\ leaked' = leaked \cup {s.got} /\ UNCHANGED <<ideal, desc>>
           ELSE /\ Becomes([d EXCEPT !.fate = IF strays THEN "strayed" ELSE @])
                /\ dirs' = With(dirs, d.got, s.got)
                /\ ideal' = With(ideal, s.got, id) /\ desc' = With(desc, id, [path |-> Root, offset |-> 0])
                /\ UNCHANGED leaked

CloseDir(d) ==
    /\ Called /\ d \in DOMAIN dirs \ {-1}
    /\ Becomes(Close(Now, dirs[d])) /\ dirs' = Without(dirs, d)
    /\ ideal' = Without(ideal, dirs[d]) /\ UNCHANGED <<desc, leaked>>

OnPath(path) == Stat(path) \/ Chmod(path) \/ OpenDir(path) \/ \E creates \in BOOLEAN : OpenFile(path, creates)
OnDescriptor(fd) ==
    \/ CloseFile(fd) \/ Read(fd) \/ Write(fd) \/ Dup(fd) \/ \E newfd \in Descriptors : Dup2(fd, newfd)
    \/ \E whence \in {"SEEK_SET", "SEEK_CUR", "SEEK_END"}, by \in -1..1 : Lseek(fd, whence, by)
Next ==
    \/ OpenReal \/ \E path \in Files \cup {Root} : OnPath(path)
    \/ \E path \in Files : Unlink(path)
    \/ \E fd \in Descriptors : OnDescriptor(fd) \/ CloseDir(fd)
Spec == Init /\ [][Next]_vars

-----------------------------------------------------------------------------
(* Properties. *)

\* Every descriptor of the program stands for what POSIX says it does, a file of
\* the host or a path and an offset, which copies share; and fd_map knows no other
\* but those opendir forgot and, once descriptors have run out, -1.  This is until the
\* first departure from POSIX that `fate` names: the descriptor a dup shared is freed
\* with its file, a copy numbered 0 is missed, one put over a fake file is hidden, a
\* call strays to -1, lseek goes before the file
\* (core.c:38-141, 169-205, dup.c:7-28, stat.c:15-106, dir.c:6-34, 71-80).
DescriptorsStandForTheirFiles ==
    fate = "fine" =>
        /\ \A fd \in DOMAIN ideal \ Fake : kernel[fd] = Real /\ fd \notin DOMAIN fdMap
        /\ \A fd \in Fake : /\ fd \in DOMAIN fdMap
                            /\ [path |-> file[fdMap[fd]].path, offset |-> file[fdMap[fd]].offset] = desc[ideal[fd]]
        /\ \A fd, g \in Fake : ideal[fd] = ideal[g] <=> fdMap[fd] = fdMap[g]
        /\ DOMAIN fdMap \subseteq Fake \cup leaked \cup {-1}
==============================================================================
