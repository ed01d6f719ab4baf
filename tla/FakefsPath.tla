----------------------------- MODULE FakefsPath ------------------------------
(***************************************************************************)
(* finding_filesystems/fakefs_src/fakefs_utils.c: how fakefs_realpath      *)
(* makes the path inside the image of what follows the image's own path.   *)
(* It builds the result in place, character by character, and takes names  *)
(* back for "..": whether it leaves something behind is the question, so   *)
(* the characters are kept.                                                *)
(***************************************************************************)
EXTENDS Integers, Sequences, SequencesExt, FiniteSetsExt

CONSTANTS Names,     \* the characters of names, "." and "/" not among them
          MaxLength  \* bound on what follows the image's path

Nul == ""
Slash == "/"
DotChar == "."

VARIABLES origVPath, currIdx,
          vPath, vIdx,    \* the result, from 0 on, and its next place
          atDirBoundary, done
vars == <<origVPath, currIdx, vPath, vIdx, atDirBoundary, done>>

Init ==
    /\ origVPath \in UNION {[1..n -> Names \cup {Slash, DotChar}] : n \in 0..MaxLength}
    /\ vPath = [k \in 0..Len(origVPath) + 1 |-> IF k = 0 THEN Slash ELSE Nul]
    /\ vIdx = 1 /\ currIdx = 0 /\ atDirBoundary = TRUE /\ done = FALSE

CharAt(k) == IF k < Len(origVPath) THEN origVPath[k + 1] ELSE Nul
IsEnd(c) == c \in {Slash, Nul}
AtDot == atDirBoundary /\ CharAt(currIdx) = DotChar /\ IsEnd(CharAt(currIdx + 1))
AtDotDot == atDirBoundary /\ CharAt(currIdx) = DotChar /\ CharAt(currIdx + 1) = DotChar /\ IsEnd(CharAt(currIdx + 2))

CurrentDir == AtDot /\ currIdx' = currIdx + 2 /\ atDirBoundary' = TRUE /\ UNCHANGED <<vPath, vIdx>>

\* above the root of the image it is the image's own path that is shortened, of
\* which nothing is asked here
ParentDir ==
    /\ AtDotDot /\ currIdx' = currIdx + 3 /\ atDirBoundary' = TRUE
    /\ LET back == IF vIdx < 2 THEN vIdx ELSE Max({0} \cup {k \in 0..vIdx - 2 : vPath[k] = Slash})
       IN  /\ vPath' = [k \in DOMAIN vPath |-> IF back < k /\ k <= vIdx - 2 THEN Nul ELSE vPath[k]]
           /\ vIdx' = IF vPath'[back] = Slash THEN back + 1 ELSE back

Copied ==
    LET c == CharAt(currIdx)
        to == IF c = Slash /\ vIdx > 0 /\ vPath[vIdx - 1] = Slash THEN vIdx - 1 ELSE vIdx
    IN  /\ ~AtDot /\ ~AtDotDot
        /\ vPath' = [vPath EXCEPT ![to] = c] /\ vIdx' = to + 1
        /\ currIdx' = currIdx + 1 /\ atDirBoundary' = (c = Slash)

Next ==
    \/ currIdx < Len(origVPath) /\ (CurrentDir \/ ParentDir \/ Copied) /\ UNCHANGED <<origVPath, done>>
    \/ /\ currIdx >= Len(origVPath) /\ ~done /\ done' = TRUE
       /\ UNCHANGED <<origVPath, currIdx, vPath, vIdx, atDirBoundary>>
Spec == Init /\ [][Next]_vars

-----------------------------------------------------------------------------
\* what is returned: the string up to its end, without a slash there
Result ==
    LET length == Min({k \in DOMAIN vPath : vPath[k] = Nul})
        whole == [k \in 1..length |-> vPath[k - 1]]
    IN  IF length > 1 /\ Last(whole) = Slash THEN Front(whole) ELSE whole

\* the names between the slashes of a path, in order
NamesOf(path) ==
    LET starts == {i \in DOMAIN path : path[i] # Slash /\ (i = 1 \/ path[i - 1] = Slash)}
        EndOf(i) == Min({j \in i..Len(path) : j = Len(path) \/ path[j + 1] = Slash})
        order == SetToSortSeq(starts, <)
    IN  [k \in DOMAIN order |-> SubSeq(path, order[k], EndOf(order[k]))]

\* and what they come to
Follow(names) ==
    FoldLeft(LAMBDA path, name :
                 IF name = <<DotChar>> THEN path
                 ELSE IF name # <<DotChar, DotChar>> THEN Append(path, name)
                 ELSE IF path = <<>> THEN <<>> ELSE Front(path), <<>>, names)

\* The path inside the image names what "." and ".." lead to, whatever was taken back
\* on the way, and it fits its buffer.  It may end in a slash: the one after a name
\* that is taken back stays behind and may come after that of the path
\* (fakefs_utils.c:117-191).
PathIsResolved ==
    /\ vIdx \in DOMAIN vPath
    /\ done => Result[1] = Slash /\ NamesOf(Result) = Follow(NamesOf(origVPath))
==============================================================================
