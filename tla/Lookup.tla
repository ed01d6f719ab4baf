------------------------------- MODULE Lookup --------------------------------
(***************************************************************************)
(* mad_mad_access_patterns/: lookup1.c and lookup2.c look words up in a    *)
(* file that holds a binary tree, one by fseek and fread, the other in a   *)
(* mapping of the file; what they do with a node is the same.  A file is   *)
(* its nodes by offset, a word its place in the order of strcmp, and       *)
(* shorter than the 20 bytes lookup1 reads.                                *)
(***************************************************************************)
EXTENDS Integers, Sequences

CONSTANTS Files,     \* search trees
          Requests,  \* the words on the command line
          Null

Root == 4            \* behind the four bytes that tell the format
NoChild == 0

VARIABLES file, words,
          offset,    \* of the activation of search for the next word
          printed    \* for each word so far, the count found, or Null
vars == <<file, words, offset, printed>>

Init ==
    /\ file \in Files /\ words \in Requests
    /\ offset = Root /\ printed = <<>>

Word == words[Len(printed) + 1]
Prints(what) == printed' = Append(printed, what) /\ offset' = Root

SearchNode ==
    LET n == file[offset]
    IN  IF n.word = Word THEN Prints(n.count)
        ELSE offset' = (IF n.word < Word THEN n.right ELSE n.left) /\ UNCHANGED printed

Search ==
    /\ Len(printed) < Len(words)
    /\ IF offset = NoChild THEN Prints(Null) ELSE SearchNode
    /\ UNCHANGED <<file, words>>

Next == Search
Spec == Init /\ [][Next]_vars /\ WF_vars(Next)

-----------------------------------------------------------------------------
(* Properties. *)

\* Each word gets the count of the node that has it, wherever in the file that is,
\* or is not found if none has it, whatever was looked up before (lookup1.c:17-40,
\* 59-61; lookup2.c:23-39, 74-76).
LookupIsExact ==
    \A k \in DOMAIN printed :
        LET nodes == {o \in DOMAIN file : file[o].word = words[k]}
        IN  IF nodes = {} THEN printed[k] = Null ELSE \E o \in nodes : printed[k] = file[o].count

Ended == Len(printed) = Len(words)
==============================================================================
