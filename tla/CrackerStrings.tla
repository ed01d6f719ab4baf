--------------------------- MODULE CrackerStrings ----------------------------
(***************************************************************************)
(* password_cracker/libs/utils.c: the passwords the crackers try.  A       *)
(* string is a sequence of letters, 0 for 'a' up to Letters - 1 for 'z'; a *)
(* hint may hold Dot where a letter is unknown.                            *)
(***************************************************************************)
EXTENDS Integers, Sequences, FiniteSets, FiniteSetsExt

CONSTANTS Letters, Dot

GetPrefixLength(str) ==
    LET dots == {k \in DOMAIN str : str[k] = Dot}
    IN  IF dots = {} THEN Len(str) ELSE Min(dots) - 1

\* setStringPosition(str + from, n)
SetStringPosition(str, from, n) ==
    [k \in DOMAIN str |-> IF k <= from THEN str[k] ELSE (n \div Letters ^ (Len(str) - k)) % Letters]

\* a string of 'z's stays as it is
IncrementString(str) ==
    LET below == {k \in DOMAIN str : str[k] # Letters - 1}
        last == Max(below)
    IN  IF below = {} THEN str
        ELSE [k \in DOMAIN str |-> IF k < last THEN str[k] ELSE IF k = last THEN str[k] + 1 ELSE 0]

GetSubrange_RoundsUp(unknown, threads, id) ==
    LET max == Letters ^ unknown
        start == (max * (id - 1) + threads - 1) \div threads
    IN  [start |-> start, count |-> (max * id) \div threads - start]

GetSubrange(unknown, threads, id) ==
    LET max == Letters ^ unknown
        start == (max * (id - 1)) \div threads
        end == Min({(max * id) \div threads, max})
    IN  [start |-> start, count |-> end - start]

\* the strings a hint stands for
Matching(hint) ==
    {str \in [DOMAIN hint -> 0..Letters - 1] :
        \A k \in 1..GetPrefixLength(hint) : str[k] = hint[k]}
==============================================================================
