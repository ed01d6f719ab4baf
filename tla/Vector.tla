------------------------------- MODULE Vector --------------------------------
(***************************************************************************)
(* vector/: vector.c keeps pointers to copies of its elements in an array  *)
(* that it replaces by a larger one; sstring.c keeps a string in a vector  *)
(* of characters.  The calls are functions from vector to vector.  Freed   *)
(* memory is handed out again, lowest address first.  Calls are legal by   *)
(* their assertions and the headers; a string is not appended to itself,   *)
(* which would not end.                                                    *)
(***************************************************************************)
EXTENDS Integers, Sequences, SequencesExt, FiniteSetsExt, Functions

CONSTANTS Values, Default,  \* what a default constructor makes is a value, too
          InitialCapacity,
          MaxSize,          \* a bound: the elements a vector holds
          Null,
          Strings           \* what sstrings are made of and changed with

NULL == 0

VARIABLES v,        \* the vector: array, size, the live copies by address, and
                    \* whether freed memory was used
          ideal,    \* history: the list the vector stands for
          asked,    \* history: the last call that returns something, and
          got       \* what it returned
vars == <<v, ideal, asked, got>>

-----------------------------------------------------------------------------
(* vector.c.  Positions count from 0; the array's index 0 is at 1. *)

VectorCreate == [array |-> [k \in 1..InitialCapacity |-> NULL], size |-> 0, mem |-> <<>>, misused |-> FALSE]
Capacity(w) == Len(w.array)
At(w, position) == w.array[position + 1]
Held(w) == [k \in 1..w.size |-> w.mem[w.array[k]]]

GetNewCapacity(target) == Min({2 ^ n : n \in 0..target} \cap (target..2 * target + 1))

Reserve(w, n) ==
    IF Capacity(w) >= n THEN w
    ELSE [w EXCEPT !.array = [k \in 1..GetNewCapacity(n) |-> IF k <= Capacity(w) THEN @[k] ELSE NULL]]

\* an element is given by value or is the copy at an address
Value(x) == [value |-> x, address |-> NULL]
CopyAt(a) == [value |-> Default, address |-> a]

CopyConstructor(w, position, e) ==
    LET new == Min((1..Cardinality(DOMAIN w.mem) + 1) \ DOMAIN w.mem)
        gone == e.address # NULL /\ e.address \notin DOMAIN w.mem
        value == IF e.address = NULL \/ gone THEN e.value ELSE w.mem[e.address]
    IN  [w EXCEPT !.mem = [a \in DOMAIN @ \cup {new} |-> IF a = new THEN value ELSE @[a]],
                  !.array[position + 1] = new, !.misused = @ \/ gone]

Destructor(w, position) ==
    LET a == At(w, position)
    IN  [w EXCEPT !.mem = Restrict(@, DOMAIN @ \ {a}), !.misused = @ \/ a \notin DOMAIN w.mem]

DestroyFrom(w, n) == FoldLeft(Destructor, w, [k \in 1..w.size - n |-> n + k - 1])

Resize(w, n) ==
    IF n <= w.size THEN [DestroyFrom(w, n) EXCEPT !.size = n]
    ELSE [FoldLeft(LAMBDA u, k : CopyConstructor(u, k, Value(Default)), Reserve(w, n),
                   [k \in 1..n - w.size |-> w.size + k - 1]) EXCEPT !.size = n]

Set(w, position, e) == CopyConstructor(Destructor(w, position), position, e)

PushBack(w, e) == [CopyConstructor(Reserve(w, w.size + 1), w.size, e) EXCEPT !.size = @ + 1]

PopBack(w) == [Destructor(w, w.size - 1) EXCEPT !.size = @ - 1]

Insert(w, position, e) ==
    LET r == Reserve(w, w.size + 1)
        shifted == [r EXCEPT !.array = [k \in DOMAIN @ |-> IF k \in position + 2..w.size + 1 THEN @[k - 1] ELSE @[k]]]
    IN  [CopyConstructor(shifted, position, e) EXCEPT !.size = @ + 1]

Erase_ReadsPastEnd(w, position) ==
    [Destructor(w, position) EXCEPT
        !.size = @ - 1, !.array = [k \in DOMAIN @ |-> IF k \in position + 1..w.size - 2 THEN @[k + 1] ELSE @[k]]]

Erase(w, position) ==
    [Destructor(w, position) EXCEPT
        !.size = @ - 1, !.array = [k \in DOMAIN @ |-> IF k \in position + 1..w.size - 1 THEN @[k + 1] ELSE @[k]]]

Clear(w) == [DestroyFrom(w, 0) EXCEPT !.size = 0]

-----------------------------------------------------------------------------
(* sstring.c *)

SstringAppend(w, addition) == FoldLeft(LAMBDA u, c : PushBack(u, Value(c)), w, addition)

CstrToSstring(input) == SstringAppend(VectorCreate, input)

\* strstr(str + offset, target): the positions from offset on where target begins
Occurrences(str, offset, target) ==
    {p \in offset..Len(str) - Len(target) : SubSeq(str, p + 1, p + Len(target)) = target}

Substitute(w, offset, target, substitution) ==
    LET p == Min(Occurrences(Held(w), offset, target))
        erased == FoldLeft(LAMBDA u, c : Erase(u, p), w, target)
    IN  IF offset > w.size \/ Occurrences(Held(w), offset, target) = {} THEN w
        ELSE FoldRight(LAMBDA c, u : Insert(u, p, Value(c)), substitution, erased)

Split(str, delimiter) ==
    LET step(acc, c) == IF c = delimiter THEN [done |-> acc.done \o <<acc.temp>>, temp |-> <<>>]
                        ELSE [acc EXCEPT !.temp = @ \o <<c>>]
        end == FoldLeft(step, [done |-> <<>>, temp |-> <<>>], str)
    IN  end.done \o <<end.temp>>

Slice(str, start, end) ==
    IF start >= end \/ start < 0 \/ end > Len(str) THEN Null ELSE SubSeq(str, start + 1, end)

-----------------------------------------------------------------------------
(* The program's calls. *)

Init ==
    /\ \E str \in Strings : v = CstrToSstring(str) /\ ideal = str
    /\ asked = <<>> /\ got = Null

Elements == {Value(x) : x \in Values} \cup {CopyAt(v.array[k]) : k \in 1..v.size}
Meant(e) == IF e.address = NULL THEN e.value ELSE v.mem[e.address]

Becomes(w, list) == v' = w /\ ideal' = list /\ asked' = <<>> /\ got' = Null
Answers(call, result) == asked' = call /\ got' = result /\ UNCHANGED <<v, ideal>>

CallResize == \E n \in 0..MaxSize :
    Becomes(Resize(v, n), [k \in 1..n |-> IF k <= Len(ideal) THEN ideal[k] ELSE Default])

\* the old element is destroyed before the new one is read
CallSet == \E k \in 0..v.size - 1, e \in Elements :
    /\ v' = Set(v, k, e) /\ ideal' = [ideal EXCEPT ![k + 1] = Meant(e)]
    /\ asked' = <<"set", e.address = At(v, k)>> /\ got' = Null

CallPushBack == v.size < MaxSize /\ \E e \in Elements :
    Becomes(PushBack(v, e), ideal \o <<Meant(e)>>)
CallPopBack == v.size > 0 /\ Becomes(PopBack(v), Front(ideal))
CallInsert == v.size < MaxSize /\ \E k \in 0..v.size, e \in Elements :
    Becomes(Insert(v, k, e), InsertAt(ideal, k + 1, Meant(e)))
CallErase == \E k \in 0..v.size - 1 : Becomes(Erase(v, k), RemoveAt(ideal, k + 1))
CallClear == Becomes(Clear(v), <<>>)

CallAppend == \E str \in Strings :
    v.size + Len(str) <= MaxSize /\ Becomes(SstringAppend(v, str), ideal \o str)

\* the list takes the first occurrence out and puts the substitution there
CallSubstitute == \E offset \in 0..MaxSize, target, substitution \in Strings :
    LET found == Occurrences(ideal, offset, target)
        p == Min(found)
        list == IF found = {} THEN ideal
                ELSE SubSeq(ideal, 1, p) \o substitution \o SubSeq(ideal, p + Len(target) + 1, Len(ideal))
    IN  /\ Len(list) <= MaxSize /\ Becomes(Substitute(v, offset, target, substitution), list)

CallSplit == \E delimiter \in Values :
    Answers(<<"split", delimiter>>, Split(Held(v), delimiter))
CallSlice == \E end \in 0..v.size : \E start \in 0..end :
    Answers(<<"slice", start, end>>, Slice(Held(v), start, end))

VectorCall == CallResize \/ CallSet \/ CallPushBack \/ CallPopBack \/ CallInsert \/ CallErase \/ CallClear
SstringCall == CallAppend \/ CallSubstitute \/ CallSplit \/ CallSlice
Next == ~v.misused /\ (VectorCall \/ SstringCall)
Spec == Init /\ [][Next]_vars

-----------------------------------------------------------------------------
(* Properties. *)

\* Python's split: the parts, none with the delimiter in it, joined by it
IsSplit(str, delimiter, parts) ==
    /\ \A k \in DOMAIN parts : ~Contains(parts[k], delimiter)
    /\ FlattenSeq([k \in DOMAIN parts |-> parts[k] \o <<delimiter>>]) = str \o <<delimiter>>

\* Whatever calls came before, the vector holds the list it stands for, in one
\* live copy an element and no other; memory is used after it was freed only
\* when vector_set is given the very element it replaces; split returns the parts, and
\* slice the bytes from start on before end, but NULL where there are none: sstring.h:96-98
\* promises a c-string for start = end, too, which would be the empty one, and
\* sstring.c:100 returns NULL (vector.c:143-285, sstring.c:42-112).
VectorIsItsList ==
    /\ v.misused => asked = <<"set", TRUE>>
    /\ ~v.misused =>
          /\ v.size <= Capacity(v)
          /\ {v.array[k] : k \in 1..v.size} = DOMAIN v.mem /\ Cardinality(DOMAIN v.mem) = v.size
          /\ Held(v) = ideal
    /\ asked # <<>> => CASE asked[1] = "split" -> IsSplit(ideal, asked[2], got)
                         [] asked[1] = "slice" ->
                               got = IF asked[2] = asked[3] THEN Null
                                     ELSE [k \in 1..asked[3] - asked[2] |-> ideal[asked[2] + k]]
                         [] OTHER -> TRUE
==============================================================================
