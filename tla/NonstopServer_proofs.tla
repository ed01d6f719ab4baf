------------------------- MODULE NonstopServer_proofs --------------------------
(***************************************************************************)
(* Proofs about nonstop_networking/server.c for any set of clients, names  *)
(* and workloads.                                                          *)
(*                                                                         *)
(* The argument: while a PUT's body is read, the server does nothing else; *)
(* so what StartPut saw of the directory (overwrite) still says, when the  *)
(* body ends, whether the name is on the list.  Every other event leaves   *)
(* the directory, the list and the sizes alone or removes a name from all  *)
(* three.  What a client is told of its PUT depends on the end of its      *)
(* stream, after which it can send nothing that would make it untrue.      *)
(***************************************************************************)
EXTENDS NonstopServer, FiniteSetsExt, FiniteSetTheorems, SequenceTheorems, WellFoundedInduction, TLAPS

\* Min gives the least of a set of naturals that is not empty.
LEMMA MinIsLeast ==
    ASSUME NEW T \in SUBSET Nat, T # {}
    PROVE  Min(T) \in T /\ \A m \in T : Min(T) <= m
<1>. DEFINE less == {pair \in Nat \X Nat : pair[1] < pair[2]}
<1>1. IsWellFoundedOn(less, Nat)
  BY NatLessThanWellFounded DEF OpToRel
<1>2. PICK n \in T : \A m \in T : <<m, n>> \notin less
  <2>. HIDE DEF less
  <2>. QED BY <1>1, WFMin, Zenon
<1>3. \A m \in T : ~(m < n)
  BY <1>2
<1>4. \A m \in T : n <= m
  BY <1>3
<1>. QED BY <1>4 DEF Min

Requested(c) == request[c] \in Requests(c)
Lines == Seq({"OK", "ERROR", "Bad request", "Bad file size", "No such file"})
Bodies == Contents \cup {None} \cup Seq(Names)

Types ==
    /\ TypeOK
    /\ \A c \in Clients : Requested(c)
    /\ answer \in [Clients -> [lines : Lines, body : Bodies]]

\* The body that is being read is of a PUT of a client that is connected.
Reading == busy # None =>
    /\ Verb(busy) = "PUT" /\ Name(busy) \in Names /\ File(busy) \in {busy, Empty}
    /\ conn[busy] = "open" /\ state[busy] = 0 /\ Name(busy) \notin Unopenable

\* What is listed is there once, exists and has a size.
ListedExist ==
    /\ IsInjective(fileList)
    /\ \A f \in Names : Contains(fileList, f) => disk[f] # None /\ fileSize[f] # None

\* A name with no refused body since it was last deleted.
Faithful == \A f \in Names \ refused :
    /\ ~BeingPut(f) => disk[f] = accepted[f]
    /\ Contains(fileList, f) <=> accepted[f] # None
    /\ accepted[f] # None => fileSize[f] = accepted[f]

\* What StartPut saw is still true.
Overwrites == busy # None =>
    /\ disk[Name(busy)] # None
    /\ ~overwrite => ~Contains(fileList, Name(busy))
    /\ Name(busy) \notin refused => (overwrite <=> accepted[Name(busy)] # None)

Catalogue == up => Reading /\ ListedExist /\ Faithful /\ Overwrites

-------------------------------------------------------------------------------
(* The list of names. *)

LEMMA AppendedList ==
    ASSUME NEW S, NEW s \in Seq(S), NEW x \in S
    PROVE  /\ \A y : Contains(Append(s, x), y) <=> Contains(s, y) \/ y = x
           /\ IsInjective(s) /\ ~Contains(s, x) => IsInjective(Append(s, x))
<1>0. PICK t : t = Append(s, x)
  OBVIOUS
<1>1. /\ DOMAIN s = 1..Len(s) /\ DOMAIN t = 1..Len(s) + 1 /\ Len(s) \in Nat /\ Len(t) = Len(s) + 1
      /\ t[Len(s) + 1] = x /\ \A k \in 1..Len(s) : t[k] = s[k]
  BY <1>0
<1>2. \A y : Contains(t, y) <=> Contains(s, y) \/ y = x
  BY <1>1 DEF Contains
<1>3. IsInjective(s) /\ ~Contains(s, x) => IsInjective(t)
  BY <1>1 DEF Contains, IsInjective
<1>. QED BY <1>0, <1>2, <1>3

\* The first of a list of different names is the only one.
LEMMA RemovedFromList ==
    ASSUME NEW S, NEW s \in Seq(S), NEW x, Contains(s, x), IsInjective(s)
    PROVE  /\ RemoveFirst(s, x) \in Seq(S)
           /\ \A y : Contains(RemoveFirst(s, x), y) <=> Contains(s, y) /\ y # x
           /\ IsInjective(RemoveFirst(s, x))
<1>. DEFINE I == {i \in 1..Len(s) : s[i] = x}
<1>1. I # {} /\ I \in SUBSET Nat
  BY DEF Contains
<1>2. PICK k : k = Min(I) /\ k \in I
  BY <1>1, MinIsLeast
<1>3. RemoveFirst(s, x) = RemoveAt(s, k)
  BY <1>1, <1>2 DEF RemoveFirst, SelectInSeq
<1>4. PICK t : t = SubSeq(s, 1, k - 1) \o SubSeq(s, k + 1, Len(s))
  OBVIOUS
<1>5. PICK n \in Nat : n = Len(s) /\ k \in 1..n /\ s[k] = x /\ DOMAIN s = 1..n
  <2>1. PICK n \in Nat : n = Len(s) /\ DOMAIN s = 1..n
    OBVIOUS
  <2>. QED BY <1>2, <2>1
<1>6. \A i \in 1..n : s[i] \in S
  BY <1>5
<1>7. PICK u : u = SubSeq(s, 1, k - 1)
  OBVIOUS
<1>8. PICK v : v = SubSeq(s, k + 1, n)
  OBVIOUS
<1>9. u \in Seq(S) /\ Len(u) = k - 1 /\ \A i \in 1..k - 1 : u[i] = s[i]
  <2>1. \A i \in 1..k - 1 : s[i] \in S
    BY <1>5, <1>6
  <2>2. 1 \in Int /\ k - 1 \in Int
    BY <1>5
  <2>. QED BY <1>5, <1>7, <2>1, <2>2, SubSeqProperties
<1>10. v \in Seq(S) /\ Len(v) = n - k /\ \A i \in 1..n - k : v[i] = s[k + i]
  <2>1. \A i \in k + 1..n : s[i] \in S
    BY <1>5, <1>6
  <2>2. k + 1 \in Int /\ n \in Int
    BY <1>5
  <2>3. /\ v \in Seq(S) /\ Len(v) = IF k + 1 <= n THEN n - (k + 1) + 1 ELSE 0
        /\ \A i \in 1..n - (k + 1) + 1 : v[i] = s[k + 1 + i - 1]
    BY <1>8, <2>1, <2>2, SubSeqProperties
  <2>4. n - (k + 1) + 1 = n - k /\ (k + 1 <= n \/ n - k = 0)
    BY <1>5
  <2>5. \A i \in 1..n - k : k + 1 + i - 1 = k + i
    BY <1>5
  <2>. QED BY <2>3, <2>4, <2>5
<1>11. t = u \o v
  BY <1>4, <1>5, <1>7, <1>8
<1>12. /\ t \in Seq(S) /\ Len(t) = Len(u) + Len(v)
       /\ \A i \in 1..Len(u) + Len(v) : t[i] = IF i <= Len(u) THEN u[i] ELSE v[i - Len(u)]
  BY <1>9, <1>10, <1>11, ConcatProperties
<1>13. Len(u) + Len(v) = n - 1
  BY <1>5, <1>9, <1>10
<1>14. /\ t \in Seq(S) /\ Len(t) = n - 1 /\ DOMAIN t = 1..n - 1
       /\ \A i \in 1..n - 1 : t[i] = IF i < k THEN s[i] ELSE s[i + 1]
  <2>1. ASSUME NEW i \in 1..n - 1 PROVE t[i] = IF i < k THEN s[i] ELSE s[i + 1]
    <3>1. t[i] = IF i <= k - 1 THEN u[i] ELSE v[i - (k - 1)]
      BY <1>9, <1>12, <1>13
    <3>2. CASE i < k
      <4>1. i \in 1..k - 1 /\ i <= k - 1
        BY <1>5, <3>2
      <4>. QED BY <1>9, <3>1, <3>2, <4>1
    <3>3. CASE ~(i < k)
      <4>1. i - (k - 1) \in 1..n - k /\ k + (i - (k - 1)) = i + 1 /\ ~(i <= k - 1)
        BY <1>5, <3>3
      <4>. QED BY <1>10, <3>1, <3>3, <4>1
    <3>. QED BY <3>2, <3>3
  <2>. QED BY <1>12, <1>13, <2>1
<1>15. IsInjective(t)
  <2>1. ASSUME NEW i \in 1..n - 1, NEW j \in 1..n - 1, t[i] = t[j] PROVE i = j
    <3>1. PICK a \in 1..n : a = (IF i < k THEN i ELSE i + 1) /\ t[i] = s[a]
      BY <1>5, <1>14
    <3>2. PICK b \in 1..n : b = (IF j < k THEN j ELSE j + 1) /\ t[j] = s[b]
      BY <1>5, <1>14
    <3>3. a = b
      BY <1>5, <2>1, <3>1, <3>2 DEF IsInjective
    <3>. QED BY <1>5, <3>1, <3>2, <3>3
  <2>. QED BY <1>14, <2>1 DEF IsInjective
<1>16. ASSUME NEW y, Contains(s, y), y # x PROVE Contains(t, y)
  <2>1. PICK i \in 1..n : s[i] = y
    BY <1>5, <1>16 DEF Contains
  <2>2. i # k
    BY <1>5, <1>16, <2>1
  <2>3. CASE i < k
    BY <1>5, <1>14, <2>1, <2>3 DEF Contains
  <2>4. CASE i > k
    <3>1. i - 1 \in 1..n - 1 /\ ~(i - 1 < k) /\ i - 1 + 1 = i
      BY <1>5, <2>4
    <3>2. t[i - 1] = y
      BY <1>14, <2>1, <3>1
    <3>. QED BY <1>14, <3>1, <3>2 DEF Contains
  <2>. QED BY <1>5, <2>2, <2>3, <2>4
<1>17. ASSUME NEW y, Contains(t, y) PROVE Contains(s, y) /\ y # x
  <2>1. PICK i \in 1..n - 1 : t[i] = y
    BY <1>14, <1>17 DEF Contains
  <2>2. PICK a \in 1..n : a # k /\ s[a] = y
    BY <1>5, <1>14, <2>1
  <2>. QED BY <1>5, <2>2 DEF Contains, IsInjective
<1>. QED BY <1>3, <1>4, <1>14, <1>15, <1>16, <1>17 DEF RemoveAt
-------------------------------------------------------------------------------
LEMMA Verbs ==
    ASSUME NEW c \in Clients, Requested(c)
    PROVE  /\ Verb(c) = "PUT" => Name(c) \in Names /\ File(c) \in {c, Empty}
           /\ Verb(c) \in {"GET", "DELETE"} => Name(c) \in Names
BY DEF Requested, Requests, Verb, Name, File

LEMMA TwoLines ==
    /\ \A S : \A a, b \in S : <<a, b>> \in Seq(S)
    /\ \A a, b : <<>> \o <<a, b>> = <<a, b>>
<1>1. \A S : \A a, b \in S : <<a, b>> \in Seq(S)
  OBVIOUS
<1>2. ASSUME NEW a, NEW b PROVE <<>> \o <<a, b>> = <<a, b>>
  <2>1. <<a, b>> \in Seq({a, b})
    BY <1>1
  <2>. QED BY <2>1, ConcatEmptySeq
<1>. QED BY <1>1, <1>2

LEMMA InitTypes == Init => Types /\ Catalogue
<1>1. SUFFICES ASSUME Init PROVE Types /\ Catalogue
  OBVIOUS
<1>2. \A c \in Clients : Requested(c)
  BY <1>1, NonstopAssumption DEF Init, Requested
<1>3. TypeOK
  <2>1. state \in [Clients -> -3..1]
    BY <1>1 DEF Init
  <2>2. fileList \in Seq(Names)
    BY <1>1 DEF Init
  <2>. QED BY <1>1, <2>1, <2>2 DEF Init, TypeOK, Contents
<1>4. answer \in [Clients -> [lines : Lines, body : Bodies]]
  BY <1>1 DEF Init, Lines, Bodies
<1>5. Len(<<>>) = 0 /\ IsInjective(<<>>) /\ \A f : ~Contains(<<>>, f)
  BY DEF IsInjective, Contains
<1>6. Catalogue
  BY <1>1, <1>5 DEF Init, Catalogue, Reading, ListedExist, Faithful, Overwrites
<1>. QED BY <1>2, <1>3, <1>4, <1>6 DEF Types

\* The steps in which the server leaves its catalogue alone.
Answers(c) ==
    \/ ReadBadHeader(c) \/ ReadHeader(c) \/ PutCannotOpen(c) \/ GetMissing(c) \/ GetFile(c)
    \/ PutDone(c) \/ DeleteMissing(c) \/ List(c) \/ AnswerError(c)

LEMMA TypesStep == Types /\ Catalogue /\ [Next]_vars => Types'
<1>1. SUFFICES ASSUME Types, Catalogue, [Next]_vars PROVE Types'
  OBVIOUS
<1>2. TypeOK /\ \A c \in Clients : Requested(c)
  BY <1>1 DEF Types
<1>3. request' = request
  BY <1>1 DEF Next, Accept, ProcessClient, ProcessRequest, Connect, SendsOn, SendHeader, HangUp,
     ReadBadHeader, ReadHeader, StartPut, PutCannotOpen, BodyAccepted, StoreBody, BodyRefused,
     GetMissing, GetFile, GetUnsized, PutDone, DeleteMissing, DeleteUnlisted, DeleteFile, List,
     AnswerError, NotFound, CloseServer, vars, server, client
<1>4. \A c \in Clients : Requested(c)'
  BY <1>2, <1>3 DEF Requested
<1>5. ASSUME NEW c \in Clients, Connect(c) \/ SendHeader(c) \/ HangUp(c) PROVE TypeOK'
  BY <1>2, <1>5 DEF Connect, SendHeader, HangUp, Reached, TypeOK, server
<1>6. ASSUME NEW c \in Clients, Accept(c) PROVE TypeOK'
  BY <1>2, <1>6 DEF Accept, Moves, client, TypeOK
<1>7. ASSUME NEW c \in Clients, Answers(c) PROVE TypeOK'
  <2>1. UNCHANGED <<up, busy, overwrite, disk, fileList, fileSize, stage, request, hungUp, accepted, refused>>
    BY <1>7 DEF Answers, ReadBadHeader, ReadHeader, PutCannotOpen, GetMissing, GetFile, PutDone,
                DeleteMissing, List, AnswerError, NotFound, client
  <2>2. conn' = conn \/ conn' = [conn EXCEPT ![c] = "closed"]
    BY <1>7 DEF Answers, ReadBadHeader, ReadHeader, PutCannotOpen, GetMissing, GetFile, PutDone,
                DeleteMissing, List, AnswerError, NotFound, CleanClient
  <2>3. state' = state \/ Moves(c, -3) \/ Moves(c, -2) \/ Moves(c, -1) \/ Moves(c, 1)
    BY <1>7 DEF Answers, ReadBadHeader, ReadHeader, PutCannotOpen, GetMissing, GetFile, PutDone,
                DeleteMissing, List, AnswerError, NotFound
  <2>4. state' \in [Clients -> -3..1]
    BY <1>2, <2>3 DEF TypeOK, Moves
  <2>5. conn' \in [Clients -> {"none", "open", "closed"}]
    BY <1>2, <2>2 DEF TypeOK
  <2>. QED BY <1>2, <2>1, <2>4, <2>5 DEF TypeOK, Contents
<1>8. ASSUME NEW c \in Clients, StartPut(c) PROVE TypeOK'
  BY <1>2, <1>8, Verbs DEF StartPut, client, TypeOK, Contents
<1>9. ASSUME NEW c \in Clients, BodyAccepted(c) PROVE TypeOK'
  <2>1. Name(c) \in Names /\ File(c) \in {c, Empty}
    BY <1>1, <1>9, NonstopAssumption DEF BodyAccepted, BodyEnds, Catalogue, Reading
  <2>2. PICK b \in {c, Empty} : StoreBody(c, b)
    BY <1>9, <2>1 DEF BodyAccepted
  <2>3. Append(fileList, Name(c)) \in Seq(Names)
    BY <1>2, <2>1 DEF TypeOK
  <2>4. fileList' \in Seq(Names)
    BY <1>2, <2>2, <2>3 DEF StoreBody, TypeOK
  <2>. QED BY <1>2, <2>1, <2>2, <2>4 DEF StoreBody, Moves, client, TypeOK, Contents
<1>10. ASSUME NEW c \in Clients, BodyRefused(c) PROVE TypeOK'
  <2>1. Name(c) \in Names
    BY <1>1, <1>10, NonstopAssumption DEF BodyRefused, BodyEnds, Catalogue, Reading
  <2>. QED BY <1>2, <1>10, <2>1 DEF BodyRefused, Moves, client, TypeOK, Contents
<1>11. ASSUME NEW c \in Clients, GetUnsized(c) PROVE TypeOK'
  BY <1>2, <1>11 DEF GetUnsized, client, TypeOK
<1>12. ASSUME NEW c \in Clients, DeleteUnlisted(c) PROVE TypeOK'
  BY <1>2, <1>12, Verbs DEF DeleteUnlisted, Asked, Removed, NotFound, Moves, client, TypeOK
<1>13. ASSUME NEW c \in Clients, DeleteFile(c) PROVE TypeOK'
  <2>1. Name(c) \in Names /\ Contains(fileList, Name(c)) /\ IsInjective(fileList)
    BY <1>1, <1>2, <1>13, Verbs DEF DeleteFile, Asked, Idle, Catalogue, ListedExist
  <2>2. fileList' \in Seq(Names)
    BY <1>2, <1>13, <2>1, RemovedFromList DEF DeleteFile, TypeOK
  <2>. QED BY <1>2, <1>13, <2>1, <2>2 DEF DeleteFile, Removed, CleanClient, client, TypeOK
<1>14. ASSUME CloseServer PROVE TypeOK'
  <2>1. state' \in [Clients -> -3..1]
    BY <1>14 DEF CloseServer
  <2>2. fileList' \in Seq(Names)
    BY <1>14 DEF CloseServer
  <2>. QED BY <1>2, <1>14, <2>1, <2>2 DEF CloseServer, client, TypeOK, Contents
<1>15. ASSUME UNCHANGED vars PROVE TypeOK'
  BY <1>2, <1>15 DEF vars, server, client, TypeOK, Contents
<1>16. TypeOK'
  BY <1>1, <1>5, <1>6, <1>7, <1>8, <1>9, <1>10, <1>11, <1>12, <1>13, <1>14, <1>15
     DEF Next, ProcessClient, ProcessRequest, SendsOn, Answers
<1>17. answer' \in [Clients -> [lines : Lines, body : Bodies]]
  <2>1. \/ answer' = answer
        \/ \E c \in Clients, ls \in Lines : answer' = [answer EXCEPT ![c].lines = @ \o ls]
        \/ \E c \in Clients, b \in Bodies :
              answer' = [answer EXCEPT ![c] = [lines |-> @.lines \o <<"OK">>, body |-> b]]
    <3>1. ASSUME NEW c \in Clients, ReadBadHeader(c) \/ GetUnsized(c) \/ PutDone(c) \/ DeleteFile(c)
          PROVE  answer' = answer \/ \E ls \in Lines : answer' = [answer EXCEPT ![c].lines = @ \o ls]
      <4>1. <<"OK">> \in Lines /\ <<"Bad request">> \in Lines
        BY DEF Lines
      <4>. QED BY <3>1, <4>1 DEF ReadBadHeader, GetUnsized, PutDone, DeleteFile, Writes
    <3>2. ASSUME NEW c \in Clients, AnswerError(c)
          PROVE  \E ls \in Lines : answer' = [answer EXCEPT ![c].lines = @ \o ls]
      <4>1. state[c] \in {-1, -2, -3}
        BY <1>2, <3>2 DEF AnswerError, TypeOK
      <4>2. PICK m \in {"Bad request", "Bad file size", "No such file"} : m = Message(state[c])
        <5>1. Message(-1) = "Bad request" /\ Message(-2) = "Bad file size"
          BY DEF Message
        <5>2. Message(-3) = "No such file"
          BY DEF Message
        <5>. QED BY <4>1, <5>1, <5>2
      <4>3. <<"ERROR", m>> \in Lines
        <5>1. \A S : "ERROR" \in S /\ m \in S => <<"ERROR", m>> \in Seq(S)
          BY TwoLines
        <5>. QED BY <5>1 DEF Lines
      <4>. QED BY <3>2, <4>2, <4>3 DEF AnswerError, Writes
    <3>3. ASSUME NEW c \in Clients, GetFile(c)
          PROVE  \E b \in Bodies : answer' = [answer EXCEPT ![c] = [lines |-> @.lines \o <<"OK">>, body |-> b]]
      <4>1. Returned(Name(c)) \in Bodies
        <5>1. Name(c) \in Names
          BY <1>2, <3>3, Verbs DEF GetFile, Asked
        <5>2. disk[Name(c)] \in Contents \cup {None}
          BY <1>2, <5>1 DEF TypeOK
        <5>. QED BY <5>2 DEF Returned, Bodies, Contents
      <4>. QED BY <3>3, <4>1 DEF GetFile
    <3>4. ASSUME NEW c \in Clients, List(c)
          PROVE  \E b \in Bodies : answer' = [answer EXCEPT ![c] = [lines |-> @.lines \o <<"OK">>, body |-> b]]
      <4>1. fileList \in Bodies
        BY <1>2 DEF TypeOK, Bodies
      <4>. QED BY <3>4, <4>1 DEF List
    <3>5. ASSUME \/ \E c \in Clients : \/ Connect(c) \/ SendHeader(c) \/ HangUp(c) \/ Accept(c)
                                       \/ ReadHeader(c) \/ StartPut(c) \/ PutCannotOpen(c)
                                       \/ BodyAccepted(c) \/ BodyRefused(c) \/ GetMissing(c)
                                       \/ DeleteMissing(c) \/ DeleteUnlisted(c)
                 \/ CloseServer \/ UNCHANGED vars
          PROVE  answer' = answer
      BY <3>5 DEF Connect, SendHeader, HangUp, Accept, ReadHeader, StartPut, PutCannotOpen,
                  BodyAccepted, StoreBody, BodyRefused, GetMissing, DeleteMissing, DeleteUnlisted,
                  NotFound, CloseServer, vars
    <3>. QED BY <1>1, <3>1, <3>2, <3>3, <3>4, <3>5 DEF Next, ProcessClient, ProcessRequest, SendsOn
  <2>2. \A c \in Clients : answer[c].lines \in Lines /\ answer[c].body \in Bodies
    BY <1>1 DEF Types
  <2>3. \A c \in Clients, ls \in Lines : answer[c].lines \o ls \in Lines
    BY <2>2, ConcatProperties DEF Lines
  <2>4. <<"OK">> \in Lines
    BY DEF Lines
  <2>5. CASE answer' = answer
    BY <1>1, <2>5 DEF Types
  <2>6. ASSUME NEW c \in Clients, NEW ls \in Lines, answer' = [answer EXCEPT ![c].lines = @ \o ls]
        PROVE  answer' \in [Clients -> [lines : Lines, body : Bodies]]
    <3>1. PICK l2 \in Lines : l2 = answer[c].lines \o ls
      BY <2>3
    <3>2. answer' = [answer EXCEPT ![c].lines = l2]
      BY <2>6, <3>1
    <3>. QED BY <1>1, <3>2 DEF Types
  <2>7. ASSUME NEW c \in Clients, NEW b \in Bodies,
               answer' = [answer EXCEPT ![c] = [lines |-> @.lines \o <<"OK">>, body |-> b]]
        PROVE  answer' \in [Clients -> [lines : Lines, body : Bodies]]
    <3>1. PICK l2 \in Lines : l2 = answer[c].lines \o <<"OK">>
      BY <2>3, <2>4
    <3>2. answer' = [answer EXCEPT ![c] = [lines |-> l2, body |-> b]]
      BY <2>7, <3>1
    <3>. QED BY <1>1, <3>2 DEF Types
  <2>. QED BY <2>1, <2>5, <2>6, <2>7
<1>. QED BY <1>4, <1>16, <1>17 DEF Types

\* Who holds overwrite_f, and what is in the directory, is of the server alone.
LEMMA CatalogueStep == Types /\ Catalogue /\ [Next]_vars => Catalogue'
<1>1. SUFFICES ASSUME Types, Catalogue, [Next]_vars, up' PROVE Catalogue'
  BY DEF Catalogue
<1>2. TypeOK /\ \A c \in Clients : Requested(c)
  BY <1>1 DEF Types
<1>3. up
  BY <1>1 DEF Next, Accept, ProcessClient, ProcessRequest, Connect, SendsOn, SendHeader, HangUp,
     ReadBadHeader, ReadHeader, StartPut, PutCannotOpen, BodyAccepted, BodyEnds, BodyRefused,
     GetMissing, GetFile, GetUnsized, PutDone, DeleteMissing, DeleteUnlisted, DeleteFile, List,
     AnswerError, Asked, HeaderReady, Idle, CloseServer, vars, server
<1>4. Reading /\ ListedExist /\ Faithful /\ Overwrites
  BY <1>1, <1>3 DEF Catalogue
<1>5. None \notin Clients /\ Empty # None /\ Garbled # None
  BY NonstopAssumption
\* Steps between two bodies that do not touch the directory, the list or the sizes.
<1>6. ASSUME UNCHANGED <<request, busy, overwrite, disk, fileList, fileSize, accepted, refused>>,
             Reading'
      PROVE  Catalogue'
  BY <1>4, <1>6 DEF Catalogue, ListedExist, Faithful, Overwrites, BeingPut, Name
<1>7. ASSUME NEW c \in Clients, Connect(c) \/ SendHeader(c) \/ HangUp(c) PROVE Catalogue'
  <2>1. UNCHANGED <<request, busy, overwrite, disk, fileList, fileSize, accepted, refused, conn, state>>
    BY <1>7 DEF Connect, SendHeader, HangUp, server
  <2>2. Reading'
    BY <1>2, <1>4, <2>1 DEF Reading, Verb, Name, File, TypeOK
  <2>. QED BY <1>6, <2>1, <2>2
<1>8. ASSUME NEW c \in Clients, Accept(c) \/ Answers(c) PROVE Catalogue'
  <2>1. busy = None /\ UNCHANGED <<request, busy, overwrite, disk, fileList, fileSize, accepted, refused>>
    BY <1>8 DEF Accept, Answers, ReadBadHeader, ReadHeader, PutCannotOpen, GetMissing, GetFile,
                PutDone, DeleteMissing, List, AnswerError, NotFound, Asked, HeaderReady, Idle, client
  <2>. QED BY <1>6, <2>1 DEF Reading
<1>9. ASSUME NEW c \in Clients, StartPut(c) PROVE Catalogue'
  <2>1. /\ Verb(c) = "PUT" /\ Name(c) \in Names /\ File(c) \in {c, Empty}
        /\ conn[c] = "open" /\ state[c] = 0 /\ Name(c) \notin Unopenable /\ busy = None
    BY <1>2, <1>9, Verbs DEF StartPut, HeaderReady, Idle
  <2>2. PICK f \in Names : f = Name(c)
    BY <2>1
  <2>3. /\ busy' = c /\ overwrite' = (disk[f] # None) /\ disk' = [disk EXCEPT ![f] = Empty]
        /\ UNCHANGED <<request, fileList, fileSize, accepted, refused, conn, state>>
    BY <1>9, <2>2 DEF StartPut, client
  <2>4. /\ disk'[f] = Empty /\ \A g \in Names \ {f} : disk'[g] = disk[g]
        /\ \A g \in Names : BeingPut(g)' <=> g = f
        /\ \A g \in Names : ~BeingPut(g)
    BY <1>2, <1>5, <2>1, <2>2, <2>3 DEF TypeOK, BeingPut, Name
  <2>5. Reading'
    BY <2>1, <2>3 DEF Reading, Verb, Name, File
  <2>6. ListedExist'
    BY <1>4, <1>5, <2>3, <2>4 DEF ListedExist
  <2>7. Faithful'
    BY <1>4, <2>3, <2>4 DEF Faithful
  <2>8. Name(busy)' = f
    BY <2>2, <2>3 DEF Name
  <2>9. Overwrites'
    <3>1. ~overwrite' => ~Contains(fileList', f)
      BY <1>4, <2>3 DEF ListedExist
    <3>2. f \notin refused' => (overwrite' <=> accepted'[f] # None)
      BY <1>4, <2>3, <2>4 DEF Faithful
    <3>. QED BY <1>5, <2>3, <2>4, <2>8, <3>1, <3>2 DEF Overwrites
  <2>. QED BY <2>5, <2>6, <2>7, <2>9 DEF Catalogue
<1>10. ASSUME NEW c \in Clients, BodyAccepted(c) PROVE Catalogue'
  <2>1. busy = c /\ Name(c) \in Names /\ File(c) \in {c, Empty}
    BY <1>4, <1>5, <1>10 DEF BodyAccepted, BodyEnds, Reading
  <2>2. PICK b \in {c, Empty} : StoreBody(c, b)
    BY <1>10, <2>1 DEF BodyAccepted
  <2>3. PICK f \in Names : f = Name(c)
    BY <2>1
  <2>4. /\ busy' = None /\ disk' = [disk EXCEPT ![f] = b] /\ fileSize' = [fileSize EXCEPT ![f] = b]
        /\ fileList' = (IF overwrite THEN fileList ELSE Append(fileList, f))
        /\ accepted' = [accepted EXCEPT ![f] = b] /\ refused' = refused
    BY <2>2, <2>3 DEF StoreBody
  <2>5. /\ b # None /\ disk'[f] = b /\ fileSize'[f] = b /\ accepted'[f] = b
        /\ \A g \in Names \ {f} :
              disk'[g] = disk[g] /\ fileSize'[g] = fileSize[g] /\ accepted'[g] = accepted[g]
    BY <1>2, <1>5, <2>4 DEF TypeOK
  <2>6. /\ \A g \in Names : BeingPut(g) <=> g = f
        /\ \A g \in Names : ~BeingPut(g)'
    BY <1>5, <2>1, <2>3, <2>4 DEF BeingPut
  <2>7. /\ ~overwrite => ~Contains(fileList, f)
        /\ f \notin refused => (overwrite <=> accepted[f] # None)
    BY <1>4, <1>5, <2>1, <2>3 DEF Overwrites
  <2>8. /\ IsInjective(fileList')
        /\ \A g \in Names : Contains(fileList', g) <=> Contains(fileList, g) \/ (g = f /\ ~overwrite)
    <3>1. CASE overwrite
      BY <1>4, <2>4, <3>1 DEF ListedExist
    <3>2. CASE ~overwrite
      <4>1. fileList \in Seq(Names)
        BY <1>2 DEF TypeOK
      <4>. QED BY <1>4, <2>4, <2>7, <3>2, <4>1, AppendedList DEF ListedExist
    <3>. QED BY <3>1, <3>2
  <2>9. ListedExist'
    BY <1>4, <2>5, <2>8 DEF ListedExist
  <2>10. Faithful'
    <3>1. ASSUME NEW g \in Names \ refused
          PROVE  /\ disk'[g] = accepted'[g]
                 /\ Contains(fileList', g) <=> accepted'[g] # None
                 /\ accepted'[g] # None => fileSize'[g] = accepted'[g]
      <4>1. CASE g = f
        BY <1>4, <2>5, <2>7, <2>8, <3>1, <4>1 DEF Faithful
      <4>2. CASE g # f
        BY <1>4, <2>5, <2>6, <2>8, <3>1, <4>2 DEF Faithful
      <4>. QED BY <4>1, <4>2
    <3>. QED BY <2>4, <2>6, <3>1 DEF Faithful
  <2>11. Reading' /\ Overwrites'
    BY <2>4 DEF Reading, Overwrites
  <2>. QED BY <2>9, <2>10, <2>11 DEF Catalogue
<1>11. ASSUME NEW c \in Clients, BodyRefused(c) PROVE Catalogue'
  <2>1. busy = c /\ Name(c) \in Names
    BY <1>4, <1>5, <1>11 DEF BodyRefused, BodyEnds, Reading
  <2>2. PICK f \in Names : f = Name(c)
    BY <2>1
  <2>3. PICK b \in {Garbled, Empty} : disk' = [disk EXCEPT ![f] = b]
    BY <1>11, <2>2 DEF BodyRefused
  <2>4. busy' = None /\ refused' = refused \cup {f} /\ UNCHANGED <<fileList, fileSize, accepted>>
    BY <1>11, <2>2 DEF BodyRefused
  <2>5. disk'[f] # None /\ \A g \in Names \ {f} : disk'[g] = disk[g]
    BY <1>2, <1>5, <2>3 DEF TypeOK
  <2>6. \A g \in Names : BeingPut(g) <=> g = f
    BY <1>5, <2>1, <2>2 DEF BeingPut
  <2>7. ListedExist'
    BY <1>4, <2>4, <2>5 DEF ListedExist
  <2>8. Faithful'
    BY <1>4, <2>4, <2>5, <2>6 DEF Faithful
  <2>9. Reading' /\ Overwrites'
    BY <2>4 DEF Reading, Overwrites
  <2>. QED BY <2>7, <2>8, <2>9 DEF Catalogue
<1>12. ASSUME NEW c \in Clients, DeleteUnlisted(c) \/ DeleteFile(c) PROVE Catalogue'
  <2>1. Name(c) \in Names /\ busy = None
    BY <1>2, <1>12, Verbs DEF DeleteUnlisted, DeleteFile, Asked, Idle
  <2>2. PICK f \in Names : f = Name(c)
    BY <2>1
  <2>3. /\ busy' = None /\ disk' = [disk EXCEPT ![f] = None]
        /\ accepted' = [accepted EXCEPT ![f] = None] /\ refused' = refused \ {f}
    BY <1>12, <2>1, <2>2 DEF DeleteUnlisted, DeleteFile, Removed, NotFound
  <2>4. /\ disk'[f] = None /\ accepted'[f] = None
        /\ \A g \in Names \ {f} : disk'[g] = disk[g] /\ accepted'[g] = accepted[g]
    BY <1>2, <2>3 DEF TypeOK
  <2>5. \A g \in Names : ~BeingPut(g) /\ ~BeingPut(g)'
    BY <2>1, <2>3 DEF BeingPut
  <2>6. /\ IsInjective(fileList')
        /\ \A g \in Names : Contains(fileList', g) <=> Contains(fileList, g) /\ g # f
        /\ \A g \in Names \ {f} : fileSize'[g] = fileSize[g]
    <3>1. CASE DeleteUnlisted(c)
      BY <1>4, <2>2, <3>1 DEF DeleteUnlisted, NotFound, ListedExist
    <3>2. CASE DeleteFile(c)
      <4>1. /\ Contains(fileList, f) /\ fileList' = RemoveFirst(fileList, f)
            /\ fileSize' = [fileSize EXCEPT ![f] = None]
        BY <2>2, <3>2 DEF DeleteFile
      <4>2. fileList \in Seq(Names) /\ IsInjective(fileList)
        BY <1>2, <1>4 DEF TypeOK, ListedExist
      <4>3. \A g \in Names \ {f} : fileSize'[g] = fileSize[g]
        BY <1>2, <4>1 DEF TypeOK
      <4>. QED BY <4>1, <4>2, <4>3, RemovedFromList
    <3>. QED BY <1>12, <3>1, <3>2
  <2>7. ListedExist'
    BY <1>4, <2>4, <2>6 DEF ListedExist
  <2>8. Faithful'
    <3>1. ASSUME NEW g \in Names, g \notin refused'
          PROVE  /\ disk'[g] = accepted'[g]
                 /\ Contains(fileList', g) <=> accepted'[g] # None
                 /\ accepted'[g] # None => fileSize'[g] = accepted'[g]
      <4>1. CASE g = f
        BY <2>4, <2>6, <4>1
      <4>2. CASE g # f
        BY <1>4, <2>3, <2>4, <2>5, <2>6, <3>1, <4>2 DEF Faithful
      <4>. QED BY <4>1, <4>2
    <3>. QED BY <3>1 DEF Faithful
  <2>9. Reading' /\ Overwrites'
    BY <2>3 DEF Reading, Overwrites
  <2>. QED BY <2>7, <2>8, <2>9 DEF Catalogue
<1>13. CASE UNCHANGED vars
  BY <1>4, <1>6, <1>13 DEF vars, server, client, Reading, Verb, Name, File
<1>14. ~CloseServer /\ \A c \in Clients : ~GetUnsized(c)
  BY <1>1 DEF GetUnsized, CloseServer
<1>. QED
  BY <1>1, <1>7, <1>8, <1>9, <1>10, <1>11, <1>12, <1>13, <1>14
     DEF Next, ProcessClient, ProcessRequest, SendsOn, Answers

LEMMA CatalogueInvariance == Spec => [](Types /\ Catalogue)
BY InitTypes, TypesStep, CatalogueStep, PTL DEF Spec

\* server.c: between PUTs the directory, the list and the size table agree on
\* which files there are and on what they hold, but for names with a refused body.
THEOREM SpecCatalogueAgrees == Spec => []CatalogueAgrees
<1>1. Types /\ Catalogue => CatalogueAgrees
  <2>1. SUFFICES ASSUME Types, Catalogue PROVE CatalogueAgrees
    OBVIOUS
  <2>2. ASSUME NEW i \in DOMAIN fileList PROVE fileList[i] \in Names /\ Contains(fileList, fileList[i])
    BY <2>1 DEF Types, TypeOK, Contains
  <2>. QED BY <2>1, <2>2 DEF Types, CatalogueAgrees, Catalogue, ListedExist, Faithful
<1>. QED BY <1>1, CatalogueInvariance, PTL

\* server.c, process_get: a GET is answered with the last accepted body, whole.
THEOREM SpecGetsAreExact == Spec => GetsAreExact
<1>1. ASSUME Types, Catalogue, NEW c \in Clients, GetFile(c), Name(c) \notin refused
      PROVE  answer'[c].body = accepted[Name(c)]
  <2>1. /\ up /\ busy = None /\ Name(c) \in Names /\ disk[Name(c)] # None
        /\ answer' = [answer EXCEPT ![c] = [lines |-> @.lines \o <<"OK">>, body |-> Returned(Name(c))]]
    BY <1>1, Verbs DEF GetFile, Asked, Idle, Types
  <2>2. disk[Name(c)] = accepted[Name(c)] /\ fileSize[Name(c)] = accepted[Name(c)]
    BY <1>1, <2>1 DEF Catalogue, Faithful, BeingPut
  <2>3. Returned(Name(c)) = accepted[Name(c)]
    BY <2>2 DEF Returned
  <2>. QED BY <1>1, <2>1, <2>3 DEF Types
<1>2. Types /\ Catalogue => \A c \in Clients : GetFile(c) /\ Name(c) \notin refused =>
          answer'[c].body = accepted[Name(c)]
  BY <1>1
<1>. QED BY <1>2, CatalogueInvariance, PTL DEF GetsAreExact
-------------------------------------------------------------------------------
(* What a client of a PUT has sent and has been told. *)

Unanswered(c) == answer[c].lines = <<>>
Ended(c) == hungUp[c] /\ (stage[c] = "header" \/ Complete(c))
Spoilt(c) == Name(c) \in Unopenable \/ (hungUp[c] /\ ~Complete(c))

\* It sends what follows its header only as it hangs up; the end of its stream
\* has been seen when the server is satisfied, or ill content, with what came.
Told(c) ==
    /\ conn[c] # "none" => stage[c] # "off"
    /\ busy = c => stage[c] # "open"
    /\ stage[c] \in {"size", "part", "whole", "extra"} => hungUp[c]
    /\ Verb(c) = "PUT" =>
          /\ conn[c] = "none" => Unanswered(c)
          /\ conn[c] = "open" =>
                /\ state[c] = 0 => Unanswered(c)
                /\ state[c] = 1 => Unanswered(c) /\ Ended(c)
                /\ state[c] = -1 => stage[c] = "open" /\ hungUp[c]
                /\ state[c] = -2 => Unanswered(c) /\ stage[c] # "open" /\ Spoilt(c)
                /\ state[c] # -3
          /\ conn[c] = "closed" =>
                \/ stage[c] = "open" /\ hungUp[c]
                \/ answer[c].lines = <<"OK">> /\ Ended(c)
                \/ answer[c].lines = <<"ERROR", "Bad file size">> /\ stage[c] # "open" /\ Spoilt(c)

AllTold == up => \A c \in Clients : Told(c)

\* A step that is of another client.
LEMMA ToldKept ==
    ASSUME NEW c \in Clients, Told(c), request' = request, busy' = c => busy = c,
           conn'[c] = conn[c], stage'[c] = stage[c], hungUp'[c] = hungUp[c],
           state'[c] = state[c], answer'[c] = answer[c]
    PROVE  Told(c)'
BY DEF Told, Unanswered, Ended, Spoilt, Complete, Verb, Name, File

\* A step of a client itself, or of the server for it.
LEMMA ToldStep ==
    ASSUME Types, Catalogue, NEW c \in Clients, Told(c), up, up',
           Accept(c) \/ ProcessClient(c) \/ Connect(c) \/ SendsOn(c)
    PROVE  Told(c)'
<1>1. TypeOK /\ Requested(c) /\ c # None /\ answer[c].lines \in Lines
  BY NonstopAssumption DEF Types
<1>2. busy # None => conn[busy] = "open" /\ state[busy] = 0 /\ Verb(busy) = "PUT"
  BY DEF Catalogue, Reading
<1>3. request' = request /\ Verb(c)' = Verb(c) /\ Name(c)' = Name(c) /\ File(c)' = File(c)
  <2>1. request' = request
    BY DEF Accept, ProcessClient, ProcessRequest, Connect, SendsOn, SendHeader, HangUp,
           ReadBadHeader, ReadHeader, StartPut, PutCannotOpen, BodyAccepted, StoreBody,
           BodyRefused, GetMissing, GetFile, GetUnsized, PutDone, DeleteMissing, DeleteUnlisted,
           DeleteFile, List, AnswerError, NotFound, client
  <2>. QED BY <2>1 DEF Verb, Name, File
<1>4. CASE Connect(c)
  BY <1>1, <1>2, <1>3, <1>4 DEF Connect, server, TypeOK, Told, Unanswered
<1>5. CASE SendHeader(c)
  BY <1>1, <1>2, <1>3, <1>5 DEF SendHeader, server, TypeOK, Told, Unanswered, Ended, Spoilt, Complete
<1>6. CASE HangUp(c)
  <2>1. /\ ~hungUp[c] /\ hungUp'[c] = TRUE /\ stage[c] \in {"open", "header"}
        /\ stage'[c] \in {"open", "header", "size", "extra", "part", "whole"}
        /\ stage'[c] = "open" <=> stage[c] = "open"
        /\ UNCHANGED <<busy, conn, state, answer>>
    BY <1>1, <1>6 DEF HangUp, Reached, TypeOK, server
  <2>. QED BY <1>3, <2>1 DEF Told, Unanswered, Ended, Spoilt
<1>7. CASE Accept(c)
  BY <1>1, <1>3, <1>7 DEF Accept, Moves, client, TypeOK, Told, Unanswered
<1>8. CASE ReadBadHeader(c)
  <2>1. /\ Verb(c) = "PUT" => stage[c] = "open" /\ hungUp[c]
        /\ stage'[c] = stage[c] /\ hungUp'[c] = hungUp[c] /\ conn'[c] = "open" /\ state'[c] = -1
        /\ busy' = None /\ conn[c] = "open"
    BY <1>1, <1>8 DEF ReadBadHeader, HeaderReady, Idle, Moves, client, TypeOK
  <2>. QED BY <1>1, <1>3, <2>1 DEF Told
<1>9. CASE ReadHeader(c)
  BY <1>1, <1>3, <1>9 DEF ReadHeader, HeaderReady, Idle, client, Told
<1>10. CASE StartPut(c)
  <2>1. /\ UNCHANGED <<stage, hungUp, conn, state, answer>> /\ busy' = c
        /\ state[c] = 0 /\ stage[c] # "open" /\ conn[c] = "open"
    BY <1>10 DEF StartPut, HeaderReady, client
  <2>. QED BY <1>3, <2>1 DEF Told, Unanswered
<1>11. CASE PutCannotOpen(c)
  <2>1. /\ UNCHANGED <<busy, stage, hungUp, conn, answer>> /\ state'[c] = -2 /\ state[c] = 0
        /\ Name(c) \in Unopenable /\ stage[c] # "open" /\ conn[c] = "open" /\ Verb(c) = "PUT"
    BY <1>1, <1>11 DEF PutCannotOpen, HeaderReady, Moves, client, TypeOK
  <2>. QED BY <1>3, <2>1 DEF Told, Unanswered, Spoilt
<1>12. CASE BodyAccepted(c)
  <2>1. busy = c /\ conn[c] = "open" /\ state[c] = 0 /\ Verb(c) = "PUT"
    BY <1>1, <1>2, <1>12 DEF BodyAccepted, BodyEnds
  <2>2. hungUp[c] /\ (stage[c] = "header" \/ Complete(c))
    BY <1>12 DEF BodyAccepted, BodyEnds
  <2>3. busy' = None /\ state'[c] = 1 /\ UNCHANGED <<stage, request, hungUp, conn, answer>>
    BY <1>1, <1>12 DEF BodyAccepted, StoreBody, Moves, client, TypeOK
  <2>4. Ended(c)'
    BY <1>3, <2>2, <2>3 DEF Ended, Complete
  <2>5. Unanswered(c)'
    BY <2>1, <2>3 DEF Told, Unanswered
  <2>6. state'[c] # 0 /\ state'[c] # -1 /\ state'[c] # -2 /\ state'[c] # -3 /\ busy' # c /\ conn'[c] = "open"
    BY <1>1, <2>1, <2>3
  <2>7. stage'[c] \in {"size", "part", "whole", "extra"} => hungUp'[c]
    BY <2>3 DEF Told
  <2>. QED BY <1>3, <2>1, <2>3, <2>4, <2>5, <2>6, <2>7 DEF Told
<1>13. CASE BodyRefused(c)
  <2>1. busy = c /\ conn[c] = "open" /\ state[c] = 0 /\ Verb(c) = "PUT"
    BY <1>1, <1>2, <1>13 DEF BodyRefused, BodyEnds
  <2>2. hungUp[c] /\ ~Complete(c)
    BY <1>13 DEF BodyRefused, BodyEnds
  <2>3. busy' = None /\ state'[c] = -2 /\ UNCHANGED <<stage, request, hungUp, conn, answer>>
    BY <1>1, <1>13 DEF BodyRefused, Moves, client, TypeOK
  <2>4. Spoilt(c)'
    BY <1>3, <2>2, <2>3 DEF Spoilt, Complete
  <2>5. Unanswered(c)'
    BY <2>1, <2>3 DEF Told, Unanswered
  <2>6. state'[c] # 0 /\ state'[c] # 1 /\ state'[c] # -1 /\ state'[c] # -3 /\ busy' # c /\ conn'[c] = "open"
    BY <1>1, <2>1, <2>3
  <2>7. stage'[c] \in {"size", "part", "whole", "extra"} => hungUp'[c]
    BY <2>3 DEF Told
  <2>. QED BY <1>3, <2>1, <2>3, <2>4, <2>5, <2>6, <2>7 DEF Told
<1>14. CASE \/ GetMissing(c) \/ GetFile(c) \/ GetUnsized(c) \/ DeleteMissing(c)
            \/ DeleteUnlisted(c) \/ DeleteFile(c) \/ List(c)
  <2>1. Verb(c) # "PUT" /\ busy' = None /\ conn[c] = "open" /\ UNCHANGED <<stage, hungUp>>
    BY <1>14 DEF GetMissing, GetFile, GetUnsized, DeleteMissing, DeleteUnlisted, DeleteFile, List,
                 Asked, Idle, NotFound, client
  <2>. QED BY <1>1, <1>3, <2>1 DEF Told
<1>15. CASE PutDone(c)
  <2>1. /\ conn[c] = "open" /\ state[c] = 1 /\ Verb(c) = "PUT" /\ busy' = None
        /\ conn'[c] = "closed" /\ UNCHANGED <<stage, hungUp, request>>
    BY <1>1, <1>15 DEF PutDone, Asked, Idle, CleanClient, client, TypeOK
  <2>2. Unanswered(c) /\ Ended(c)
    BY <2>1 DEF Told
  <2>3. answer'[c].lines = <<>> \o <<"OK">>
    BY <1>15, <2>2 DEF PutDone, Writes, Unanswered, Types
  <2>4. answer'[c].lines = <<"OK">>
    BY <2>3
  <2>. QED BY <1>1, <1>3, <2>1, <2>2, <2>4 DEF Told, Ended, Complete
<1>16. CASE AnswerError(c)
  <2>1. /\ conn[c] = "open" /\ state[c] \in {-1, -2, -3} /\ busy' = None
        /\ conn'[c] = "closed" /\ UNCHANGED <<stage, hungUp, request>>
    BY <1>1, <1>16 DEF AnswerError, Idle, CleanClient, client, TypeOK
  <2>2. CASE Verb(c) # "PUT" \/ state[c] # -2
    BY <1>1, <1>3, <2>1, <2>2 DEF Told
  <2>3. CASE Verb(c) = "PUT" /\ state[c] = -2
    <3>1. Unanswered(c) /\ Spoilt(c) /\ stage[c] # "open"
      BY <2>1, <2>3 DEF Told
    <3>2. Message(-2) = "Bad file size"
      BY DEF Message
    <3>3. answer'[c].lines = <<>> \o <<"ERROR", "Bad file size">>
      BY <1>16, <2>3, <3>1, <3>2 DEF AnswerError, Writes, Unanswered, Types
    <3>4. answer'[c].lines = <<"ERROR", "Bad file size">>
      BY <3>3, TwoLines
    <3>. QED BY <1>1, <1>3, <2>1, <3>1, <3>4 DEF Told, Spoilt, Complete
  <2>. QED BY <2>2, <2>3
<1>. QED
  BY <1>4, <1>5, <1>6, <1>7, <1>8, <1>9, <1>10, <1>11, <1>12, <1>13, <1>14, <1>15, <1>16
     DEF ProcessClient, ProcessRequest, SendsOn

LEMMA AllToldStep == Types /\ Catalogue /\ AllTold /\ [Next]_vars => AllTold'
<1>1. SUFFICES ASSUME Types, Catalogue, AllTold, [Next]_vars, up', NEW d \in Clients
               PROVE  Told(d)'
  BY DEF AllTold
<1>2. up
  BY <1>1 DEF Next, Accept, ProcessClient, ProcessRequest, Connect, SendsOn, SendHeader, HangUp,
     ReadBadHeader, ReadHeader, StartPut, PutCannotOpen, BodyAccepted, BodyEnds, BodyRefused,
     GetMissing, GetFile, GetUnsized, PutDone, DeleteMissing, DeleteUnlisted, DeleteFile, List,
     AnswerError, Asked, HeaderReady, Idle, CloseServer, vars, server
<1>3. Told(d) /\ TypeOK
  BY <1>1, <1>2 DEF AllTold, Types
<1>4. ASSUME NEW c \in Clients, Accept(c) \/ ProcessClient(c) \/ Connect(c) \/ SendsOn(c)
      PROVE  Told(d)'
  <2>1. CASE c = d
    BY <1>1, <1>2, <1>3, <1>4, <2>1, ToldStep
  <2>2. CASE c # d
    <3>1. request' = request /\ (busy' = d => busy = d)
      BY <1>4, <2>2, NonstopAssumption
         DEF Accept, ProcessClient, ProcessRequest, Connect, SendsOn, SendHeader, HangUp, server,
             ReadBadHeader, ReadHeader, StartPut, PutCannotOpen, BodyAccepted, StoreBody,
             BodyRefused, GetMissing, GetFile, GetUnsized, PutDone, DeleteMissing, DeleteUnlisted,
             DeleteFile, List, AnswerError, NotFound, client
    <3>2. conn'[d] = conn[d] /\ state'[d] = state[d]
      BY <1>3, <1>4, <2>2
         DEF TypeOK, Accept, ProcessClient, ProcessRequest, Connect, SendsOn, SendHeader, HangUp,
             server, ReadBadHeader, ReadHeader, StartPut, PutCannotOpen, BodyAccepted, StoreBody,
             BodyRefused, GetMissing, GetFile, GetUnsized, PutDone, DeleteMissing, DeleteUnlisted,
             DeleteFile, List, AnswerError, NotFound, Moves, CleanClient
    <3>3. stage'[d] = stage[d] /\ hungUp'[d] = hungUp[d]
      BY <1>3, <1>4, <2>2
         DEF TypeOK, Accept, ProcessClient, ProcessRequest, Connect, SendsOn, SendHeader, HangUp,
             ReadBadHeader, ReadHeader, StartPut, PutCannotOpen, BodyAccepted, StoreBody,
             BodyRefused, GetMissing, GetFile, GetUnsized, PutDone, DeleteMissing, DeleteUnlisted,
             DeleteFile, List, AnswerError, NotFound, client
    <3>4. answer'[d] = answer[d]
      BY <1>1, <1>4, <2>2
         DEF Types, Accept, ProcessClient, ProcessRequest, Connect, SendsOn, SendHeader, HangUp,
             ReadBadHeader, ReadHeader, StartPut, PutCannotOpen, BodyAccepted, StoreBody,
             BodyRefused, GetMissing, GetFile, GetUnsized, PutDone, DeleteMissing, DeleteUnlisted,
             DeleteFile, List, AnswerError, NotFound, Writes
    <3>. QED BY <1>3, <3>1, <3>2, <3>3, <3>4, ToldKept
  <2>. QED BY <2>1, <2>2
<1>5. CASE UNCHANGED vars
  BY <1>3, <1>5, ToldKept DEF vars, server, client
<1>. QED BY <1>1, <1>4, <1>5 DEF Next, CloseServer

\* server.c, read_body and process_put: a client of a PUT is told OK only for a
\* body of the size it gave, and "Bad file size" only for another, or for a name
\* that cannot be stored.
THEOREM SpecPutAnswersAreTrue == Spec => []PutAnswersAreTrue
<1>1. Init => AllTold
  BY NonstopAssumption DEF Init, AllTold, Told, Unanswered
<1>2. Types /\ AllTold => PutAnswersAreTrue
  <2>1. SUFFICES ASSUME Types, up, NEW c \in Clients, Told(c), conn[c] = "closed", Verb(c) = "PUT",
                        stage[c] \notin {"open", "header"}
                 PROVE  \/ answer[c].lines = <<"OK">> /\ Complete(c)
                        \/ /\ answer[c].lines = <<"ERROR", "Bad file size">>
                           /\ ~Complete(c) \/ Name(c) \in Unopenable
    BY DEF AllTold, PutAnswersAreTrue
  <2>. QED BY <2>1 DEF Told, Ended, Spoilt
<1>. QED BY <1>1, <1>2, AllToldStep, CatalogueInvariance, PTL DEF Spec
===============================================================================
