--------------------------- MODULE Libraries_proofs ---------------------------
(***************************************************************************)
(* Proofs about the programs of Libraries, for every value of their        *)
(* parameters: the chat client, the green threads, the status display, the *)
(* shell, the makefiles and the shim before minixfs. Each has an inductive *)
(* invariant of its own, whose named parts stand in its module or beside   *)
(* it: the program's initial state has it (the lemma ...Init) and each of  *)
(* its steps keeps it (...Step). The last section puts them together, a    *)
(* behaviour being one of the program that was chosen at its start. v1,    *)
(* v2, ... are the programs' variables, as Libraries has them. malloc,     *)
(* mini_memcheck and virtual memory have a module of their own for their   *)
(* proofs, Memory_proofs.                                                  *)
(***************************************************************************)
EXTENDS Libraries, FiniteSetTheorems, SequenceTheorems, WellFoundedInduction, TLAPS

\* A set of naturals that is not empty has a least one.
LEMMA LeastNatural ==
    ASSUME NEW T \in SUBSET Nat, T # {}
    PROVE  \E n \in T : \A m \in T : n <= m
<1>. DEFINE less == {pair \in Nat \X Nat : pair[1] < pair[2]}
<1>1. IsWellFoundedOn(less, Nat)
  BY NatLessThanWellFounded DEF OpToRel
<1>2. PICK n \in T : \A m \in T : <<m, n>> \notin less
  <2>. HIDE DEF less
  <2>. QED BY <1>1, WFMin, Zenon
<1>3. \A m \in T : ~(m < n)
  BY <1>2
<1>. QED BY <1>3

-----------------------------------------------------------------------------
(* The chat client. *)

ClientInv == ChatClient!TypeOK /\ ChatClient!PlacesHold /\ ChatClient!OneAfterTheOther

\* Nobody has begun, and nothing is held.
LEMMA ClientInit ==
    ASSUME ChatClient!Init
    PROVE  ClientInv
BY DEF ChatClient!Init, ClientInv, ChatClient!TypeOK, ChatClient!PlacesHold, ChatClient!OneAfterTheOther,
       ChatClient!Threads, ChatClient!Pointers

\* free never meets a dangling pointer.
LEMMA ReleaseIsClean ==
    ASSUME ChatClient!TypeOK, NEW ps \in SUBSET ChatClient!Pointers, ChatClient!Release(ps)
    PROVE  /\ v8' \in [ChatClient!Pointers -> {"null", "live"}]
           /\ \A p \in ChatClient!Pointers : v8'[p] = IF p \in ps THEN "null" ELSE v8[p]
           /\ v10' = v10
BY DEF ChatClient!TypeOK, ChatClient!Release

\* The writer's steps: msg is held from fgets to the write, and a message that was
\* begun is cut only by the writer's end.
LEMMA WriterStep ==
    ASSUME ClientInv, ChatClient!Writer, UNCHANGED ChatClient!unchangedByThreads
    PROVE  ClientInv'
<1>. USE DEF ClientInv, ChatClient!TypeOK, ChatClient!PlacesHold, ChatClient!OneAfterTheOther, ChatClient!Threads,
           ChatClient!Pointers, ChatClient!unchangedByThreads, ChatClient!OfWriter, ChatClient!GoesTo, ChatClient!Allocate
<1>1. CASE ChatClient!AskForMessage
  BY <1>1 DEF ChatClient!AskForMessage
<1>2. CASE ChatClient!ReadMessageFromScreen
  BY <1>2, ReleaseIsClean DEF ChatClient!ReadMessageFromScreen, ChatClient!Cancelled
<1>3. CASE ChatClient!WriteMessageSize
  BY <1>3, ReleaseIsClean DEF ChatClient!WriteMessageSize, ChatClient!Cancelled, ChatClient!Writes, ChatClient!Part, ChatClient!Fails
<1>4. CASE ChatClient!WriteBody
  BY <1>4, ReleaseIsClean DEF ChatClient!WriteBody, ChatClient!Cancelled, ChatClient!Writes, ChatClient!Part, ChatClient!Fails
<1>. QED BY <1>1, <1>2, <1>3, <1>4 DEF ChatClient!Writer

\* The reader's: body is held from the read of its size on.
LEMMA ReaderStep ==
    ASSUME ClientInv, ChatClient!Reader, UNCHANGED ChatClient!unchangedByThreads
    PROVE  ClientInv'
<1>. USE DEF ClientInv, ChatClient!TypeOK, ChatClient!PlacesHold, ChatClient!OneAfterTheOther, ChatClient!Threads,
           ChatClient!Pointers, ChatClient!unchangedByThreads, ChatClient!GoesTo, ChatClient!Allocate
<1>1. CASE ChatClient!GetMessageSize
  BY <1>1, ReleaseIsClean DEF ChatClient!GetMessageSize, ChatClient!Cancelled
<1>2. CASE ChatClient!ReadBody
  BY <1>2, ReleaseIsClean DEF ChatClient!ReadBody, ChatClient!Cancelled
<1>3. CASE ChatClient!WriteMessageToScreen
  BY <1>3, ReleaseIsClean DEF ChatClient!WriteMessageToScreen, ChatClient!Cancelled
<1>. QED BY <1>1, <1>2, <1>3 DEF ChatClient!Reader

\* The main thread starts a thread once, and its handler cancels the writer before it
\* shuts the connection.
LEMMA ClientMainStep ==
    ASSUME ClientInv, ChatClient!MainStep
    PROVE  ClientInv'
<1>. USE DEF ClientInv, ChatClient!TypeOK, ChatClient!PlacesHold, ChatClient!OneAfterTheOther, ChatClient!Threads,
           ChatClient!Pointers
<1>1. CASE ChatClient!Main
  BY <1>1 DEF ChatClient!MainStep, ChatClient!Main, ChatClient!Connect, ChatClient!Create, ChatClient!Join, ChatClient!Over
<1>2. CASE ChatClient!CloseProgram /\ UNCHANGED ChatClient!unchangedByMain
  <2>. USE <1>2, ChatClient!MainStep DEF ChatClient!unchangedByMain, ChatClient!MainStep, ChatClient!CloseProgram
  <2>1. CASE v2 \in {"cancel_writer", "cancel_reader"}
    BY <2>1 DEF ChatClient!PthreadCancel
  <2>2. CASE v2 \in {"close_chat", "close_connection"}
    BY <2>2
  <2>. QED BY <2>1, <2>2
<1>. QED BY <1>1, <1>2 DEF ChatClient!MainStep

\* Nor do the server and the signal change what the threads hold.
LEMMA ClientStep ==
    ASSUME ClientInv, ChatClient!Next
    PROVE  ClientInv'
<1>1. CASE ChatClient!MainStep
  BY <1>1, ClientMainStep
<1>2. CASE ChatClient!ThreadStep
  BY <1>2, WriterStep, ReaderStep DEF ChatClient!ThreadStep
<1>3. CASE ChatClient!ServerCloses
  BY <1>3 DEF ClientInv, ChatClient!ServerCloses, ChatClient!TypeOK, ChatClient!PlacesHold, ChatClient!OneAfterTheOther
<1>4. CASE ChatClient!Sigint /\ UNCHANGED ChatClient!unchangedByMain
  BY <1>4 DEF ClientInv, ChatClient!Sigint, ChatClient!unchangedByMain, ChatClient!TypeOK, ChatClient!PlacesHold,
       ChatClient!OneAfterTheOther
<1>. QED BY <1>1, <1>2, <1>3, <1>4 DEF ChatClient!Next

\* What the invariant says of the property.
LEMMA ClientGivesBack ==
    ASSUME ClientInv
    PROVE  ChatClient!ThreadsGiveBack
BY DEF ClientInv, ChatClient!TypeOK, ChatClient!PlacesHold, ChatClient!OneAfterTheOther, ChatClient!ThreadsGiveBack

-----------------------------------------------------------------------------
(* The green threads; first the queue. *)

\* Min gives the least of a set of naturals that is not empty.
LEMMA MinIsLeast ==
    ASSUME NEW T \in SUBSET Nat, T # {}
    PROVE  Gthreads!Min(T) \in T /\ \A m \in T : Gthreads!Min(T) <= m
BY LeastNatural DEF Gthreads!Min

\* q with x in place k, the entries from there on moved up.
Inserted(q, k, x) == SubSeq(q, 1, k - 1) \o <<x>> \o SubSeq(q, k, Len(q))

\* An insertion moves the entries behind it up.
LEMMA InsertionIs ==
    ASSUME NEW S, NEW q \in Seq(S), NEW x \in S, NEW k \in 1..(Len(q) + 1)
    PROVE  LET r == Inserted(q, k, x)
           IN  /\ r \in Seq(S) /\ DOMAIN r = 1..(Len(q) + 1)
               /\ \A i \in 1..(Len(q) + 1) : r[i] = IF i < k THEN q[i] ELSE IF i = k THEN x ELSE q[i - 1]
<1>. DEFINE front == SubSeq(q, 1, k - 1)  back == SubSeq(q, k, Len(q))
            r == Inserted(q, k, x)
<1>. Len(q) \in Nat /\ DOMAIN q = 1..Len(q) /\ \A i \in 1..Len(q) : q[i] \in S
  BY LenProperties, ElementOfSeq
<1>1. /\ front \in Seq(S) /\ Len(front) = k - 1
      /\ \A i \in 1..(k - 1) : front[i] = q[i]
  <2>1. /\ front \in Seq(S) /\ Len(front) = IF 1 <= k - 1 THEN k - 1 - 1 + 1 ELSE 0
        /\ \A i \in 1..(k - 1 - 1 + 1) : front[i] = q[1 + i - 1]
    BY SubSeqProperties
  <2>. QED BY <2>1
<1>2. /\ back \in Seq(S) /\ Len(back) = Len(q) - k + 1
      /\ \A i \in 1..(Len(q) - k + 1) : back[i] = q[k + i - 1]
  <2>1. /\ back \in Seq(S) /\ Len(back) = IF k <= Len(q) THEN Len(q) - k + 1 ELSE 0
        /\ \A i \in 1..(Len(q) - k + 1) : back[i] = q[k + i - 1]
    BY SubSeqProperties
  <2>. QED BY <2>1
<1>3. <<x>> \in Seq(S) /\ Len(<<x>>) = 1 /\ <<x>>[1] = x
  OBVIOUS
<1>. HIDE DEF front, back
<1>4. /\ front \o <<x>> \in Seq(S) /\ Len(front \o <<x>>) = k
      /\ \A i \in 1..k : (front \o <<x>>)[i] = IF i < k THEN q[i] ELSE x
  BY <1>1, <1>3, ConcatProperties
<1>5. /\ r \in Seq(S) /\ Len(r) = Len(q) + 1
      /\ \A i \in 1..(Len(q) + 1) : r[i] = IF i < k THEN q[i] ELSE IF i = k THEN x ELSE q[i - 1]
  <2>1. r = (front \o <<x>>) \o back
    BY DEF Inserted, front, back
  <2>. HIDE DEF r
  <2>. DEFINE head == front \o <<x>>
  <2>2. head \in Seq(S) /\ Len(head) = k /\ \A i \in 1..k : head[i] = IF i < k THEN q[i] ELSE x
    BY <1>4
  <2>. HIDE DEF head
  <2>3. /\ head \o back \in Seq(S) /\ Len(head \o back) = Len(head) + Len(back)
        /\ \A i \in 1..(Len(head) + Len(back)) :
              (head \o back)[i] = IF i <= Len(head) THEN head[i] ELSE back[i - Len(head)]
    BY <1>2, <2>2, ConcatProperties
  <2>4. r = head \o back
    BY <2>1 DEF head
  <2>5. Len(head) + Len(back) = Len(q) + 1
    BY <1>2, <2>2
  <2>6. ASSUME NEW i \in 1..(Len(q) + 1)
        PROVE  r[i] = IF i < k THEN q[i] ELSE IF i = k THEN x ELSE q[i - 1]
    <3>1. r[i] = IF i <= k THEN head[i] ELSE back[i - k]
      BY <2>2, <2>3, <2>4, <2>5
    <3>2. CASE i <= k
      BY <3>1, <3>2, <2>2
    <3>3. CASE i > k
      <4>. i - k \in 1..(Len(q) - k + 1) /\ k + (i - k) - 1 = i - 1
        BY <3>3
      <4>. QED BY <3>1, <3>3, <1>2
    <3>. QED BY <3>2, <3>3
  <2>. QED BY <2>3, <2>4, <2>5, <2>6
<1>. HIDE DEF r
<1>6. DOMAIN r = 1..(Len(q) + 1)
  BY <1>5, LenProperties
<1>. QED BY <1>5, <1>6 DEF r

\* It adds one entry and keeps the others.
LEMMA InsertionAdds ==
    ASSUME NEW S, NEW q \in Seq(S), Gthreads!IsInjective(q), NEW x \in S, x \notin Gthreads!Range(q),
           NEW k \in 1..(Len(q) + 1)
    PROVE  LET r == Inserted(q, k, x)
           IN  r \in Seq(S) /\ Gthreads!IsInjective(r) /\ Gthreads!Range(r) = Gthreads!Range(q) \cup {x}
<1>. DEFINE r == Inserted(q, k, x)
<1>. Len(q) \in Nat /\ DOMAIN q = 1..Len(q) /\ \A i \in 1..Len(q) : q[i] \in S
  BY LenProperties, ElementOfSeq
<1>1. /\ r \in Seq(S)
      /\ \A i \in 1..(Len(q) + 1) : r[i] = IF i < k THEN q[i] ELSE IF i = k THEN x ELSE q[i - 1]
  BY InsertionIs
<1>2. DOMAIN r = 1..(Len(q) + 1)
  BY InsertionIs
<1>. HIDE DEF r
<1>3. \A i \in 1..Len(q) : q[i] # x
  BY DEF Gthreads!Range
<1>4. Gthreads!IsInjective(r)
  <2>. DEFINE old(i) == IF i < k THEN i ELSE i - 1
  <2>1. SUFFICES ASSUME NEW a \in 1..(Len(q) + 1), NEW b \in 1..(Len(q) + 1), r[a] = r[b]
                 PROVE  a = b
    BY <1>2 DEF Gthreads!IsInjective
  <2>2. \A i \in 1..(Len(q) + 1) : i # k => old(i) \in 1..Len(q) /\ r[i] = q[old(i)]
    BY <1>1
  <2>3. r[k] = x
    BY <1>1
  <2>4. CASE a = k \/ b = k
    BY <2>1, <2>2, <2>3, <2>4, <1>3
  <2>5. CASE a # k /\ b # k
    <3>1. old(a) = old(b)
      <4>. HIDE DEF old
      <4>. QED BY <2>1, <2>2, <2>5 DEF Gthreads!IsInjective
    <3>. QED BY <3>1, <2>5
  <2>. QED BY <2>4, <2>5
<1>5. Gthreads!Range(r) = Gthreads!Range(q) \cup {x}
  <2>1. \A i \in 1..Len(q) : r[IF i < k THEN i ELSE i + 1] = q[i] /\ (IF i < k THEN i ELSE i + 1) \in DOMAIN r
    BY <1>1, <1>2
  <2>2. r[k] = x /\ k \in DOMAIN r
    BY <1>1, <1>2
  <2>3. \A i \in DOMAIN r : r[i] = x \/ \E n \in 1..Len(q) : r[i] = q[n]
    <3>. TAKE i \in DOMAIN r
    <3>1. CASE i < k
      <4>. i \in 1..Len(q)
        BY <1>2, <3>1
      <4>. QED BY <1>1, <3>1
    <3>2. CASE i > k
      <4>. i - 1 \in 1..Len(q) /\ i \in 1..(Len(q) + 1)
        BY <1>2, <3>2
      <4>. QED BY <1>1, <3>2
    <3>3. CASE i = k
      BY <1>1, <3>3
    <3>. QED BY <1>2, <3>1, <3>2, <3>3
  <2>. QED BY <2>1, <2>2, <2>3 DEF Gthreads!Range
<1>. QED BY <1>1, <1>4, <1>5 DEF r

\* Where priqueue_offer puts the entry: at the head, or behind the first entry that lets
\* it, or the last.
Fits(q, x, cmp, i) == cmp[<<q[i], x>>] <= 0 /\ cmp[<<x, q[i + 1]>>] < 0
LEMMA OfferIs ==
    ASSUME NEW S, NEW q \in Seq(S), NEW x \in S, NEW cmp
    PROVE  \/ /\ q = <<>> \/ cmp[<<x, Head(q)>>] < 0
              /\ Gthreads!Offer(q, x, cmp) = Inserted(q, 1, x)
           \/ /\ q # <<>> /\ ~(cmp[<<x, Head(q)>>] < 0)
              /\ \E n \in 1..Len(q) :
                    /\ Gthreads!Offer(q, x, cmp) = Inserted(q, n + 1, x)
                    /\ n = Len(q) \/ Fits(q, x, cmp, n)
                    /\ \A i \in 1..Len(q) : i < n => ~Fits(q, x, cmp, i)
<1>. Len(q) \in Nat
  BY LenProperties
<1>1. CASE q = <<>> \/ cmp[<<x, Head(q)>>] < 0
  <2>1. <<>> \in Seq(S) /\ <<x>> \in Seq(S)
    OBVIOUS
  <2>2. SubSeq(q, 1, 0) = <<>> /\ SubSeq(q, 1, Len(q)) = q
    BY SubSeqEmpty, SubSeqFull
  <2>3. Inserted(q, 1, x) = <<x>> \o q
    BY <2>1, <2>2, ConcatEmptySeq DEF Inserted
  <2>. QED BY <1>1, <2>3 DEF Gthreads!Offer
<1>2. CASE ~(q = <<>> \/ cmp[<<x, Head(q)>>] < 0)
  <2>. DEFINE behind == {i \in 1..Len(q) : i = Len(q) \/ (cmp[<<q[i], x>>] <= 0 /\ cmp[<<x, q[i + 1]>>] < 0)}
              n == Gthreads!Min(behind)
  <2>1. Len(q) \in behind
    BY <1>2, EmptySeq
  <2>2. n \in behind /\ \A i \in behind : n <= i
    <3>1. behind \in SUBSET (1..Len(q)) /\ 1..Len(q) \subseteq Nat
      OBVIOUS
    <3>. HIDE DEF behind
    <3>. QED BY <2>1, <3>1, MinIsLeast
  <2>3. Gthreads!Offer(q, x, cmp) = Inserted(q, n + 1, x)
    <3>1. Gthreads!Offer(q, x, cmp) = SubSeq(q, 1, n) \o <<x>> \o SubSeq(q, n + 1, Len(q))
      BY <1>2 DEF Gthreads!Offer
    <3>. HIDE DEF n
    <3>2. PICK k : k = n + 1
      OBVIOUS
    <3>3. k - 1 = n
      BY <2>2, <3>2
    <3>4. Gthreads!Offer(q, x, cmp) = Inserted(q, k, x)
      BY <3>1, <3>2, <3>3, Zenon DEF Inserted
    <3>. QED BY <3>2, <3>4, Zenon
  <2>. HIDE DEF n
  <2>4. n \in 1..Len(q) /\ (n = Len(q) \/ Fits(q, x, cmp, n))
    BY <2>2 DEF Fits
  <2>5. \A i \in 1..Len(q) : i < n => ~Fits(q, x, cmp, i)
    <3>1. \A i \in 1..Len(q) : Fits(q, x, cmp, i) => i \in behind
      BY DEF Fits
    <3>. HIDE DEF behind
    <3>. QED BY <2>2, <2>4, <3>1
  <2>. QED BY <1>2, <2>3, <2>4, <2>5
<1>. QED BY <1>1, <1>2

\* priqueue_offer adds the entry somewhere.
LEMMA OfferAdds ==
    ASSUME NEW S, NEW q \in Seq(S), Gthreads!IsInjective(q), NEW x \in S, x \notin Gthreads!Range(q), NEW cmp
    PROVE  LET r == Gthreads!Offer(q, x, cmp)
           IN  r \in Seq(S) /\ Gthreads!IsInjective(r) /\ Gthreads!Range(r) = Gthreads!Range(q) \cup {x}
<1>1. Len(q) \in Nat
  BY LenProperties
<1>2. PICK n \in 0..Len(q) : Gthreads!Offer(q, x, cmp) = Inserted(q, n + 1, x)
  <2>1. 0 \in 0..Len(q) /\ 0 + 1 = 1 /\ \A n \in 1..Len(q) : n \in 0..Len(q)
    BY <1>1
  <2>. QED BY <2>1, OfferIs
<1>3. n + 1 \in 1..(Len(q) + 1)
  BY <1>1
<1>. QED BY <1>2, <1>3, InsertionAdds

\* What the library keeps: a queue without a job twice, and the metadata of some jobs.
Queues == {q \in Seq(Gthreads!Jobs) : Gthreads!IsInjective(q)}
Infos == [Gthreads!Jobs -> Gthreads!JobInfo \cup {None}]
Known(m) == {j \in Gthreads!Jobs : m[j] # None}

\* What stands for no job and for main is no job.
LEMMA NoneIsNoJob == None \notin Gthreads!Jobs /\ MainJob \notin Gthreads!Jobs /\ None # MainJob
                     /\ None \notin Gthreads!JobInfo
BY GthreadsAssumption DEF Gthreads!Jobs

\* Polling takes the head away.
LEMMA PolledGives ==
    ASSUME NEW q \in Queues, q # <<>>
    PROVE  /\ Gthreads!Polled(q) \in Queues /\ Head(q) \in Gthreads!Range(q)
           /\ Gthreads!Range(Gthreads!Polled(q)) = Gthreads!Range(q) \ {Head(q)}
<1>. DEFINE t == Tail(q)
<1>. q \in Seq(Gthreads!Jobs) /\ Gthreads!IsInjective(q) /\ Gthreads!Polled(q) = t
  BY DEF Queues, Gthreads!Polled
<1>1. /\ t \in Seq(Gthreads!Jobs) /\ Len(t) = Len(q) - 1 /\ Len(q) \in Nat \ {0}
      /\ \A i \in 1..(Len(q) - 1) : t[i] = q[i + 1]
  BY HeadTailProperties, EmptySeq
<1>2. DOMAIN q = 1..Len(q) /\ DOMAIN t = 1..(Len(q) - 1) /\ Head(q) = q[1]
  BY <1>1, LenProperties
<1>. HIDE DEF t
<1>3. Gthreads!IsInjective(t)
  BY <1>1, <1>2 DEF Gthreads!IsInjective
<1>4. \A i \in 2..Len(q) : q[i] # q[1] /\ (i - 1) \in DOMAIN t /\ t[i - 1] = q[i]
  BY <1>1, <1>2 DEF Gthreads!IsInjective
<1>5. \A i \in DOMAIN t : (i + 1) \in 2..Len(q) /\ t[i] = q[i + 1]
  BY <1>1, <1>2
<1>6. \A i \in DOMAIN q : i = 1 \/ i \in 2..Len(q)
  BY <1>1, <1>2
<1>7. Gthreads!Range(t) \subseteq Gthreads!Range(q) \ {q[1]}
  BY <1>2, <1>4, <1>5, <1>1 DEF Gthreads!Range
<1>8. Gthreads!Range(q) \ {q[1]} \subseteq Gthreads!Range(t)
  BY <1>4, <1>6 DEF Gthreads!Range
<1>9. q[1] \in Gthreads!Range(q)
  BY <1>1, <1>2 DEF Gthreads!Range
<1>. QED BY <1>1, <1>2, <1>3, <1>7, <1>8, <1>9 DEF Queues

\* The job handed out is taken from the queue, and there is none only if it is empty.
LEMMA DispatchGives ==
    ASSUME NEW l, l.queue \in Queues, l.info \in Infos, NEW time \in Int,
           Gthreads!Range(l.queue) \subseteq Known(l.info), NEW d, d = Gthreads!Dispatch(l, time)
    PROVE  /\ d.queue \in Queues /\ d.info \in Infos /\ Known(d.info) = Known(l.info)
           /\ d.run = None => Gthreads!Range(l.queue) = {} /\ d.queue = l.queue
           /\ d.run # None => /\ d.run \in Gthreads!Range(l.queue)
                              /\ Gthreads!Range(d.queue) = Gthreads!Range(l.queue) \ {d.run}
<1>1. CASE l.queue = <<>>
  <2>1. d.queue = l.queue /\ d.run = None /\ d.info = l.info
    BY <1>1 DEF Gthreads!Dispatch, Gthreads!Peek, Gthreads!Polled
  <2>2. Gthreads!Range(l.queue) = {}
    BY <1>1 DEF Gthreads!Range
  <2>. QED BY <2>1, <2>2
<1>2. CASE l.queue # <<>>
  <2>. DEFINE j == Head(l.queue)
              m == [l.info EXCEPT ![j].prev = time,
                                  ![j].first = IF @ = Gthreads!NotRun THEN time ELSE @]
  <2>1. Gthreads!Polled(l.queue) \in Queues /\ j \in Gthreads!Range(l.queue)
        /\ Gthreads!Range(Gthreads!Polled(l.queue)) = Gthreads!Range(l.queue) \ {j}
    BY <1>2, PolledGives
  <2>2. j \in Gthreads!Jobs /\ l.info[j] \in Gthreads!JobInfo
    BY <2>1 DEF Known, Infos
  <2>3. d.queue = Gthreads!Polled(l.queue) /\ d.run = j /\ d.info = m
    BY <1>2, <2>2, NoneIsNoJob DEF Gthreads!Dispatch, Gthreads!Peek
  <2>4. m \in [Gthreads!Jobs -> Gthreads!JobInfo \cup {None}] /\ m[j] \in Gthreads!JobInfo
        /\ \A i \in Gthreads!Jobs \ {j} : m[i] = l.info[i]
    BY <2>2 DEF Infos, Gthreads!JobInfo, Gthreads!NotRun
  <2>. HIDE DEF m, j
  <2>5. Known(m) = Known(l.info)
    BY <2>2, <2>4, NoneIsNoJob DEF Known
  <2>. QED BY <2>1, <2>2, <2>3, <2>4, <2>5, NoneIsNoJob DEF Infos
<1>. QED BY <1>1, <1>2

\* When a quantum expires, the job that ran and those that waited are the job to run and
\* those that wait; the library has none to run only when there is none at all.
LEMMA QuantumGives ==
    ASSUME NEW l, l.queue \in Queues, l.info \in Infos, NEW time \in Int,
           Gthreads!Range(l.queue) \subseteq Known(l.info),
           NEW evicted \in Known(l.info) \cup {None}, evicted \notin Gthreads!Range(l.queue),
           NEW s, s = Gthreads!QuantumExpired(l, evicted, time)
    PROVE  /\ s.queue \in Queues /\ s.info \in Infos /\ Known(s.info) = Known(l.info)
           /\ s.run \in Gthreads!Jobs \cup {None} /\ s.run \notin Gthreads!Range(s.queue)
           /\ Gthreads!Range(s.queue) \cup ({s.run} \ {None})
                 = Gthreads!Range(l.queue) \cup ({evicted} \ {None})
           /\ s.run = None => Gthreads!Range(l.queue) \cup ({evicted} \ {None}) = {}
<1>0. \A q \in Queues : Gthreads!Range(q) \subseteq Gthreads!Jobs
  BY LenProperties, ElementOfSeq DEF Queues, Gthreads!Range
<1>1. CASE evicted = None
  <2>1. s = Gthreads!Dispatch(l, time)
    BY <1>1 DEF Gthreads!QuantumExpired
  <2>2. /\ s.queue \in Queues /\ s.info \in Infos /\ Known(s.info) = Known(l.info)
        /\ s.run = None => Gthreads!Range(l.queue) = {} /\ s.queue = l.queue
        /\ s.run # None => /\ s.run \in Gthreads!Range(l.queue)
                           /\ Gthreads!Range(s.queue) = Gthreads!Range(l.queue) \ {s.run}
    BY <2>1, DispatchGives
  <2>3. {evicted} \ {None} = {}
    BY <1>1
  <2>4. CASE s.run = None
    BY <1>0, <2>2, <2>3, <2>4, NoneIsNoJob
  <2>5. CASE s.run # None
    <3>1. s.run \in Gthreads!Jobs /\ s.run \notin Gthreads!Range(s.queue) /\ {s.run} \ {None} = {s.run}
      BY <1>0, <2>2, <2>5
    <3>. QED BY <2>2, <2>3, <2>5, <3>1
  <2>. QED BY <2>4, <2>5
<1>2. CASE evicted # None
  <2>. DEFINE charged == [l.info EXCEPT ![evicted].executed = @ + time - l.info[evicted].prev,
                                        ![evicted].prev = time]
              requeued == IF v1 = "RR" THEN [charged EXCEPT ![evicted].rr = time] ELSE charged
              offered == Gthreads!Offered(requeued, l.queue, evicted)
              after == [queue |-> offered, info |-> requeued, run |-> None]
  <2>1. evicted \in Gthreads!Jobs /\ l.info[evicted] \in Gthreads!JobInfo
    BY <1>2 DEF Known, Infos
  <2>2. charged \in Infos /\ charged[evicted] \in Gthreads!JobInfo
        /\ \A i \in Gthreads!Jobs \ {evicted} : charged[i] = l.info[i]
    BY <2>1 DEF Infos, Gthreads!JobInfo
  <2>3. \/ s = [queue |-> l.queue, info |-> charged, run |-> evicted]
        \/ s = Gthreads!Dispatch(after, time)
    BY <1>2 DEF Gthreads!QuantumExpired
  <2>. HIDE DEF charged
  <2>4. requeued \in Infos /\ requeued[evicted] \in Gthreads!JobInfo
        /\ \A i \in Gthreads!Jobs \ {evicted} : requeued[i] = l.info[i]
    BY <2>1, <2>2 DEF Infos, Gthreads!JobInfo
  <2>. HIDE DEF requeued
  <2>5. Known(charged) = Known(l.info) /\ Known(requeued) = Known(l.info)
    BY <2>1, <2>2, <2>4, NoneIsNoJob DEF Known
  <2>6. offered \in Queues /\ Gthreads!Range(offered) = Gthreads!Range(l.queue) \cup {evicted}
    BY <2>1, OfferAdds DEF Queues, Gthreads!Offered
  <2>7. CASE s = [queue |-> l.queue, info |-> charged, run |-> evicted]
    <3>1. s.queue = l.queue /\ s.info = charged /\ s.run = evicted
      BY <2>7
    <3>. QED BY <1>2, <2>1, <2>2, <2>5, <3>1
  <2>8. CASE s = Gthreads!Dispatch(after, time)
    <3>1. after.queue = offered /\ after.info = requeued
      OBVIOUS
    <3>. HIDE DEF after, offered
    <3>2. Gthreads!Range(offered) \subseteq Known(requeued)
      BY <2>1, <2>5, <2>6, <1>2
    <3>3. /\ s.queue \in Queues /\ s.info \in Infos /\ Known(s.info) = Known(requeued)
          /\ s.run = None => Gthreads!Range(offered) = {} /\ s.queue = offered
          /\ s.run # None => /\ s.run \in Gthreads!Range(offered)
                             /\ Gthreads!Range(s.queue) = Gthreads!Range(offered) \ {s.run}
      <4>1. after.queue \in Queues /\ after.info \in Infos /\ Gthreads!Range(after.queue) \subseteq Known(after.info)
        BY <2>4, <2>6, <3>1, <3>2
      <4>2. /\ s.queue \in Queues /\ s.info \in Infos /\ Known(s.info) = Known(after.info)
            /\ s.run = None => Gthreads!Range(after.queue) = {} /\ s.queue = after.queue
            /\ s.run # None => /\ s.run \in Gthreads!Range(after.queue)
                               /\ Gthreads!Range(s.queue) = Gthreads!Range(after.queue) \ {s.run}
        BY <2>8, <4>1, DispatchGives
      <4>. QED BY <3>1, <4>2
    <3>4. {evicted} \ {None} = {evicted} /\ s.run # None
      BY <1>2, <2>6, <3>3
    <3>5. s.run \in Gthreads!Jobs /\ s.run \notin Gthreads!Range(s.queue) /\ {s.run} \ {None} = {s.run}
      BY <1>0, <2>6, <3>3, <3>4
    <3>. QED BY <2>5, <2>6, <3>3, <3>4, <3>5
  <2>. QED BY <2>3, <2>7, <2>8
<1>. QED BY <1>1, <1>2

\* A switch, on the stack of `me`.
LEMMA SwitchShares ==
    ASSUME NEW l, l.queue \in Queues, l.info \in Infos, NEW time \in Int,
           Gthreads!Range(l.queue) \subseteq Known(l.info),
           NEW me \in Known(l.info) \cup {MainJob}, me \notin Gthreads!Range(l.queue),
           NEW susp, Gthreads!SwitchFrom(l, me, susp, time)
    PROVE  /\ v3' \in Queues /\ v4' \in Infos /\ Known(v4') = Known(l.info)
           /\ v6' \in Gthreads!Jobs \cup {MainJob} /\ v6' \notin Gthreads!Range(v3')
           /\ Gthreads!Range(v3') \cup ({v6'} \ {MainJob}) = Gthreads!Range(l.queue) \cup ({me} \ {MainJob})
           /\ v6' = MainJob => Gthreads!Range(l.queue) \cup ({me} \ {MainJob}) = {}
           /\ v7' = susp
<1>. DEFINE evicted == IF me = MainJob THEN None ELSE me
            s == Gthreads!QuantumExpired(l, evicted, time)
<1>0. \A q \in Queues : Gthreads!Range(q) \subseteq Gthreads!Jobs
  BY LenProperties, ElementOfSeq DEF Queues, Gthreads!Range
<1>1. evicted \in Known(l.info) \cup {None} /\ evicted \notin Gthreads!Range(l.queue)
      /\ {evicted} \ {None} = {me} \ {MainJob}
  BY <1>0, NoneIsNoJob DEF Known
<1>2. v3' = s.queue /\ v4' = s.info /\ v6' = (IF s.run = None THEN MainJob ELSE s.run) /\ v7' = susp
  BY DEF Gthreads!SwitchFrom
<1>. HIDE DEF evicted
<1>3. /\ s.queue \in Queues /\ s.info \in Infos /\ Known(s.info) = Known(l.info)
      /\ s.run \in Gthreads!Jobs \cup {None} /\ s.run \notin Gthreads!Range(s.queue)
      /\ Gthreads!Range(s.queue) \cup ({s.run} \ {None})
            = Gthreads!Range(l.queue) \cup ({evicted} \ {None})
      /\ s.run = None => Gthreads!Range(l.queue) \cup ({evicted} \ {None}) = {}
  BY <1>1, QuantumGives
<1>. HIDE DEF s
<1>. QED BY <1>0, <1>1, <1>2, <1>3, NoneIsNoJob

\* The jobs of P, each in one place; those of I, too, have metadata.
Places(q, m, running, suspended, P, I) ==
    /\ q \in Queues /\ m \in Infos /\ Known(m) = P \cup I
    /\ running \in Gthreads!Jobs \cup {MainJob} /\ suspended \in Gthreads!Jobs \cup {MainJob, None}
    /\ Gthreads!Range(q) \cup ({running, suspended} \cap Gthreads!Jobs) = P
    /\ {running, suspended} \cap Gthreads!Range(q) = {}
    /\ running \in Gthreads!Jobs => running # suspended
    /\ suspended \in Gthreads!Jobs => running = MainJob

\* gtyield loses none and doubles none: it overwrites `suspended` only on the stack of a
\* job, or of the main thread when nothing is suspended.
LEMMA YieldShares ==
    ASSUME NEW P, NEW I, Places(v3, v4, v6, v7, P, I), NEW time \in Int, NEW sig, Gthreads!Yield(sig, time)
    PROVE  /\ Places(v3', v4', v6', v7', P, I)
           /\ v6 = MainJob /\ v7 = None /\ sig = "none" /\ v6' = MainJob => P = {}
<1>. DEFINE l == Gthreads!Library
<1>0. \A q \in Queues : Gthreads!Range(q) \subseteq Gthreads!Jobs
  BY LenProperties, ElementOfSeq DEF Queues, Gthreads!Range
<1>1. l.queue = v3 /\ l.info = v4 /\ l.queue \in Queues /\ l.info \in Infos
      /\ Gthreads!Range(l.queue) \subseteq Known(l.info)
  BY DEF Gthreads!Library, Places
<1>. HIDE DEF l
<1>2. ASSUME NEW me \in Known(v4) \cup {MainJob}, me \notin Gthreads!Range(v3), NEW susp,
             Gthreads!SwitchFrom(l, me, susp, time)
      PROVE  /\ v3' \in Queues /\ v4' \in Infos /\ Known(v4') = Known(v4)
             /\ v6' \in Gthreads!Jobs \cup {MainJob} /\ v6' \notin Gthreads!Range(v3')
             /\ Gthreads!Range(v3') \cup ({v6'} \ {MainJob}) = Gthreads!Range(v3) \cup ({me} \ {MainJob})
             /\ v6' = MainJob => Gthreads!Range(v3) \cup ({me} \ {MainJob}) = {}
             /\ v7' = susp
  BY <1>1, <1>2, SwitchShares
<1>. USE <1>0, NoneIsNoJob
<1>3. CASE Gthreads!YieldToSuspended(time)
  <2>1. v6 = MainJob /\ v7 # None
    BY <1>3 DEF Gthreads!YieldToSuspended
  <2>2. CASE v7 = MainJob
    BY <1>3, <2>1, <2>2 DEF Gthreads!YieldToSuspended, Places, Gthreads!lib
  <2>3. CASE v7 # MainJob
    <3>1. Gthreads!SwitchFrom(l, v7, None, time)
      BY <1>3, <2>3 DEF Gthreads!YieldToSuspended, l
    <3>2. v7 \in Known(v4) /\ v7 \notin Gthreads!Range(v3) /\ v7 \in Gthreads!Jobs
      BY <2>1, <2>3 DEF Places
    <3>. QED BY <1>2, <2>1, <3>1, <3>2 DEF Places
  <2>. QED BY <2>2, <2>3
<1>4. CASE Gthreads!YieldToMain(sig, time)
  <2>1. ~(v6 = MainJob /\ v7 # None) /\ sig \in {"SIGALRM", "GTSLEEP"}
    BY <1>4 DEF Gthreads!YieldToMain, Gthreads!Interrupts
  <2>2. CASE v6 = MainJob
    <3>1. Gthreads!SwitchFrom(l, MainJob, MainJob, time)
      BY <1>4, <2>2 DEF Gthreads!YieldToMain, l
    <3>2. MainJob \notin Gthreads!Range(v3)
      BY DEF Places
    <3>. QED BY <1>2, <2>1, <2>2, <3>1, <3>2 DEF Places
  <2>3. CASE v6 # MainJob
    BY <1>4, <2>1, <2>3 DEF Gthreads!YieldToMain, Places, Gthreads!lib
  <2>. QED BY <2>2, <2>3
<1>5. CASE Gthreads!YieldToScheduler(sig, time)
  <2>1. ~(v6 = MainJob /\ v7 # None) /\ Gthreads!SwitchFrom(l, v6, v7, time)
    BY <1>5 DEF Gthreads!YieldToScheduler, l
  <2>2. v6 \in Known(v4) \cup {MainJob} /\ v6 \notin Gthreads!Range(v3)
    BY DEF Places
  <2>3. /\ v3' \in Queues /\ v4' \in Infos /\ Known(v4') = Known(v4)
        /\ v6' \in Gthreads!Jobs \cup {MainJob} /\ v6' \notin Gthreads!Range(v3')
        /\ Gthreads!Range(v3') \cup ({v6'} \ {MainJob}) = Gthreads!Range(v3) \cup ({v6} \ {MainJob})
        /\ v6' = MainJob => Gthreads!Range(v3) \cup ({v6} \ {MainJob}) = {}
        /\ v7' = v7
    BY <1>2, <2>1, <2>2
  <2>. QED BY <2>1, <2>3 DEF Places
<1>. QED BY <1>3, <1>4, <1>5 DEF Gthreads!Yield

GthreadsInv ==
    Gthreads!TypeOK /\ Gthreads!JobsAreShared /\ Gthreads!SuspendedBesideMain /\ Gthreads!ExitsAtTheEnd

\* The invariant says that the jobs that are present are each in one place.
Counts ==
    /\ v2 \in [Gthreads!Jobs -> [runtime : Nat, priority : Int, length : Nat]]
    /\ v5 \in Nat /\ v10 \in 0..NJobs /\ Gthreads!OnItsWay \subseteq Gthreads!Jobs
    /\ v16 \subseteq (1..v10) \ Gthreads!OnItsWay
    /\ v13 = "exited" => Gthreads!Present = {}
InPlaces == Places(v3, v4, v6, v7, Gthreads!Present, Gthreads!Informed)
LEMMA InvIsPlaces == GthreadsInv <=> Counts /\ InPlaces
<1>1. ASSUME Counts
      PROVE  Gthreads!Present \subseteq Gthreads!Jobs /\ Gthreads!Informed \subseteq Gthreads!Jobs
  <2>1. Gthreads!Informed \subseteq Gthreads!Jobs
    BY <1>1 DEF Counts, Gthreads!Informed
  <2>2. Gthreads!Present \subseteq Gthreads!Jobs
    BY <1>1, GthreadsAssumption DEF Counts, Gthreads!Present, Gthreads!Jobs
  <2>. QED BY <2>1, <2>2
<1>. QED BY <1>1 DEF GthreadsInv, Counts, InPlaces, Places, Queues, Infos, Known, Gthreads!TypeOK,
     Gthreads!JobsAreShared, Gthreads!SuspendedBesideMain, Gthreads!ExitsAtTheEnd

\* No job has been created.
LEMMA GthreadsInit ==
    ASSUME Gthreads!Init
    PROVE  GthreadsInv
<1>. USE NoneIsNoJob DEF Gthreads!Init
<1>1. v2 \in [Gthreads!Jobs -> [runtime : Nat, priority : Int, length : Nat]]
  BY GthreadsAssumption DEF Gthreads!Jobs
<1>2. Gthreads!Present = {} /\ Gthreads!OnItsWay = {} /\ Gthreads!Informed = {}
  BY DEF Gthreads!Present, Gthreads!OnItsWay, Gthreads!Informed
<1>3. v3 = <<>> /\ v3 \in Queues /\ Gthreads!Range(v3) = {}
  BY DEF Queues, Gthreads!IsInjective, Gthreads!Range
<1>4. Counts
  BY <1>1, <1>2, GthreadsAssumption DEF Counts
<1>5. InPlaces
  BY <1>2, <1>3 DEF InPlaces, Places, Infos, Known
<1>. QED BY <1>4, <1>5, InvIsPlaces

\* NextQuantum goes on.
LEMMA QuantumPasses ==
    ASSUME NEW time \in Nat
    PROVE  Gthreads!NextQuantum(time) \in Nat /\ time <= Gthreads!NextQuantum(time)
<1>. DEFINE beyond == (time + 1) % Gthreads!OneSecond = Second
<1>1. Second \in Nat /\ Gthreads!OneSecond = 10 * Second
  BY GthreadsAssumption DEF Gthreads!OneSecond
<1>2. Gthreads!NextQuantum(time) = IF beyond THEN time + 1 + Gthreads!OneSecond - Second ELSE time + 1
  BY DEF Gthreads!NextQuantum
<1>. HIDE DEF beyond
<1>. QED BY <1>1, <1>2

\* gtgo's first step and its last, and gtret's call, leave every job where it is.
LEMMA CountsStep ==
    ASSUME GthreadsInv, Gthreads!GtgoCounts
    PROVE  GthreadsInv'
<1>0. Counts /\ InPlaces
  BY InvIsPlaces
<1>1. /\ v13 = "spawning" /\ v13' = "counted" /\ v10 < NJobs /\ v10' = v10 + 1
      /\ UNCHANGED <<v2, v3, v4, v5, v6, v7, v16>>
  BY DEF Gthreads!GtgoCounts, Gthreads!GtgoStep, Gthreads!lib
<1>2. v10 \in Nat /\ v10' \in 0..NJobs /\ v10' \in Gthreads!Jobs
  BY <1>0, <1>1, GthreadsAssumption DEF Counts, Gthreads!Jobs
<1>3. Gthreads!OnItsWay = {} /\ Gthreads!Informed = {} /\ Gthreads!OnItsWay' = {v10'} /\ Gthreads!Informed' = {}
  BY <1>1 DEF Gthreads!OnItsWay, Gthreads!Informed
<1>4. (1..v10') \ {v10'} = 1..v10
  BY <1>1, <1>2
<1>5. Gthreads!Present' = Gthreads!Present
  BY <1>1, <1>3, <1>4 DEF Gthreads!Present
<1>6. Counts'
  BY <1>0, <1>1, <1>2, <1>3, <1>4 DEF Counts
<1>7. InPlaces'
  BY <1>0, <1>1, <1>3, <1>5 DEF InPlaces, Places
<1>. QED BY <1>6, <1>7, InvIsPlaces, PTL

\* What gtgo tells the library of the job it makes.
NewIsThat(new, j) ==
    /\ new \in Gthreads!JobInfo /\ new.arrival = v5 /\ new.rr = v5
    /\ new.runtime = v2[j].runtime * Gthreads!OneSecond
LEMMA NewInfoIs ==
    ASSUME Counts, NEW j \in Gthreads!Jobs
    PROVE  NewIsThat(Gthreads!NewInfo(j, v5), j)
<1>1. v2[j].runtime * Gthreads!OneSecond \in Int /\ v2[j].priority \in Int /\ v5 \in Int
  BY GthreadsAssumption DEF Counts, Gthreads!OneSecond
<1>. QED BY <1>1 DEF NewIsThat, Gthreads!NewInfo, Gthreads!JobInfo, Gthreads!NotRun

\* Then it has metadata, and the others have theirs.
LEMMA InformsGives ==
    ASSUME Counts, InPlaces, Gthreads!GtgoInforms
    PROVE  /\ v10 \in Gthreads!Jobs /\ v10 \notin Gthreads!Present /\ v10 \notin Known(v4)
           /\ Known(v4) = Gthreads!Present
           /\ v4' \in Infos /\ Known(v4') = Known(v4) \cup {v10} /\ NewIsThat(v4'[v10], v10)
           /\ \A i \in Known(v4) : v4'[i] = v4[i]
<1>1. v13 = "counted" /\ v4' = [v4 EXCEPT ![v10] = Gthreads!NewInfo(v10, v5)]
  BY DEF Gthreads!GtgoInforms, Gthreads!GtgoStep
<1>2. Gthreads!OnItsWay = {v10} /\ Gthreads!Informed = {}
  BY <1>1 DEF Gthreads!OnItsWay, Gthreads!Informed
<1>3. v10 \in Gthreads!Jobs /\ v10 \notin Gthreads!Present /\ Known(v4) = Gthreads!Present
  BY <1>2 DEF Counts, Gthreads!Present, InPlaces, Places
<1>4. NewIsThat(Gthreads!NewInfo(v10, v5), v10)
  BY <1>3, NewInfoIs
<1>5. v4 \in Infos /\ Gthreads!NewInfo(v10, v5) \in Gthreads!JobInfo
  BY <1>4 DEF InPlaces, Places, NewIsThat
<1>6. v4' \in Infos /\ v4'[v10] = Gthreads!NewInfo(v10, v5) /\ \A i \in Gthreads!Jobs \ {v10} : v4'[i] = v4[i]
  BY <1>1, <1>3, <1>5 DEF Infos
<1>7. Known(v4') = Known(v4) \cup {v10}
  BY <1>3, <1>5, <1>6, NoneIsNoJob DEF Known
<1>. QED BY <1>3, <1>4, <1>6, <1>7 DEF Known

\* The metadata of the job on its way.
LEMMA InformsStep ==
    ASSUME GthreadsInv, Gthreads!GtgoInforms
    PROVE  GthreadsInv'
<1>0. Counts /\ InPlaces
  BY InvIsPlaces
<1>1. v13 = "counted" /\ v13' = "informed" /\ UNCHANGED <<v2, v3, v5, v6, v7, v10, v16>>
  BY DEF Gthreads!GtgoInforms, Gthreads!GtgoStep, Gthreads!threads
<1>2. Gthreads!OnItsWay = {v10} /\ Gthreads!OnItsWay' = {v10} /\ Gthreads!Informed' = {v10}
  BY <1>1 DEF Gthreads!OnItsWay, Gthreads!Informed
<1>3. Gthreads!Present' = Gthreads!Present
  BY <1>1, <1>2 DEF Gthreads!Present
<1>4. v4' \in Infos /\ Known(v4') = Gthreads!Present \cup {v10}
  BY <1>0, InformsGives
<1>5. Counts'
  BY <1>0, <1>1, <1>2 DEF Counts
<1>6. InPlaces'
  BY <1>0, <1>1, <1>2, <1>3, <1>4 DEF InPlaces, Places
<1>. QED BY <1>5, <1>6, InvIsPlaces, PTL

\* The job gtgo links in is known and in no place.
LEMMA LinksFrom ==
    ASSUME Counts, InPlaces, v13 = "offering"
    PROVE  /\ Gthreads!OnItsWay = {v10} /\ Known(v4) = Gthreads!Present \cup {v10}
           /\ v10 \in Gthreads!Jobs /\ v10 \notin Gthreads!Present /\ v10 \notin Gthreads!Range(v3)
           /\ v10 \notin {v6, v7} /\ v10 \in 1..v10 /\ v10 \notin v16
<1>1. Gthreads!OnItsWay = {v10} /\ Gthreads!Informed = {v10}
  BY DEF Gthreads!OnItsWay, Gthreads!Informed
<1>2. v10 \in Gthreads!Jobs /\ v10 \notin Gthreads!Present /\ v10 \notin v16
  BY <1>1 DEF Counts, Gthreads!Present
<1>3. v10 \in 1..v10
  BY <1>2, GthreadsAssumption DEF Gthreads!Jobs
<1>. QED BY <1>1, <1>2, <1>3 DEF InPlaces, Places

\* Linking it in: from here on it is present, in the queue.
LEMMA LinksStep ==
    ASSUME GthreadsInv, Gthreads!OfferLinks
    PROVE  GthreadsInv'
<1>0. Counts /\ InPlaces
  BY InvIsPlaces
<1>1. /\ v13 = "offering" /\ v13' = "offered" /\ UNCHANGED <<v2, v4, v5, v6, v7, v10, v16>>
      /\ v3' = Gthreads!Offered(v4, v3, v10)
  BY DEF Gthreads!OfferLinks, Gthreads!GtgoStep
<1>2. /\ Gthreads!OnItsWay = {v10} /\ Known(v4) = Gthreads!Present \cup {v10}
      /\ v10 \in Gthreads!Jobs /\ v10 \notin Gthreads!Present /\ v10 \notin Gthreads!Range(v3)
      /\ v10 \notin {v6, v7} /\ v10 \in 1..v10 /\ v10 \notin v16
  BY <1>0, <1>1, LinksFrom
<1>3. Gthreads!OnItsWay' = {} /\ Gthreads!Informed' = {}
  BY <1>1 DEF Gthreads!OnItsWay, Gthreads!Informed
<1>4. Gthreads!Present' = Gthreads!Present \cup {v10}
  BY <1>1, <1>2, <1>3 DEF Gthreads!Present
<1>5. v3 \in Queues
  BY <1>0 DEF InPlaces, Places
<1>6. v3' \in Queues /\ Gthreads!Range(v3') = Gthreads!Range(v3) \cup {v10}
  BY <1>1, <1>2, <1>5, OfferAdds DEF Queues, Gthreads!Offered
<1>7. Counts'
  BY <1>0, <1>1, <1>2, <1>3 DEF Counts
<1>8. InPlaces'
  BY <1>0, <1>1, <1>2, <1>3, <1>4, <1>6 DEF InPlaces, Places
<1>. QED BY <1>7, <1>8, InvIsPlaces, PTL

\* A step of main's that leaves the jobs and the list alone.
LEMMA AsideStep ==
    ASSUME GthreadsInv, Gthreads!OfferLooks \/ Gthreads!GtgoSetsUp \/ Gthreads!CallGtret
    PROVE  GthreadsInv'
<1>0. Counts /\ InPlaces
  BY InvIsPlaces
<1>1. /\ UNCHANGED <<v2, v3, v4, v5, v6, v7, v10, v16>>
      /\ \/ v13 = "informed" /\ v13' = "offering"
         \/ v13 = "offered" /\ v13' = "spawning"
         \/ v13 = "spawning" /\ v13' = "gtret"
  BY DEF Gthreads!OfferLooks, Gthreads!GtgoSetsUp, Gthreads!CallGtret, Gthreads!GtgoStep, Gthreads!lib,
     Gthreads!threads
<1>2. Gthreads!OnItsWay' = Gthreads!OnItsWay /\ Gthreads!Informed' = Gthreads!Informed
  BY <1>1 DEF Gthreads!OnItsWay, Gthreads!Informed
<1>3. Gthreads!Present' = Gthreads!Present
  BY <1>1, <1>2 DEF Gthreads!Present
<1>4. Counts'
  BY <1>0, <1>1, <1>2 DEF Counts
<1>5. InPlaces'
  BY <1>0, <1>1, <1>2, <1>3 DEF InPlaces, Places
<1>. QED BY <1>4, <1>5, InvIsPlaces, PTL

\* A step that yields and creates and ends no job.
LEMMA YieldStep ==
    ASSUME GthreadsInv, NEW time \in Int, NEW sig, Gthreads!Yield(sig, time),
           v5' \in Nat, UNCHANGED <<v2, v10, v16>>,
           \/ v13' = v13 /\ v13 # "exited"
           \/ /\ v13 = "gtret" /\ v13' = "exited"
              /\ sig = "none" /\ v6 = MainJob /\ v7 = None /\ v6' = MainJob
    PROVE  GthreadsInv'
<1>0. Counts /\ InPlaces
  BY InvIsPlaces
<1>1. /\ Places(v3', v4', v6', v7', Gthreads!Present, Gthreads!Informed)
      /\ v6 = MainJob /\ v7 = None /\ sig = "none" /\ v6' = MainJob => Gthreads!Present = {}
  BY <1>0, YieldShares DEF InPlaces
<1>2. Gthreads!OnItsWay' = Gthreads!OnItsWay /\ Gthreads!Informed' = Gthreads!Informed
  BY DEF Gthreads!OnItsWay, Gthreads!Informed
<1>3. Gthreads!Present' = Gthreads!Present
  BY <1>2 DEF Gthreads!Present
<1>4. Counts'
  BY <1>0, <1>1, <1>2, <1>3 DEF Counts
<1>5. InPlaces'
  BY <1>1, <1>2, <1>3 DEF InPlaces
<1>. QED BY <1>4, <1>5, InvIsPlaces, PTL

\* gtret(-1) frees the metadata of the job that ends, and the library hands out another.
LEMMA StopStep ==
    ASSUME GthreadsInv, Gthreads!GtStop
    PROVE  GthreadsInv'
<1>. DEFINE l == [Gthreads!Library EXCEPT !.info[v6] = None]
<1>. USE NoneIsNoJob
<1>0. Counts /\ InPlaces
  BY InvIsPlaces
<1>1. /\ v6 # MainJob /\ v16' = v16 \cup {v6} /\ Gthreads!SwitchFrom(l, MainJob, v7, v5)
      /\ v2' = v2 /\ v5' = v5 /\ v10' = v10 /\ v13' = v13 /\ v13 # "exited"
  BY DEF Gthreads!GtStop, Gthreads!Running
<1>2. v6 \in Gthreads!Jobs /\ v6 \in Gthreads!Present /\ v7 \notin Gthreads!Jobs
  BY <1>0, <1>1 DEF InPlaces, Places
<1>3. l.queue = v3 /\ l.info = [v4 EXCEPT ![v6] = None]
  BY DEF Gthreads!Library
<1>4. l.info \in Infos /\ Known(l.info) = Known(v4) \ {v6}
  BY <1>0, <1>2, <1>3 DEF InPlaces, Places, Infos, Known
<1>. HIDE DEF l
<1>5. /\ v3 \in Queues /\ Gthreads!Range(v3) = Gthreads!Present \ {v6}
      /\ Known(v4) = Gthreads!Present \cup Gthreads!Informed
  BY <1>0, <1>2 DEF InPlaces, Places
<1>6. MainJob \notin Gthreads!Range(v3) /\ v5 \in Int
  BY <1>0, <1>5 DEF Counts, InPlaces, Places, Known
<1>7. /\ v3' \in Queues /\ v4' \in Infos /\ Known(v4') = Known(l.info)
      /\ v6' \in Gthreads!Jobs \cup {MainJob} /\ v6' \notin Gthreads!Range(v3')
      /\ Gthreads!Range(v3') \cup ({v6'} \ {MainJob}) = Gthreads!Range(v3)
      /\ v7' = v7
  <2>1. Gthreads!Range(v3) \subseteq Known(l.info)
    BY <1>4, <1>5
  <2>. QED BY <1>1, <1>3, <1>4, <1>5, <1>6, <2>1, SwitchShares
<1>8. Gthreads!OnItsWay' = Gthreads!OnItsWay /\ Gthreads!Informed' = Gthreads!Informed
  BY <1>1 DEF Gthreads!OnItsWay, Gthreads!Informed
<1>9. Gthreads!Present' = Gthreads!Present \ {v6} /\ v6 \notin Gthreads!Informed
  BY <1>1, <1>2, <1>8 DEF Gthreads!Present, Gthreads!Informed
<1>10. Counts'
  BY <1>0, <1>1, <1>2, <1>8, <1>9 DEF Counts, Gthreads!Present
<1>11. \A q \in Queues : Gthreads!Range(q) \subseteq Gthreads!Jobs
  BY LenProperties, ElementOfSeq DEF Queues, Gthreads!Range
<1>12. Places(v3', v4', v6', v7', Gthreads!Present \ {v6}, Gthreads!Informed)
  BY <1>0, <1>2, <1>4, <1>5, <1>7, <1>9, <1>11 DEF InPlaces, Places
<1>13. InPlaces'
  BY <1>8, <1>9, <1>12 DEF InPlaces
<1>. QED BY <1>10, <1>13, InvIsPlaces, PTL

\* The step of a quantum in the main thread.
LEMMA MainQuantumIs ==
    ASSUME v5 \in Nat, Gthreads!QuantumInMain
    PROVE  /\ \E time \in Nat, sig \in {"SIGALRM", "GTSLEEP"} :
                 v5 <= time /\ v5' = time /\ Gthreads!Yield(sig, time)
           /\ v13' = v13 /\ v13 # "exited" /\ UNCHANGED <<v1, v2, v10, v16>>
<1>1. v13' = v13 /\ v13 # "exited" /\ UNCHANGED <<v1, v2, v10, v16>>
  BY DEF Gthreads!QuantumInMain, Gthreads!Running
<1>2. \/ v5' = Gthreads!NextQuantum(v5) /\ Gthreads!Yield("SIGALRM", Gthreads!NextQuantum(v5))
      \/ \E time \in {v5, Gthreads!NextQuantum(v5)} : v5' = time /\ Gthreads!Yield("GTSLEEP", time)
  BY Zenon DEF Gthreads!QuantumInMain
<1>3. Gthreads!NextQuantum(v5) \in Nat /\ v5 <= Gthreads!NextQuantum(v5) /\ v5 <= v5
  BY QuantumPasses
<1>. QED BY <1>1, <1>2, <1>3

\* Every step of the green threads keeps their invariant.
LEMMA GthreadsStep ==
    ASSUME GthreadsInv, Gthreads!Next
    PROVE  GthreadsInv'
<1>0. v5 \in Nat
  BY DEF GthreadsInv, Gthreads!TypeOK
<1>1. CASE Gthreads!Gtgo \/ Gthreads!CallGtret
  BY <1>1, CountsStep, InformsStep, LinksStep, AsideStep DEF Gthreads!Gtgo
<1>3. CASE Gthreads!GtretYields
  <2>1. /\ Gthreads!Yield("none", v5) /\ v6 = MainJob /\ v13 = "gtret" /\ UNCHANGED <<v2, v5, v10, v16>>
        /\ v13' = IF v7 = None /\ v6' = MainJob THEN "exited" ELSE v13
    BY <1>3 DEF Gthreads!GtretYields, Gthreads!Running
  <2>. QED BY <1>0, <2>1, YieldStep
<1>4. CASE Gthreads!QuantumInMain
  <2>1. PICK time \in Nat, sig \in {"SIGALRM", "GTSLEEP"} : v5' = time /\ Gthreads!Yield(sig, time)
    BY <1>0, <1>4, MainQuantumIs
  <2>2. v13' = v13 /\ v13 # "exited" /\ UNCHANGED <<v2, v10, v16>> /\ time \in Int
    BY <1>0, <1>4, MainQuantumIs
  <2>. QED BY <2>1, <2>2, YieldStep
<1>5. CASE Gthreads!AlarmInJob
  <2>1. /\ Gthreads!Yield("SIGALRM", Gthreads!NextQuantum(v5)) /\ v5' = Gthreads!NextQuantum(v5)
        /\ UNCHANGED <<v2, v10, v13, v16>> /\ v13 # "exited"
    BY <1>5 DEF Gthreads!AlarmInJob, Gthreads!Running
  <2>2. Gthreads!NextQuantum(v5) \in Nat /\ Gthreads!NextQuantum(v5) \in Int
    BY <1>0, QuantumPasses
  <2>. QED BY <2>1, <2>2, YieldStep
<1>6. CASE Gthreads!GtStop
  BY <1>6, StopStep
<1>. QED BY <1>1, <1>3, <1>4, <1>5, <1>6 DEF Gthreads!Next, Gthreads!MainStep, Gthreads!JobStep

\* The module's Cardinality is the library's.
LEMMA SameCardinality == \A S : Gthreads!Cardinality(S) = Cardinality(S)
BY DEF Gthreads!Cardinality, Cardinality, Gthreads!IsFiniteSet, IsFiniteSet

\* A job of the queue is there once, for no two entries are the same.
LEMMA GthreadsShares ==
    ASSUME GthreadsInv
    PROVE  Gthreads!JobsAreInOnePlace
<1>. USE NoneIsNoJob
<1>0. Counts /\ InPlaces
  BY InvIsPlaces
<1>1. ASSUME NEW j \in Gthreads!Jobs
      PROVE  /\ Gthreads!Occurrences(j) = IF j \in Gthreads!Present THEN 1 ELSE 0
             /\ v4[j] # None <=> j \in Gthreads!Present \/ j \in Gthreads!Informed
             /\ j \in Gthreads!Present <=> j <= v10 /\ j \notin v16 /\ j \notin Gthreads!OnItsWay
  <2>. DEFINE at == {i \in DOMAIN v3 : v3[i] = j}
  <2>1. ASSUME j \in Gthreads!Range(v3)
        PROVE  Gthreads!Occurrences(j) = IF j \in Gthreads!Present THEN 1 ELSE 0
    <3>1. PICK i \in DOMAIN v3 : at = {i}
      BY <1>0, <2>1 DEF InPlaces, Places, Queues, Gthreads!Range, Gthreads!IsInjective
    <3>2. Gthreads!Cardinality(at) = 1
      <4>. HIDE DEF at
      <4>. QED BY <3>1, FS_Singleton, SameCardinality
    <3>3. j # v6 /\ j # v7 /\ j \in Gthreads!Present
      BY <1>0, <2>1 DEF InPlaces, Places
    <3>. QED BY <3>2, <3>3, <2>1 DEF Gthreads!Occurrences
  <2>2. ASSUME j \notin Gthreads!Range(v3)
        PROVE  Gthreads!Occurrences(j) = IF j \in Gthreads!Present THEN 1 ELSE 0
    <3>1. Gthreads!Cardinality(at) = 0
      <4>. at = {}
        BY <2>2 DEF Gthreads!Range
      <4>. HIDE DEF at
      <4>. QED BY FS_EmptySet, SameCardinality
    <3>. HIDE DEF at
    <3>2. Gthreads!Occurrences(j) = (IF v6 = j THEN 1 ELSE 0) + (IF v7 = j THEN 1 ELSE 0)
      BY <3>1 DEF Gthreads!Occurrences, at
    <3>3. j \in Gthreads!Present <=> j \in {v6, v7}
      BY <1>0, <2>2 DEF InPlaces, Places
    <3>4. ~(j = v6 /\ j = v7)
      BY <1>0 DEF InPlaces, Places
    <3>. QED BY <3>2, <3>3, <3>4
  <2>3. v4[j] # None <=> j \in Gthreads!Present \/ j \in Gthreads!Informed
    BY <1>0 DEF InPlaces, Places, Known
  <2>4. j \in Gthreads!Present <=> j <= v10 /\ j \notin v16 /\ j \notin Gthreads!OnItsWay
    BY <1>0, GthreadsAssumption DEF Counts, Gthreads!Present, Gthreads!Jobs
  <2>. QED BY <2>1, <2>2, <2>3, <2>4
<1>2. v13 = "exited" => v16 = 1..v10
  BY <1>0 DEF Counts, Gthreads!Present, Gthreads!OnItsWay
<1>. QED BY <1>1, <1>2 DEF Gthreads!JobsAreInOnePlace

-----------------------------------------------------------------------------
(* The order the green threads are handed out in: the queue ascends by the scheme's  *)
(* key.  PSRTF is left out: what its comparer says changes while the jobs wait.       *)

\* What a scheme goes by.
Key(m, j) ==
    CASE v1 = "FCFS" -> m[j].arrival
      [] v1 = "SJF" -> m[j].runtime
      [] v1 \in {"PRI", "PPRI"} -> m[j].priority
      [] OTHER -> m[j].rr

\* f does not decrease along q.
Ascends(q, f) == \A i, k \in DOMAIN q : i < k => f[q[i]] <= f[q[k]]

\* priqueue_offer keeps a queue in order, if what its comparer says agrees with the keys
\* and either it never says of two entries that each comes behind the other, or the new
\* entry belongs at the end.
LEMMA OfferSorts ==
    ASSUME NEW S, NEW q \in Seq(S), NEW x \in S, NEW cmp, NEW f \in [S -> Int], Ascends(q, f),
           \A y \in Gthreads!Range(q) :
              /\ cmp[<<y, x>>] <= 0 => f[y] <= f[x]
              /\ cmp[<<x, y>>] < 0 => f[x] <= f[y]
              /\ f[x] < f[y] => cmp[<<x, y>>] < 0,
           \/ \A y \in Gthreads!Range(q) : f[y] <= f[x]
           \/ \A y \in Gthreads!Range(q) : cmp[<<y, x>>] <= 0 \/ cmp[<<x, y>>] < 0
    PROVE  Ascends(Gthreads!Offer(q, x, cmp), f)
<1>. Len(q) \in Nat /\ DOMAIN q = 1..Len(q) /\ \A i \in 1..Len(q) : q[i] \in S /\ q[i] \in Gthreads!Range(q)
  BY LenProperties, ElementOfSeq DEF Gthreads!Range
<1>0. q # <<>> => Head(q) = q[1] /\ Len(q) >= 1
  BY EmptySeq
<1>2. ASSUME NEW i \in 1..Len(q), NEW k \in 1..Len(q), i <= k
      PROVE  f[q[i]] <= f[q[k]]
  <2>1. CASE i = k
    <3>. f[q[i]] \in Int
      OBVIOUS
    <3>. QED BY <2>1
  <2>2. CASE i < k
    BY <2>2 DEF Ascends
  <2>. QED BY <1>2, <2>1, <2>2
<1>1. ASSUME NEW k \in 1..(Len(q) + 1),
             \A i \in 1..Len(q) : (i < k => f[q[i]] <= f[x]) /\ (i >= k => f[x] <= f[q[i]])
      PROVE  Ascends(Inserted(q, k, x), f)
  <2>. DEFINE r == Inserted(q, k, x)
  <2>1. /\ DOMAIN r = 1..(Len(q) + 1)
        /\ \A i \in 1..(Len(q) + 1) : r[i] = IF i < k THEN q[i] ELSE IF i = k THEN x ELSE q[i - 1]
    BY InsertionIs
  <2>. HIDE DEF r
  <2>2. ASSUME NEW a \in 1..(Len(q) + 1), NEW b \in 1..(Len(q) + 1), a < b
        PROVE  f[r[a]] <= f[r[b]]
    <3>1. CASE b < k
      <4>. a \in 1..Len(q) /\ b \in 1..Len(q)
        BY <2>2, <3>1
      <4>1. r[a] = q[a] /\ r[b] = q[b]
        BY <2>1, <2>2, <3>1
      <4>. QED BY <1>2, <2>2, <4>1
    <3>2. CASE b = k
      <4>. a \in 1..Len(q) /\ a < k
        BY <2>2, <3>2
      <4>. QED BY <1>1, <2>1, <2>2, <3>2
    <3>3. CASE b > k /\ a < k
      <4>. a \in 1..Len(q) /\ b - 1 \in 1..Len(q) /\ a <= b - 1
        BY <2>2, <3>3
      <4>. r[a] = q[a] /\ r[b] = q[b - 1]
        BY <2>1, <3>3
      <4>. QED BY <1>2
    <3>4. CASE b > k /\ a = k
      <4>. b - 1 \in 1..Len(q) /\ b - 1 >= k
        BY <2>2, <3>4
      <4>. QED BY <1>1, <2>1, <2>2, <3>4
    <3>5. CASE b > k /\ a > k
      <4>. a - 1 \in 1..Len(q) /\ b - 1 \in 1..Len(q) /\ a - 1 <= b - 1
        BY <2>2, <3>5
      <4>. r[a] = q[a - 1] /\ r[b] = q[b - 1]
        BY <2>1, <3>5
      <4>. QED BY <1>2
    <3>. QED BY <2>2, <3>1, <3>2, <3>3, <3>4, <3>5
  <2>. QED BY <2>1, <2>2 DEF Ascends, r
<1>3. CASE /\ q = <<>> \/ cmp[<<x, Head(q)>>] < 0
           /\ Gthreads!Offer(q, x, cmp) = Inserted(q, 1, x)
  <2>1. ASSUME q # <<>>
        PROVE  \A i \in 1..Len(q) : f[x] <= f[q[i]]
    <3>1. Head(q) = q[1] /\ 1 \in 1..Len(q)
      BY <1>0, <2>1
    <3>2. f[x] <= f[q[1]]
      BY <1>3, <2>1, <3>1
    <3>. QED BY <1>2, <3>1, <3>2
  <2>2. \A i \in 1..Len(q) : q # <<>>
    OBVIOUS
  <2>. QED BY <1>1, <1>3, <2>1, <2>2
<1>4. ASSUME q # <<>>, ~(cmp[<<x, Head(q)>>] < 0),
             NEW n \in 1..Len(q), Gthreads!Offer(q, x, cmp) = Inserted(q, n + 1, x),
             n = Len(q) \/ Fits(q, x, cmp, n), \A i \in 1..Len(q) : i < n => ~Fits(q, x, cmp, i)
      PROVE  Ascends(Gthreads!Offer(q, x, cmp), f)
  <2>1. Head(q) = q[1] /\ Len(q) >= 1
    BY <1>0, <1>4
  <2>2. f[q[n]] <= f[x]
    <3>1. CASE Fits(q, x, cmp, n)
      BY <3>1 DEF Fits
    <3>2. CASE n = Len(q) /\ \A y \in Gthreads!Range(q) : f[y] <= f[x]
      BY <3>2
    <3>3. CASE n = Len(q) /\ \A y \in Gthreads!Range(q) : cmp[<<y, x>>] <= 0 \/ cmp[<<x, y>>] < 0
      <4>. DEFINE before == {i \in 1..Len(q) : cmp[<<x, q[i]>>] < 0}
      <4>1. before = {}
        <5>1. SUFFICES ASSUME before # {} PROVE FALSE
          OBVIOUS
        <5>. DEFINE k == Gthreads!Min(before)
        <5>2. k \in before /\ \A i \in before : k <= i
          <6>1. before \in SUBSET Nat
            OBVIOUS
          <6>. HIDE DEF before
          <6>. QED BY <5>1, <6>1, MinIsLeast
        <5>. HIDE DEF k
        <5>3. k \in 1..Len(q) /\ k # 1 /\ cmp[<<x, q[k]>>] < 0
          BY <1>4, <2>1, <5>2
        <5>4. k - 1 \in 1..Len(q) /\ k - 1 < n /\ k - 1 \notin before /\ k - 1 + 1 = k
          BY <3>3, <5>2, <5>3
        <5>5. ~(cmp[<<q[k - 1], x>>] <= 0) /\ ~(cmp[<<x, q[k - 1]>>] < 0)
          BY <1>4, <5>3, <5>4 DEF Fits
        <5>. QED BY <3>3, <5>4, <5>5
      <4>2. ~(cmp[<<x, q[n]>>] < 0)
        BY <4>1
      <4>3. f[q[n]] \in Int /\ f[x] \in Int
        OBVIOUS
      <4>. QED BY <4>2, <4>3
    <3>. QED BY <1>4, <3>1, <3>2, <3>3
  <2>3. n < Len(q) => f[x] <= f[q[n + 1]]
    <3>1. SUFFICES ASSUME n < Len(q) PROVE f[x] <= f[q[n + 1]]
      OBVIOUS
    <3>2. cmp[<<x, q[n + 1]>>] < 0 /\ n + 1 \in 1..Len(q)
      BY <1>4, <3>1 DEF Fits
    <3>. QED BY <3>2
  <2>4. ASSUME NEW i \in 1..Len(q)
        PROVE  (i < n + 1 => f[q[i]] <= f[x]) /\ (i >= n + 1 => f[x] <= f[q[i]])
    <3>0. f[x] \in Int /\ f[q[i]] \in Int /\ f[q[n]] \in Int
      OBVIOUS
    <3>1. CASE i < n + 1
      <4>. f[q[i]] <= f[q[n]]
        BY <1>2, <3>1
      <4>. QED BY <2>2, <3>0, <3>1
    <3>2. CASE i >= n + 1
      <4>1. n + 1 \in 1..Len(q) /\ n < Len(q)
        BY <3>2
      <4>2. f[q[n + 1]] <= f[q[i]] /\ f[q[n + 1]] \in Int
        BY <1>2, <4>1, <3>2
      <4>. QED BY <2>3, <3>0, <3>2, <4>1, <4>2
    <3>. QED BY <3>1, <3>2
  <2>5. n + 1 \in 1..(Len(q) + 1)
    OBVIOUS
  <2>. QED BY <1>1, <1>4, <2>4, <2>5
<1>. QED BY <1>3, <1>4, OfferIs

\* The stamps of the jobs of P: those created later arrive later, and nothing is stamped
\* with a time to come.
Stamped(m, P, time) == \A j \in P :
    /\ m[j].arrival <= time /\ m[j].rr <= time /\ m[j].runtime = v2[j].runtime * Gthreads!OneSecond
    /\ \A k \in P : j < k => m[j].arrival <= m[k].arrival
\* The plans a program may have.
Plans == [Gthreads!Jobs -> [runtime : Nat, priority : Int, length : Nat]]

\* Run times of whole seconds are the same or a second apart.
LEMMA MultiplesAreApart ==
    ASSUME NEW second \in Nat \ {0}, NEW a \in Nat, NEW b \in Nat,
           a * second - b * second < second, -second < a * second - b * second
    PROVE  a = b
<1>0. second \in Nat /\ second > 0
  OBVIOUS
<1>1. ASSUME NEW c \in Nat, NEW d \in Nat, c >= d + 1
      PROVE  c * second - d * second >= second
  <2>1. (c - d - 1) * second >= 0
    BY <1>0, <1>1
  <2>2. (c - d - 1) * second = c * second - d * second - second
    BY <1>0
  <2>3. c * second \in Int /\ d * second \in Int
    BY <1>0
  <2>. QED BY <1>0, <2>1, <2>2, <2>3
<1>2. a * second \in Int /\ b * second \in Int
  BY <1>0
<1>3. ~(a >= b + 1)
  BY <1>0, <1>1, <1>2
<1>4. ~(b >= a + 1)
  <2>1. SUFFICES ASSUME b >= a + 1 PROVE FALSE
    OBVIOUS
  <2>2. b * second - a * second >= second
    BY <1>1, <2>1
  <2>. QED BY <1>0, <1>2, <2>2
<1>. QED BY <1>3, <1>4

\* What the comparers say of two jobs agrees with the scheme, and of two jobs one comes
\* first; but under RR two jobs may be stamped with the same time.
LEMMA CompareAgrees ==
    ASSUME NEW m \in Infos, NEW P, P \subseteq Known(m), NEW time \in Int, Stamped(m, P, time),
           v1 \in Gthreads!Schemes, v1 # "PSRTF", v2 \in Plans, NEW a \in P, NEW b \in P, a # b
    PROVE  /\ Key(m, a) \in Int /\ Key(m, b) \in Int
           /\ Gthreads!Compare(m, a, b) \in {-1, 1}
           /\ Gthreads!Compare(m, a, b) <= 0 => Key(m, a) <= Key(m, b)
           /\ Key(m, a) < Key(m, b) => Gthreads!Compare(m, a, b) < 0
           /\ v1 # "RR" \/ m[a].rr # m[b].rr
                 => Gthreads!Compare(m, a, b) <= 0 \/ Gthreads!Compare(m, b, a) < 0
<1>. DEFINE second == Gthreads!OneSecond
<1>0. second \in Nat \ {0} /\ second > 0 /\ a \in Gthreads!Jobs /\ b \in Gthreads!Jobs /\ a \in Int /\ b \in Int
  BY GthreadsAssumption DEF Known, Gthreads!Jobs, Gthreads!OneSecond
<1>1. m[a] \in Gthreads!JobInfo /\ m[b] \in Gthreads!JobInfo
  BY DEF Known, Infos
<1>2. /\ m[a].arrival \in Int /\ m[b].arrival \in Int /\ m[a].rr \in Int /\ m[b].rr \in Int
      /\ m[a].runtime \in Int /\ m[b].runtime \in Int /\ m[a].priority \in Int /\ m[b].priority \in Int
  BY <1>1 DEF Gthreads!JobInfo
<1>3. (a < b => m[a].arrival <= m[b].arrival) /\ (b < a => m[b].arrival <= m[a].arrival)
  BY DEF Stamped
<1>. DEFINE ab == Gthreads!FirstCome(m, a, b)  ba == Gthreads!FirstCome(m, b, a)
<1>4. /\ ab \in {-1, 1} /\ ba \in {-1, 1} /\ (ab = -1 \/ ba = -1)
      /\ ab = -1 => m[a].arrival <= m[b].arrival
      /\ m[a].arrival < m[b].arrival => ab = -1
  BY <1>0, <1>2, <1>3 DEF Gthreads!FirstCome, Gthreads!Sign
<1>. HIDE DEF ab, ba, second
<1>5. CASE v1 = "FCFS"
  <2>1. Gthreads!Compare(m, a, b) = ab /\ Gthreads!Compare(m, b, a) = ba
        /\ Key(m, a) = m[a].arrival /\ Key(m, b) = m[b].arrival
    BY <1>5 DEF Gthreads!Compare, Key, ab, ba
  <2>. QED BY <1>2, <1>4, <2>1
<1>6. CASE v1 = "SJF"
  <2>1. /\ Gthreads!Compare(m, a, b) = Gthreads!Sign(m[a].runtime - m[b].runtime, second, ab)
        /\ Gthreads!Compare(m, b, a) = Gthreads!Sign(m[b].runtime - m[a].runtime, second, ba)
        /\ Key(m, a) = m[a].runtime /\ Key(m, b) = m[b].runtime
    BY <1>6 DEF Gthreads!Compare, Key, ab, ba, second
  <2>2. m[a].runtime - m[b].runtime < second /\ -second < m[a].runtime - m[b].runtime
            => m[a].runtime = m[b].runtime
    <3>1. /\ m[a].runtime = v2[a].runtime * second /\ m[b].runtime = v2[b].runtime * second
          /\ v2[a].runtime \in Nat /\ v2[b].runtime \in Nat
      BY <1>0 DEF Stamped, Plans, second
    <3>. QED BY <1>0, <3>1, MultiplesAreApart
  <2>. QED BY <1>0, <1>2, <1>4, <2>1, <2>2 DEF Gthreads!Sign
<1>7. CASE v1 \in {"PRI", "PPRI"}
  <2>1. /\ Gthreads!Compare(m, a, b) = Gthreads!Sign(m[a].priority - m[b].priority, 1, ab)
        /\ Gthreads!Compare(m, b, a) = Gthreads!Sign(m[b].priority - m[a].priority, 1, ba)
        /\ Key(m, a) = m[a].priority /\ Key(m, b) = m[b].priority
    BY <1>7 DEF Gthreads!Compare, Key, ab, ba
  <2>. QED BY <1>0, <1>2, <1>4, <2>1 DEF Gthreads!Sign
<1>8. CASE v1 = "RR"
  <2>1. /\ Gthreads!Compare(m, a, b) = IF m[a].rr < m[b].rr THEN -1 ELSE 1
        /\ Gthreads!Compare(m, b, a) = IF m[b].rr < m[a].rr THEN -1 ELSE 1
        /\ Key(m, a) = m[a].rr /\ Key(m, b) = m[b].rr
    BY <1>8 DEF Gthreads!Compare, Key
  <2>. QED BY <1>2, <1>8, <2>1
<1>. QED BY <1>5, <1>6, <1>7, <1>8 DEF Gthreads!Schemes

\* The queue ascends by the key of the scheme, unless a job has been linked in too late.
InScheme == v1 # "PSRTF" /\ v15 = "fine"
Sorted(q, m) == InScheme => \A i, k \in DOMAIN q : i < k => Key(m, q[i]) <= Key(m, q[k])
\* j comes before all that wait.
ComesFirst(j, q, m) == InScheme => \A i \in DOMAIN q : Key(m, j) <= Key(m, q[i])

\* Nothing changes in what the comparers look at.
Alike(m, n, P) == \A j \in P :
    /\ m[j].arrival = n[j].arrival /\ m[j].rr = n[j].rr
    /\ m[j].runtime = n[j].runtime /\ m[j].priority = n[j].priority

\* Then no key changes ...
LEMMA AlikeKeys ==
    ASSUME NEW m, NEW n, NEW P, Alike(m, n, P)
    PROVE  \A j \in P : Key(m, j) = Key(n, j)
BY DEF Alike, Key

\* ... the stamps stay right, a queue stays in order ...
LEMMA AlikeKeeps ==
    ASSUME NEW m, NEW n, NEW P, Alike(m, n, P), NEW time, NEW q, Gthreads!Range(q) \subseteq P
    PROVE  /\ Stamped(m, P, time) => Stamped(n, P, time)
           /\ Sorted(q, m) => Sorted(q, n)
<1>0. \A i \in P : Key(m, i) = Key(n, i)
  BY AlikeKeys
<1>1. \A i \in DOMAIN q : q[i] \in P
  BY DEF Gthreads!Range
<1>2. Sorted(q, m) => Sorted(q, n)
  BY <1>0, <1>1, Zenon DEF Sorted
<1>3. Stamped(m, P, time) => Stamped(n, P, time)
  BY DEF Alike, Stamped
<1>. QED BY <1>2, <1>3

\* ... and what comes before the queue still does.
LEMMA AlikeKeepsFirst ==
    ASSUME NEW m, NEW n, NEW P, Alike(m, n, P), NEW q, Gthreads!Range(q) \subseteq P,
           NEW j \in P, ComesFirst(j, q, m)
    PROVE  ComesFirst(j, q, n)
<1>0. \A i \in P : Key(m, i) = Key(n, i)
  BY AlikeKeys
<1>1. \A i \in DOMAIN q : q[i] \in P
  BY DEF Gthreads!Range
<1>. QED BY <1>0, <1>1, Zenon DEF ComesFirst

\* The library's queue is in order after a job is offered to it; under RR if its place is
\* the last, or no other has its time.
LEMMA OfferedOrders ==
    ASSUME NEW m \in Infos, NEW q \in Queues, NEW x \in Known(m), Gthreads!Range(q) \subseteq Known(m),
           x \notin Gthreads!Range(q), NEW time \in Int, Stamped(m, Known(m), time),
           v1 \in Gthreads!Schemes, v2 \in Plans, Sorted(q, m),
           \/ v1 # "RR"
           \/ \A y \in Gthreads!Range(q) : m[y].rr <= m[x].rr
           \/ \A y \in Gthreads!Range(q) : m[y].rr # m[x].rr
    PROVE  Sorted(Gthreads!Offered(m, q, x), m)
<1>1. SUFFICES ASSUME InScheme PROVE Sorted(Gthreads!Offered(m, q, x), m)
  BY DEF Sorted
<1>14. v1 # "PSRTF"
  BY <1>1 DEF InScheme
<1>. DEFINE known == Gthreads!Range(q) \cup {x}
            f == [j \in known |-> Key(m, j)]
            cmp == [pair \in known \X known |-> Gthreads!Compare(m, pair[1], pair[2])]
            r == Gthreads!Offer(q, x, cmp)
<1>2. r = Gthreads!Offered(m, q, x)
  BY DEF Gthreads!Offered
<1>3. q \in Seq(known) /\ x \in known /\ Gthreads!IsInjective(q) /\ known \subseteq Known(m)
      /\ DOMAIN q = 1..Len(q) /\ \A i \in DOMAIN q : q[i] \in known
  <2>1. Len(q) \in Nat /\ DOMAIN q = 1..Len(q) /\ q \in Seq(Gthreads!Jobs) /\ q = [i \in 1..Len(q) |-> q[i]]
    BY LenProperties, SeqDef DEF Queues
  <2>2. \A i \in 1..Len(q) : q[i] \in known
    BY <2>1 DEF Gthreads!Range
  <2>. HIDE DEF known
  <2>3. q \in Seq(known)
    BY <2>1, <2>2, IsASeq
  <2>. QED BY <2>1, <2>2, <2>3 DEF known, Queues
<1>4. ASSUME NEW j \in known PROVE Key(m, j) \in Int
  <2>1. m[j] \in Gthreads!JobInfo
    BY <1>3 DEF Known, Infos
  <2>. QED BY <2>1 DEF Key, Gthreads!JobInfo
<1>5. \A a, b \in known : cmp[<<a, b>>] = Gthreads!Compare(m, a, b)
  OBVIOUS
<1>6. \A y \in Gthreads!Range(q) : y \in known /\ y # x
  OBVIOUS
<1>. HIDE DEF known, cmp
<1>7. f \in [known -> Int] /\ \A j \in known : f[j] = Key(m, j)
  BY <1>4
<1>. HIDE DEF f
<1>8. ASSUME NEW y \in Gthreads!Range(q)
      PROVE  /\ cmp[<<y, x>>] <= 0 => f[y] <= f[x]
             /\ cmp[<<x, y>>] < 0 => f[x] <= f[y]
             /\ f[x] < f[y] => cmp[<<x, y>>] < 0
             /\ v1 # "RR" \/ m[y].rr # m[x].rr => cmp[<<y, x>>] <= 0 \/ cmp[<<x, y>>] < 0
             /\ v1 = "RR" /\ m[y].rr <= m[x].rr => f[y] <= f[x]
  <2>1. y \in known /\ x \in known /\ y # x /\ y \in Known(m)
    BY <1>3, <1>6
  <2>2. /\ Gthreads!Compare(m, y, x) <= 0 => Key(m, y) <= Key(m, x)
        /\ v1 # "RR" \/ m[y].rr # m[x].rr
              => Gthreads!Compare(m, y, x) <= 0 \/ Gthreads!Compare(m, x, y) < 0
    BY <1>14, <2>1, CompareAgrees
  <2>3. /\ Gthreads!Compare(m, x, y) <= 0 => Key(m, x) <= Key(m, y)
        /\ Key(m, x) < Key(m, y) => Gthreads!Compare(m, x, y) < 0
        /\ Gthreads!Compare(m, x, y) \in {-1, 1}
    BY <1>14, <2>1, CompareAgrees
  <2>4. v1 = "RR" /\ m[y].rr <= m[x].rr => Key(m, y) <= Key(m, x)
    BY DEF Key
  <2>. QED BY <1>5, <1>7, <2>1, <2>2, <2>3, <2>4
<1>9. Ascends(q, f)
  BY <1>1, <1>3, <1>7 DEF Sorted, Ascends
<1>10. \/ \A y \in Gthreads!Range(q) : f[y] <= f[x]
       \/ \A y \in Gthreads!Range(q) : cmp[<<y, x>>] <= 0 \/ cmp[<<x, y>>] < 0
  BY <1>8
<1>11. Ascends(r, f)
  BY <1>3, <1>7, <1>8, <1>9, <1>10, OfferSorts
<1>12. \A i \in DOMAIN r : r[i] \in known
  <2>1. r \in Seq(known)
    BY <1>3, OfferAdds
  <2>. QED BY <2>1, LenProperties, ElementOfSeq
<1>. HIDE DEF r
<1>13. Sorted(r, m)
  BY <1>7, <1>11, <1>12 DEF Sorted, Ascends
<1>. QED BY <1>2, <1>13

\* The jobs of m are stamped with times up to `time`, and q is in their order.
InOrder(q, m, time) == Stamped(m, Known(m), time) /\ Sorted(q, m)

\* The job handed out comes before those that wait.
LEMMA DispatchOrders ==
    ASSUME NEW l, l.queue \in Queues, l.info \in Infos, NEW time \in Int,
           Gthreads!Range(l.queue) \subseteq Known(l.info), InOrder(l.queue, l.info, time)
    PROVE  LET d == Gthreads!Dispatch(l, time)
           IN  /\ InOrder(d.queue, d.info, time)
               /\ d.run # None => ComesFirst(d.run, d.queue, d.info)
<1>. DEFINE d == Gthreads!Dispatch(l, time)
<1>1. CASE l.queue = <<>>
  <2>1. d.queue = l.queue /\ d.run = None /\ d.info = l.info
    BY <1>1 DEF Gthreads!Dispatch, Gthreads!Peek, Gthreads!Polled
  <2>. QED BY <2>1
<1>2. CASE l.queue # <<>>
  <2>. DEFINE j == Head(l.queue)
              t == Tail(l.queue)
              m == [l.info EXCEPT ![j].prev = time,
                                  ![j].first = IF @ = Gthreads!NotRun THEN time ELSE @]
  <2>1. /\ t \in Queues /\ j \in Gthreads!Range(l.queue)
        /\ Gthreads!Range(t) = Gthreads!Range(l.queue) \ {j} /\ Gthreads!Polled(l.queue) = t
    BY <1>2, PolledGives DEF Gthreads!Polled
  <2>2. j \in Gthreads!Jobs /\ l.info[j] \in Gthreads!JobInfo
    BY <2>1 DEF Known, Infos
  <2>3. d.queue = t /\ d.run = j /\ d.info = m
    BY <1>2, <2>1, <2>2, NoneIsNoJob DEF Gthreads!Dispatch, Gthreads!Peek
  <2>4. /\ m[j].arrival = l.info[j].arrival /\ m[j].rr = l.info[j].rr
        /\ m[j].runtime = l.info[j].runtime /\ m[j].priority = l.info[j].priority
        /\ \A i \in Gthreads!Jobs \ {j} : m[i] = l.info[i]
    BY <2>2 DEF Infos, Gthreads!JobInfo, Gthreads!NotRun
  <2>5. Known(m) = Known(l.info)
    BY <2>3, DispatchGives
  <2>6. Alike(l.info, m, Known(l.info))
    BY <2>4 DEF Alike, Known
  <2>7. /\ DOMAIN l.queue = 1..Len(l.queue) /\ Len(l.queue) \in Nat /\ j = l.queue[1] /\ Len(l.queue) >= 1
        /\ DOMAIN t = 1..(Len(l.queue) - 1) /\ DOMAIN t = 1..Len(t)
        /\ \A i \in 1..(Len(l.queue) - 1) : t[i] = l.queue[i + 1]
    <3>1. l.queue \in Seq(Gthreads!Jobs)
      BY DEF Queues
    <3>. QED BY <1>2, <3>1, HeadTailProperties, EmptySeq, LenProperties
  <2>. HIDE DEF t, j, m
  <2>8. Sorted(t, l.info) /\ ComesFirst(j, t, l.info)
    <3>1. \A i \in DOMAIN t : i + 1 \in DOMAIN l.queue /\ 1 < i + 1 /\ 1 \in DOMAIN l.queue /\ t[i] = l.queue[i + 1]
      BY <2>7
    <3>2. \A i, k \in DOMAIN t : i < k => i + 1 < k + 1
      BY <2>7
    <3>. QED BY <2>7, <3>1, <3>2 DEF Sorted, ComesFirst, InOrder
  <2>9. Sorted(t, m) /\ ComesFirst(j, t, m) /\ Stamped(m, Known(m), time)
    <3>1. Gthreads!Range(t) \subseteq Known(l.info) /\ j \in Known(l.info) /\ Stamped(l.info, Known(l.info), time)
      BY <2>1 DEF InOrder
    <3>2. Stamped(m, Known(l.info), time) /\ Sorted(t, m)
      BY <2>6, <2>8, <3>1, AlikeKeeps
    <3>3. ComesFirst(j, t, m)
      BY <2>6, <2>8, <3>1, AlikeKeepsFirst
    <3>. QED BY <2>5, <3>2, <3>3
  <2>. QED BY <2>3, <2>9 DEF InOrder
<1>. QED BY <1>1, <1>2

\* When a quantum expires, what the library hands out, unless the job goes on, comes before
\* those that wait.
LEMMA QuantumOrders ==
    ASSUME NEW l, l.queue \in Queues, l.info \in Infos, NEW time \in Int,
           Gthreads!Range(l.queue) \subseteq Known(l.info), InOrder(l.queue, l.info, time),
           v1 \in Gthreads!Schemes, v2 \in Plans,
           NEW evicted \in Known(l.info) \cup {None}, evicted \notin Gthreads!Range(l.queue),
           NEW s, s = Gthreads!QuantumExpired(l, evicted, time)
    PROVE  InOrder(s.queue, s.info, time) /\ (s.run \notin {None, evicted} => ComesFirst(s.run, s.queue, s.info))
<1>1. CASE evicted = None
  <2>1. s = Gthreads!Dispatch(l, time)
    BY <1>1 DEF Gthreads!QuantumExpired
  <2>. QED BY <2>1, DispatchOrders
<1>2. CASE evicted # None
  <2>. DEFINE charged == [l.info EXCEPT ![evicted].executed = @ + time - l.info[evicted].prev,
                                        ![evicted].prev = time]
              requeued == IF v1 = "RR" THEN [charged EXCEPT ![evicted].rr = time] ELSE charged
              offered == Gthreads!Offered(requeued, l.queue, evicted)
              after == [queue |-> offered, info |-> requeued, run |-> None]
  <2>1. evicted \in Gthreads!Jobs /\ l.info[evicted] \in Gthreads!JobInfo
    BY <1>2 DEF Known, Infos
  <2>2. /\ charged \in Infos /\ charged[evicted] \in Gthreads!JobInfo
        /\ charged[evicted].arrival = l.info[evicted].arrival /\ charged[evicted].rr = l.info[evicted].rr
        /\ charged[evicted].runtime = l.info[evicted].runtime /\ charged[evicted].priority = l.info[evicted].priority
        /\ \A i \in Gthreads!Jobs \ {evicted} : charged[i] = l.info[i]
    BY <2>1 DEF Infos, Gthreads!JobInfo
  <2>3. \/ s = [queue |-> l.queue, info |-> charged, run |-> evicted]
        \/ s = Gthreads!Dispatch(after, time)
    BY <1>2 DEF Gthreads!QuantumExpired
  <2>. HIDE DEF charged
  <2>4. /\ requeued \in Infos /\ requeued[evicted] \in Gthreads!JobInfo
        /\ requeued[evicted].arrival = charged[evicted].arrival
        /\ requeued[evicted].rr = (IF v1 = "RR" THEN time ELSE charged[evicted].rr)
        /\ requeued[evicted].runtime = charged[evicted].runtime
        /\ requeued[evicted].priority = charged[evicted].priority
        /\ \A i \in Gthreads!Jobs \ {evicted} : requeued[i] = charged[i]
    BY <2>1, <2>2 DEF Infos, Gthreads!JobInfo
  <2>. HIDE DEF requeued
  <2>5. Known(charged) = Known(l.info) /\ Known(requeued) = Known(l.info)
    BY <2>1, <2>2, <2>4, NoneIsNoJob DEF Known
  <2>7. Alike(l.info, charged, Known(l.info))
    BY <2>2 DEF Alike, Known
  <2>8. InOrder(l.queue, charged, time)
    BY <2>5, <2>7, AlikeKeeps DEF InOrder
  <2>9. CASE s = [queue |-> l.queue, info |-> charged, run |-> evicted]
    <3>1. s.queue = l.queue /\ s.info = charged /\ s.run = evicted
      BY <2>9
    <3>. QED BY <2>8, <3>1
  <2>10. CASE s = Gthreads!Dispatch(after, time)
    <3>1. Stamped(requeued, Known(requeued), time)
      <4>1. ASSUME NEW j \in Known(requeued)
            PROVE  /\ requeued[j].arrival = charged[j].arrival
                   /\ requeued[j].runtime = charged[j].runtime /\ requeued[j].rr \in {charged[j].rr, time}
        BY <2>1, <2>4, <2>5 DEF Known
      <4>. QED BY <2>5, <2>8, <4>1 DEF InOrder, Stamped
    <3>2. \A j \in Gthreads!Range(l.queue) : j \in Gthreads!Jobs \ {evicted}
      BY DEF Known
    <3>3. Alike(charged, requeued, Gthreads!Range(l.queue))
      BY <2>4, <3>2 DEF Alike
    <3>4. Sorted(l.queue, requeued)
      BY <2>8, <3>3, AlikeKeeps DEF InOrder
    <3>5. /\ evicted \in Known(requeued) /\ Gthreads!Range(l.queue) \subseteq Known(requeued)
          /\ v1 = "RR" => requeued[evicted].rr = time
      BY <1>2, <2>4, <2>5
    <3>10. v1 # "RR" \/ \A y \in Gthreads!Range(l.queue) : requeued[y].rr <= requeued[evicted].rr
      BY <3>1, <3>5 DEF Stamped
    <3>6. Sorted(offered, requeued)
      BY <2>4, <3>1, <3>4, <3>5, <3>10, OfferedOrders
    <3>7. offered \in Queues /\ Gthreads!Range(offered) = Gthreads!Range(l.queue) \cup {evicted}
      BY <2>1, OfferAdds DEF Queues, Gthreads!Offered
    <3>8. after.queue = offered /\ after.info = requeued
      OBVIOUS
    <3>. HIDE DEF after, offered
    <3>9. InOrder(after.queue, after.info, time) /\ Gthreads!Range(after.queue) \subseteq Known(after.info)
          /\ after.queue \in Queues /\ after.info \in Infos
      BY <2>4, <3>1, <3>5, <3>6, <3>7, <3>8 DEF InOrder
    <3>. QED BY <2>10, <3>9, DispatchOrders
  <2>. QED BY <2>3, <2>9, <2>10
<1>. QED BY <1>1, <1>2

\* A switch, on the stack of `me`.
LEMMA SwitchOrders ==
    ASSUME NEW l, l.queue \in Queues, l.info \in Infos, NEW time \in Int,
           Gthreads!Range(l.queue) \subseteq Known(l.info), InOrder(l.queue, l.info, time),
           v1 \in Gthreads!Schemes, v2 \in Plans,
           NEW me \in Known(l.info) \cup {MainJob}, me \notin Gthreads!Range(l.queue),
           NEW susp, Gthreads!SwitchFrom(l, me, susp, time)
    PROVE  InOrder(v3', v4', time) /\ (v6' \notin {MainJob, me} => ComesFirst(v6', v3', v4'))
<1>. DEFINE evicted == IF me = MainJob THEN None ELSE me
            s == Gthreads!QuantumExpired(l, evicted, time)
<1>0. Gthreads!Range(l.queue) \subseteq Gthreads!Jobs
  BY DEF Known
<1>1. evicted \in Known(l.info) \cup {None} /\ evicted \notin Gthreads!Range(l.queue)
      /\ (evicted = None \/ evicted = me)
  BY <1>0, NoneIsNoJob DEF Known
<1>2. v3' = s.queue /\ v4' = s.info /\ v6' = (IF s.run = None THEN MainJob ELSE s.run)
  BY DEF Gthreads!SwitchFrom
<1>. HIDE DEF evicted
<1>3. InOrder(s.queue, s.info, time) /\ (s.run \notin {None, evicted} => ComesFirst(s.run, s.queue, s.info))
  BY <1>1, QuantumOrders
<1>. HIDE DEF s
<1>4. ASSUME v6' \notin {MainJob, me}
      PROVE  s.run \notin {None, evicted} /\ v6' = s.run
  BY <1>1, <1>2, <1>4
<1>. QED BY <1>2, <1>3, <1>4

\* What is handed out, if it is not a job that goes on, comes before those that wait.
HandsOutFirst == v6' \in Gthreads!Jobs /\ v6' # v6 /\ v6' # v7 => ComesFirst(v6', v3', v4')

\* gtyield, in each of its three ways.
LEMMA YieldOrders ==
    ASSUME NEW P, NEW I, Places(v3, v4, v6, v7, P, I), NEW time \in Int, InOrder(v3, v4, time),
           v1 \in Gthreads!Schemes, v2 \in Plans, NEW sig, Gthreads!Yield(sig, time)
    PROVE  InOrder(v3', v4', time) /\ HandsOutFirst
<1>. DEFINE l == Gthreads!Library
<1>1. l.queue = v3 /\ l.info = v4 /\ l.queue \in Queues /\ l.info \in Infos
      /\ Gthreads!Range(l.queue) \subseteq Known(l.info) /\ Gthreads!Range(v3) \subseteq Gthreads!Jobs
  BY DEF Gthreads!Library, Places, Known
<1>. HIDE DEF l
<1>2. ASSUME NEW me \in Known(v4) \cup {MainJob}, me \notin Gthreads!Range(v3), NEW susp,
             me \in {v6, v7, MainJob}, Gthreads!SwitchFrom(l, me, susp, time)
      PROVE  InOrder(v3', v4', time) /\ HandsOutFirst
  <2>1. InOrder(v3', v4', time) /\ (v6' \notin {MainJob, me} => ComesFirst(v6', v3', v4'))
    BY <1>1, <1>2, SwitchOrders
  <2>. QED BY <1>2, <2>1, NoneIsNoJob DEF HandsOutFirst
<1>3. ASSUME UNCHANGED <<v3, v4>>, v6' \in {v6, MainJob}
      PROVE  InOrder(v3', v4', time) /\ HandsOutFirst
  BY <1>3, NoneIsNoJob DEF HandsOutFirst
<1>4. MainJob \notin Gthreads!Range(v3)
  BY <1>1, NoneIsNoJob
<1>5. CASE Gthreads!YieldToSuspended(time)
  <2>1. v6 = MainJob /\ v7 # None
    BY <1>5 DEF Gthreads!YieldToSuspended
  <2>2. CASE v7 = MainJob
    BY <1>3, <1>5, <2>2 DEF Gthreads!YieldToSuspended, Gthreads!lib
  <2>3. CASE v7 # MainJob
    <3>1. Gthreads!SwitchFrom(l, v7, None, time)
      BY <1>5, <2>3 DEF Gthreads!YieldToSuspended, l
    <3>2. v7 \in Known(v4) /\ v7 \notin Gthreads!Range(v3)
      BY <2>1, <2>3 DEF Places
    <3>. QED BY <1>2, <3>1, <3>2
  <2>. QED BY <2>2, <2>3
<1>6. CASE Gthreads!YieldToMain(sig, time)
  <2>1. CASE v6 = MainJob
    <3>1. Gthreads!SwitchFrom(l, MainJob, MainJob, time)
      BY <1>6, <2>1 DEF Gthreads!YieldToMain, l
    <3>. QED BY <1>2, <1>4, <3>1
  <2>2. CASE v6 # MainJob
    BY <1>3, <1>6, <2>2 DEF Gthreads!YieldToMain, Gthreads!lib
  <2>. QED BY <2>1, <2>2
<1>7. CASE Gthreads!YieldToScheduler(sig, time)
  <2>1. Gthreads!SwitchFrom(l, v6, v7, time)
    BY <1>7 DEF Gthreads!YieldToScheduler, l
  <2>2. v6 \in Known(v4) \cup {MainJob} /\ v6 \notin Gthreads!Range(v3)
    BY DEF Places
  <2>. QED BY <1>2, <2>1, <2>2
<1>. QED BY <1>5, <1>6, <1>7 DEF Gthreads!Yield

\* A switch is never what puts the queue out of order.
LEMMA YieldStaysFine ==
    ASSUME NEW time, NEW sig, Gthreads!Yield(sig, time)
    PROVE  v15' = "fine" => v15 = "fine"
<1>1. ASSUME NEW l, NEW me, NEW susp, Gthreads!SwitchFrom(l, me, susp, time)
      PROVE  v15' = "fine" => v15 = "fine"
  BY <1>1, Zenon DEF Gthreads!SwitchFrom
<1>2. CASE Gthreads!YieldToSuspended(time)
  BY <1>1, <1>2, Zenon DEF Gthreads!YieldToSuspended
<1>3. CASE Gthreads!YieldToMain(sig, time)
  BY <1>1, <1>3, Zenon DEF Gthreads!YieldToMain
<1>4. CASE Gthreads!YieldToScheduler(sig, time)
  BY <1>1, <1>4, Zenon DEF Gthreads!YieldToScheduler
<1>. QED BY <1>2, <1>3, <1>4, Zenon DEF Gthreads!Yield

\* The part of the invariant that is about the order.
OrderInv == v1 \in Gthreads!Schemes /\ InOrder(v3, v4, v5)

\* What each step does about it.
OrderGoesOn ==
    /\ Stamped(v4', Known(v4'), v5') /\ HandsOutFirst /\ v1' = v1 /\ v2' = v2
    /\ v15' = "fine" => v15 = "fine" /\ Sorted(v3', v4')

\* Nothing waits.
LEMMA OrderInit ==
    ASSUME Gthreads!Init
    PROVE  OrderInv
<1>1. v1 \in Gthreads!Schemes /\ v3 = <<>> /\ v4 = [j \in Gthreads!Jobs |-> None]
  BY GthreadsAssumption DEF Gthreads!Init
<1>2. Known(v4) = {} /\ DOMAIN v3 = {}
  BY <1>1 DEF Known
<1>. QED BY <1>1, <1>2 DEF OrderInv, InOrder, Stamped, Sorted

\* gtgo stamps the new job with the time: it is the last to arrive.
LEMMA InformsOrders ==
    ASSUME GthreadsInv, OrderInv, Gthreads!GtgoInforms
    PROVE  OrderGoesOn
<1>0. Counts /\ InPlaces
  BY InvIsPlaces
<1>1. UNCHANGED <<v1, v2, v3, v5, v6, v10, v15>>
  BY DEF Gthreads!GtgoInforms, Gthreads!threads
<1>2. /\ v10 \in Gthreads!Jobs /\ v10 \notin Known(v4) /\ Known(v4) = Gthreads!Present
      /\ Known(v4') = Known(v4) \cup {v10} /\ NewIsThat(v4'[v10], v10)
      /\ \A i \in Known(v4) : v4'[i] = v4[i]
  BY <1>0, InformsGives
<1>3. v10 \in Nat /\ \A i \in Known(v4) : i \in Nat /\ i < v10
  <2>1. v10 \in Nat
    BY <1>0, GthreadsAssumption DEF Counts
  <2>2. \A i \in Gthreads!Present : i \in Nat /\ i <= v10
    BY <2>1 DEF Gthreads!Present
  <2>. QED BY <1>2, <2>1, <2>2
<1>4. v5 \in Int /\ Gthreads!Range(v3) \subseteq Known(v4)
  BY <1>0, <1>2 DEF Counts, InPlaces, Places
<1>5. Stamped(v4', Known(v4'), v5)
  BY <1>2, <1>3, <1>4 DEF OrderInv, InOrder, Stamped, NewIsThat
<1>6. Alike(v4, v4', Known(v4))
  BY <1>2 DEF Alike
<1>7. Sorted(v3, v4')
  BY <1>4, <1>6, AlikeKeeps DEF OrderInv, InOrder
<1>. QED BY <1>1, <1>5, <1>7 DEF OrderGoesOn, HandsOutFirst

\* The job gtgo links in has its place by its key, unless it goes behind a later one.
LEMMA LinksOrders ==
    ASSUME GthreadsInv, OrderInv, Gthreads!OfferLinks
    PROVE  OrderGoesOn
<1>0. Counts /\ InPlaces
  BY InvIsPlaces
<1>1. /\ UNCHANGED <<v1, v2, v4, v5, v6>> /\ v13 = "offering" /\ v3' = Gthreads!Offered(v4, v3, v10)
      /\ v15' = IF Gthreads!GoesBehindALaterOne(v10) THEN "late" ELSE v15
  BY DEF Gthreads!OfferLinks, Gthreads!GtgoStep
<1>2. Known(v4) = Gthreads!Present \cup {v10} /\ v10 \notin Gthreads!Range(v3)
  BY <1>0, <1>1, LinksFrom
<1>3. v4 \in Infos /\ v3 \in Queues /\ v2 \in Plans /\ v5 \in Int /\ v1 \in Gthreads!Schemes
  BY <1>0 DEF Counts, InPlaces, Places, Plans, OrderInv
<1>4. v10 \in Known(v4) /\ Gthreads!Range(v3) \subseteq Known(v4)
  BY <1>0, <1>2 DEF InPlaces, Places
<1>5. ASSUME ~Gthreads!GoesBehindALaterOne(v10)
      PROVE  \/ v1 # "RR"
             \/ \A y \in Gthreads!Range(v3) : v4[y].rr <= v4[v10].rr
             \/ \A y \in Gthreads!Range(v3) : v4[y].rr # v4[v10].rr
  <2>1. \A y \in Known(v4) : v4[y].rr \in Int
    <3>1. \A y \in Known(v4) : v4[y] \in Gthreads!JobInfo
      BY <1>3 DEF Known, Infos
    <3>. QED BY <3>1 DEF Gthreads!JobInfo
  <2>. QED BY <1>4, <1>5, <2>1 DEF Gthreads!GoesBehindALaterOne
<1>6. Stamped(v4, Known(v4), v5) /\ Sorted(v3, v4)
  BY DEF OrderInv, InOrder
<1>7. ~Gthreads!GoesBehindALaterOne(v10) => Sorted(v3', v4)
  BY <1>1, <1>2, <1>3, <1>4, <1>5, <1>6, OfferedOrders
<1>. QED BY <1>1, <1>6, <1>7 DEF OrderGoesOn, HandsOutFirst

\* gtstop forgets the job that ended, and main runs the switch.
LEMMA StopOrders ==
    ASSUME GthreadsInv, OrderInv, Gthreads!GtStop
    PROVE  OrderGoesOn
<1>. DEFINE l == [Gthreads!Library EXCEPT !.info[v6] = None]
<1>. USE NoneIsNoJob
<1>0. Counts /\ InPlaces
  BY InvIsPlaces
<1>1. /\ v6 # MainJob /\ Gthreads!SwitchFrom(l, MainJob, v7, v5)
      /\ v1' = v1 /\ v2' = v2 /\ v5' = v5
  BY DEF Gthreads!GtStop, Gthreads!Running
<1>2. v6 \in Gthreads!Jobs /\ v6 \notin Gthreads!Range(v3) /\ Gthreads!Range(v3) \subseteq Known(v4)
      /\ v3 \in Queues /\ v4 \in Infos /\ v5 \in Int /\ v2 \in Plans /\ v1 \in Gthreads!Schemes
  BY <1>0, <1>1 DEF InPlaces, Places, Counts, Plans, OrderInv
<1>3. l.queue = v3 /\ l.info = [v4 EXCEPT ![v6] = None]
  BY DEF Gthreads!Library
<1>4. l.info \in Infos /\ Known(l.info) = Known(v4) \ {v6} /\ \A i \in Known(l.info) : l.info[i] = v4[i]
  BY <1>2, <1>3 DEF Infos, Known
<1>. HIDE DEF l
<1>5. Stamped(l.info, Known(l.info), v5)
  BY <1>4 DEF OrderInv, InOrder, Stamped
<1>6. Alike(v4, l.info, Known(l.info))
  BY <1>4 DEF Alike
<1>7. Gthreads!Range(v3) \subseteq Known(l.info) /\ MainJob \notin Gthreads!Range(v3)
  BY <1>2, <1>4 DEF Known
<1>8. Sorted(v3, l.info)
  BY <1>6, <1>7, AlikeKeeps DEF OrderInv, InOrder
<1>9. InOrder(l.queue, l.info, v5)
  BY <1>3, <1>5, <1>8 DEF InOrder
<1>10. InOrder(v3', v4', v5) /\ (v6' \notin {MainJob, MainJob} => ComesFirst(v6', v3', v4'))
  BY <1>1, <1>2, <1>3, <1>4, <1>7, <1>9, SwitchOrders
<1>11. v15' = "fine" => v15 = "fine"
  BY <1>1, Zenon DEF Gthreads!SwitchFrom
<1>. QED BY <1>1, <1>10, <1>11 DEF OrderGoesOn, InOrder, HandsOutFirst

\* Time goes on.
LEMMA Later ==
    ASSUME InPlaces, InOrder(v3, v4, v5), v5 \in Int, NEW time \in Int, v5 <= time
    PROVE  InOrder(v3, v4, time)
<1>1. \A j \in Known(v4) : v4[j].arrival \in Int /\ v4[j].rr \in Int
  <2>1. \A j \in Known(v4) : v4[j] \in Gthreads!JobInfo
    BY DEF InPlaces, Places, Known, Infos
  <2>. QED BY <2>1 DEF Gthreads!JobInfo
<1>. QED BY <1>1 DEF InOrder, Stamped

\* Every step keeps the queue in order and hands out its first job.
LEMMA OrderStep ==
    ASSUME GthreadsInv, OrderInv, Gthreads!Next
    PROVE  OrderGoesOn
<1>0. Counts /\ InPlaces /\ v5 \in Nat /\ v2 \in Plans
      /\ v1 \in Gthreads!Schemes /\ InOrder(v3, v4, v5)
  BY InvIsPlaces DEF Counts, Plans, OrderInv
<1>1. ASSUME NEW time \in Nat, v5 <= time, NEW sig, Gthreads!Yield(sig, time), v5' = time, v1' = v1, v2' = v2
      PROVE  OrderGoesOn
  <2>1. v5 \in Int /\ time \in Int
    BY <1>0
  <2>2. InOrder(v3, v4, time)
    BY <1>0, <1>1, <2>1, Later
  <2>3. InOrder(v3', v4', time) /\ HandsOutFirst
    BY <1>0, <1>1, <2>1, <2>2, YieldOrders DEF InPlaces
  <2>4. v15' = "fine" => v15 = "fine"
    BY <1>1, YieldStaysFine
  <2>. QED BY <1>1, <2>3, <2>4 DEF OrderGoesOn, InOrder
<1>2. CASE Gthreads!GtgoInforms
  BY <1>2, InformsOrders
<1>3. CASE Gthreads!OfferLinks
  BY <1>3, LinksOrders
<1>4. CASE Gthreads!GtgoCounts \/ Gthreads!OfferLooks \/ Gthreads!GtgoSetsUp \/ Gthreads!CallGtret
  <2>1. UNCHANGED <<v1, v2, v3, v4, v5, v6, v15>>
    BY <1>4 DEF Gthreads!GtgoCounts, Gthreads!OfferLooks, Gthreads!GtgoSetsUp, Gthreads!CallGtret, Gthreads!lib,
       Gthreads!threads
  <2>. QED BY <1>0, <2>1 DEF OrderGoesOn, InOrder, HandsOutFirst
<1>5. CASE Gthreads!GtretYields
  <2>1. Gthreads!Yield("none", v5) /\ v5' = v5 /\ v1' = v1 /\ v2' = v2
    BY <1>5 DEF Gthreads!GtretYields
  <2>2. v5 <= v5
    BY <1>0
  <2>. QED BY <1>0, <1>1, <2>1, <2>2
<1>6. CASE Gthreads!QuantumInMain
  <2>1. PICK time \in Nat, sig \in {"SIGALRM", "GTSLEEP"} :
            v5 <= time /\ v5' = time /\ Gthreads!Yield(sig, time)
    BY <1>0, <1>6, MainQuantumIs
  <2>2. v1' = v1 /\ v2' = v2
    BY <1>0, <1>6, MainQuantumIs
  <2>. QED BY <1>1, <2>1, <2>2
<1>7. CASE Gthreads!AlarmInJob
  <2>1. /\ Gthreads!Yield("SIGALRM", Gthreads!NextQuantum(v5)) /\ v5' = Gthreads!NextQuantum(v5)
        /\ v1' = v1 /\ v2' = v2
    BY <1>7 DEF Gthreads!AlarmInJob
  <2>2. Gthreads!NextQuantum(v5) \in Nat /\ v5 <= Gthreads!NextQuantum(v5)
    BY <1>0, QuantumPasses
  <2>. QED BY <1>1, <2>1, <2>2
<1>8. CASE Gthreads!GtStop
  BY <1>8, StopOrders
<1>. QED BY <1>2, <1>3, <1>4, <1>5, <1>6, <1>7, <1>8
     DEF Gthreads!Next, Gthreads!MainStep, Gthreads!JobStep, Gthreads!Gtgo

\* The invariant about the order is kept.
LEMMA OrderKept ==
    ASSUME GthreadsInv, OrderInv, Gthreads!Next
    PROVE  OrderInv'
<1>1. OrderGoesOn /\ v1 \in Gthreads!Schemes
  BY OrderStep DEF OrderInv
<1>2. Stamped(v4, Known(v4), v5)'
  BY <1>1 DEF OrderGoesOn, Stamped, Known, Gthreads!Jobs
<1>3. Sorted(v3, v4)'
  BY <1>1 DEF OrderGoesOn, Sorted, InScheme, Key
<1>4. v1' \in Gthreads!Schemes'
  BY <1>1 DEF OrderGoesOn, Gthreads!Schemes
<1>. QED BY <1>2, <1>3, <1>4 DEF OrderInv, InOrder

\* The first by the scheme's key is one that none comes before.
LEMMA OrderRunsFirst ==
    ASSUME GthreadsInv, OrderInv, Gthreads!Next, GthreadsInv', Gthreads!HandsOutInScheme
    PROVE  Gthreads!RunsFirst'
<1>1. /\ HandsOutFirst /\ v1' = v1 /\ v6' # v6 /\ v6' # v7 /\ InScheme /\ v1 # "PSRTF" /\ v1 \in Gthreads!Schemes
  BY OrderStep DEF Gthreads!HandsOutInScheme, Gthreads!HandsOutAJob, OrderInv, OrderGoesOn, InScheme
<1>2. SUFFICES ASSUME v6' \in Gthreads!Jobs, NEW i \in DOMAIN v3'
               PROVE  ~Gthreads!Precedes(v3[i], v6)'
  BY DEF Gthreads!RunsFirst
<1>3. Key(v4', v6') <= Key(v4', v3'[i])
  BY <1>1, <1>2 DEF HandsOutFirst, ComesFirst
<1>4. v4'[v6'] \in Gthreads!JobInfo /\ v4'[v3'[i]] \in Gthreads!JobInfo
  <2>1. InPlaces'
    BY InvIsPlaces, PTL
  <2>2. v6' \in Known(v4') /\ v3'[i] \in Known(v4') /\ v4' \in Infos
    BY <1>2, <2>1 DEF InPlaces, Places, Gthreads!Range, Known, Infos
  <2>. QED BY <2>2 DEF Known, Infos
<1>. DEFINE x == v4'[v3'[i]]  y == v4'[v6']
<1>5. /\ x.arrival \in Int /\ x.runtime \in Int /\ x.priority \in Int /\ x.rr \in Int
      /\ y.arrival \in Int /\ y.runtime \in Int /\ y.priority \in Int /\ y.rr \in Int
  BY <1>4 DEF Gthreads!JobInfo
<1>6. CASE v1 = "FCFS"
  BY <1>1, <1>3, <1>5, <1>6 DEF Gthreads!Precedes, Key
<1>7. CASE v1 = "SJF"
  BY <1>1, <1>3, <1>5, <1>7 DEF Gthreads!Precedes, Key
<1>8. CASE v1 = "PRI"
  <2>1. Key(v4', v6') = y.priority /\ Key(v4', v3'[i]) = x.priority
    BY <1>1, <1>8 DEF Key
  <2>2. Gthreads!Precedes(v3[i], v6)' <=> x.priority < y.priority
    BY <1>1, <1>8 DEF Gthreads!Precedes
  <2>. QED BY <1>3, <1>5, <2>1, <2>2
<1>9. CASE v1 = "PPRI"
  <2>1. Key(v4', v6') = y.priority /\ Key(v4', v3'[i]) = x.priority
    BY <1>1, <1>9 DEF Key
  <2>2. Gthreads!Precedes(v3[i], v6)' <=> x.priority < y.priority
    BY <1>1, <1>9 DEF Gthreads!Precedes
  <2>. QED BY <1>3, <1>5, <2>1, <2>2
<1>10. CASE v1 = "RR"
  BY <1>1, <1>3, <1>5, <1>10 DEF Gthreads!Precedes, Key
<1>. QED BY <1>1, <1>6, <1>7, <1>8, <1>9, <1>10 DEF Gthreads!Schemes

-----------------------------------------------------------------------------
(* The status display. *)

StatusInv == ThreadStatus!TypeOK /\ ThreadStatus!EntriesAreKnown
Workers == [pc : {"absent", "run", "created", "save", "set", "blocked", "restore"}, idx : Nat,
            saved : [id : ThreadStatus!Threads, status : {"(none)", "working"}],
            status : {"(none)", "working"}, calls : Int]
Entries == [id : ThreadStatus!Threads, status : {"(none)", "working", "blocked"}]

\* An array that holds the entries of another, and perhaps one of t behind them, for a
\* thread that had none.
Extends(arr, old) ==
    /\ arr \in Seq(Entries) /\ Len(arr) >= Len(old)
    /\ \A k \in 1..Len(old) : arr[k] = old[k]
    /\ \A k \in (Len(old) + 1)..Len(arr) :
          /\ arr[k].status = "(none)" /\ ThreadStatus!IndexOf(old, arr[k].id) = {}
    /\ \A k, m \in DOMAIN arr : arr[k].id = arr[m].id => k = m

\* Nobody is listed, and only the first thread is there.
LEMMA StatusInit ==
    ASSUME ThreadStatus!Init
    PROVE  StatusInv
BY StatusAssumption DEF ThreadStatus!Init, StatusInv, ThreadStatus!TypeOK, ThreadStatus!EntriesAreKnown, ThreadStatus!Entry,
   ThreadStatus!Threads, ThreadStatus!IndexOf

\* Looking a thread up gives it an entry and leaves the others where they are.
LEMMA FindExtends ==
    ASSUME StatusInv, NEW t \in ThreadStatus!Threads
    PROVE  /\ Extends(ThreadStatus!InitThreadArray, v1)
           /\ Extends(ThreadStatus!FindThreadId(t), v1)
           /\ ThreadStatus!IndexOf(ThreadStatus!FindThreadId(t), t) # {}
<1>. DEFINE first == ThreadStatus!InitThreadArray  arr == ThreadStatus!FindThreadId(t)
            e(u) == ThreadStatus!Entry(u)
<1>0. /\ v1 \in Seq(Entries) /\ \A k, m \in DOMAIN v1 : v1[k].id = v1[m].id => k = m
      /\ Len(v1) \in Nat /\ DOMAIN v1 = 1..Len(v1) /\ \A k \in 1..Len(v1) : v1[k] \in Entries
  <2>1. v1 \in Seq(Entries)
    BY DEF StatusInv, ThreadStatus!TypeOK, Entries
  <2>2. \A k, m \in DOMAIN v1 : v1[k].id = v1[m].id => k = m
    BY DEF StatusInv, ThreadStatus!EntriesAreKnown
  <2>. QED BY <2>1, <2>2, ElementOfSeq, LenProperties
<1>01. \A u \in ThreadStatus!Threads : e(u) \in Entries /\ e(u).id = u /\ e(u).status = "(none)"
  BY DEF ThreadStatus!Entry, Entries
<1>02. 0 \in ThreadStatus!Threads
  BY StatusAssumption DEF ThreadStatus!Threads
<1>1. Extends(first, v1) /\ first # <<>>
  <2>1. CASE v1 = <<>>
    <3>. HIDE DEF e
    <3>1. first = <<e(0)>> /\ first \in Seq(Entries) /\ Len(first) = 1 /\ first[1] = e(0) /\ Len(v1) = 0
          /\ DOMAIN first = {1} /\ DOMAIN v1 = {}
      BY <2>1, <1>01, <1>02 DEF ThreadStatus!InitThreadArray, e
    <3>. HIDE DEF first
    <3>2. ThreadStatus!IndexOf(v1, e(0).id) = {}
      BY <3>1 DEF ThreadStatus!IndexOf
    <3>3. \A k \in (Len(v1) + 1)..Len(first) : k = 1
      BY <3>1
    <3>. QED BY <3>1, <3>2, <3>3, <1>01, <1>02 DEF Extends
  <2>2. CASE v1 # <<>>
    <3>1. first = v1
      BY <2>2 DEF ThreadStatus!InitThreadArray
    <3>. HIDE DEF first
    <3>. QED BY <2>2, <3>1, <1>0 DEF Extends
  <2>. QED BY <2>1, <2>2
<1>. HIDE DEF first
<1>2. CASE ThreadStatus!IndexOf(first, t) # {}
  <2>. arr = first
    BY <1>2 DEF ThreadStatus!FindThreadId, first
  <2>. QED BY <1>1, <1>2 DEF first
<1>3. CASE ThreadStatus!IndexOf(first, t) = {}
  <2>1. arr = Append(first, e(t))
    BY <1>3 DEF ThreadStatus!FindThreadId, first
  <2>. HIDE DEF arr, e
  <2>2. /\ first \in Seq(Entries) /\ Len(first) >= Len(v1)
        /\ \A k \in 1..Len(v1) : first[k] = v1[k]
        /\ \A k \in (Len(v1) + 1)..Len(first) :
              /\ first[k].status = "(none)" /\ ThreadStatus!IndexOf(v1, first[k].id) = {}
        /\ \A k, m \in DOMAIN first : first[k].id = first[m].id => k = m
    BY <1>1 DEF Extends
  <2>3. Len(first) \in Nat /\ DOMAIN first = 1..Len(first)
    BY <2>2, LenProperties
  <2>4. /\ arr \in Seq(Entries) /\ Len(arr) = Len(first) + 1 /\ arr[Len(first) + 1] = e(t)
        /\ \A k \in 1..Len(first) : arr[k] = first[k]
    BY <1>01, <2>1, <2>2, AppendProperties
  <2>5. DOMAIN arr = 1..(Len(first) + 1)
    BY <2>4, <2>3, LenProperties
  <2>6. \A k \in 1..Len(first) : first[k].id # t
    BY <1>3, <2>3 DEF ThreadStatus!IndexOf
  <2>7. ThreadStatus!IndexOf(v1, t) = {}
    BY <1>0, <2>2, <2>3, <2>6 DEF ThreadStatus!IndexOf
  <2>8. \A k \in (Len(v1) + 1)..Len(arr) :
              /\ arr[k].status = "(none)" /\ ThreadStatus!IndexOf(v1, arr[k].id) = {}
    <3>. TAKE k \in (Len(v1) + 1)..Len(arr)
    <3>1. CASE k <= Len(first)
      <4>. arr[k] = first[k] /\ k \in (Len(v1) + 1)..Len(first)
        BY <1>0, <2>3, <2>4, <3>1
      <4>. QED BY <2>2
    <3>2. CASE k > Len(first)
      <4>. arr[k] = e(t)
        BY <1>0, <2>2, <2>3, <2>4, <3>2
      <4>. QED BY <1>01, <2>7
    <3>. QED BY <1>0, <2>3, <3>1, <3>2
  <2>9. \A k, m \in DOMAIN arr : arr[k].id = arr[m].id => k = m
    BY <1>01, <2>2, <2>3, <2>4, <2>5, <2>6
  <2>10. \A k \in 1..Len(v1) : arr[k] = v1[k]
    BY <1>0, <2>2, <2>3, <2>4
  <2>11. Extends(arr, v1)
    <3>. arr \in Seq(Entries) /\ Len(arr) >= Len(v1)
      BY <1>0, <2>2, <2>3, <2>4
    <3>. QED BY <2>8, <2>9, <2>10 DEF Extends
  <2>12. ThreadStatus!IndexOf(arr, t) # {}
    BY <1>01, <2>3, <2>4, <2>5 DEF ThreadStatus!IndexOf
  <2>. QED BY <1>1, <2>11, <2>12 DEF arr, first
<1>. QED BY <1>2, <1>3

\* What a thread knows of its entry stays true in an array that extends the old one.
KnowsItsEntry(arr, t, w) ==
    LET inside == w.pc \in {"blocked", "restore"}
    IN  /\ inside \/ w.pc \in {"save", "set"} => w.idx \in ThreadStatus!IndexOf(arr, t)
        /\ inside => w.saved = [id |-> t, status |-> w.status]
        /\ ThreadStatus!IndexOf(arr, t) = {} => w.status = "(none)"
        /\ \A k \in ThreadStatus!IndexOf(arr, t) : arr[k].status = IF inside THEN "blocked" ELSE w.status

\* A thread still knows its entry when it is where it was, as it was.
LEMMA KnowsStill ==
    ASSUME NEW arr, NEW old, NEW t, NEW w, KnowsItsEntry(old, t, w),
           ThreadStatus!IndexOf(arr, t) = ThreadStatus!IndexOf(old, t),
           \A k \in ThreadStatus!IndexOf(old, t) : arr[k] = old[k]
    PROVE  KnowsItsEntry(arr, t, w)
BY DEF KnowsItsEntry

\* An entry of a thread stays its own when the array grows.
LEMMA KnownExtends ==
    ASSUME StatusInv, NEW arr, Extends(arr, v1), NEW t \in ThreadStatus!Threads
    PROVE  KnowsItsEntry(arr, t, v3[t])
<1>1. KnowsItsEntry(v1, t, v3[t])
  BY DEF StatusInv, ThreadStatus!EntriesAreKnown, KnowsItsEntry
<1>2. Len(v1) \in Nat /\ DOMAIN v1 = 1..Len(v1) /\ Len(arr) \in Nat /\ DOMAIN arr = 1..Len(arr)
  BY LenProperties DEF StatusInv, ThreadStatus!TypeOK, Extends
<1>3. CASE ThreadStatus!IndexOf(v1, t) # {}
  <2>1. ThreadStatus!IndexOf(arr, t) = ThreadStatus!IndexOf(v1, t)
    BY <1>2, <1>3 DEF Extends, ThreadStatus!IndexOf
  <2>2. \A k \in ThreadStatus!IndexOf(v1, t) : arr[k] = v1[k]
    BY <1>2 DEF Extends, ThreadStatus!IndexOf
  <2>. QED BY <1>1, <2>1, <2>2, KnowsStill
<1>4. CASE ThreadStatus!IndexOf(v1, t) = {}
  <2>1. \A k \in ThreadStatus!IndexOf(arr, t) : arr[k].status = "(none)"
    BY <1>2, <1>4 DEF Extends, ThreadStatus!IndexOf
  <2>. QED BY <1>1, <1>4, <2>1 DEF KnowsItsEntry
<1>. QED BY <1>3, <1>4

\* What the look-up gives, besides: the array is lost only after it has grown.
LEMMA AddThreadGives ==
    ASSUME StatusInv, ~v5, NEW t \in ThreadStatus!Threads, ThreadStatus!AddThread(t)
    PROVE  /\ Extends(v1', v1) /\ ThreadStatus!IndexOf(v1', t) # {}
           /\ v2' \in Nat /\ v2' >= InitArraySize /\ (v5' => Len(v1') > InitArraySize)
<1>1. Extends(v1', v1) /\ ThreadStatus!IndexOf(v1', t) # {} /\ v1' = ThreadStatus!FindThreadId(t)
  BY FindExtends DEF ThreadStatus!AddThread
<1>2. Len(v1') \in Nat
  BY <1>1, LenProperties DEF Extends
<1>3. /\ v2' = (IF Len(v1') > v2 THEN 2 * v2 ELSE v2)
      /\ v5' => Len(v1') > v2
  BY <1>1 DEF ThreadStatus!AddThread
<1>4. v2 \in Nat /\ v2 >= InitArraySize
  BY DEF StatusInv, ThreadStatus!TypeOK, ThreadStatus!EntriesAreKnown
<1>. QED BY <1>1, <1>2, <1>3, <1>4, StatusAssumption

\* The conjuncts of the invariant, of an array that extends the old one.
LEMMA StatusAgain ==
    ASSUME StatusInv,
           Extends(v1', v1), v2' \in Nat, v2' >= InitArraySize, v5' => Len(v1') > InitArraySize,
           v3' \in [ThreadStatus!Threads -> Workers],
           v4' \in ThreadStatus!Threads,
           \A t \in ThreadStatus!Threads : t > v4' => v3'[t].pc = "absent",
           \A t \in ThreadStatus!Threads : KnowsItsEntry(v1', t, v3'[t])
    PROVE  StatusInv'
BY DEF StatusInv, ThreadStatus!TypeOK, ThreadStatus!EntriesAreKnown, Extends, Entries, KnowsItsEntry, Workers

\* A thread looks itself up, in any of the calls.
LEMMA EnterStep ==
    ASSUME StatusInv, ~v5, NEW t \in ThreadStatus!Threads, ThreadStatus!Enter(t)
    PROVE  StatusInv'
<1>1. /\ Extends(v1', v1) /\ ThreadStatus!IndexOf(v1', t) # {}
      /\ v2' \in Nat /\ v2' >= InitArraySize /\ (v5' => Len(v1') > InitArraySize)
  BY AddThreadGives DEF ThreadStatus!Enter
<1>2. PICK pc \in {"save", "set"} :
         v3' = [v3 EXCEPT ![t].pc = pc, ![t].idx = ThreadStatus!IdxIn(v1', t), ![t].calls = @ - 1]
  BY DEF ThreadStatus!Enter
<1>3. ThreadStatus!IdxIn(v1', t) \in ThreadStatus!IndexOf(v1', t)
  <2>1. PICK k \in ThreadStatus!IndexOf(v1', t) : TRUE
    BY <1>1
  <2>2. DOMAIN v1' = 1..Len(v1') /\ Len(v1') \in Nat
    BY <1>1, LenProperties DEF Extends
  <2>3. k \in Nat /\ \A i \in ThreadStatus!IndexOf(v1', t) : i = k
    BY <1>1, <2>1, <2>2 DEF Extends, ThreadStatus!IndexOf
  <2>4. \A i \in ThreadStatus!IndexOf(v1', t) : k <= i
    BY <2>3
  <2>. QED BY <2>1, <2>4 DEF ThreadStatus!IdxIn
<1>4. ThreadStatus!IdxIn(v1', t) \in Nat
  <2>. DOMAIN v1' = 1..Len(v1') /\ Len(v1') \in Nat
    BY <1>1, LenProperties DEF Extends
  <2>. QED BY <1>3 DEF ThreadStatus!IndexOf
<1>5. v3[t].pc = "run" /\ v4' = v4
  BY DEF ThreadStatus!Enter
<1>. DEFINE i == ThreadStatus!IdxIn(v1', t)
<1>. HIDE DEF i
<1>6. /\ v3' \in [ThreadStatus!Threads -> Workers]
      /\ v3'[t].pc = pc /\ v3'[t].idx = i /\ v3'[t].status = v3[t].status /\ v3'[t].saved = v3[t].saved
      /\ \A u \in ThreadStatus!Threads \ {t} : v3'[u] = v3[u]
  <2>1. v3' = [v3 EXCEPT ![t].pc = pc, ![t].idx = i, ![t].calls = @ - 1] /\ i \in Nat
    BY <1>2, <1>4 DEF i
  <2>2. v3 \in [ThreadStatus!Threads -> Workers]
    BY DEF StatusInv, ThreadStatus!TypeOK, Workers
  <2>. QED BY <2>1, <2>2 DEF Workers
<1>7. \A u \in ThreadStatus!Threads : KnowsItsEntry(v1', u, v3[u])
  BY <1>1, KnownExtends
<1>8. KnowsItsEntry(v1', t, v3'[t])
  BY <1>3, <1>5, <1>6, <1>7 DEF KnowsItsEntry, i
<1>9. \A u \in ThreadStatus!Threads : KnowsItsEntry(v1', u, v3'[u])
  BY <1>6, <1>7, <1>8
<1>10. \A u \in ThreadStatus!Threads : u > v4' => v3'[u].pc = "absent"
  BY <1>5, <1>6 DEF StatusInv, ThreadStatus!EntriesAreKnown
<1>11. v4' \in ThreadStatus!Threads
  BY <1>5 DEF StatusInv, ThreadStatus!TypeOK
<1>. QED BY <1>1, <1>6, <1>9, <1>10, <1>11, StatusAgain

\* Creating a thread, and looking it up behind it.
LEMMA CreateStep ==
    ASSUME StatusInv, ~v5, ThreadStatus!CreateThread
    PROVE  StatusInv'
<1>0. 0 \in ThreadStatus!Threads /\ v4 + 1 \in ThreadStatus!Threads /\ v4 \in Nat
  BY StatusAssumption DEF ThreadStatus!CreateThread, ThreadStatus!Threads, StatusInv, ThreadStatus!TypeOK
<1>1. Extends(v1', v1)
  BY <1>0, FindExtends DEF ThreadStatus!CreateThread
<1>2. v2' \in Nat /\ v2' >= InitArraySize /\ ~v5' /\ v4' = v4 + 1 /\ v3[0].pc = "run"
  BY DEF ThreadStatus!CreateThread, StatusInv, ThreadStatus!TypeOK, ThreadStatus!EntriesAreKnown
<1>3. v3[v4 + 1].pc = "absent"
  BY <1>0 DEF StatusInv, ThreadStatus!EntriesAreKnown
<1>4. /\ v3' \in [ThreadStatus!Threads -> Workers]
      /\ \A u \in ThreadStatus!Threads :
            /\ v3'[u].pc = (IF u = 0 THEN "created" ELSE IF u = v4 + 1 THEN "run" ELSE v3[u].pc)
            /\ v3'[u].idx = v3[u].idx /\ v3'[u].status = v3[u].status /\ v3'[u].saved = v3[u].saved
  <2>. DEFINE w == [v3 EXCEPT ![v4 + 1].pc = "run"]
  <2>1. v3 \in [ThreadStatus!Threads -> Workers]
    BY DEF StatusInv, ThreadStatus!TypeOK, Workers
  <2>2. v3' = [w EXCEPT ![0].pc = "created"]
    BY <1>2 DEF ThreadStatus!CreateThread
  <2>3. /\ w \in [ThreadStatus!Threads -> Workers]
        /\ w[v4 + 1] = [v3[v4 + 1] EXCEPT !.pc = "run"]
        /\ \A u \in ThreadStatus!Threads : u # v4 + 1 => w[u] = v3[u]
    BY <1>0, <2>1 DEF Workers
  <2>. HIDE DEF w
  <2>4. /\ v3' \in [ThreadStatus!Threads -> Workers]
        /\ v3'[0] = [w[0] EXCEPT !.pc = "created"]
        /\ \A u \in ThreadStatus!Threads : u # 0 => v3'[u] = w[u]
    BY <1>0, <2>2, <2>3 DEF Workers
  <2>5. \A u \in ThreadStatus!Threads : v3[u] \in Workers
    BY <2>1
  <2>. QED BY <1>0, <2>3, <2>4, <2>5 DEF Workers
<1>5. \A u \in ThreadStatus!Threads : KnowsItsEntry(v1', u, v3[u])
  BY <1>1, KnownExtends
<1>6. \A u \in ThreadStatus!Threads : KnowsItsEntry(v1', u, v3'[u])
  BY <1>0, <1>2, <1>3, <1>4, <1>5 DEF KnowsItsEntry
<1>7. \A u \in ThreadStatus!Threads : u > v4' => v3'[u].pc = "absent"
  BY <1>0, <1>2, <1>4 DEF StatusInv, ThreadStatus!EntriesAreKnown, ThreadStatus!Threads
<1>. QED BY <1>0, <1>1, <1>2, <1>4, <1>6, <1>7, StatusAgain

\* The creator looks up the thread it has created.
LEMMA RegisterStep ==
    ASSUME StatusInv, ~v5, ThreadStatus!RegisterChild
    PROVE  StatusInv'
<1>0. 0 \in ThreadStatus!Threads /\ v4 \in ThreadStatus!Threads /\ v4' = v4 /\ v3[0].pc = "created"
  BY StatusAssumption DEF ThreadStatus!RegisterChild, ThreadStatus!Threads, StatusInv, ThreadStatus!TypeOK
<1>1. /\ Extends(v1', v1)
      /\ v2' \in Nat /\ v2' >= InitArraySize /\ (v5' => Len(v1') > InitArraySize)
  BY <1>0, AddThreadGives DEF ThreadStatus!RegisterChild
<1>4. /\ v3' \in [ThreadStatus!Threads -> Workers]
      /\ \A u \in ThreadStatus!Threads :
            /\ v3'[u].pc = (IF u = 0 THEN "run" ELSE v3[u].pc)
            /\ v3'[u].idx = v3[u].idx /\ v3'[u].status = v3[u].status /\ v3'[u].saved = v3[u].saved
  BY <1>0 DEF ThreadStatus!RegisterChild, StatusInv, ThreadStatus!TypeOK, Workers
<1>5. \A u \in ThreadStatus!Threads : KnowsItsEntry(v1', u, v3[u])
  BY <1>1, KnownExtends
<1>6. \A u \in ThreadStatus!Threads : KnowsItsEntry(v1', u, v3'[u])
  BY <1>0, <1>4, <1>5 DEF KnowsItsEntry
<1>7. \A u \in ThreadStatus!Threads : u > v4' => v3'[u].pc = "absent"
  <2>. v4 \in Nat
    BY <1>0 DEF ThreadStatus!Threads
  <2>. QED BY <1>0, <1>4 DEF StatusInv, ThreadStatus!EntriesAreKnown
<1>. QED BY <1>0, <1>1, <1>4, <1>6, <1>7, StatusAgain

\* Of a thread between the look-up and its return.
LEMMA InsideItsCall ==
    ASSUME StatusInv, NEW t \in ThreadStatus!Threads, v3[t].pc \in {"set", "save", "blocked", "restore"}
    PROVE  /\ v3[t] \in Workers /\ v3[t].idx \in 1..Len(v1) /\ v1[v3[t].idx] \in Entries /\ v1[v3[t].idx].id = t
           /\ v3[t].pc \in {"blocked", "restore"} => /\ v3[t].saved = [id |-> t, status |-> v3[t].status]
                                                   /\ v1[v3[t].idx].status = "blocked"
           /\ v3[t].pc \notin {"blocked", "restore"} => v1[v3[t].idx].status = v3[t].status
<1>1. v1 \in Seq(Entries) /\ v3[t] \in Workers /\ KnowsItsEntry(v1, t, v3[t])
  BY DEF StatusInv, ThreadStatus!TypeOK, ThreadStatus!EntriesAreKnown, Entries, Workers, KnowsItsEntry
<1>2. DOMAIN v1 = 1..Len(v1) /\ \A k \in 1..Len(v1) : v1[k] \in Entries
  BY <1>1, ElementOfSeq, LenProperties
<1>. QED BY <1>1, <1>2 DEF KnowsItsEntry, ThreadStatus!IndexOf

\* It may write its own entry, in the place it has found it.
LEMMA TouchKeeps ==
    ASSUME StatusInv, ~v5, NEW t \in ThreadStatus!Threads, v3[t].pc \in {"set", "save", "blocked", "restore"},
           UNCHANGED <<v2, v4, v5>>,
           NEW w \in Workers, v3' = [v3 EXCEPT ![t] = w], w.idx = v3[t].idx, w.pc \in {"run", "blocked", "restore"},
           NEW e \in Entries, v1' = [v1 EXCEPT ![v3[t].idx] = e], e.id = t,
           IF w.pc = "run" THEN e.status = w.status
           ELSE e.status = "blocked" /\ w.saved = [id |-> t, status |-> w.status]
    PROVE  StatusInv'
<1>. DEFINE x == v3[t].idx
<1>1. /\ v1 \in Seq(Entries) /\ Len(v1) \in Nat /\ DOMAIN v1 = 1..Len(v1)
      /\ \A k \in 1..Len(v1) : v1[k] \in Entries
      /\ \A k, m \in DOMAIN v1 : v1[k].id = v1[m].id => k = m
  <2>1. v1 \in Seq(Entries)
    BY DEF StatusInv, ThreadStatus!TypeOK, Entries
  <2>2. \A k, m \in DOMAIN v1 : v1[k].id = v1[m].id => k = m
    BY DEF StatusInv, ThreadStatus!EntriesAreKnown
  <2>. QED BY <2>1, <2>2, ElementOfSeq, LenProperties
<1>2. /\ v3 \in [ThreadStatus!Threads -> Workers]
      /\ v2 \in Nat /\ v2 >= InitArraySize /\ v4 \in ThreadStatus!Threads
      /\ \A u \in ThreadStatus!Threads : u > v4 => v3[u].pc = "absent"
  <2>1. v3 \in [ThreadStatus!Threads -> Workers] /\ v2 \in Nat /\ v4 \in ThreadStatus!Threads
    BY DEF StatusInv, ThreadStatus!TypeOK, Workers
  <2>2. v2 >= InitArraySize /\ \A u \in ThreadStatus!Threads : u > v4 => v3[u].pc = "absent"
    BY DEF StatusInv, ThreadStatus!EntriesAreKnown
  <2>. QED BY <2>1, <2>2
<1>02. \A u \in ThreadStatus!Threads : KnowsItsEntry(v1, u, v3[u])
  BY DEF StatusInv, ThreadStatus!EntriesAreKnown, KnowsItsEntry
<1>3. x \in 1..Len(v1) /\ v1[x].id = t
  BY InsideItsCall
<1>4. /\ v1' \in Seq(Entries) /\ Len(v1') = Len(v1) /\ DOMAIN v1' = DOMAIN v1 /\ v1'[x] = e
      /\ \A k \in DOMAIN v1 : k # x => v1'[k] = v1[k]
  BY <1>1, <1>3
<1>5. /\ v3' \in [ThreadStatus!Threads -> Workers] /\ v3'[t] = w
      /\ \A u \in ThreadStatus!Threads \ {t} : v3'[u] = v3[u]
  BY <1>2
<1>6. \A k \in DOMAIN v1' : v1'[k].id = v1[k].id
  BY <1>3, <1>4
<1>7. \A u \in ThreadStatus!Threads : ThreadStatus!IndexOf(v1', u) = ThreadStatus!IndexOf(v1, u)
  BY <1>4, <1>6 DEF ThreadStatus!IndexOf
<1>8. ThreadStatus!IndexOf(v1, t) = {x}
  BY <1>1, <1>3 DEF ThreadStatus!IndexOf
<1>9. KnowsItsEntry(v1', t, v3'[t])
  <2>1. ThreadStatus!IndexOf(v1', t) = {x} /\ v1'[x] = e /\ v3'[t] = w
    BY <1>4, <1>5, <1>7, <1>8
  <2>2. CASE w.pc = "run"
    BY <2>1, <2>2 DEF KnowsItsEntry
  <2>3. CASE w.pc # "run"
    BY <2>1, <2>3 DEF KnowsItsEntry
  <2>. QED BY <2>2, <2>3
<1>10. ASSUME NEW u \in ThreadStatus!Threads \ {t}
       PROVE  KnowsItsEntry(v1', u, v3'[u])
  <2>1. v3'[u] = v3[u] /\ KnowsItsEntry(v1, u, v3[u]) /\ ThreadStatus!IndexOf(v1', u) = ThreadStatus!IndexOf(v1, u)
    BY <1>02, <1>5, <1>7
  <2>2. \A k \in ThreadStatus!IndexOf(v1, u) : v1'[k] = v1[k]
    BY <1>3, <1>4 DEF ThreadStatus!IndexOf
  <2>3. KnowsItsEntry(v1', u, v3[u])
    BY <2>1, <2>2, KnowsStill
  <2>. QED BY <2>1, <2>3
<1>11. \A u \in ThreadStatus!Threads : KnowsItsEntry(v1', u, v3'[u])
  BY <1>9, <1>10
<1>12. \A u \in ThreadStatus!Threads : u > v4' => v3'[u].pc = "absent"
  <2>1. ~(t > v4)
    BY <1>2
  <2>. QED BY <1>2, <1>5, <2>1
<1>13. \A k, m \in DOMAIN v1' : v1'[k].id = v1'[m].id => k = m
  BY <1>1, <1>4, <1>6
<1>. QED BY <1>2, <1>4, <1>5, <1>11, <1>12, <1>13
     DEF StatusInv, ThreadStatus!TypeOK, ThreadStatus!EntriesAreKnown, KnowsItsEntry, Workers, Entries

\* A thread changes its own entry.
LEMMA TouchStep ==
    ASSUME StatusInv, ~v5, NEW t \in ThreadStatus!Threads, ThreadStatus!Set(t) \/ ThreadStatus!Wrapper(t)
    PROVE  StatusInv'
<1>. DEFINE x == v3[t].idx
<1>0. v3[t].pc \in {"set", "save", "blocked", "restore"} /\ UNCHANGED <<v2, v4, v5>>
  BY DEF ThreadStatus!Set, ThreadStatus!Wrapper, ThreadStatus!SaveStatus, ThreadStatus!Unblocked, ThreadStatus!RestoreStatus
<1>01. /\ v3[t] \in Workers /\ x \in 1..Len(v1) /\ v1[x] \in Entries /\ v1[x].id = t
       /\ v3[t].pc \in {"blocked", "restore"} => v3[t].saved = [id |-> t, status |-> v3[t].status] /\ v1[x].status = "blocked"
       /\ v3[t].pc \notin {"blocked", "restore"} => v1[x].status = v3[t].status
  BY <1>0, InsideItsCall
<1>1. CASE ThreadStatus!Set(t)
  <2>. DEFINE w == [v3[t] EXCEPT !.status = "working", !.pc = "run"]
              e == [id |-> t, status |-> "working"]
  <2>1. v3' = [v3 EXCEPT ![t] = w] /\ v1' = [v1 EXCEPT ![x] = e]
    BY <1>1 DEF ThreadStatus!Set
  <2>2. w \in Workers /\ w.idx = x /\ w.pc = "run" /\ w.status = "working"
    BY <1>01 DEF Workers
  <2>3. e \in Entries /\ e.id = t /\ e.status = "working"
    BY DEF Entries
  <2>. HIDE DEF w, e
  <2>. QED BY <1>0, <2>1, <2>2, <2>3, TouchKeeps
<1>2. CASE ThreadStatus!SaveStatus(t)
  <2>. DEFINE w == [v3[t] EXCEPT !.saved = v1[x], !.pc = "blocked"]
              e == [v1[x] EXCEPT !.status = "blocked"]
  <2>0. v3[t].pc = "save"
    BY <1>2 DEF ThreadStatus!SaveStatus
  <2>1. v3' = [v3 EXCEPT ![t] = w] /\ v1' = [v1 EXCEPT ![x] = e]
    BY <1>2 DEF ThreadStatus!SaveStatus
  <2>2. v1[x] = [id |-> t, status |-> v3[t].status]
    BY <1>01, <2>0 DEF Entries
  <2>3. w \in Workers /\ w.idx = x /\ w.pc = "blocked" /\ w.saved = [id |-> t, status |-> w.status]
    BY <1>01, <2>2 DEF Workers
  <2>4. e \in Entries /\ e.id = t /\ e.status = "blocked"
    BY <2>2 DEF Entries
  <2>. HIDE DEF w, e
  <2>. QED BY <1>0, <2>1, <2>3, <2>4, TouchKeeps
<1>3. CASE ThreadStatus!Unblocked(t)
  <2>. DEFINE w == [v3[t] EXCEPT !.pc = "restore"]  e == v1[x]
  <2>0. v3[t].pc = "blocked"
    BY <1>3 DEF ThreadStatus!Unblocked
  <2>1. v3' = [v3 EXCEPT ![t] = w] /\ v1' = v1
    BY <1>3 DEF ThreadStatus!Unblocked
  <2>2. v1' = [v1 EXCEPT ![x] = e]
    BY <2>1 DEF StatusInv, ThreadStatus!TypeOK
  <2>3. w \in Workers /\ w.idx = x /\ w.pc = "restore" /\ w.saved = [id |-> t, status |-> w.status]
    BY <1>01, <2>0 DEF Workers
  <2>4. e \in Entries /\ e.id = t /\ e.status = "blocked"
    BY <1>01, <2>0
  <2>. HIDE DEF w, e
  <2>. QED BY <1>0, <2>1, <2>2, <2>3, <2>4, TouchKeeps
<1>4. CASE ThreadStatus!RestoreStatus(t)
  <2>. DEFINE w == [v3[t] EXCEPT !.pc = "run"]  e == v3[t].saved
  <2>0. v3[t].pc = "restore"
    BY <1>4 DEF ThreadStatus!RestoreStatus
  <2>1. v3' = [v3 EXCEPT ![t] = w] /\ v1' = [v1 EXCEPT ![x] = e]
    BY <1>4 DEF ThreadStatus!RestoreStatus
  <2>2. w \in Workers /\ w.idx = x /\ w.pc = "run" /\ w.status = v3[t].status
    BY <1>01 DEF Workers
  <2>3. e \in Entries /\ e.id = t /\ e.status = v3[t].status
    BY <1>01, <2>0 DEF Entries, Workers
  <2>. HIDE DEF w, e
  <2>. QED BY <1>0, <2>1, <2>2, <2>3, TouchKeeps
<1>. QED BY <1>1, <1>2, <1>3, <1>4 DEF ThreadStatus!Wrapper

\* Every step of the status display keeps its invariant.
LEMMA StatusStep ==
    ASSUME StatusInv, ThreadStatus!Next
    PROVE  StatusInv'
BY EnterStep, CreateStep, RegisterStep, TouchStep DEF ThreadStatus!Next

\* What the invariant says of the display.
LEMMA StatusIsOwn ==
    ASSUME StatusInv
    PROVE  ThreadStatus!StatusIsItsOwn
<1>1. \A t \in ThreadStatus!Threads : KnowsItsEntry(v1, t, v3[t])
  BY DEF StatusInv, ThreadStatus!EntriesAreKnown, KnowsItsEntry
<1>2. ASSUME NEW t \in ThreadStatus!Threads
      PROVE  \A k, m \in ThreadStatus!IndexOf(v1, t) : k = m
  BY DEF StatusInv, ThreadStatus!EntriesAreKnown, ThreadStatus!IndexOf
<1>3. v5 => Len(v1) > InitArraySize
  BY DEF StatusInv, ThreadStatus!EntriesAreKnown
<1>. QED BY <1>1, <1>2, <1>3 DEF KnowsItsEntry, ThreadStatus!StatusIsItsOwn

-----------------------------------------------------------------------------
(* The shell. *)

\* q without its k-th element.
Without(q, k) == SubSeq(q, 1, k - 1) \o SubSeq(q, k + 1, Len(q))

\* The elements before it stay and those behind it move down.
LEMMA WithoutIs ==
    ASSUME NEW S, NEW q \in Seq(S), NEW k \in 1..Len(q)
    PROVE  /\ Without(q, k) \in Seq(S) /\ Len(Without(q, k)) = Len(q) - 1
           /\ \A i \in 1..(Len(q) - 1) : Without(q, k)[i] = q[IF i < k THEN i ELSE i + 1]
<1>. DEFINE front == SubSeq(q, 1, k - 1)  back == SubSeq(q, k + 1, Len(q))  n == Len(q)
<1>1. n \in Nat /\ k \in Nat /\ k >= 1 /\ k <= n /\ \A i \in 1..n : q[i] \in S
  BY LenProperties, ElementOfSeq
<1>. HIDE DEF n
<1>2. front \in Seq(S) /\ Len(front) = k - 1 /\ \A i \in 1..(k - 1) : front[i] = q[i]
  BY <1>1 DEF n
<1>3. back \in Seq(S) /\ Len(back) = n - k /\ \A i \in 1..(n - k) : back[i] = q[i + k]
  <2>1. back = [i \in 1..(n - k) |-> q[i + k]]
    BY <1>1 DEF n
  <2>2. \A i \in 1..(n - k) : q[i + k] \in S
    BY <1>1
  <2>. DEFINE m == n - k
  <2>3. m \in Nat
    BY <1>1
  <2>. HIDE DEF m, back
  <2>4. back \in [1..m -> S]
    BY <2>1, <2>2 DEF m
  <2>5. back \in Seq(S) /\ Len(back) = m
    BY <2>3, <2>4
  <2>6. \A i \in 1..m : back[i] = q[i + k]
    BY <2>1 DEF m
  <2>. QED BY <2>5, <2>6 DEF m
<1>4. Without(q, k) = front \o back
  BY DEF Without
<1>. DEFINE r == Without(q, k)
<1>. HIDE DEF front, back, r
<1>5. r \in Seq(S) /\ Len(r) = Len(front) + Len(back)
      /\ \A i \in 1..(Len(front) + Len(back)) : r[i] = IF i <= Len(front) THEN front[i] ELSE back[i - Len(front)]
  <2>1. r = front \o back /\ front \in Seq(S) /\ back \in Seq(S)
    BY <1>2, <1>3, <1>4 DEF r
  <2>. QED BY <2>1, ConcatProperties
<1>6. Len(front) + Len(back) = n - 1
  BY <1>1, <1>2, <1>3
<1>7. ASSUME NEW i \in 1..(n - 1)
      PROVE  r[i] = q[IF i < k THEN i ELSE i + 1]
  <2>1. r[i] = IF i <= k - 1 THEN front[i] ELSE back[i - (k - 1)]
    BY <1>2, <1>5, <1>6
  <2>2. CASE i < k
    BY <2>1, <2>2, <1>1, <1>2
  <2>3. CASE ~(i < k)
    <3>1. i - (k - 1) \in 1..(n - k) /\ (i - (k - 1)) + k = i + 1
      BY <2>3, <1>1
    <3>2. back[i - (k - 1)] = q[i + 1]
      BY <3>1, <1>3
    <3>. QED BY <2>1, <2>3, <3>2, <1>1
  <2>. QED BY <2>2, <2>3
<1>. QED BY <1>5, <1>6, <1>7 DEF r, n

\* A function that is defined by recursion over the numbers up to m exists.
Unfolds(f, S, a, step, m) ==
    f \in [0..m -> S] /\ f[0] = a /\ \A n \in 1..m : f[n] = step[<<f[n - 1], n>>]
LEMMA RecursionExists ==
    ASSUME NEW S, NEW a \in S, NEW step \in [S \X Nat -> S], NEW m \in Nat
    PROVE  \E f : Unfolds(f, S, a, step, m)
<1>. DEFINE Has(k) == \E f : Unfolds(f, S, a, step, k)
            bad == {k \in Nat : ~Has(k)}
<1>1. Has(0)
  <2>. DEFINE f == [n \in 0..0 |-> a]
  <2>1. f \in [0..0 -> S] /\ f[0] = a /\ \A n \in 1..0 : FALSE
    OBVIOUS
  <2>. HIDE DEF f
  <2>. QED BY <2>1 DEF Unfolds
<1>2. ASSUME NEW k \in Nat, Has(k)
      PROVE  Has(k + 1)
  <2>1. PICK f \in [0..k -> S] : f[0] = a /\ \A n \in 1..k : f[n] = step[<<f[n - 1], n>>]
    BY <1>2 DEF Unfolds
  <2>. DEFINE g == [n \in 0..(k + 1) |-> IF n <= k THEN f[n] ELSE step[<<f[k], k + 1>>]]
  <2>2. step[<<f[k], k + 1>>] \in S
    <3>1. f[k] \in S /\ k + 1 \in Nat
      OBVIOUS
    <3>. QED BY <3>1
  <2>3. g \in [0..(k + 1) -> S] /\ g[0] = a /\ (\A n \in 0..k : g[n] = f[n]) /\ g[k + 1] = step[<<f[k], k + 1>>]
    BY <2>1, <2>2
  <2>. HIDE DEF g
  <2>4. ASSUME NEW n \in 1..(k + 1)
        PROVE  g[n] = step[<<g[n - 1], n>>]
    <3>1. CASE n = k + 1
      <4>1. n - 1 = k /\ g[k] = f[k]
        BY <3>1, <2>3
      <4>. QED BY <3>1, <4>1, <2>3
    <3>2. CASE n # k + 1
      <4>1. n \in 1..k /\ n \in 0..k /\ n - 1 \in 0..k
        BY <3>2
      <4>. QED BY <4>1, <2>1, <2>3
    <3>. QED BY <3>1, <3>2
  <2>. QED BY <2>3, <2>4 DEF Unfolds
<1>. HIDE DEF Has
<1>3. bad = {}
  <2>. SUFFICES ASSUME bad # {} PROVE FALSE
    OBVIOUS
  <2>1. PICK k \in bad : \A n \in bad : k <= n
    BY LeastNatural
  <2>2. k # 0
    BY <2>1, <1>1
  <2>3. k - 1 \in Nat /\ k - 1 + 1 = k
    BY <2>1, <2>2
  <2>4. Has(k - 1)
    BY <2>1, <2>3
  <2>. QED BY <2>1, <2>3, <2>4, <1>2
<1>. QED BY <1>3 DEF Has

\* A list of processes in which no pid is twice.
ListEntries == [pid : Int, freed : BOOLEAN]
Distinct(l) == l \in Seq(ListEntries) /\ \A i, k \in 1..Len(l) : l[i].pid = l[k].pid => i = k

\* pid_erase takes the one entry of the pid off the list, if there is one.
ErasesTo(l, p, r) ==
    /\ Distinct(r)
    /\ \A e : e \in Shell!Range(r) <=> e \in Shell!Range(l) /\ e.pid # p
    /\ l # <<>> /\ l[1].pid # p => r # <<>> /\ r[1] = l[1]
LEMMA PidEraseIs ==
    ASSUME NEW l, Distinct(l), NEW p
    PROVE  ErasesTo(l, p, Shell!PidErase(l, p))
<1>. DEFINE found == {k \in DOMAIN l : l[k].pid = p}
            last == Shell!Max(found)
            r == Shell!PidErase(l, p)
<1>1. l \in Seq(ListEntries) /\ Len(l) \in Nat /\ DOMAIN l = 1..Len(l) /\ \A i, k \in 1..Len(l) : l[i].pid = l[k].pid => i = k
  BY DEF Distinct
<1>2. CASE found = {}
  <2>1. r = l
    BY <1>2 DEF Shell!PidErase
  <2>2. \A e \in Shell!Range(l) : e.pid # p
    BY <1>2 DEF Shell!Range
  <2>. QED BY <2>1, <2>2 DEF ErasesTo
<1>3. CASE found # {}
  <2>1. PICK k \in 1..Len(l) : l[k].pid = p /\ found = {k}
    BY <1>1, <1>3
  <2>2. last = k
    <3>1. \A x \in {k} : \A y \in {k} : x >= y
      BY <1>1
    <3>. HIDE DEF found
    <3>. QED BY <2>1, <3>1 DEF Shell!Max
  <2>3. r = Without(l, last)
    BY <1>3 DEF Shell!PidErase, Without
  <2>. HIDE DEF found, last, r
  <2>4. /\ r \in Seq(ListEntries) /\ Len(r) = Len(l) - 1
        /\ \A i \in 1..(Len(l) - 1) : r[i] = l[IF i < k THEN i ELSE i + 1]
    <3>1. r = Without(l, k)
      BY <2>2, <2>3
    <3>2. /\ Without(l, k) \in Seq(ListEntries) /\ Len(Without(l, k)) = Len(l) - 1
          /\ \A i \in 1..(Len(l) - 1) : Without(l, k)[i] = l[IF i < k THEN i ELSE i + 1]
      BY <1>1, WithoutIs, Zenon
    <3>. QED BY <3>1, <3>2, Zenon
  <2>. DEFINE from(i) == IF i < k THEN i ELSE i + 1
  <2>5. \A i \in 1..(Len(l) - 1) : from(i) \in 1..Len(l) /\ from(i) # k
    BY <1>1
  <2>6. \A i, j \in 1..(Len(l) - 1) : from(i) = from(j) => i = j
    BY <1>1
  <2>7. \A j \in 1..Len(l) : j # k => \E i \in 1..(Len(l) - 1) : from(i) = j
    <3>. SUFFICES ASSUME NEW j \in 1..Len(l), j # k
                  PROVE  \E i \in 1..(Len(l) - 1) : from(i) = j
      OBVIOUS
    <3>1. CASE j < k
      <4>1. j \in 1..(Len(l) - 1) /\ from(j) = j
        BY <3>1, <1>1
      <4>. QED BY <4>1
    <3>2. CASE j > k
      <4>1. j - 1 \in 1..(Len(l) - 1) /\ from(j - 1) = j
        BY <3>2, <1>1
      <4>. QED BY <4>1
    <3>. QED BY <3>1, <3>2
  <2>8. \A i \in 1..(Len(l) - 1) : r[i] = l[from(i)]
    BY <2>4
  <2>9. l # <<>> /\ l[1].pid # p => r # <<>> /\ r[1] = l[1]
    <3>. SUFFICES ASSUME l[1].pid # p PROVE r # <<>> /\ r[1] = l[1]
      OBVIOUS
    <3>1. k > 1
      BY <1>1, <2>1
    <3>2. 1 \in 1..(Len(l) - 1) /\ from(1) = 1
      BY <3>1, <1>1
    <3>3. r[1] = l[1]
      BY <3>2, <2>8
    <3>4. Len(r) # 0
      BY <2>4, <3>2, <1>1
    <3>. QED BY <3>3, <3>4
  <2>. HIDE DEF from
  <2>10. Len(r) \in Nat /\ DOMAIN r = 1..(Len(l) - 1)
    BY <2>4, <1>1
  <2>11. Distinct(r)
    <3>. SUFFICES ASSUME NEW i \in 1..(Len(l) - 1), NEW j \in 1..(Len(l) - 1), r[i].pid = r[j].pid
                  PROVE  i = j
      BY <2>4 DEF Distinct
    <3>1. from(i) = from(j)
      BY <2>5, <2>8, <1>1
    <3>. QED BY <3>1, <2>6
  <2>12. ASSUME NEW e
         PROVE  e \in Shell!Range(r) <=> e \in Shell!Range(l) /\ e.pid # p
    <3>1. ASSUME e \in Shell!Range(r) PROVE e \in Shell!Range(l) /\ e.pid # p
      <4>1. PICK i \in 1..(Len(l) - 1) : e = r[i]
        BY <3>1, <2>10 DEF Shell!Range
      <4>2. e = l[from(i)] /\ from(i) \in 1..Len(l) /\ from(i) # k
        BY <4>1, <2>5, <2>8
      <4>. QED BY <4>2, <1>1, <2>1 DEF Shell!Range
    <3>2. ASSUME e \in Shell!Range(l), e.pid # p PROVE e \in Shell!Range(r)
      <4>1. PICK j \in 1..Len(l) : e = l[j]
        BY <3>2, <1>1 DEF Shell!Range
      <4>2. PICK i \in 1..(Len(l) - 1) : from(i) = j
        BY <4>1, <3>2, <2>1, <2>7
      <4>. QED BY <4>1, <4>2, <2>8, <2>10 DEF Shell!Range
    <3>. QED BY <3>1, <3>2
  <2>. QED BY <2>9, <2>11, <2>12 DEF ErasesTo, r
<1>. QED BY <1>2, <1>3

\* handle_sigint's walk takes only entries that do not lead off the list, and the
\* shell's, the first, if it is one of them.
WalksTo(l, r) ==
    /\ Distinct(r) /\ Shell!Range(r) \subseteq Shell!Range(l)
    /\ \A e \in Shell!Range(l) : e \notin Shell!Range(r) => ~Shell!Leads(e.pid)
    /\ Shell!Leads(l[1].pid) => r # <<>> /\ r[1] = l[1]
    /\ ~Shell!Leads(l[1].pid) => \A e \in Shell!Range(r) : e.pid # l[1].pid
LEMMA WalkedIs ==
    ASSUME NEW l, Distinct(l), l # <<>>
    PROVE  WalksTo(l, Shell!Walked(l))
<1>. DEFINE S == {r \in Seq(ListEntries) : Distinct(r)}
            OneStep(r, n) == IF n <= Len(r) /\ ~Shell!Leads(r[n].pid) THEN Shell!PidErase(r, r[n].pid) ELSE r
            step == [pair \in S \X Nat |-> OneStep(pair[1], pair[2])]
            m == Len(l)
            Is(f) == f = [n \in 0..m |-> IF n = 0 THEN l
                                         ELSE LET r == f[n - 1]
                                              IN  IF n <= Len(r) /\ ~Shell!Leads(r[n].pid)
                                                  THEN Shell!PidErase(r, r[n].pid) ELSE r]
            walk == CHOOSE f : Is(f)
<1>1. m \in Nat /\ m >= 1 /\ l \in S /\ l[1] \in Shell!Range(l)
  BY EmptySeq DEF Distinct, Shell!Range
<1>2. \A r \in S : \A n \in Nat : OneStep(r, n) \in S
  <2>. SUFFICES ASSUME NEW r \in S, NEW n \in Nat PROVE Distinct(OneStep(r, n))
    BY DEF Distinct
  <2>1. Distinct(r) /\ Distinct(Shell!PidErase(r, r[n].pid))
    BY PidEraseIs DEF ErasesTo
  <2>. QED BY <2>1
<1>3. \E f : Is(f)
  <2>1. step \in [S \X Nat -> S]
    <3>. HIDE DEF OneStep, S
    <3>. QED BY <1>2
  <2>2. \A r \in S : \A n \in Nat : step[<<r, n>>] = OneStep(r, n)
    <3>. HIDE DEF OneStep, S
    <3>. QED OBVIOUS
  <2>. HIDE DEF step
  <2>3. PICK f \in [0..m -> S] : f[0] = l /\ \A n \in 1..m : f[n] = step[<<f[n - 1], n>>]
    <3>. HIDE DEF S, m
    <3>1. \E f : Unfolds(f, S, l, step, m)
      BY <1>1, <2>1, RecursionExists
    <3>. QED BY <3>1 DEF Unfolds
  <2>4. \A n \in 0..m : f[n] = IF n = 0 THEN l ELSE OneStep(f[n - 1], n)
    <3>. SUFFICES ASSUME NEW n \in 0..m, n # 0 PROVE f[n] = OneStep(f[n - 1], n)
      BY <2>3
    <3>1. n \in 1..m /\ n \in Nat /\ n - 1 \in 0..m
      BY <1>1
    <3>2. f[n - 1] \in S
      <4>. HIDE DEF S, m
      <4>. QED BY <3>1
    <3>. HIDE DEF S, OneStep, m
    <3>. QED BY <3>1, <3>2, <2>2, <2>3
  <2>5. f = [n \in 0..m |-> IF n = 0 THEN l ELSE OneStep(f[n - 1], n)]
    <3>. HIDE DEF OneStep, S, m
    <3>. QED BY <2>4
  <2>. QED BY <2>5
<1>4. Is(walk)
  <2>. HIDE DEF Is
  <2>. QED BY <1>3
<1>5. Shell!Walked(l) = walk[m]
  BY DEF Shell!Walked
<1>6. walk[0] = l /\ \A n \in 1..m : walk[n] = OneStep(walk[n - 1], n)
  <2>1. \A n \in 0..m : walk[n] = IF n = 0 THEN l ELSE OneStep(walk[n - 1], n)
    <3>. HIDE DEF walk, m
    <3>. QED BY <1>4
  <2>. HIDE DEF walk, m, OneStep
  <2>. QED BY <2>1, <1>1
<1>. HIDE DEF walk, Is, step
<1>. DEFINE Good(r, n) ==
              /\ Distinct(r) /\ Shell!Range(r) \subseteq Shell!Range(l)
              /\ \A e \in Shell!Range(l) : e \notin Shell!Range(r) => ~Shell!Leads(e.pid)
              /\ n = 0 \/ Shell!Leads(l[1].pid) => r # <<>> /\ r[1] = l[1]
              /\ n # 0 /\ ~Shell!Leads(l[1].pid) => \A e \in Shell!Range(r) : e.pid # l[1].pid
<1>7. Good(l, 0)
  BY <1>1
<1>8. ASSUME NEW n \in 1..m, NEW r, Good(r, n - 1)
      PROVE  Good(OneStep(r, n), n)
  <2>. DEFINE p == r[n].pid  t == Shell!PidErase(r, p)
  <2>0. r \in Seq(ListEntries) /\ Len(r) \in Nat /\ DOMAIN r = 1..Len(r)
    BY <1>8 DEF Distinct
  <2>1. CASE n <= Len(r) /\ ~Shell!Leads(p)
    <3>1. ErasesTo(r, p, t)
      BY <1>8, PidEraseIs
    <3>2. OneStep(r, n) = t
      BY <2>1
    <3>. HIDE DEF t
    <3>3. Distinct(t) /\ Shell!Range(t) \subseteq Shell!Range(l)
      BY <1>8, <3>1 DEF ErasesTo
    <3>4. ASSUME NEW e \in Shell!Range(l), e \notin Shell!Range(t)
          PROVE  ~Shell!Leads(e.pid)
      <4>1. CASE e \in Shell!Range(r)
        <5>1. e.pid = p
          BY <3>1, <3>4, <4>1 DEF ErasesTo
        <5>. HIDE DEF p
        <5>. QED BY <5>1, <2>1
      <4>2. CASE e \notin Shell!Range(r)
        BY <1>8, <4>2
      <4>. QED BY <4>1, <4>2
    <3>5. ASSUME Shell!Leads(l[1].pid) PROVE t # <<>> /\ t[1] = l[1]
      <4>1. r # <<>> /\ r[1] = l[1]
        BY <1>8, <3>5
      <4>2. p # r[1].pid
        <5>. HIDE DEF p
        <5>. QED BY <4>1, <3>5, <2>1
      <4>. QED BY <3>1, <4>1, <4>2 DEF ErasesTo
    <3>6. ASSUME ~Shell!Leads(l[1].pid), NEW e \in Shell!Range(t) PROVE e.pid # l[1].pid
      <4>1. e \in Shell!Range(r) /\ e.pid # p
        BY <3>1 DEF ErasesTo
      <4>2. CASE n = 1
        <5>1. p = l[1].pid
          BY <4>2, <1>8
        <5>. QED BY <4>1, <5>1
      <4>3. CASE n # 1
        BY <4>1, <4>3, <3>6, <1>8
      <4>. QED BY <4>2, <4>3
    <3>. QED BY <3>2, <3>3, <3>4, <3>5, <3>6
  <2>2. CASE ~(n <= Len(r) /\ ~Shell!Leads(p))
    <3>1. OneStep(r, n) = r
      BY <2>2
    <3>2. ASSUME ~Shell!Leads(l[1].pid), n = 1 PROVE FALSE
      <4>1. r # <<>> /\ r[1] = l[1]
        BY <1>8, <3>2
      <4>2. 1 <= Len(r)
        BY <4>1, <2>0, EmptySeq
      <4>. QED BY <2>2, <3>2, <4>1, <4>2
    <3>. HIDE DEF OneStep
    <3>. QED BY <1>8, <3>1, <3>2
  <2>. QED BY <2>1, <2>2
<1>. DEFINE bad == {n \in 0..m : ~Good(walk[n], n)}
<1>. HIDE DEF Good, OneStep, m
<1>9. bad = {}
  <2>. SUFFICES ASSUME bad # {} PROVE FALSE
    OBVIOUS
  <2>1. bad \subseteq Nat
    BY <1>1
  <2>2. PICK n \in bad : \A i \in bad : n <= i
    BY <2>1, LeastNatural
  <2>3. n # 0
    BY <2>2, <1>6, <1>7
  <2>4. n \in 1..m /\ n - 1 \in 0..m /\ ~(n <= n - 1)
    BY <2>2, <2>3, <1>1
  <2>5. Good(walk[n - 1], n - 1)
    BY <2>2, <2>4
  <2>6. Good(OneStep(walk[n - 1], n), n)
    BY <1>8, <2>4, <2>5
  <2>. QED BY <2>2, <2>4, <2>6, <1>6
<1>10. Good(walk[m], m)
  BY <1>1, <1>9
<1>. QED BY <1>1, <1>5, <1>10 DEF Good, WalksTo

\* What the model keeps of a child.
Children == [state : {"running", "stopped", "ended", "reaped"}, ok : BOOLEAN, leads : BOOLEAN]
Attended == {"setpgid", "wait", "erase", "unlist"}    \* there is a child that is being attended to

\* What an entry of the list may be: the shell, the one that has no pid yet, the child
\* that is attended to, or a background process that has not been waited for.
EntryHolds(e, pc, child) ==
    \/ e = Shell!Listed(Shell!ShellPid)
    \/ pc = "forked" /\ e = Shell!Listed(Shell!NoPid)
    \/ /\ pc \in Attended /\ e.pid = Len(child) /\ e.pid \in 1..Len(child)
       /\ e.freed => pc = "unlist"
    \/ /\ ~(pc \in Attended \cup {"forked"} /\ e.pid = Len(child))
       /\ e.pid \in 1..Len(child) /\ ~e.freed
       /\ child[e.pid].state # "reaped" /\ child[e.pid].leads

\* A child that runs or is stopped is listed and, once attended to, leads; the one just
\* forked is not listed yet.
ChildHolds(p, pc, child, procs) ==
    child[p].state \in {"running", "stopped"} =>
      \/ p = Len(child) /\ pc = "forked"
      \/ /\ \E e \in Shell!Range(procs) : e.pid = p
         /\ child[p].leads \/ (p = Len(child) /\ pc \in {"setpgid", "wait"})

\* How far the child that is attended to has come.
CurrentHolds(pc, child, procs) ==
    /\ pc \in Attended \cup {"forked"} => Len(child) > 0
    /\ pc \in {"forked", "setpgid", "wait"} => child[Len(child)].state # "reaped"
    /\ pc \in {"erase", "unlist"} => child[Len(child)].state = "reaped"
    /\ pc = "forked" => Len(procs) > 1 /\ procs[Len(procs)] = Shell!Listed(Shell!NoPid)

ListHolds(pc, procs, child) ==
    /\ child \in Seq(Children) /\ Distinct(procs)
    /\ procs # <<>> /\ procs[1] = Shell!Listed(Shell!ShellPid)
    /\ \A e \in Shell!Range(procs) : EntryHolds(e, pc, child)
    /\ \A p \in 1..Len(child) : ChildHolds(p, pc, child, procs)
    /\ CurrentHolds(pc, child, procs)
ListInv == v9 = "fine" => ListHolds(v1, v6, v7)

\* Nothing has been started.
LEMMA ListInit ==
    ASSUME Shell!Init
    PROVE  ListInv
<1>1. v1 = "prompt" /\ v6 = <<Shell!Listed(0)>> /\ v7 = <<>> /\ Shell!ShellPid = 0
  BY DEF Shell!Init, Shell!ShellPid
<1>2. Distinct(v6) /\ v6 # <<>> /\ v6[1] = Shell!Listed(0) /\ Shell!Range(v6) = {Shell!Listed(0)}
  <2>. DEFINE e == Shell!Listed(0)
  <2>1. e \in ListEntries
    BY DEF ListEntries, Shell!Listed
  <2>. HIDE DEF e
  <2>2. <<e>> \in Seq(ListEntries) /\ Len(<<e>>) = 1 /\ <<e>>[1] = e /\ DOMAIN <<e>> = 1..1 /\ <<e>> # <<>>
    BY <2>1
  <2>. QED BY <1>1, <2>2 DEF Distinct, Shell!Range, e
<1>3. v7 \in Seq(Children) /\ Len(v7) = 0
  BY <1>1
<1>4. CurrentHolds(v1, v7, v6)
  BY <1>1 DEF CurrentHolds, Attended
<1>. QED BY <1>1, <1>2, <1>3, <1>4 DEF ListInv, ListHolds, EntryHolds, ChildHolds

\* The list between two steps of the shell, when nobody is attended to.
LEMMA IdleHolds ==
    ASSUME ListHolds(v1, v6, v7), v1 \notin Attended \cup {"forked"},
           NEW pc, pc \notin Attended \cup {"forked"}
    PROVE  ListHolds(pc, v6, v7)
BY DEF ListHolds, EntryHolds, ChildHolds, CurrentHolds, Attended

\* Returns leads to the next token or the prompt.
Idle == {"prompt", "exec", "builtin", "exited"}
LEMMA ReturnsIdle ==
    ASSUME NEW result, Shell!Returns(result)
    PROVE  v1' \in Idle
BY DEF Shell!Returns, Idle

\* A child that is killed, stopped, continued or ends stays what it was otherwise.
Becomes(new, old, p, s) ==
    /\ new \in Seq(Children) /\ Len(new) = Len(old)
    /\ \A q \in 1..Len(old) : q # p => new[q] = old[q]
    /\ new[p].leads = old[p].leads /\ new[p].state = s
LEMMA SignalledIs ==
    ASSUME v7 \in Seq(Children), NEW p \in 1..Len(v7), NEW s \in {"running", "stopped", "ended"}
    PROVE  IF v7[p].state \in {"running", "stopped"}
           THEN Becomes(Shell!Signalled(p, s), v7, p, s)
           ELSE Shell!Signalled(p, s) = v7
<1>. Len(v7) \in Nat /\ DOMAIN v7 = 1..Len(v7) /\ v7[p] \in Children
  OBVIOUS
<1>1. CASE v7[p].state \in {"running", "stopped"}
  <2>1. Shell!Signalled(p, s) = [v7 EXCEPT ![p] = [v7[p] EXCEPT !.state = s]]
    BY <1>1 DEF Shell!Signalled, Shell!Pids
  <2>2. [v7[p] EXCEPT !.state = s] \in Children
    BY DEF Children
  <2>3. [v7[p] EXCEPT !.state = s].leads = v7[p].leads /\ [v7[p] EXCEPT !.state = s].state = s
    BY DEF Children
  <2>. QED BY <1>1, <2>1, <2>2, <2>3 DEF Becomes
<1>2. CASE v7[p].state \notin {"running", "stopped"}
  BY <1>2 DEF Shell!Signalled
<1>. QED BY <1>1, <1>2

\* A child that runs may stop, one that is stopped run on, and either end.
LEMMA ChangeKeeps ==
    ASSUME ListHolds(v1, v6, v7), NEW p \in 1..Len(v7), v7[p].state \in {"running", "stopped"},
           NEW s \in {"running", "stopped", "ended"}, NEW new, Becomes(new, v7, p, s)
    PROVE  ListHolds(v1, v6, new)
<1>1. /\ v7 \in Seq(Children) /\ Len(v7) \in Nat /\ Len(new) = Len(v7) /\ new \in Seq(Children)
  BY DEF ListHolds, Becomes
<1>2. \A q \in 1..Len(v7) : /\ new[q].leads = v7[q].leads /\ (new[q].state = "reaped" <=> v7[q].state = "reaped")
                            /\ new[q].state \in {"running", "stopped"} => v7[q].state \in {"running", "stopped"}
  BY DEF Becomes
<1>3. \A e \in Shell!Range(v6) : EntryHolds(e, v1, new)
  BY <1>1, <1>2 DEF ListHolds, EntryHolds
<1>4. \A q \in 1..Len(v7) : ChildHolds(q, v1, new, v6)
  BY <1>1, <1>2 DEF ListHolds, ChildHolds
<1>5. CurrentHolds(v1, new, v6)
  BY <1>1, <1>2 DEF ListHolds, CurrentHolds, Attended
<1>. QED BY <1>1, <1>3, <1>4, <1>5 DEF ListHolds

\* kill: the process ends and its entry goes.
LEMMA KillKeeps ==
    ASSUME ListHolds(v1, v6, v7), v1 = "prompt", NEW p \in 1..Len(v7)
    PROVE  ListHolds("prompt", Shell!PidErase(v6, p), Shell!Signalled(p, "ended"))
<1>. DEFINE new == Shell!Signalled(p, "ended")  r == Shell!PidErase(v6, p)
<1>1. ListHolds(v1, v6, new) /\ Len(new) = Len(v7) /\ new[p].state \notin {"running", "stopped"}
  <2>1. CASE v7[p].state \in {"running", "stopped"}
    <3>1. Becomes(new, v7, p, "ended")
      BY <2>1, SignalledIs DEF ListHolds
    <3>. HIDE DEF new
    <3>. QED BY <2>1, <3>1, ChangeKeeps DEF Becomes
  <2>2. CASE v7[p].state \notin {"running", "stopped"}
    BY <2>2, SignalledIs DEF ListHolds
  <2>. QED BY <2>1, <2>2
<1>2. ErasesTo(v6, p, r)
  BY PidEraseIs DEF ListHolds
<1>3. p # 0 /\ Shell!ShellPid = 0 /\ Shell!Listed(0).pid = 0
  <2>1. Len(v7) \in Nat
    BY DEF ListHolds
  <2>. QED BY <2>1 DEF Shell!ShellPid, Shell!Listed
<1>. HIDE DEF new, r
<1>4. Distinct(r) /\ r # <<>> /\ r[1] = Shell!Listed(Shell!ShellPid)
  <2>1. v6 # <<>> /\ v6[1] = Shell!Listed(0)
    BY <1>3 DEF ListHolds
  <2>. QED BY <2>1, <1>2, <1>3 DEF ErasesTo
<1>5. \A e \in Shell!Range(r) : EntryHolds(e, "prompt", new)
  BY <1>1, <1>2 DEF ErasesTo, ListHolds
<1>6. ASSUME NEW q \in 1..Len(new) PROVE ChildHolds(q, "prompt", new, r)
  <2>1. ChildHolds(q, "prompt", new, v6)
    BY <1>1, <1>6 DEF ListHolds
  <2>2. CASE q = p
    BY <1>1, <2>2 DEF ChildHolds
  <2>3. CASE q # p
    BY <1>2, <2>1, <2>3 DEF ErasesTo, ChildHolds
  <2>. QED BY <2>2, <2>3
<1>7. CurrentHolds("prompt", new, r)
  BY DEF CurrentHolds, Attended
<1>. QED BY <1>1, <1>4, <1>5, <1>6, <1>7 DEF ListHolds, new, r

\* The entry is listed before fork, and the child runs.
LEMMA ForkKeeps ==
    ASSUME ListHolds(v1, v6, v7), Shell!Fork
    PROVE  ListHolds(v1, v6, v7)'
<1>. DEFINE e == Shell!Listed(Shell!NoPid)  c == [state |-> "running", ok |-> FALSE, leads |-> FALSE]
            k == Len(v6) + 1  n == Len(v7) + 1
<1>1. v1 = "builtin" /\ v1' = "forked" /\ v6' = Append(v6, e) /\ v7' = Append(v7, c)
  BY DEF Shell!Fork
<1>2. v6 \in Seq(ListEntries) /\ Len(v6) \in Nat /\ v7 \in Seq(Children) /\ Len(v7) \in Nat /\ v6 # <<>>
      /\ Len(v6) > 0 /\ DOMAIN v6 = 1..Len(v6)
  BY EmptySeq DEF ListHolds, Distinct
<1>3. e \in ListEntries /\ e.pid = -1 /\ c \in Children /\ c.state = "running" /\ ~c.leads
  BY DEF Shell!Listed, Shell!NoPid, ListEntries, Children
<1>4. \A x \in Shell!Range(v6) : EntryHolds(x, "builtin", v7)
  BY <1>1 DEF ListHolds
<1>5. \A x \in Shell!Range(v6) : x.pid # -1
  BY <1>2, <1>4 DEF EntryHolds, Shell!Listed, Shell!ShellPid, Attended
<1>. HIDE DEF e, c
<1>6. v6' \in Seq(ListEntries) /\ Len(v6') = k /\ v6'[k] = e /\ \A i \in 1..Len(v6) : v6'[i] = v6[i]
  BY <1>1, <1>2, <1>3, AppendProperties
<1>7. v7' \in Seq(Children) /\ Len(v7') = n /\ v7'[n] = c /\ \A i \in 1..Len(v7) : v7'[i] = v7[i]
  BY <1>1, <1>2, <1>3, AppendProperties
<1>8. \A i \in 1..k : i # k => i \in 1..Len(v6) /\ v6[i].pid # -1
  <2>1. \A i \in 1..k : i # k => i \in 1..Len(v6)
    BY <1>2
  <2>. QED BY <2>1, <1>2, <1>5 DEF Shell!Range
<1>9. Distinct(v6')
  <2>. SUFFICES ASSUME NEW i \in 1..k, NEW j \in 1..k, v6'[i].pid = v6'[j].pid PROVE i = j
    BY <1>6 DEF Distinct
  <2>. HIDE DEF k
  <2>. QED BY <1>3, <1>6, <1>8 DEF Distinct, ListHolds
<1>10. DOMAIN v6' = 1..k /\ \A x \in Shell!Range(v6') : x = e \/ x \in Shell!Range(v6)
  <2>1. DOMAIN v6' = 1..k
    BY <1>6
  <2>. HIDE DEF k
  <2>2. ASSUME NEW i \in 1..k PROVE v6'[i] = e \/ v6'[i] \in Shell!Range(v6)
    BY <1>2, <1>6, <1>8 DEF Shell!Range
  <2>. QED BY <2>1, <2>2 DEF Shell!Range
<1>11. \A x \in Shell!Range(v6') : EntryHolds(x, "forked", v7')
  <2>. SUFFICES ASSUME NEW x \in Shell!Range(v6), EntryHolds(x, "builtin", v7) PROVE EntryHolds(x, "forked", v7')
    BY <1>4, <1>10 DEF EntryHolds, e
  <2>1. CASE x = Shell!Listed(Shell!ShellPid)
    BY <2>1 DEF EntryHolds
  <2>2. CASE x # Shell!Listed(Shell!ShellPid)
    <3>1. x.pid \in 1..Len(v7) /\ ~x.freed /\ v7[x.pid].state # "reaped" /\ v7[x.pid].leads
      BY <2>2 DEF EntryHolds, Attended
    <3>2. x.pid \in 1..n /\ x.pid # n
      BY <3>1, <1>2
    <3>. HIDE DEF n
    <3>. QED BY <3>1, <3>2, <1>7 DEF EntryHolds
  <2>. QED BY <2>1, <2>2
<1>12. \A p \in 1..n : ChildHolds(p, "forked", v7', v6')
  <2>. SUFFICES ASSUME NEW p \in 1..n, p # n PROVE ChildHolds(p, "forked", v7', v6')
    BY <1>7 DEF ChildHolds
  <2>1. p \in 1..Len(v7) /\ v7'[p] = v7[p]
    BY <1>2, <1>7
  <2>2. ChildHolds(p, "builtin", v7, v6)
    BY <2>1, <1>1 DEF ListHolds
  <2>3. \A x \in Shell!Range(v6) : x \in Shell!Range(v6')
    <3>1. \A i \in 1..Len(v6) : i \in 1..k
      BY <1>2
    <3>. HIDE DEF k
    <3>. QED BY <3>1, <1>2, <1>6, <1>10 DEF Shell!Range
  <2>. QED BY <2>1, <2>2, <2>3 DEF ChildHolds
<1>13. CurrentHolds("forked", v7', v6')
  <2>1. n > 0 /\ k > 1
    BY <1>2
  <2>. HIDE DEF n, k
  <2>. QED BY <2>1, <1>3, <1>6, <1>7 DEF CurrentHolds, Attended, e
<1>14. v6' # <<>> /\ v6'[1] = Shell!Listed(Shell!ShellPid)
  <2>1. 1 \in 1..Len(v6) /\ v6'[1] = v6[1]
    BY <1>2, <1>6
  <2>. QED BY <2>1, <1>2, <1>6 DEF ListHolds
<1>. QED BY <1>1, <1>7, <1>9, <1>11, <1>12, <1>13, <1>14 DEF ListHolds

\* Its pid is filled in.
LEMMA SetPidKeeps ==
    ASSUME ListHolds(v1, v6, v7), Shell!SetPid
    PROVE  ListHolds(v1, v6, v7)'
<1>. DEFINE k == Len(v6)  n == Len(v7)
<1>1. v1 = "forked" /\ v1' \in {"setpgid", "wait"} /\ v7' = v7 /\ v6' = [v6 EXCEPT ![k] = [v6[k] EXCEPT !.pid = n]]
  BY DEF Shell!SetPid
<1>2. /\ v6 \in Seq(ListEntries) /\ DOMAIN v6 = 1..k /\ k \in Nat /\ k > 1 /\ v7 \in Seq(Children) /\ n \in Nat /\ n > 0
      /\ v6[k] = Shell!Listed(Shell!NoPid) /\ v7[n].state # "reaped"
  BY <1>1 DEF ListHolds, Distinct, CurrentHolds
<1>. DEFINE e == [v6[k] EXCEPT !.pid = n]
<1>3. e \in ListEntries /\ e.pid = n /\ ~e.freed
  <2>. HIDE DEF k, n
  <2>1. k \in 1..k
    BY <1>2
  <2>2. v6[k] \in ListEntries /\ ~v6[k].freed
    <3>1. v6[k] \in ListEntries
      BY <1>2, <2>1, ElementOfSeq DEF k
    <3>2. ~v6[k].freed
      BY <1>2 DEF Shell!Listed
    <3>. QED BY <3>1, <3>2
  <2>. QED BY <2>2, <1>2 DEF ListEntries
<1>. HIDE DEF e
<1>4. v6' = [v6 EXCEPT ![k] = e]
  BY <1>1 DEF e
<1>. HIDE DEF k, n
<1>5. v6' \in Seq(ListEntries) /\ Len(v6') = k /\ DOMAIN v6' = 1..k /\ v6'[k] = e /\ \A i \in 1..k : i # k => v6'[i] = v6[i]
  BY <1>2, <1>3, <1>4 DEF k
<1>6. \A i \in 1..k : i # k => v6[i].pid # n /\ v6[i] # Shell!Listed(Shell!NoPid)
  <2>. SUFFICES ASSUME NEW i \in 1..k, i # k PROVE v6[i].pid # n /\ v6[i] # Shell!Listed(Shell!NoPid)
    OBVIOUS
  <2>1. k \in 1..k /\ v6[i].pid # v6[k].pid
    <3>1. k \in 1..k
      BY <1>2
    <3>2. \A j, l \in 1..k : v6[j].pid = v6[l].pid => j = l
      BY DEF ListHolds, Distinct, k
    <3>. QED BY <3>1, <3>2
  <2>2. v6[i] # Shell!Listed(Shell!NoPid)
    BY <2>1, <1>2
  <2>3. EntryHolds(v6[i], "forked", v7)
    BY <1>1, <1>2 DEF ListHolds, Shell!Range
  <2>. QED BY <2>2, <2>3, <1>2 DEF EntryHolds, Attended, Shell!Listed, Shell!ShellPid, n
<1>7. Distinct(v6')
  <2>. SUFFICES ASSUME NEW i \in 1..k, NEW j \in 1..k, v6'[i].pid = v6'[j].pid PROVE i = j
    BY <1>5 DEF Distinct
  <2>. QED BY <1>3, <1>5, <1>6 DEF ListHolds, Distinct, k
<1>8. \A x \in Shell!Range(v6') : EntryHolds(x, v1', v7)
  <2>. SUFFICES ASSUME NEW i \in 1..k PROVE EntryHolds(v6'[i], v1', v7)
    BY <1>5 DEF Shell!Range
  <2>1. CASE i = k
    <3>1. v6'[i] = e /\ e.pid = Len(v7) /\ e.pid \in 1..Len(v7)
      BY <2>1, <1>2, <1>3, <1>5 DEF n
    <3>2. v1' \in Attended
      BY <1>1 DEF Attended
    <3>. QED BY <3>1, <3>2, <1>3 DEF EntryHolds
  <2>2. CASE i # k
    <3>1. EntryHolds(v6[i], "forked", v7) /\ v6[i].pid # n /\ v6[i] # Shell!Listed(Shell!NoPid) /\ v6'[i] = v6[i]
      BY <2>2, <1>1, <1>2, <1>5, <1>6 DEF ListHolds, Shell!Range
    <3>. QED BY <3>1 DEF EntryHolds, Attended, n
  <2>. QED BY <2>1, <2>2
<1>9. \A p \in 1..n : ChildHolds(p, v1', v7, v6')
  <2>. SUFFICES ASSUME NEW p \in 1..n PROVE ChildHolds(p, v1', v7, v6')
    OBVIOUS
  <2>0. k \in 1..k
    BY <1>2
  <2>1. CASE p = n
    <3>1. v6'[k] \in Shell!Range(v6') /\ v6'[k].pid = p
      BY <2>0, <2>1, <1>3, <1>5 DEF Shell!Range
    <3>. QED BY <2>1, <3>1, <1>1 DEF ChildHolds, n
  <2>2. CASE p # n
    <3>. SUFFICES ASSUME v7[p].state \in {"running", "stopped"}
                  PROVE  (\E e1 \in Shell!Range(v6') : e1.pid = p) /\ v7[p].leads
      BY DEF ChildHolds
    <3>1. ChildHolds(p, "forked", v7, v6)
      BY <1>1 DEF ListHolds, n
    <3>2. v7[p].leads /\ \E x \in Shell!Range(v6) : x.pid = p
      BY <2>2, <3>1 DEF ChildHolds, n
    <3>3. PICK i \in 1..k : v6[i].pid = p
      BY <3>2, <1>2 DEF Shell!Range
    <3>4. i # k
      <4>1. v6[k].pid = -1
        BY <1>2 DEF Shell!Listed, Shell!NoPid
      <4>. QED BY <3>3, <4>1, <1>2
    <3>5. v6'[i] \in Shell!Range(v6') /\ v6'[i].pid = p
      BY <3>3, <3>4, <1>5 DEF Shell!Range
    <3>. QED BY <3>2, <3>5
  <2>. QED BY <2>1, <2>2
<1>10. CurrentHolds(v1', v7, v6')
  BY <1>1, <1>2 DEF CurrentHolds, Attended, n
<1>11. v6' # <<>> /\ v6'[1] = Shell!Listed(Shell!ShellPid)
  <2>1. 1 \in 1..k /\ 1 # k
    BY <1>2
  <2>2. v6'[1] = v6[1]
    BY <2>1, <1>5
  <2>. QED BY <2>1, <2>2, <1>5 DEF ListHolds
<1>. QED BY <1>1, <1>2, <1>7, <1>8, <1>9, <1>10, <1>11 DEF ListHolds, n

\* Only the child that is attended to changes, and the shell is done with it.
LEMMA SetpgidKeeps ==
    ASSUME ListHolds(v1, v6, v7), Shell!Setpgid, v9' = "fine"
    PROVE  ListHolds(v1, v6, v7)'
<1>. DEFINE n == Len(v7)  c == [v7[n] EXCEPT !.leads = TRUE]
<1>1. v1 = "setpgid" /\ v1' \in Idle /\ v6' = v6 /\ v7' = [v7 EXCEPT ![n] = c]
  BY ReturnsIdle DEF Shell!Setpgid, Shell!Fails
<1>2. v7 \in Seq(Children) /\ n \in Nat /\ n > 0 /\ v7[n] \in Children /\ v7[n].state # "reaped"
  BY <1>1 DEF ListHolds, CurrentHolds, Attended
<1>3. c \in Children /\ c.leads /\ c.state = v7[n].state
  BY <1>2 DEF Children
<1>. HIDE DEF c
<1>4. v7' \in Seq(Children) /\ Len(v7') = n /\ v7'[n] = c /\ \A q \in 1..n : q # n => v7'[q] = v7[q]
  BY <1>1, <1>2, <1>3
<1>. HIDE DEF n
<1>5. \A e \in Shell!Range(v6) : EntryHolds(e, v1', v7')
  <2>. SUFFICES ASSUME NEW e \in Shell!Range(v6) PROVE EntryHolds(e, v1', v7')
    OBVIOUS
  <2>1. EntryHolds(e, "setpgid", v7)
    BY <1>1 DEF ListHolds
  <2>2. CASE e = Shell!Listed(Shell!ShellPid)
    BY <2>2 DEF EntryHolds
  <2>3. CASE e # Shell!Listed(Shell!ShellPid)
    <3>1. e.pid \in 1..n /\ ~e.freed /\ (e.pid # n => v7[e.pid].state # "reaped" /\ v7[e.pid].leads)
      BY <2>1, <2>3 DEF EntryHolds, n
    <3>2. v7'[e.pid].state # "reaped" /\ v7'[e.pid].leads
      BY <3>1, <1>2, <1>3, <1>4
    <3>. QED BY <3>1, <3>2, <1>1, <1>4 DEF EntryHolds, Attended, Idle
  <2>. QED BY <2>2, <2>3
<1>6. \A p \in 1..n : ChildHolds(p, v1', v7', v6)
  <2>. SUFFICES ASSUME NEW p \in 1..n PROVE ChildHolds(p, v1', v7', v6)
    OBVIOUS
  <2>1. ChildHolds(p, "setpgid", v7, v6)
    BY <1>1 DEF ListHolds, n
  <2>. QED BY <2>1, <1>3, <1>4 DEF ChildHolds, n
<1>7. CurrentHolds(v1', v7', v6)
  BY <1>1 DEF CurrentHolds, Attended, Idle
<1>. QED BY <1>1, <1>4, <1>5, <1>6, <1>7 DEF ListHolds

\* The shell has waited for the child.
LEMMA WaitpidKeeps ==
    ASSUME ListHolds(v1, v6, v7), Shell!Waitpid
    PROVE  ListHolds(v1, v6, v7)'
<1>. DEFINE n == Len(v7)  c == [v7[n] EXCEPT !.state = "reaped"]
<1>1. v1 = "wait" /\ v1' = "erase" /\ v6' = v6 /\ v7' = [v7 EXCEPT ![n] = c] /\ v7[n].state = "ended"
  BY DEF Shell!Waitpid
<1>2. v7 \in Seq(Children) /\ n \in Nat /\ n > 0 /\ v7[n] \in Children
  BY <1>1 DEF ListHolds, CurrentHolds, Attended
<1>3. c \in Children /\ c.state = "reaped"
  BY <1>2 DEF Children
<1>. HIDE DEF c
<1>4. v7' \in Seq(Children) /\ Len(v7') = n /\ v7'[n] = c /\ \A q \in 1..n : q # n => v7'[q] = v7[q]
  BY <1>1, <1>2, <1>3
<1>. HIDE DEF n
<1>5. \A e \in Shell!Range(v6) : EntryHolds(e, "erase", v7')
  <2>. SUFFICES ASSUME NEW e \in Shell!Range(v6) PROVE EntryHolds(e, "erase", v7')
    OBVIOUS
  <2>1. EntryHolds(e, "wait", v7)
    BY <1>1 DEF ListHolds
  <2>. QED BY <2>1, <1>4 DEF EntryHolds, Attended, n
<1>6. \A p \in 1..n : ChildHolds(p, "erase", v7', v6)
  <2>. SUFFICES ASSUME NEW p \in 1..n PROVE ChildHolds(p, "erase", v7', v6)
    OBVIOUS
  <2>1. ChildHolds(p, "wait", v7, v6)
    BY <1>1 DEF ListHolds, n
  <2>. QED BY <2>1, <1>3, <1>4 DEF ChildHolds, n
<1>7. CurrentHolds("erase", v7', v6)
  BY <1>2, <1>3, <1>4 DEF CurrentHolds, Attended
<1>. QED BY <1>1, <1>4, <1>5, <1>6, <1>7 DEF ListHolds

\* Its entry is freed ...
LEMMA EraseFreesKeeps ==
    ASSUME ListHolds(v1, v6, v7), Shell!EraseFrees
    PROVE  ListHolds(v1, v6, v7)'
<1>. DEFINE n == Len(v7)
<1>1. /\ v1 = "erase" /\ v1' = "unlist" /\ v7' = v7
      /\ v6' = [k \in DOMAIN v6 |-> IF v6[k].pid = n THEN [v6[k] EXCEPT !.freed = TRUE] ELSE v6[k]]
  BY DEF Shell!EraseFrees
<1>2. /\ v6 \in Seq(ListEntries) /\ Len(v6) \in Nat /\ DOMAIN v6 = 1..Len(v6) /\ v6 # <<>> /\ Len(v6) > 0
      /\ v7 \in Seq(Children) /\ n \in Nat /\ n > 0 /\ v7[n].state = "reaped"
  BY <1>1, EmptySeq DEF ListHolds, Distinct, CurrentHolds, Attended
<1>. HIDE DEF n
<1>3. \A k \in 1..Len(v6) : /\ v6'[k] \in ListEntries /\ v6'[k].pid = v6[k].pid
                            /\ v6[k].pid # n => v6'[k] = v6[k]
  <2>. SUFFICES ASSUME NEW k \in 1..Len(v6)
                PROVE  v6'[k] \in ListEntries /\ v6'[k].pid = v6[k].pid /\ (v6[k].pid # n => v6'[k] = v6[k])
    OBVIOUS
  <2>1. v6[k] \in ListEntries
    BY <1>2
  <2>2. v6'[k] = IF v6[k].pid = n THEN [v6[k] EXCEPT !.freed = TRUE] ELSE v6[k]
    BY <1>1, <1>2
  <2>. QED BY <2>1, <2>2 DEF ListEntries
<1>4. v6' \in Seq(ListEntries) /\ Len(v6') = Len(v6) /\ DOMAIN v6' = 1..Len(v6)
  <2>1. v6' \in [1..Len(v6) -> ListEntries]
    BY <1>1, <1>2, <1>3
  <2>. QED BY <2>1, <1>2
<1>5. Distinct(v6')
  <2>. SUFFICES ASSUME NEW i \in 1..Len(v6), NEW j \in 1..Len(v6), v6'[i].pid = v6'[j].pid PROVE i = j
    BY <1>4 DEF Distinct
  <2>. QED BY <1>3 DEF ListHolds, Distinct
<1>6. \A e \in Shell!Range(v6') : EntryHolds(e, "unlist", v7)
  <2>. SUFFICES ASSUME NEW k \in 1..Len(v6) PROVE EntryHolds(v6'[k], "unlist", v7)
    BY <1>4 DEF Shell!Range
  <2>1. EntryHolds(v6[k], "erase", v7)
    BY <1>1, <1>2 DEF ListHolds, Shell!Range
  <2>2. CASE v6[k].pid = n
    <3>1. v6'[k].pid = Len(v7) /\ v6'[k].pid \in 1..Len(v7)
      BY <2>2, <1>2, <1>3 DEF n
    <3>. QED BY <3>1 DEF EntryHolds, Attended
  <2>3. CASE v6[k].pid # n
    <3>1. v6'[k] = v6[k]
      BY <2>3, <1>3
    <3>. QED BY <2>1, <2>3, <3>1 DEF EntryHolds, Attended, n
  <2>. QED BY <2>2, <2>3
<1>7. \A p \in 1..n : ChildHolds(p, "unlist", v7, v6')
  <2>. SUFFICES ASSUME NEW p \in 1..n, v7[p].state \in {"running", "stopped"}
                PROVE  (\E e \in Shell!Range(v6') : e.pid = p) /\ v7[p].leads
    BY DEF ChildHolds
  <2>1. v7[p].leads /\ \E e \in Shell!Range(v6) : e.pid = p
    BY <1>1, <1>2 DEF ListHolds, ChildHolds, n
  <2>2. PICK k \in 1..Len(v6) : v6[k].pid = p
    BY <2>1, <1>2 DEF Shell!Range
  <2>3. v6'[k] \in Shell!Range(v6') /\ v6'[k].pid = p
    BY <2>2, <1>3, <1>4 DEF Shell!Range
  <2>. QED BY <2>1, <2>3
<1>8. CurrentHolds("unlist", v7, v6')
  BY <1>2 DEF CurrentHolds, Attended, n
<1>9. v6' # <<>> /\ v6'[1] = Shell!Listed(Shell!ShellPid)
  <2>1. 1 \in 1..Len(v6) /\ v6[1] = Shell!Listed(Shell!ShellPid)
    BY <1>2 DEF ListHolds
  <2>2. v6[1].pid # n
    BY <2>1, <1>2 DEF Shell!Listed, Shell!ShellPid
  <2>3. v6'[1] = Shell!Listed(Shell!ShellPid)
    BY <2>1, <2>2, <1>3
  <2>. QED BY <2>3, <1>2, <1>4
<1>. QED BY <1>1, <1>2, <1>5, <1>6, <1>7, <1>8, <1>9 DEF ListHolds, n

\* ... and taken off the list.
LEMMA EraseEndsKeeps ==
    ASSUME ListHolds(v1, v6, v7), Shell!EraseEnds
    PROVE  ListHolds(v1, v6, v7)'
<1>. DEFINE n == Len(v7)  r == Shell!PidErase(v6, n)
<1>1. v1 = "unlist" /\ v1' \in Idle /\ v6' = r /\ v7' = v7
  BY ReturnsIdle DEF Shell!EraseEnds, Shell!EraseRemoves
<1>2. v7 \in Seq(Children) /\ n \in Nat /\ n > 0 /\ v7[n].state = "reaped"
  BY <1>1 DEF ListHolds, CurrentHolds, Attended
<1>3. ErasesTo(v6, n, r)
  BY PidEraseIs DEF ListHolds
<1>. HIDE DEF r, n
<1>4. Distinct(r) /\ r # <<>> /\ r[1] = Shell!Listed(Shell!ShellPid)
  <2>1. v6 # <<>> /\ v6[1] = Shell!Listed(Shell!ShellPid) /\ v6[1].pid # n
    BY <1>2 DEF ListHolds, Shell!Listed, Shell!ShellPid
  <2>. QED BY <2>1, <1>3 DEF ErasesTo
<1>5. \A e \in Shell!Range(r) : EntryHolds(e, v1', v7)
  <2>. SUFFICES ASSUME NEW e \in Shell!Range(v6), e.pid # n PROVE EntryHolds(e, v1', v7)
    BY <1>3 DEF ErasesTo
  <2>1. EntryHolds(e, "unlist", v7)
    BY <1>1 DEF ListHolds
  <2>. QED BY <2>1, <1>1 DEF EntryHolds, Attended, Idle, n
<1>6. \A p \in 1..n : ChildHolds(p, v1', v7, r)
  <2>. SUFFICES ASSUME NEW p \in 1..n, v7[p].state \in {"running", "stopped"}
                PROVE  (\E e \in Shell!Range(r) : e.pid = p) /\ v7[p].leads
    BY DEF ChildHolds
  <2>1. p # n
    BY <1>2
  <2>2. v7[p].leads /\ \E e \in Shell!Range(v6) : e.pid = p
    BY <1>1 DEF ListHolds, ChildHolds, n
  <2>. QED BY <2>1, <2>2, <1>3 DEF ErasesTo
<1>7. CurrentHolds(v1', v7, r)
  BY <1>1 DEF CurrentHolds, Attended, Idle
<1>. QED BY <1>1, <1>2, <1>4, <1>5, <1>6, <1>7 DEF ListHolds, n

\* A child ends by itself.
LEMMA ChildEndsKeeps ==
    ASSUME ListHolds(v1, v6, v7), NEW p \in Shell!Pids, Shell!ChildEnds(p)
    PROVE  ListHolds(v1, v6, v7)'
<1>1. v7 \in Seq(Children) /\ Len(v7) \in Nat /\ DOMAIN v7 = 1..Len(v7)
  BY DEF ListHolds
<1>2. p \in 1..Len(v7) /\ v7[p] \in Children /\ v7[p].state = "running" /\ v1' = v1 /\ v6' = v6
  BY <1>1 DEF Shell!ChildEnds, Shell!Pids
<1>3. PICK ok \in BOOLEAN : v7' = [v7 EXCEPT ![p].state = "ended", ![p].ok = ok]
  BY DEF Shell!ChildEnds
<1>. DEFINE c == [[v7[p] EXCEPT !.state = "ended"] EXCEPT !.ok = ok]
<1>4. c \in Children /\ c.state = "ended" /\ c.leads = v7[p].leads
  BY <1>2 DEF Children
<1>5. v7' = [v7 EXCEPT ![p] = c]
  BY <1>1, <1>2, <1>3
<1>. HIDE DEF c
<1>6. Becomes(v7', v7, p, "ended")
  BY <1>1, <1>2, <1>4, <1>5 DEF Becomes
<1>. QED BY <1>2, <1>6, ChangeKeeps

\* SIGINT: no entry is half made, and of the others the walk takes at most the child
\* that is attended to, unless the shell itself is killed.
LEMMA SigintKeeps ==
    ASSUME ListHolds(v1, v6, v7), Shell!HandleSigint, v9' = "fine"
    PROVE  ListHolds(v1, v6, v7)'
<1>. DEFINE r == Shell!Walked(v6)  killed == Shell!ListedPids(v6) \ Shell!ListedPids(r)  n == Len(v7)
            c(p) == IF p \in killed /\ v7[p].state \in {"running", "stopped"}
                    THEN [v7[p] EXCEPT !.state = "ended"] ELSE v7[p]
<1>1. /\ v1' = v1 /\ v6' = r /\ v7' = [p \in Shell!Pids |-> c(p)] /\ Shell!ShellPid \notin killed
      /\ \A e \in Shell!Range(v6) : e.pid # Shell!NoPid /\ ~e.freed
  BY DEF Shell!HandleSigint
<1>2. WalksTo(v6, r)
  BY WalkedIs DEF ListHolds
<1>3. /\ v7 \in Seq(Children) /\ n \in Nat /\ Shell!Pids = 1..n /\ Shell!ShellPid = 0
      /\ v6 # <<>> /\ v6[1] = Shell!Listed(Shell!ShellPid) /\ v6[1].pid = 0 /\ v6[1] \in Shell!Range(v6)
  <2>1. v6 \in Seq(ListEntries) /\ v6 # <<>>
    BY DEF ListHolds, Distinct
  <2>2. v6[1] \in Shell!Range(v6)
    BY <2>1, EmptySeq DEF Shell!Range
  <2>. QED BY <2>2 DEF ListHolds, Shell!Pids, Shell!Listed, Shell!ShellPid
<1>. HIDE DEF r
<1>4. Shell!Leads(0)
  <2>. SUFFICES ASSUME ~Shell!Leads(0) PROVE 0 \in killed
    BY <1>1, <1>3
  <2>1. \A e \in Shell!Range(r) : e.pid # 0
    BY <1>2, <1>3 DEF WalksTo
  <2>. QED BY <2>1, <1>3 DEF Shell!ListedPids
<1>5. Distinct(r) /\ r # <<>> /\ r[1] = Shell!Listed(Shell!ShellPid)
  BY <1>2, <1>3, <1>4 DEF WalksTo
<1>6. \A p \in killed : p # 0 /\ ~Shell!Leads(p) /\ \E e \in Shell!Range(v6) : e.pid = p
  <2>. SUFFICES ASSUME NEW e \in Shell!Range(v6), e.pid \in killed PROVE e.pid # 0 /\ ~Shell!Leads(e.pid)
    BY DEF Shell!ListedPids
  <2>1. e \notin Shell!Range(r)
    BY DEF Shell!ListedPids
  <2>. QED BY <2>1, <1>1, <1>2, <1>3 DEF WalksTo
<1>7. \A p \in 1..n : Shell!Leads(p) <=> v7[p].leads
  BY DEF Shell!Leads, Shell!ShellPid
<1>. HIDE DEF killed
<1>8. /\ v7' \in Seq(Children) /\ Len(v7') = n
      /\ \A p \in 1..n : /\ v7'[p].leads = v7[p].leads /\ (v7'[p].state = "reaped" <=> v7[p].state = "reaped")
                         /\ v7'[p].state \in {"running", "stopped"} =>
                              p \notin killed /\ v7[p].state \in {"running", "stopped"}
  <2>1. \A p \in 1..n : /\ c(p) \in Children /\ c(p).leads = v7[p].leads
                        /\ c(p).state = "reaped" <=> v7[p].state = "reaped"
                        /\ c(p).state \in {"running", "stopped"} =>
                              p \notin killed /\ v7[p].state \in {"running", "stopped"}
    <3>. SUFFICES ASSUME NEW p \in 1..n
                  PROVE  /\ c(p) \in Children /\ c(p).leads = v7[p].leads
                         /\ c(p).state = "reaped" <=> v7[p].state = "reaped"
                         /\ c(p).state \in {"running", "stopped"} =>
                               p \notin killed /\ v7[p].state \in {"running", "stopped"}
      OBVIOUS
    <3>1. v7[p] \in Children
      BY <1>3
    <3>. QED BY <3>1 DEF Children
  <2>. HIDE DEF c, n
  <2>2. v7' = [p \in 1..n |-> c(p)]
    BY <1>1, <1>3
  <2>3. v7' \in [1..n -> Children]
    BY <2>1, <2>2
  <2>4. v7' \in Seq(Children) /\ Len(v7') = n
    BY <2>3, <1>3
  <2>. QED BY <2>1, <2>2, <2>4
<1>. HIDE DEF n
<1>9. \A e \in Shell!Range(r) : EntryHolds(e, v1, v7')
  <2>. SUFFICES ASSUME NEW e \in Shell!Range(v6), EntryHolds(e, v1, v7) PROVE EntryHolds(e, v1, v7')
    BY <1>2 DEF WalksTo, ListHolds
  <2>. QED BY <1>8 DEF EntryHolds, n
<1>10. \A p \in 1..n : ChildHolds(p, v1, v7', r)
  <2>. SUFFICES ASSUME NEW p \in 1..n, v7'[p].state \in {"running", "stopped"}
                PROVE  ChildHolds(p, v1, v7', r)
    BY DEF ChildHolds
  <2>1. ChildHolds(p, v1, v7, v6) /\ p \notin killed /\ v7[p].state \in {"running", "stopped"}
    BY <1>8 DEF ListHolds, n
  <2>2. (\E e \in Shell!Range(v6) : e.pid = p) => \E e \in Shell!Range(r) : e.pid = p
    BY <2>1 DEF killed, Shell!ListedPids
  <2>. QED BY <2>1, <2>2, <1>8 DEF ChildHolds, n
<1>11. CurrentHolds(v1, v7', r)
  <2>1. v1 # "forked"
    <3>. SUFFICES ASSUME v1 = "forked" PROVE FALSE
      OBVIOUS
    <3>1. v6 \in Seq(ListEntries) /\ Len(v6) > 1 /\ v6[Len(v6)].pid = Shell!NoPid
      BY DEF ListHolds, Distinct, CurrentHolds, Shell!Listed
    <3>2. v6[Len(v6)] \in Shell!Range(v6)
      BY <3>1 DEF Shell!Range
    <3>. QED BY <3>1, <3>2, <1>1
  <2>2. n > 0 => n \in 1..n
    BY <1>3
  <2>. QED BY <2>1, <2>2, <1>8 DEF ListHolds, CurrentHolds, Attended, n
<1>. QED BY <1>1, <1>5, <1>8, <1>9, <1>10, <1>11 DEF ListHolds, n

\* A line is read when nobody is attended to.
LEMMA ReadLineKeeps ==
    ASSUME ListHolds(v1, v6, v7), NEW l, Shell!ReadLine(l), v9' = "fine"
    PROVE  ListHolds(v1, v6, v7)'
<1>1. v1 = "prompt" /\ v7 \in Seq(Children) /\ Shell!Pids = 1..Len(v7)
  BY DEF Shell!ReadLine, ListHolds, Shell!Pids
<1>2. CASE v1' \in {"prompt", "exec", "exited"} /\ UNCHANGED <<v6, v7>>
  BY <1>1, <1>2, IdleHolds DEF Attended
<1>3. CASE v1' = "prompt" /\ Shell!Exists(l.n) /\ v7' = Shell!Signalled(l.n, "ended") /\ v6' = Shell!PidErase(v6, l.n)
  BY <1>1, <1>3, KillKeeps DEF Shell!Exists
<1>4. ASSUME NEW s \in {"running", "stopped"}, v1' = "prompt", Shell!Exists(l.n), v7' = Shell!Signalled(l.n, s), v6' = v6
      PROVE  ListHolds(v1, v6, v7)'
  <2>1. l.n \in 1..Len(v7)
    BY <1>1, <1>4 DEF Shell!Exists
  <2>2. CASE v7[l.n].state \in {"running", "stopped"}
    <3>1. Becomes(v7', v7, l.n, s)
      BY <1>1, <1>4, <2>1, <2>2, SignalledIs
    <3>2. ListHolds(v1, v6, v7')
      BY <2>1, <2>2, <3>1, ChangeKeeps
    <3>. QED BY <1>1, <1>4, <3>2
  <2>3. CASE v7[l.n].state \notin {"running", "stopped"}
    <3>1. v7' = v7
      BY <1>1, <1>4, <2>1, <2>3, SignalledIs
    <3>. QED BY <1>1, <1>4, <3>1
  <2>. QED BY <2>2, <2>3
<1>5. \/ v1' \in {"prompt", "exec", "exited"} /\ UNCHANGED <<v6, v7>>
      \/ v1' = "prompt" /\ Shell!Exists(l.n) /\ v7' = Shell!Signalled(l.n, "ended") /\ v6' = Shell!PidErase(v6, l.n)
      \/ \E s \in {"running", "stopped"} :
            v1' = "prompt" /\ Shell!Exists(l.n) /\ v7' = Shell!Signalled(l.n, s) /\ v6' = v6
  BY DEF Shell!ReadLine, Shell!Runs, Shell!Exec, Shell!Fails, Shell!Nothing, Shell!ToPrompt
<1>. QED BY <1>2, <1>3, <1>4, <1>5

\* Every step keeps the list.
LEMMA ListStep ==
    ASSUME ListInv, [Shell!Next]_(Shell!vars)
    PROVE  ListInv'
<1>. SUFFICES ASSUME v9' = "fine" PROVE ListHolds(v1, v6, v7)'
  BY DEF ListInv
<1>1. v9 = "fine"
  BY DEF Shell!Next, Shell!ReadLine, Shell!ShellStep, Shell!HandleSigint, Shell!ChildEnds, Shell!vars
<1>2. ListHolds(v1, v6, v7)
  BY <1>1 DEF ListInv
<1>3. ASSUME UNCHANGED Shell!vars PROVE ListHolds(v1, v6, v7)'
  BY <1>2, <1>3 DEF Shell!vars
<1>4. ASSUME NEW l \in ShellLines, Shell!ReadLine(l) PROVE ListHolds(v1, v6, v7)'
  BY <1>2, <1>4, ReadLineKeeps
<1>5. ASSUME Shell!ShellStep PROVE ListHolds(v1, v6, v7)'
  <2>1. CASE Shell!Scan
    <3>1. v1 = "exec" /\ v1' \in {"exec", "builtin"} /\ UNCHANGED <<v6, v7>>
      BY <2>1, Zenon DEF Shell!Scan
    <3>. QED BY <3>1, <1>2, IdleHolds DEF Attended
  <2>2. CASE Shell!NoProcess
    <3>1. v1 = "builtin" /\ v1' \in Idle /\ UNCHANGED <<v6, v7>>
      BY <2>2, ReturnsIdle DEF Shell!NoProcess
    <3>. QED BY <3>1, <1>2, IdleHolds DEF Attended, Idle
  <2>. QED BY <1>2, <1>5, <2>1, <2>2, ForkKeeps, SetPidKeeps, SetpgidKeeps, WaitpidKeeps, EraseFreesKeeps,
            EraseEndsKeeps DEF Shell!ShellStep
<1>6. ASSUME Shell!HandleSigint PROVE ListHolds(v1, v6, v7)'
  BY <1>2, <1>6, SigintKeeps
<1>7. ASSUME NEW p \in Shell!Pids, Shell!ChildEnds(p) PROVE ListHolds(v1, v6, v7)'
  BY <1>2, <1>7, ChildEndsKeeps
<1>. QED BY <1>3, <1>4, <1>5, <1>6, <1>7 DEF Shell!Next

\* What the run checks of it.
LEMMA ListIsRight ==
    ASSUME ListInv
    PROVE  Shell!ListIsTrue
<1>. SUFFICES ASSUME v1 = "prompt", v9 = "fine"
              PROVE  /\ v6[1] = Shell!Listed(Shell!ShellPid) /\ Shell!IsInjective(v6)
                     /\ \A k \in 2..Len(v6) : Shell!Exists(v6[k].pid) /\ ~v6[k].freed
                     /\ \A pid \in Shell!Pids : v7[pid].state \in {"running", "stopped"} =>
                           v7[pid].leads /\ \E k \in DOMAIN v6 : v6[k].pid = pid
  BY DEF Shell!ListIsTrue
<1>1. /\ v6 \in Seq(ListEntries) /\ Len(v6) \in Nat /\ DOMAIN v6 = 1..Len(v6) /\ v6 # <<>>
      /\ v7 \in Seq(Children) /\ Shell!Pids = 1..Len(v7)
  BY DEF ListInv, ListHolds, Distinct, Shell!Pids
<1>2. v6[1] = Shell!Listed(Shell!ShellPid)
  BY DEF ListInv, ListHolds
<1>3. \A i, k \in 1..Len(v6) : v6[i].pid = v6[k].pid => i = k
  BY DEF ListInv, ListHolds, Distinct
<1>4. Shell!IsInjective(v6)
  BY <1>1, <1>3 DEF Shell!IsInjective
<1>5. ASSUME NEW k \in 2..Len(v6) PROVE Shell!Exists(v6[k].pid) /\ ~v6[k].freed
  <2>1. k \in 1..Len(v6) /\ 1 \in 1..Len(v6) /\ k # 1
    BY <1>1
  <2>2. v6[k] # v6[1]
    BY <1>3, <2>1
  <2>3. EntryHolds(v6[k], "prompt", v7)
    BY <1>1, <2>1 DEF ListInv, ListHolds, Shell!Range
  <2>. QED BY <1>1, <1>2, <2>2, <2>3 DEF EntryHolds, Attended, Shell!Exists
<1>6. ASSUME NEW pid \in Shell!Pids, v7[pid].state \in {"running", "stopped"}
      PROVE  v7[pid].leads /\ \E k \in DOMAIN v6 : v6[k].pid = pid
  <2>1. ChildHolds(pid, "prompt", v7, v6)
    BY <1>1 DEF ListInv, ListHolds
  <2>. QED BY <2>1, <1>6 DEF ChildHolds, Shell!Range
<1>. QED BY <1>2, <1>4, <1>5, <1>6

\* The operator behind the i-th token's command.
KindAt(line, i) == IF i <= Len(line) THEN line[i].kind ELSE "end"

\* Whether exec_command is under way, and is past its scan.
Past == {"builtin", "forked", "setpgid", "wait", "erase", "unlist"}
Busy == Past \cup {"exec"}

\* Of the commands that ran, all but the last let the next one run, and the last too
\* while the line goes on.
OperatorsInv ==
    /\ v3 \in Int /\ v11 \in Seq(Int \X {0, 1})
    /\ v1 \in Past => v5 = KindAt(v2, v3 - 1)
    /\ \A k \in 1..Len(v11) : k < Len(v11) \/ v1 \in Busy => Shell!Continue(v11[k][2], KindAt(v2, v11[k][1]))

\* Nothing has run.
LEMMA OperatorsInit ==
    ASSUME Shell!Init
    PROVE  OperatorsInv
<1>1. v1 = "prompt" /\ v3 = 0 /\ v11 = <<>>
  BY DEF Shell!Init
<1>. QED BY <1>1 DEF OperatorsInv, Past

\* A command returns: the line goes on if its operator says so.
LEMMA ReturnsKeeps ==
    ASSUME OperatorsInv, v1 \in Past, NEW result \in {0, 1}, Shell!Returns(result)
    PROVE  OperatorsInv'
<1>. DEFINE ran == <<v3 - 1, result>>  n == Len(v11)
<1>1. /\ v11' = Append(v11, ran) /\ v2' = v2 /\ v3' = v3
      /\ v1' = IF Shell!Continue(result, v5) THEN "exec" ELSE "prompt"
  BY DEF Shell!Returns
<1>2. v3 \in Int /\ v11 \in Seq(Int \X {0, 1}) /\ n \in Nat /\ ran \in Int \X {0, 1} /\ v5 = KindAt(v2, v3 - 1)
  BY DEF OperatorsInv
<1>3. /\ v11' \in Seq(Int \X {0, 1}) /\ Len(v11') = n + 1 /\ v11'[n + 1] = ran
      /\ \A k \in 1..n : v11'[k] = v11[k]
  <2>. HIDE DEF ran
  <2>. QED BY <1>1, <1>2, AppendProperties
<1>4. ASSUME NEW k \in 1..(n + 1), k < n + 1 \/ v1' \in Busy
      PROVE  Shell!Continue(v11'[k][2], KindAt(v2, v11'[k][1]))
  <2>1. CASE k = n + 1
    <3>1. v1' \in Busy /\ Shell!Continue(result, v5)
      BY <2>1, <1>1, <1>2, <1>4 DEF Busy, Past
    <3>2. v11'[k][2] = result /\ v11'[k][1] = v3 - 1
      BY <2>1, <1>3
    <3>. QED BY <3>1, <3>2, <1>2
  <2>2. CASE k # n + 1
    <3>1. k \in 1..n
      <4>1. n \in Nat
        BY <1>2
      <4>. HIDE DEF n
      <4>. QED BY <2>2, <4>1
    <3>2. v11'[k] = v11[k]
      BY <1>3, <3>1
    <3>. QED BY <3>1, <3>2 DEF OperatorsInv, Busy
  <2>. QED BY <2>1, <2>2
<1>5. v1' \notin Past
  BY <1>1 DEF Past
<1>. QED BY <1>1, <1>2, <1>3, <1>4, <1>5 DEF OperatorsInv

\* Every step keeps it.
LEMMA OperatorsStep ==
    ASSUME OperatorsInv, [Shell!Next]_(Shell!vars)
    PROVE  OperatorsInv'
<1>1. ASSUME UNCHANGED <<v2, v3, v5, v11>>, v1' \in Busy => v1 \in Busy, v1' \in Past => v1 \in Past
      PROVE  OperatorsInv'
  BY <1>1 DEF OperatorsInv
<1>2. ASSUME v11' = <<>>, v3' = 1, v1' = "exec"
      PROVE  OperatorsInv'
  BY <1>2 DEF OperatorsInv, Past
<1>3. CASE UNCHANGED Shell!vars
  BY <1>1, <1>3 DEF Shell!vars, Shell!loop
<1>4. ASSUME NEW l \in ShellLines, Shell!ReadLine(l) PROVE OperatorsInv'
  <2>1. \/ UNCHANGED <<v2, v3, v5, v11>> /\ v1' \in {"prompt", "exited"}
        \/ v11' = <<>> /\ v3' = 1 /\ v1' = "exec"
    BY <1>4 DEF Shell!ReadLine, Shell!Runs, Shell!Exec, Shell!Fails, Shell!Nothing, Shell!ToPrompt, Shell!loop
  <2>. QED BY <2>1, <1>1, <1>2 DEF Busy, Past
<1>5. ASSUME Shell!Scan PROVE OperatorsInv'
  <2>. DEFINE token == Shell!Token
  <2>0. token.kind = KindAt(v2, v3)
    BY DEF Shell!Token, KindAt
  <2>. HIDE DEF token
  <2>1. /\ v1 = "exec" /\ v3' = v3 + 1 /\ v5' = KindAt(v2, v3) /\ v2' = v2 /\ v11' = v11
        /\ v1' \in {"exec", "builtin"}
    <3>1. /\ v1 = "exec" /\ v3' = v3 + 1 /\ v5' = Shell!Token.kind /\ v2' = v2 /\ v11' = v11
          /\ v1' \in {"exec", "builtin"}
      BY <1>5, Zenon DEF Shell!Scan
    <3>. QED BY <2>0, <3>1 DEF token
  <2>2. v3 \in Int /\ v3 + 1 \in Int /\ v3 + 1 - 1 = v3
    BY DEF OperatorsInv
  <2>3. v5' = KindAt(v2, v3' - 1)
    <3>1. v3' - 1 = v3
      BY <2>1, <2>2
    <3>. QED BY <2>1, <3>1, Zenon
  <2>. QED BY <2>1, <2>2, <2>3 DEF OperatorsInv, Busy
<1>6. ASSUME Shell!NoProcess PROVE OperatorsInv'
  <2>1. v1 = "builtin" /\ \E result \in {0, 1} : Shell!Returns(result)
    BY <1>6 DEF Shell!NoProcess
  <2>. QED BY <2>1, ReturnsKeeps DEF Past
<1>7. ASSUME Shell!Setpgid PROVE OperatorsInv'
  <2>1. CASE Shell!Returns(0)
    BY <1>7, <2>1, ReturnsKeeps DEF Past, Shell!Setpgid
  <2>2. CASE Shell!Fails
    BY <1>1, <2>2 DEF Shell!Fails, Shell!ToPrompt, Shell!loop, Busy, Past
  <2>. QED BY <1>7, <2>1, <2>2 DEF Shell!Setpgid
<1>8. ASSUME Shell!EraseEnds PROVE OperatorsInv'
  <2>1. v1 = "unlist" /\ \E result \in {0, 1} : Shell!Returns(result)
    BY <1>8 DEF Shell!EraseEnds
  <2>. QED BY <2>1, ReturnsKeeps DEF Past
<1>9. ASSUME Shell!Fork \/ Shell!SetPid \/ Shell!Waitpid \/ Shell!EraseFrees PROVE OperatorsInv'
  BY <1>1, <1>9 DEF Shell!Fork, Shell!SetPid, Shell!Waitpid, Shell!EraseFrees, Shell!loop, Busy, Past
<1>10. ASSUME Shell!HandleSigint PROVE OperatorsInv'
  BY <1>1, <1>10 DEF Shell!HandleSigint, Shell!loop
<1>11. ASSUME NEW p \in Shell!Pids, Shell!ChildEnds(p) PROVE OperatorsInv'
  BY <1>1, <1>11 DEF Shell!ChildEnds, Shell!loop
<1>. QED BY <1>3, <1>4, <1>5, <1>6, <1>7, <1>8, <1>9, <1>10, <1>11 DEF Shell!Next, Shell!ShellStep

\* What the run checks of it.
LEMMA OperatorsAreRight ==
    ASSUME OperatorsInv
    PROVE  Shell!OperatorsHold
<1>. SUFFICES ASSUME NEW k \in 1..(Len(v11) - 1)
              PROVE  /\ v2[v11[k][1]].kind = "and" => v11[k][2] = 1
                     /\ v2[v11[k][1]].kind = "or" => v11[k][2] # 1
  BY DEF Shell!OperatorsHold
<1>1. Len(v11) \in Nat /\ k \in 1..Len(v11) /\ k < Len(v11)
  BY DEF OperatorsInv
<1>2. Shell!Continue(v11[k][2], KindAt(v2, v11[k][1]))
  BY <1>1 DEF OperatorsInv
<1>. QED BY <1>2 DEF Shell!Continue, KindAt

-----------------------------------------------------------------------------
(* The makefiles. *)

\* A set of line numbers that is not empty has a first and a last.
LEMMA FirstAndLast ==
    ASSUME NEW n \in Nat, NEW T \in SUBSET (1..n), T # {}
    PROVE  /\ Makefiles!Max(T) \in T /\ \A m \in T : m <= Makefiles!Max(T)
           /\ Makefiles!Min(T) \in T /\ \A m \in T : Makefiles!Min(T) <= m
<1>1. \E x \in T : \A y \in T : x <= y
  BY LeastNatural
<1>2. \E x \in T : \A y \in T : x >= y
  <2>. DEFINE U == {n - x : x \in T}
  <2>1. U \in SUBSET Nat /\ U # {}
    <3>1. \A x \in T : n - x \in Nat
      OBVIOUS
    <3>. QED BY <3>1
  <2>2. PICK u \in U : \A w \in U : u <= w
    <3>. HIDE DEF U
    <3>. QED BY <2>1, LeastNatural
  <2>3. PICK x \in T : u = n - x
    BY <2>2
  <2>4. \A y \in T : n - x <= n - y
    BY <2>2, <2>3
  <2>. QED BY <2>4
<1>. QED BY <1>1, <1>2 DEF Makefiles!Max, Makefiles!Min

\* A line more is the last, and the first only if it is the only one.
LEMMA OneLineMore ==
    ASSUME NEW n \in Nat, NEW T \in SUBSET (1..n)
    PROVE  /\ Makefiles!Max(T \cup {n + 1}) = n + 1
           /\ T # {} => Makefiles!Min(T \cup {n + 1}) = Makefiles!Min(T)
<1>. DEFINE U == T \cup {n + 1}  last == Makefiles!Max(U)  first == Makefiles!Min(U)
<1>1. U \in SUBSET (1..(n + 1)) /\ U # {} /\ n + 1 \in Nat /\ \A m \in T : m \in Int /\ m < n + 1
  OBVIOUS
<1>2. last \in U /\ (\A m \in U : m <= last) /\ first \in U /\ \A m \in U : first <= m
  <2>. HIDE DEF U
  <2>. QED BY <1>1, FirstAndLast
<1>. HIDE DEF last, first
<1>3. last = n + 1
  BY <1>1, <1>2
<1>4. ASSUME T # {} PROVE first = Makefiles!Min(T)
  <2>. DEFINE least == Makefiles!Min(T)
  <2>1. least \in T /\ \A m \in T : least <= m
    BY <1>4, FirstAndLast
  <2>. HIDE DEF least
  <2>2. first = least
    BY <1>1, <1>2, <2>1
  <2>. QED BY <2>2 DEF least
<1>. QED BY <1>3, <1>4 DEF last, first

\* The commands there may be.
Commands == {l.command : l \in {l \in MakefileLines : l.kind = "recipe"}}

\* What the parser knows of the text it has read: its rules, and of the last one
\* whether recipe lines follow it.
LastRule == Makefiles!Max(Makefiles!Numbers("rule"))
GraphHolds ==
    /\ DOMAIN v3 = Makefiles!Mentioned \cup {""} /\ DOMAIN v4 = DOMAIN v3 /\ DOMAIN v5 = DOMAIN v3
    /\ \A t \in Makefiles!Mentioned :
         /\ v3[t] = UNION {Makefiles!Range(v1[i].deps) : i \in Makefiles!RulesFor(t)}
         /\ v4[t] \in Seq(Commands) /\ Makefiles!AreTheCommands(v4[t], Makefiles!RecipeOf(t))
         /\ v5[t] # 0 <=> Makefiles!WithRecipe(t) # {}
PlaceHolds ==
    LET rules == Makefiles!Numbers("rule")
    IN  IF rules = {} THEN v6 = Null /\ v8 = Null
        ELSE /\ v6 = v1[LastRule].target /\ v8 = v1[Makefiles!Min(rules)].target
             /\ v7 <=> Makefiles!Recipes(LastRule) # {}
ReadingInv == ~Makefiles!Broken /\ GraphHolds /\ PlaceHolds
MakefileInv ==
    /\ v1 \in Seq(MakefileLines) /\ Makefiles!ParsedAsWritten
    /\ v9 = "reading" => ReadingInv

\* Nothing has been read.
LEMMA MakefileInit ==
    ASSUME Makefiles!Init
    PROVE  MakefileInv
<1>1. v1 = <<>> /\ v9 = "reading" /\ v3 = [v \in {""} |-> {}] /\ v4 = [v \in {""} |-> <<>>]
      /\ v5 = [v \in {""} |-> 0] /\ v6 = Null /\ v8 = Null
  BY DEF Makefiles!Init, Makefiles!Sentinel
<1>2. v1 \in Seq(MakefileLines) /\ \A kind : Makefiles!Numbers(kind) = {}
  <2>1. DOMAIN v1 = {} /\ v1 \in Seq(MakefileLines)
    <3>1. <<>> \in Seq(MakefileLines) /\ DOMAIN <<>> = {}
      OBVIOUS
    <3>. QED BY <1>1, <3>1, Zenon
  <2>. QED BY <2>1, Zenon DEF Makefiles!Numbers
<1>3. Makefiles!Mentioned = {} /\ ~Makefiles!Broken
  BY <1>2 DEF Makefiles!Mentioned, Makefiles!Broken
<1>4. GraphHolds /\ PlaceHolds
  BY <1>1, <1>2, <1>3 DEF GraphHolds, PlaceHolds
<1>5. Makefiles!ParsedAsWritten
  BY <1>1, <1>3 DEF Makefiles!ParsedAsWritten, Makefiles!Sentinel
<1>. QED BY <1>2, <1>3, <1>4, <1>5 DEF MakefileInv, ReadingInv

\* Where the rules and the recipe lines are.
LEMMA Placed ==
    ASSUME v1 \in Seq(MakefileLines)
    PROVE  /\ Len(v1) \in Nat
           /\ \A kind : /\ Makefiles!Numbers(kind) \in SUBSET (1..Len(v1))
                        /\ \A i \in Makefiles!Numbers(kind) : v1[i] \in MakefileLines /\ v1[i].kind = kind
           /\ \A t : /\ Makefiles!RulesFor(t) \subseteq Makefiles!Numbers("rule")
                     /\ Makefiles!WithRecipe(t) \subseteq Makefiles!RulesFor(t)
           /\ \A i : Makefiles!Recipes(i) \subseteq Makefiles!Numbers("recipe")
<1>1. Len(v1) \in Nat /\ DOMAIN v1 = 1..Len(v1) /\ \A i \in 1..Len(v1) : v1[i] \in MakefileLines
  OBVIOUS
<1>. QED BY <1>1 DEF Makefiles!Numbers, Makefiles!RulesFor, Makefiles!WithRecipe, Makefiles!Recipes

\* A line more is at the end, and the others stay where they are.
Grows(line) ==
    LET n == Len(v1) + 1
    IN  /\ v1 \in Seq(MakefileLines) /\ v1' \in Seq(MakefileLines) /\ Len(v1') = n /\ v1'[n] = line
        /\ \A i \in 1..Len(v1) : v1'[i] = v1[i]
        /\ \A kind : Makefiles!Numbers(kind)' = Makefiles!Numbers(kind) \cup (IF line.kind = kind THEN {n} ELSE {})
LEMMA GrowsBy ==
    ASSUME v1 \in Seq(MakefileLines), NEW line \in MakefileLines, v1' = Append(v1, line)
    PROVE  Grows(line)
<1>. DEFINE n == Len(v1) + 1
<1>1. /\ Len(v1) \in Nat /\ DOMAIN v1 = 1..Len(v1) /\ v1' \in Seq(MakefileLines) /\ Len(v1') = n
      /\ DOMAIN v1' = 1..n /\ v1'[n] = line /\ \A i \in 1..Len(v1) : v1'[i] = v1[i]
  BY AppendProperties
<1>2. 1..n = 1..Len(v1) \cup {n} /\ n \notin 1..Len(v1)
  BY <1>1
<1>3. ASSUME NEW kind
      PROVE  Makefiles!Numbers(kind)' = Makefiles!Numbers(kind) \cup (IF line.kind = kind THEN {n} ELSE {})
  <2>. HIDE DEF n
  <2>. QED BY <1>1, <1>2 DEF Makefiles!Numbers
<1>. QED BY <1>1, <1>3 DEF Grows

\* A line that is no rule changes neither what is mentioned nor by whom.
LEMMA RulesStay ==
    ASSUME NEW line, Grows(line), line.kind # "rule"
    PROVE  /\ Makefiles!Numbers("rule")' = Makefiles!Numbers("rule") /\ Makefiles!Mentioned' = Makefiles!Mentioned
           /\ \A t : /\ Makefiles!RulesFor(t)' = Makefiles!RulesFor(t)
                     /\ UNION {Makefiles!Range(v1[i].deps) : i \in Makefiles!RulesFor(t)}'
                        = UNION {Makefiles!Range(v1[i].deps) : i \in Makefiles!RulesFor(t)}
<1>1. Makefiles!Numbers("rule")' = Makefiles!Numbers("rule")
  BY DEF Grows
<1>2. \A i \in Makefiles!Numbers("rule") : v1'[i] = v1[i]
  BY Placed DEF Grows
<1>3. \A t : Makefiles!RulesFor(t)' = Makefiles!RulesFor(t)
  BY <1>1, <1>2 DEF Makefiles!RulesFor
<1>4. \A t : Makefiles!RulesFor(t) \subseteq Makefiles!Numbers("rule")
  BY DEF Makefiles!RulesFor
<1>5. \A t : UNION {Makefiles!Range(v1[i].deps) : i \in Makefiles!RulesFor(t)}'
             = UNION {Makefiles!Range(v1[i].deps) : i \in Makefiles!RulesFor(t)}
  BY <1>2, <1>3, <1>4
<1>6. Makefiles!Mentioned' = Makefiles!Mentioned
  BY <1>1, <1>2 DEF Makefiles!Mentioned
<1>. QED BY <1>1, <1>3, <1>5, <1>6

\* Nor does one that is no recipe line change the commands of a rule.
LEMMA RecipesStay ==
    ASSUME NEW line, Grows(line), line.kind # "recipe", NEW i \in 1..Len(v1)
    PROVE  Makefiles!Recipes(i)' = Makefiles!Recipes(i)
<1>1. Makefiles!Numbers("recipe")' = Makefiles!Numbers("recipe")
      /\ Makefiles!Numbers("recipe") \in SUBSET (1..Len(v1)) /\ Len(v1) \in Nat
  BY Placed DEF Grows
<1>2. \A r \in 1..Len(v1) : \A j \in Makefiles!Numbers("rule")' : j < r => j \in Makefiles!Numbers("rule")
  BY <1>1 DEF Grows
<1>3. Makefiles!Numbers("rule") \subseteq Makefiles!Numbers("rule")'
  BY DEF Grows
<1>. QED BY <1>1, <1>2, <1>3 DEF Makefiles!Recipes

\* Nothing is called "".
LEMMA NoEmptyName ==
    ASSUME v1 \in Seq(MakefileLines)
    PROVE  "" \notin Makefiles!Mentioned
<1>1. \A i \in Makefiles!Numbers("rule") : v1[i].target # "" /\ "" \notin Makefiles!Range(v1[i].deps)
  BY Placed, MakefileAssumption
<1>. QED BY <1>1 DEF Makefiles!Mentioned

\* Where there are no recipe lines there are no commands.
LEMMA NoCommands ==
    Makefiles!AreTheCommands(<<>>, {})'
<1>1. DOMAIN <<>> = {} /\ <<>> \in [{} -> {}] /\ Makefiles!Range(<<>>) = {}
  BY DEF Makefiles!Range
<1>. QED BY <1>1, Zenon DEF Makefiles!AreTheCommands

\* The same, for commands that have not changed.
LEMMA CommandsKept ==
    ASSUME NEW line, Grows(line), NEW t, v4'[t] = v4[t], Makefiles!RecipeOf(t)' = Makefiles!RecipeOf(t),
           Makefiles!RecipeOf(t) \in SUBSET (1..Len(v1)), Makefiles!AreTheCommands(v4[t], Makefiles!RecipeOf(t))
    PROVE  Makefiles!AreTheCommands(v4[t], Makefiles!RecipeOf(t))'
<1>1. PICK cs, ls : cs = v4[t] /\ ls = Makefiles!RecipeOf(t)
  OBVIOUS
<1>2. PICK nth \in [DOMAIN cs -> ls] :
        /\ Makefiles!Range(nth) = ls /\ \A m, n \in DOMAIN cs : m < n => nth[m] < nth[n]
        /\ \A n \in DOMAIN cs : cs[n] = v1[nth[n]].command
  BY <1>1, Zenon DEF Makefiles!AreTheCommands
<1>3. \A n \in DOMAIN cs : cs[n] = v1'[nth[n]].command
  BY <1>1, <1>2 DEF Grows
<1>4. Makefiles!AreTheCommands(cs, ls)'
  BY <1>2, <1>3, Zenon DEF Makefiles!AreTheCommands
<1>. QED BY <1>1, <1>4, Zenon

\* The commands of one line more are one command more.
LEMMA CommandAppended ==
    ASSUME NEW line, Grows(line), NEW cs \in Seq(Commands), NEW ls \in SUBSET (1..Len(v1)),
           Makefiles!AreTheCommands(cs, ls), NEW n, n = Len(v1) + 1, NEW t,
           v4'[t] = Append(cs, line.command), line.command \in Commands,
           Makefiles!RecipeOf(t)' = ls \cup {n}
    PROVE  Makefiles!AreTheCommands(v4[t], Makefiles!RecipeOf(t))'
<1>1. PICK nth \in [DOMAIN cs -> ls] :
        /\ Makefiles!Range(nth) = ls /\ \A k, m \in DOMAIN cs : k < m => nth[k] < nth[m]
        /\ \A m \in DOMAIN cs : cs[m] = v1[nth[m]].command
  BY Zenon DEF Makefiles!AreTheCommands
<1>2. PICK len : len = Len(cs)
  OBVIOUS
<1>3. PICK new : new = Append(cs, line.command)
  OBVIOUS
<1>4. /\ len \in Nat /\ DOMAIN cs = 1..len /\ DOMAIN new = 1..(len + 1) /\ new[len + 1] = line.command
      /\ \A m \in 1..len : new[m] = cs[m]
  BY <1>2, <1>3, AppendProperties
<1>5. v1'[n] = line /\ Len(v1) \in Nat /\ \A i \in 1..Len(v1) : v1'[i] = v1[i] /\ i < n
  BY Placed DEF Grows
<1>. DEFINE at == [m \in 1..(len + 1) |-> IF m = len + 1 THEN n ELSE nth[m]]
<1>6. (\A m \in 1..len : m # len + 1 /\ m \in 1..(len + 1)) /\ len + 1 \in 1..(len + 1)
      /\ \A m \in 1..(len + 1) : m # len + 1 => m \in 1..len
  BY <1>4
<1>7. /\ \A m \in 1..len : at[m] = nth[m] /\ nth[m] \in ls
      /\ at[len + 1] = n /\ DOMAIN at = 1..(len + 1)
  BY <1>1, <1>4, <1>6
<1>8. at \in [DOMAIN new -> ls \cup {n}]
  BY <1>1, <1>4, <1>6
<1>. HIDE DEF at
<1>9. Makefiles!Range(at) = ls \cup {n}
  <2>1. ls = {nth[m] : m \in 1..len}
    BY <1>1, <1>4 DEF Makefiles!Range
  <2>. QED BY <1>6, <1>7, <2>1 DEF Makefiles!Range
<1>10. \A k, m \in DOMAIN new : k < m => at[k] < at[m]
  <2>. SUFFICES ASSUME NEW k \in 1..(len + 1), NEW m \in 1..(len + 1), k < m PROVE at[k] < at[m]
    BY <1>4
  <2>1. k \in 1..len
    BY <1>4
  <2>2. CASE m = len + 1
    BY <1>5, <1>7, <2>1, <2>2
  <2>3. CASE m # len + 1
    BY <1>1, <1>4, <1>6, <1>7, <2>1, <2>3
  <2>. QED BY <2>2, <2>3
<1>11. \A m \in DOMAIN new : new[m] = v1'[at[m]].command
  <2>. SUFFICES ASSUME NEW m \in 1..(len + 1) PROVE new[m] = v1'[at[m]].command
    BY <1>4
  <2>1. CASE m = len + 1
    BY <1>4, <1>5, <1>7, <2>1
  <2>2. CASE m # len + 1
    BY <1>1, <1>4, <1>5, <1>6, <1>7, <2>2
  <2>. QED BY <2>1, <2>2
<1>12. PICK more : more = ls \cup {n}
  OBVIOUS
<1>13. Makefiles!AreTheCommands(new, more)'
  BY <1>8, <1>9, <1>10, <1>11, <1>12, Zenon DEF Makefiles!AreTheCommands
<1>. QED BY <1>3, <1>12, <1>13, Zenon

\* A rule: its target is mentioned and depends on more.
LEMMA RuleKeeps ==
    ASSUME ReadingInv, NEW line \in MakefileLines, Grows(line), line.kind = "rule",
           Makefiles!RuleLine(line)
    PROVE  ReadingInv'
<1>0. PICK n : n = Len(v1) + 1
  OBVIOUS
<1>. DEFINE rules == Makefiles!Numbers("rule")  T == line.target  deps == Makefiles!Range(line.deps)
<1>1. /\ v1 \in Seq(MakefileLines) /\ Len(v1) \in Nat /\ v1'[n] = line /\ n \notin rules
      /\ rules \in SUBSET (1..Len(v1)) /\ rules' = rules \cup {n}
      /\ n = Len(v1) + 1 /\ \A i \in 1..Len(v1) : v1'[i] = v1[i]
  BY <1>0, Placed DEF Grows
<1>2. T \notin {"", Null} /\ "" \notin deps
  BY MakefileAssumption
<1>3. Makefiles!Mentioned' = Makefiles!Mentioned \cup {T} \cup deps
  BY <1>1 DEF Makefiles!Mentioned
<1>4. \A t : Makefiles!RulesFor(t)' = Makefiles!RulesFor(t) \cup (IF t = T THEN {n} ELSE {})
  BY <1>1 DEF Makefiles!RulesFor
<1>5. \A i \in rules : Makefiles!Recipes(i)' = Makefiles!Recipes(i)
  BY <1>1, RecipesStay
<1>6. Makefiles!Recipes(n)' = {}
  <2>1. Makefiles!Numbers("recipe")' \in SUBSET (1..Len(v1))
    BY Placed DEF Grows
  <2>. QED BY <1>1, <2>1 DEF Makefiles!Recipes
<1>7. \A t : Makefiles!WithRecipe(t)' = Makefiles!WithRecipe(t)
  <2>1. \A t : Makefiles!RulesFor(t) \subseteq rules
    BY DEF Makefiles!RulesFor
  <2>. QED BY <1>4, <1>5, <1>6, <2>1 DEF Makefiles!WithRecipe
<1>8. \A t : Makefiles!RecipeOf(t)' = Makefiles!RecipeOf(t)
  <2>1. SUFFICES ASSUME NEW t, Makefiles!WithRecipe(t) # {}
                 PROVE  Makefiles!RecipeOf(t)' = Makefiles!RecipeOf(t)
    BY <1>7 DEF Makefiles!RecipeOf
  <2>2. Makefiles!WithRecipe(t) \in SUBSET (1..Len(v1)) /\ Makefiles!WithRecipe(t) \subseteq rules
    BY <1>1, Placed
  <2>3. Makefiles!Max(Makefiles!WithRecipe(t)) \in rules
    BY <1>1, <2>1, <2>2, FirstAndLast
  <2>. QED BY <1>5, <1>7, <2>1, <2>3 DEF Makefiles!RecipeOf
<1>9. ~Makefiles!Broken'
  <2>1. Makefiles!Numbers("bad")' = Makefiles!Numbers("bad") /\ Makefiles!Numbers("recipe")' = Makefiles!Numbers("recipe")
    BY DEF Grows
  <2>. QED BY <1>1, <2>1 DEF Makefiles!Broken, ReadingInv
<1>10. \A t : t \notin Makefiles!Mentioned => Makefiles!RulesFor(t) = {} /\ Makefiles!WithRecipe(t) = {}
  BY DEF Makefiles!RulesFor, Makefiles!WithRecipe, Makefiles!Mentioned
<1>11. GraphHolds'
  <2>. DEFINE named == {T} \cup deps
  <2>1. /\ DOMAIN v3 = Makefiles!Mentioned \cup {""} /\ DOMAIN v4 = DOMAIN v3 /\ DOMAIN v5 = DOMAIN v3
    BY DEF ReadingInv, GraphHolds
  <2>2. /\ v3' = [Makefiles!Extended(v3, named, {}) EXCEPT ![T] = @ \cup deps]
        /\ v4' = Makefiles!Extended(v4, named, <<>>) /\ v5' = Makefiles!Extended(v5, named, 0)
    BY DEF Makefiles!RuleLine
  <2>3. DOMAIN v3' = Makefiles!Mentioned' \cup {""} /\ DOMAIN v4' = DOMAIN v3' /\ DOMAIN v5' = DOMAIN v3'
    BY <1>3, <2>1, <2>2 DEF Makefiles!Extended
  <2>4. SUFFICES ASSUME NEW t \in Makefiles!Mentioned'
                 PROVE  /\ v3'[t] = UNION {Makefiles!Range(v1[i].deps) : i \in Makefiles!RulesFor(t)}'
                        /\ v4'[t] \in Seq(Commands) /\ Makefiles!AreTheCommands(v4[t], Makefiles!RecipeOf(t))'
                        /\ v5'[t] # 0 <=> Makefiles!WithRecipe(t)' # {}
    BY <2>3 DEF GraphHolds
  <2>. DEFINE old == t \in Makefiles!Mentioned
  <2>5. /\ Makefiles!Extended(v3, named, {})[t] = (IF old THEN v3[t] ELSE {})
        /\ v4'[t] = (IF old THEN v4[t] ELSE <<>>) /\ v5'[t] = (IF old THEN v5[t] ELSE 0)
        /\ t \in DOMAIN Makefiles!Extended(v3, named, {})
    <3>1. t # "" /\ t \in DOMAIN v3 \cup named /\ (t \in DOMAIN v3 <=> old)
      BY <1>1, <1>2, <1>3, <2>1, NoEmptyName
    <3>. QED BY <2>1, <2>2, <3>1 DEF Makefiles!Extended
  <2>6. v3'[t] = (IF old THEN v3[t] ELSE {}) \cup (IF t = T THEN deps ELSE {})
    <3>. DEFINE ext == Makefiles!Extended(v3, named, {})
    <3>. HIDE DEF ext, deps
    <3>. QED BY <2>2, <2>5 DEF ext, deps
  <2>7. UNION {Makefiles!Range(v1[i].deps) : i \in Makefiles!RulesFor(t)}'
        = (UNION {Makefiles!Range(v1[i].deps) : i \in Makefiles!RulesFor(t)}) \cup (IF t = T THEN deps ELSE {})
    <3>1. \A i \in Makefiles!RulesFor(t) : v1'[i].deps = v1[i].deps
      BY <1>1, Placed
    <3>2. v1'[n].deps = line.deps
      BY <1>1
    <3>. HIDE DEF T
    <3>. QED BY <1>4, <3>1, <3>2
  <2>8. CASE old
    <3>1. /\ v3[t] = UNION {Makefiles!Range(v1[i].deps) : i \in Makefiles!RulesFor(t)}
          /\ v4[t] \in Seq(Commands) /\ Makefiles!AreTheCommands(v4[t], Makefiles!RecipeOf(t))
          /\ v5[t] # 0 <=> Makefiles!WithRecipe(t) # {}
      BY <2>8 DEF ReadingInv, GraphHolds
    <3>2. Makefiles!AreTheCommands(v4[t], Makefiles!RecipeOf(t))'
      <4>1. v4'[t] = v4[t] /\ Makefiles!RecipeOf(t)' = Makefiles!RecipeOf(t)
        BY <1>8, <2>5, <2>8
      <4>2. Makefiles!RecipeOf(t) \in SUBSET (1..Len(v1))
        BY Placed, <1>1 DEF Makefiles!RecipeOf
      <4>. QED BY <3>1, <4>1, <4>2, CommandsKept
    <3>. QED BY <1>7, <2>5, <2>6, <2>7, <2>8, <3>1, <3>2
  <2>9. CASE ~old
    <3>1. v4'[t] = <<>> /\ v5'[t] = 0 /\ Makefiles!RulesFor(t) = {} /\ Makefiles!WithRecipe(t)' = {}
      BY <1>7, <1>10, <2>5, <2>9
    <3>2. Makefiles!RecipeOf(t)' = {}
      BY <3>1 DEF Makefiles!RecipeOf
    <3>3. Makefiles!AreTheCommands(v4[t], Makefiles!RecipeOf(t))'
      BY <3>1, <3>2, NoCommands
    <3>4. v3'[t] = UNION {Makefiles!Range(v1[i].deps) : i \in Makefiles!RulesFor(t)}'
      BY <2>6, <2>7, <2>9, <3>1
    <3>. QED BY <3>1, <3>3, <3>4
  <2>. QED BY <2>8, <2>9
<1>12. PlaceHolds'
  <2>1. rules' # {} /\ rules' = rules \cup {Len(v1) + 1} /\ n = Len(v1) + 1
    BY <1>1
  <2>2. Makefiles!Max(rules') = n /\ (rules # {} => Makefiles!Min(rules') = Makefiles!Min(rules))
    <3>1. /\ Makefiles!Max(rules \cup {Len(v1) + 1}) = Len(v1) + 1
          /\ rules # {} => Makefiles!Min(rules \cup {Len(v1) + 1}) = Makefiles!Min(rules)
      <4>. HIDE DEF rules
      <4>. QED BY <1>1, OneLineMore
    <3>. HIDE DEF rules
    <3>. QED BY <2>1, <3>1, Zenon
  <2>4. LastRule' = n
    BY <2>2 DEF LastRule
  <2>5. v6' = T /\ v7' = FALSE /\ v8' = IF T \notin DOMAIN v3 /\ v8 = Null THEN T ELSE v8
    BY DEF Makefiles!RuleLine
  <2>6. v8' = v1'[Makefiles!Min(rules')].target
    <3>1. CASE rules = {}
      <4>1. Makefiles!Mentioned = {} /\ v8 = Null
        BY <3>1 DEF Makefiles!Mentioned, ReadingInv, PlaceHolds
      <4>2. v8' = T
        BY <1>2, <2>5, <4>1 DEF ReadingInv, GraphHolds
      <4>3. Makefiles!Min(rules') = n
        <5>1. rules' = {n}
          BY <1>1, <3>1
        <5>. HIDE DEF rules
        <5>. QED BY <1>1, <5>1 DEF Makefiles!Min
      <4>. QED BY <1>1, <4>2, <4>3
    <3>2. CASE rules # {}
      <4>1. Makefiles!Min(rules) \in rules /\ \A m \in rules : Makefiles!Min(rules) <= m
        <5>. HIDE DEF rules
        <5>. QED BY <1>1, <3>2, FirstAndLast
      <4>2. Makefiles!Min(rules') = Makefiles!Min(rules)
        BY <2>2, <3>2
      <4>3. v8 = v1[Makefiles!Min(rules)].target /\ v8 # Null
        <5>1. v8 = v1[Makefiles!Min(rules)].target
          BY <3>2 DEF ReadingInv, PlaceHolds
        <5>2. v1[Makefiles!Min(rules)].target # Null
          BY <1>1, <4>1, Placed, MakefileAssumption
        <5>. QED BY <5>1, <5>2
      <4>. QED BY <1>1, <2>5, <4>1, <4>2, <4>3
    <3>. QED BY <3>1, <3>2
  <2>7. v6' = v1'[LastRule'].target /\ (v7' <=> Makefiles!Recipes(LastRule)' # {})
    <3>1. Makefiles!Recipes(LastRule)' = {}
      BY <1>6, <2>4
    <3>. QED BY <1>1, <2>4, <2>5, <3>1
  <2>. QED BY <2>1, <2>6, <2>7 DEF PlaceHolds
<1>. QED BY <1>9, <1>11, <1>12 DEF ReadingInv

\* A recipe line is the last rule's, and takes the place of the recipe that a rule
\* before it has for the same target.
LEMMA RecipeKeeps ==
    ASSUME ReadingInv, NEW line \in MakefileLines, Grows(line), line.kind = "recipe",
           Makefiles!RecipeLine(line), v6 # Null
    PROVE  ReadingInv'
<1>0. PICK n : n = Len(v1) + 1
  OBVIOUS
<1>. DEFINE rules == Makefiles!Numbers("rule")  recipes == Makefiles!Numbers("recipe")
<1>1. /\ v1 \in Seq(MakefileLines) /\ Len(v1) \in Nat /\ n = Len(v1) + 1 /\ v1'[n] = line
      /\ rules \in SUBSET (1..Len(v1)) /\ recipes \in SUBSET (1..Len(v1)) /\ recipes' = recipes \cup {n}
      /\ \A i \in 1..Len(v1) : v1'[i] = v1[i]
  BY <1>0, Placed DEF Grows
<1>2. /\ rules' = rules /\ Makefiles!Mentioned' = Makefiles!Mentioned
      /\ \A t : /\ Makefiles!RulesFor(t)' = Makefiles!RulesFor(t) /\ Makefiles!RulesFor(t) \subseteq rules
                /\ UNION {Makefiles!Range(v1[i].deps) : i \in Makefiles!RulesFor(t)}'
                   = UNION {Makefiles!Range(v1[i].deps) : i \in Makefiles!RulesFor(t)}
  BY RulesStay, Placed, <1>1
<1>3. rules # {}
  BY DEF ReadingInv, PlaceHolds
<1>4. PICK last : last = LastRule
  OBVIOUS
<1>5. last \in rules /\ (\A m \in rules : m <= last) /\ last \in 1..Len(v1)
  <2>. HIDE DEF rules
  <2>. QED BY <1>1, <1>3, <1>4, FirstAndLast DEF LastRule, rules
<1>6. PICK T : T = v1[last].target
  OBVIOUS
<1>7. v6 = T /\ (v7 <=> Makefiles!Recipes(last) # {})
  BY <1>3, <1>4, <1>6 DEF ReadingInv, PlaceHolds
<1>8. \A i \in rules : Makefiles!Recipes(i)' = Makefiles!Recipes(i) \cup (IF i = last THEN {n} ELSE {})
  <2>. SUFFICES ASSUME NEW i \in rules
                PROVE  Makefiles!Recipes(i)' = Makefiles!Recipes(i) \cup (IF i = last THEN {n} ELSE {})
    OBVIOUS
  <2>. DEFINE follows(r) == r > i /\ ~\E j \in rules : i < j /\ j < r
  <2>1. follows(n) <=> i = last
    <3>1. i \in Nat /\ last \in Nat /\ n \in Nat /\ i < n /\ last < n
      BY <1>1, <1>5
    <3>2. CASE i = last
      <4>1. \A j \in rules : j \in Nat /\ j <= i
        BY <1>1, <1>5, <3>2
      <4>2. ~\E j \in rules : i < j /\ j < n
        <5>. HIDE DEF rules
        <5>. QED BY <3>1, <4>1
      <4>. QED BY <3>1, <3>2, <4>2
    <3>3. CASE i # last
      <4>1. last \in rules /\ i < last
        <5>1. i <= last /\ last \in rules
          BY <1>5
        <5>. HIDE DEF rules
        <5>. QED BY <3>1, <3>3, <5>1
      <4>2. \E j \in rules : i < j /\ j < n
        <5>. HIDE DEF rules
        <5>. QED BY <3>1, <4>1
      <4>. QED BY <3>3, <4>2
    <3>. QED BY <3>2, <3>3
  <2>2. Makefiles!Recipes(i) = {r \in recipes : follows(r)}
    BY DEF Makefiles!Recipes
  <2>3. Makefiles!Recipes(i)' = {r \in recipes \cup {n} : follows(r)}
    BY <1>1, <1>2 DEF Makefiles!Recipes
  <2>. HIDE DEF follows
  <2>. QED BY <2>1, <2>2, <2>3
<1>9. \A t : t # T => last \notin Makefiles!RulesFor(t)
  BY <1>6 DEF Makefiles!RulesFor
<1>10. last \in Makefiles!RulesFor(T)
  BY <1>5, <1>6 DEF Makefiles!RulesFor
<1>11. \A t : t # T => Makefiles!WithRecipe(t)' = Makefiles!WithRecipe(t) /\ Makefiles!RecipeOf(t)' = Makefiles!RecipeOf(t)
  <2>. SUFFICES ASSUME NEW t, t # T
                PROVE  Makefiles!WithRecipe(t)' = Makefiles!WithRecipe(t) /\ Makefiles!RecipeOf(t)' = Makefiles!RecipeOf(t)
    OBVIOUS
  <2>1. \A i \in Makefiles!RulesFor(t) : Makefiles!Recipes(i)' = Makefiles!Recipes(i)
    BY <1>2, <1>8, <1>9
  <2>2. Makefiles!WithRecipe(t)' = Makefiles!WithRecipe(t)
    BY <1>2, <2>1 DEF Makefiles!WithRecipe
  <2>3. ASSUME Makefiles!WithRecipe(t) # {} PROVE Makefiles!Max(Makefiles!WithRecipe(t)) \in Makefiles!RulesFor(t)
    <3>1. Makefiles!WithRecipe(t) \in SUBSET (1..Len(v1)) /\ Makefiles!WithRecipe(t) \subseteq Makefiles!RulesFor(t)
      BY <1>1, <1>2 DEF Makefiles!WithRecipe
    <3>2. Makefiles!Max(Makefiles!WithRecipe(t)) \in Makefiles!WithRecipe(t)
      BY <1>1, <2>3, <3>1, FirstAndLast
    <3>. QED BY <3>1, <3>2
  <2>. QED BY <2>1, <2>2, <2>3 DEF Makefiles!RecipeOf
<1>12. /\ Makefiles!WithRecipe(T)' = Makefiles!WithRecipe(T) \cup {last}
       /\ Makefiles!RecipeOf(T)' = Makefiles!Recipes(last) \cup {n}
       /\ Makefiles!Recipes(last) # {} => /\ Makefiles!WithRecipe(T) # {}
                                          /\ Makefiles!RecipeOf(T) = Makefiles!Recipes(last)
  <2>1. \A S : S \subseteq rules /\ last \in S => Makefiles!Max(S) = last
    <3>. SUFFICES ASSUME NEW S, S \subseteq rules, last \in S PROVE Makefiles!Max(S) = last
      OBVIOUS
    <3>1. S \in SUBSET (1..Len(v1)) /\ S # {} /\ Len(v1) \in Nat
      BY <1>1
    <3>. DEFINE greatest == Makefiles!Max(S)
    <3>2. greatest \in S /\ last <= greatest
      BY <3>1, FirstAndLast
    <3>. HIDE DEF greatest, rules
    <3>3. greatest \in 1..Len(v1) /\ greatest <= last
      BY <1>5, <3>1, <3>2
    <3>4. greatest = last
      BY <1>5, <3>1, <3>2, <3>3
    <3>. QED BY <3>4 DEF greatest
  <2>2. Makefiles!WithRecipe(T)' = Makefiles!WithRecipe(T) \cup {last}
    BY <1>2, <1>8, <1>10 DEF Makefiles!WithRecipe
  <2>3. Makefiles!WithRecipe(T) \subseteq rules
    BY <1>2 DEF Makefiles!WithRecipe
  <2>4. Makefiles!RecipeOf(T)' = Makefiles!Recipes(last)'
    <3>1. Makefiles!Max(Makefiles!WithRecipe(T)') = last
      BY <1>5, <2>1, <2>2, <2>3
    <3>. QED BY <2>2, <3>1 DEF Makefiles!RecipeOf
  <2>5. ASSUME Makefiles!Recipes(last) # {}
        PROVE  Makefiles!WithRecipe(T) # {} /\ Makefiles!RecipeOf(T) = Makefiles!Recipes(last)
    <3>1. last \in Makefiles!WithRecipe(T)
      BY <1>10, <2>5 DEF Makefiles!WithRecipe
    <3>. QED BY <2>1, <2>3, <3>1 DEF Makefiles!RecipeOf
  <2>. QED BY <1>5, <1>8, <2>2, <2>4, <2>5
<1>13. ~Makefiles!Broken'
  <2>1. Makefiles!Numbers("bad")' = Makefiles!Numbers("bad")
    BY DEF Grows
  <2>2. \A r \in recipes' : \E i \in rules : ~(i > r)
    <3>1. \A r \in recipes : \E i \in rules : ~(i > r)
      BY DEF ReadingInv, Makefiles!Broken
    <3>2. ~(last > n)
      BY <1>1, <1>5
    <3>. HIDE DEF rules, recipes
    <3>. QED BY <1>1, <1>5, <3>1, <3>2
  <2>. QED BY <1>2, <2>1, <2>2 DEF Makefiles!Broken, ReadingInv
<1>14. GraphHolds'
  <2>. DEFINE overrides == ~v7 /\ v5[T] # 0  kept == IF overrides THEN <<>> ELSE v4[T]
  <2>1. /\ v3' = v3 /\ v5' = [v5 EXCEPT ![T] = IF v7 THEN @ ELSE n]
        /\ v4' = [v4 EXCEPT ![T] = Append(kept, line.command)]
    BY <1>0, <1>7 DEF Makefiles!RecipeLine
  <2>2. T \in Makefiles!Mentioned /\ T \in DOMAIN v4 /\ T \in DOMAIN v5
    <3>1. T \in Makefiles!Mentioned
      BY <1>5, <1>6 DEF Makefiles!Mentioned
    <3>. QED BY <3>1 DEF ReadingInv, GraphHolds
  <2>3. \A t \in Makefiles!Mentioned :
          /\ v3[t] = UNION {Makefiles!Range(v1[i].deps) : i \in Makefiles!RulesFor(t)}
          /\ v4[t] \in Seq(Commands) /\ Makefiles!AreTheCommands(v4[t], Makefiles!RecipeOf(t))
          /\ v5[t] # 0 <=> Makefiles!WithRecipe(t) # {}
    BY DEF ReadingInv, GraphHolds
  <2>4. DOMAIN v3' = Makefiles!Mentioned' \cup {""} /\ DOMAIN v4' = DOMAIN v3' /\ DOMAIN v5' = DOMAIN v3'
    BY <1>2, <2>1 DEF ReadingInv, GraphHolds
  <2>5. ASSUME NEW t \in Makefiles!Mentioned, t # T
        PROVE  /\ v4'[t] \in Seq(Commands) /\ Makefiles!AreTheCommands(v4[t], Makefiles!RecipeOf(t))'
               /\ v5'[t] # 0 <=> Makefiles!WithRecipe(t)' # {}
    <3>1. v4'[t] = v4[t] /\ v5'[t] = v5[t]
      <4>1. t \in DOMAIN v4 /\ t \in DOMAIN v5
        BY DEF ReadingInv, GraphHolds
      <4>. HIDE DEF kept
      <4>. QED BY <2>1, <2>5, <4>1
    <3>2. Makefiles!RecipeOf(t) \in SUBSET (1..Len(v1)) /\ Makefiles!RecipeOf(t)' = Makefiles!RecipeOf(t)
      BY <1>11, <2>5, Placed, <1>1 DEF Makefiles!RecipeOf
    <3>3. Makefiles!AreTheCommands(v4[t], Makefiles!RecipeOf(t))'
      BY <2>3, <3>1, <3>2, CommandsKept
    <3>. QED BY <1>11, <2>3, <2>5, <3>1, <3>3
  <2>6. /\ v4'[T] \in Seq(Commands) /\ Makefiles!AreTheCommands(v4[T], Makefiles!RecipeOf(T))'
        /\ v5'[T] # 0 /\ Makefiles!WithRecipe(T)' # {}
    <3>1. v5'[T] # 0
      <4>1. v5'[T] = IF v7 THEN v5[T] ELSE n
        <5>. HIDE DEF kept
        <5>. QED BY <2>1, <2>2
      <4>. QED BY <1>1, <1>7, <1>12, <2>2, <2>3, <4>1
    <3>2. v4'[T] = Append(kept, line.command)
      <4>. HIDE DEF kept
      <4>. QED BY <2>1, <2>2
    <3>3. line.command \in Commands
      BY DEF Commands
    <3>4. /\ kept \in Seq(Commands) /\ Makefiles!AreTheCommands(kept, Makefiles!Recipes(last))
      <4>1. CASE v7
        <5>1. kept = v4[T] /\ Makefiles!RecipeOf(T) = Makefiles!Recipes(last)
          BY <1>7, <1>12, <4>1
        <5>. QED BY <2>2, <2>3, <5>1
      <4>2. CASE ~v7
        <5>1. Makefiles!Recipes(last) = {}
          BY <1>7, <4>2
        <5>2. kept = <<>>
          <6>1. CASE v5[T] = 0
            <7>1. Makefiles!RecipeOf(T) = {}
              BY <2>2, <2>3, <6>1 DEF Makefiles!RecipeOf
            <7>2. v4[T] \in Seq(Commands) /\ Makefiles!AreTheCommands(v4[T], {})
              BY <2>2, <2>3, <7>1
            <7>3. DOMAIN v4[T] = {}
              BY <7>2 DEF Makefiles!AreTheCommands
            <7>4. v4[T] = <<>>
              <8>1. PICK cs : cs = v4[T]
                OBVIOUS
              <8>2. Len(cs) = 0
                <9>1. Len(cs) \in Nat /\ DOMAIN cs = 1..Len(cs) /\ DOMAIN cs = {}
                  BY <7>2, <7>3, <8>1
                <9>. QED BY <9>1
              <8>. QED BY <7>2, <8>1, <8>2, EmptySeq
            <7>. QED BY <6>1, <7>4
          <6>2. CASE v5[T] # 0
            BY <4>2, <6>2
          <6>. QED BY <6>1, <6>2
        <5>3. Makefiles!AreTheCommands(<<>>, {})
          <6>1. DOMAIN <<>> = {} /\ <<>> \in [{} -> {}] /\ Makefiles!Range(<<>>) = {}
            BY DEF Makefiles!Range
          <6>. QED BY <6>1, Zenon DEF Makefiles!AreTheCommands
        <5>4. <<>> \in Seq(Commands)
          OBVIOUS
        <5>. HIDE DEF kept
        <5>. QED BY <5>1, <5>2, <5>3, <5>4, Zenon
      <4>. QED BY <4>1, <4>2
    <3>. HIDE DEF kept
    <3>5. v4'[T] \in Seq(Commands)
      BY <3>2, <3>3, <3>4
    <3>6. Makefiles!AreTheCommands(v4[T], Makefiles!RecipeOf(T))'
      <4>1. Makefiles!Recipes(last) \in SUBSET (1..Len(v1))
        BY <1>1, Placed
      <4>2. Makefiles!RecipeOf(T)' = Makefiles!Recipes(last) \cup {n}
        BY <1>12
      <4>. QED BY <1>0, <3>2, <3>3, <3>4, <4>1, <4>2, CommandAppended
    <3>. QED BY <1>12, <3>1, <3>5, <3>6
  <2>7. v3' = v3 /\ Makefiles!Mentioned' = Makefiles!Mentioned
    BY <1>2, <2>1
  <2>8. \A t \in Makefiles!Mentioned' :
          /\ v3'[t] = UNION {Makefiles!Range(v1[i].deps) : i \in Makefiles!RulesFor(t)}'
          /\ v4'[t] \in Seq(Commands) /\ Makefiles!AreTheCommands(v4[t], Makefiles!RecipeOf(t))'
          /\ v5'[t] # 0 <=> Makefiles!WithRecipe(t)' # {}
    <3>. SUFFICES ASSUME NEW t \in Makefiles!Mentioned
                  PROVE  /\ v3'[t] = UNION {Makefiles!Range(v1[i].deps) : i \in Makefiles!RulesFor(t)}'
                         /\ v4'[t] \in Seq(Commands) /\ Makefiles!AreTheCommands(v4[t], Makefiles!RecipeOf(t))'
                         /\ v5'[t] # 0 <=> Makefiles!WithRecipe(t)' # {}
      BY <2>7
    <3>1. v3'[t] = UNION {Makefiles!Range(v1[i].deps) : i \in Makefiles!RulesFor(t)}'
      BY <1>2, <2>3, <2>7
    <3>2. CASE t = T
      BY <2>6, <3>1, <3>2
    <3>3. CASE t # T
      BY <2>5, <3>1, <3>3
    <3>. QED BY <3>2, <3>3
  <2>. QED BY <2>4, <2>8 DEF GraphHolds
<1>15. PlaceHolds'
  <2>1. v6' = v6 /\ v7' = TRUE /\ v8' = v8
    BY <1>7 DEF Makefiles!RecipeLine
  <2>2. LastRule' = last
    BY <1>2, <1>4 DEF LastRule
  <2>3. Makefiles!Recipes(LastRule)' # {}
    BY <1>5, <1>8, <2>2
  <2>4. v8 = v1[Makefiles!Min(rules)].target /\ Makefiles!Min(rules) \in rules
    <3>1. v8 = v1[Makefiles!Min(rules)].target
      BY <1>3 DEF ReadingInv, PlaceHolds
    <3>2. Makefiles!Min(rules) \in rules
      <4>. HIDE DEF rules
      <4>. QED BY <1>1, <1>3, FirstAndLast
    <3>. QED BY <3>1, <3>2
  <2>5. v8' = v1'[Makefiles!Min(rules')].target
    BY <1>1, <1>2, <2>1, <2>4
  <2>6. v6' = v1'[LastRule'].target
    BY <1>1, <1>5, <1>6, <1>7, <2>1, <2>2
  <2>. QED BY <1>2, <1>3, <2>1, <2>3, <2>5, <2>6 DEF PlaceHolds
<1>. QED BY <1>13, <1>14, <1>15 DEF ReadingInv

\* A blank line changes nothing.
LEMMA BlankKeeps ==
    ASSUME ReadingInv, NEW line \in MakefileLines, Grows(line), line.kind = "blank",
           UNCHANGED <<v3, v4, v5, v6, v7, v8>>
    PROVE  ReadingInv'
<1>. DEFINE rules == Makefiles!Numbers("rule")
<1>1. /\ \A kind \in {"bad", "recipe", "rule"} : Makefiles!Numbers(kind)' = Makefiles!Numbers(kind)
      /\ rules \in SUBSET (1..Len(v1)) /\ Len(v1) \in Nat /\ \A i \in 1..Len(v1) : v1'[i] = v1[i]
  BY Placed DEF Grows
<1>2. /\ Makefiles!Mentioned' = Makefiles!Mentioned
      /\ \A t : /\ Makefiles!RulesFor(t)' = Makefiles!RulesFor(t) /\ Makefiles!RulesFor(t) \subseteq rules
                /\ UNION {Makefiles!Range(v1[i].deps) : i \in Makefiles!RulesFor(t)}'
                   = UNION {Makefiles!Range(v1[i].deps) : i \in Makefiles!RulesFor(t)}
  BY RulesStay, Placed DEF Grows
<1>3. \A i : Makefiles!Recipes(i)' = Makefiles!Recipes(i)
  BY <1>1 DEF Makefiles!Recipes
<1>4. \A t : Makefiles!WithRecipe(t)' = Makefiles!WithRecipe(t)
  BY <1>2, <1>3 DEF Makefiles!WithRecipe
<1>5. \A t : /\ Makefiles!RecipeOf(t)' = Makefiles!RecipeOf(t) /\ Makefiles!RecipeOf(t) \in SUBSET (1..Len(v1))
  BY <1>3, <1>4, Placed DEF Makefiles!RecipeOf, Grows
<1>6. \A t \in Makefiles!Mentioned : Makefiles!AreTheCommands(v4[t], Makefiles!RecipeOf(t))'
  <2>1. \A t \in Makefiles!Mentioned : Makefiles!AreTheCommands(v4[t], Makefiles!RecipeOf(t))
    BY DEF ReadingInv, GraphHolds
  <2>. QED BY <1>5, <2>1, CommandsKept
<1>7. GraphHolds'
  <2>1. DOMAIN v3' = Makefiles!Mentioned' \cup {""} /\ DOMAIN v4' = DOMAIN v3' /\ DOMAIN v5' = DOMAIN v3'
    BY <1>2 DEF ReadingInv, GraphHolds
  <2>2. SUFFICES ASSUME NEW t \in Makefiles!Mentioned
                 PROVE  /\ v3'[t] = UNION {Makefiles!Range(v1[i].deps) : i \in Makefiles!RulesFor(t)}'
                        /\ v4'[t] \in Seq(Commands) /\ Makefiles!AreTheCommands(v4[t], Makefiles!RecipeOf(t))'
                        /\ v5'[t] # 0 <=> Makefiles!WithRecipe(t)' # {}
    BY <1>2, <2>1 DEF GraphHolds
  <2>3. /\ v3[t] = UNION {Makefiles!Range(v1[i].deps) : i \in Makefiles!RulesFor(t)}
        /\ v4[t] \in Seq(Commands) /\ (v5[t] # 0 <=> Makefiles!WithRecipe(t) # {})
    BY DEF ReadingInv, GraphHolds
  <2>. QED BY <1>2, <1>4, <1>6, <2>3
<1>8. LastRule' = LastRule
  BY <1>1 DEF LastRule
<1>9. PlaceHolds'
  <2>1. CASE rules = {}
    BY <1>1, <2>1 DEF ReadingInv, PlaceHolds
  <2>2. CASE rules # {}
    <3>1. LastRule \in rules /\ Makefiles!Min(rules) \in rules
      <4>1. Makefiles!Max(rules) \in rules /\ Makefiles!Min(rules) \in rules
        <5>. HIDE DEF rules
        <5>. QED BY <1>1, <2>2, FirstAndLast
      <4>. QED BY <4>1 DEF LastRule
    <3>2. /\ v6 = v1[LastRule].target /\ v8 = v1[Makefiles!Min(rules)].target
          /\ v7 <=> Makefiles!Recipes(LastRule) # {}
      BY <2>2 DEF ReadingInv, PlaceHolds
    <3>3. Makefiles!Recipes(LastRule)' = Makefiles!Recipes(LastRule)
      BY <1>3, <1>8
    <3>4. v1'[LastRule] = v1[LastRule] /\ v1'[Makefiles!Min(rules)] = v1[Makefiles!Min(rules)] /\ rules' = rules
      BY <1>1, <3>1
    <3>5. v6' = v1'[LastRule'].target /\ v8' = v1'[Makefiles!Min(rules')].target
      BY <1>8, <3>2, <3>4
    <3>. QED BY <2>2, <3>2, <3>3, <3>4, <3>5 DEF PlaceHolds
  <2>. QED BY <2>1, <2>2
<1>10. ~Makefiles!Broken'
  BY <1>1 DEF ReadingInv, Makefiles!Broken
<1>. QED BY <1>7, <1>9, <1>10 DEF ReadingInv

\* The parser gives up on a line that cannot be placed.
LEMMA BadLineEnds ==
    ASSUME v9 = "reading", ReadingInv, NEW line \in MakefileLines, Grows(line), Makefiles!Exit("exit 2"),
           line.kind = "bad" \/ (line.kind = "recipe" /\ v6 = Null)
    PROVE  Makefiles!ParsedAsWritten'
<1>. DEFINE rules == Makefiles!Numbers("rule")
<1>1. v9' = "exit 2" /\ v3' = v3
  BY DEF Makefiles!Exit, Makefiles!graph
<1>2. Makefiles!Mentioned' = Makefiles!Mentioned /\ rules' = rules
  BY RulesStay
<1>3. DOMAIN v3 = Makefiles!Mentioned \cup {""}
  BY DEF ReadingInv, GraphHolds
<1>4. Makefiles!Broken'
  <2>1. PICK n : n = Len(v1) + 1
    OBVIOUS
  <2>2. CASE line.kind = "bad"
    <3>1. n \in Makefiles!Numbers("bad")'
      BY <2>1, <2>2 DEF Grows
    <3>. QED BY <3>1 DEF Makefiles!Broken
  <2>3. CASE line.kind = "recipe" /\ v6 = Null
    <3>1. n \in Makefiles!Numbers("recipe")'
      BY <2>1, <2>3 DEF Grows
    <3>2. rules = {}
      <4>1. ASSUME rules # {} PROVE FALSE
        <5>1. LastRule \in rules
          <6>. HIDE DEF rules
          <6>1. rules \in SUBSET (1..Len(v1)) /\ Len(v1) \in Nat
            BY Placed DEF Grows, rules
          <6>2. Makefiles!Max(rules) \in rules
            BY <4>1, <6>1, FirstAndLast
          <6>. QED BY <6>2 DEF LastRule, rules
        <5>2. v1[LastRule].target # Null
          BY <5>1, Placed, MakefileAssumption DEF Grows
        <5>. QED BY <2>3, <4>1, <5>2 DEF ReadingInv, PlaceHolds
      <4>. QED BY <4>1
    <3>. QED BY <1>2, <3>1, <3>2 DEF Makefiles!Broken
  <2>. QED BY <2>2, <2>3
<1>. QED BY <1>1, <1>2, <1>3, <1>4 DEF Makefiles!ParsedAsWritten, Makefiles!Sentinel

\* While the text stays, so does what it says.
LEMMA TextStays ==
    ASSUME v1' = v1
    PROVE  /\ Makefiles!Mentioned' = Makefiles!Mentioned /\ (Makefiles!Broken' <=> Makefiles!Broken)
           /\ \A kind : Makefiles!Numbers(kind)' = Makefiles!Numbers(kind)
           /\ \A i : Makefiles!Recipes(i)' = Makefiles!Recipes(i)
           /\ \A t : /\ UNION {Makefiles!Range(v1[i].deps) : i \in Makefiles!RulesFor(t)}'
                        = UNION {Makefiles!Range(v1[i].deps) : i \in Makefiles!RulesFor(t)}
                     /\ Makefiles!RecipeOf(t)' = Makefiles!RecipeOf(t)
                     /\ Makefiles!WithRecipe(t)' = Makefiles!WithRecipe(t)
           /\ \A cs, ls : Makefiles!AreTheCommands(cs, ls)' <=> Makefiles!AreTheCommands(cs, ls)
<1>1. \A cs, ls : Makefiles!AreTheCommands(cs, ls)' <=> Makefiles!AreTheCommands(cs, ls)
  BY Zenon DEF Makefiles!AreTheCommands
<1>2. \A kind : Makefiles!Numbers(kind)' = Makefiles!Numbers(kind)
  BY DEF Makefiles!Numbers
<1>3. \A t : Makefiles!RulesFor(t)' = Makefiles!RulesFor(t)
  BY <1>2 DEF Makefiles!RulesFor
<1>4. \A i : Makefiles!Recipes(i)' = Makefiles!Recipes(i)
  BY <1>2 DEF Makefiles!Recipes
<1>5. \A t : Makefiles!WithRecipe(t)' = Makefiles!WithRecipe(t)
  BY <1>3, <1>4 DEF Makefiles!WithRecipe
<1>6. \A t : Makefiles!RecipeOf(t)' = Makefiles!RecipeOf(t)
  BY <1>4, <1>5 DEF Makefiles!RecipeOf
<1>7. Makefiles!Mentioned' = Makefiles!Mentioned /\ (Makefiles!Broken' <=> Makefiles!Broken)
  BY <1>2 DEF Makefiles!Mentioned, Makefiles!Broken
<1>. QED BY <1>1, <1>2, <1>3, <1>4, <1>5, <1>6, <1>7

\* The goals are those asked for or the first target, or the parser gives up.
LEMMA GoalsAreAdded ==
    ASSUME v1 \in Seq(MakefileLines), v9 = "reading", ReadingInv, Makefiles!AddGoals
    PROVE  Makefiles!ParsedAsWritten' /\ v1' = v1 /\ v9' # "reading"
<1>. DEFINE rules == Makefiles!Numbers("rule")
            wanted == IF v2 = <<>> THEN <<v8>> ELSE v2
            unknown == IF v2 = <<>> THEN rules = {} ELSE ~(Makefiles!Range(v2) \subseteq Makefiles!Mentioned \cup {""})
<1>1. v1' = v1 /\ v2' = v2
  BY DEF Makefiles!AddGoals
<1>2. /\ DOMAIN v3 = Makefiles!Mentioned \cup {""} /\ ~Makefiles!Broken /\ "" \notin Makefiles!Mentioned
      /\ \A t \in Makefiles!Mentioned :
            /\ v3[t] = UNION {Makefiles!Range(v1[i].deps) : i \in Makefiles!RulesFor(t)}
            /\ Makefiles!AreTheCommands(v4[t], Makefiles!RecipeOf(t))
  BY NoEmptyName DEF ReadingInv, GraphHolds
<1>3. /\ Makefiles!Mentioned' = Makefiles!Mentioned /\ rules' = rules /\ (Makefiles!Broken' <=> Makefiles!Broken)
      /\ \A t : /\ UNION {Makefiles!Range(v1[i].deps) : i \in Makefiles!RulesFor(t)}'
                   = UNION {Makefiles!Range(v1[i].deps) : i \in Makefiles!RulesFor(t)}
                /\ Makefiles!RecipeOf(t)' = Makefiles!RecipeOf(t)
  BY <1>1, TextStays
<1>4. IF rules = {} THEN v8 = Null
      ELSE v8 = v1[Makefiles!Min(rules)].target /\ v8 # Null /\ v8 \in Makefiles!Mentioned
  <2>1. CASE rules = {}
    BY <2>1 DEF ReadingInv, PlaceHolds
  <2>2. CASE rules # {}
    <3>1. Makefiles!Min(rules) \in rules
      <4>. HIDE DEF rules
      <4>1. rules \in SUBSET (1..Len(v1)) /\ Len(v1) \in Nat
        BY Placed DEF rules
      <4>. QED BY <2>2, <4>1, FirstAndLast
    <3>2. v8 = v1[Makefiles!Min(rules)].target
      BY <2>2 DEF ReadingInv, PlaceHolds
    <3>3. v1[Makefiles!Min(rules)].target # Null
      BY <3>1, Placed, MakefileAssumption
    <3>4. v8 \in Makefiles!Mentioned
      BY <3>1, <3>2 DEF Makefiles!Mentioned
    <3>. QED BY <2>2, <3>2, <3>3, <3>4
  <2>. QED BY <2>1, <2>2
<1>5. Makefiles!Range(<<v8>>) = {v8}
  BY DEF Makefiles!Range
<1>6. unknown' <=> unknown
  BY <1>1, <1>3
<1>7. CASE v2 = <<>> /\ v8 = Null
  <2>1. v9' = "exit 2" /\ v3' = v3
    BY <1>7 DEF Makefiles!AddGoals, Makefiles!Exit, Makefiles!graph
  <2>2. unknown
    BY <1>4, <1>7
  <2>. QED BY <1>1, <1>2, <1>3, <1>6, <2>1, <2>2 DEF Makefiles!ParsedAsWritten, Makefiles!Sentinel
<1>8. CASE ~(v2 = <<>> /\ v8 = Null) /\ ~(Makefiles!Range(wanted) \subseteq DOMAIN v3)
  <2>1. v9' = "exit 1" /\ v3' = v3
    BY <1>8 DEF Makefiles!AddGoals, Makefiles!Exit, Makefiles!graph
  <2>2. unknown
    BY <1>2, <1>4, <1>5, <1>8
  <2>. QED BY <1>1, <1>2, <1>3, <1>6, <2>1, <2>2 DEF Makefiles!ParsedAsWritten, Makefiles!Sentinel
<1>9. CASE ~(v2 = <<>> /\ v8 = Null) /\ Makefiles!Range(wanted) \subseteq DOMAIN v3
  <2>1. v9' = "parsed" /\ v3' = [v3 EXCEPT ![""] = Makefiles!Range(wanted)] /\ v4' = v4
    BY <1>9 DEF Makefiles!AddGoals, Makefiles!Sentinel
  <2>2. /\ DOMAIN v3' = DOMAIN v3 /\ v3'[""] = Makefiles!Range(wanted)
        /\ \A t \in Makefiles!Mentioned : v3'[t] = v3[t]
    <3>. HIDE DEF wanted
    <3>. QED BY <1>2, <2>1
  <2>3. ~unknown
    BY <1>2, <1>4, <1>9
  <2>4. v3'[""] = IF v2 = <<>> THEN {v1[Makefiles!Min(rules)].target} ELSE Makefiles!Range(v2)
    BY <1>4, <1>5, <1>9, <2>2
  <2>5. \A t \in Makefiles!Mentioned :
          /\ v3'[t] = UNION {Makefiles!Range(v1[i].deps) : i \in Makefiles!RulesFor(t)}'
          /\ Makefiles!AreTheCommands(v4[t], Makefiles!RecipeOf(t))'
    <3>1. \A t \in Makefiles!Mentioned : Makefiles!AreTheCommands(v4[t], Makefiles!RecipeOf(t))'
      <4>. SUFFICES ASSUME NEW t \in Makefiles!Mentioned
                    PROVE  Makefiles!AreTheCommands(v4[t], Makefiles!RecipeOf(t))'
        OBVIOUS
      <4>1. PICK cs, ls : cs = v4[t] /\ ls = Makefiles!RecipeOf(t)
        OBVIOUS
      <4>2. Makefiles!AreTheCommands(cs, ls)'
        BY <1>1, <1>2, <4>1, TextStays
      <4>3. v4'[t] = cs /\ Makefiles!RecipeOf(t)' = ls
        BY <1>3, <2>1, <4>1
      <4>. QED BY <4>2, <4>3, Zenon
    <3>. QED BY <1>2, <1>3, <2>2, <3>1
  <2>. QED BY <1>1, <1>2, <1>3, <1>6, <2>1, <2>2, <2>3, <2>4, <2>5 DEF Makefiles!ParsedAsWritten, Makefiles!Sentinel
<1>. QED BY <1>1, <1>7, <1>8, <1>9 DEF Makefiles!AddGoals, Makefiles!Exit

\* Every step keeps it.
LEMMA MakefileStep ==
    ASSUME MakefileInv, [Makefiles!Next]_(Makefiles!vars)
    PROVE  MakefileInv'
<1>1. CASE UNCHANGED Makefiles!vars
  <2>1. v1' = v1 /\ v2' = v2 /\ v3' = v3 /\ v4' = v4 /\ v5' = v5 /\ v6' = v6 /\ v7' = v7 /\ v8' = v8 /\ v9' = v9
    BY <1>1 DEF Makefiles!vars
  <2>2. ASSUME NEW t, Makefiles!AreTheCommands(v4[t], Makefiles!RecipeOf(t))
        PROVE  Makefiles!AreTheCommands(v4[t], Makefiles!RecipeOf(t))'
    <3>1. PICK cs, ls : cs = v4[t] /\ ls = Makefiles!RecipeOf(t)
      OBVIOUS
    <3>2. Makefiles!AreTheCommands(cs, ls)'
      BY <2>1, <2>2, <3>1, TextStays
    <3>3. v4'[t] = cs /\ Makefiles!RecipeOf(t)' = ls
      BY <2>1, <3>1, TextStays
    <3>. QED BY <3>2, <3>3, Zenon
  <2>3. LastRule' = LastRule
    BY <2>1, TextStays DEF LastRule
  <2>4. Makefiles!ParsedAsWritten'
    BY <2>1, <2>2, TextStays DEF MakefileInv, Makefiles!ParsedAsWritten, Makefiles!Sentinel
  <2>5. ReadingInv => GraphHolds'
    BY <2>1, <2>2, TextStays DEF ReadingInv, GraphHolds
  <2>6. ReadingInv => PlaceHolds'
    BY <2>1, <2>3, TextStays DEF ReadingInv, PlaceHolds
  <2>. QED BY <2>1, <2>4, <2>5, <2>6, TextStays DEF MakefileInv, ReadingInv
<1>2. CASE Makefiles!AddGoals
  <2>1. v9 = "reading"
    BY <1>2 DEF Makefiles!AddGoals
  <2>. QED BY <1>2, <2>1, GoalsAreAdded DEF MakefileInv
<1>3. ASSUME NEW line \in MakefileLines, Makefiles!ReadLine(line)
      PROVE  MakefileInv'
  <2>1. v9 = "reading" /\ ReadingInv /\ v1' = Append(v1, line) /\ v1 \in Seq(MakefileLines)
    BY <1>3 DEF Makefiles!ReadLine, MakefileInv
  <2>2. Grows(line) /\ v1' \in Seq(MakefileLines)
    BY <2>1, GrowsBy DEF Grows
  <2>3. ASSUME ReadingInv', v9' = "reading" PROVE MakefileInv'
    <3>1. Makefiles!ParsedAsWritten'
      BY <2>3 DEF Makefiles!ParsedAsWritten, ReadingInv, GraphHolds, Makefiles!Sentinel
    <3>. QED BY <2>2, <2>3, <3>1 DEF MakefileInv
  <2>4. ASSUME Makefiles!ParsedAsWritten', v9' # "reading" PROVE MakefileInv'
    BY <2>2, <2>4 DEF MakefileInv
  <2>5. CASE line.kind = "blank" /\ UNCHANGED <<Makefiles!graph, v6, v7, v8, v9>>
    BY <2>1, <2>2, <2>3, <2>5, BlankKeeps DEF Makefiles!graph
  <2>6. CASE line.kind = "rule" /\ Makefiles!RuleLine(line)
    BY <2>1, <2>2, <2>3, <2>6, RuleKeeps DEF Makefiles!RuleLine
  <2>7. CASE line.kind = "bad" /\ Makefiles!Exit("exit 2")
    BY <2>1, <2>2, <2>4, <2>7, BadLineEnds DEF Makefiles!Exit
  <2>8. CASE line.kind = "recipe" /\ Makefiles!RecipeLine(line) /\ v6 = Null
    <3>1. Makefiles!Exit("exit 2")
      BY <2>8 DEF Makefiles!RecipeLine
    <3>. QED BY <2>1, <2>2, <2>4, <2>8, <3>1, BadLineEnds DEF Makefiles!Exit
  <2>9. CASE line.kind = "recipe" /\ Makefiles!RecipeLine(line) /\ v6 # Null
    <3>1. v9' = v9
      BY <2>9 DEF Makefiles!RecipeLine
    <3>. QED BY <2>1, <2>2, <2>3, <2>9, <3>1, RecipeKeeps
  <2>. QED BY <1>3, <2>5, <2>6, <2>7, <2>8, <2>9 DEF Makefiles!ReadLine
<1>. QED BY <1>1, <1>2, <1>3 DEF Makefiles!Next

(* The shim before minixfs. *)

\* A fakefile, as the model keeps it, and what POSIX knows of an open file.
Paths == FakefsFiles \cup {FakefsRoot}
Fakefiles == [path : Paths, offset : Int, refcount : {1}]
Descriptions == [path : Paths, offset : Int]
FakeFields == {"kernel", "fdMap", "file", "size", "got", "fate"}

\* What the shim keeps fits together: fd_map leads to live fakefiles, each counted
\* once, and the numbers it knows are taken.
ShimHolds(kernel, fdMap, file) ==
    /\ kernel \in [Fakefs!Descriptors -> {"free", "null", "real"}]
    /\ DOMAIN fdMap \subseteq Fakefs!Descriptors \cup {-1}
    /\ \A k \in DOMAIN fdMap : fdMap[k] \in DOMAIN file /\ (k # -1 => kernel[k] # "free")
    /\ IsFiniteSet(DOMAIN file) /\ DOMAIN file \subseteq Nat
    /\ \A a \in DOMAIN file : file[a] \in Fakefiles

\* Its descriptors are what POSIX says: one of the host's is not in fd_map, one of a
\* fake file leads to the path and the offset, and copies share them.
FakeIn(ideal) == {fd \in DOMAIN ideal : ideal[fd] # 0}
Stands(fdMap, file, ideal, desc) ==
    /\ \A fd \in FakeIn(ideal) :
          /\ fd \in DOMAIN fdMap
          /\ file[fdMap[fd]].path = desc[ideal[fd]].path /\ file[fdMap[fd]].offset = desc[ideal[fd]].offset
    /\ \A fd, g \in FakeIn(ideal) : ideal[fd] = ideal[g] <=> fdMap[fd] = fdMap[g]
PosixHolds(kernel, fdMap, file, ideal, desc, leaked) ==
    /\ DOMAIN ideal \subseteq Fakefs!Descriptors
    /\ \A fd \in DOMAIN ideal : ideal[fd] \in DOMAIN desc \cup {0} /\ kernel[fd] # "free"
    /\ \A fd \in DOMAIN ideal : ideal[fd] = 0 => kernel[fd] = "real" /\ fd \notin DOMAIN fdMap
    /\ \E n \in Nat : DOMAIN desc = 1..n
    /\ \A id \in DOMAIN desc : desc[id] \in Descriptions
    /\ Stands(fdMap, file, ideal, desc)
    /\ DOMAIN fdMap \subseteq FakeIn(ideal) \cup leaked \cup {-1}

\* A stream has a descriptor of its own, of a fake file.
StreamsHold(dirs, ideal) ==
    /\ \A d \in DOMAIN dirs \ {-1} : dirs[d] \in FakeIn(ideal)
    /\ \A d, e \in DOMAIN dirs \ {-1} : dirs[d] = dirs[e] => d = e
FakefsHolds(kernel, fdMap, file, dirs, ideal, desc, leaked) ==
    /\ ShimHolds(kernel, fdMap, file) /\ PosixHolds(kernel, fdMap, file, ideal, desc, leaked)
    /\ StreamsHold(dirs, ideal)
FakefsInv == v6 = "fine" => FakefsHolds(v1, v2, v3, v4, v7, v8, v9)

\* Only standard input may be open.
LEMMA FakefsInit ==
    ASSUME Fakefs!Init
    PROVE  FakefsInv
<1>1. /\ v2 = <<>> /\ v3 = <<>> /\ v4 = <<>> /\ v8 = <<>>
      /\ \E stdin \in {"free", "real"} :
            /\ v1 = [fd \in Fakefs!Descriptors |-> IF fd = 0 THEN stdin ELSE "free"]
            /\ v7 = IF stdin = "real" THEN [fd \in {0} |-> 0] ELSE <<>>
  BY DEF Fakefs!Init, Fakefs!Real, Fakefs!HostFile
<1>2. DOMAIN <<>> = {} /\ IsFiniteSet({}) /\ 0 \in Fakefs!Descriptors /\ {} = 1..0
  BY FS_EmptySet, FakefsAssumption DEF Fakefs!Descriptors
<1>3. DOMAIN v2 = {} /\ DOMAIN v3 = {} /\ DOMAIN v4 = {} /\ DOMAIN v8 = {}
  BY <1>1, <1>2
<1>4. DOMAIN v7 \subseteq {0} /\ \A fd \in DOMAIN v7 : v7[fd] = 0 /\ v1[fd] = "real"
  BY <1>1, <1>2
<1>5. v1 \in [Fakefs!Descriptors -> {"free", "null", "real"}]
  BY <1>1
<1>. QED BY <1>2, <1>3, <1>4, <1>5 DEF FakefsInv, FakefsHolds, ShimHolds, PosixHolds, Stands, StreamsHold, FakeIn

\* What the run checks of it.
LEMMA FakefsStands ==
    ASSUME FakefsInv
    PROVE  Fakefs!DescriptorsStandForTheirFiles
<1>. SUFFICES ASSUME v6 = "fine", FakefsHolds(v1, v2, v3, v4, v7, v8, v9)
              PROVE  Fakefs!DescriptorsStandForTheirFiles
  BY DEF FakefsInv, Fakefs!DescriptorsStandForTheirFiles
<1>1. Fakefs!Fake = FakeIn(v7)
  BY DEF Fakefs!Fake, FakeIn, Fakefs!HostFile
<1>2. \A fd \in FakeIn(v7) : [path |-> v3[v2[fd]].path, offset |-> v3[v2[fd]].offset] = v8[v7[fd]]
  <2>. TAKE fd \in FakeIn(v7)
  <2>1. v8[v7[fd]] \in Descriptions /\ v3[v2[fd]].path = v8[v7[fd]].path /\ v3[v2[fd]].offset = v8[v7[fd]].offset
    BY DEF FakefsHolds, PosixHolds, Stands, FakeIn
  <2>. QED BY <2>1 DEF Descriptions
<1>. QED BY <1>1, <1>2 DEF Fakefs!DescriptorsStandForTheirFiles, FakefsHolds, PosixHolds, Stands, FakeIn,
         Fakefs!Real, Fakefs!HostFile

\* The module's Cardinality is the library's.
LEMMA FakefsCardinality == \A S : Fakefs!Cardinality(S) = Cardinality(S)
BY DEF Fakefs!Cardinality, Cardinality, Fakefs!IsFiniteSet, IsFiniteSet

\* The next address is not in use.
LEMMA FreshIs ==
    ASSUME NEW f, IsFiniteSet(DOMAIN f), DOMAIN f \subseteq Nat
    PROVE  Fakefs!Fresh(f) \in Nat \ DOMAIN f
<1>. DEFINE c == Cardinality(DOMAIN f)  T == (1..c + 1) \ DOMAIN f
<1>1. c \in Nat
  BY FS_CardinalityType
<1>2. T # {}
  <2>. SUFFICES ASSUME (1..c + 1) \subseteq DOMAIN f PROVE FALSE
    OBVIOUS
  <2>1. Cardinality(1..c + 1) <= c
    BY FS_Subset
  <2>2. Cardinality(1..c + 1) = c + 1
    <3>. HIDE DEF c
    <3>. QED BY <1>1, FS_Interval
  <2>. QED BY <1>1, <2>1, <2>2
<1>3. \E n \in T : \A m \in T : n <= m
  <2>1. T \in SUBSET Nat
    <3>. HIDE DEF c
    <3>. QED BY <1>1
  <2>. HIDE DEF T
  <2>. QED BY <1>2, <2>1, LeastNatural
<1>4. Fakefs!Min(T) \in T
  <2>. HIDE DEF T
  <2>. QED BY <1>3 DEF Fakefs!Min
<1>5. Fakefs!Fresh(f) = Fakefs!Min(T)
  BY FakefsCardinality, Zenon DEF Fakefs!Fresh
<1>. QED BY <1>1, <1>4, <1>5

\* libc takes the lowest number that is free, if there is one.
Taken(s, what, o) ==
    \/ o.got = -1 /\ o.kernel = s.kernel /\ \A fd \in Fakefs!Descriptors : s.kernel[fd] # "free"
    \/ /\ o.got \in Fakefs!Descriptors /\ o.got # -1 /\ s.kernel[o.got] = "free"
       /\ o.kernel = [s.kernel EXCEPT ![o.got] = what]
OrigOpened(s, what, o) ==
    /\ DOMAIN o = FakeFields /\ o.fdMap = s.fdMap /\ o.file = s.file /\ o.fate = s.fate
    /\ Taken(s, what, o)
LEMMA OrigOpenIs ==
    ASSUME NEW s, DOMAIN s = FakeFields, NEW what
    PROVE  OrigOpened(s, what, Fakefs!OrigOpen(s, what))
<1>. DEFINE free == {fd \in Fakefs!Descriptors : s.kernel[fd] = "free"}  o == Fakefs!OrigOpen(s, what)
<1>1. CASE free = {}
  <2>1. o = [s EXCEPT !.got = -1]
    BY <1>1 DEF Fakefs!OrigOpen
  <2>2. /\ DOMAIN o = FakeFields /\ o.fdMap = s.fdMap /\ o.file = s.file /\ o.fate = s.fate
        /\ o.got = -1 /\ o.kernel = s.kernel
    <3>. HIDE DEF o
    <3>. QED BY <2>1 DEF FakeFields
  <2>. QED BY <1>1, <2>2 DEF OrigOpened, Taken
<1>2. CASE free # {}
  <2>. DEFINE fd == Fakefs!Min(free)
  <2>1. free \in SUBSET Nat /\ -1 \notin free
    BY FakefsAssumption DEF Fakefs!Descriptors
  <2>2. fd \in free
    <3>. HIDE DEF free
    <3>. QED BY <1>2, <2>1, LeastNatural DEF Fakefs!Min
  <2>3. o = [s EXCEPT !.got = fd, !.kernel[fd] = what]
    BY <1>2 DEF Fakefs!OrigOpen
  <2>. HIDE DEF fd
  <2>4. /\ DOMAIN o = FakeFields /\ o.fdMap = s.fdMap /\ o.file = s.file /\ o.fate = s.fate
        /\ o.got = fd /\ o.kernel = [s.kernel EXCEPT ![fd] = what]
    <3>. HIDE DEF o
    <3>. QED BY <2>3 DEF FakeFields
  <2>. QED BY <2>1, <2>2, <2>4 DEF OrigOpened, Taken
<1>. QED BY <1>1, <1>2


\* open of a file that is there makes a fakefile at an address of its own and enters
\* it under the number, which is -1 when none is left.
Opening(path) == [path |-> path, offset |-> 0, refcount |-> 1]
Entered(s, path, o, a) ==
    /\ a \in Nat \ DOMAIN s.file
    /\ o.file = Fakefs!With(s.file, a, Opening(path)) /\ o.fdMap = Fakefs!With(s.fdMap, o.got, a)
    /\ Taken(s, "null", o)
Opened(s, path, o) ==
    /\ DOMAIN o = FakeFields /\ o.fate = s.fate
    /\ \/ path # FakefsRoot /\ o.got = -1 /\ o.kernel = s.kernel /\ o.fdMap = s.fdMap /\ o.file = s.file
       \/ \E a : Entered(s, path, o, a)
LEMMA OpenIs ==
    ASSUME NEW s, DOMAIN s = FakeFields, NEW path, NEW creates,
           IsFiniteSet(DOMAIN s.file), DOMAIN s.file \subseteq Nat
    PROVE  Opened(s, path, Fakefs!Open(s, path, creates))
<1>. DEFINE made == IF creates /\ ~Fakefs!Exists(s, path) THEN [s EXCEPT !.size = Fakefs!With(@, path, 0)] ELSE s
            a == Fakefs!Fresh(s.file)
            o == Fakefs!OrigOpen(made, "null")
            q == Fakefs!Open(s, path, creates)
<1>1. /\ DOMAIN made = FakeFields /\ made.kernel = s.kernel /\ made.fdMap = s.fdMap /\ made.file = s.file
      /\ made.fate = s.fate
  BY DEF FakeFields
<1>2. a \in Nat \ DOMAIN s.file
  BY FreshIs
<1>3. q = IF ~Fakefs!Exists(made, path) THEN [s EXCEPT !.got = -1]
          ELSE [o EXCEPT !.file = Fakefs!With(@, a, Opening(path)), !.fdMap = Fakefs!With(@, o.got, a)]
  BY Zenon DEF Fakefs!Open, Opening
<1>4. path = FakefsRoot => Fakefs!Exists(made, path)
  BY DEF Fakefs!Exists
<1>5. OrigOpened(made, "null", o)
  <2>. HIDE DEF made
  <2>. QED BY <1>1, OrigOpenIs
<1>. HIDE DEF made, a, o, q
<1>6. CASE ~Fakefs!Exists(made, path)
  <2>1. q = [s EXCEPT !.got = -1]
    BY <1>3, <1>6
  <2>2. /\ DOMAIN q = FakeFields /\ q.fate = s.fate
        /\ q.got = -1 /\ q.kernel = s.kernel /\ q.fdMap = s.fdMap /\ q.file = s.file
    BY <2>1 DEF FakeFields
  <2>. QED BY <1>4, <1>6, <2>2 DEF Opened, q
<1>7. CASE Fakefs!Exists(made, path)
  <2>. DEFINE F == Fakefs!With(s.file, a, Opening(path))  M == Fakefs!With(s.fdMap, o.got, a)
  <2>1. DOMAIN o = FakeFields /\ o.fdMap = s.fdMap /\ o.file = s.file /\ o.fate = s.fate /\ Taken(made, "null", o)
    BY <1>1, <1>5 DEF OrigOpened
  <2>2. q = [o EXCEPT !.file = F, !.fdMap = M]
    BY <1>3, <1>7, <2>1
  <2>. HIDE DEF F, M
  <2>3. /\ DOMAIN q = FakeFields /\ q.fate = s.fate /\ q.got = o.got /\ q.kernel = o.kernel
        /\ q.file = F /\ q.fdMap = M
    BY <2>1, <2>2 DEF FakeFields
  <2>4. Taken(s, "null", q)
    BY <1>1, <2>1, <2>3 DEF Taken
  <2>5. Entered(s, path, q, a)
    BY <1>2, <2>3, <2>4 DEF Entered, F, M
  <2>. QED BY <2>3, <2>5 DEF Opened, q
<1>. QED BY <1>6, <1>7

\* close of a number that is entered takes its fakefile along, and of any other frees it.
Closed(s, fd, o) ==
    /\ DOMAIN o = FakeFields
    /\ \/ fd \notin DOMAIN s.fdMap /\ o.fdMap = s.fdMap /\ o.file = s.file /\ o.fate = s.fate
          /\ o.kernel = IF fd = -1 THEN s.kernel ELSE [s.kernel EXCEPT ![fd] = "free"]
       \/ /\ fd \in DOMAIN s.fdMap /\ o.kernel = s.kernel
          /\ o.fdMap = Fakefs!Without(s.fdMap, fd) /\ o.file = Fakefs!Without(s.file, s.fdMap[fd])
          /\ o.fate = IF \E g \in DOMAIN o.fdMap : o.fdMap[g] = s.fdMap[fd] THEN "freed" ELSE s.fate
LEMMA CloseIs ==
    ASSUME NEW s, DOMAIN s = FakeFields, NEW fd, fd \in DOMAIN s.fdMap => s.file[s.fdMap[fd]] \in Fakefiles
    PROVE  Closed(s, fd, Fakefs!Close(s, fd))
<1>. DEFINE q == Fakefs!Close(s, fd)
<1>1. CASE fd \notin DOMAIN s.fdMap
  <2>1. q = IF fd = -1 THEN s ELSE [s EXCEPT !.kernel[fd] = "free"]
    BY <1>1, Zenon DEF Fakefs!Close
  <2>. HIDE DEF q
  <2>2. /\ DOMAIN q = FakeFields /\ q.fdMap = s.fdMap /\ q.file = s.file /\ q.fate = s.fate
        /\ q.kernel = IF fd = -1 THEN s.kernel ELSE [s.kernel EXCEPT ![fd] = "free"]
    BY <2>1 DEF FakeFields
  <2>. QED BY <1>1, <2>2 DEF Closed, q
<1>2. CASE fd \in DOMAIN s.fdMap
  <2>. DEFINE a == s.fdMap[fd]
              removed == [s EXCEPT !.fdMap = Fakefs!Without(@, fd)]
              M == Fakefs!Without(s.fdMap, fd)  F == Fakefs!Without(s.file, a)
              fate == IF \E g \in DOMAIN M : M[g] = a THEN "freed" ELSE s.fate
  <2>1. ~(s.file[a].refcount > 1)
    BY <1>2 DEF Fakefiles
  <2>2. q = [removed EXCEPT !.file = Fakefs!Without(@, a),
                            !.fate = IF \E g \in DOMAIN removed.fdMap : removed.fdMap[g] = a THEN "freed" ELSE @]
    BY <1>2, <2>1, Zenon DEF Fakefs!Close
  <2>3. /\ DOMAIN removed = FakeFields /\ removed.fdMap = M /\ removed.file = s.file /\ removed.fate = s.fate
        /\ removed.kernel = s.kernel
    <3>. HIDE DEF M
    <3>1. removed = [s EXCEPT !.fdMap = M]
      BY DEF M
    <3>. QED BY <3>1 DEF FakeFields
  <2>. HIDE DEF removed
  <2>4. q = [removed EXCEPT !.file = F, !.fate = fate]
    BY <2>2, <2>3
  <2>. HIDE DEF q, M, F, fate
  <2>5. /\ DOMAIN q = FakeFields /\ q.kernel = s.kernel /\ q.fdMap = M /\ q.file = F
        /\ q.fate = fate
    BY <2>3, <2>4 DEF FakeFields
  <2>. QED BY <1>2, <2>5 DEF Closed, q, M, F, fate
<1>. QED BY <1>1, <1>2

\* A call that gives no new descriptor to the program, and takes none away, keeps it:
\* descriptors of its files stay where they are, and none of the host's is entered.
LEMMA QuietKeeps ==
    ASSUME NEW K, NEW M, NEW F, NEW D, NEW I, NEW E, NEW L, FakefsHolds(K, M, F, D, I, E, L),
           NEW K2, NEW M2, NEW F2, NEW L2, ShimHolds(K2, M2, F2),
           \A fd \in Fakefs!Descriptors : /\ K[fd] # "free" => K2[fd] # "free"
                                          /\ K[fd] = "real" => K2[fd] = "real",
           \A fd \in FakeIn(I) : fd \in DOMAIN M2 /\ M2[fd] = M[fd] /\ F2[M[fd]] = F[M[fd]],
           \A k \in DOMAIN M2 : \/ k = -1
                                \/ k \in DOMAIN M /\ (k \in L => k \in L2)
                                \/ K[k] = "free" /\ k \in L2
    PROVE  FakefsHolds(K2, M2, F2, D, I, E, L2)
<1>1. ShimHolds(K, M, F) /\ PosixHolds(K, M, F, I, E, L) /\ StreamsHold(D, I)
  BY DEF FakefsHolds
<1>2. DOMAIN I \subseteq Fakefs!Descriptors /\ -1 \notin Fakefs!Descriptors
  BY <1>1, FakefsAssumption DEF PosixHolds, Fakefs!Descriptors
<1>3. Stands(M2, F2, I, E)
  BY <1>1 DEF PosixHolds, Stands
<1>4. \A fd \in DOMAIN I : I[fd] \in DOMAIN E \cup {0} /\ K2[fd] # "free"
  BY <1>1, <1>2 DEF PosixHolds
<1>5. \A fd \in DOMAIN I : I[fd] = 0 => K2[fd] = "real" /\ fd \notin DOMAIN M2
  BY <1>1, <1>2 DEF PosixHolds
<1>6. DOMAIN M2 \subseteq FakeIn(I) \cup L2 \cup {-1}
  BY <1>1 DEF PosixHolds
<1>. QED BY <1>1, <1>2, <1>3, <1>4, <1>5, <1>6 DEF FakefsHolds, PosixHolds

\* A fakefile is entered under the number libc gave, which is its only one.
EnteredAs(K, M, F, path, o, a) ==
    /\ ShimHolds(o.kernel, o.fdMap, o.file)
    /\ o.got # -1 => o.got \in Fakefs!Descriptors /\ K[o.got] = "free" /\ o.got \notin DOMAIN M
                     /\ o.kernel = [K EXCEPT ![o.got] = "null"]
    /\ o.got = -1 => o.kernel = K /\ \A fd \in Fakefs!Descriptors : K[fd] # "free"
    /\ DOMAIN o.fdMap = DOMAIN M \cup {o.got} /\ o.fdMap[o.got] = a
    /\ \A k \in DOMAIN M : k # o.got => o.fdMap[k] = M[k]
    /\ a \notin DOMAIN F /\ o.file[a] = Opening(path)
    /\ DOMAIN o.file = DOMAIN F \cup {a} /\ \A b \in DOMAIN F : o.file[b] = F[b]
LEMMA EnteredShim ==
    ASSUME NEW K, NEW M, NEW F, ShimHolds(K, M, F), NEW path \in Paths, NEW s, NEW o, NEW a,
           s.kernel = K, s.fdMap = M, s.file = F, Entered(s, path, o, a)
    PROVE  EnteredAs(K, M, F, path, o, a)
<1>. DEFINE g == o.got  K2 == o.kernel  M2 == o.fdMap  F2 == o.file
<1>0. -1 \notin Fakefs!Descriptors
  BY FakefsAssumption DEF Fakefs!Descriptors
<1>1. /\ a \in Nat /\ a \notin DOMAIN F
      /\ DOMAIN F2 = DOMAIN F \cup {a} /\ F2[a] = Opening(path) /\ \A b \in DOMAIN F : F2[b] = F[b]
  BY DEF Entered, Fakefs!With
<1>2. DOMAIN M2 = DOMAIN M \cup {g} /\ M2[g] = a /\ \A k \in DOMAIN M : k # g => M2[k] = M[k]
  BY DEF Entered, Fakefs!With
<1>3. Taken(s, "null", o)
  BY DEF Entered
<1>4. g # -1 => g \in Fakefs!Descriptors /\ K[g] = "free" /\ g \notin DOMAIN M /\ K2 = [K EXCEPT ![g] = "null"]
  BY <1>3 DEF Taken, ShimHolds
<1>5. g = -1 => K2 = K /\ \A fd \in Fakefs!Descriptors : K[fd] # "free"
  BY <1>0, <1>3 DEF Taken
<1>. HIDE DEF g, K2, M2, F2
<1>6. K \in [Fakefs!Descriptors -> {"free", "null", "real"}]
  BY DEF ShimHolds
<1>7. K2 \in [Fakefs!Descriptors -> {"free", "null", "real"}]
  BY <1>4, <1>5, <1>6
<1>8. \A fd \in Fakefs!Descriptors : K[fd] # "free" => K2[fd] # "free"
  BY <1>4, <1>5, <1>6
<1>9. g # -1 => K2[g] # "free"
  BY <1>4, <1>6
<1>10. DOMAIN M2 \subseteq Fakefs!Descriptors \cup {-1}
  BY <1>2, <1>4 DEF ShimHolds
<1>11. \A k \in DOMAIN M2 : M2[k] \in DOMAIN F2 /\ (k # -1 => K2[k] # "free")
  BY <1>1, <1>2, <1>8, <1>9 DEF ShimHolds
<1>12. IsFiniteSet(DOMAIN F2) /\ DOMAIN F2 \subseteq Nat
  BY <1>1, FS_AddElement DEF ShimHolds
<1>13. Opening(path) \in Fakefiles
  BY DEF Opening, Fakefiles
<1>14. \A b \in DOMAIN F2 : F2[b] \in Fakefiles
  BY <1>1, <1>13 DEF ShimHolds
<1>15. ShimHolds(K2, M2, F2)
  BY <1>7, <1>10, <1>11, <1>12, <1>14 DEF ShimHolds
<1>. QED BY <1>1, <1>2, <1>4, <1>5, <1>15 DEF EnteredAs, g, K2, M2, F2

\* The next description is the next number.
LEMMA NextDescription ==
    ASSUME NEW E, \E n \in Nat : DOMAIN E = 1..n, \A id \in DOMAIN E : E[id] \in Descriptions, NEW d \in Descriptions
    PROVE  LET id == Fakefs!Cardinality(DOMAIN E) + 1  E2 == Fakefs!With(E, id, d)
           IN  /\ id \notin DOMAIN E /\ id # 0
               /\ DOMAIN E2 = DOMAIN E \cup {id} /\ E2[id] = d /\ \A i \in DOMAIN E : E2[i] = E[i]
               /\ \E n \in Nat : DOMAIN E2 = 1..n
               /\ \A i \in DOMAIN E2 : E2[i] \in Descriptions
<1>. PICK n \in Nat : DOMAIN E = 1..n
  OBVIOUS
<1>1. Fakefs!Cardinality(DOMAIN E) = n
  <2>1. Cardinality(1..n) = n
    BY FS_Interval
  <2>. QED BY <2>1, FakefsCardinality
<1>2. 1..(n + 1) = (1..n) \cup {n + 1} /\ n + 1 \in Nat
  OBVIOUS
<1>3. n + 1 \notin DOMAIN E /\ n + 1 # 0
  OBVIOUS
<1>. DEFINE id == n + 1  E2 == Fakefs!With(E, id, d)
<1>4. DOMAIN E2 = DOMAIN E \cup {id} /\ E2[id] = d /\ \A i \in DOMAIN E : E2[i] = E[i]
  BY <1>3 DEF Fakefs!With
<1>. HIDE DEF E2
<1>5. \A i \in DOMAIN E2 : E2[i] \in Descriptions
  BY <1>4
<1>. QED BY <1>1, <1>2, <1>3, <1>4, <1>5 DEF E2

\* A fakefile that the program knows by a number of its own.
LEMMA EnterKeeps ==
    ASSUME NEW K, NEW M, NEW F, NEW D, NEW I, NEW E, NEW L, FakefsHolds(K, M, F, D, I, E, L),
           NEW path \in Paths, NEW s, NEW o, NEW a,
           s.kernel = K, s.fdMap = M, s.file = F, Entered(s, path, o, a), o.got # -1
    PROVE  LET id == Fakefs!Cardinality(DOMAIN E) + 1
           IN  /\ FakefsHolds(o.kernel, o.fdMap, o.file, D, Fakefs!With(I, o.got, id),
                              Fakefs!With(E, id, [path |-> path, offset |-> 0]), L)
               /\ o.got \notin FakeIn(I) /\ o.got \in FakeIn(Fakefs!With(I, o.got, id))
<1>. DEFINE g == o.got  K2 == o.kernel  M2 == o.fdMap  F2 == o.file
            id == Fakefs!Cardinality(DOMAIN E) + 1
            d == [path |-> path, offset |-> 0]
            E2 == Fakefs!With(E, id, d)  I2 == Fakefs!With(I, g, id)
<1>1. /\ ShimHolds(K, M, F) /\ PosixHolds(K, M, F, I, E, L) /\ StreamsHold(D, I)
      /\ K \in [Fakefs!Descriptors -> {"free", "null", "real"}]
  BY DEF FakefsHolds, ShimHolds
<1>2. /\ ShimHolds(K2, M2, F2)
      /\ g \in Fakefs!Descriptors /\ K[g] = "free" /\ g \notin DOMAIN M /\ K2 = [K EXCEPT ![g] = "null"]
      /\ DOMAIN M2 = DOMAIN M \cup {g} /\ M2[g] = a /\ \A k \in DOMAIN M : k # g => M2[k] = M[k]
      /\ a \notin DOMAIN F /\ F2[a] = Opening(path)
      /\ \A b \in DOMAIN F : F2[b] = F[b]
  <2>1. EnteredAs(K, M, F, path, o, a)
    BY <1>1, EnteredShim, Zenon
  <2>. QED BY <2>1 DEF EnteredAs
<1>3. d \in Descriptions
  BY DEF Descriptions
<1>4. /\ id \notin DOMAIN E /\ id # 0
      /\ DOMAIN E2 = DOMAIN E \cup {id} /\ E2[id] = d /\ \A i \in DOMAIN E : E2[i] = E[i]
      /\ \E n \in Nat : DOMAIN E2 = 1..n
      /\ \A i \in DOMAIN E2 : E2[i] \in Descriptions
  <2>. HIDE DEF d
  <2>. QED BY <1>1, <1>3, NextDescription DEF PosixHolds
<1>5. g \notin DOMAIN I
  BY <1>1, <1>2 DEF PosixHolds
<1>6. DOMAIN I2 = DOMAIN I \cup {g} /\ I2[g] = id /\ \A fd \in DOMAIN I : I2[fd] = I[fd]
  <2>. HIDE DEF id
  <2>. QED BY <1>5 DEF Fakefs!With
<1>7. F2[a].path = d.path /\ F2[a].offset = d.offset
  BY <1>2 DEF Opening
<1>. HIDE DEF g, K2, M2, F2, id, d, E2, I2
<1>8. FakeIn(I2) = FakeIn(I) \cup {g}
  BY <1>4, <1>6 DEF FakeIn
<1>9. \A fd \in FakeIn(I) : /\ fd \in DOMAIN I /\ fd # g /\ I[fd] \in DOMAIN E /\ I2[fd] = I[fd] /\ I2[fd] # id
                            /\ fd \in DOMAIN M /\ M2[fd] = M[fd] /\ M[fd] \in DOMAIN F /\ M[fd] # a
  BY <1>1, <1>2, <1>4, <1>5, <1>6 DEF FakeIn, PosixHolds, Stands, ShimHolds
<1>10. Stands(M2, F2, I2, E2)
  <2>1. \A fd \in FakeIn(I2) : /\ fd \in DOMAIN M2
                               /\ F2[M2[fd]].path = E2[I2[fd]].path /\ F2[M2[fd]].offset = E2[I2[fd]].offset
    <3>. TAKE fd \in FakeIn(I2)
    <3>1. CASE fd = g
      BY <3>1, <1>2, <1>4, <1>6, <1>7
    <3>2. CASE fd \in FakeIn(I)
      <4>1. F[M[fd]].path = E[I[fd]].path /\ F[M[fd]].offset = E[I[fd]].offset
        BY <3>2, <1>1 DEF PosixHolds, Stands
      <4>. QED BY <3>2, <4>1, <1>2, <1>4, <1>9
    <3>. QED BY <3>1, <3>2, <1>8
  <2>2. \A fd, h \in FakeIn(I2) : I2[fd] = I2[h] <=> M2[fd] = M2[h]
    <3>1. \A fd, h \in FakeIn(I) : I[fd] = I[h] <=> M[fd] = M[h]
      BY <1>1 DEF PosixHolds, Stands
    <3>. QED BY <3>1, <1>2, <1>6, <1>8, <1>9
  <2>. QED BY <2>1, <2>2 DEF Stands
<1>11. DOMAIN I2 \subseteq Fakefs!Descriptors
  BY <1>1, <1>2, <1>6 DEF PosixHolds
<1>12. \A fd \in DOMAIN I2 : I2[fd] \in DOMAIN E2 \cup {0} /\ K2[fd] # "free"
  <2>1. \A fd \in DOMAIN I : I[fd] \in DOMAIN E \cup {0} /\ K[fd] # "free" /\ fd \in Fakefs!Descriptors
    BY <1>1 DEF PosixHolds
  <2>2. K2[g] = "null" /\ \A fd \in Fakefs!Descriptors : fd # g => K2[fd] = K[fd]
    BY <1>1, <1>2
  <2>. QED BY <2>1, <2>2, <1>4, <1>5, <1>6
<1>13. \A fd \in DOMAIN I2 : I2[fd] = 0 => K2[fd] = "real" /\ fd \notin DOMAIN M2
  BY <1>1, <1>2, <1>4, <1>5, <1>6 DEF PosixHolds
<1>14. DOMAIN M2 \subseteq FakeIn(I2) \cup L \cup {-1}
  BY <1>1, <1>2, <1>8 DEF PosixHolds
<1>15. PosixHolds(K2, M2, F2, I2, E2, L)
  BY <1>4, <1>10, <1>11, <1>12, <1>13, <1>14 DEF PosixHolds
<1>16. StreamsHold(D, I2)
  BY <1>1, <1>8 DEF StreamsHold
<1>17. g \notin FakeIn(I) /\ g \in FakeIn(I2)
  BY <1>5, <1>8 DEF FakeIn
<1>. QED BY <1>2, <1>15, <1>16, <1>17 DEF FakefsHolds, g, K2, M2, F2, id, d, E2, I2

\* Without an entry, the rest fits together, if no copy led to the same fakefile.
Remains(K, M, F, fd, M2, F2) ==
    /\ ShimHolds(K, M2, F2) /\ DOMAIN M2 = DOMAIN M \ {fd}
    /\ \A g \in DOMAIN M2 : M2[g] = M[g] /\ F2[M[g]] = F[M[g]]
LEMMA WithoutShim ==
    ASSUME NEW K, NEW M, NEW F, ShimHolds(K, M, F), NEW fd \in DOMAIN M, \A g \in DOMAIN M : g # fd => M[g] # M[fd]
    PROVE  Remains(K, M, F, fd, Fakefs!Without(M, fd), Fakefs!Without(F, M[fd]))
<1>. DEFINE M2 == Fakefs!Without(M, fd)  F2 == Fakefs!Without(F, M[fd])
<1>1. DOMAIN M2 = DOMAIN M \ {fd} /\ \A g \in DOMAIN M2 : M2[g] = M[g]
  BY DEF Fakefs!Without
<1>2. DOMAIN F2 = DOMAIN F \ {M[fd]} /\ \A b \in DOMAIN F2 : F2[b] = F[b]
  BY DEF Fakefs!Without
<1>. HIDE DEF M2, F2
<1>3. IsFiniteSet(DOMAIN F2)
  BY <1>2, FS_Subset DEF ShimHolds
<1>4. \A g \in DOMAIN M2 : M[g] \in DOMAIN F2
  BY <1>1, <1>2 DEF ShimHolds
<1>5. ShimHolds(K, M2, F2)
  BY <1>1, <1>2, <1>3, <1>4 DEF ShimHolds
<1>. QED BY <1>1, <1>2, <1>4, <1>5 DEF Remains, M2, F2

\* An entry that is none of the program's may go, and is forgotten with it.
LEMMA ForgetKeeps ==
    ASSUME NEW K, NEW M, NEW F, NEW D, NEW I, NEW E, NEW L, NEW L2, FakefsHolds(K, M, F, D, I, E, L),
           NEW fd \in DOMAIN M, fd \notin FakeIn(I), \A g \in DOMAIN M : g # fd => M[g] # M[fd],
           L \ {fd} \subseteq L2
    PROVE  FakefsHolds(K, Fakefs!Without(M, fd), Fakefs!Without(F, M[fd]), D, I, E, L2)
<1>. DEFINE M2 == Fakefs!Without(M, fd)  F2 == Fakefs!Without(F, M[fd])
<1>1. ShimHolds(K, M, F) /\ PosixHolds(K, M, F, I, E, L)
  BY DEF FakefsHolds
<1>2. /\ ShimHolds(K, M2, F2) /\ DOMAIN M2 = DOMAIN M \ {fd}
      /\ \A g \in DOMAIN M2 : M2[g] = M[g] /\ F2[M[g]] = F[M[g]]
  <2>1. Remains(K, M, F, fd, M2, F2)
    BY <1>1, WithoutShim, Zenon
  <2>. QED BY <2>1 DEF Remains
<1>3. \A g \in FakeIn(I) : g \in DOMAIN M
  BY <1>1 DEF PosixHolds, Stands
<1>. HIDE DEF M2, F2
<1>4. \A g \in FakeIn(I) : g \in DOMAIN M2 /\ M2[g] = M[g] /\ F2[M[g]] = F[M[g]]
  BY <1>2, <1>3
<1>5. \A k \in DOMAIN M2 : k \in DOMAIN M /\ (k \in L => k \in L2)
  BY <1>2
<1>6. FakefsHolds(K, M2, F2, D, I, E, L2)
  BY <1>2, <1>4, <1>5, QuietKeeps
<1>. QED BY <1>6 DEF M2, F2

\* close of one of the program's, with the stream it was of, if any.
LEMMA CloseKeeps ==
    ASSUME NEW K, NEW M, NEW F, NEW D, NEW I, NEW E, NEW L, FakefsHolds(K, M, F, D, I, E, L),
           NEW s, s.kernel = K, s.fdMap = M, s.file = F, NEW q, NEW fd \in DOMAIN I,
           Closed(s, fd, q), q.fate = "fine",
           NEW D2, DOMAIN D2 \ {-1} \subseteq DOMAIN D, \A d \in DOMAIN D2 \ {-1} : D2[d] = D[d] /\ D[d] # fd
    PROVE  FakefsHolds(q.kernel, q.fdMap, q.file, D2, Fakefs!Without(I, fd), E, L)
<1>. DEFINE I2 == Fakefs!Without(I, fd)  K2 == q.kernel  M2 == q.fdMap  F2 == q.file
<1>1. ShimHolds(K, M, F) /\ PosixHolds(K, M, F, I, E, L) /\ StreamsHold(D, I)
  BY DEF FakefsHolds
<1>2. DOMAIN I2 = DOMAIN I \ {fd} /\ \A g \in DOMAIN I2 : I2[g] = I[g]
  BY DEF Fakefs!Without
<1>3. fd \in Fakefs!Descriptors /\ fd # -1
  BY <1>1, FakefsAssumption DEF PosixHolds, Fakefs!Descriptors
<1>4. DOMAIN I \subseteq Fakefs!Descriptors /\ K \in [Fakefs!Descriptors -> {"free", "null", "real"}]
  BY <1>1 DEF PosixHolds, ShimHolds
<1>5. \A g \in FakeIn(I2) : g \in FakeIn(I) /\ g # fd /\ I2[g] = I[g]
  BY <1>2 DEF FakeIn
<1>6. FakeIn(I) \ {fd} \subseteq FakeIn(I2)
  BY <1>2 DEF FakeIn
<1>7. StreamsHold(D2, I2)
  <2>. HIDE DEF I2
  <2>. QED BY <1>1, <1>6 DEF StreamsHold
<1>8. CASE fd \notin DOMAIN M
  <2>1. M2 = M /\ F2 = F /\ K2 = [K EXCEPT ![fd] = "free"]
    BY <1>3, <1>8 DEF Closed
  <2>. HIDE DEF I2, K2, M2, F2
  <2>2. K2 \in [Fakefs!Descriptors -> {"free", "null", "real"}] /\ \A g \in Fakefs!Descriptors : g # fd => K2[g] = K[g]
    BY <2>1, <1>3, <1>4
  <2>3. ShimHolds(K2, M2, F2)
    BY <1>1, <1>8, <2>1, <2>2 DEF ShimHolds
  <2>4. \A g \in DOMAIN I2 : I2[g] \in DOMAIN E \cup {0} /\ K2[g] # "free" /\ (I2[g] = 0 => K2[g] = "real" /\ g \notin DOMAIN M2)
    BY <1>1, <1>2, <1>4, <2>1, <2>2 DEF PosixHolds
  <2>5. Stands(M2, F2, I2, E)
    BY <1>1, <1>5, <2>1 DEF PosixHolds, Stands
  <2>6. DOMAIN M2 \subseteq FakeIn(I2) \cup L \cup {-1}
    BY <1>1, <1>6, <1>8, <2>1 DEF PosixHolds
  <2>7. PosixHolds(K2, M2, F2, I2, E, L)
    BY <1>1, <1>2, <2>4, <2>5, <2>6 DEF PosixHolds
  <2>. QED BY <1>7, <2>3, <2>7 DEF FakefsHolds, I2, K2, M2, F2
<1>9. CASE fd \in DOMAIN M
  <2>1. /\ K2 = K /\ M2 = Fakefs!Without(M, fd) /\ F2 = Fakefs!Without(F, M[fd])
        /\ ~\E g \in DOMAIN M2 : M2[g] = M[fd]
    BY <1>9 DEF Closed
  <2>2. \A g \in DOMAIN M : g # fd => M[g] # M[fd]
    BY <2>1 DEF Fakefs!Without
  <2>3. /\ ShimHolds(K, M2, F2) /\ DOMAIN M2 = DOMAIN M \ {fd}
        /\ \A g \in DOMAIN M2 : M2[g] = M[g] /\ F2[M[g]] = F[M[g]]
    <3>1. Remains(K, M, F, fd, Fakefs!Without(M, fd), Fakefs!Without(F, M[fd]))
      BY <1>1, <1>9, <2>2, WithoutShim, Zenon
    <3>. QED BY <3>1, <2>1 DEF Remains
  <2>. HIDE DEF I2, K2, M2, F2
  <2>4. \A g \in DOMAIN I2 : I2[g] \in DOMAIN E \cup {0} /\ K2[g] # "free" /\ (I2[g] = 0 => K2[g] = "real" /\ g \notin DOMAIN M2)
    BY <1>1, <1>2, <2>1, <2>3 DEF PosixHolds
  <2>5. Stands(M2, F2, I2, E)
    <3>1. \A g \in FakeIn(I2) : g \in FakeIn(I) /\ g \in DOMAIN M2 /\ M2[g] = M[g] /\ F2[M[g]] = F[M[g]] /\ I2[g] = I[g]
      BY <1>1, <1>5, <2>3 DEF PosixHolds, Stands
    <3>. QED BY <1>1, <3>1 DEF PosixHolds, Stands
  <2>6. DOMAIN M2 \subseteq FakeIn(I2) \cup L \cup {-1}
    BY <1>1, <1>6, <2>3 DEF PosixHolds
  <2>7. PosixHolds(K2, M2, F2, I2, E, L)
    BY <1>1, <1>2, <2>4, <2>5, <2>6 DEF PosixHolds
  <2>. QED BY <1>7, <2>1, <2>3, <2>7 DEF FakefsHolds, I2, K2, M2, F2
<1>. QED BY <1>8, <1>9

\* A file of the host under a number that is not entered.
LEMMA HostKeeps ==
    ASSUME NEW K, NEW M, NEW F, NEW D, NEW I, NEW E, NEW L, FakefsHolds(K, M, F, D, I, E, L),
           NEW g \in Fakefs!Descriptors, g \notin DOMAIN M
    PROVE  FakefsHolds([K EXCEPT ![g] = "real"], M, F, D, Fakefs!With(I, g, 0), E, L)
<1>. DEFINE K2 == [K EXCEPT ![g] = "real"]  I2 == Fakefs!With(I, g, 0)
<1>1. ShimHolds(K, M, F) /\ PosixHolds(K, M, F, I, E, L) /\ StreamsHold(D, I)
  BY DEF FakefsHolds
<1>2. DOMAIN I2 = DOMAIN I \cup {g} /\ I2[g] = 0 /\ \A fd \in DOMAIN I : fd # g => I2[fd] = I[fd]
  BY DEF Fakefs!With
<1>3. /\ DOMAIN I \subseteq Fakefs!Descriptors
      /\ K2 \in [Fakefs!Descriptors -> {"free", "null", "real"}]
      /\ K2[g] = "real" /\ \A fd \in Fakefs!Descriptors : fd # g => K2[fd] = K[fd]
  BY <1>1 DEF PosixHolds, ShimHolds
<1>4. g \notin FakeIn(I)
  BY <1>1 DEF PosixHolds, Stands
<1>. HIDE DEF K2, I2
<1>5. FakeIn(I2) = FakeIn(I) /\ \A fd \in FakeIn(I) : I2[fd] = I[fd]
  BY <1>2, <1>4 DEF FakeIn
<1>6. ShimHolds(K2, M, F)
  BY <1>1, <1>3 DEF ShimHolds
<1>7. \A fd \in DOMAIN I2 : I2[fd] \in DOMAIN E \cup {0} /\ K2[fd] # "free" /\ (I2[fd] = 0 => K2[fd] = "real" /\ fd \notin DOMAIN M)
  BY <1>1, <1>2, <1>3 DEF PosixHolds
<1>8. Stands(M, F, I2, E)
  BY <1>1, <1>5 DEF PosixHolds, Stands
<1>9. PosixHolds(K2, M, F, I2, E, L)
  BY <1>1, <1>2, <1>3, <1>5, <1>7, <1>8 DEF PosixHolds
<1>10. StreamsHold(D, I2)
  BY <1>1, <1>5 DEF StreamsHold
<1>. QED BY <1>6, <1>9, <1>10 DEF FakefsHolds, K2, I2

\* A copy shares what it is a copy of.
LEMMA ShareKeeps ==
    ASSUME NEW K, NEW M, NEW F, NEW D, NEW I, NEW E, NEW L, FakefsHolds(K, M, F, D, I, E, L),
           NEW fd \in FakeIn(I), NEW g \in Fakefs!Descriptors, NEW what \in {"null", "real"}
    PROVE  FakefsHolds([K EXCEPT ![g] = what], Fakefs!With(M, g, M[fd]), F, D, Fakefs!With(I, g, I[fd]), E, L)
<1>. DEFINE K2 == [K EXCEPT ![g] = what]  M2 == Fakefs!With(M, g, M[fd])  I2 == Fakefs!With(I, g, I[fd])
<1>1. ShimHolds(K, M, F) /\ PosixHolds(K, M, F, I, E, L) /\ StreamsHold(D, I)
  BY DEF FakefsHolds
<1>2. DOMAIN I2 = DOMAIN I \cup {g} /\ I2[g] = I[fd] /\ \A h \in DOMAIN I : h # g => I2[h] = I[h]
  BY DEF Fakefs!With
<1>3. DOMAIN M2 = DOMAIN M \cup {g} /\ M2[g] = M[fd] /\ \A h \in DOMAIN M : h # g => M2[h] = M[h]
  BY DEF Fakefs!With
<1>4. /\ DOMAIN I \subseteq Fakefs!Descriptors
      /\ K2 \in [Fakefs!Descriptors -> {"free", "null", "real"}]
      /\ K2[g] # "free" /\ \A h \in Fakefs!Descriptors : h # g => K2[h] = K[h]
  BY <1>1 DEF PosixHolds, ShimHolds
<1>5. fd \in DOMAIN I /\ I[fd] # 0 /\ I[fd] \in DOMAIN E /\ fd \in DOMAIN M /\ M[fd] \in DOMAIN F
  BY <1>1 DEF FakeIn, PosixHolds, Stands, ShimHolds
<1>. HIDE DEF K2, I2, M2
<1>6. FakeIn(I2) = FakeIn(I) \cup {g}
  BY <1>2, <1>5 DEF FakeIn
<1>7. \A h \in FakeIn(I2) : \E o \in FakeIn(I) : I2[h] = I[o] /\ M2[h] = M[o] /\ h \in DOMAIN M2
  BY <1>1, <1>2, <1>3, <1>6 DEF FakeIn, PosixHolds, Stands
<1>8. Stands(M2, F, I2, E)
  BY <1>1, <1>7 DEF PosixHolds, Stands
<1>9. ShimHolds(K2, M2, F)
  <2>1. DOMAIN M2 \subseteq Fakefs!Descriptors \cup {-1}
    BY <1>1, <1>3 DEF ShimHolds
  <2>2. \A h \in DOMAIN M2 : M2[h] \in DOMAIN F /\ (h # -1 => K2[h] # "free")
    BY <1>1, <1>3, <1>4, <1>5 DEF ShimHolds
  <2>. QED BY <1>1, <1>4, <2>1, <2>2 DEF ShimHolds
<1>10. \A h \in DOMAIN I2 : I2[h] \in DOMAIN E \cup {0} /\ K2[h] # "free"
  BY <1>1, <1>2, <1>4, <1>5 DEF PosixHolds
<1>11. \A h \in DOMAIN I2 : I2[h] = 0 => K2[h] = "real" /\ h \notin DOMAIN M2
  BY <1>1, <1>2, <1>3, <1>4, <1>5 DEF PosixHolds
<1>12. DOMAIN I2 \subseteq Fakefs!Descriptors /\ DOMAIN M2 \subseteq FakeIn(I2) \cup L \cup {-1}
  BY <1>1, <1>2, <1>3, <1>6 DEF PosixHolds
<1>13. PosixHolds(K2, M2, F, I2, E, L)
  BY <1>1, <1>8, <1>10, <1>11, <1>12 DEF PosixHolds
<1>14. StreamsHold(D, I2)
  BY <1>1, <1>6 DEF StreamsHold
<1>. QED BY <1>9, <1>13, <1>14 DEF FakefsHolds, K2, I2, M2

\* The offset of an open file moves for all who share it.
LEMMA MoveKeeps ==
    ASSUME NEW K, NEW M, NEW F, NEW D, NEW I, NEW E, NEW L, FakefsHolds(K, M, F, D, I, E, L),
           NEW fd \in FakeIn(I), NEW x \in Int
    PROVE  FakefsHolds(K, M, [F EXCEPT ![M[fd]].offset = x], D, I, [E EXCEPT ![I[fd]].offset = x], L)
<1>. DEFINE a == M[fd]  id == I[fd]
            F2 == [F EXCEPT ![M[fd]].offset = x]  E2 == [E EXCEPT ![I[fd]].offset = x]
<1>1. ShimHolds(K, M, F) /\ PosixHolds(K, M, F, I, E, L) /\ StreamsHold(D, I)
  BY DEF FakefsHolds
<1>2. a \in DOMAIN F /\ id \in DOMAIN E /\ F[a] \in Fakefiles /\ E[id] \in Descriptions
  BY <1>1 DEF FakeIn, PosixHolds, Stands, ShimHolds
<1>3. /\ DOMAIN F2 = DOMAIN F /\ \A b \in DOMAIN F : b # a => F2[b] = F[b]
      /\ F2[a] = [F[a] EXCEPT !.offset = x]
  BY <1>2
<1>4. /\ DOMAIN E2 = DOMAIN E /\ \A i \in DOMAIN E : i # id => E2[i] = E[i]
      /\ E2[id] = [E[id] EXCEPT !.offset = x]
  BY <1>2
<1>. HIDE DEF F2, E2, a, id
<1>5. F2[a] \in Fakefiles /\ F2[a].path = F[a].path /\ F2[a].offset = x
  BY <1>2, <1>3 DEF Fakefiles
<1>6. E2[id] \in Descriptions /\ E2[id].path = E[id].path /\ E2[id].offset = x
  BY <1>2, <1>4 DEF Descriptions
<1>7. ShimHolds(K, M, F2)
  BY <1>1, <1>3, <1>5 DEF ShimHolds
<1>8. \A i \in DOMAIN E2 : E2[i] \in Descriptions
  BY <1>1, <1>4, <1>6 DEF PosixHolds
<1>9. Stands(M, F2, I, E2)
  <2>1. \A g \in FakeIn(I) : /\ g \in DOMAIN M /\ M[g] \in DOMAIN F /\ I[g] \in DOMAIN E
                             /\ F[M[g]].path = E[I[g]].path /\ F[M[g]].offset = E[I[g]].offset
                             /\ (I[g] = id <=> M[g] = a)
    BY <1>1 DEF PosixHolds, Stands, ShimHolds, FakeIn, a, id
  <2>2. \A g \in FakeIn(I) : F2[M[g]].path = E2[I[g]].path /\ F2[M[g]].offset = E2[I[g]].offset
    <3>. TAKE g \in FakeIn(I)
    <3>1. CASE M[g] = a
      BY <3>1, <2>1, <1>5, <1>6
    <3>2. CASE M[g] # a
      BY <3>2, <2>1, <1>3, <1>4
    <3>. QED BY <3>1, <3>2
  <2>. QED BY <1>1, <2>1, <2>2 DEF PosixHolds, Stands
<1>10. PosixHolds(K, M, F2, I, E2, L)
  BY <1>1, <1>4, <1>8, <1>9 DEF PosixHolds
<1>. QED BY <1>1, <1>7, <1>10 DEF FakefsHolds, F2, E2

\* The calls of the program. What is so of the shim now:
FakefsNow == FakefsHolds(v1, v2, v3, v4, v7, v8, v9)
FakefsNext == FakefsHolds(v1', v2', v3', v4', v7', v8', v9')
LEMMA NowIs ==
    /\ DOMAIN Fakefs!Now = FakeFields
    /\ Fakefs!Now.kernel = v1 /\ Fakefs!Now.fdMap = v2 /\ Fakefs!Now.file = v3 /\ Fakefs!Now.fate = v6
BY DEF Fakefs!Now, FakeFields
LEMMA NowHolds ==
    ASSUME FakefsNow
    PROVE  /\ ShimHolds(v1, v2, v3) /\ PosixHolds(v1, v2, v3, v7, v8, v9) /\ StreamsHold(v4, v7)
           /\ v1 \in [Fakefs!Descriptors -> {"free", "null", "real"}] /\ -1 \notin Fakefs!Descriptors
           /\ DOMAIN v7 \subseteq Fakefs!Descriptors /\ Fakefs!Fake = FakeIn(v7)
           /\ \A fd \in DOMAIN v7 : \/ v7[fd] = 0 /\ fd \notin DOMAIN v2 /\ v1[fd] = "real"
                                    \/ v7[fd] # 0 /\ fd \in FakeIn(v7) /\ fd \in DOMAIN v2 /\ v1[fd] \in {"null", "real"}
           /\ IsFiniteSet(DOMAIN v3) /\ DOMAIN v3 \subseteq Nat
           /\ \A k \in DOMAIN v2 : v3[v2[k]] \in Fakefiles /\ (k # -1 => v1[k] # "free")
<1>1. /\ ShimHolds(v1, v2, v3) /\ PosixHolds(v1, v2, v3, v7, v8, v9) /\ StreamsHold(v4, v7)
  BY DEF FakefsNow, FakefsHolds
<1>2. -1 \notin Fakefs!Descriptors
  BY FakefsAssumption DEF Fakefs!Descriptors
<1>3. Fakefs!Fake = FakeIn(v7)
  BY DEF Fakefs!Fake, FakeIn, Fakefs!HostFile
<1>4. \A fd \in FakeIn(v7) : fd \in DOMAIN v2
  BY <1>1 DEF PosixHolds, Stands
<1>. QED BY <1>1, <1>2, <1>3, <1>4 DEF ShimHolds, PosixHolds, FakeIn

\* What Open of a path there is leaves, whoever asked.
LEMMA OpenedNow ==
    ASSUME FakefsNow, NEW path \in Paths, NEW creates
    PROVE  LET s == Fakefs!Open(Fakefs!Now, path, creates)
           IN  /\ DOMAIN s = FakeFields /\ s.fate = v6
               /\ \/ path # FakefsRoot /\ s.got = -1 /\ s.kernel = v1 /\ s.fdMap = v2 /\ s.file = v3
                  \/ \E a : Entered(Fakefs!Now, path, s, a) /\ EnteredAs(v1, v2, v3, path, s, a)
<1>. DEFINE s == Fakefs!Open(Fakefs!Now, path, creates)
<1>1. Opened(Fakefs!Now, path, s)
  BY NowIs, NowHolds, OpenIs
<1>. HIDE DEF s
<1>2. \A a : Entered(Fakefs!Now, path, s, a) => EnteredAs(v1, v2, v3, path, s, a)
  BY NowIs, NowHolds, EnteredShim
<1>. QED BY <1>1, <1>2, NowIs DEF Opened, s

\* A fakefile that the program does not get to know.
LEMMA OpenQuietly ==
    ASSUME FakefsNow, NEW path, NEW s, NEW a, EnteredAs(v1, v2, v3, path, s, a)
    PROVE  FakefsHolds(s.kernel, s.fdMap, s.file, v4, v7, v8, v9 \cup {s.got})
<1>. DEFINE K2 == s.kernel  M2 == s.fdMap  F2 == s.file  g == s.got
<1>1. /\ ShimHolds(K2, M2, F2)
      /\ g # -1 => g \in Fakefs!Descriptors /\ v1[g] = "free" /\ g \notin DOMAIN v2 /\ K2 = [v1 EXCEPT ![g] = "null"]
      /\ g = -1 => K2 = v1
      /\ DOMAIN M2 = DOMAIN v2 \cup {g} /\ \A k \in DOMAIN v2 : k # g => M2[k] = v2[k]
      /\ \A b \in DOMAIN v3 : F2[b] = v3[b]
  BY DEF EnteredAs
<1>. HIDE DEF K2, M2, F2, g
<1>2. v1 \in [Fakefs!Descriptors -> {"free", "null", "real"}]
  BY NowHolds
<1>3. \A fd \in Fakefs!Descriptors : /\ v1[fd] # "free" => K2[fd] # "free"
                                     /\ v1[fd] = "real" => K2[fd] = "real"
  BY <1>1, <1>2
<1>4. \A fd \in FakeIn(v7) : fd \in DOMAIN v2 /\ fd # g /\ v2[fd] \in DOMAIN v3
  <2>1. \A fd \in FakeIn(v7) : fd \in DOMAIN v2 /\ fd # -1
    BY NowHolds DEF FakeIn
  <2>. QED BY <1>1, <2>1, NowHolds DEF ShimHolds
<1>5. \A fd \in FakeIn(v7) : fd \in DOMAIN M2 /\ M2[fd] = v2[fd] /\ F2[v2[fd]] = v3[v2[fd]]
  BY <1>1, <1>4
<1>6. \A k \in DOMAIN M2 : \/ k = -1
                           \/ k \in DOMAIN v2 /\ (k \in v9 => k \in v9 \cup {g})
                           \/ v1[k] = "free" /\ k \in v9 \cup {g}
  BY <1>1
<1>7. FakefsHolds(K2, M2, F2, v4, v7, v8, v9 \cup {g})
  BY <1>1, <1>3, <1>5, <1>6, QuietKeeps DEF FakefsNow
<1>. QED BY <1>7 DEF K2, M2, F2, g

\* and that is closed again.
LEMMA OpenAndClose ==
    ASSUME FakefsNow, NEW path, NEW s, NEW a, EnteredAs(v1, v2, v3, path, s, a),
           NEW q, Closed(s, s.got, q), q.fate = "fine"
    PROVE  FakefsHolds(q.kernel, q.fdMap, q.file, v4, v7, v8, v9)
<1>. DEFINE g == s.got  M2 == s.fdMap
<1>1. FakefsHolds(s.kernel, M2, s.file, v4, v7, v8, v9 \cup {g})
  BY OpenQuietly
<1>2. g \in DOMAIN M2 /\ (g # -1 => v1[g] = "free" /\ g \in Fakefs!Descriptors)
  BY DEF EnteredAs
<1>3. g \notin FakeIn(v7)
  <2>1. \A fd \in FakeIn(v7) : fd # -1 /\ v1[fd] # "free"
    BY NowHolds DEF FakeIn
  <2>. QED BY <1>2, <2>1
<1>4. /\ q.kernel = s.kernel /\ q.fdMap = Fakefs!Without(M2, g) /\ q.file = Fakefs!Without(s.file, M2[g])
      /\ ~\E k \in DOMAIN q.fdMap : q.fdMap[k] = M2[g]
  BY <1>2 DEF Closed
<1>. HIDE DEF g, M2
<1>5. \A k \in DOMAIN M2 : k # g => M2[k] # M2[g]
  BY <1>4 DEF Fakefs!Without
<1>6. (v9 \cup {g}) \ {g} \subseteq v9
  OBVIOUS
<1>7. FakefsHolds(s.kernel, Fakefs!Without(M2, g), Fakefs!Without(s.file, M2[g]), v4, v7, v8, v9)
  BY <1>1, <1>2, <1>3, <1>5, <1>6, ForgetKeeps
<1>. QED BY <1>4, <1>7

LEMMA OpenFileKeeps ==
    ASSUME FakefsNow, NEW path \in Paths, NEW creates, Fakefs!OpenFile(path, creates), v6' = "fine"
    PROVE  FakefsNext
<1>. DEFINE s == Fakefs!Open(Fakefs!Now, path, creates)
            id == Fakefs!Cardinality(DOMAIN v8) + 1
            I2 == Fakefs!With(v7, s.got, id)
            E2 == Fakefs!With(v8, id, [path |-> path, offset |-> 0])
<1>1. /\ v1' = s.kernel /\ v2' = s.fdMap /\ v3' = s.file /\ v4' = v4 /\ v9' = v9
      /\ s.got = -1 => v7' = v7 /\ v8' = v8
      /\ s.got # -1 => v7' = I2 /\ v8' = E2
  BY DEF Fakefs!OpenFile, Fakefs!Becomes
<1>2. \/ s.got = -1 /\ s.kernel = v1 /\ s.fdMap = v2 /\ s.file = v3
      \/ \E a : Entered(Fakefs!Now, path, s, a) /\ EnteredAs(v1, v2, v3, path, s, a)
  BY OpenedNow
<1>. HIDE DEF s, id, I2, E2
<1>3. CASE s.got = -1 /\ s.kernel = v1 /\ s.fdMap = v2 /\ s.file = v3
  BY <1>1, <1>3 DEF FakefsNow, FakefsNext
<1>4. ASSUME NEW a, Entered(Fakefs!Now, path, s, a), EnteredAs(v1, v2, v3, path, s, a)
      PROVE  FakefsNext
  <2>1. CASE s.got = -1
    <3>1. FakefsHolds(s.kernel, s.fdMap, s.file, v4, v7, v8, v9 \cup {s.got})
      BY <1>4, OpenQuietly
    <3>2. FakefsHolds(s.kernel, s.fdMap, s.file, v4, v7, v8, v9)
      BY <3>1, <2>1 DEF FakefsHolds, PosixHolds
    <3>. QED BY <1>1, <2>1, <3>2 DEF FakefsNext
  <2>2. CASE s.got # -1
    <3>1. FakefsHolds(s.kernel, s.fdMap, s.file, v4, I2, E2, v9)
      BY <1>4, <2>2, NowIs, EnterKeeps DEF FakefsNow, I2, E2, id
    <3>. QED BY <1>1, <2>2, <3>1 DEF FakefsNext
  <2>. QED BY <2>1, <2>2
<1>. QED BY <1>2, <1>3, <1>4

LEMMA OpenRealKeeps ==
    ASSUME FakefsNow, Fakefs!OpenReal, v6' = "fine"
    PROVE  FakefsNext
<1>. DEFINE s == Fakefs!OrigOpen(Fakefs!Now, "real")
<1>1. /\ s.got # -1 /\ v1' = s.kernel /\ v2' = s.fdMap /\ v3' = s.file
      /\ v7' = Fakefs!With(v7, s.got, 0) /\ v4' = v4 /\ v8' = v8 /\ v9' = v9
  BY DEF Fakefs!OpenReal, Fakefs!Becomes, Fakefs!Real, Fakefs!HostFile
<1>2. OrigOpened(Fakefs!Now, "real", s)
  BY NowIs, OrigOpenIs
<1>. HIDE DEF s
<1>3. /\ s.got \in Fakefs!Descriptors /\ v1[s.got] = "free"
      /\ v1' = [v1 EXCEPT ![s.got] = "real"] /\ v2' = v2 /\ v3' = v3
  BY <1>1, <1>2, NowIs DEF OrigOpened, Taken
<1>4. s.got \notin DOMAIN v2
  BY <1>1, <1>3, NowHolds
<1>5. FakefsHolds([v1 EXCEPT ![s.got] = "real"], v2, v3, v4, Fakefs!With(v7, s.got, 0), v8, v9)
  BY <1>3, <1>4, HostKeeps DEF FakefsNow
<1>. QED BY <1>1, <1>3, <1>5 DEF FakefsNext

LEMMA CloseFileKeeps ==
    ASSUME FakefsNow, NEW fd, Fakefs!CloseFile(fd), v6' = "fine"
    PROVE  FakefsNext
<1>. DEFINE q == Fakefs!Close(Fakefs!Now, fd)
<1>1. /\ fd \in DOMAIN v7 /\ \A d \in DOMAIN v4 : v4[d] # fd
      /\ v1' = q.kernel /\ v2' = q.fdMap /\ v3' = q.file /\ q.fate = "fine"
      /\ v7' = Fakefs!Without(v7, fd) /\ v4' = v4 /\ v8' = v8 /\ v9' = v9
  BY DEF Fakefs!CloseFile, Fakefs!Becomes, Fakefs!InStreams
<1>2. Closed(Fakefs!Now, fd, q)
  BY NowIs, NowHolds, CloseIs
<1>. HIDE DEF q
<1>3. FakefsHolds(q.kernel, q.fdMap, q.file, v4, Fakefs!Without(v7, fd), v8, v9)
  <2>1. DOMAIN v4 \ {-1} \subseteq DOMAIN v4 /\ \A d \in DOMAIN v4 \ {-1} : v4[d] = v4[d] /\ v4[d] # fd
    BY <1>1
  <2>. QED BY <1>1, <1>2, <2>1, NowIs, CloseKeeps DEF FakefsNow
<1>. QED BY <1>1, <1>3 DEF FakefsNext

LEMMA CloseDirKeeps ==
    ASSUME FakefsNow, NEW dir, Fakefs!CloseDir(dir), v6' = "fine"
    PROVE  FakefsNext
<1>. DEFINE fd == v4[dir]  q == Fakefs!Close(Fakefs!Now, fd)  D2 == Fakefs!Without(v4, dir)
<1>1. /\ dir \in DOMAIN v4 \ {-1} /\ v4' = D2
      /\ v1' = q.kernel /\ v2' = q.fdMap /\ v3' = q.file /\ q.fate = "fine"
      /\ v7' = Fakefs!Without(v7, fd) /\ v8' = v8 /\ v9' = v9
  BY DEF Fakefs!CloseDir, Fakefs!Becomes
<1>2. Closed(Fakefs!Now, fd, q)
  BY NowIs, NowHolds, CloseIs
<1>3. fd \in DOMAIN v7 /\ \A d \in DOMAIN v4 \ {-1} : v4[d] = fd => d = dir
  BY <1>1, NowHolds DEF StreamsHold, FakeIn
<1>4. DOMAIN D2 \ {-1} \subseteq DOMAIN v4 /\ \A d \in DOMAIN D2 \ {-1} : D2[d] = v4[d] /\ v4[d] # fd
  BY <1>3 DEF Fakefs!Without
<1>. HIDE DEF q, fd, D2
<1>5. FakefsHolds(q.kernel, q.fdMap, q.file, D2, Fakefs!Without(v7, fd), v8, v9)
  BY <1>1, <1>2, <1>3, <1>4, NowIs, CloseKeeps DEF FakefsNow
<1>. QED BY <1>1, <1>5 DEF FakefsNext

\* read, write and lseek compute the new offset from the old, which is POSIX's too.
LEMMA MovesKeep ==
    ASSUME FakefsNow, NEW fd \in FakeIn(v7), NEW x \in Int, Fakefs!Moves(fd, x, x)
    PROVE  FakefsNext
<1>1. /\ v3' = [v3 EXCEPT ![v2[fd]].offset = x] /\ v8' = [v8 EXCEPT ![v7[fd]].offset = x]
      /\ v1' = v1 /\ v2' = v2 /\ v4' = v4 /\ v7' = v7 /\ v9' = v9
  BY DEF Fakefs!Moves
<1>2. FakefsHolds(v1, v2, [v3 EXCEPT ![v2[fd]].offset = x], v4, v7, [v8 EXCEPT ![v7[fd]].offset = x], v9)
  BY MoveKeeps DEF FakefsNow
<1>. QED BY <1>1, <1>2 DEF FakefsNext
LEMMA SameOffset ==
    ASSUME FakefsNow, NEW fd, Fakefs!Usable(fd)
    PROVE  fd \in FakeIn(v7) /\ v8[v7[fd]].offset = v3[v2[fd]].offset /\ v3[v2[fd]].offset \in Int
<1>1. fd \in FakeIn(v7) /\ v2[fd] \in DOMAIN v3
  BY NowHolds DEF Fakefs!Usable
<1>2. v3[v2[fd]].offset = v8[v7[fd]].offset
  BY <1>1, NowHolds DEF PosixHolds, Stands
<1>3. v3[v2[fd]] \in Fakefiles
  BY <1>1, NowHolds DEF ShimHolds
<1>. QED BY <1>1, <1>2, <1>3 DEF Fakefiles

LEMMA ReadKeeps ==
    ASSUME FakefsNow, NEW fd, Fakefs!Read(fd)
    PROVE  FakefsNext
<1>. DEFINE path == v3[v2[fd]].path  offset == v3[v2[fd]].offset
            x == IF path \in DOMAIN v5 /\ offset < v5[path] THEN offset + 1 ELSE offset
<1>1. fd \in FakeIn(v7) /\ v8[v7[fd]].offset = offset /\ offset \in Int
  BY SameOffset DEF Fakefs!Read
<1>2. Fakefs!Moves(fd, x, x)
  BY <1>1 DEF Fakefs!Read
<1>3. x \in Int
  <2>. HIDE DEF offset
  <2>. QED BY <1>1
<1>. HIDE DEF x
<1>. QED BY <1>1, <1>2, <1>3, MovesKeep

LEMMA WriteKeeps ==
    ASSUME FakefsNow, NEW fd, Fakefs!Write(fd)
    PROVE  FakefsNext
<1>. DEFINE x == v3[v2[fd]].offset + 1
<1>1. fd \in FakeIn(v7) /\ v8[v7[fd]].offset = v3[v2[fd]].offset /\ v3[v2[fd]].offset \in Int
  BY SameOffset DEF Fakefs!Write
<1>2. Fakefs!Moves(fd, x, x)
  BY <1>1 DEF Fakefs!Write
<1>3. x \in Int
  BY <1>1
<1>. HIDE DEF x
<1>. QED BY <1>1, <1>2, <1>3, MovesKeep

LEMMA LseekKeeps ==
    ASSUME FakefsNow, NEW fd, NEW whence, NEW by, Fakefs!Lseek(fd, whence, by), v6' = "fine"
    PROVE  FakefsNext
<1>. DEFINE path == v3[v2[fd]].path
            To(offset) == by + CASE whence = "SEEK_SET" -> 0 [] whence = "SEEK_CUR" -> offset
                                 [] whence = "SEEK_END" -> v5[path]
            x == To(v3[v2[fd]].offset)
<1>1. fd \in FakeIn(v7) /\ v8[v7[fd]].offset = v3[v2[fd]].offset
  BY SameOffset DEF Fakefs!Lseek
<1>2. x \in (-MaxFakefsOffset)..MaxFakefsOffset
  BY Zenon DEF Fakefs!Lseek
<1>5. Fakefs!Moves(fd, x, To(v8[v7[fd]].offset)) \/ v6' = "negative"
  BY Zenon DEF Fakefs!Lseek
<1>3. To(v8[v7[fd]].offset) = x
  BY <1>1
<1>. HIDE DEF x, To
<1>4. Fakefs!Moves(fd, x, x) /\ x \in Int
  BY <1>2, <1>3, <1>5, FakefsAssumption
<1>. QED BY <1>1, <1>4, MovesKeep

LEMMA DupKeeps ==
    ASSUME FakefsNow, NEW fd, Fakefs!Dup(fd), v6' = "fine"
    PROVE  FakefsNext
<1>. DEFINE what == IF fd \in DOMAIN v2 THEN "null" ELSE "real"
            o == Fakefs!OrigOpen(Fakefs!Now, what)
            s == IF fd \notin DOMAIN v2 THEN o
                 ELSE IF o.got > 0 THEN [o EXCEPT !.fdMap = Fakefs!With(@, o.got, v2[fd])]
                 ELSE [o EXCEPT !.fate = "missed"]
<1>1. /\ fd \in DOMAIN v7 /\ o.got # -1 /\ Fakefs!Becomes(s)
      /\ v7' = Fakefs!With(v7, o.got, v7[fd]) /\ v4' = v4 /\ v8' = v8 /\ v9' = v9
  BY Zenon DEF Fakefs!Dup, Fakefs!Real
<1>2. OrigOpened(Fakefs!Now, what, o)
  BY NowIs, OrigOpenIs
<1>3. v1' = s.kernel /\ v2' = s.fdMap /\ v3' = s.file /\ v6' = s.fate
  <2>. HIDE DEF s
  <2>. QED BY <1>1 DEF Fakefs!Becomes
<1>. DEFINE M2 == Fakefs!With(o.fdMap, o.got, v2[fd])
            entered == [o EXCEPT !.fdMap = M2]  lost == [o EXCEPT !.fate = "missed"]
<1>7. s = IF fd \notin DOMAIN v2 THEN o ELSE IF o.got > 0 THEN entered ELSE lost
  <2>. HIDE DEF o
  <2>. QED BY Zenon
<1>. HIDE DEF o, what, s, M2, entered, lost
<1>4. /\ DOMAIN o = FakeFields /\ o.got \in Fakefs!Descriptors /\ v1[o.got] = "free" /\ o.got \notin DOMAIN v2
      /\ o.kernel = [v1 EXCEPT ![o.got] = what] /\ o.fdMap = v2 /\ o.file = v3 /\ o.fate = v6
  BY <1>1, <1>2, NowIs, NowHolds DEF OrigOpened, Taken
<1>5. CASE fd \notin DOMAIN v2
  <2>1. v7[fd] = 0 /\ what = "real" /\ s = o
    BY <1>1, <1>5, <1>7, NowHolds DEF what
  <2>2. FakefsHolds([v1 EXCEPT ![o.got] = "real"], v2, v3, v4, Fakefs!With(v7, o.got, 0), v8, v9)
    BY <1>4, HostKeeps DEF FakefsNow
  <2>. QED BY <1>1, <1>3, <1>4, <2>1, <2>2 DEF FakefsNext
<1>6. CASE fd \in DOMAIN v2
  <2>1. fd \in FakeIn(v7) /\ what = "null"
    BY <1>1, <1>6, NowHolds DEF what
  <2>2. o.got > 0
    <3>1. CASE ~(o.got > 0)
      <4>1. lost.fate = "missed"
        BY <1>4 DEF lost, FakeFields
      <4>2. s = lost
        BY <1>6, <1>7, <3>1
      <4>. QED BY <1>3, <4>1, <4>2
    <3>. QED BY <3>1
  <2>3. s.kernel = o.kernel /\ s.fdMap = M2 /\ s.file = o.file
    <3>1. s = [o EXCEPT !.fdMap = M2]
      BY <1>6, <1>7, <2>2 DEF entered
    <3>. QED BY <1>4, <3>1 DEF FakeFields
  <2>4. FakefsHolds([v1 EXCEPT ![o.got] = "null"], M2, v3, v4, Fakefs!With(v7, o.got, v7[fd]), v8, v9)
    BY <1>4, <2>1, ShareKeeps DEF FakefsNow, M2
  <2>. QED BY <1>1, <1>3, <1>4, <2>1, <2>3, <2>4 DEF FakefsNext
<1>. QED BY <1>5, <1>6

LEMMA Dup2Keeps ==
    ASSUME FakefsNow, NEW fd, NEW newfd \in Fakefs!Descriptors, Fakefs!Dup2(fd, newfd), v6' = "fine"
    PROVE  FakefsNext
<1>1. /\ fd \in DOMAIN v7 /\ v1' = [v1 EXCEPT ![newfd] = v1[fd]] /\ v3' = v3
      /\ v7' = Fakefs!With(v7, newfd, v7[fd]) /\ v4' = v4 /\ v8' = v8 /\ v9' = v9
  BY DEF Fakefs!Dup2
<1>2. CASE fd \in DOMAIN v2
  <2>1. v2' = Fakefs!With(v2, newfd, v2[fd])
    BY <1>2 DEF Fakefs!Dup2
  <2>2. fd \in FakeIn(v7) /\ v1[fd] \in {"null", "real"}
    BY <1>1, <1>2, NowHolds
  <2>3. FakefsHolds([v1 EXCEPT ![newfd] = v1[fd]], Fakefs!With(v2, newfd, v2[fd]), v3, v4, Fakefs!With(v7, newfd, v7[fd]), v8, v9)
    BY <2>2, ShareKeeps DEF FakefsNow
  <2>. QED BY <1>1, <2>1, <2>3 DEF FakefsNext
<1>3. CASE fd \notin DOMAIN v2
  <2>1. v2' = v2 /\ newfd \notin DOMAIN v2
    BY <1>3 DEF Fakefs!Dup2
  <2>2. v7[fd] = 0 /\ v1[fd] = "real"
    BY <1>1, <1>3, NowHolds
  <2>3. FakefsHolds([v1 EXCEPT ![newfd] = "real"], v2, v3, v4, Fakefs!With(v7, newfd, 0), v8, v9)
    BY <2>1, HostKeeps DEF FakefsNow
  <2>. QED BY <1>1, <2>1, <2>2, <2>3 DEF FakefsNext
<1>. QED BY <1>2, <1>3

LEMMA StatKeeps ==
    ASSUME FakefsNow, NEW path \in Paths, Fakefs!Stat(path), v6' = "fine"
    PROVE  FakefsNext
<1>. DEFINE s == Fakefs!Open(Fakefs!Now, path, FALSE)  c == Fakefs!Close(s, s.got)
            q == IF s.got = -1 THEN s ELSE c
<1>1. /\ v1' = q.kernel /\ v2' = q.fdMap /\ v3' = q.file /\ q.fate = "fine"
      /\ v4' = v4 /\ v7' = v7 /\ v8' = v8 /\ v9' = v9
  BY DEF Fakefs!Stat, Fakefs!Becomes, Fakefs!posix
<1>2. /\ DOMAIN s = FakeFields
      /\ \/ s.got = -1 /\ s.kernel = v1 /\ s.fdMap = v2 /\ s.file = v3
         \/ \E a : EnteredAs(v1, v2, v3, path, s, a)
  BY OpenedNow
<1>. HIDE DEF s
<1>3. CASE s.got = -1 /\ s.kernel = v1 /\ s.fdMap = v2 /\ s.file = v3
  BY <1>1, <1>3 DEF FakefsNow, FakefsNext
<1>4. ASSUME NEW a, EnteredAs(v1, v2, v3, path, s, a)
      PROVE  FakefsNext
  <2>1. CASE s.got = -1
    <3>1. FakefsHolds(s.kernel, s.fdMap, s.file, v4, v7, v8, v9 \cup {s.got})
      BY <1>4, OpenQuietly
    <3>2. FakefsHolds(s.kernel, s.fdMap, s.file, v4, v7, v8, v9)
      BY <3>1, <2>1 DEF FakefsHolds, PosixHolds
    <3>. QED BY <1>1, <2>1, <3>2 DEF FakefsNext
  <2>2. CASE s.got # -1
    <3>1. s.fdMap[s.got] = a /\ s.file[a] = Opening(path)
      BY <1>4 DEF EnteredAs
    <3>2. s.file[s.fdMap[s.got]] \in Fakefiles
      BY <3>1 DEF Opening, Fakefiles
    <3>3. Closed(s, s.got, c)
      BY <1>2, <3>2, CloseIs
    <3>. HIDE DEF c
    <3>4. FakefsHolds(c.kernel, c.fdMap, c.file, v4, v7, v8, v9)
      BY <1>1, <1>4, <2>2, <3>3, OpenAndClose
    <3>. QED BY <1>1, <2>2, <3>4 DEF FakefsNext
  <2>. QED BY <2>1, <2>2
<1>. QED BY <1>2, <1>3, <1>4

LEMMA ChmodKeeps ==
    ASSUME FakefsNow, NEW path \in Paths, Fakefs!Chmod(path), v6' = "fine"
    PROVE  FakefsNext
<1>. DEFINE s == Fakefs!Open(Fakefs!Now, path, FALSE)  c == Fakefs!Close(s, s.got)
            other == -1 \in DOMAIN s.fdMap /\ s.file[s.fdMap[-1]].path # path
            q == [c EXCEPT !.fate = IF s.got = -1 /\ other THEN "strayed" ELSE @]
<1>1. /\ v1' = q.kernel /\ v2' = q.fdMap /\ v3' = q.file /\ q.fate = "fine"
      /\ v4' = v4 /\ v7' = v7 /\ v8' = v8 /\ v9' = v9
  BY DEF Fakefs!Chmod, Fakefs!Becomes, Fakefs!posix
<1>2. /\ DOMAIN s = FakeFields
      /\ \/ s.got = -1 /\ s.kernel = v1 /\ s.fdMap = v2 /\ s.file = v3
         \/ \E a : EnteredAs(v1, v2, v3, path, s, a)
  BY OpenedNow
<1>3. s.got \in DOMAIN s.fdMap => s.file[s.fdMap[s.got]] \in Fakefiles
  <2>. HIDE DEF s
  <2>1. ASSUME NEW a, EnteredAs(v1, v2, v3, path, s, a) PROVE s.file[s.fdMap[s.got]] \in Fakefiles
    BY <2>1 DEF EnteredAs, Opening, Fakefiles
  <2>. QED BY <1>2, <2>1, NowHolds
<1>4. Closed(s, s.got, c)
  BY <1>2, <1>3, CloseIs
<1>. HIDE DEF s, c
<1>5. q.kernel = c.kernel /\ q.fdMap = c.fdMap /\ q.file = c.file /\ c.fate = "fine"
  <2>1. DOMAIN c = FakeFields
    BY <1>4 DEF Closed
  <2>. DEFINE strays == s.got = -1 /\ other
  <2>. HIDE DEF other
  <2>2. CASE s.got = -1 /\ other
    BY <1>1, <2>1, <2>2 DEF FakeFields
  <2>3. CASE ~(s.got = -1 /\ other)
    BY <1>1, <2>1, <2>3 DEF FakeFields
  <2>. QED BY <2>2, <2>3
<1>. HIDE DEF q
<1>6. CASE s.got = -1 /\ s.kernel = v1 /\ s.fdMap = v2 /\ s.file = v3
  <2>1. CASE -1 \notin DOMAIN v2
    <3>1. c.kernel = v1 /\ c.fdMap = v2 /\ c.file = v3
      BY <1>4, <1>6, <2>1 DEF Closed
    <3>. QED BY <1>1, <1>5, <3>1 DEF FakefsNow, FakefsNext
  <2>2. CASE -1 \in DOMAIN v2
    <3>1. /\ c.kernel = v1 /\ c.fdMap = Fakefs!Without(v2, -1) /\ c.file = Fakefs!Without(v3, v2[-1])
          /\ ~\E g \in DOMAIN c.fdMap : c.fdMap[g] = v2[-1]
      BY <1>4, <1>5, <1>6, <2>2 DEF Closed
    <3>2. \A g \in DOMAIN v2 : g # -1 => v2[g] # v2[-1]
      BY <3>1 DEF Fakefs!Without
    <3>3. -1 \notin FakeIn(v7) /\ v9 \ {-1} \subseteq v9
      BY NowHolds DEF FakeIn
    <3>4. FakefsHolds(v1, Fakefs!Without(v2, -1), Fakefs!Without(v3, v2[-1]), v4, v7, v8, v9)
      BY <2>2, <3>2, <3>3, ForgetKeeps DEF FakefsNow
    <3>. QED BY <1>1, <1>5, <3>1, <3>4 DEF FakefsNext
  <2>. QED BY <2>1, <2>2
<1>7. ASSUME NEW a, EnteredAs(v1, v2, v3, path, s, a)
      PROVE  FakefsNext
  <2>1. FakefsHolds(c.kernel, c.fdMap, c.file, v4, v7, v8, v9)
    BY <1>4, <1>5, <1>7, OpenAndClose
  <2>. QED BY <1>1, <1>5, <2>1 DEF FakefsNext
<1>. QED BY <1>2, <1>6, <1>7

\* opendir of a directory gives the stream a descriptor of the host's besides.
LEMMA StreamKeeps ==
    ASSUME FakefsNow, NEW s, NEW a, Entered(Fakefs!Now, FakefsRoot, s, a), EnteredAs(v1, v2, v3, FakefsRoot, s, a),
           s.got # -1, NEW d, Taken(s, "real", d), d.got # -1
    PROVE  LET id == Fakefs!Cardinality(DOMAIN v8) + 1
           IN  FakefsHolds(d.kernel, s.fdMap, s.file, Fakefs!With(v4, d.got, s.got), Fakefs!With(v7, s.got, id),
                           Fakefs!With(v8, id, [path |-> FakefsRoot, offset |-> 0]), v9)
<1>. DEFINE id == Fakefs!Cardinality(DOMAIN v8) + 1
            I2 == Fakefs!With(v7, s.got, id)
            E2 == Fakefs!With(v8, id, [path |-> FakefsRoot, offset |-> 0])
            D2 == Fakefs!With(v4, d.got, s.got)
            K2 == s.kernel  M2 == s.fdMap  F2 == s.file  K3 == d.kernel
<1>1. FakefsRoot \in Paths
  BY DEF Paths
<1>2. FakefsHolds(K2, M2, F2, v4, I2, E2, v9) /\ s.got \notin FakeIn(v7) /\ s.got \in FakeIn(I2)
  BY <1>1, NowIs, EnterKeeps DEF FakefsNow
<1>3. d.got \in Fakefs!Descriptors /\ K2[d.got] = "free" /\ K3 = [K2 EXCEPT ![d.got] = "real"]
  BY DEF Taken
<1>4. D2 = Fakefs!With(v4, d.got, s.got)
  OBVIOUS
<1>. HIDE DEF id, I2, E2, D2, K2, M2, F2, K3
<1>5. ShimHolds(K2, M2, F2) /\ PosixHolds(K2, M2, F2, I2, E2, v9) /\ StreamsHold(v4, I2)
  BY <1>2 DEF FakefsHolds
<1>6. K2 \in [Fakefs!Descriptors -> {"free", "null", "real"}]
  BY <1>5 DEF ShimHolds
<1>7. /\ K3 \in [Fakefs!Descriptors -> {"free", "null", "real"}]
      /\ \A fd \in Fakefs!Descriptors : /\ K2[fd] # "free" => K3[fd] # "free"
                                        /\ K2[fd] = "real" => K3[fd] = "real"
  BY <1>3, <1>6
<1>8. ShimHolds(K3, M2, F2)
  BY <1>5, <1>7 DEF ShimHolds
<1>9. \A fd \in FakeIn(I2) : fd \in DOMAIN M2 /\ M2[fd] = M2[fd] /\ F2[M2[fd]] = F2[M2[fd]]
  BY <1>5 DEF PosixHolds, Stands
<1>10. FakefsHolds(K3, M2, F2, v4, I2, E2, v9)
  BY <1>2, <1>7, <1>8, <1>9, QuietKeeps
<1>11. StreamsHold(D2, I2)
  <2>1. /\ DOMAIN D2 = DOMAIN v4 \cup {d.got} /\ D2[d.got] = s.got
        /\ \A e \in DOMAIN v4 : e # d.got => D2[e] = v4[e]
    BY <1>4 DEF Fakefs!With
  <2>2. \A e \in DOMAIN v4 \ {-1} : v4[e] # s.got
    BY <1>2, NowHolds DEF StreamsHold
  <2>3. \A e \in DOMAIN D2 \ {-1} : e = d.got \/ (e \in DOMAIN v4 \ {-1} /\ e # d.got)
    BY <2>1
  <2>. QED BY <1>2, <1>5, <2>1, <2>2, <2>3 DEF StreamsHold
<1>. QED BY <1>10, <1>11 DEF FakefsHolds, id, I2, E2, D2, K2, M2, F2, K3

LEMMA OpenDirKeeps ==
    ASSUME FakefsNow, NEW path \in Paths, Fakefs!OpenDir(path), v6' = "fine"
    PROVE  FakefsNext
<1>. DEFINE s == Fakefs!Open(Fakefs!Now, path, FALSE)  d == Fakefs!OrigOpen(s, "real")
            known == s.got \in DOMAIN s.fdMap
            isDir == known /\ s.file[s.fdMap[s.got]].path = FakefsRoot
            strays == s.got = -1 /\ isDir /\ path # FakefsRoot
            q == [d EXCEPT !.fate = IF strays THEN "strayed" ELSE @]
            id == Fakefs!Cardinality(DOMAIN v8) + 1
            I2 == Fakefs!With(v7, s.got, id)
            E2 == Fakefs!With(v8, id, [path |-> FakefsRoot, offset |-> 0])
<1>1. \/ Fakefs!Becomes(s) /\ v9' = v9 \cup {s.got} /\ v4' = v4 /\ v7' = v7 /\ v8' = v8
      \/ d.got = -1 /\ Fakefs!Becomes(d) /\ v4' = Fakefs!With(v4, -1, s.got) /\ v9' = v9 \cup {s.got} /\ v7' = v7 /\ v8' = v8
      \/ isDir /\ d.got # -1 /\ Fakefs!Becomes(q) /\ v4' = Fakefs!With(v4, d.got, s.got) /\ v7' = I2 /\ v8' = E2 /\ v9' = v9
  BY Zenon DEF Fakefs!OpenDir, Fakefs!Real
<1>2. /\ DOMAIN s = FakeFields
      /\ \/ path # FakefsRoot /\ s.got = -1 /\ s.kernel = v1 /\ s.fdMap = v2 /\ s.file = v3
         \/ \E a : Entered(Fakefs!Now, path, s, a) /\ EnteredAs(v1, v2, v3, path, s, a)
  BY OpenedNow
<1>3. OrigOpened(s, "real", d)
  BY <1>2, OrigOpenIs
<1>. HIDE DEF s, d, I2, E2
<1>4. FakefsHolds(s.kernel, s.fdMap, s.file, v4, v7, v8, v9 \cup {s.got})
  <2>1. CASE s.got = -1 /\ s.kernel = v1 /\ s.fdMap = v2 /\ s.file = v3
    BY <2>1 DEF FakefsNow, FakefsHolds, PosixHolds
  <2>2. ASSUME NEW a, EnteredAs(v1, v2, v3, path, s, a)
        PROVE  FakefsHolds(s.kernel, s.fdMap, s.file, v4, v7, v8, v9 \cup {s.got})
    BY <2>2, OpenQuietly
  <2>. QED BY <1>2, <2>1, <2>2
<1>5. /\ DOMAIN d = FakeFields /\ d.fdMap = s.fdMap /\ d.file = s.file
      /\ d.got = -1 => d.kernel = s.kernel
      /\ Taken(s, "real", d)
  BY <1>3, FakefsAssumption DEF OrigOpened, Taken, Fakefs!Descriptors
<1>6. CASE Fakefs!Becomes(s) /\ v9' = v9 \cup {s.got} /\ v4' = v4 /\ v7' = v7 /\ v8' = v8
  BY <1>4, <1>6 DEF Fakefs!Becomes, FakefsNext
<1>7. CASE d.got = -1 /\ Fakefs!Becomes(d) /\ v4' = Fakefs!With(v4, -1, s.got) /\ v9' = v9 \cup {s.got} /\ v7' = v7 /\ v8' = v8
  <2>1. v1' = s.kernel /\ v2' = s.fdMap /\ v3' = s.file
    BY <1>5, <1>7 DEF Fakefs!Becomes
  <2>2. DOMAIN v4' \ {-1} = DOMAIN v4 \ {-1} /\ \A e \in DOMAIN v4 \ {-1} : v4'[e] = v4[e]
    BY <1>7 DEF Fakefs!With
  <2>3. StreamsHold(v4', v7)
    BY <2>2, NowHolds DEF StreamsHold
  <2>4. FakefsHolds(s.kernel, s.fdMap, s.file, v4', v7, v8, v9 \cup {s.got})
    BY <1>4, <2>3 DEF FakefsHolds
  <2>. QED BY <1>7, <2>1, <2>4 DEF FakefsNext
<1>8. CASE isDir /\ d.got # -1 /\ Fakefs!Becomes(q) /\ v4' = Fakefs!With(v4, d.got, s.got) /\ v7' = I2 /\ v8' = E2 /\ v9' = v9
  <2>1. v6' = q.fate /\ v1' = q.kernel /\ v2' = q.fdMap /\ v3' = q.file
    BY <1>8 DEF Fakefs!Becomes
  <2>2. ~strays
    <3>1. strays => q.fate = "strayed"
      BY <1>5 DEF FakeFields
    <3>. QED BY <2>1, <3>1
  <2>3. q.kernel = d.kernel /\ q.fdMap = s.fdMap /\ q.file = s.file
    BY <1>5, <2>2 DEF FakeFields
  <2>. HIDE DEF q
  <2>4. PICK a : Entered(Fakefs!Now, path, s, a) /\ EnteredAs(v1, v2, v3, path, s, a)
    BY <1>2, <1>8, <2>2
  <2>5. path = FakefsRoot
    BY <1>8, <2>4 DEF EnteredAs, Opening
  <2>6. s.got # -1
    <3>1. s.got = -1 => s.kernel = v1 /\ \A fd \in Fakefs!Descriptors : v1[fd] # "free"
      BY <2>4 DEF EnteredAs
    <3>2. d.got \in Fakefs!Descriptors /\ s.kernel[d.got] = "free"
      BY <1>5, <1>8 DEF Taken
    <3>. QED BY <3>1, <3>2
  <2>7. FakefsHolds(d.kernel, s.fdMap, s.file, Fakefs!With(v4, d.got, s.got), I2, E2, v9)
    BY <1>5, <1>8, <2>4, <2>5, <2>6, StreamKeeps DEF I2, E2
  <2>. QED BY <1>8, <2>1, <2>3, <2>7 DEF FakefsNext
<1>. QED BY <1>1, <1>6, <1>7, <1>8

\* Every call keeps it, and nothing is promised once fate is not fine.
LEMMA FakefsStep ==
    ASSUME FakefsInv, [Fakefs!Next]_(Fakefs!vars)
    PROVE  FakefsInv'
<1>0. CASE UNCHANGED Fakefs!vars
  BY <1>0 DEF Fakefs!vars, Fakefs!shim, Fakefs!posix, FakefsInv
<1>. SUFFICES ASSUME Fakefs!Next PROVE FakefsInv'
  BY <1>0
<1>1. v6 = "fine"
  <2>1. Fakefs!OpenReal \/ (\E path : Fakefs!Unlink(path)) \/ (\E dir : Fakefs!CloseDir(dir)) => v6 = "fine"
    BY Zenon DEF Fakefs!OpenReal, Fakefs!Unlink, Fakefs!CloseDir, Fakefs!Called
  <2>2. ASSUME NEW path, Fakefs!OnPath(path) PROVE v6 = "fine"
    BY <2>2, Zenon DEF Fakefs!OnPath, Fakefs!OpenFile, Fakefs!Stat, Fakefs!Chmod, Fakefs!OpenDir, Fakefs!Called
  <2>3. ASSUME NEW fd, Fakefs!CloseFile(fd) \/ Fakefs!Read(fd) \/ Fakefs!Write(fd) \/ Fakefs!Dup(fd) PROVE v6 = "fine"
    BY <2>3, Zenon DEF Fakefs!CloseFile, Fakefs!Read, Fakefs!Write, Fakefs!Dup, Fakefs!Called
  <2>4. ASSUME NEW fd, (\E newfd : Fakefs!Dup2(fd, newfd)) \/ (\E whence, by : Fakefs!Lseek(fd, whence, by)) PROVE v6 = "fine"
    BY <2>4, Zenon DEF Fakefs!Dup2, Fakefs!Lseek, Fakefs!Called
  <2>5. ASSUME NEW fd, Fakefs!OnDescriptor(fd) PROVE v6 = "fine"
    BY <2>3, <2>4, <2>5, Zenon DEF Fakefs!OnDescriptor
  <2>. QED BY <2>1, <2>2, <2>5, Zenon DEF Fakefs!Next
<1>2. FakefsNow
  BY <1>1 DEF FakefsInv, FakefsNow
<1>. SUFFICES ASSUME v6' = "fine" PROVE FakefsNext
  BY DEF FakefsInv, FakefsNext
<1>3. CASE Fakefs!OpenReal
  BY <1>2, <1>3, OpenRealKeeps
<1>4. ASSUME NEW path \in FakefsFiles \cup {FakefsRoot}, Fakefs!OnPath(path) PROVE FakefsNext
  <2>1. path \in Paths
    BY DEF Paths
  <2>. QED BY <1>2, <1>4, <2>1, StatKeeps, ChmodKeeps, OpenDirKeeps, OpenFileKeeps DEF Fakefs!OnPath
<1>5. ASSUME NEW path, Fakefs!Unlink(path) PROVE FakefsNext
  <2>1. v1' = v1 /\ v2' = v2 /\ v3' = v3 /\ v4' = v4 /\ v7' = v7 /\ v8' = v8 /\ v9' = v9
    BY <1>5 DEF Fakefs!Unlink, Fakefs!posix
  <2>. QED BY <1>2, <2>1 DEF FakefsNow, FakefsNext
<1>6. ASSUME NEW fd, Fakefs!OnDescriptor(fd) PROVE FakefsNext
  BY <1>2, <1>6, CloseFileKeeps, ReadKeeps, WriteKeeps, LseekKeeps, DupKeeps, Dup2Keeps DEF Fakefs!OnDescriptor
<1>7. ASSUME NEW dir, Fakefs!CloseDir(dir) PROVE FakefsNext
  BY <1>2, <1>7, CloseDirKeeps
<1>. QED BY <1>3, <1>4, <1>5, <1>6, <1>7 DEF Fakefs!Next

-----------------------------------------------------------------------------
(* All the programs. *)

\* A step is one of the program that was chosen.
LEMMA OfTheChosen ==
    ASSUME [Next]_vars
    PROVE  /\ which' = which
           /\ which = "chat_client" => [ChatClient!Next]_(ChatClient!vars)
           /\ which = "gthreads" => [Gthreads!Next]_(Gthreads!vars)
           /\ which = "thread_status" => [ThreadStatus!Next]_(ThreadStatus!vars)
           /\ which = "shell" => [Shell!Next]_(Shell!vars)
           /\ which = "makefile" => [Makefiles!Next]_(Makefiles!vars)
           /\ which = "fakefs" => [Fakefs!Next]_(Fakefs!vars)
<1>1. CASE UNCHANGED vars
  BY <1>1 DEF vars, from2, from3, from4, from5, from6, from7, from8, from9, from10, from11, from12, from13, from14,
     from15, from16, from17, ChatClient!vars, Gthreads!vars, ThreadStatus!vars, Gthreads!lib, Gthreads!threads,
     Shell!vars, Shell!loop, Makefiles!vars, Fakefs!vars, Fakefs!shim,
     Fakefs!posix
<1>2. CASE Next
  BY <1>2 DEF Next, NextMalloc, NextMiniMemcheck, NextGthreads, NextThreadStatus, NextShell, NextMakefiles,
     NextFakefs, NextVM, NextChatClient, InMalloc, InMiniMemcheck, InGthreads, InThreadStatus, InShell,
     InMakefiles, InFakefs, InVM, InChatClient
<1>. QED BY <1>1, <1>2

\* The invariant of the program that was chosen.
ChosenInv ==
    /\ which = "chat_client" => ClientInv
    /\ which = "gthreads" => GthreadsInv /\ OrderInv
    /\ which = "thread_status" => StatusInv
    /\ which = "shell" => ListInv /\ OperatorsInv
    /\ which = "makefile" => MakefileInv
    /\ which = "fakefs" => FakefsInv

\* It holds at the start ...
LEMMA ChosenInit ==
    ASSUME Init
    PROVE  ChosenInv
<1>1. /\ which = "chat_client" => ChatClient!Init
      /\ which = "gthreads" => Gthreads!Init
      /\ which = "thread_status" => ThreadStatus!Init
      /\ which = "shell" => Shell!Init
      /\ which = "makefile" => Makefiles!Init
      /\ which = "fakefs" => Fakefs!Init
  BY DEF Init, InitMalloc, InitMiniMemcheck, InitGthreads, InitThreadStatus, InitShell, InitMakefiles,
     InitFakefs, InitVM, InitChatClient, InMalloc, InMiniMemcheck, InGthreads, InThreadStatus, InShell,
     InMakefiles, InFakefs, InVM, InChatClient
<1>. QED BY <1>1, ClientInit, GthreadsInit, OrderInit, StatusInit, ListInit, OperatorsInit,
     MakefileInit, FakefsInit DEF ChosenInv

\* ... every step keeps it ...
LEMMA ChosenStep ==
    ASSUME ChosenInv, [Next]_vars
    PROVE  ChosenInv'
<1>0. which' = which
  BY OfTheChosen
<1>1. CASE which = "chat_client"
  <2>1. [ChatClient!Next]_(ChatClient!vars) /\ ClientInv
    BY <1>1, OfTheChosen DEF ChosenInv
  <2>2. ASSUME UNCHANGED ChatClient!vars
        PROVE  ClientInv'
    BY <2>1, <2>2 DEF ChatClient!vars, ClientInv, ChatClient!TypeOK, ChatClient!PlacesHold, ChatClient!OneAfterTheOther
  <2>3. ClientInv'
    BY <2>1, <2>2, ClientStep
  <2>. QED BY <1>0, <1>1, <2>3 DEF ChosenInv
<1>2. CASE which = "gthreads"
  <2>1. [Gthreads!Next]_(Gthreads!vars) /\ GthreadsInv /\ OrderInv
    BY <1>2, OfTheChosen DEF ChosenInv
  <2>2. ASSUME UNCHANGED Gthreads!vars
        PROVE  GthreadsInv'
    BY <2>1, <2>2 DEF Gthreads!vars, Gthreads!lib, Gthreads!threads, GthreadsInv, Gthreads!TypeOK,
         Gthreads!JobsAreShared, Gthreads!SuspendedBesideMain, Gthreads!ExitsAtTheEnd, Gthreads!Present,
         Gthreads!OnItsWay, Gthreads!Informed
  <2>3. ASSUME UNCHANGED Gthreads!vars
        PROVE  OrderInv'
    BY <2>1, <2>3 DEF Gthreads!vars, Gthreads!lib, Gthreads!threads, OrderInv, InOrder, Stamped, Sorted,
         InScheme, Key, Known, Gthreads!Schemes, Gthreads!Jobs
  <2>4. GthreadsInv' /\ OrderInv'
    BY <2>1, <2>2, <2>3, GthreadsStep, OrderKept
  <2>. QED BY <1>0, <1>2, <2>4 DEF ChosenInv
<1>3. CASE which = "thread_status"
  <2>1. [ThreadStatus!Next]_(ThreadStatus!vars) /\ StatusInv
    BY <1>3, OfTheChosen DEF ChosenInv
  <2>2. ASSUME UNCHANGED ThreadStatus!vars
        PROVE  StatusInv'
    BY <2>1, <2>2 DEF ThreadStatus!vars, StatusInv, ThreadStatus!TypeOK, ThreadStatus!EntriesAreKnown
  <2>3. StatusInv'
    BY <2>1, <2>2, StatusStep
  <2>. QED BY <1>0, <1>3, <2>3 DEF ChosenInv
<1>4. CASE which = "shell"
  BY <1>0, <1>4, OfTheChosen, ListStep, OperatorsStep DEF ChosenInv
<1>5. CASE which = "makefile"
  BY <1>0, <1>5, OfTheChosen, MakefileStep DEF ChosenInv
<1>6. CASE which = "fakefs"
  BY <1>0, <1>6, OfTheChosen, FakefsStep DEF ChosenInv
<1>. QED BY <1>0, <1>1, <1>2, <1>3, <1>4, <1>5, <1>6 DEF ChosenInv

\* ... so that it always holds.
LEMMA SpecChosenInv == Spec => []ChosenInv
BY ChosenInit, ChosenStep, PTL DEF Spec

\* Wherever the chat client's threads are cancelled, they give back what they hold,
\* once (client.c:80-93, 114-131, 149-163, 169-176).
THEOREM SpecThreadsGiveBack == Spec => []ThreadsGiveBack
<1>1. ChosenInv => ThreadsGiveBack
  BY ClientGivesBack DEF ChosenInv, ThreadsGiveBack
<1>. QED BY <1>1, SpecChosenInv, PTL

\* No green thread's job is lost or doubled, however many there are, under every scheme
\* and whatever alarms come while jobs run or between the steps of gtgo: one that gtgo
\* has linked in and that has not ended is running, suspended or in the queue, once, and
\* gtret returns only when all have ended (gthreads.c:136-216, 269-289, 335).  This is
\* until an alarm changes the list under priqueue_offer or a job without a context is
\* switched to, of which the property claims nothing.
THEOREM SpecJobsAreInOnePlace == Spec => []JobsAreInOnePlace
<1>1. ChosenInv => JobsAreInOnePlace
  BY GthreadsShares DEF ChosenInv, JobsAreInOnePlace
<1>. QED BY <1>1, SpecChosenInv, PTL

\* Whenever the library hands out a job, no waiting job comes before it, for any number
\* of jobs with any run times and priorities, also when gtgo is interrupted, and under
\* every scheme but PSRTF; under RR as long as no job has been linked in behind a later
\* one for a third of its own time (libscheduler.c:118-124, 154-201).
THEOREM SpecDispatchIsInOrder == Spec => DispatchIsInOrder
<1>1. ASSUME ChosenInv, ChosenInv', [Next]_vars
      PROVE  [which = "gthreads" /\ Gthreads!HandsOutInScheme => Gthreads!RunsFirst']_vars
  <2>1. SUFFICES ASSUME which = "gthreads", Gthreads!HandsOutInScheme
                 PROVE  Gthreads!RunsFirst'
    OBVIOUS
  <2>2. GthreadsInv /\ OrderInv /\ GthreadsInv'
    BY <1>1, <2>1, OfTheChosen DEF ChosenInv
  <2>3. Gthreads!Next
    <3>1. [Gthreads!Next]_(Gthreads!vars)
      BY <1>1, <2>1, OfTheChosen
    <3>2. v6' # v6
      BY <2>1 DEF Gthreads!HandsOutInScheme, Gthreads!HandsOutAJob
    <3>. QED BY <3>1, <3>2 DEF Gthreads!vars, Gthreads!threads
  <2>. QED BY <2>1, <2>2, <2>3, OrderRunsFirst
<1>. QED BY <1>1, SpecChosenInv, PTL DEF Spec, DispatchIsInOrder

\* The status display shows every thread in one entry, with what it last said or as
\* blocked, as long as no entry was touched while the array moved; and that needs more
\* threads than the array starts with (thread_status.c:154-274).
THEOREM SpecStatusIsItsOwn == Spec => [](which = "thread_status" => ThreadStatus!StatusIsItsOwn)
<1>1. ChosenInv => (which = "thread_status" => ThreadStatus!StatusIsItsOwn)
  BY StatusIsOwn DEF ChosenInv
<1>. QED BY <1>1, SpecChosenInv, PTL

\* Whatever the children do and wherever an interrupt strikes, the list of a shell that
\* has not come to harm is true at every prompt: the shell first, every entry once and of
\* a process that has not been waited for, and no process that runs or is stopped is
\* missing (shell.c:21-105, 144-228, 327-381); and && and || decide over what runs as they
\* are written (shell.c:232-267).
THEOREM SpecShellKeepsItsWord == Spec => []ShellKeepsItsWord
<1>1. ChosenInv => ShellKeepsItsWord
  BY ListIsRight, OperatorsAreRight DEF ChosenInv, ShellKeepsItsWord
<1>. QED BY <1>1, SpecChosenInv, PTL

\* A makefile that is read is what it says: the graph has the targets, dependencies and
\* recipes of its lines, however rules repeat a target, the goals are those asked for or
\* the first target, and the parser gives up on just the makefiles and goals that it must
\* (parser.c:208-321).
THEOREM SpecParsedAsWritten == Spec => []ParsedAsWritten
<1>1. ChosenInv => ParsedAsWritten
  BY DEF ChosenInv, MakefileInv, ParsedAsWritten
<1>. QED BY <1>1, SpecChosenInv, PTL

\* As long as the shim keeps up, every descriptor of the program stands for what POSIX
\* says it does, for any files and any number of descriptors: one of the host's is the
\* host's, one of a fake file leads to its path and offset, which just its copies share,
\* and fd_map knows no other but those that opendir forgot and -1 (core.c:38-205,
\* dup.c:7-28, stat.c:15-106, dir.c:6-80).
THEOREM SpecFakefsIsFaithful == Spec => []FakefsIsFaithful
<1>1. ChosenInv => FakefsIsFaithful
  BY FakefsStands DEF ChosenInv, FakefsIsFaithful
<1>. QED BY <1>1, SpecChosenInv, PTL
===============================================================================
