-------------------------- MODULE ChatServer_proofs ---------------------------
(***************************************************************************)
(* Proofs about charming_chatroom/server.c for any finite set of clients,  *)
(* any number of slots and any number of messages.                         *)
(*                                                                         *)
(* The argument has three parts.  The descriptors: an open one belongs to  *)
(* a connection that is there, to no other descriptor and, until cleanup,  *)
(* to one thread that has not closed it; so accept() always finds a number *)
(* and a close hits the closer's own.  The slots: a slot is listed exactly *)
(* while it has a thread, so the count follows.  The messages: each is in  *)
(* one place until its broadcast begins, the mutex admits one broadcast at *)
(* a time, and nothing else is written meanwhile; so the broadcasts' order *)
(* is every client's order.                                                *)
(***************************************************************************)
EXTENDS ChatServer, FiniteSetsExt, FiniteSetTheorems, WellFoundedInduction, TLAPS

\* Min gives the least of a set of naturals that is not empty.
LEMMA MinIsLeast ==
    ASSUME NEW T \in SUBSET Nat, T # {}
    PROVE  Min(T) \in T /\ \A m \in T : Min(T) <= m
<1>. DEFINE less == {pair \in Nat \X Nat : pair[1] < pair[2]}
<1>1. IsWellFoundedOn(less, Nat)
  BY NatLessThanWellFounded DEF OpToRel
<1>2. PICK n \in T : \A m \in T : <<m, n>> \notin less
  <2>. HIDE DEF less
  <2>. QED BY <1>1, WFMin, Zenon
<1>3. \A m \in T : ~(m < n)
  BY <1>2
<1>4. \A m \in T : n <= m
  BY <1>3
<1>. QED BY <1>4 DEF Min

Types ==
    /\ TypeOK
    /\ sent \in [Conns -> 0..MaxSent]
    /\ unread \in [Conns -> Seq(Message)]
    /\ inbox \in [Conns -> Seq(Message)]
    /\ msg \in [Slots -> Message \cup {<<>>}]
    /\ next \in [Slots \cup {Main} -> Nat]

\* Slot i's thread has its descriptor open.
Open(i) == pc[i] \notin {"none", "unlist"}

Slotted ==
    /\ \A i \in Slots : clients[i] # NoFd <=> pc[i] # "none"
    /\ Cardinality(Slots \ FreeSlots) <= clientsCount
    /\ (\A c \in Conns : peer[c] # "refused") => clientsCount = Cardinality(Slots \ FreeSlots)

\* Every open descriptor is of a connection of its own that was accepted.
FdsAreOfPeers ==
    /\ \A fd \in Fds : fdTable[fd] # Nobody => peer[fdTable[fd]] \in {"in", "left"}
    /\ \A fd, gd \in Fds : fdTable[fd] # Nobody /\ fdTable[fd] = fdTable[gd] => fd = gd

\* Until cleanup an open slot's descriptor is its own, and so is the descriptor
\* the main thread has not listed yet.
FdsAreOwned ==
    /\ mainPc \in {"accept", "list"} => \A i \in Slots : Open(i) =>
          /\ fdTable[clients[i]] # Nobody
          /\ \A j \in Slots : Open(j) /\ clients[j] = clients[i] => i = j
    /\ mainPc = "list" =>
          /\ newFd \in Fds /\ fdTable[newFd] # Nobody
          /\ \A i \in Slots : Open(i) => clients[i] # newFd

\* A thread that waits for the mutex, or broadcasts, has a message.
Pending(i) == pc[i] \in {"lock", "write"}
HasMessage == \A i \in Slots : Pending(i) => msg[i] \in Message

Books == Types /\ Slotted /\ FdsAreOfPeers /\ FdsAreOwned /\ HasMessage

LEMMA SlotsAre ==
    /\ Slots \in SUBSET Nat /\ IsFiniteSet(Slots) /\ Main \in Nat /\ Main \notin Slots
    /\ Nobody \notin Slots /\ Nobody # Main /\ Nobody \notin Conns
    /\ Cardinality(Conns) \in Nat /\ Fds \in SUBSET Nat /\ IsFiniteSet(Fds)
    /\ Cardinality(Fds) = Cardinality(Conns) /\ NoFd \notin Fds
<1>1. Cardinality(Conns) \in Nat
  BY ChatAssumption, FS_CardinalityType
<1>2. IsFiniteSet(Slots)
  BY ChatAssumption, FS_Interval DEF Slots
<1>3. IsFiniteSet(Fds) /\ Cardinality(Fds) = Cardinality(Conns)
  BY <1>1, FS_Interval DEF Fds
<1>. QED BY <1>1, <1>2, <1>3, ChatAssumption DEF Slots, Fds, Main, NoFd

\* Some slot free: the first one is.
LEMMA FreeSlotIsFree == FreeSlots # {} => Min(FreeSlots) \in FreeSlots
<1>1. FreeSlots \in SUBSET Nat
  BY SlotsAre DEF FreeSlots
<1>. QED BY <1>1, MinIsLeast

\* A client that is connecting finds a free descriptor number: were all taken,
\* as many other clients would have one.
LEMMA FreeFdIsFree ==
    ASSUME Types, FdsAreOfPeers, NEW c \in Conns, peer[c] = "connecting"
    PROVE  FreeFd \in Fds /\ fdTable[FreeFd] = Nobody
<1>. DEFINE Free == {fd \in Fds : fdTable[fd] = Nobody}
<1>1. Free # {}
  <2>1. SUFFICES ASSUME Free = {} PROVE FALSE
    OBVIOUS
  <2>. DEFINE Others == Conns \ {c}
  <2>2. fdTable \in [Fds -> Others] /\ IsInjective(fdTable)
    BY <2>1 DEF Types, TypeOK, FdsAreOfPeers, IsInjective
  <2>3. fdTable \in Injection(Fds, Others)
    BY <2>2 DEF Injection
  <2>4. IsFiniteSet(Others) /\ Cardinality(Others) = Cardinality(Conns) - 1
    BY ChatAssumption, FS_RemoveElement
  <2>5. Cardinality(Fds) <= Cardinality(Others)
    BY <2>3, <2>4, FS_Injection
  <2>. QED BY <2>4, <2>5, SlotsAre
<1>2. Free \in SUBSET Nat
  BY SlotsAre
<1>3. Min(Free) \in Free
  BY <1>1, <1>2, MinIsLeast
<1>. QED BY <1>3 DEF FreeFd

\* The first slot that is free is given out: one more is listed.
LEMMA OneMoreListed ==
    ASSUME Types, FreeSlots # {}, NEW fd \in Fds,
           clients' = [clients EXCEPT ![Min(FreeSlots)] = fd]
    PROVE  /\ IsFiniteSet(Slots \ FreeSlots) /\ Cardinality(Slots \ FreeSlots) \in Nat
           /\ Cardinality(Slots \ FreeSlots') = Cardinality(Slots \ FreeSlots) + 1
<1>1. Min(FreeSlots) \in FreeSlots
  BY FreeSlotIsFree
<1>2. Slots \ FreeSlots' = (Slots \ FreeSlots) \cup {Min(FreeSlots)}
  <2>0. PICK k : k = Min(FreeSlots)
    OBVIOUS
  <2>1. k \in Slots /\ \A i \in Slots : clients'[i] = IF i = k THEN fd ELSE clients[i]
    BY <1>1, <2>0 DEF Types, TypeOK, FreeSlots
  <2>2. Slots \ FreeSlots' = (Slots \ FreeSlots) \cup {k}
    BY <2>1, SlotsAre DEF FreeSlots
  <2>. QED BY <2>0, <2>2
<1>3. IsFiniteSet(Slots \ FreeSlots)
  BY SlotsAre, FS_Difference
<1>. QED BY <1>1, <1>2, <1>3, FS_AddElement, FS_CardinalityType

\* A thread takes itself off the list: one less is.
LEMMA OneLessListed ==
    ASSUME Types, NEW i \in Slots, clients[i] # NoFd, clients' = [clients EXCEPT ![i] = NoFd]
    PROVE  /\ IsFiniteSet(Slots \ FreeSlots) /\ Cardinality(Slots \ FreeSlots) \in Nat
           /\ Cardinality(Slots \ FreeSlots') = Cardinality(Slots \ FreeSlots) - 1
           /\ Cardinality(Slots \ FreeSlots') \in Nat
<1>1. Slots \ FreeSlots' = (Slots \ FreeSlots) \ {i} /\ i \in Slots \ FreeSlots
  BY DEF Types, TypeOK, FreeSlots
<1>2. IsFiniteSet(Slots \ FreeSlots) /\ IsFiniteSet(Slots \ FreeSlots')
  BY SlotsAre, FS_Difference
<1>. QED BY <1>1, <1>2, FS_RemoveElement, FS_CardinalityType
-------------------------------------------------------------------------------
LEMMA InitBooks == Init => Books
<1>1. SUFFICES ASSUME Init PROVE Books
  OBVIOUS
<1>2. Types
  <2>1. 0 \in 0..MaxSent /\ <<>> \in Seq(Message)
    BY ChatAssumption
  <2>. QED BY <1>1, <2>1, SlotsAre DEF Init, Types, TypeOK
<1>3. Slotted
  <2>1. FreeSlots = Slots
    BY <1>1 DEF Init, FreeSlots
  <2>2. Cardinality(Slots \ FreeSlots) = 0
    BY <2>1, FS_EmptySet
  <2>. QED BY <1>1, <2>2 DEF Init, Slotted
<1>4. FdsAreOfPeers /\ FdsAreOwned /\ HasMessage
  BY <1>1 DEF Init, FdsAreOfPeers, FdsAreOwned, HasMessage, Open, Pending
<1>. QED BY <1>2, <1>3, <1>4 DEF Books

LEMMA TypesStep == Books /\ [Next]_vars => Types'
<1>1. SUFFICES ASSUME Books, [Next]_vars PROVE Types'
  OBVIOUS
<1>2. Types /\ TypeOK /\ Slotted /\ FdsAreOfPeers /\ FdsAreOwned /\ HasMessage
  BY <1>1 DEF Books, Types
<1>. USE SlotsAre DEF Types, TypeOK
<1>3. ASSUME NEW c \in Conns, Connect(c) \/ Leave(c) PROVE Types'
  BY <1>2, <1>3 DEF Connect, Leave, server
<1>4. ASSUME NEW c \in Conns, Send(c) PROVE Types'
  <2>1. sent'[c] \in 1..MaxSent /\ <<c, sent'[c]>> \in Message /\ sent' \in [Conns -> 0..MaxSent]
    BY <1>2, <1>4, ChatAssumption DEF Send, Message
  <2>2. unread' \in [Conns -> Seq(Message)]
    BY <1>2, <1>4, <2>1 DEF Send
  <2>. QED BY <1>2, <1>4, <2>1, <2>2 DEF Send, server
<1>5. ASSUME NEW c \in Conns, Accept(c) PROVE Types'
  <2>1. FreeFd \in Fds
    BY <1>2, <1>5, FreeFdIsFree DEF Accept
  <2>. QED BY <1>2, <1>5, <2>1 DEF Accept
<1>6. CASE ListClient
  <2>1. newFd \in Fds /\ Min(FreeSlots) \in Slots
    BY <1>2, <1>6, FreeSlotIsFree DEF ListClient, FdsAreOwned, FreeSlots
  <2>. QED BY <1>2, <1>6, <2>1 DEF ListClient, net
<1>7. CASE RefuseClient
  <2>1. newFd \in Fds /\ fdTable[newFd] \in Conns
    BY <1>2, <1>7 DEF RefuseClient, FdsAreOwned
  <2>. QED BY <1>2, <1>7, <2>1 DEF RefuseClient
<1>8. CASE CloseServer \/ LeaveLoop
  BY <1>2, <1>8 DEF CloseServer, LeaveLoop, net
<1>9. CASE Cleanup
  <2>1. \A i \in Slots : clients[i] # NoFd => clients[i] \in Fds
    BY <1>2
  <2>2. fdTable' \in [Fds -> Conns \cup {Nobody}] /\ next' \in [Slots \cup {Main} -> Nat]
    <3>1. CASE next[Main] \in Slots
      <4>1. next' = [next EXCEPT ![Main] = next[Main] + 1] /\ next[Main] + 1 \in Nat
        BY <1>2, <1>9, <3>1 DEF Cleanup
      <4>2. fdTable' = IF clients[next[Main]] = NoFd THEN fdTable
                       ELSE [fdTable EXCEPT ![clients[next[Main]]] = Nobody]
        BY <1>9, <3>1 DEF Cleanup
      <4>. QED BY <1>2, <2>1, <3>1, <4>1, <4>2
    <3>2. CASE next[Main] \notin Slots
      BY <1>2, <1>9, <3>2 DEF Cleanup
    <3>. QED BY <3>1, <3>2
  <2>. QED BY <1>2, <1>9, <2>2 DEF Cleanup, net
<1>10. ASSUME NEW i \in Slots, TestFlag(i) \/ ReadEnds(i) \/ SigPipe(i) PROVE Types'
  BY <1>2, <1>10 DEF TestFlag, ReadEnds, SigPipe, Becomes, net
<1>11. ASSUME NEW i \in Slots, ReadMessage(i) PROVE Types'
  <2>1. ConnOf(i) \in Conns /\ unread[ConnOf(i)] \in Seq(Message) /\ unread[ConnOf(i)] # <<>>
    BY <1>2, <1>11 DEF ReadMessage, ConnOf
  <2>2. Head(unread[ConnOf(i)]) \in Message /\ Tail(unread[ConnOf(i)]) \in Seq(Message)
    BY <2>1
  <2>. QED BY <1>2, <1>11, <2>1, <2>2 DEF ReadMessage, Becomes
<1>12. ASSUME NEW i \in Slots, BeginBroadcast(i) PROVE Types'
  BY <1>2, <1>12 DEF BeginBroadcast, Becomes, net
<1>13. ASSUME NEW i \in Slots, WriteToSlot(i) PROVE Types'
  <2>1. msg[i] \in Message /\ next[i] \in Slots
    BY <1>2, <1>13 DEF WriteToSlot, AtSlot, HasMessage, Pending
  <2>2. Target(i) # Nobody => Target(i) \in Conns
    BY <1>2, <2>1 DEF Target, ConnOf
  <2>3. inbox' \in [Conns -> Seq(Message)] /\ next' \in [Slots \cup {Main} -> Nat]
    BY <1>2, <1>13, <2>1, <2>2 DEF WriteToSlot
  <2>. QED BY <1>2, <1>13, <2>3 DEF WriteToSlot
<1>14. ASSUME NEW i \in Slots, EndBroadcast(i) PROVE Types'
  BY <1>2, <1>14 DEF EndBroadcast, Becomes, net
<1>15. ASSUME NEW i \in Slots, CloseSocket(i) PROVE Types'
  <2>1. clients[i] \in Fds
    BY <1>2, <1>15 DEF CloseSocket, Slotted
  <2>. QED BY <1>2, <1>15, <2>1 DEF CloseSocket, Becomes, net
<1>16. ASSUME NEW i \in Slots, Unlist(i) PROVE Types'
  <2>1. clients[i] # NoFd /\ clients' = [clients EXCEPT ![i] = NoFd]
    BY <1>2, <1>16 DEF Unlist, Slotted
  <2>2. /\ Cardinality(Slots \ FreeSlots) \in Nat /\ Cardinality(Slots \ FreeSlots) - 1 \in Nat
        /\ Cardinality(Slots \ FreeSlots) <= clientsCount
    BY <1>2, <2>1, OneLessListed DEF Slotted
  <2>3. clientsCount - 1 \in Nat
    BY <1>2, <2>2
  <2>. QED BY <1>2, <1>16, <2>3 DEF Unlist, Becomes, net
<1>17. CASE UNCHANGED vars
  BY <1>2, <1>17 DEF vars, server, net
<1>. QED
  BY <1>1, <1>3, <1>4, <1>5, <1>6, <1>7, <1>8, <1>9, <1>10, <1>11, <1>12, <1>13, <1>14, <1>15,
     <1>16, <1>17 DEF Next, MainStep, ThreadStep

\* Only ListClient and Unlist touch the list, and a refused client stays refused.
LEMMA SlottedStep == Books /\ [Next]_vars => Slotted'
<1>1. SUFFICES ASSUME Books, [Next]_vars PROVE Slotted'
  OBVIOUS
<1>2. Types /\ TypeOK /\ Slotted /\ FdsAreOfPeers /\ FdsAreOwned
  BY <1>1 DEF Books, Types
<1>. DEFINE Refused == \E c \in Conns : peer[c] = "refused"
<1>3. ASSUME /\ clients' = clients /\ clientsCount' = clientsCount
             /\ \A i \in Slots : pc'[i] # "none" <=> pc[i] # "none"
             /\ Refused => Refused'
      PROVE  Slotted'
  BY <1>2, <1>3 DEF Slotted, FreeSlots
<1>4. ASSUME NEW c \in Conns, Connect(c) \/ Send(c) \/ Leave(c) \/ Accept(c) PROVE Slotted'
  <2>1. /\ clients' = clients /\ clientsCount' = clientsCount /\ pc' = pc
        /\ Refused => Refused'
    BY <1>2, <1>4 DEF Connect, Send, Leave, Accept, server, Types, TypeOK
  <2>. QED BY <1>3, <2>1
<1>5. CASE ListClient
  <2>1. newFd \in Fds /\ FreeSlots # {} /\ clients' = [clients EXCEPT ![Min(FreeSlots)] = newFd]
    BY <1>2, <1>5 DEF ListClient, FdsAreOwned
  <2>2. Cardinality(Slots \ FreeSlots') = Cardinality(Slots \ FreeSlots) + 1
    BY <1>2, <2>1, OneMoreListed
  <2>3. Cardinality(Slots \ FreeSlots) \in Nat /\ clientsCount \in Nat
    BY <1>2, <2>1, OneMoreListed DEF TypeOK
  <2>4. Min(FreeSlots) \in Slots
    BY <2>1, FreeSlotIsFree DEF FreeSlots
  <2>5. \A i \in Slots : clients'[i] # NoFd <=> pc'[i] # "none"
    BY <1>2, <1>5, <2>1, <2>4, SlotsAre DEF ListClient, Slotted, TypeOK
  <2>6. clientsCount' = clientsCount + 1 /\ peer' = peer
    BY <1>5 DEF ListClient, net
  <2>. QED BY <1>2, <2>2, <2>3, <2>5, <2>6 DEF Slotted
<1>6. CASE RefuseClient
  <2>1. fdTable[newFd] \in Conns /\ peer'[fdTable[newFd]] = "refused"
    BY <1>2, <1>6 DEF RefuseClient, FdsAreOwned, TypeOK
  <2>2. Cardinality(Slots \ FreeSlots) \in Nat
    <3>1. IsFiniteSet(Slots \ FreeSlots)
      BY SlotsAre, FS_Difference
    <3>. QED BY <3>1, FS_CardinalityType
  <2>3. clients' = clients /\ pc' = pc /\ clientsCount' = clientsCount + 1 /\ FreeSlots' = FreeSlots
    BY <1>6 DEF RefuseClient, FreeSlots
  <2>4. clientsCount \in Nat
    BY <1>2 DEF TypeOK
  <2>. QED BY <1>2, <2>1, <2>2, <2>3, <2>4 DEF Slotted
<1>7. CASE CloseServer \/ LeaveLoop \/ Cleanup
  BY <1>3, <1>7 DEF CloseServer, LeaveLoop, Cleanup, net
<1>8. ASSUME NEW i \in Slots,
             \/ TestFlag(i) \/ ReadMessage(i) \/ ReadEnds(i) \/ BeginBroadcast(i)
             \/ WriteToSlot(i) \/ EndBroadcast(i) \/ CloseSocket(i) \/ SigPipe(i)
      PROVE  Slotted'
  <2>1. clients' = clients /\ clientsCount' = clientsCount /\ peer' = peer
    BY <1>8 DEF TestFlag, ReadMessage, ReadEnds, BeginBroadcast, WriteToSlot, EndBroadcast,
                CloseSocket, SigPipe, net
  <2>2. pc' = pc \/ (pc[i] # "none" /\ \E place \in {"read", "close", "lock", "write", "test", "unlist"} :
                        pc' = [pc EXCEPT ![i] = place])
    BY <1>8 DEF TestFlag, ReadMessage, ReadEnds, BeginBroadcast, WriteToSlot, EndBroadcast,
                CloseSocket, SigPipe, Becomes
  <2>3. \A j \in Slots : pc'[j] # "none" <=> pc[j] # "none"
    BY <1>2, <2>2 DEF TypeOK
  <2>. QED BY <1>3, <2>1, <2>3
<1>9. ASSUME NEW i \in Slots, Unlist(i) PROVE Slotted'
  <2>1. clients[i] # NoFd /\ clients' = [clients EXCEPT ![i] = NoFd]
    BY <1>2, <1>9 DEF Unlist, Slotted
  <2>2. /\ Cardinality(Slots \ FreeSlots) \in Nat
        /\ Cardinality(Slots \ FreeSlots') = Cardinality(Slots \ FreeSlots) - 1
    BY <1>2, <2>1, OneLessListed
  <2>3. \A j \in Slots : clients'[j] # NoFd <=> pc'[j] # "none"
    BY <1>2, <1>9, <2>1 DEF Unlist, Becomes, Slotted, TypeOK
  <2>4. clientsCount' = clientsCount - 1 /\ peer' = peer /\ clientsCount \in Nat
    BY <1>2, <1>9 DEF Unlist, net, TypeOK
  <2>. QED BY <1>2, <2>2, <2>3, <2>4 DEF Slotted
<1>10. CASE UNCHANGED vars
  BY <1>3, <1>10 DEF vars, server, net
<1>. QED
  BY <1>1, <1>4, <1>5, <1>6, <1>7, <1>8, <1>9, <1>10 DEF Next, MainStep, ThreadStep

\* A descriptor is opened by Accept only and closed by its owner, or in cleanup.
FdsAgree == FdsAreOfPeers /\ FdsAreOwned

LEMMA FdsStep == Books /\ [Next]_vars => FdsAgree'
<1>1. SUFFICES ASSUME Books, [Next]_vars PROVE FdsAgree'
  OBVIOUS
<1>2. Types /\ TypeOK /\ Slotted /\ FdsAreOfPeers /\ FdsAreOwned
  BY <1>1 DEF Books, Types
<1>. USE SlotsAre DEF FdsAgree
<1>3. ASSUME /\ fdTable' = fdTable /\ newFd' = newFd /\ clients' = clients
             /\ \A i \in Slots : Open(i)' => Open(i)
             /\ mainPc' = mainPc \/ mainPc' \notin {"accept", "list"}
             /\ \A c \in Conns : peer[c] \in {"in", "left"} => peer'[c] \in {"in", "left"}
      PROVE  FdsAgree'
  BY <1>2, <1>3 DEF FdsAreOfPeers, FdsAreOwned, TypeOK
<1>4. ASSUME NEW c \in Conns, Connect(c) \/ Send(c) \/ Leave(c) PROVE FdsAgree'
  <2>1. \A d \in Conns : peer[d] \in {"in", "left"} => peer'[d] \in {"in", "left"}
    BY <1>2, <1>4 DEF Connect, Send, Leave, TypeOK
  <2>2. UNCHANGED <<fdTable, newFd, clients, pc, mainPc>>
    BY <1>4 DEF Connect, Send, Leave, server
  <2>3. \A i \in Slots : Open(i)' => Open(i)
    BY <2>2 DEF Open
  <2>. QED BY <1>3, <2>1, <2>2, <2>3
<1>5. ASSUME NEW c \in Conns, Accept(c) PROVE FdsAgree'
  <2>1. FreeFd \in Fds /\ fdTable[FreeFd] = Nobody
    BY <1>2, <1>5, FreeFdIsFree DEF Accept
  <2>2. PICK fd \in Fds : fd = FreeFd
    BY <2>1
  <2>3. /\ fdTable' = [fdTable EXCEPT ![fd] = c] /\ newFd' = fd /\ mainPc = "accept"
        /\ mainPc' = "list" /\ peer[c] = "connecting" /\ peer' = [peer EXCEPT ![c] = "in"]
        /\ clients' = clients /\ pc' = pc /\ fdTable[fd] = Nobody
    BY <1>5, <2>1, <2>2 DEF Accept
  <2>4. \A gd \in Fds : fdTable[gd] # c
    BY <1>2, <2>3 DEF FdsAreOfPeers
  <2>5. FdsAreOfPeers'
    BY <1>2, <2>3, <2>4 DEF FdsAreOfPeers, TypeOK
  <2>6. \A i \in Slots : Open(i) => clients[i] \in Fds /\ clients[i] # fd
    BY <1>2, <2>3 DEF FdsAreOwned, Slotted, Open, TypeOK
  <2>7. FdsAreOwned'
    BY <1>2, <2>3, <2>6 DEF FdsAreOwned, TypeOK, Open
  <2>. QED BY <2>5, <2>7
<1>6. CASE ListClient
  <2>1. FreeSlots # {}
    BY <1>6 DEF ListClient
  <2>2. PICK k \in Slots : k = Min(FreeSlots) /\ clients[k] = NoFd
    BY <2>1, FreeSlotIsFree DEF FreeSlots
  <2>3. /\ clients' = [clients EXCEPT ![k] = newFd] /\ pc' = [pc EXCEPT ![k] = "test"]
        /\ mainPc = "list" /\ mainPc' = "accept" /\ fdTable' = fdTable /\ peer' = peer
        /\ newFd \in Fds /\ fdTable[newFd] # Nobody
    BY <1>2, <1>6, <2>2 DEF ListClient, net, FdsAreOwned
  <2>4. FdsAreOfPeers'
    BY <1>2, <2>3 DEF FdsAreOfPeers
  <2>5. \A i \in Slots : i # k => (Open(i)' <=> Open(i)) /\ clients'[i] = clients[i]
    BY <1>2, <2>3 DEF Open, TypeOK
  <2>6. clients'[k] = newFd /\ \A i \in Slots : Open(i) => clients[i] # newFd
    BY <1>2, <2>3 DEF TypeOK, FdsAreOwned
  <2>7. FdsAreOwned'
    BY <1>2, <2>3, <2>5, <2>6 DEF FdsAreOwned
  <2>. QED BY <2>4, <2>7
<1>7. CASE RefuseClient
  <2>1. /\ newFd \in Fds /\ fdTable[newFd] \in Conns
        /\ fdTable' = [fdTable EXCEPT ![newFd] = Nobody] /\ clients' = clients /\ pc' = pc
        /\ peer' = [peer EXCEPT ![fdTable[newFd]] = "refused"] /\ mainPc = "list" /\ mainPc' = "accept"
    BY <1>2, <1>7 DEF RefuseClient, FdsAreOwned, TypeOK
  <2>2. FdsAreOfPeers'
    BY <1>2, <2>1 DEF FdsAreOfPeers, TypeOK
  <2>3. FdsAreOwned'
    BY <1>2, <2>1 DEF FdsAreOwned, TypeOK, Open, Slotted
  <2>. QED BY <2>2, <2>3
<1>8. CASE CloseServer \/ LeaveLoop
  BY <1>3, <1>8 DEF CloseServer, LeaveLoop, net, Open
<1>9. CASE Cleanup
  <2>1. mainPc' \notin {"accept", "list"} /\ peer' = peer
    BY <1>9 DEF Cleanup, net
  <2>2. \A fd \in Fds : fdTable'[fd] = fdTable[fd] \/ fdTable'[fd] = Nobody
    <3>1. \A i \in Slots : clients[i] # NoFd => clients[i] \in Fds
      BY <1>2 DEF TypeOK
    <3>2. \/ fdTable' = fdTable
          \/ \E i \in Slots : clients[i] # NoFd /\ fdTable' = [fdTable EXCEPT ![clients[i]] = Nobody]
      BY <1>9 DEF Cleanup
    <3>. QED BY <1>2, <3>1, <3>2 DEF TypeOK
  <2>. QED BY <1>2, <2>1, <2>2 DEF FdsAreOfPeers, FdsAreOwned
<1>10. ASSUME NEW i \in Slots,
              \/ TestFlag(i) \/ ReadMessage(i) \/ ReadEnds(i) \/ BeginBroadcast(i)
              \/ WriteToSlot(i) \/ EndBroadcast(i) \/ SigPipe(i)
       PROVE  FdsAgree'
  <2>1. UNCHANGED <<fdTable, newFd, clients, mainPc, peer>>
    BY <1>10 DEF TestFlag, ReadMessage, ReadEnds, BeginBroadcast, WriteToSlot, EndBroadcast,
                 SigPipe, net
  <2>2. pc' = pc \/ (Open(i) /\ \E place \in {"read", "close", "lock", "write", "test"} :
                        pc' = [pc EXCEPT ![i] = place])
    BY <1>10 DEF TestFlag, ReadMessage, ReadEnds, BeginBroadcast, WriteToSlot, EndBroadcast,
                 SigPipe, Becomes, Open
  <2>3. \A j \in Slots : Open(j)' => Open(j)
    BY <1>2, <2>2 DEF TypeOK, Open
  <2>. QED BY <1>3, <2>1, <2>3
<1>11. ASSUME NEW i \in Slots, CloseSocket(i) PROVE FdsAgree'
  <2>1. /\ clients[i] \in Fds /\ Open(i) /\ fdTable' = [fdTable EXCEPT ![clients[i]] = Nobody]
        /\ pc' = [pc EXCEPT ![i] = "unlist"]
        /\ UNCHANGED <<clients, newFd, mainPc, peer>>
    BY <1>2, <1>11 DEF CloseSocket, Becomes, Slotted, TypeOK, Open, net
  <2>2. FdsAreOfPeers'
    BY <1>2, <2>1 DEF FdsAreOfPeers, TypeOK
  <2>3. \A j \in Slots : Open(j)' <=> Open(j) /\ j # i
    BY <1>2, <2>1 DEF Open, TypeOK
  <2>4. FdsAreOwned'
    BY <1>2, <2>1, <2>3 DEF FdsAreOwned, TypeOK, Slotted
  <2>. QED BY <2>2, <2>4
<1>12. ASSUME NEW i \in Slots, Unlist(i) PROVE FdsAgree'
  <2>1. /\ clients' = [clients EXCEPT ![i] = NoFd] /\ pc' = [pc EXCEPT ![i] = "none"]
        /\ ~Open(i) /\ UNCHANGED <<fdTable, newFd, mainPc, peer>>
    BY <1>12 DEF Unlist, Becomes, Open, net
  <2>2. \A j \in Slots : (Open(j)' <=> Open(j)) /\ (Open(j) => clients'[j] = clients[j])
    BY <1>2, <2>1 DEF Open, TypeOK
  <2>. QED BY <1>2, <2>1, <2>2 DEF FdsAreOfPeers, FdsAreOwned
<1>13. CASE UNCHANGED vars
  BY <1>3, <1>13 DEF vars, server, net, Open
<1>. HIDE DEF FdsAgree
<1>. QED
  BY <1>1, <1>4, <1>5, <1>6, <1>7, <1>8, <1>9, <1>10, <1>11, <1>12, <1>13
     DEF Next, MainStep, ThreadStep

LEMMA HasMessageStep == Books /\ [Next]_vars => HasMessage'
<1>1. SUFFICES ASSUME Books, [Next]_vars PROVE HasMessage'
  OBVIOUS
<1>2. Types /\ TypeOK /\ HasMessage
  BY <1>1 DEF Books, Types
<1>3. ASSUME NEW i \in Slots, ReadMessage(i) PROVE HasMessage'
  <2>1. ConnOf(i) \in Conns /\ unread[ConnOf(i)] \in Seq(Message) /\ unread[ConnOf(i)] # <<>>
    BY <1>2, <1>3 DEF ReadMessage, ConnOf, Types, TypeOK
  <2>2. Head(unread[ConnOf(i)]) \in Message
    BY <2>1
  <2>. QED BY <1>2, <1>3, <2>2 DEF ReadMessage, Becomes, HasMessage, Pending, Types, TypeOK
<1>4. ASSUME msg' = msg, \A i \in Slots : Pending(i)' => Pending(i) PROVE HasMessage'
  BY <1>2, <1>4 DEF HasMessage
<1>5. ASSUME NEW i \in Slots,
             \/ TestFlag(i) \/ ReadEnds(i) \/ BeginBroadcast(i) \/ WriteToSlot(i)
             \/ EndBroadcast(i) \/ SigPipe(i) \/ CloseSocket(i) \/ Unlist(i)
      PROVE  HasMessage'
  <2>1. msg' = msg
    BY <1>5 DEF TestFlag, ReadEnds, BeginBroadcast, WriteToSlot, EndBroadcast, SigPipe,
                CloseSocket, Unlist
  <2>2. \A j \in Slots : Pending(j)' => Pending(j)
    BY <1>2, <1>5 DEF TestFlag, ReadEnds, BeginBroadcast, WriteToSlot, EndBroadcast, SigPipe,
                      CloseSocket, Unlist, Becomes, Pending, TypeOK
  <2>. QED BY <1>4, <2>1, <2>2
<1>6. CASE ListClient
  <2>1. FreeSlots # {}
    BY <1>6 DEF ListClient
  <2>2. Min(FreeSlots) \in Slots
    BY <2>1, FreeSlotIsFree DEF FreeSlots
  <2>3. \A j \in Slots : Pending(j)' => Pending(j)
    BY <1>2, <1>6, <2>2 DEF ListClient, Pending, TypeOK
  <2>. QED BY <1>4, <1>6, <2>3 DEF ListClient
<1>7. ASSUME \/ \E c \in Conns : Connect(c) \/ Send(c) \/ Leave(c) \/ Accept(c)
             \/ RefuseClient \/ CloseServer \/ LeaveLoop \/ Cleanup \/ UNCHANGED vars
      PROVE  HasMessage'
  <2>1. msg' = msg /\ pc' = pc
    BY <1>7 DEF Connect, Send, Leave, Accept, RefuseClient, CloseServer, LeaveLoop, Cleanup,
                vars, server
  <2>. QED BY <1>4, <2>1 DEF Pending
<1>. QED BY <1>1, <1>3, <1>5, <1>6, <1>7 DEF Next, MainStep, ThreadStep

LEMMA BooksInvariance == Spec => []Books
<1>1. Books /\ [Next]_vars => Books'
  BY TypesStep, SlottedStep, FdsStep, HasMessageStep DEF Books, FdsAgree
<1>. QED BY <1>1, InitBooks, PTL DEF Spec

\* server.c: until somebody is refused, clientsCount is the number of listed
\* clients, and those are the ones that have a thread.
THEOREM SpecCountIsListed == Spec => []CountIsListed
<1>1. Books => CountIsListed
  BY DEF Books, Slotted, CountIsListed
<1>. QED BY <1>1, BooksInvariance, PTL

\* server.c: until cleanup a slot's descriptor is open and nobody else's, except
\* between a thread's close and its leaving the list.
THEOREM SpecDescriptorsAreOwned == Spec => []DescriptorsAreOwned
<1>1. Books => DescriptorsAreOwned
  BY SlotsAre DEF Books, Types, TypeOK, Slotted, FdsAreOwned, Open, ConnOf, DescriptorsAreOwned
<1>. QED BY <1>1, BooksInvariance, PTL
-------------------------------------------------------------------------------
LEMMA AppendedSet ==
    ASSUME NEW S, NEW s \in Seq(S), NEW x \in S
    PROVE  /\ ToSet(Append(s, x)) = ToSet(s) \cup {x}
           /\ IsInjective(s) /\ x \notin ToSet(s) => IsInjective(Append(s, x))
<1>. DEFINE t == Append(s, x)
<1>1. /\ DOMAIN s = 1..Len(s) /\ DOMAIN t = 1..Len(s) + 1 /\ Len(s) \in Nat
      /\ t[Len(s) + 1] = x /\ \A k \in 1..Len(s) : t[k] = s[k]
  OBVIOUS
<1>. HIDE DEF t
<1>2. ToSet(t) = ToSet(s) \cup {x}
  BY <1>1 DEF ToSet
<1>3. IsInjective(s) /\ x \notin ToSet(s) => IsInjective(t)
  BY <1>1 DEF ToSet, IsInjective
<1>. QED BY <1>2, <1>3 DEF t

LEMMA TailSet ==
    ASSUME NEW S, NEW s \in Seq(S), s # <<>>, IsInjective(s)
    PROVE  /\ ToSet(s) = ToSet(Tail(s)) \cup {Head(s)} /\ Head(s) \notin ToSet(Tail(s))
           /\ IsInjective(Tail(s))
<1>. DEFINE t == Tail(s)
<1>1. /\ DOMAIN s = 1..Len(s) /\ DOMAIN t = 1..Len(s) - 1 /\ Len(s) \in Nat /\ Len(s) > 0
      /\ Head(s) = s[1] /\ \A k \in 1..Len(s) - 1 : t[k] = s[k + 1]
  OBVIOUS
<1>. HIDE DEF t
<1>2. ToSet(t) \subseteq ToSet(s)
  <2>1. \A k \in 1..Len(s) - 1 : k + 1 \in DOMAIN s
    BY <1>1
  <2>. QED BY <1>1, <2>1 DEF ToSet
<1>5. Head(s) \in ToSet(s)
  <2>1. 1 \in DOMAIN s
    BY <1>1
  <2>. QED BY <1>1, <2>1 DEF ToSet
<1>6. Head(s) \notin ToSet(t)
  <2>1. \A k \in 1..Len(s) - 1 : s[k + 1] # s[1]
    BY <1>1 DEF IsInjective
  <2>. QED BY <1>1, <2>1 DEF ToSet
<1>3. ASSUME NEW m \in ToSet(s), m # s[1] PROVE m \in ToSet(t)
  <2>1. PICK k \in 1..Len(s) : s[k] = m
    BY <1>1 DEF ToSet
  <2>2. k - 1 \in 1..Len(s) - 1 /\ t[k - 1] = m
    BY <1>1, <1>3, <2>1
  <2>. QED BY <1>1, <2>2 DEF ToSet
<1>4. IsInjective(t)
  BY <1>1 DEF IsInjective
<1>. QED BY <1>1, <1>2, <1>3, <1>4, <1>5, <1>6 DEF t

\* One broadcast at a time.
Mutexed == \A i \in Slots : pc[i] = "write" <=> mutex = i

\* A message that was sent is unread, or with one thread, or in the inboxes.
UnreadOnce == \A c \in Conns :
    /\ IsInjective(unread[c])
    /\ \A m \in ToSet(unread[c]) : m[1] = c /\ m[2] <= sent[c]
Taken(m) == m[2] <= sent[m[1]] /\ m \notin ToSet(unread[m[1]])
PendingOnce ==
    /\ \A i \in Slots : Pending(i) => Taken(msg[i])
    /\ \A i, j \in Slots : Pending(i) /\ Pending(j) /\ msg[i] = msg[j] => i = j
WrittenOnce == \A d \in Conns : \A m \in ToSet(inbox[d]) :
    Taken(m) /\ \A i \in Slots : pc[i] = "lock" => msg[i] # m

\* Nothing has been written behind the message that is being broadcast.
WrittenLast == \A i \in Slots : pc[i] = "write" => \A d \in Conns :
    \A k, l \in 1..Len(inbox[d]) : k < l /\ inbox[d][k] = msg[i] => inbox[d][l] = msg[i]

\* No two inboxes have two messages in opposite orders.
Ordered == \A c, d \in Conns : \A k, l \in 1..Len(inbox[c]), p, q \in 1..Len(inbox[d]) :
    k < l /\ p < q /\ inbox[c][k] # inbox[c][l] =>
        ~(inbox[d][p] = inbox[c][l] /\ inbox[d][q] = inbox[c][k])

Letters == Mutexed /\ UnreadOnce /\ PendingOnce /\ WrittenOnce /\ WrittenLast /\ Ordered

LEMMA InitLetters == Init => Letters
<1>1. SUFFICES ASSUME Init PROVE Letters
  OBVIOUS
<1>2. /\ \A c \in Conns : unread[c] = <<>> /\ inbox[c] = <<>>
      /\ \A i \in Slots : pc[i] = "none" /\ mutex # i
  BY <1>1, SlotsAre DEF Init
<1>3. ToSet(<<>>) = {} /\ IsInjective(<<>>) /\ Len(<<>>) = 0
  BY DEF ToSet, IsInjective
<1>. QED
  BY <1>2, <1>3 DEF Letters, Mutexed, UnreadOnce, PendingOnce, WrittenOnce, WrittenLast, Ordered, Pending

\* A step that touches no message and starts no broadcast.
LEMMA LettersKept ==
    ASSUME Letters, Mutexed', unread' = unread, inbox' = inbox, sent' = sent, msg' = msg,
           \A i \in Slots : Pending(i)' => Pending(i),
           \A i \in Slots : pc'[i] = "lock" => pc[i] = "lock",
           \A i \in Slots : pc'[i] = "write" => pc[i] = "write"
    PROVE  Letters'
<1>1. \A m : Taken(m)' <=> Taken(m)
  BY DEF Taken
<1>2. UnreadOnce'
  BY DEF Letters, UnreadOnce
<1>3. PendingOnce'
  BY <1>1 DEF Letters, PendingOnce
<1>4. WrittenOnce'
  BY <1>1 DEF Letters, WrittenOnce
<1>5. WrittenLast'
  BY DEF Letters, WrittenLast
<1>6. Ordered'
  BY DEF Letters, Ordered
<1>. QED BY <1>2, <1>3, <1>4, <1>5, <1>6 DEF Letters

\* What is in an inbox is a message.
LEMMA InboxHasMessages == Types => \A d \in Conns : \A m \in ToSet(inbox[d]) : m \in Message
<1>1. SUFFICES ASSUME Types, NEW d \in Conns, NEW m \in ToSet(inbox[d]) PROVE m \in Message
  OBVIOUS
<1>2. PICK s : s = inbox[d]
  OBVIOUS
<1>3. s \in Seq(Message) /\ m \in ToSet(s)
  BY <1>1, <1>2 DEF Types
<1>4. \A k \in DOMAIN s : s[k] \in Message
  BY <1>3
<1>. QED BY <1>3, <1>4 DEF ToSet

LEMMA SendLetters ==
    ASSUME Types, HasMessage, Letters, NEW c \in Conns, Send(c)
    PROVE  Letters'
<1>0. PICK x : x = <<c, sent[c] + 1>>
  OBVIOUS
<1>1. /\ sent' = [sent EXCEPT ![c] = sent[c] + 1]
      /\ sent[c] \in Nat /\ sent[c] + 1 \in 1..MaxSent /\ unread[c] \in Seq(Message)
      /\ pc' = pc /\ mutex' = mutex /\ msg' = msg /\ inbox' = inbox
  BY ChatAssumption DEF Send, server, Types
<1>2. /\ sent'[c] = sent[c] + 1
      /\ \A d \in Conns \ {c} : sent'[d] = sent[d]
  BY <1>1 DEF Types
<1>3. x \in Message /\ x[1] = c /\ x[2] = sent[c] + 1
  BY <1>0, <1>1 DEF Message
<1>4. unread' = [unread EXCEPT ![c] = Append(unread[c], x)]
  BY <1>0, <1>2 DEF Send
<1>5. unread'[c] = Append(unread[c], x) /\ \A d \in Conns \ {c} : unread'[d] = unread[d]
  BY <1>4 DEF Types
<1>6. \A m \in ToSet(unread[c]) : m[1] = c /\ m[2] <= sent[c]
  BY DEF Letters, UnreadOnce
<1>7. x \notin ToSet(unread[c])
  BY <1>1, <1>3, <1>6
<1>8. ToSet(unread'[c]) = ToSet(unread[c]) \cup {x} /\ IsInjective(unread'[c])
  BY <1>1, <1>3, <1>5, <1>7, AppendedSet DEF Letters, UnreadOnce
<1>9. UnreadOnce'
  <2>1. \A m \in ToSet(unread[c]) : m \in Message
    <3>1. PICK s : s = unread[c]
      OBVIOUS
    <3>2. s \in Seq(Message)
      BY <1>1, <3>1
    <3>3. \A k \in DOMAIN s : s[k] \in Message
      BY <3>2
    <3>. QED BY <3>1, <3>3 DEF ToSet
  <2>2. \A m \in ToSet(unread[c]) : m[2] \in Int
    BY <2>1 DEF Message
  <2>3. \A m \in ToSet(unread'[c]) : m[1] = c /\ m[2] <= sent'[c]
    BY <1>1, <1>2, <1>3, <1>6, <1>8, <2>2
  <2>. QED BY <1>2, <1>5, <1>8, <2>3 DEF Letters, UnreadOnce
<1>10. ASSUME NEW m \in Message, Taken(m) PROVE Taken(m)'
  <2>1. m[1] \in Conns /\ m[2] \in Int /\ m[2] <= sent[m[1]] /\ m \notin ToSet(unread[m[1]])
    BY <1>10 DEF Message, Taken
  <2>2. CASE m[1] = c
    <3>1. m # x
      BY <1>1, <1>3, <2>1, <2>2
    <3>. QED BY <1>1, <1>2, <1>8, <2>1, <2>2, <3>1 DEF Taken
  <2>3. CASE m[1] # c
    BY <1>2, <1>5, <2>1, <2>3 DEF Taken
  <2>. QED BY <2>2, <2>3
<1>11. \A i \in Slots : (Pending(i)' <=> Pending(i)) /\ (Pending(i) => msg[i] \in Message)
  BY <1>1 DEF Pending, HasMessage
<1>12. PendingOnce'
  BY <1>1, <1>10, <1>11 DEF Letters, PendingOnce
<1>13. WrittenOnce'
  BY <1>1, <1>10, InboxHasMessages DEF Letters, WrittenOnce
<1>14. Mutexed'
  BY <1>1 DEF Letters, Mutexed
<1>15. WrittenLast'
  BY <1>1 DEF Letters, WrittenLast
<1>16. Ordered'
  <2>1. inbox' = inbox
    BY <1>1
  <2>. QED BY <2>1 DEF Letters, Ordered
<1>. QED BY <1>9, <1>12, <1>13, <1>14, <1>15, <1>16 DEF Letters

LEMMA ReadLetters ==
    ASSUME Types, HasMessage, Letters, NEW i \in Slots, ReadMessage(i)
    PROVE  Letters'
<1>1. PICK c \in Conns : c = ConnOf(i) /\ unread[c] # <<>>
  BY DEF ReadMessage, ConnOf, Types, TypeOK
<1>2. PICK s \in Seq(Message) : s = unread[c]
  BY DEF Types
<1>3. PICK x \in Message : x = Head(s)
  BY <1>1, <1>2
<1>4. /\ pc[i] = "read" /\ pc' = [pc EXCEPT ![i] = "lock"] /\ msg' = [msg EXCEPT ![i] = x]
      /\ unread' = [unread EXCEPT ![c] = Tail(s)]
      /\ mutex' = mutex /\ sent' = sent /\ inbox' = inbox
  BY <1>1, <1>2, <1>3 DEF ReadMessage, Becomes
<1>5. unread'[c] = Tail(s) /\ \A d \in Conns \ {c} : unread'[d] = unread[d]
  BY <1>4 DEF Types
<1>6. /\ IsInjective(s) /\ s # <<>>
      /\ \A m \in ToSet(s) : m[1] = c /\ m[2] <= sent[c]
  BY <1>1, <1>2 DEF Letters, UnreadOnce
<1>7. /\ ToSet(s) = ToSet(unread'[c]) \cup {x} /\ x \notin ToSet(unread'[c])
      /\ IsInjective(unread'[c])
  BY <1>3, <1>5, <1>6, TailSet
<1>8. UnreadOnce'
  BY <1>4, <1>5, <1>6, <1>7 DEF Letters, UnreadOnce
<1>9. x[1] = c /\ x[2] <= sent[c] /\ x \in ToSet(unread[c])
  BY <1>2, <1>6, <1>7
<1>10. Taken(x)'
  BY <1>4, <1>7, <1>9 DEF Taken
<1>11. ASSUME NEW m \in Message, Taken(m) PROVE Taken(m)' /\ m # x
  <2>1. m[1] \in Conns /\ m[2] <= sent[m[1]] /\ m \notin ToSet(unread[m[1]])
    BY <1>11 DEF Message, Taken
  <2>2. m # x
    BY <1>9, <2>1
  <2>3. m \notin ToSet(unread'[m[1]])
    BY <1>2, <1>5, <1>7, <2>1
  <2>. QED BY <1>4, <2>1, <2>2, <2>3 DEF Taken
<1>12. /\ msg'[i] = x /\ pc'[i] = "lock" /\ ~Pending(i)
       /\ \A j \in Slots \ {i} : msg'[j] = msg[j] /\ pc'[j] = pc[j]
  BY <1>4 DEF Types, TypeOK, Pending
<1>13. \A j \in Slots \ {i} : Pending(j)' => Pending(j) /\ Taken(msg[j]) /\ msg[j] \in Message
  BY <1>12 DEF Letters, PendingOnce, Pending, HasMessage
<1>14. PendingOnce'
  <2>1. ASSUME NEW j \in Slots, Pending(j)' PROVE Taken(msg[j])'
    <3>1. PICK m : m = msg'[j]
      OBVIOUS
    <3>2. Taken(m)'
      <4>1. CASE j = i
        BY <1>10, <1>12, <3>1, <4>1
      <4>2. CASE j # i
        <5>1. m \in Message /\ Taken(m)
          BY <1>12, <1>13, <2>1, <3>1, <4>2
        <5>. QED BY <1>11, <5>1
      <4>. QED BY <4>1, <4>2
    <3>. QED BY <3>1, <3>2 DEF Taken
  <2>2. ASSUME NEW j \in Slots, NEW k \in Slots, Pending(j)', Pending(k)', msg'[j] = msg'[k]
        PROVE  j = k
    BY <1>11, <1>12, <1>13, <2>2 DEF Letters, PendingOnce
  <2>. QED BY <2>1, <2>2 DEF PendingOnce
<1>15. WrittenOnce'
  <2>1. ASSUME NEW d \in Conns, NEW m \in ToSet(inbox[d])
        PROVE  Taken(m)' /\ \A j \in Slots : pc'[j] = "lock" => msg'[j] # m
    <3>1. Taken(m) /\ m \in Message /\ \A j \in Slots : pc[j] = "lock" => msg[j] # m
      BY InboxHasMessages DEF Letters, WrittenOnce
    <3>. QED BY <1>11, <1>12, <3>1
  <2>. QED BY <1>4, <2>1 DEF WrittenOnce
<1>16. Mutexed'
  BY <1>4, <1>12 DEF Letters, Mutexed
<1>17. WrittenLast'
  BY <1>4, <1>12 DEF Letters, WrittenLast
<1>18. Ordered'
  BY <1>4 DEF Letters, Ordered
<1>. QED BY <1>8, <1>14, <1>15, <1>16, <1>17, <1>18 DEF Letters

LEMMA BeginLetters ==
    ASSUME Types, HasMessage, Letters, NEW i \in Slots, BeginBroadcast(i)
    PROVE  Letters'
<1>1. /\ pc[i] = "lock" /\ mutex = Nobody /\ mutex' = i /\ pc' = [pc EXCEPT ![i] = "write"]
      /\ unread' = unread /\ inbox' = inbox /\ sent' = sent /\ msg' = msg
  BY DEF BeginBroadcast, Becomes, net
<1>2. \A j \in Slots : pc[j] # "write"
  BY <1>1, SlotsAre DEF Letters, Mutexed
<1>3. pc'[i] = "write" /\ \A j \in Slots \ {i} : pc'[j] = pc[j]
  BY <1>1 DEF Types, TypeOK
<1>4. \A j \in Slots : Pending(j)' <=> Pending(j)
  BY <1>1, <1>3 DEF Pending
<1>5. \A m : Taken(m)' <=> Taken(m)
  BY <1>1 DEF Taken
<1>6. Mutexed'
  BY <1>1, <1>2, <1>3 DEF Mutexed
<1>7. WrittenLast'
  <2>1. \A d \in Conns : msg[i] \notin ToSet(inbox[d])
    BY <1>1 DEF Letters, WrittenOnce
  <2>2. \A d \in Conns : \A k \in 1..Len(inbox[d]) : inbox[d][k] # msg[i]
    <3>1. ASSUME NEW d \in Conns, NEW k \in 1..Len(inbox[d]) PROVE k \in DOMAIN inbox[d]
      BY DEF Types
    <3>. QED BY <2>1, <3>1 DEF ToSet
  <2>3. \A j \in Slots : pc'[j] = "write" => j = i
    BY <1>2, <1>3
  <2>. QED BY <1>1, <2>2, <2>3 DEF WrittenLast
<1>8. UnreadOnce'
  BY <1>1 DEF Letters, UnreadOnce
<1>9. PendingOnce'
  BY <1>1, <1>4, <1>5 DEF Letters, PendingOnce
<1>10. WrittenOnce'
  BY <1>1, <1>3, <1>5 DEF Letters, WrittenOnce
<1>11. Ordered'
  BY <1>1 DEF Letters, Ordered
<1>. QED BY <1>6, <1>7, <1>8, <1>9, <1>10, <1>11 DEF Letters

LEMMA WriteLetters ==
    ASSUME Types, HasMessage, Letters, NEW i \in Slots, WriteToSlot(i)
    PROVE  Letters'
<1>1. /\ pc[i] = "write" /\ msg[i] \in Message
      /\ pc' = pc /\ mutex' = mutex /\ unread' = unread /\ sent' = sent /\ msg' = msg
  BY DEF WriteToSlot, AtSlot, HasMessage, Pending
<1>2. Mutexed' /\ \A j \in Slots : Pending(j)' <=> Pending(j)
  BY <1>1 DEF Letters, Mutexed, Pending
<1>3. \A m : Taken(m)' <=> Taken(m)
  BY <1>1 DEF Taken
<1>4. CASE inbox' = inbox
  BY <1>1, <1>2, <1>4, LettersKept
<1>5. CASE inbox' # inbox
  <2>1. PICK x \in Message : x = msg[i]
    BY <1>1
  <2>2. PICK t \in Conns : inbox' = [inbox EXCEPT ![t] = Append(inbox[t], x)]
    BY <1>5, <2>1 DEF WriteToSlot, Target, ConnOf, Types, TypeOK, AtSlot
  <2>3. PICK s \in Seq(Message) : s = inbox[t]
    BY DEF Types
  <2>4. PICK n \in Nat : n = Len(s)
    BY <2>3
  <2>5. inbox'[t] = Append(s, x) /\ \A d \in Conns \ {t} : inbox'[d] = inbox[d]
    BY <2>2, <2>3 DEF Types
  <2>6. /\ Len(inbox'[t]) = n + 1 /\ inbox'[t][n + 1] = x
        /\ \A k \in 1..n : inbox'[t][k] = inbox[t][k]
    BY <2>1, <2>3, <2>4, <2>5
  <2>7. ToSet(inbox'[t]) = ToSet(inbox[t]) \cup {x}
    BY <2>1, <2>3, <2>5, AppendedSet
  <2>8. WrittenOnce'
    <3>1. Taken(x) /\ \A j \in Slots : pc[j] = "lock" => msg[j] # x
      BY <1>1, <2>1 DEF Letters, PendingOnce, Pending
    <3>2. ASSUME NEW d \in Conns, NEW m \in ToSet(inbox'[d])
          PROVE  Taken(m) /\ \A j \in Slots : pc[j] = "lock" => msg[j] # m
      <4>1. m = x \/ m \in ToSet(inbox[d])
        BY <2>5, <2>7, <3>2
      <4>. QED BY <3>1, <4>1 DEF Letters, WrittenOnce
    <3>. QED BY <1>1, <1>3, <3>2 DEF WrittenOnce
  <2>9. ASSUME NEW d \in Conns, NEW k \in 1..Len(inbox'[d]), inbox'[d][k] # x
        PROVE  k \in 1..Len(inbox[d]) /\ inbox[d][k] = inbox'[d][k]
    BY <2>3, <2>4, <2>5, <2>6, <2>9
  <2>10. ASSUME NEW d \in Conns, NEW k \in 1..Len(inbox'[d]), NEW l \in 1..Len(inbox'[d]),
                k < l, inbox'[d][l] # x
         PROVE  inbox'[d][k] # x
    <3>1. l \in 1..Len(inbox[d]) /\ inbox[d][l] = inbox'[d][l]
      BY <2>9, <2>10
    <3>2. Len(inbox[d]) \in Nat
      BY DEF Types
    <3>3. k \in 1..Len(inbox[d]) /\ inbox[d][k] = inbox'[d][k]
      <4>1. CASE d = t
        BY <2>3, <2>4, <2>6, <2>10, <3>1, <4>1
      <4>2. CASE d # t
        BY <2>5, <4>2
      <4>. QED BY <4>1, <4>2
    <3>4. inbox[d][k] = x => inbox[d][l] = x
      BY <1>1, <2>1, <2>10, <3>1, <3>3 DEF Letters, WrittenLast
    <3>. QED BY <2>10, <3>1, <3>3, <3>4
  <2>11. WrittenLast'
    <3>1. \A j \in Slots : pc'[j] = "write" => msg'[j] = x
      BY <1>1, <2>1 DEF Letters, Mutexed
    <3>. QED BY <2>10, <3>1 DEF WrittenLast
  <2>12. ASSUME NEW c \in Conns, NEW d \in Conns,
                NEW k \in 1..Len(inbox'[c]), NEW l \in 1..Len(inbox'[c]), k < l,
                NEW p \in 1..Len(inbox'[d]), NEW q \in 1..Len(inbox'[d]), p < q,
                inbox'[c][k] # inbox'[c][l],
                inbox'[d][p] = inbox'[c][l], inbox'[d][q] = inbox'[c][k]
         PROVE  FALSE
    \* x is neither of the two, for behind x there is only x.
    <3>1. inbox'[c][k] # x
      <4>1. inbox'[c][k] = x => inbox'[c][l] = x
        BY <2>10, <2>12
      <4>. QED BY <2>12, <4>1
    <3>2. inbox'[c][l] # x
      <4>1. inbox'[d][p] = x => inbox'[d][q] = x
        BY <2>10, <2>12
      <4>. QED BY <2>12, <4>1
    <3>3. /\ k \in 1..Len(inbox[c]) /\ inbox[c][k] = inbox'[c][k]
          /\ l \in 1..Len(inbox[c]) /\ inbox[c][l] = inbox'[c][l]
      BY <2>9, <3>1, <3>2
    <3>4. /\ p \in 1..Len(inbox[d]) /\ inbox[d][p] = inbox'[d][p]
          /\ q \in 1..Len(inbox[d]) /\ inbox[d][q] = inbox'[d][q]
      BY <2>9, <2>12, <3>1, <3>2
    <3>. QED BY <2>12, <3>3, <3>4 DEF Letters, Ordered
  <2>13. Ordered'
    BY <2>12 DEF Ordered
  <2>14. UnreadOnce'
    BY <1>1 DEF Letters, UnreadOnce
  <2>15. PendingOnce'
    BY <1>1, <1>2, <1>3 DEF Letters, PendingOnce
  <2>. QED BY <1>2, <2>8, <2>11, <2>13, <2>14, <2>15 DEF Letters
<1>. QED BY <1>4, <1>5

\* Everything else leaves the messages alone, and the mutex to its holder.
LEMMA OtherLetters ==
    ASSUME Types, Letters,
           \/ \E c \in Conns : Connect(c) \/ Leave(c) \/ Accept(c)
           \/ ListClient \/ RefuseClient \/ LeaveLoop \/ Cleanup \/ CloseServer
           \/ \E i \in Slots : \/ TestFlag(i) \/ ReadEnds(i) \/ EndBroadcast(i)
                               \/ CloseSocket(i) \/ Unlist(i) \/ SigPipe(i)
           \/ UNCHANGED vars
    PROVE  Letters'
<1>1. unread' = unread /\ inbox' = inbox /\ sent' = sent /\ msg' = msg
  BY DEF Connect, Leave, Accept, ListClient, RefuseClient, LeaveLoop, Cleanup, CloseServer,
         TestFlag, ReadEnds, EndBroadcast, CloseSocket, Unlist, SigPipe, vars, server, net
<1>2. \A j \in Slots : pc'[j] \in {"lock", "write"} => pc'[j] = pc[j]
  <2>1. CASE \/ \E c \in Conns : Connect(c) \/ Leave(c) \/ Accept(c)
             \/ RefuseClient \/ LeaveLoop \/ Cleanup \/ CloseServer \/ UNCHANGED vars
    BY <2>1 DEF Connect, Leave, Accept, RefuseClient, LeaveLoop, Cleanup, CloseServer, vars, server
  <2>2. CASE ListClient
    <3>1. Min(FreeSlots) \in Slots
      BY <2>2, FreeSlotIsFree DEF ListClient, FreeSlots
    <3>. QED BY <2>2, <3>1 DEF ListClient, Types, TypeOK
  <2>3. ASSUME NEW i \in Slots,
               \/ TestFlag(i) \/ ReadEnds(i) \/ EndBroadcast(i)
               \/ CloseSocket(i) \/ Unlist(i) \/ SigPipe(i)
        PROVE  \A j \in Slots : pc'[j] \in {"lock", "write"} => pc'[j] = pc[j]
    BY <2>3 DEF TestFlag, ReadEnds, EndBroadcast, CloseSocket, Unlist, SigPipe, Becomes,
                Types, TypeOK
  <2>. QED BY <2>1, <2>2, <2>3
<1>3. \A j \in Slots : Pending(j)' => Pending(j)
  BY <1>2 DEF Pending
<1>4. Mutexed'
  <2>1. CASE RefuseClient
    BY <2>1, SlotsAre DEF RefuseClient, Letters, Mutexed
  <2>2. ASSUME NEW i \in Slots, EndBroadcast(i) PROVE Mutexed'
    BY <2>2, SlotsAre DEF EndBroadcast, Becomes, Letters, Mutexed, Types, TypeOK
  <2>3. CASE ListClient
    <3>1. Min(FreeSlots) \in FreeSlots /\ mutex = Nobody /\ mutex' = Nobody
      BY <2>3, FreeSlotIsFree DEF ListClient
    <3>. QED BY <1>2, <3>1, SlotsAre DEF Letters, Mutexed
  <2>4. CASE \/ \E c \in Conns : Connect(c) \/ Leave(c) \/ Accept(c)
             \/ LeaveLoop \/ Cleanup \/ CloseServer \/ UNCHANGED vars
    BY <2>4 DEF Connect, Leave, Accept, LeaveLoop, Cleanup, CloseServer, vars, server,
                Letters, Mutexed
  <2>5. ASSUME NEW i \in Slots,
               TestFlag(i) \/ ReadEnds(i) \/ CloseSocket(i) \/ Unlist(i) \/ SigPipe(i)
        PROVE  Mutexed'
    BY <2>5 DEF TestFlag, ReadEnds, CloseSocket, Unlist, SigPipe, Becomes, Types, TypeOK,
                Letters, Mutexed
  <2>. QED BY <2>1, <2>2, <2>3, <2>4, <2>5
<1>. QED BY <1>1, <1>2, <1>3, <1>4, LettersKept

LEMMA LettersInvariance == Spec => []Letters
<1>1. Books /\ Letters /\ [Next]_vars => Letters'
  BY SendLetters, ReadLetters, BeginLetters, WriteLetters, OtherLetters
     DEF Books, Next, MainStep, ThreadStep
<1>. QED BY <1>1, InitLetters, BooksInvariance, PTL DEF Spec

\* server.c: the broadcasts' order is every client's order, for a client's
\* inbox is written under the mutex, and a message in one broadcast only.
THEOREM SpecOneOrder == Spec => []OneOrder
<1>1. ASSUME Types, Letters,
             NEW c \in Conns, NEW d \in Conns,
             NEW m \in ToSet(inbox[c]) \cap ToSet(inbox[d]),
             NEW n \in ToSet(inbox[c]) \cap ToSet(inbox[d]),
             Position(c, m) < Position(c, n)
      PROVE  Position(d, m) < Position(d, n)
  <2>1. /\ DOMAIN inbox[c] = 1..Len(inbox[c]) /\ Len(inbox[c]) \in Nat
        /\ DOMAIN inbox[d] = 1..Len(inbox[d]) /\ Len(inbox[d]) \in Nat
    BY <1>1 DEF Types
  <2>2. /\ Position(c, m) \in 1..Len(inbox[c]) /\ inbox[c][Position(c, m)] = m
        /\ Position(c, n) \in 1..Len(inbox[c]) /\ inbox[c][Position(c, n)] = n
    BY <1>1, <2>1 DEF Position, ToSet
  <2>3. /\ Position(d, m) \in 1..Len(inbox[d]) /\ inbox[d][Position(d, m)] = m
        /\ Position(d, n) \in 1..Len(inbox[d]) /\ inbox[d][Position(d, n)] = n
    BY <1>1, <2>1 DEF Position, ToSet
  <2>4. m # n
    BY <1>1, <2>1, <2>2
  <2>5. ~(Position(d, n) < Position(d, m))
    BY <1>1, <2>2, <2>3, <2>4 DEF Letters, Ordered
  <2>. QED BY <2>1, <2>3, <2>4, <2>5
<1>2. Books /\ Letters => OneOrder
  BY <1>1 DEF Books, OneOrder
<1>. QED BY <1>2, BooksInvariance, LettersInvariance, PTL
-------------------------------------------------------------------------------
Running == mainPc \in {"accept", "list"}

\* The slots a broadcast has come by have its message, if they listen.
Reached == \A i, j \in Slots :
    pc[i] = "write" /\ j < next[i] /\ Running /\ Listens(j) => msg[i] \in ToSet(inbox[ConnOf(j)])

\* A listening slot is an open descriptor, of a connection that is in.
LEMMA ListeningIsOpen ==
    ASSUME Books, Running, NEW j \in Slots, Listens(j)
    PROVE  /\ Open(j) /\ clients[j] \in Fds /\ ConnOf(j) = fdTable[clients[j]]
           /\ ConnOf(j) \in Conns /\ peer[ConnOf(j)] = "in"
           /\ \A k \in Slots : Open(k) /\ clients[k] = clients[j] => k = j
BY SlotsAre DEF Books, Types, TypeOK, Running, Listens, Open, FdsAreOwned, Slotted, ConnOf

\* A step that writes nothing, and opens no slot while there is a broadcast.
LEMMA ReachedKept ==
    ASSUME Reached, inbox' = inbox, Running' => Running,
           \A i \in Slots : pc'[i] = "write" =>
               pc[i] = "write" /\ next'[i] = next[i] /\ msg'[i] = msg[i],
           \A j \in Slots : Running' /\ Listens(j)' => Listens(j) /\ ConnOf(j)' = ConnOf(j)
    PROVE  Reached'
BY DEF Reached

LEMMA ReachedStep == Books /\ Letters /\ Reached /\ [Next]_vars => Reached'
<1>1. SUFFICES ASSUME Books, Letters, Reached, [Next]_vars PROVE Reached'
  OBVIOUS
<1>2. Types /\ TypeOK /\ Mutexed /\ FdsAreOfPeers /\ FdsAreOwned /\ Slotted
  BY <1>1 DEF Books, Types, Letters
<1>3. mutex = Nobody => \A i \in Slots : pc[i] # "write"
  BY <1>2, SlotsAre DEF Mutexed
<1>4. ASSUME NEW c \in Conns, Connect(c) \/ Send(c) \/ Leave(c) PROVE Reached'
  <2>1. UNCHANGED <<clients, fdTable, mainPc, pc, next, msg, inbox>>
    BY <1>4 DEF Connect, Send, Leave, server
  <2>2. \A d \in Conns : peer'[d] = "in" => peer[d] = "in"
    BY <1>2, <1>4 DEF Connect, Send, Leave, TypeOK
  <2>3. \A j \in Slots : ConnOf(j)' = ConnOf(j)
    BY <2>1 DEF ConnOf
  <2>4. ASSUME NEW j \in Slots, Running', Listens(j)' PROVE Listens(j)
    <3>1. pc[j] \notin {"none", "unlist"} /\ peer'[ConnOf(j)] = "in"
      BY <2>1, <2>3, <2>4 DEF Listens
    <3>2. ConnOf(j) \in Conns
      BY <1>2, <2>1, <2>4, <3>1 DEF Running, FdsAreOwned, Open, ConnOf, Slotted, TypeOK
    <3>. QED BY <2>2, <3>1, <3>2 DEF Listens
  <2>. QED BY <1>1, <2>1, <2>3, <2>4, ReachedKept DEF Running
<1>5. ASSUME NEW c \in Conns, Accept(c) PROVE Reached'
  <2>1. PICK fd \in Fds : fd = FreeFd /\ fdTable[fd] = Nobody
    BY <1>2, <1>5, FreeFdIsFree DEF Accept
  <2>2. /\ fdTable' = [fdTable EXCEPT ![fd] = c] /\ peer' = [peer EXCEPT ![c] = "in"]
        /\ peer[c] = "connecting" /\ mainPc = "accept"
        /\ UNCHANGED <<clients, pc, next, msg, inbox>>
    BY <1>5, <2>1 DEF Accept
  <2>3. ASSUME NEW j \in Slots, Listens(j)' PROVE Listens(j) /\ ConnOf(j)' = ConnOf(j)
    <3>1. pc[j] \notin {"none", "unlist"} /\ peer'[ConnOf(j)'] = "in"
      BY <2>2, <2>3 DEF Listens
    <3>2. clients[j] \in Fds /\ fdTable[clients[j]] # Nobody
      BY <1>2, <2>2, <3>1 DEF FdsAreOwned, Open, Slotted, TypeOK
    <3>3. ConnOf(j) = fdTable[clients[j]] /\ ConnOf(j)' = fdTable[clients[j]]
      BY <1>2, <2>1, <2>2, <3>2, SlotsAre DEF ConnOf, TypeOK
    <3>4. fdTable[clients[j]] # c /\ fdTable[clients[j]] \in Conns
      BY <1>2, <2>2, <3>2 DEF FdsAreOfPeers, TypeOK
    <3>5. peer[ConnOf(j)] = "in"
      BY <1>2, <2>2, <3>1, <3>3, <3>4 DEF TypeOK
    <3>. QED BY <3>1, <3>3, <3>5 DEF Listens
  <2>4. Running
    BY <2>2 DEF Running
  <2>. QED BY <1>1, <2>2, <2>3, <2>4, ReachedKept
<1>6. CASE ListClient
  <2>1. Min(FreeSlots) \in Slots /\ mutex = Nobody /\ pc' = [pc EXCEPT ![Min(FreeSlots)] = "test"]
    BY <1>6, FreeSlotIsFree DEF ListClient, FreeSlots
  <2>2. \A i \in Slots : pc'[i] # "write"
    BY <1>2, <1>3, <2>1 DEF TypeOK
  <2>. QED BY <2>2 DEF Reached
<1>7. CASE RefuseClient
  <2>1. \A i \in Slots : pc'[i] # "write"
    BY <1>3, <1>7 DEF RefuseClient
  <2>. QED BY <2>1 DEF Reached
<1>8. CASE LeaveLoop \/ Cleanup
  <2>1. ~Running'
    BY <1>8 DEF LeaveLoop, Cleanup, Running
  <2>. QED BY <2>1 DEF Reached
<1>9. CASE CloseServer \/ UNCHANGED vars
  <2>1. UNCHANGED <<clients, fdTable, mainPc, pc, next, msg, inbox, peer>>
    BY <1>9 DEF CloseServer, vars, server, net
  <2>. QED BY <1>1, <2>1, ReachedKept DEF Running, Listens, ConnOf
<1>10. ASSUME NEW k \in Slots,
              TestFlag(k) \/ ReadMessage(k) \/ ReadEnds(k) \/ EndBroadcast(k) \/ SigPipe(k)
       PROVE  Reached'
  <2>1. UNCHANGED <<clients, fdTable, mainPc, next, inbox, peer>>
    BY <1>10 DEF TestFlag, ReadMessage, ReadEnds, EndBroadcast, SigPipe, net
  <2>2. \A j \in Slots : /\ pc'[j] \notin {"none", "unlist"} => pc[j] \notin {"none", "unlist"}
                         /\ pc'[j] = "write" => pc[j] = "write" /\ msg'[j] = msg[j]
    BY <1>2, <1>10 DEF TestFlag, ReadMessage, ReadEnds, EndBroadcast, SigPipe, Becomes, TypeOK, Types
  <2>3. \A j \in Slots : Listens(j)' => Listens(j) /\ ConnOf(j)' = ConnOf(j)
    BY <2>1, <2>2 DEF Listens, ConnOf
  <2>. QED BY <1>1, <2>1, <2>2, <2>3, ReachedKept DEF Running
<1>11. ASSUME NEW k \in Slots, BeginBroadcast(k) PROVE Reached'
  <2>1. /\ mutex = Nobody /\ pc' = [pc EXCEPT ![k] = "write"] /\ next' = [next EXCEPT ![k] = 0]
    BY <1>11 DEF BeginBroadcast, Becomes
  <2>2. next'[k] = 0 /\ \A i \in Slots : pc'[i] = "write" => i = k
    BY <1>2, <1>3, <2>1 DEF Types, TypeOK
  <2>3. \A j \in Slots : ~(j < 0)
    BY SlotsAre
  <2>. QED BY <2>2, <2>3 DEF Reached
<1>12. ASSUME NEW k \in Slots, CloseSocket(k) PROVE Reached'
  <2>1. /\ clients[k] \in Fds /\ pc[k] = "close" /\ pc' = [pc EXCEPT ![k] = "unlist"]
        /\ fdTable' = [fdTable EXCEPT ![clients[k]] = Nobody]
        /\ UNCHANGED <<clients, mainPc, next, msg, inbox, peer>>
    BY <1>2, <1>12 DEF CloseSocket, Becomes, Slotted, TypeOK, net
  <2>2. \A j \in Slots : pc'[j] = IF j = k THEN "unlist" ELSE pc[j]
    BY <1>2, <2>1 DEF TypeOK
  <2>3. ASSUME NEW j \in Slots, Running', Listens(j)' PROVE Listens(j) /\ ConnOf(j)' = ConnOf(j)
    <3>1. j # k /\ pc[j] \notin {"none", "unlist"} /\ peer[ConnOf(j)'] = "in"
      BY <2>1, <2>2, <2>3 DEF Listens
    <3>2. clients[j] \in Fds /\ clients[j] # clients[k]
      BY <1>2, <2>1, <2>3, <3>1 DEF Running, FdsAreOwned, Open, Slotted, TypeOK
    <3>3. ConnOf(j)' = ConnOf(j)
      BY <1>2, <2>1, <3>2 DEF ConnOf, TypeOK
    <3>. QED BY <3>1, <3>3 DEF Listens
  <2>4. \A i \in Slots : pc'[i] = "write" => pc[i] = "write"
    BY <2>2
  <2>. QED BY <1>1, <2>1, <2>3, <2>4, ReachedKept DEF Running
<1>13. ASSUME NEW k \in Slots, Unlist(k) PROVE Reached'
  <2>1. \A i \in Slots : pc'[i] # "write"
    BY <1>2, <1>3, <1>13 DEF Unlist, Becomes, TypeOK
  <2>. QED BY <2>1 DEF Reached
<1>14. ASSUME NEW k \in Slots, WriteToSlot(k) PROVE Reached'
  <2>1. /\ pc[k] = "write" /\ next[k] \in Slots /\ next' = [next EXCEPT ![k] = next[k] + 1]
        /\ UNCHANGED <<clients, fdTable, mainPc, pc, msg, peer>> /\ msg[k] \in Message
    BY <1>1, <1>14 DEF WriteToSlot, AtSlot, Books, HasMessage, Pending
  <2>2. \A i \in Slots : pc'[i] = "write" => i = k
    BY <1>2, <2>1 DEF Mutexed
  <2>3. next'[k] = next[k] + 1 /\ next[k] \in Nat
    BY <1>2, <2>1 DEF Types
  <2>4. \A j \in Slots : Listens(j)' = Listens(j) /\ ConnOf(j)' = ConnOf(j)
    BY <2>1 DEF Listens, ConnOf
  <2>5. ASSUME NEW d \in Conns PROVE ToSet(inbox[d]) \subseteq ToSet(inbox'[d])
    <3>1. inbox[d] \in Seq(Message)
      BY <1>2 DEF Types
    <3>2. ToSet(Append(inbox[d], msg[k])) = ToSet(inbox[d]) \cup {msg[k]}
      BY <2>1, <3>1, AppendedSet
    <3>3. inbox'[d] = inbox[d] \/ inbox'[d] = Append(inbox[d], msg[k])
      BY <1>2, <1>14 DEF WriteToSlot, Types
    <3>. QED BY <3>2, <3>3
  <2>6. ASSUME NEW j \in Slots, j < next'[k], Running, Listens(j)
        PROVE  msg[k] \in ToSet(inbox'[ConnOf(j)])
    <3>1. ConnOf(j) \in Conns /\ peer[ConnOf(j)] = "in"
      BY <1>1, <2>6, ListeningIsOpen
    <3>2. CASE j < next[k]
      BY <1>1, <2>1, <2>5, <2>6, <3>1, <3>2 DEF Reached
    <3>3. CASE j = next[k]
      <4>1. PICK d \in Conns : d = ConnOf(j) /\ d = Target(k)
        BY <3>1, <3>3 DEF Target
      <4>2. inbox' = [inbox EXCEPT ![d] = Append(inbox[d], msg[k])]
        BY <1>14, <3>1, <4>1, SlotsAre DEF WriteToSlot
      <4>3. inbox[d] \in Seq(Message) /\ inbox'[d] = Append(inbox[d], msg[k])
        BY <1>2, <4>2 DEF Types
      <4>. QED BY <2>1, <4>1, <4>3, AppendedSet
    <3>. QED BY <2>3, <2>6, <3>2, <3>3, SlotsAre
  <2>7. Running' <=> Running
    BY <2>1 DEF Running
  <2>. QED BY <2>1, <2>2, <2>4, <2>6, <2>7 DEF Reached
<1>. QED
  BY <1>1, <1>4, <1>5, <1>6, <1>7, <1>8, <1>9, <1>10, <1>11, <1>12, <1>13, <1>14
     DEF Next, MainStep, ThreadStep

\* server.c, write_to_clients: a broadcast that comes to its end has written its
\* message to every client that is listed and still there, for nobody is listed
\* or takes itself off while the mutex is held.
THEOREM SpecBroadcastReachesAll == Spec => BroadcastReachesAll
<1>1. Init => Reached
  BY DEF Init, Reached
<1>2. Spec => [](Books /\ Letters /\ Reached)
  BY <1>1, ReachedStep, BooksInvariance, LettersInvariance, PTL DEF Spec
<1>3. Books /\ Reached => \A i \in Slots : EndBroadcast(i) =>
          \A j \in Slots : mainPc \in {"accept", "list"} /\ Listens(j)
              => Contains(inbox[ConnOf(j)], msg[i])
  <2>1. SUFFICES ASSUME Books, Reached, NEW i \in Slots, EndBroadcast(i),
                        NEW j \in Slots, Running, Listens(j)
                 PROVE  Contains(inbox[ConnOf(j)], msg[i])
    BY DEF Running
  <2>2. next[i] \in Nat /\ next[i] \notin Slots /\ pc[i] = "write"
    BY <2>1 DEF EndBroadcast, Books, Types
  <2>3. j < next[i]
    BY <2>2, ChatAssumption DEF Slots
  <2>4. msg[i] \in ToSet(inbox[ConnOf(j)])
    BY <2>1, <2>2, <2>3 DEF Reached
  <2>5. DOMAIN inbox[ConnOf(j)] = 1..Len(inbox[ConnOf(j)])
    BY <2>1, ListeningIsOpen DEF Books, Types
  <2>. QED BY <2>4, <2>5 DEF Contains, ToSet
<1>. QED BY <1>2, <1>3, PTL DEF BroadcastReachesAll
===============================================================================
