----------------------------- MODULE ChatServer ------------------------------
(***************************************************************************)
(* charming_chatroom/server.c: the main thread accepts connections and     *)
(* gives each a slot of clients[] and a thread; the threads read messages  *)
(* and broadcast them to every slot under one mutex.  The mutex is a       *)
(* variable, for one path returns to accept() without unlocking it, and so *)
(* is the process's descriptor table, for accept() hands out the lowest    *)
(* free number and a thread closes its descriptor before it takes itself   *)
(* off the list.                                                           *)
(*                                                                         *)
(* A message is read and written in one piece (read_all_from_socket and    *)
(* write_all_to_socket retry short counts).  SIGINT reaches the main       *)
(* thread, and SIGPIPE has its default effect: it kills the process.       *)
(***************************************************************************)
EXTENDS Integers, Sequences, SequencesExt, FiniteSets, FiniteSetsExt

CONSTANTS Conns,        \* the clients, each connecting at most once
          MaxClients,   \* MAX_CLIENTS
          MaxSent,      \* a bound: messages per client
          Nobody

ASSUME ChatAssumption ==
    /\ IsFiniteSet(Conns)
    /\ MaxClients \in Nat \ {0}
    /\ MaxSent \in Nat
    /\ Nobody \notin Conns \cup 0..MaxClients

Slots == 0..(MaxClients - 1)
Fds == 1..Cardinality(Conns)
NoFd == -1
Main == MaxClients    \* the main thread, beside the slots' threads

VARIABLES endSession, clientsCount, clients,   \* the server's statics
          mutex,      \* who holds it: Nobody, Main or a slot
          fdTable,    \* fdTable[fd]: the connection, or Nobody
          mainPc,     \* "accept", "list", "cleanup", "exited"
          newFd,      \* client_fd in run_server
          next,       \* the slot cleanup() or a broadcast has come to
          pc,         \* pc[i]: where slot i's thread is
          msg,        \* msg[i]: the message it has read
          up,         \* the process is alive
          peer,       \* peer[c]: "away", "connecting", "in", "left", "refused"
          sent,       \* sent[c]: how many messages c has sent
          unread,     \* unread[c]: those the server has not read
          inbox       \* inbox[c]: the messages the server has written to c
server == <<endSession, clientsCount, clients, mutex, fdTable, mainPc, newFd, next, pc, msg, up>>
net == <<peer, sent, unread, inbox>>
vars == <<server, net>>

Init ==
    /\ endSession = 0 /\ clientsCount = 0
    /\ clients = [i \in Slots |-> NoFd]
    /\ mutex = Nobody
    /\ fdTable = [fd \in Fds |-> Nobody]
    /\ mainPc = "accept" /\ newFd = NoFd
    /\ next = [t \in Slots \cup {Main} |-> 0]
    /\ pc = [i \in Slots |-> "none"]
    /\ msg = [i \in Slots |-> <<>>]
    /\ up = TRUE
    /\ peer = [c \in Conns |-> "away"]
    /\ sent = [c \in Conns |-> 0]
    /\ unread = [c \in Conns |-> <<>>]
    /\ inbox = [c \in Conns |-> <<>>]
------------------------------------------------------------------------------
(* The clients.                                                            *)
Connect(c) ==
    /\ peer[c] = "away"
    /\ peer' = [peer EXCEPT ![c] = "connecting"]
    /\ UNCHANGED <<server, sent, unread, inbox>>

Send(c) ==
    /\ peer[c] = "in" /\ sent[c] < MaxSent
    /\ sent' = [sent EXCEPT ![c] = @ + 1]
    /\ unread' = [unread EXCEPT ![c] = Append(@, <<c, sent'[c]>>)]
    /\ UNCHANGED <<server, peer, inbox>>

Leave(c) ==
    /\ peer[c] = "in"
    /\ peer' = [peer EXCEPT ![c] = "left"]
    /\ UNCHANGED <<server, sent, unread, inbox>>
------------------------------------------------------------------------------
(* The main thread.                                                        *)
FreeFd == Min({fd \in Fds : fdTable[fd] = Nobody})
FreeSlots == {i \in Slots : clients[i] = NoFd}

Accept(c) ==
    /\ up /\ mainPc = "accept" /\ endSession = 0
    /\ peer[c] = "connecting"
    /\ peer' = [peer EXCEPT ![c] = "in"]
    /\ fdTable' = [fdTable EXCEPT ![FreeFd] = c]
    /\ newFd' = FreeFd
    /\ mainPc' = "list"
    /\ UNCHANGED <<endSession, clientsCount, clients, mutex, next, pc, msg, up,
                   sent, unread, inbox>>

\* Lock, count, take the first free slot, start its thread, unlock.
ListClient ==
    /\ up /\ mainPc = "list" /\ mutex = Nobody
    /\ FreeSlots # {}
    /\ clientsCount' = clientsCount + 1
    /\ clients' = [clients EXCEPT ![Min(FreeSlots)] = newFd]
    /\ pc' = [pc EXCEPT ![Min(FreeSlots)] = "test"]
    /\ newFd' = NoFd
    /\ mainPc' = "accept"
    /\ UNCHANGED <<endSession, mutex, fdTable, next, msg, up, net>>

\* Nothing free: the new client is shut down, and `continue' goes back to accept
\* with the mutex locked and the client counted.
RefuseClient ==
    /\ up /\ mainPc = "list" /\ mutex = Nobody
    /\ FreeSlots = {}
    /\ mutex' = Main
    /\ clientsCount' = clientsCount + 1
    /\ peer' = [peer EXCEPT ![fdTable[newFd]] = "refused"]
    /\ fdTable' = [fdTable EXCEPT ![newFd] = Nobody]
    /\ newFd' = NoFd
    /\ mainPc' = "accept"
    /\ UNCHANGED <<endSession, clients, next, pc, msg, up, sent, unread, inbox>>

\* SIGINT sets the flag; if accept() is under way it fails with EINTR and
\* run_server calls exit(1).
CloseServer ==
    /\ up /\ endSession = 0
    /\ mainPc \in {"accept", "list"}
    /\ endSession' = 1
    /\ up' = (mainPc # "accept")
    /\ UNCHANGED <<clientsCount, clients, mutex, fdTable, mainPc, newFd, next, pc, msg, net>>

LeaveLoop ==
    /\ up /\ mainPc = "accept" /\ endSession = 1
    /\ mainPc' = "cleanup"
    /\ UNCHANGED <<endSession, clientsCount, clients, mutex, fdTable, newFd, next, pc, msg, up, net>>

\* cleanup() shuts down and closes slot after slot, without the mutex; then
\* pthread_exit leaves the other threads running.
Cleanup ==
    /\ up /\ mainPc = "cleanup"
    /\ \/ /\ next[Main] \in Slots
          /\ next' = [next EXCEPT ![Main] = @ + 1]
          /\ fdTable' = IF clients[next[Main]] = NoFd THEN fdTable
                        ELSE [fdTable EXCEPT ![clients[next[Main]]] = Nobody]
          /\ UNCHANGED mainPc
       \/ /\ next[Main] \notin Slots
          /\ mainPc' = "exited"
          /\ UNCHANGED <<next, fdTable>>
    /\ UNCHANGED <<endSession, clientsCount, clients, mutex, newFd, pc, msg, up, net>>
------------------------------------------------------------------------------
(* The thread of slot i.                                                   *)
ConnOf(i) == IF clients[i] = NoFd THEN Nobody ELSE fdTable[clients[i]]

Becomes(i, place) == pc' = [pc EXCEPT ![i] = place]

\* The loop's condition; a read that is under way does not see the flag.
TestFlag(i) ==
    /\ up /\ pc[i] = "test"
    /\ Becomes(i, IF endSession = 0 THEN "read" ELSE "close")
    /\ UNCHANGED <<endSession, clientsCount, clients, mutex, fdTable, mainPc, newFd, next, msg, up,
                   net>>

ReadMessage(i) ==
    /\ up /\ pc[i] = "read"
    /\ ConnOf(i) # Nobody
    /\ unread[ConnOf(i)] # <<>>
    /\ msg' = [msg EXCEPT ![i] = Head(unread[ConnOf(i)])]
    /\ unread' = [unread EXCEPT ![ConnOf(i)] = Tail(@)]
    /\ Becomes(i, "lock")
    /\ UNCHANGED <<endSession, clientsCount, clients, mutex, fdTable, mainPc, newFd, next, up,
                   peer, sent, inbox>>

\* An error on a descriptor cleanup() has closed, end of file, or the reset of a
\* client that has left, which discards what it had sent.
ReadEnds(i) ==
    /\ up /\ pc[i] = "read"
    /\ \/ ConnOf(i) = Nobody
       \/ ConnOf(i) # Nobody /\ peer[ConnOf(i)] = "left"
    /\ Becomes(i, "close")
    /\ UNCHANGED <<endSession, clientsCount, clients, mutex, fdTable, mainPc, newFd, next, msg, up,
                   net>>

BeginBroadcast_NoLock(i) ==
    /\ up /\ pc[i] = "lock"
    /\ mutex' = i
    /\ next' = [next EXCEPT ![i] = 0]
    /\ Becomes(i, "write")
    /\ UNCHANGED <<endSession, clientsCount, clients, fdTable, mainPc, newFd, msg, up, net>>

BeginBroadcast(i) ==
    /\ up /\ pc[i] = "lock" /\ mutex = Nobody
    /\ mutex' = i
    /\ next' = [next EXCEPT ![i] = 0]
    /\ Becomes(i, "write")
    /\ UNCHANGED <<endSession, clientsCount, clients, fdTable, mainPc, newFd, msg, up, net>>

AtSlot(i) == up /\ pc[i] = "write" /\ next[i] \in Slots
Target(i) == ConnOf(next[i])

WriteToSlot_SkipSelf(i) ==
    /\ AtSlot(i)
    /\ next' = [next EXCEPT ![i] = @ + 1]
    /\ inbox' = IF next[i] # i /\ Target(i) # Nobody /\ peer[Target(i)] = "in"
                THEN [inbox EXCEPT ![Target(i)] = Append(@, msg[i])]
                ELSE inbox
    /\ UNCHANGED <<endSession, clientsCount, clients, mutex, fdTable, mainPc, newFd, pc, msg, up,
                   peer, sent, unread>>

\* A listed client that is still there gets the message; an empty slot, a closed
\* descriptor and a client that has left get nothing.
WriteToSlot(i) ==
    /\ AtSlot(i)
    /\ next' = [next EXCEPT ![i] = @ + 1]
    /\ inbox' = IF Target(i) # Nobody /\ peer[Target(i)] = "in"
                THEN [inbox EXCEPT ![Target(i)] = Append(@, msg[i])]
                ELSE inbox
    /\ UNCHANGED <<endSession, clientsCount, clients, mutex, fdTable, mainPc, newFd, pc, msg, up,
                   peer, sent, unread>>

\* Writing to a client whose reset has come back raises SIGPIPE.
SigPipe(i) ==
    /\ AtSlot(i)
    /\ Target(i) # Nobody /\ peer[Target(i)] = "left"
    /\ up' = FALSE
    /\ UNCHANGED <<endSession, clientsCount, clients, mutex, fdTable, mainPc, newFd, next, pc, msg,
                   net>>

EndBroadcast(i) ==
    /\ up /\ pc[i] = "write" /\ next[i] \notin Slots
    /\ mutex' = Nobody
    /\ Becomes(i, "test")
    /\ UNCHANGED <<endSession, clientsCount, clients, fdTable, mainPc, newFd, next, msg, up, net>>

\* close() comes before the lock.
CloseSocket(i) ==
    /\ up /\ pc[i] = "close"
    /\ fdTable' = [fdTable EXCEPT ![clients[i]] = Nobody]
    /\ Becomes(i, "unlist")
    /\ UNCHANGED <<endSession, clientsCount, clients, mutex, mainPc, newFd, next, msg, up, net>>

Unlist_KeepsCount(i) ==
    /\ up /\ pc[i] = "unlist" /\ mutex = Nobody
    /\ clients' = [clients EXCEPT ![i] = NoFd]
    /\ clientsCount' = clientsCount
    /\ Becomes(i, "none")
    /\ UNCHANGED <<endSession, mutex, fdTable, mainPc, newFd, next, msg, up, net>>

Unlist_KeepsSlot(i) ==
    /\ up /\ pc[i] = "unlist" /\ mutex = Nobody
    /\ clients' = clients
    /\ clientsCount' = clientsCount - 1
    /\ Becomes(i, "none")
    /\ UNCHANGED <<endSession, mutex, fdTable, mainPc, newFd, next, msg, up, net>>

Unlist(i) ==
    /\ up /\ pc[i] = "unlist" /\ mutex = Nobody
    /\ clients' = [clients EXCEPT ![i] = NoFd]
    /\ clientsCount' = clientsCount - 1
    /\ Becomes(i, "none")
    /\ UNCHANGED <<endSession, mutex, fdTable, mainPc, newFd, next, msg, up, net>>

ThreadStep(i) ==
    \/ TestFlag(i) \/ ReadMessage(i) \/ ReadEnds(i)
    \/ BeginBroadcast(i) \/ WriteToSlot(i) \/ EndBroadcast(i)
    \/ CloseSocket(i) \/ Unlist(i)

MainStep ==
    \/ \E c \in Conns : Accept(c)
    \/ ListClient \/ RefuseClient \/ LeaveLoop \/ Cleanup

Next ==
    \/ \E c \in Conns : Connect(c) \/ Send(c) \/ Leave(c)
    \/ MainStep
    \/ CloseServer
    \/ \E i \in Slots : ThreadStep(i) \/ SigPipe(i)

Spec == Init /\ [][Next]_vars

\* The threads are scheduled, and the mutex passes to whoever keeps asking.
FairSpec ==
    /\ Spec
    /\ WF_vars(\E c \in Conns : Accept(c))
    /\ SF_vars(ListClient) /\ SF_vars(RefuseClient) /\ WF_vars(LeaveLoop) /\ WF_vars(Cleanup)
    /\ \A i \in Slots :
        /\ WF_vars(TestFlag(i)) /\ WF_vars(ReadMessage(i) \/ ReadEnds(i))
        /\ SF_vars(BeginBroadcast(i))
        /\ WF_vars(WriteToSlot(i) \/ EndBroadcast(i))
        /\ WF_vars(CloseSocket(i))
        /\ SF_vars(Unlist(i))
------------------------------------------------------------------------------
Message == Conns \X (1..MaxSent)

TypeOK ==
    /\ endSession \in {0, 1} /\ clientsCount \in Nat
    /\ clients \in [Slots -> Fds \cup {NoFd}]
    /\ mutex \in {Nobody, Main} \cup Slots
    /\ fdTable \in [Fds -> Conns \cup {Nobody}]
    /\ mainPc \in {"accept", "list", "cleanup", "exited"} /\ newFd \in Fds \cup {NoFd}
    /\ pc \in [Slots -> {"none", "test", "read", "lock", "write", "close", "unlist"}]
    /\ up \in BOOLEAN
    /\ peer \in [Conns -> {"away", "connecting", "in", "left", "refused"}]
    /\ \A c \in Conns : unread[c] \in Seq(Message) /\ inbox[c] \in Seq(Message)

\* clientsCount is the number of listed clients, and a listed client has a
\* thread, while nobody has been refused.
CountIsListed == (\A c \in Conns : peer[c] # "refused") =>
    /\ clientsCount = Cardinality(Slots \ FreeSlots)
    /\ \A i \in Slots : clients[i] # NoFd <=> pc[i] # "none"

\* While the server runs, a slot's descriptor is open and is nobody else's,
\* except between a thread's close and its leaving the list.
DescriptorsAreOwned ==
    /\ TypeOK
    /\ mainPc \in {"accept", "list"} => \A i, j \in Slots :
           i # j /\ pc[i] \notin {"none", "unlist"} =>
               ConnOf(i) # Nobody /\ (pc[j] # "unlist" => clients[j] # clients[i])

Position(c, m) == CHOOSE k \in DOMAIN inbox[c] : inbox[c][k] = m

\* All clients see the messages they both get in one order, whoever sends them.
OneOrder == \A c, d \in Conns : \A m, n \in ToSet(inbox[c]) \cap ToSet(inbox[d]) :
    Position(c, m) < Position(c, n) => Position(d, m) < Position(d, n)

\* Slot j is of a client that is there and whose thread has not closed it.
Listens(j) == pc[j] \notin {"none", "unlist"} /\ peer[ConnOf(j)] = "in"

\* A broadcast that ends has reached every client that is listed and still
\* there, the sender and those that came in while it waited for the mutex too.
BroadcastReachesAll == [][\A i \in Slots : EndBroadcast(i) =>
    \A j \in Slots : mainPc \in {"accept", "list"} /\ Listens(j)
        => Contains(inbox[ConnOf(j)], msg[i])]_vars

\* server.c:64 "If more than MAX_CLIENTS clients attempts to connects, simply
\* shuts down the new client and continues accepting."
ContinuesAccepting == \A c \in Conns :
    peer[c] = "connecting" ~>
        \/ peer[c] \in {"left", "refused"} \/ \E i \in Slots : ConnOf(i) = c
        \/ endSession = 1 \/ ~up
==============================================================================
