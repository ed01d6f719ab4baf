---------------------------- MODULE NonstopServer ----------------------------
(***************************************************************************)
(* nonstop_networking/server.c: one thread serves every client from an     *)
(* epoll loop.  A connection is handled in two or three events: its header *)
(* (with the whole body of a PUT, read with blocking calls), its answer,   *)
(* and, when the request failed, the error message.  Files live in a       *)
(* temporary directory, with a list of their names and a table of their    *)
(* sizes beside it.                                                        *)
(*                                                                         *)
(* A client (client.c, or any program that speaks the protocol) sends its  *)
(* header, the size and the body of a PUT, and then hangs up its side; it  *)
(* may also exit after any of these.  A header arrives in one piece.  The  *)
(* contents of a file are named by the client that sent it; distinct       *)
(* contents have distinct sizes.                                           *)
(***************************************************************************)
EXTENDS Integers, Sequences, SequencesExt

CONSTANTS Clients,     \* each makes one request
          Names,       \* the remote file names
          Workloads,   \* what the clients may ask for, all together
          Unopenable,  \* the names fopen(.., "w") refuses
          Empty,       \* the contents of a file of size 0
          Garbled,     \* bytes that are no client's file
          None

Requests(c) ==
    [verb : {"PUT"}, name : Names, file : {c, Empty}]
      \cup [verb : {"GET", "DELETE"}, name : Names, file : {None}]
      \cup [verb : {"LIST", "OTHER", "LONG"}, name : {None}, file : {None}]

ASSUME NonstopAssumption ==
    /\ Unopenable \subseteq Names
    /\ Empty \notin Clients /\ Garbled \notin Clients \cup {Empty}
    /\ None \notin Clients \cup {Empty, Garbled}
    /\ \A w \in Workloads : DOMAIN w = Clients /\ \A c \in Clients : w[c] \in Requests(c)

VARIABLES
    up,         \* the server runs
    busy,       \* the client read_body is waiting for, or None
    overwrite,  \* overwrite_f # NULL in that call
    disk,       \* disk[f]: the contents of dir_name/f, or None
    fileList,   \* file_list
    fileSize,   \* file_size[f]: the contents whose size it holds, or None
    conn,       \* conn[c]: "none", "open" (in clients_dict) or "closed"
    state,      \* state[c]: info->state
    stage,      \* stage[c]: how far c has come in sending its request
    request,    \* request[c]: what c asks for
    hungUp,     \* hungUp[c]: c sends no more (shutdown, or it exited)
    answer,     \* answer[c]: what the server has written to c
    accepted,   \* history: accepted[f] is the last body accepted for f
    refused     \* history: the names with a body refused since their last DELETE
server == <<up, busy, overwrite, disk, fileList, fileSize, conn, state>>
client == <<stage, request, hungUp>>
vars == <<server, client, answer, accepted, refused>>

Contents == Clients \cup {Empty, Garbled}

Init ==
    /\ up = TRUE /\ busy = None /\ overwrite = FALSE
    /\ disk = [f \in Names |-> None]
    /\ fileList = <<>>
    /\ fileSize = [f \in Names |-> None]
    /\ conn = [c \in Clients |-> "none"]
    /\ state = [c \in Clients |-> 0]
    /\ stage = [c \in Clients |-> "off"]
    /\ request \in Workloads
    /\ hungUp = [c \in Clients |-> FALSE]
    /\ answer = [c \in Clients |-> [lines |-> <<>>, body |-> None]]
    /\ accepted = [f \in Names |-> None]
    /\ refused = {}

-----------------------------------------------------------------------------
(* The client, as long as the server runs. *)

Verb(c) == request[c].verb
Name(c) == request[c].name
File(c) == request[c].file

Connect(c) ==
    /\ up /\ stage[c] = "off"
    /\ stage' = [stage EXCEPT ![c] = "open"]
    /\ UNCHANGED <<server, request, hungUp, answer, accepted, refused>>

SendHeader(c) ==
    /\ up /\ stage[c] = "open" /\ ~hungUp[c]
    /\ stage' = [stage EXCEPT ![c] = "header"]
    /\ UNCHANGED <<server, request, hungUp, answer, accepted, refused>>

\* how far a PUT may come after its header; only "whole", or "size" for an
\* empty file, is all of it, and only a foreign client sends more
Reached(c) == IF stage[c] = "open" THEN {"open"}
              ELSE {"header", "size", "extra"} \cup IF File(c) = Empty THEN {} ELSE {"part", "whole"}

\* shutdown(SHUT_WR) when all is sent, or exit, before the header or in the body
\* of a PUT: at other points the server does not look.  What precedes the end of
\* a body shows nowhere: read_from_socket returns short only at the stream's end.
HangUp(c) ==
    /\ up /\ ~hungUp[c]
    /\ stage[c] = "open" \/ (stage[c] = "header" /\ Verb(c) = "PUT")
    /\ \E s \in Reached(c) : stage' = [stage EXCEPT ![c] = s]
    /\ hungUp' = [hungUp EXCEPT ![c] = TRUE]
    /\ UNCHANGED <<server, request, answer, accepted, refused>>

\* the body that has arrived is as long as the size says
Complete(c) == stage[c] = "whole" \/ (stage[c] = "size" /\ File(c) = Empty)

-----------------------------------------------------------------------------
(* The server's events. *)

Idle == up /\ busy = None
Moves(c, s) == state' = [state EXCEPT ![c] = s]
Writes(c, ls) == answer' = [answer EXCEPT ![c].lines = @ \o ls]
CleanClient(c) == conn' = [conn EXCEPT ![c] = "closed"]

Accept(c) ==
    /\ Idle /\ stage[c] # "off" /\ conn[c] = "none"
    /\ conn' = [conn EXCEPT ![c] = "open"]
    /\ Moves(c, 0)
    /\ UNCHANGED <<up, busy, overwrite, disk, fileList, fileSize, client, answer, accepted, refused>>

\* EPOLLIN: there is a header to read, or the end of the stream
HeaderReady(c) ==
    /\ Idle /\ conn[c] = "open" /\ state[c] = 0
    /\ stage[c] # "open" \/ hungUp[c]

ReadBadHeader(c) ==
    /\ HeaderReady(c)
    /\ stage[c] = "open" \/ Verb(c) \in {"OTHER", "LONG"}
    /\ Moves(c, -1)
    /\ IF stage[c] # "open" /\ Verb(c) = "LONG" THEN UNCHANGED answer ELSE Writes(c, <<"Bad request">>)
    /\ UNCHANGED <<up, busy, overwrite, disk, fileList, fileSize, conn, client, accepted, refused>>

ReadHeader(c) ==
    /\ HeaderReady(c)
    /\ stage[c] # "open" /\ Verb(c) \in {"GET", "DELETE", "LIST"}
    /\ Moves(c, 1)
    /\ UNCHANGED <<up, busy, overwrite, disk, fileList, fileSize, conn, client, answer, accepted, refused>>

\* read_body as far as its first read: fopen(path, "w") empties the file
StartPut(c) ==
    /\ HeaderReady(c)
    /\ stage[c] # "open" /\ Verb(c) = "PUT"
    /\ Name(c) \notin Unopenable
    /\ busy' = c
    /\ overwrite' = (disk[Name(c)] # None)
    /\ disk' = [disk EXCEPT ![Name(c)] = Empty]
    /\ UNCHANGED <<up, fileList, fileSize, conn, state, client, answer, accepted, refused>>

PutCannotOpen(c) ==
    /\ HeaderReady(c)
    /\ stage[c] # "open" /\ Verb(c) = "PUT"
    /\ Name(c) \in Unopenable
    /\ Moves(c, -2)
    /\ UNCHANGED <<up, busy, overwrite, disk, fileList, fileSize, conn, client, answer, accepted, refused>>

\* the end of the stream, or five bytes too many: the loop of read_body is over
BodyEnds(c) == up /\ busy = c /\ hungUp[c]

StoreBody_AlwaysLists(c, contents) ==
    /\ busy' = None
    /\ disk' = [disk EXCEPT ![Name(c)] = contents]
    /\ fileSize' = [fileSize EXCEPT ![Name(c)] = contents]
    /\ fileList' = Append(fileList, Name(c))
    /\ Moves(c, 1)
    /\ accepted' = [accepted EXCEPT ![Name(c)] = contents]
    /\ UNCHANGED <<up, overwrite, conn, client, answer, refused>>

StoreBody_KeepsOldSize(c, contents) ==
    /\ busy' = None
    /\ disk' = [disk EXCEPT ![Name(c)] = contents]
    /\ fileSize' = [fileSize EXCEPT ![Name(c)] = IF overwrite /\ @ # None THEN @ ELSE contents]
    /\ fileList' = IF overwrite THEN fileList ELSE Append(fileList, Name(c))
    /\ Moves(c, 1)
    /\ accepted' = [accepted EXCEPT ![Name(c)] = contents]
    /\ UNCHANGED <<up, overwrite, conn, client, answer, refused>>

StoreBody(c, contents) ==
    /\ busy' = None
    /\ disk' = [disk EXCEPT ![Name(c)] = contents]
    /\ fileSize' = [fileSize EXCEPT ![Name(c)] = contents]
    /\ fileList' = IF overwrite THEN fileList ELSE Append(fileList, Name(c))
    /\ Moves(c, 1)
    /\ accepted' = [accepted EXCEPT ![Name(c)] = contents]
    /\ UNCHANGED <<up, overwrite, conn, client, answer, refused>>

BodyAccepted_TooLong(c) ==
    /\ BodyEnds(c)
    /\ Complete(c) \/ stage[c] = "extra"
    /\ StoreBody(c, File(c))

\* with no size read, the uninitialized size may be 0 and the file is stored empty
BodyAccepted(c) ==
    /\ BodyEnds(c)
    /\ \/ Complete(c) /\ StoreBody(c, File(c))
       \/ stage[c] = "header" /\ StoreBody(c, Empty)

\* remove(dir_name) fails, for the directory is not empty: what was read stays
BodyRefused(c) ==
    /\ BodyEnds(c) /\ ~Complete(c)
    /\ busy' = None
    /\ disk' = [disk EXCEPT ![Name(c)] = IF stage[c] \in {"part", "extra"} THEN Garbled ELSE Empty]
    /\ Moves(c, -2)
    /\ refused' = refused \cup {Name(c)}
    /\ UNCHANGED <<up, overwrite, fileList, fileSize, conn, client, answer, accepted>>

\* EPOLLOUT in state 1: process_request
Asked(c, verb) == Idle /\ conn[c] = "open" /\ state[c] = 1 /\ Verb(c) = verb

NotFound_StateKept(c) ==
    UNCHANGED <<up, busy, overwrite, fileList, fileSize, conn, state, client, answer>>

NotFound(c) ==
    /\ Moves(c, -3)
    /\ UNCHANGED <<up, busy, overwrite, fileList, fileSize, conn, client, answer>>

\* as many bytes of the file as file_size says
Returned(f) == CASE fileSize[f] = Empty -> Empty
                 [] fileSize[f] # Empty /\ disk[f] = fileSize[f] -> disk[f]
                 [] OTHER -> Garbled

GetMissing(c) ==
    /\ Asked(c, "GET") /\ disk[Name(c)] = None
    /\ NotFound(c)
    /\ UNCHANGED <<disk, accepted, refused>>

GetFile(c) ==
    /\ Asked(c, "GET") /\ disk[Name(c)] # None /\ fileSize[Name(c)] # None
    /\ answer' = [answer EXCEPT ![c] = [lines |-> @.lines \o <<"OK">>, body |-> Returned(Name(c))]]
    /\ CleanClient(c)
    /\ UNCHANGED <<up, busy, overwrite, disk, fileList, fileSize, state, client, accepted, refused>>

\* dictionary_get finds nothing and its result is dereferenced
GetUnsized(c) ==
    /\ Asked(c, "GET") /\ disk[Name(c)] # None /\ fileSize[Name(c)] = None
    /\ Writes(c, <<"OK">>)
    /\ up' = FALSE
    /\ UNCHANGED <<busy, overwrite, disk, fileList, fileSize, conn, state, client, accepted, refused>>

PutDone(c) ==
    /\ Asked(c, "PUT")
    /\ Writes(c, <<"OK">>)
    /\ CleanClient(c)
    /\ UNCHANGED <<up, busy, overwrite, disk, fileList, fileSize, state, client, accepted, refused>>

DeleteMissing(c) ==
    /\ Asked(c, "DELETE") /\ disk[Name(c)] = None
    /\ NotFound(c)
    /\ UNCHANGED <<disk, accepted, refused>>

Removed(c) ==
    /\ disk[Name(c)] # None
    /\ disk' = [disk EXCEPT ![Name(c)] = None]
    /\ accepted' = [accepted EXCEPT ![Name(c)] = None]
    /\ refused' = refused \ {Name(c)}

DeleteUnlisted(c) ==
    /\ Asked(c, "DELETE") /\ Removed(c)
    /\ ~Contains(fileList, Name(c))
    /\ NotFound(c)

\* vector_erase at the first index that holds the name
DeleteFile(c) ==
    /\ Asked(c, "DELETE") /\ Removed(c)
    /\ Contains(fileList, Name(c))
    /\ fileList' = RemoveFirst(fileList, Name(c))
    /\ fileSize' = [fileSize EXCEPT ![Name(c)] = None]
    /\ Writes(c, <<"OK">>)
    /\ CleanClient(c)
    /\ UNCHANGED <<up, busy, overwrite, state, client>>

List(c) ==
    /\ Asked(c, "LIST")
    /\ answer' = [answer EXCEPT ![c] = [lines |-> @.lines \o <<"OK">>, body |-> fileList]]
    /\ CleanClient(c)
    /\ UNCHANGED <<up, busy, overwrite, disk, fileList, fileSize, state, client, accepted, refused>>

\* EPOLLOUT in a negative state
Message(s) == CASE s = -1 -> "Bad request"
                [] s = -2 -> "Bad file size"
                [] s = -3 -> "No such file"
AnswerError(c) ==
    /\ Idle /\ conn[c] = "open" /\ state[c] < 0
    /\ Writes(c, <<"ERROR", Message(state[c])>>)
    /\ CleanClient(c)
    /\ UNCHANGED <<up, busy, overwrite, disk, fileList, fileSize, state, client, accepted, refused>>

\* SIGINT: everything is freed and closed; remove(dir_name) fails while there are
\* files in it
CloseServer ==
    /\ up
    /\ up' = FALSE /\ busy' = None /\ overwrite' = FALSE
    /\ fileList' = <<>> /\ fileSize' = [f \in Names |-> None]
    /\ conn' = [c \in Clients |-> "closed"] /\ state' = [c \in Clients |-> 0]
    /\ UNCHANGED <<disk, client, answer, accepted, refused>>

ProcessRequest(c) ==
    \/ GetMissing(c) \/ GetFile(c) \/ GetUnsized(c) \/ PutDone(c)
    \/ DeleteMissing(c) \/ DeleteUnlisted(c) \/ DeleteFile(c) \/ List(c)
ProcessClient(c) ==
    \/ ReadBadHeader(c) \/ ReadHeader(c) \/ StartPut(c) \/ PutCannotOpen(c)
    \/ BodyAccepted(c) \/ BodyRefused(c)
    \/ ProcessRequest(c) \/ AnswerError(c)
SendsOn(c) == SendHeader(c) \/ HangUp(c)

Next == (\E c \in Clients : Accept(c) \/ ProcessClient(c) \/ Connect(c) \/ SendsOn(c)) \/ CloseServer
Spec == Init /\ [][Next]_vars

\* every ready descriptor is in the next epoll_wait; a client that has
\* connected sends on or exits
FairSpec ==
    /\ Spec
    /\ \A c \in Clients : WF_vars(Accept(c)) /\ WF_vars(ProcessClient(c)) /\ WF_vars(SendsOn(c))

-----------------------------------------------------------------------------
(* Properties. *)

TypeOK ==
    /\ up \in BOOLEAN /\ overwrite \in BOOLEAN
    /\ busy \in Clients \cup {None}
    /\ disk \in [Names -> Contents \cup {None}]
    /\ fileList \in Seq(Names)
    /\ fileSize \in [Names -> Clients \cup {Empty, None}]
    /\ conn \in [Clients -> {"none", "open", "closed"}]
    /\ state \in [Clients -> -3..1]
    /\ stage \in [Clients -> {"off", "open", "header", "size", "part",
                         "whole", "extra"}]
    /\ request \in Workloads
    /\ hungUp \in [Clients -> BOOLEAN]
    /\ accepted \in [Names -> Clients \cup {Empty, None}]
    /\ refused \subseteq Names

BeingPut(f) == busy # None /\ Name(busy) = f

\* The list, the size table and the directory agree: between PUTs, a file is
\* stored, listed and sized exactly when a body has been accepted for it and it
\* has not been deleted since, unless a body for it has been refused and no
\* DELETE has cleared it up.  Even then the list names only files that exist and have a size, each once
\* (server.c:206-210, 269-274).
CatalogueAgrees == TypeOK /\ (up =>
    /\ \A f \in Names \ refused : ~BeingPut(f) =>
          /\ disk[f] = accepted[f]
          /\ Contains(fileList, f) <=> accepted[f] # None
          /\ accepted[f] # None => fileSize[f] = accepted[f]
    /\ \A i \in DOMAIN fileList : disk[fileList[i]] # None /\ fileSize[fileList[i]] # None
    /\ IsInjective(fileList))

\* What a client is told of its PUT is true of the bytes it sent: OK only for a
\* body of the size it gave, "Bad file size" only for another (server.c:256-268).
\* A client that exits before it sends the size may be told either.
PutAnswersAreTrue ==
    \A c \in Clients : up /\ conn[c] = "closed" /\ Verb(c) = "PUT" /\ stage[c] \notin {"open", "header"} =>
        \/ answer[c].lines = <<"OK">> /\ Complete(c)
        \/ answer[c].lines = <<"ERROR", "Bad file size">> /\ (~Complete(c) \/ Name(c) \in Unopenable)

\* A GET is answered with the last body accepted for the file at that moment,
\* whole, unless one has been refused since its last DELETE (server.c:172-183).
GetsAreExact ==
    [][\A c \in Clients : GetFile(c) /\ Name(c) \notin refused =>
          answer'[c].body = accepted[Name(c)]]_vars

\* Everyone who connects is answered in the end while the server runs: no
\* request is forgotten between its events, and a slow PUT only delays the
\* others (server.c:136-153).
EveryoneIsAnswered ==
    \A c \in Clients : stage[c] # "off" ~> (conn[c] = "closed" /\ answer[c].lines # <<>>) \/ ~up

\* err_no_such_file is for "a client [that] tries to GET or DELETE a non
\* existent file" (format.h:18): who is told so asked for a file that no
\* accepted PUT had left.
NoSuchFileIsMissing ==
    [][\A c \in Clients : state[c] = 1 /\ state'[c] = -3 => accepted[Name(c)] = None]_vars
==============================================================================
