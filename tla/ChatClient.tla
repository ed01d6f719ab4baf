----------------------------- MODULE ChatClient ------------------------------
(***************************************************************************)
(* charming_chatroom/client.c: a thread that writes what the user types to *)
(* the server, a thread that prints what the server sends, and the handler *)
(* of SIGINT, which runs in the main thread and cancels both.              *)
(*                                                                         *)
(* A thread acts on its cancellation in the next call that is a            *)
(* cancellation point: the one it waits in, or the next it makes.          *)
(***************************************************************************)
EXTENDS Integers

Threads == {"writer", "reader"}
Pointers == {"buffer", "msg", "body"}   \* body is `buffer` of read_from_server

VARIABLES main,       \* where the main thread is
          handler,    \* and where in close_program
          pc,         \* of the threads
          cancelled,  \* threads pthread_cancel has been called for
          closeChat, shut, gone,   \* shut: by the client; gone: the server has closed
          pointer,    \* "null", "live" or "dangling"
          stream,     \* of messages, each a size and a body, to the server
          outcome
vars == <<main, handler, pc, cancelled, closeChat, shut, gone, pointer, stream, outcome>>
unchangedByThreads == <<main, handler, cancelled, closeChat, shut, gone>>
unchangedByMain == <<pc, pointer, stream, gone>>

Init ==
    /\ main = "connect" /\ handler = "none" /\ outcome = "running" /\ stream = "whole"
    /\ pc = [t \in Threads |-> "none"] /\ cancelled = {}
    /\ closeChat = FALSE /\ shut = FALSE /\ gone = FALSE
    /\ pointer = [p \in Pointers |-> "null"]

\* free, and NULL in the pointer
Release_KeepsPointer(ps) ==
    /\ pointer' = [p \in Pointers |-> IF p \in ps /\ pointer[p] = "live" THEN "dangling" ELSE pointer[p]]
    /\ outcome' = IF \E p \in ps : pointer[p] = "dangling" THEN "freed_twice" ELSE outcome
Release(ps) ==
    /\ pointer' = [p \in Pointers |-> IF p \in ps THEN "null" ELSE pointer[p]]
    /\ outcome' = IF \E p \in ps : pointer[p] = "dangling" THEN "freed_twice" ELSE outcome
Allocate(p) == pointer' = [pointer EXCEPT ![p] = "live"] /\ UNCHANGED outcome

-----------------------------------------------------------------------------
(* The threads. *)

\* at a cancellation point, and past it
Cancelled(t, ps) ==
    /\ t \in cancelled
    /\ pc' = [pc EXCEPT ![t] = "ended"] /\ Release(ps) /\ UNCHANGED stream
GoesTo(t, where) == t \notin cancelled /\ pc' = [pc EXCEPT ![t] = where]
OfWriter == {"buffer", "msg"}

\* read_message_from_screen up to fgets, which waits for the user
AskForMessage ==
    /\ pc.writer = "loop" /\ pc' = [pc EXCEPT !.writer = "fgets"]
    /\ (IF pointer.buffer = "null" THEN Allocate("buffer") ELSE UNCHANGED <<pointer, outcome>>)
    /\ UNCHANGED stream

\* it frees the buffer itself at the end of input or once closeChat is set
ReadMessageFromScreen ==
    /\ pc.writer = "fgets"
    /\ \/ Cancelled("writer", OfWriter)
       \/ GoesTo("writer", "ended") /\ Release({"buffer"}) /\ UNCHANGED stream
       \/ ~closeChat /\ GoesTo("writer", "size") /\ Allocate("msg") /\ UNCHANGED stream

\* what a write comes to: without the server it may seem to succeed, fail, or kill
Writes(then, else) ==
    \/ ~shut /\ then
    \/ gone /\ else
    \/ (gone \/ shut) /\ outcome' = "killed" /\ UNCHANGED <<pc, pointer, stream>>

Part(ends) == IF stream = "cut" THEN "garbled" ELSE ends
Fails == GoesTo("writer", "failed") /\ Release({"msg"}) /\ stream' = "cut"

WriteMessageSize ==
    /\ pc.writer = "size"
    /\ \/ Cancelled("writer", OfWriter)
       \/ /\ "writer" \notin cancelled
          /\ Writes(GoesTo("writer", "body") /\ stream' = Part("begun") /\ UNCHANGED <<pointer, outcome>>,
                    Fails)
WriteBody ==
    /\ pc.writer = "body"
    /\ \/ Cancelled("writer", OfWriter)
       \/ /\ "writer" \notin cancelled
          /\ Writes(GoesTo("writer", "loop") /\ stream' = Part("whole") /\ Release({"msg"}), Fails)

GetMessageSize ==
    /\ pc.reader = "size" /\ UNCHANGED stream
    /\ \/ Cancelled("reader", {"body"})
       \/ ~shut /\ GoesTo("reader", "body") /\ Allocate("body")
       \/ (gone \/ shut) /\ GoesTo("reader", "ended") /\ UNCHANGED <<pointer, outcome>>
ReadBody ==
    /\ pc.reader = "body" /\ UNCHANGED stream
    /\ \/ Cancelled("reader", {"body"})
       \/ ~shut /\ GoesTo("reader", "print") /\ UNCHANGED <<pointer, outcome>>
       \/ (gone \/ shut) /\ GoesTo("reader", "ended") /\ Release({"body"})
WriteMessageToScreen ==
    /\ pc.reader = "print" /\ UNCHANGED stream
    /\ Cancelled("reader", {"body"}) \/ (GoesTo("reader", "size") /\ Release({"body"}))

Writer == AskForMessage \/ ReadMessageFromScreen \/ WriteMessageSize \/ WriteBody
Reader == GetMessageSize \/ ReadBody \/ WriteMessageToScreen
ThreadStep == outcome = "running" /\ (Writer \/ Reader) /\ UNCHANGED unchangedByThreads

-----------------------------------------------------------------------------
(* The main thread, the signal and the server. *)

Over(t) == pc[t] \in {"ended", "failed"}
Joined(t) == t = "writer" /\ main = "join_reader"

\* connect_to_server exits when it cannot
Connect ==
    /\ main = "connect" /\ UNCHANGED <<pc, gone>>
    /\ \/ main' = "create_writer" /\ UNCHANGED outcome
       \/ outcome' = "exited" /\ UNCHANGED main
Create(t, at, next, starts) ==
    /\ main = at /\ main' = next
    /\ pc' = [pc EXCEPT ![t] = starts] /\ UNCHANGED <<gone, outcome>>
Join(t, at) == main = at /\ Over(t) /\ UNCHANGED <<pc, gone>>
Main ==
    /\ handler \in {"none", "done"}
    /\ \/ Connect
       \/ Create("writer", "create_writer", "create_reader", "loop")
       \/ Create("reader", "create_reader", "join_writer", "size")
       \/ Join("writer", "join_writer") /\ main' = "join_reader" /\ UNCHANGED outcome
       \/ Join("reader", "join_reader") /\ outcome' = "exited" /\ UNCHANGED main
    /\ UNCHANGED <<handler, cancelled, closeChat, shut, pointer, stream>>

\* a thread that does not exist yet is the null pointer; one that has been joined
\* is another that may not be there
PthreadCancel(t) ==
    \/ pc[t] # "none" /\ cancelled' = cancelled \cup {t} /\ UNCHANGED outcome
    \/ (pc[t] = "none" \/ Joined(t)) /\ outcome' = "crashed" /\ UNCHANGED cancelled

\* one interrupt: it is blocked while it is handled
Sigint ==
    /\ handler = "none" /\ handler' = "cancel_writer"
    /\ UNCHANGED <<main, cancelled, closeChat, shut, outcome>>
CloseProgram ==
    /\ UNCHANGED main
    /\ \/ /\ handler = "cancel_writer" /\ handler' = "cancel_reader"
          /\ PthreadCancel("writer") /\ UNCHANGED <<closeChat, shut>>
       \/ /\ handler = "cancel_reader" /\ handler' = "close_chat"
          /\ PthreadCancel("reader") /\ UNCHANGED <<closeChat, shut>>
       \/ /\ handler = "close_chat" /\ handler' = "close_connection"
          /\ closeChat' = TRUE /\ UNCHANGED <<cancelled, shut, outcome>>
       \/ /\ handler = "close_connection" /\ handler' = "done"
          /\ shut' = TRUE /\ UNCHANGED <<cancelled, closeChat, outcome>>

ServerCloses ==
    /\ ~gone /\ gone' = TRUE /\ main # "connect"
    /\ UNCHANGED <<main, handler, pc, cancelled, closeChat, shut, pointer, stream, outcome>>

MainStep ==
    /\ outcome = "running"
    /\ Main \/ (CloseProgram /\ UNCHANGED unchangedByMain)
Next ==
    \/ MainStep \/ ThreadStep
    \/ outcome = "running" /\ (ServerCloses \/ (Sigint /\ UNCHANGED unchangedByMain))

\* a thread that is being cancelled is never held up for good
CancelledStep == ThreadStep /\ \E t \in cancelled : pc'[t] # pc[t]
Spec == Init /\ [][Next]_vars /\ WF_vars(MainStep) /\ WF_vars(CancelledStep)

-----------------------------------------------------------------------------
(* Properties. *)

\* Wherever a thread is cancelled or leaves, it has given back what it held, once
\* (but for the buffer of a writer whose write failed); nothing follows a message
\* that was cut; and only a server that is gone can get the client killed
\* (client.c:80-93, 114-131, 149-163, 169-176).
ThreadsGiveBack ==
    /\ outcome # "freed_twice" /\ stream # "garbled"
    /\ pc.writer = "ended" => pointer.buffer = "null" /\ pointer.msg = "null"
    /\ pc.writer = "failed" => pointer.msg = "null"
    /\ pc.reader = "ended" => pointer.body = "null"
    /\ outcome = "killed" => gone

\* What each of the places a thread can be at says of the pointers and of the stream,
\* and the order in which the main thread and its handler go about.
TypeOK ==
    /\ pc \in [Threads -> {"none", "loop", "fgets", "size", "body", "print", "ended", "failed"}]
    /\ pointer \in [Pointers -> {"null", "live"}]
    /\ outcome \in {"running", "exited", "killed", "crashed"}
    /\ shut \in BOOLEAN /\ gone \in BOOLEAN
PlacesHold ==
    /\ pc.writer \in {"none", "ended"} => pointer.buffer = "null"
    /\ pc.writer \in {"none", "loop", "fgets", "ended", "failed"} => pointer.msg = "null"
    /\ pc.reader \in {"none", "size", "ended"} => pointer.body = "null"
    /\ stream \in {"whole", "begun"} \/ (stream = "cut" /\ pc.writer = "failed")
OneAfterTheOther ==
    /\ main \in {"connect", "create_writer"} => pc.writer = "none"
    /\ main \in {"connect", "create_writer", "create_reader"} => pc.reader = "none"
    /\ handler \in {"none", "cancel_writer"} \/ "writer" \in cancelled \/ outcome # "running"
    /\ shut => "writer" \in cancelled
    /\ outcome = "killed" => gone

\* An interrupt ends the client, whatever its threads are waiting for
\* (client.c:169-176, 202-205).
Interrupted == handler # "none"
Stops == outcome # "running"
InterruptEnds == Interrupted ~> Stops
==============================================================================
