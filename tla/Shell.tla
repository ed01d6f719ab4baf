-------------------------------- MODULE Shell --------------------------------
(***************************************************************************)
(* shell/shell.c: the shell, the processes it starts and the handler of    *)
(* SIGINT, which runs between any two steps of the shell.  A line is a     *)
(* built-in of shell() or a sequence of tokens for exec_command.  A        *)
(* command is one word; what the child does before execvp, redirections    *)
(* included, may fail like the program itself.  signal() restarts calls.   *)
(*                                                                         *)
(* Out of vector_get's range, in an entry without a pid yet and in one     *)
(* that has been freed the outcome is open: `fate` leaves "fine", after    *)
(* which nothing is promised.                                              *)
(***************************************************************************)
EXTENDS Integers, Sequences, FiniteSetsExt, Functions

CONSTANTS Lines,        \* the lines that are read
          MaxLines, MaxSigints  \* bounds

VARIABLES pc, line, at, temp, after,  \* exec_command: its line, how far it has come, the
                            \* command so far and what follows it
          procs,            \* all_process: entries [pid, freed]; the first is the shell
          child,            \* child[pid]: [state, ok, leads]; leads: in a group of its own
          history, fate,
          leader,           \* whether the shell leads its process group
          ran,              \* history: this line's commands, with their results
          lines, sigints
loop == <<line, at, temp, after>>
vars == <<pc, loop, procs, child, history, fate, leader, ran, lines, sigints>>

ShellPid == 0
NoPid == -1
Listed(pid) == [pid |-> pid, freed |-> FALSE]
Pids == DOMAIN child

Init ==
    /\ pc = "prompt" /\ line = <<>> /\ at = 0 /\ temp = <<>> /\ after = "end"
    /\ procs = <<Listed(ShellPid)>> /\ child = <<>>
    /\ history = <<>> /\ fate = "fine" /\ leader \in BOOLEAN
    /\ ran = <<>> /\ lines = 0 /\ sigints = 0

\* pid_erase, which looks from the end
PidErase(list, pid) ==
    LET found == {k \in DOMAIN list : list[k].pid = pid}
        last == Max(found)
    IN  IF found = {} THEN list ELSE SubSeq(list, 1, last - 1) \o SubSeq(list, last + 1, Len(list))

-----------------------------------------------------------------------------
(* shell(): a line is read. *)

Exec(tokens) == pc' = "exec" /\ line' = tokens /\ at' = 1 /\ temp' = <<>> /\ after' = "end" /\ ran' = <<>>
ToPrompt == pc' = "prompt" /\ UNCHANGED loop

\* write_history, then exec_command
Runs(tokens) == history' = Append(history, tokens) /\ Exec(tokens) /\ UNCHANGED <<procs, child, fate>>
Fails == fate' = "failed" /\ ToPrompt /\ UNCHANGED <<procs, child, history, ran>>
Nothing == ToPrompt /\ UNCHANGED <<procs, child, history, fate, ran>>

Match(word) == {k \in DOMAIN history : history[k][1].word = word}

Signalled(pid, state) ==
    IF pid \in Pids /\ child[pid].state \in {"running", "stopped"}
    THEN [child EXCEPT ![pid].state = state] ELSE child
Exists(pid) == pid \in Pids /\ child[pid].state # "reaped"

ReadLine(l) ==
    /\ pc = "prompt" /\ fate = "fine" /\ lines < MaxLines
    /\ lines' = lines + 1 /\ UNCHANGED <<leader, sigints>>
    /\ \/ l.kind = "tokens" /\ Runs(l.tokens)
       \/ l.kind = "blank" /\ Fails        \* vector_get of an empty vector
       \/ /\ l.kind = "prefix"             \* !prefix: the latest line that begins so
          /\ IF Match(l.word) = {} THEN Nothing ELSE Runs(history[Max(Match(l.word))])
       \/ /\ l.kind = "index"              \* #n: n may be the size of the history
          /\ IF l.n > Len(history) THEN Nothing
             ELSE IF l.n = Len(history) THEN Fails ELSE Runs(history[l.n + 1])
       \/ /\ l.kind = "kill"
          /\ Exists(l.n) /\ child' = Signalled(l.n, "ended")
          /\ procs' = PidErase(procs, l.n)
          /\ ToPrompt /\ UNCHANGED <<history, fate, ran>>
       \/ /\ l.kind \in {"stop", "cont"} /\ Exists(l.n)
          /\ child' = Signalled(l.n, IF l.kind = "stop" THEN "stopped" ELSE "running")
          /\ ToPrompt /\ UNCHANGED <<procs, history, fate, ran>>
       \/ l.kind \in {"kill", "stop", "cont"} /\ ~Exists(l.n) /\ Nothing
       \/ /\ l.kind = "ps"                 \* exits if a listed process has no entry in /proc
          /\ IF \A e \in Range(procs) : e.pid = ShellPid \/ Exists(e.pid) THEN Nothing ELSE Fails
       \/ /\ l.kind = "exit" /\ pc' = "exited"  \* kill_all_process is not called
          /\ UNCHANGED <<loop, procs, child, history, fate, ran>>

-----------------------------------------------------------------------------
(* exec_command and builtInCommand *)

Token == IF at <= Len(line) THEN line[at] ELSE [kind |-> "end", word |-> ""]

\* one turn of the loop, up to the call of builtInCommand it makes
Scan ==
    /\ pc = "exec"
    /\ at' = at + 1 /\ after' = Token.kind
    /\ temp' = IF Token.kind \in {"word", "amp"} \/ (Token.kind = "semi" /\ Token.word # "")
               THEN Append(temp, Token) ELSE temp
    /\ pc' = IF Token.kind \in {"word", "amp"} THEN "exec" ELSE "builtin"
    /\ UNCHANGED <<line, procs, child, history, fate, leader, ran, lines, sigints>>

\* whether the loop goes on after a command with this result
Continue(result, kind) ==
    \/ kind = "and" /\ result = 1
    \/ kind = "or" /\ result # 1
    \/ kind = "semi"

Returns(result) ==
    /\ ran' = Append(ran, <<at - 1, result>>)
    /\ temp' = <<>> /\ UNCHANGED <<line, at, after>>
    /\ pc' = IF Continue(result, after) THEN "exec" ELSE "prompt"

InBackground == temp[Len(temp)].kind = "amp"

\* no command at all, and cd, need no process
NoProcess ==
    /\ pc = "builtin"
    /\ \/ temp = <<>> /\ Returns(0)
       \/ temp # <<>> /\ temp[1].word = "cd" /\ \E result \in {0, 1} : Returns(result)
    /\ UNCHANGED <<procs, child, history, fate, leader, lines, sigints>>

\* the entry is listed before fork, its pid is filled in after
Fork ==
    /\ pc = "builtin" /\ temp # <<>> /\ temp[1].word # "cd"
    /\ procs' = Append(procs, Listed(NoPid))
    /\ child' = Append(child, [state |-> "running", ok |-> FALSE, leads |-> FALSE])
    /\ pc' = "forked"
    /\ UNCHANGED <<loop, history, fate, leader, ran, lines, sigints>>

SetPid ==
    /\ pc = "forked"
    /\ procs' = [procs EXCEPT ![Len(procs)].pid = Len(child)]
    /\ pc' = IF InBackground THEN "setpgid" ELSE "wait"
    /\ UNCHANGED <<loop, child, history, fate, leader, ran, lines, sigints>>

\* refused once the child has called execvp: the shell then exits
Setpgid ==
    /\ pc = "setpgid"
    /\ \/ /\ child' = [child EXCEPT ![Len(child)].leads = TRUE]
          /\ Returns(0) /\ UNCHANGED <<procs, history, fate>>
       \/ Fails
    /\ UNCHANGED <<leader, lines, sigints>>

Waitpid ==
    LET pid == Len(child)
    IN  /\ pc = "wait" /\ child[pid].state = "ended"
        /\ child' = [child EXCEPT ![pid].state = "reaped"]
        /\ pc' = "erase"
        /\ UNCHANGED <<loop, procs, history, fate, leader, ran, lines, sigints>>

EraseFrees ==
    /\ pc = "erase"
    /\ procs' = [k \in DOMAIN procs |-> IF procs[k].pid = Len(child) THEN [procs[k] EXCEPT !.freed = TRUE] ELSE procs[k]]
    /\ pc' = "unlist"
    /\ UNCHANGED <<loop, child, history, fate, leader, ran, lines, sigints>>

EraseRemoves_First == Tail(procs)
EraseRemoves == PidErase(procs, Len(child))

EraseEnds ==
    /\ pc = "unlist"
    /\ procs' = EraseRemoves
    /\ Returns(IF child[Len(child)].ok THEN 1 ELSE 0)
    /\ UNCHANGED <<child, history, fate, leader, lines, sigints>>

-----------------------------------------------------------------------------
(* Signals and children. *)

Leads(pid) == IF pid = ShellPid THEN leader ELSE child[pid].leads

\* handle_sigint's walk: behind an entry it erases, the next is skipped
Walked(list) ==
    LET walk[n \in 0..Len(list)] ==
          IF n = 0 THEN list
          ELSE LET l == walk[n - 1]
               IN  IF n <= Len(l) /\ ~Leads(l[n].pid) THEN PidErase(l, l[n].pid) ELSE l
    IN  walk[Len(list)]

ListedPids(list) == {e.pid : e \in Range(list)}

HandleSigint ==
    LET walked == Walked(procs)
        killed == ListedPids(procs) \ ListedPids(walked)
    IN  /\ pc # "exited" /\ fate = "fine" /\ sigints < MaxSigints
        /\ sigints' = sigints + 1
        /\ IF \E e \in Range(procs) : e.pid = NoPid \/ e.freed
           THEN fate' = "undefined" /\ UNCHANGED <<procs, child>>
           ELSE /\ fate' = IF ShellPid \in killed THEN "failed" ELSE "fine"
                /\ procs' = walked
                /\ child' = [pid \in Pids |-> IF pid \in killed /\ child[pid].state \in {"running", "stopped"}
                                              THEN [child[pid] EXCEPT !.state = "ended"] ELSE child[pid]]
        /\ UNCHANGED <<pc, loop, history, leader, ran, lines>>

ChildEnds(pid) ==
    /\ child[pid].state = "running"
    /\ \E ok \in BOOLEAN : child' = [child EXCEPT ![pid].state = "ended", ![pid].ok = ok]
    /\ UNCHANGED <<pc, loop, procs, history, fate, leader, ran, lines, sigints>>

ShellStep ==
    fate = "fine" /\ (Scan \/ NoProcess \/ Fork \/ SetPid \/ Setpgid \/ Waitpid \/ EraseFrees \/ EraseEnds)
Next ==
    \/ \E l \in Lines : ReadLine(l)
    \/ ShellStep \/ HandleSigint
    \/ \E pid \in Pids : ChildEnds(pid)
Spec == Init /\ [][Next]_vars

-----------------------------------------------------------------------------
(* Properties. *)

\* Between lines the list of processes is true: no child runs that is not on it,
\* nobody is on it twice or after having been waited for, so that kill and ps
\* find what they name, and no foreground process is left, whatever was
\* interrupted when (shell.c:82-105, 144-173).
ListIsTrue ==
    pc = "prompt" /\ fate = "fine" =>
        /\ procs[1] = Listed(ShellPid) /\ IsInjective(procs)
        /\ \A k \in 2..Len(procs) : Exists(procs[k].pid) /\ ~procs[k].freed
        /\ \A pid \in Pids : child[pid].state \in {"running", "stopped"} =>
              child[pid].leads /\ \E k \in DOMAIN procs : procs[k].pid = pid

\* A command runs as its operator says: after && if the one before it succeeded,
\* after || if it did not, after ; always, and none after one that did not run
\* (shell.c:232-267).
OperatorsHold ==
    \A k \in 1..Len(ran) - 1 :
        LET operator == line[ran[k][1]].kind  succeeded == ran[k][2] = 1
        IN  (operator = "and" => succeeded) /\ (operator = "or" => ~succeeded)
==============================================================================
