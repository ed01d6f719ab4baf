--------------------------- MODULE MCNonstopServer ---------------------------
EXTENDS NonstopServer, FiniteSets

CONSTANTS f, g   \* g cannot be opened

MCClients == 1..3
Rank(r) == CASE r.verb = "PUT" /\ r.file # Empty -> 1
             [] r.verb = "PUT" /\ r.file = Empty -> 2
             [] r.verb = "GET" -> 3
             [] r.verb = "DELETE" -> 4
             [] r.verb = "LIST" -> 5
             [] r.verb = "OTHER" -> 6
             [] r.verb = "LONG" -> 7

\* every three well-formed requests about f, at most one LIST and one empty file
\* among them, in one order of the three alike clients; and workloads of requests
\* that fail at their header
MCWorkloads ==
    LET About(c) == {r \in Requests(c) : r.name # g /\ r.verb \notin {"OTHER", "LONG"}}
        Once(i, j) == i < j \/ (i = j /\ i \in {1, 3, 4})
    IN  {<<r1, r2, r3>> \in About(1) \X About(2) \X About(3) :
            Once(Rank(r1), Rank(r2)) /\ Once(Rank(r2), Rank(r3))}
        \cup {<<[verb |-> "PUT", name |-> g, file |-> 1],
               [verb |-> v, name |-> None, file |-> None],
               [verb |-> w, name |-> g, file |-> None]>> :
                 v \in {"OTHER", "LONG"}, w \in {"GET", "DELETE"}}
==============================================================================
