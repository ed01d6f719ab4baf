--------------------------- MODULE MakefileParser ----------------------------
(***************************************************************************)
(* parallel_make/parser.c: parser_parse_makefile reads a makefile line by  *)
(* line into the dependency graph that parmake walks.                      *)
(*                                                                         *)
(* A line is what is left of it without comment and outer white space: a   *)
(* rule, a recipe, blank, or bad, which is anything else.  Words are       *)
(* whole: how a line is cut into them is left out.                         *)
(***************************************************************************)
EXTENDS Integers, Sequences, FiniteSetsExt, Functions

CONSTANTS Lines,       \* what a line may be
          GoalLists,   \* what may be asked for
          MaxLines,    \* bound on the makefile
          Null

Sentinel == ""         \* the vertex above the goals

VARIABLES text,        \* the lines read so far
          goals,
          edges,       \* the graph: the dependencies of each vertex
          commands, state,  \* of each vertex's rule; state is a line number
          currRule, inCommandBlock, firstTarget,
          outcome
vars == <<text, goals, edges, commands, state, currRule, inCommandBlock, firstTarget, outcome>>
graph == <<edges, commands, state>>

Init ==
    /\ text = <<>> /\ goals \in GoalLists /\ outcome = "reading"
    /\ edges = [v \in {Sentinel} |-> {}] /\ commands = [v \in {Sentinel} |-> <<>>]
    /\ state = [v \in {Sentinel} |-> 0]
    /\ currRule = Null /\ inCommandBlock = FALSE /\ firstTarget = Null

\* f with x at those of vs it does not have yet
Extended(f, vs, x) == [v \in DOMAIN f \cup vs |-> IF v \in DOMAIN f THEN f[v] ELSE x]
Exit(status) == outcome' = status /\ UNCHANGED <<graph, currRule, inCommandBlock, firstTarget>>

\* the first recipe after a rule takes the place of the recipes the target has
RecipeLine(line) ==
    IF currRule = Null THEN Exit("exit 2")
    ELSE LET overrides == ~inCommandBlock /\ state[currRule] # 0
         IN  /\ state' = [state EXCEPT ![currRule] = IF inCommandBlock THEN @ ELSE Len(text) + 1]
             /\ commands' = [commands EXCEPT ![currRule] = Append(IF overrides THEN <<>> ELSE @, line.command)]
             /\ inCommandBlock' = TRUE /\ UNCHANGED <<edges, currRule, firstTarget, outcome>>

RuleLine_StaysInBlock(line) ==
    LET named == {line.target} \cup Range(line.deps)
    IN  /\ firstTarget' = IF line.target \notin DOMAIN edges /\ firstTarget = Null THEN line.target ELSE firstTarget
        /\ edges' = [Extended(edges, named, {}) EXCEPT ![line.target] = @ \cup Range(line.deps)]
        /\ commands' = Extended(commands, named, <<>>) /\ state' = Extended(state, named, 0)
        /\ currRule' = line.target /\ UNCHANGED <<inCommandBlock, outcome>>
RuleLine(line) ==
    LET named == {line.target} \cup Range(line.deps)
    IN  /\ firstTarget' = IF line.target \notin DOMAIN edges /\ firstTarget = Null THEN line.target ELSE firstTarget
        /\ edges' = [Extended(edges, named, {}) EXCEPT ![line.target] = @ \cup Range(line.deps)]
        /\ commands' = Extended(commands, named, <<>>) /\ state' = Extended(state, named, 0)
        /\ currRule' = line.target /\ inCommandBlock' = FALSE /\ UNCHANGED outcome

ReadLine(line) ==
    /\ outcome = "reading" /\ Len(text) < MaxLines
    /\ text' = Append(text, line) /\ UNCHANGED goals
    /\ \/ line.kind = "blank" /\ UNCHANGED <<graph, currRule, inCommandBlock, firstTarget, outcome>>
       \/ line.kind = "recipe" /\ RecipeLine(line)
       \/ line.kind = "rule" /\ RuleLine(line)
       \/ line.kind = "bad" /\ Exit("exit 2")

\* the goals are tried in order, and the default one is the first target
AddGoals ==
    LET wanted == IF goals = <<>> THEN <<firstTarget>> ELSE goals
    IN  /\ outcome = "reading" /\ UNCHANGED <<text, goals>>
        /\ IF goals = <<>> /\ firstTarget = Null THEN Exit("exit 2")
           ELSE IF Range(wanted) \subseteq DOMAIN edges
           THEN /\ edges' = [edges EXCEPT ![Sentinel] = Range(wanted)]
                /\ state' = [v \in DOMAIN state |-> 0] /\ outcome' = "parsed"
                /\ UNCHANGED <<commands, currRule, inCommandBlock, firstTarget>>
           ELSE Exit("exit 1")

Next == AddGoals \/ \E line \in Lines : ReadLine(line)
Spec == Init /\ [][Next]_vars

-----------------------------------------------------------------------------
(* What a makefile says, and the property. *)

Numbers(kind) == {i \in DOMAIN text : text[i].kind = kind}
RulesFor(t) == {i \in Numbers("rule") : text[i].target = t}
Mentioned == UNION {{text[i].target} \cup Range(text[i].deps) : i \in Numbers("rule")}
Recipes(i) == {r \in Numbers("recipe") : r > i /\ ~\E j \in Numbers("rule") : i < j /\ j < r}
WithRecipe(t) == {i \in RulesFor(t) : Recipes(i) # {}}
\* the recipe lines that t is made by
RecipeOf(t) == IF WithRecipe(t) = {} THEN {} ELSE Recipes(Max(WithRecipe(t)))
\* cs are the commands of the lines ls, in their order
AreTheCommands(cs, ls) ==
    \E nth \in [DOMAIN cs -> ls] :
        /\ Range(nth) = ls /\ \A m, n \in DOMAIN cs : m < n => nth[m] < nth[n]
        /\ \A n \in DOMAIN cs : cs[n] = text[nth[n]].command
Broken ==
    \/ Numbers("bad") # {}
    \/ \E r \in Numbers("recipe") : \A i \in Numbers("rule") : i > r

\* The graph is what the makefile says: a target depends on all its rules name and
\* is made by the recipe of the last that has one, the goals are those asked for or
\* the target of the first rule, and the parser gives up exactly when a line cannot
\* be placed or a goal is unknown (parser.c:208-321).
ParsedAsWritten ==
    LET unknown == IF goals = <<>> THEN Numbers("rule") = {} ELSE ~(Range(goals) \subseteq Mentioned \cup {Sentinel})
    IN  /\ DOMAIN edges \ {Sentinel} \subseteq Mentioned
        /\ outcome \in {"reading", "parsed"} =>
             /\ ~Broken /\ DOMAIN edges = Mentioned \cup {Sentinel}
             /\ \A t \in Mentioned :
                  /\ edges[t] = UNION {Range(text[i].deps) : i \in RulesFor(t)}
                  /\ AreTheCommands(commands[t], RecipeOf(t))
        /\ outcome = "parsed" =>
             /\ ~unknown
             /\ edges[Sentinel] = IF goals = <<>> THEN {text[Min(Numbers("rule"))].target} ELSE Range(goals)
        /\ outcome \in {"exit 1", "exit 2"} => Broken \/ unknown
==============================================================================
