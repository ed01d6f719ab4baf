------------------------------ MODULE MCParmake ------------------------------
(***************************************************************************)
(* The makefiles of the run: one diamond under "all" with phony targets    *)
(* and a goal above a cycle; the diamond with target files, over every way *)
(* they may be on the disk; two goals that share a dependency, and two     *)
(* that do not.                                                            *)
(***************************************************************************)
EXTENDS Parmake

MCRules == {"all", "left", "right", "base", "loop", "knot", "above"}
MCDeps == [all |-> <<"left", "right">>, left |-> <<"base">>, right |-> <<"base">>,
           base |-> <<>>, loop |-> <<"base", "knot">>, knot |-> <<"loop">>, above |-> <<"loop">>]
Diamond == {"all", "left", "right", "base"}
Disks == {[r \in MCRules |-> IF r \in Diamond THEN d[r] ELSE 0] : d \in [Diamond -> 0..2]}

Call(goals, makes, mayFail, stamps) ==
    [deps |-> MCDeps, goals |-> goals, makes |-> makes, mayFail |-> mayFail, disk |-> stamps]
MCMakefiles ==
    {Call(<<"above", "all">>, {}, MCRules, [r \in MCRules |-> 0])}
        \cup {Call(<<"all">>, Diamond, {"base"}, d) : d \in Disks}
        \cup {Call(<<"left", "right">>, {"left", "right"}, {"base"}, d) : d \in Disks}
        \cup {[Call(<<"left", "right">>, {"right"}, {"left", "base"}, d)
                EXCEPT !.deps["right"] = <<>>] : d \in Disks}

\* test_makefiles/testfile5: all needs file1, file1 needs oldfile, which no rule
\* makes.  file1 is on the disk and oldfile is not.
Test5Rules == {"all", "file1", "oldfile"}
Test5 == {[deps |-> [all |-> <<"file1">>, file1 |-> <<"oldfile">>, oldfile |-> <<>>],
           goals |-> <<"all">>, makes |-> {"file1"}, mayFail |-> {},
           disk |-> [all |-> n, file1 |-> f, oldfile |-> 0]] : n \in 0..2, f \in 1..2}
\* testfile5:4 "This (and the following lines) line should always be shown."
AllAlwaysShown == <>(runs["all"] > 0)
==============================================================================
