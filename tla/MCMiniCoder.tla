---------------------------- MODULE MCMiniCoder ----------------------------
(* Directives 1 and 3 share the file f.  A scenario says which directives     *)
(* come, and how much of the fault budget is spent.                           *)
EXTENDS MiniCoder

CONSTANTS c1, f, g

MCFiles == [d \in Directives |-> IF d = 2 THEN {g} ELSE {f}]
MCParent == [d \in Directives |-> c1]

Scenarios == {<<{1, 3}, 1>>, <<{2}, 0>>, <<{1, 2}, 2>>, <<{2, 3}, 2>>}

MCInit ==
    \E scenario \in Scenarios :
        /\ MiniScene
        /\ call = [d \in Directives |-> IF d \in scenario[1] THEN "idle" ELSE "told"]
        /\ faults = scenario[2]

MCFairSpec == MCInit /\ [][MiniNext]_miniVars /\ MiniFairness
=============================================================================
