--------------------------- MODULE MCConsentBridge ---------------------------
(* Up to two hooks of one session and two mini coder runs in one project; each *)
(* run may be blocked on the network, the second on a folder as well.  A       *)
(* scenario says which hooks and runs take part; the others never come.        *)
EXTENDS ConsentBridge

CONSTANTS a1, w1, w2, net, folder, p1

MCHookAgent == [h \in Hooks |-> a1]
MCWorkerProject == [w \in Workers |-> p1]
MCSubjectProject == [s \in Subjects |-> p1]
MCBlocked == [b \in Blocks |-> IF b = 3 THEN w1 ELSE w2]
MCSubject == [b \in Blocks |-> IF b = 5 THEN folder ELSE net]

Scenarios == {<<{1, 2}, {}>>, <<{1}, {w1}>>, <<{}, {w1, w2}>>}

MCInit ==
    \E scenario \in Scenarios :
        /\ ConsentScene
        /\ hook = [h \in Hooks |-> IF h \in scenario[1] THEN Hook("idle") ELSE Hook("done")]
        /\ worker = [w \in Workers |-> IF w \in scenario[2] THEN Worker("idle")
                                                            ELSE Worker("done")]

MCFairSpec == MCInit /\ [][ConsentNext]_consentVars /\ ConsentFairness
=============================================================================
