----------------------------- MODULE MCServing ------------------------------
(***************************************************************************)
(* A serving process: its worker group and its readiness checker.  They    *)
(* share no state, so one of them is explored at a time and the other      *)
(* stays in its initial state.                                             *)
(***************************************************************************)
EXTENDS WorkerGroup, HealthChecker

CONSTANTS w1, w2, s1, s2, t1, t2, u1, e1, e2

VARIABLE focus

MCWorkers == {w1, w2}
MCFailures == {e1, e2}
TwoStarters == {s1, s2}
OneStarter == {s1}
TwoStoppers == {t1, t2}
OneStopper == {t1}
OneWaiter == {u1}

servingVars == <<vars, healthVars, focus>>

ServingInit ==
    /\ focus \in {"group", "health"}
    /\ Init /\ HealthInit

ServingNext ==
    \/ focus = "group" /\ Next /\ UNCHANGED <<healthVars, focus>>
    \/ focus = "health" /\ HealthNext /\ UNCHANGED <<vars, focus>>

ServingSpec == ServingInit /\ [][ServingNext]_servingVars /\ GroupFairness /\ HealthFairness
=============================================================================
