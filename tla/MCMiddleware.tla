---------------------------- MODULE MCMiddleware ----------------------------
(***************************************************************************)
(* What the HTTP layer does around the handler of a request: idempotency   *)
(* keys and the audit log.  They share no state, so one of them is         *)
(* explored at a time and the other stays in an initial state.  The        *)
(* requests are one, its retry, and a different one that reuses the key.   *)
(***************************************************************************)
EXTENDS Idempotency, AuditChain, TLC

CONSTANTS a1, a2, b1, digestA, digestB

VARIABLE focus

MCRequests == {a1, a2, b1}
MCFingerprint == (a1 :> digestA) @@ (a2 :> digestA) @@ (b1 :> digestB)
MCSymmetry == Permutations({a1, a2})

middlewareVars == <<vars, auditVars, focus>>

MiddlewareInit ==
    /\ focus \in {"idempotency", "audit"}
    /\ Init /\ AuditInit
    /\ focus # "audit" => key = CHOOSE k \in Keys : TRUE

MiddlewareNext ==
    \/ focus = "idempotency" /\ Next /\ UNCHANGED <<auditVars, focus>>
    \/ focus = "audit" /\ AuditNext /\ UNCHANGED <<vars, focus>>

MiddlewareSpec == MiddlewareInit /\ [][MiddlewareNext]_middlewareVars
=============================================================================
