----------------------------- MODULE MCClients ------------------------------
(***************************************************************************)
(* The framework's outbound clients in one run: the circuit breaker of the *)
(* HTTP client, the delivery of messages by the queue client and the       *)
(* length of the lease it asks for.  They share no state, so one of them   *)
(* is explored at a time and the others stay in an initial state.  Two     *)
(* workers share a well-formed message and a malformed one, or, when they  *)
(* extend their leases, the well-formed one with one more fault.           *)
(***************************************************************************)
EXTENDS CircuitBreaker, ReliableDelivery, DeliveryLease

CONSTANTS good, bad

VARIABLE focus

clientVars == <<vars, deliveryVars, leaseVars, focus>>

MCMessages == {good, bad}
MCMalformed == {bad}
MCDeliveryLimits == {Unlimited, 2}

Config(a, i, m, s, li, lt, p, g) ==
    [MaxAttempts |-> a, InitialBackoff |-> i, MaxBackoff |-> m, SettlementTimeout |-> s,
     LeaseExtensionInterval |-> li, LeaseExtensionTimeout |-> lt,
     processTimeout |-> p, safetyMargin |-> g]

\* Without extension: up to four attempts, backoffs that reach their cap.
StaticConfigs ==
    {c \in {Config(a, i, m, s, 0, 0, p, g) :
              a \in 1 .. 4, i \in 1 .. 3, m \in 1 .. 7, s \in 1 .. 2, p \in 1 .. 2, g \in {1}} :
        ValidConfig(c)}

\* With extension and a margin that covers one extension callback.
WideMarginConfigs ==
    {c \in {Config(a, 2, 3, s, li, lt, p, g) :
              a \in 1 .. 3, s \in 1 .. 4, li \in 1 .. 4, lt \in 1 .. 3, p \in {1, 4, 7}, g \in 1 .. 3} :
        ValidConfig(c) /\ c.safetyMargin >= c.LeaseExtensionTimeout}

SufficientConfigs == StaticConfigs \cup WideMarginConfigs

\* With extension and a margin shorter than an extension callback may take.
NarrowMarginConfigs == {Config(1, 2, 3, 3, 4, 3, 12, 1)}

ClientsInit ==
    /\ focus \in {"breaker", "delivery", "lease"}
    /\ Init
    /\ DeliveryInit
    /\ focus # "delivery" => ~extending /\ maxDeliver = Unlimited /\ \A m \in Messages : status[m] = "absent"
    /\ extending => status[bad] = "absent"
    /\ IF focus = "lease" THEN LeaseInit
       ELSE /\ config = CHOOSE c \in Configs : TRUE
            /\ pc = "done" /\ ackWait = 0 /\ lease = 0 /\ left = 0 /\ attempt = 1
            /\ ext = "off" /\ extLeft = 0 /\ extended = FALSE

\* A delivery that is done stays so.
LeaseRests == pc = "done" /\ UNCHANGED leaseVars

ClientsNext ==
    \/ focus = "breaker" /\ Next /\ UNCHANGED <<deliveryVars, leaseVars, focus>>
    \/ /\ focus = "delivery" /\ DeliveryNext
       /\ ~extending => faults' < MaxFaults
       /\ UNCHANGED <<vars, leaseVars, focus>>
    \/ focus = "lease" /\ (LeaseNext \/ LeaseRests) /\ UNCHANGED <<vars, deliveryVars, focus>>

ClientsSpec == ClientsInit /\ [][ClientsNext]_clientVars /\ BreakerFairness /\ DeliveryFairness
=============================================================================
