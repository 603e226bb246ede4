----------------------------- MODULE DeliveryLease -----------------------------
(***************************************************************************)
(* How long a broker lease has to be.  Client.MinimumDeliveryLease         *)
(* (Framework/queueclient/worker.go) computes a lower bound from the retry *)
(* configuration, and PreflightConsumer (natsjetstream/adapter.go) refuses *)
(* a consumer whose acknowledgement wait is shorter.  This module puts one *)
(* delivery on a discrete clock, with handlers, callbacks and backoffs     *)
(* that take any time up to their deadline, under a lease of exactly the   *)
(* computed length, for every configuration of a given set.                *)
(***************************************************************************)
EXTENDS Integers, FiniteSetsExt

CONSTANTS
    Configs,      \* the effective configurations to be checked
    MaxDuration   \* the largest time.Duration (2^63 - 1 in the code)

\* A DeliveryRetryConfig after defaultDeliveryRetryConfig, together with
\* Client.processTimeout and the caller's safety margin.
ConfigRecords == [
    MaxAttempts : Nat, InitialBackoff : Nat, MaxBackoff : Nat, SettlementTimeout : Nat,
    LeaseExtensionInterval : Nat, LeaseExtensionTimeout : Nat,
    processTimeout : Nat, safetyMargin : Nat]

\* validateDeliveryRetryConfig, validateConfig and safetyMargin > 0; the
\* numeric limits (10 attempts, 10 minutes, 30 seconds) are scaled away.
ValidConfig(c) ==
    /\ c.MaxAttempts >= 1
    /\ c.InitialBackoff > 0 /\ c.MaxBackoff >= c.InitialBackoff
    /\ c.SettlementTimeout > 0 /\ c.processTimeout > 0 /\ c.safetyMargin > 0
    /\ (c.LeaseExtensionInterval # 0) <=> (c.LeaseExtensionTimeout # 0)
    /\ c.LeaseExtensionTimeout <= c.LeaseExtensionInterval

ASSUME LeaseAssumption ==
    /\ Configs \subseteq ConfigRecords
    /\ \A c \in Configs : ValidConfig(c)
    /\ MaxDuration \in Nat

ExtensionEnabled(c) == c.LeaseExtensionInterval > 0 /\ c.LeaseExtensionTimeout > 0

\* deliveryBackoff: the delay before retry n doubles up to MaxBackoff, without
\* ever computing a value beyond it.
deliveryBackoff(c) ==
    LET delay[n \in Nat] ==
          IF n <= 1 THEN c.InitialBackoff
          ELSE IF delay[n - 1] > c.MaxBackoff \div 2 THEN c.MaxBackoff ELSE 2 * delay[n - 1]
    IN  delay

JitterWindow(c, delay) == Min({delay \div 2, c.MaxBackoff - delay})

\* jitteredDeliveryBackoff: the waits the random source can choose.
Backoffs(c, n) ==
    LET delay == deliveryBackoff(c)[n] IN delay .. delay + JitterWindow(c, delay)

MaximumBackoff(c, n) ==
    LET delay == deliveryBackoff(c)[n] IN delay + JitterWindow(c, delay)

\* Fault: the jitter is not budgeted.
StaticLeaseWithoutJitter(c) ==
    c.MaxAttempts * c.processTimeout
      + MapThenSumSet(LAMBDA n : deliveryBackoff(c)[n], 1 .. c.MaxAttempts - 1)
      + c.SettlementTimeout + c.safetyMargin

\* The budget without lease extension: every attempt, every backoff at its
\* longest, one settlement and the margin.
StaticLease(c) ==
    c.MaxAttempts * c.processTimeout
      + MapThenSumSet(LAMBDA n : MaximumBackoff(c, n), 1 .. c.MaxAttempts - 1)
      + c.SettlementTimeout + c.safetyMargin

\* The budget with lease extension.
ExtendedLease(c) ==
    c.LeaseExtensionInterval + Max({c.SettlementTimeout, c.LeaseExtensionTimeout}) + c.safetyMargin

MinimumDeliveryLease(c) == IF ExtensionEnabled(c) THEN ExtendedLease(c) ELSE StaticLease(c)

\* addDeliveryBudget refuses a sum beyond the largest duration: as all terms
\* are positive some partial sum overflows exactly when the total does.
BudgetAccepted(c) == MinimumDeliveryLease(c) <= MaxDuration

VARIABLES
    config,   \* the configuration of this group
    ackWait,  \* the lease the broker grants: the shortest one preflight accepts
    lease,    \* broker: time until it redelivers the message
    pc,       \* "handling", "backoff", "joining", "settling" or "done"
    left,     \* time until the deadline or timer of the current phase
    attempt,
    ext,      \* lease extender: "off", "waiting" or "calling"
    extLeft,  \* time until its timer fires, or until its callback is given up
    extended  \* the broker has acted on the extension call in progress

leaseVars == <<config, ackWait, lease, pc, left, attempt, ext, extLeft, extended>>

\* PreflightConsumer accepted the consumer, a worker has just received.
LeaseInit ==
    /\ config \in {c \in Configs : BudgetAccepted(c)}
    /\ ackWait = MinimumDeliveryLease(config)
    /\ lease = ackWait
    /\ pc = "handling" /\ attempt = 1 /\ left = config.processTimeout
    /\ ext = IF ExtensionEnabled(config) THEN "waiting" ELSE "off"
    /\ extLeft = config.LeaseExtensionInterval
    /\ extended = FALSE

\* The plan is made: stop the extender and wait for it, then settle.
PlanMade ==
    IF ext = "calling"
    THEN pc' = "joining" /\ UNCHANGED <<left, ext>>
    ELSE pc' = "settling" /\ left' = config.SettlementTimeout /\ ext' = "off"

\* The handler returns nil before its deadline.
AttemptSucceeds ==
    /\ pc = "handling" /\ left > 0
    /\ PlanMade
    /\ UNCHANGED <<config, ackWait, lease, attempt, extLeft, extended>>

\* The handler fails, at its deadline at the latest.
AttemptFails ==
    /\ pc = "handling"
    /\ \/ PlanMade   \* permanent failure or last attempt: dead-letter
       \/ /\ attempt < config.MaxAttempts
          /\ pc' = "backoff" /\ left' \in Backoffs(config, attempt)
          /\ UNCHANGED ext
    /\ UNCHANGED <<config, ackWait, lease, attempt, extLeft, extended>>

WaitEnds ==
    /\ pc = "backoff" /\ left = 0
    /\ pc' = "handling" /\ left' = config.processTimeout /\ attempt' = attempt + 1
    /\ UNCHANGED <<config, ackWait, lease, ext, extLeft, extended>>

\* The extender's last call has returned: the settlement starts.
Joined ==
    /\ pc = "joining" /\ ext = "waiting"
    /\ pc' = "settling" /\ left' = config.SettlementTimeout /\ ext' = "off"
    /\ UNCHANGED <<config, ackWait, lease, attempt, extLeft, extended>>

\* Acknowledge or DeadLetter ends, or is given up at its deadline.
SettlementEnds ==
    /\ pc = "settling"
    /\ pc' = "done"
    /\ UNCHANGED <<config, ackWait, lease, left, attempt, ext, extLeft, extended>>

ExtensionBegins ==
    /\ ext = "waiting" /\ extLeft = 0 /\ pc \in {"handling", "backoff"}
    /\ ext' = "calling" /\ extLeft' = config.LeaseExtensionTimeout /\ extended' = FALSE
    /\ UNCHANGED <<config, ackWait, lease, pc, left, attempt>>

\* The broker acts on the extension call (external).
BrokerExtends ==
    /\ ext = "calling" /\ ~extended
    /\ lease' = ackWait /\ extended' = TRUE
    /\ UNCHANGED <<config, ackWait, pc, left, attempt, ext, extLeft>>

\* The callback returns in time: only then is the timer started again.
ExtensionReturns ==
    /\ ext = "calling" /\ extended /\ extLeft > 0
    /\ ext' = "waiting" /\ extLeft' = config.LeaseExtensionInterval
    /\ UNCHANGED <<config, ackWait, lease, pc, left, attempt, extended>>

\* The extension is too late: the handler is canceled, nothing is settled.
ExtensionTimesOut ==
    /\ ext = "calling" /\ extLeft = 0
    /\ pc' = "done" /\ ext' = "off"
    /\ UNCHANGED <<config, ackWait, lease, left, attempt, extLeft, extended>>

\* One unit of time; everyone honours deadlines and timers that are due.
Elapse ==
    /\ pc # "done"
    /\ pc \in {"handling", "backoff", "settling"} => left > 0
    /\ ext \in {"waiting", "calling"} => extLeft > 0
    /\ lease' = Max({lease - 1, 0})
    /\ left' = IF pc = "joining" THEN left ELSE left - 1
    /\ extLeft' = IF ext = "off" THEN extLeft ELSE extLeft - 1
    /\ UNCHANGED <<config, ackWait, pc, attempt, ext, extended>>

LeaseNext ==
    \/ AttemptSucceeds \/ AttemptFails \/ WaitEnds \/ Joined \/ SettlementEnds
    \/ ExtensionBegins \/ BrokerExtends \/ ExtensionReturns \/ ExtensionTimesOut
    \/ Elapse

LeaseSpec == LeaseInit /\ [][LeaseNext]_leaseVars

--------------------------------------------------------------------------------
(* Properties *)

\* Documented (MinimumDeliveryLease): with handlers and callbacks that honour
\* their deadlines the computed bound holds, so the broker never redelivers a
\* message that its worker still handles or settles.
LeaseOutlivesDelivery == pc # "done" => lease > 0
================================================================================
