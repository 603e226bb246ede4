---------------------------- MODULE ReliableDelivery ----------------------------
(***************************************************************************)
(* Reliable delivery: the delivery half of a worker group                  *)
(* (Framework/queueclient/worker.go, processDelivery and below), the       *)
(* settlement callbacks of the JetStream adapter                           *)
(* (queueclient/natsjetstream/adapter.go) and the broker they talk to.     *)
(*                                                                         *)
(* Three kinds of goroutine act for one delivery: the worker, the lease    *)
(* extender and the settlement callback.  Broker calls are asynchronous: a *)
(* call whose caller gave up (settlement timeout, cancellation, crash)     *)
(* stays on the wire, and the broker may still act on it later or never.   *)
(* Leases may expire while a worker still holds the message, which is then *)
(* delivered to a second worker.  How long a lease must be is the subject  *)
(* of module DeliveryLease.                                                *)
(***************************************************************************)
EXTENDS Integers, FiniteSets

CONSTANTS
    Workers,
    Messages,
    Malformed,        \* messages with a header shape fromJetStreamMessage rejects
    NoMessage,
    NoWorker,
    MaxAttempts,      \* DeliveryRetryConfig.MaxAttempts
    DeliveryLimits,   \* the values of ConsumerConfig.MaxDeliver considered
    MaxFaults         \* bound: crashes, errors, timeouts, early lease expiries

Unlimited == -1       \* MaxDeliver of a consumer without a limit

ASSUME DeliveryAssumption ==
    /\ Malformed \subseteq Messages
    /\ NoMessage \notin Messages /\ NoWorker \notin Workers
    /\ MaxAttempts \in Nat \ {0} /\ MaxFaults \in Nat
    \* PreflightConsumer refuses less (minimumConsumerDeliveries).
    /\ DeliveryLimits \subseteq {Unlimited} \cup {n \in Nat : n >= 2}

VARIABLES
    worker,    \* per worker goroutine: its delivery and how far it is
    ctxDone,   \* the group's run context is canceled
    status,    \* broker: per message "absent", "ready", "leased", "acked" or
               \* "spent": kept, but never delivered again
    deliveries,\* broker: how often each message was delivered, if limited
    dlq,       \* broker: copies of each message on the dead-letter stream
    remembered,\* broker: dead-letter IDs inside the duplicate window
    forgotten, \* broker: dead-letter IDs whose duplicate window has passed
    wire,      \* broker calls sent and not yet acted upon
    handled,   \* history: messages for which Client.Process returned nil
    faults,    \* faults so far
    extending, \* deliveryLeaseExtensionEnabled(retry): never changes
    maxDeliver \* ConsumerConfig.MaxDeliver of the consumer: never changes

processVars == <<worker, ctxDone>>
brokerVars == <<status, deliveries, dlq, remembered, forgotten>>
movingVars == <<processVars, brokerVars, wire, handled, faults>>
configVars == <<extending, maxDeliver>>
deliveryVars == <<movingVars, configVars>>

\* A worker's record: pc is "loop", "quarantine", "handling", "backoff",
\* "joining", "planned", "settling" or "exited"; plan the settlement it decided
\* on; callback how far the settlement callback is; ext the lease extender.
Idle == [pc |-> "loop", job |-> NoMessage, attempt |-> 0, plan |-> "none",
         callback |-> "none", ext |-> "none", canceled |-> FALSE]

Gone == [Idle EXCEPT !.pc = "exited"]

DeliveryInit ==
    /\ worker = [w \in Workers |-> Idle]
    /\ ctxDone = FALSE
    /\ status \in [Messages -> {"absent", "ready"}]
    /\ deliveries = [m \in Messages |-> 0] /\ dlq = [m \in Messages |-> 0]
    /\ remembered = {} /\ forgotten = {} /\ wire = {} /\ handled = {} /\ faults = 0
    /\ extending \in BOOLEAN /\ maxDeliver \in DeliveryLimits

Fault == faults < MaxFaults /\ faults' = faults + 1

\* Calls of w that are still on the wire no longer have anyone waiting.
Orphan(ws) == {[c EXCEPT !.from = IF c.from \in ws THEN NoWorker ELSE c.from] : c \in wire}

\* The worker returns; a callback it leaves behind can only still be answered.
Leave(w) ==
    /\ worker' = [worker EXCEPT ![w] = Gone]
    /\ wire' = Orphan({w})

\* runWorker returns a normal cancellation.
Exit(w) == Leave(w) /\ UNCHANGED <<ctxDone, faults>>

\* group.fail(err): the worker returns and the run context is canceled.
Fail(w) == Leave(w) /\ ctxDone' = TRUE

\* The context a handler attempt and a backoff run under.
DeliveryDone(w) == ctxDone \/ worker[w].canceled

--------------------------------------------------------------------------------
(* ReceiveDelivery *)

\* The loop of the worker, or of ReceiveDelivery, sees the canceled context.
LoopExits(w) ==
    /\ worker[w].pc = "loop" /\ ctxDone
    /\ Exit(w)
    /\ UNCHANGED <<brokerVars, handled>>

\* The broker leases a message to the consumer; it counts up to a limit only.
Deliver(m) ==
    /\ status[m] = "ready"
    /\ status' = [status EXCEPT ![m] = "leased"]
    /\ deliveries' = [deliveries EXCEPT ![m] = IF maxDeliver = Unlimited THEN @ ELSE @ + 1]

\* A pull returns a message; a malformed one goes to quarantine.
Receive(w, m) ==
    /\ worker[w].pc = "loop" /\ ~ctxDone /\ Deliver(m)
    /\ worker' = [worker EXCEPT ![w] =
          IF m \in Malformed
          THEN [Idle EXCEPT !.pc = "quarantine", !.job = m, !.plan = "DeadLetter", !.callback = "start"]
          ELSE [Idle EXCEPT !.pc = "handling", !.job = m, !.attempt = 1,
                            !.ext = IF extending THEN "waiting" ELSE "none"]]
    /\ UNCHANGED <<ctxDone, dlq, remembered, forgotten, wire, handled, faults>>

\* A pull ends empty (ErrNoMessages, ErrTimeout): ReceiveDelivery pulls again.
ReceiveNothing(w) == worker[w].pc = "loop" /\ ~ctxDone /\ UNCHANGED movingVars

\* The pull's own deadline passes as the message arrives: receiveNext drops
\* it, although the broker has leased it to this consumer.
ReceiveTooLate(m) ==
    /\ \E w \in Workers : worker[w].pc = "loop"
    /\ Fault /\ Deliver(m)
    /\ UNCHANGED <<processVars, dlq, remembered, forgotten, wire, handled>>

\* ErrReceive: the pull fails.
ReceiveFails(w) ==
    /\ worker[w].pc = "loop" /\ ~ctxDone
    /\ Fault /\ Fail(w)
    /\ UNCHANGED <<brokerVars, handled>>

--------------------------------------------------------------------------------
(* deliverySettlementPlan: bounded attempts with backoff *)

\* The plan is made; with lease extension the extender is stopped and joined.
Planned(w, plan) ==
    worker' = [worker EXCEPT ![w] =
        [@ EXCEPT !.plan = plan, !.pc = IF extending THEN "joining" ELSE "planned"]]

\* Client.Process returns nil: within its deadline and not canceled.
HandlerSucceeds(w) ==
    /\ worker[w].pc = "handling" /\ ~DeliveryDone(w)
    /\ handled' = handled \cup {worker[w].job}
    /\ Planned(w, "Acknowledge")
    /\ UNCHANGED <<ctxDone, brokerVars, wire, faults>>

\* Fault: a message that can not be handled is acknowledged to get rid of it.
HandlerFailsDrops(w, permanent) ==
    /\ worker[w].pc = "handling" /\ ~DeliveryDone(w)
    /\ IF permanent \/ worker[w].attempt = MaxAttempts
       THEN Planned(w, "Acknowledge")
       ELSE worker' = [worker EXCEPT ![w].pc = "backoff"]
    /\ UNCHANGED <<ctxDone, brokerVars, wire, handled, faults>>

\* Fault: a failed attempt is left to the broker's redelivery.
HandlerFailsReleases(w, permanent) ==
    /\ worker[w].pc = "handling" /\ ~DeliveryDone(w) /\ ~extending
    /\ IF permanent \/ worker[w].attempt = MaxAttempts
       THEN Planned(w, "DeadLetter")
       ELSE worker' = [worker EXCEPT ![w] = Idle]
    /\ UNCHANGED <<ctxDone, brokerVars, wire, handled, faults>>

\* The handler, its validation or its timeout fails; a late nil counts as a
\* timeout.  Permanent failures and the last attempt are dead-lettered.
HandlerFails(w, permanent) ==
    /\ worker[w].pc = "handling" /\ ~DeliveryDone(w)
    /\ IF permanent \/ worker[w].attempt = MaxAttempts
       THEN Planned(w, "DeadLetter")
       ELSE worker' = [worker EXCEPT ![w].pc = "backoff"]
    /\ UNCHANGED <<ctxDone, brokerVars, wire, handled, faults>>

BackoffEnds(w) ==
    /\ worker[w].pc = "backoff" /\ ~DeliveryDone(w)
    /\ worker' = [worker EXCEPT ![w] = [@ EXCEPT !.pc = "handling", !.attempt = worker[w].attempt + 1]]
    /\ UNCHANGED <<ctxDone, brokerVars, wire, handled, faults>>

\* A canceled context ends an attempt or a backoff without a plan.
PlanCanceled(w) ==
    /\ worker[w].pc \in {"handling", "backoff"} /\ DeliveryDone(w)
    /\ \/ extending /\ Planned(w, "none") /\ UNCHANGED <<ctxDone, wire, faults>>
       \/ ~extending /\ Exit(w)
    /\ UNCHANGED <<brokerVars, handled>>

\* The handler panics: recovered in runWorker, nothing is settled.
HandlerPanics(w) ==
    /\ worker[w].pc = "handling"
    /\ Fault /\ Fail(w)
    /\ UNCHANGED <<brokerVars, handled>>

--------------------------------------------------------------------------------
(* extendDeliveryLease: a goroutine per delivery *)

ExtensionFires(w) ==
    /\ worker[w].ext = "waiting"
    /\ worker' = [worker EXCEPT ![w].ext = "calling"]
    /\ UNCHANGED <<ctxDone, brokerVars, wire, handled, faults>>

ExtensionOk(w) ==
    /\ worker[w].ext = "calling" /\ ~ctxDone
    /\ worker' = [worker EXCEPT ![w].ext = "waiting"]
    /\ UNCHANGED <<ctxDone, brokerVars, wire, handled, faults>>

\* Error, timeout or panic of ExtendLease: the handler is canceled.
ExtensionFails(w) ==
    /\ worker[w].ext = "calling" /\ ~ctxDone
    /\ Fault
    /\ worker' = [worker EXCEPT ![w] = [@ EXCEPT !.ext = "failed", !.canceled = TRUE]]
    /\ UNCHANGED <<ctxDone, brokerVars, wire, handled>>

ExtensionCanceled(w) ==
    /\ worker[w].ext \in {"waiting", "calling"} /\ ctxDone
    /\ worker' = [worker EXCEPT ![w].ext = "failed"]
    /\ UNCHANGED <<ctxDone, brokerVars, wire, handled, faults>>

ExtensionStops(w) ==
    /\ worker[w].ext = "waiting" /\ worker[w].pc = "joining"
    /\ worker' = [worker EXCEPT ![w].ext = "ended"]
    /\ UNCHANGED <<ctxDone, brokerVars, wire, handled, faults>>

\* Fault: the worker does not look at the extender's result.
JoinBlind(w) ==
    /\ worker[w].pc = "joining" /\ worker[w].ext \in {"ended", "failed"}
    /\ \/ ctxDone /\ Exit(w)
       \/ /\ ~ctxDone /\ worker[w].plan # "none"
          /\ worker' = [worker EXCEPT ![w].pc = "planned"]
          /\ UNCHANGED <<ctxDone, wire, faults>>
       \/ ~ctxDone /\ worker[w].plan = "none" /\ Fail(w) /\ UNCHANGED faults
    /\ UNCHANGED <<brokerVars, handled>>

\* processDelivery after <-extensionResult: parent cancellation first, then
\* the extension's failure, then the plan.
Join(w) ==
    /\ worker[w].pc = "joining" /\ worker[w].ext \in {"ended", "failed"}
    /\ \/ ctxDone /\ Exit(w)
       \/ ~ctxDone /\ worker[w].ext = "failed" /\ Fail(w) /\ UNCHANGED faults
       \/ /\ ~ctxDone /\ worker[w].ext = "ended"
          /\ worker' = [worker EXCEPT ![w].pc = "planned"]
          /\ UNCHANGED <<ctxDone, wire, faults>>
    /\ UNCHANGED <<brokerVars, handled>>

--------------------------------------------------------------------------------
(* settleDelivery and the adapter's Acknowledge and DeadLetter callbacks *)

SettleBegins(w) ==
    /\ worker[w].pc = "planned"
    /\ \/ ctxDone /\ Exit(w)
       \/ /\ ~ctxDone
          /\ worker' = [worker EXCEPT ![w] = [@ EXCEPT !.pc = "settling", !.callback = "start"]]
          /\ UNCHANGED <<ctxDone, wire, faults>>
    /\ UNCHANGED <<brokerVars, handled>>

Send(w, op) == wire' = wire \cup {[op |-> op, msg |-> worker[w].job, from |-> w]}

\* Fault: a published copy is taken for a complete dead-letter settlement.
CallbackCallsOnce(w) ==
    /\ worker[w].callback \in {"start", "published"} /\ ~ctxDone
    /\ \/ /\ worker[w].callback = "start"
          /\ Send(w, IF worker[w].plan = "DeadLetter" THEN "publish" ELSE "ack")
          /\ worker' = [worker EXCEPT ![w].callback =
                IF worker[w].plan = "DeadLetter" THEN "publishing" ELSE "acking"]
       \/ /\ worker[w].callback = "published"
          /\ worker' = [worker EXCEPT ![w].callback = "ok"]
          /\ UNCHANGED wire
    /\ UNCHANGED <<ctxDone, brokerVars, handled, faults>>

\* The callback checks its context and sends its next broker call: Acknowledge
\* a DoubleAck; DeadLetter the dead-letter publish and, once that is
\* confirmed, the DoubleAck of the source.
CallbackCalls(w) ==
    /\ worker[w].callback \in {"start", "published"} /\ ~ctxDone
    /\ LET op == IF worker[w].callback = "start" /\ worker[w].plan = "DeadLetter"
                 THEN "publish" ELSE "ack"
       IN  /\ Send(w, op)
           /\ worker' = [worker EXCEPT ![w].callback = IF op = "publish" THEN "publishing" ELSE "acking"]
    /\ UNCHANGED <<ctxDone, brokerVars, handled, faults>>

\* The broker call returns an error; the broker may act on it all the same.
CallbackFails(w) ==
    /\ worker[w].callback \in {"publishing", "acking"}
    /\ Fault
    /\ worker' = [worker EXCEPT ![w].callback = "failed"]
    /\ wire' = Orphan({w})
    /\ UNCHANGED <<ctxDone, brokerVars, handled>>

\* The callback's result reaches settleDelivery in time.
SettleEnds(w) ==
    /\ worker[w].pc = "settling" /\ worker[w].callback \in {"ok", "failed"} /\ ~ctxDone
    /\ \/ /\ worker[w].callback = "ok"
          /\ worker' = [worker EXCEPT ![w] = Idle]
          /\ UNCHANGED <<ctxDone, wire, faults>>
       \/ worker[w].callback = "failed" /\ Fail(w) /\ UNCHANGED faults
    /\ UNCHANGED <<brokerVars, handled>>

\* The quarantine of a malformed message: the same two broker calls, made
\* synchronously by ReceiveDelivery; nothing is reported.
QuarantineEnds(w) ==
    /\ worker[w].pc = "quarantine" /\ worker[w].callback \in {"ok", "failed"} /\ ~ctxDone
    /\ \/ /\ worker[w].callback = "ok"
          /\ worker' = [worker EXCEPT ![w] = Idle]
          /\ UNCHANGED <<ctxDone, wire>>
       \/ worker[w].callback = "failed" /\ Fail(w)
    /\ UNCHANGED <<brokerVars, handled, faults>>

\* SettlementTimeout passes first: the callback, even if it already has a
\* nil result, is given up and the group fails.
SettleTimesOut(w) ==
    /\ worker[w].pc = "settling" /\ ~ctxDone
    /\ Fault /\ Fail(w)
    /\ UNCHANGED <<brokerVars, handled>>

\* The run context is canceled while the callback or a quarantine runs.
SettleCanceled(w) ==
    /\ worker[w].pc \in {"settling", "quarantine"} /\ ctxDone
    /\ Exit(w)
    /\ UNCHANGED <<brokerVars, handled>>

--------------------------------------------------------------------------------
(* The broker (external) *)

Answer(c, callback) ==
    worker' = IF c.from = NoWorker THEN worker
              ELSE [worker EXCEPT ![c.from].callback = callback]

\* A confirmed acknowledgement, of whichever delivery of the message.
BrokerAcks(c) ==
    /\ c \in wire /\ c.op = "ack"
    /\ status' = [status EXCEPT ![c.msg] = "acked"]
    /\ wire' = wire \ {c}
    /\ Answer(c, "ok")
    /\ UNCHANGED <<ctxDone, deliveries, dlq, remembered, forgotten, handled, faults>>

\* Fault: the dead-letter ID differs from one delivery to the next.
BrokerStoresEveryCopy(c) ==
    /\ c \in wire /\ c.op = "publish"
    /\ dlq' = [dlq EXCEPT ![c.msg] = @ + 1]
    /\ remembered' = remembered \cup {c.msg}
    /\ wire' = wire \ {c}
    /\ Answer(c, "published")
    /\ UNCHANGED <<ctxDone, status, deliveries, forgotten, handled, faults>>

\* The dead-letter stream drops a copy whose ID it remembers.  The ID is
\* derived from stream, consumer and stream sequence (deadLetterID), so it is
\* the same for every delivery of a message.
BrokerStores(c) ==
    /\ c \in wire /\ c.op = "publish"
    /\ dlq' = [dlq EXCEPT ![c.msg] = IF c.msg \in remembered THEN @ ELSE @ + 1]
    /\ remembered' = remembered \cup {c.msg}
    /\ wire' = wire \ {c}
    /\ Answer(c, "published")
    /\ UNCHANGED <<ctxDone, status, deliveries, forgotten, handled, faults>>

\* A call nobody waits for any more may have been lost.
BrokerNeverSees(c) ==
    /\ c \in wire /\ c.from = NoWorker
    /\ wire' = wire \ {c}
    /\ UNCHANGED <<processVars, brokerVars, handled, faults>>

\* The duplicate window of the dead-letter stream passes.
WindowPasses(m) ==
    /\ m \in remembered /\ Fault
    /\ remembered' = remembered \ {m}
    /\ forgotten' = forgotten \cup {m}
    /\ UNCHANGED <<processVars, status, deliveries, dlq, wire, handled>>

Holders(m) == {w \in Workers : worker[w].job = m}

\* The acknowledgement wait ends; too early if the message is still held.  The
\* message is delivered again unless that was the last delivery allowed.
LeaseExpires(m) ==
    /\ status[m] = "leased"
    /\ IF Holders(m) = {} THEN UNCHANGED faults ELSE Fault
    /\ status' = [status EXCEPT ![m] = IF deliveries[m] = maxDeliver THEN "spent" ELSE "ready"]
    /\ UNCHANGED <<processVars, deliveries, dlq, remembered, forgotten, wire, handled>>

--------------------------------------------------------------------------------
(* Shutdown, crash and restart of the process *)

Shutdown ==
    /\ ~ctxDone /\ Fault
    /\ ctxDone' = TRUE
    /\ UNCHANGED <<worker, brokerVars, wire, handled>>

\* A new group takes over: after an orderly stop or after a crash.
Reborn ==
    /\ worker' = [w \in Workers |-> Idle]
    /\ ctxDone' = FALSE
    /\ wire' = Orphan(Workers)
    /\ UNCHANGED <<brokerVars, handled>>

Restart == (\A w \in Workers : worker[w].pc = "exited") /\ Reborn /\ UNCHANGED faults

Crash == Fault /\ Reborn

--------------------------------------------------------------------------------

WorkerStep(w) ==
    \/ LoopExits(w) \/ \E m \in Messages : Receive(w, m)
    \/ HandlerSucceeds(w) \/ \E permanent \in BOOLEAN : HandlerFails(w, permanent)
    \/ BackoffEnds(w) \/ PlanCanceled(w) \/ Join(w)
    \/ SettleBegins(w) \/ CallbackCalls(w) \/ SettleEnds(w) \/ QuarantineEnds(w) \/ SettleCanceled(w)

ExtensionStep(w) ==
    \/ ExtensionFires(w) \/ ExtensionOk(w) \/ ExtensionCanceled(w) \/ ExtensionStops(w)

FaultStep ==
    \/ \E w \in Workers :
          ReceiveFails(w) \/ HandlerPanics(w) \/ ExtensionFails(w) \/ CallbackFails(w) \/ SettleTimesOut(w)
    \/ \E m \in Messages : ReceiveTooLate(m) \/ WindowPasses(m)
    \/ Shutdown \/ Crash

BrokerStep ==
    \E c \in wire : BrokerAcks(c) \/ BrokerStores(c) \/ BrokerNeverSees(c)

DeliveryNext ==
    /\ UNCHANGED configVars
    /\ \/ \E w \in Workers : WorkerStep(w) \/ ExtensionStep(w) \/ ReceiveNothing(w)
       \/ BrokerStep
       \/ \E m \in Messages : LeaseExpires(m)
       \/ FaultStep
       \/ Restart

DeliverySpec == DeliveryInit /\ [][DeliveryNext]_deliveryVars

(***************************************************************************)
(* Goroutines that can run do run, broker calls with a caller are answered *)
(* or fail, expired leases are noticed, a stopped process is restarted.    *)
(* The extender stops when asked to although its timer may also be ready.  *)
(***************************************************************************)
DeliveryFairness ==
    /\ \A w \in Workers :
          /\ WF_movingVars(WorkerStep(w))
          /\ WF_movingVars(ExtensionOk(w) \/ ExtensionCanceled(w))
          /\ SF_movingVars(ExtensionStops(w))
    /\ WF_movingVars(\E c \in wire : c.from # NoWorker /\ (BrokerAcks(c) \/ BrokerStores(c)))
    /\ \A m \in Messages : WF_movingVars(Holders(m) = {} /\ LeaseExpires(m))
    /\ WF_movingVars(Restart)

--------------------------------------------------------------------------------
(* Properties *)

Buried == {m \in Messages : dlq[m] > 0}

\* Settlements that were retried, abandoned or made by two workers leave one
\* dead-letter copy, unless the duplicate window passed in between.
OneDeadLetterCopy == \A m \in Messages : dlq[m] > 1 => m \in forgotten

\* Fail closed: once the extension of a lease failed, no settlement of that
\* delivery is started, even if its handler had already succeeded.
NoSettlementWithoutLease ==
    \A w \in Workers : worker[w].ext = "failed" => worker[w].callback = "none"

\* Refinement: the whole machinery implements an at-least-once queue.  Nothing
\* is lost: whatever crashes, timeouts, late broker calls and double deliveries
\* happen, the broker forgets a message only when a handler accepted it in time
\* or its copy is on the dead-letter stream.
Queue == INSTANCE AtLeastOnce WITH
    owed <- {m \in Messages : status[m] \in {"ready", "leased", "spent"}}, served <- handled, buried <- Buried
ImplementsAtLeastOnce == Queue!QueueSpec

\* Every message of the stream is eventually acknowledged, whatever failed, was
\* cancelled or restarted before (processDelivery), unless the consumer's
\* MaxDeliver ran out first: adapter.go:281 accepts a limit as low as two.
EverythingSettles == <>(\A m \in Messages : status[m] \in {"absent", "acked", "spent"})

\* A message is given up only under a limit, and only after as many faults as
\* the limit allows deliveries: an ordinary failure of a handler, a backoff or
\* another message's settlement never uses up a delivery (worker.go retries
\* within the delivery).
GivenUpOnlyByFaults ==
    \A m \in Messages : status[m] = "spent" => maxDeliver # Unlimited /\ faults >= maxDeliver
================================================================================
