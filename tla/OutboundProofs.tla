---------------------------- MODULE OutboundProofs ----------------------------
(***************************************************************************)
(* Proofs about the clients of other services: the circuit breaker, for    *)
(* any set of callers, any threshold and open timeout, and the consumption *)
(* of a queue, for any workers, messages and bounds on attempts and        *)
(* faults.                                                                 *)
(***************************************************************************)
EXTENDS CircuitBreaker, ReliableDelivery, DeliveryLease, TLAPS

-----------------------------------------------------------------------------
(* The breaker.  The four invariants checked by TLC are inductive together:  *)
(* the flag is exact because a current permit is a trial exactly while the   *)
(* breaker is open, and that holds because every opening and every closing   *)
(* starts a new generation.                                                  *)

\* Trials are never stale: a trial holds the generation until it is recorded.
ProbesAreCurrent == \A r \in Probing : permit[r].generation = generation

IInv ==
    /\ TypeOK
    /\ OneProbeOnTheWire
    /\ ProbeFlagExact
    /\ CurrentPermitsMatchMode
    /\ ProbesAreCurrent

\* The initial state satisfies the inductive invariant.
LEMMA InitIInv == Init => IInv
<1> SUFFICES ASSUME Init PROVE IInv
    OBVIOUS
<1>1. TypeOK
    <2>1. open \in BOOLEAN /\ probeInFlight \in BOOLEAN
        BY Zenon DEF Init
    <2>2. permit \in [Requests -> Permits]
        BY DEF Init, NoPermit, Permits
    <2> QED
        BY <2>1, <2>2, BreakerAssumption DEF Init, TypeOK
<1>2. Probing = {}
    BY DEF Init, Probing
<1>3. OneProbeOnTheWire /\ ProbesAreCurrent
    BY <1>2 DEF OneProbeOnTheWire, ProbesAreCurrent
<1>4. ProbeFlagExact /\ CurrentPermitsMatchMode
    BY <1>2 DEF Init, ProbeFlagExact, CurrentPermitsMatchMode
<1> QED BY <1>1, <1>3, <1>4 DEF IInv

\* allow() preserves the inductive invariant.
LEMMA AllowIInv ==
    ASSUME IInv, NEW r \in Requests, Allow(r)
    PROVE  IInv'
<1> USE BreakerAssumption DEF IInv, TypeOK, Permits
<1>1. CASE AllowClosed(r)
    <2>1. TypeOK'
        BY <1>1 DEF AllowClosed, Grant, breaker
    <2>2. Probing' = Probing
        BY <1>1 DEF AllowClosed, Grant, breaker, Probing
    <2>3. ProbesAreCurrent' /\ OneProbeOnTheWire' /\ ProbeFlagExact'
        BY <1>1, <2>2 DEF AllowClosed, Grant, breaker, ProbesAreCurrent, OneProbeOnTheWire,
            ProbeFlagExact, Probing
    <2>4. CurrentPermitsMatchMode'
        BY <1>1 DEF AllowClosed, Grant, breaker, CurrentPermitsMatchMode
    <2> QED BY <2>1, <2>3, <2>4
<1>2. CASE AllowProbe(r)
    <2>1. TypeOK'
        BY <1>2 DEF AllowProbe, Grant
    <2>2. Probing = {} /\ Probing' = {r}
        BY <1>2 DEF AllowProbe, Grant, Probing, ProbeFlagExact
    <2>3. ProbesAreCurrent' /\ OneProbeOnTheWire' /\ ProbeFlagExact'
        BY <1>2, <2>2 DEF AllowProbe, Grant, ProbesAreCurrent, OneProbeOnTheWire, ProbeFlagExact
    <2>4. CurrentPermitsMatchMode'
        BY <1>2 DEF AllowProbe, Grant, CurrentPermitsMatchMode
    <2> QED BY <2>1, <2>3, <2>4
<1>3. CASE Reject(r)
    BY <1>3 DEF Reject, vars, breaker, OneProbeOnTheWire, ProbeFlagExact,
        CurrentPermitsMatchMode, ProbesAreCurrent, Probing
<1> QED BY <1>1, <1>2, <1>3 DEF Allow

\* While the breaker is open no ordinary answer can be current, while it is
\* closed no trial is on the wire.
LEMMA CurrentAnswer ==
    ASSUME IInv, NEW r \in Requests, phase[r] = "sent", permit[r].generation = generation
    PROVE  /\ permit[r].probe => open /\ Probing = {r}
           /\ ~permit[r].probe => ~open /\ Probing = {}
BY DEF IInv, OneProbeOnTheWire, CurrentPermitsMatchMode, ProbesAreCurrent, Probing

\* record() preserves the inductive invariant.
LEMMA RecordIInv ==
    ASSUME IInv, NEW r \in Requests, NEW outcome \in Outcomes, Record(r, outcome)
    PROVE  IInv'
<1> USE BreakerAssumption DEF IInv, TypeOK, Permits
<1>1. /\ phase[r] = "sent"
      /\ phase' = [phase EXCEPT ![r] = "idle"]
      /\ permit' = [permit EXCEPT ![r] = NoPermit]
      /\ phase' \in [Requests -> {"idle", "sent"}] /\ permit' \in [Requests -> Permits]
    BY DEF Record, Returned, NoPermit
<1>2. Probing' = Probing \ {r}
    BY <1>1 DEF Probing
<1>3. CASE RecordStale(r)
    <2>1. r \notin Probing
        BY <1>3 DEF RecordStale, ProbesAreCurrent
    <2> QED
        BY <1>1, <1>2, <1>3, <2>1 DEF RecordStale, breaker, OneProbeOnTheWire, ProbeFlagExact,
            CurrentPermitsMatchMode, ProbesAreCurrent, Probing
<1>4. CASE RecordProbe(r, outcome)
    <2>1. open /\ Probing = {r} /\ Probing' = {}
        BY <1>1, <1>2, <1>4, CurrentAnswer DEF RecordProbe
    <2>2. TypeOK'
        <3>1. open' \in BOOLEAN /\ probeInFlight' \in BOOLEAN
            BY <1>4, Zenon DEF RecordProbe, OpenNow
        <3>2. failures' \in 0 .. FailureThreshold /\ sinceOpened' \in 0 .. OpenTimeout
              /\ generation' \in Nat
            BY <1>4 DEF RecordProbe, OpenNow
        <3> QED BY <1>1, <3>1, <3>2
    <2>3. ProbesAreCurrent' /\ OneProbeOnTheWire' /\ ProbeFlagExact'
        BY <1>4, <2>1 DEF RecordProbe, ProbesAreCurrent, OneProbeOnTheWire, ProbeFlagExact
    <2>4. CurrentPermitsMatchMode'
        <3>1. CASE outcome = "irrelevant"
            BY <1>1, <1>4, <2>1, <3>1 DEF RecordProbe, CurrentPermitsMatchMode
        <3>2. CASE outcome # "irrelevant"
            <4>1. generation' = generation + 1
                BY <1>4, <3>2 DEF RecordProbe, OpenNow
            <4> QED BY <1>1, <4>1 DEF CurrentPermitsMatchMode
        <3> QED BY <3>1, <3>2
    <2> QED BY <2>2, <2>3, <2>4
<1>5. CASE RecordClosed(r, outcome)
    <2>1. ~open /\ Probing = {} /\ Probing' = {}
        BY <1>1, <1>2, <1>5, CurrentAnswer DEF RecordClosed
    <2>2. TypeOK'
        <3>1. open' \in BOOLEAN /\ probeInFlight' \in BOOLEAN
            BY <1>5, Zenon DEF RecordClosed, OpenNow
        <3>2. failures' \in 0 .. FailureThreshold /\ sinceOpened' \in 0 .. OpenTimeout
              /\ generation' \in Nat
            BY <1>5 DEF RecordClosed, OpenNow
        <3> QED BY <1>1, <3>1, <3>2
    <2>3. ProbesAreCurrent' /\ OneProbeOnTheWire' /\ ProbeFlagExact'
        BY <1>5, <2>1 DEF RecordClosed, ProbesAreCurrent, OneProbeOnTheWire, ProbeFlagExact
    <2>4. CurrentPermitsMatchMode'
        BY <1>1, <1>5, <2>1 DEF RecordClosed, OpenNow, CurrentPermitsMatchMode, Probing
    <2> QED BY <2>2, <2>3, <2>4
<1> QED BY <1>3, <1>4, <1>5 DEF Record

\* Every step preserves the inductive invariant.
LEMMA NextIInv == IInv /\ [Next]_vars => IInv'
<1> SUFFICES ASSUME IInv, [Next]_vars PROVE IInv'
    OBVIOUS
<1>1. CASE \E r \in Requests : Allow(r)
    BY <1>1, AllowIInv
<1>2. CASE \E r \in Requests : \E outcome \in Outcomes : Record(r, outcome)
    BY <1>2, RecordIInv
<1>3. CASE Tick
    BY <1>3, BreakerAssumption DEF IInv, TypeOK, Tick, OneProbeOnTheWire, ProbeFlagExact,
        CurrentPermitsMatchMode, ProbesAreCurrent, Probing
<1>4. CASE UNCHANGED vars
    BY <1>4 DEF IInv, TypeOK, vars, breaker, OneProbeOnTheWire, ProbeFlagExact,
        CurrentPermitsMatchMode, ProbesAreCurrent, Probing
<1> QED BY <1>1, <1>2, <1>3, <1>4 DEF Next

THEOREM AlwaysIInv == Spec => []IInv
<1> QED BY InitIInv, NextIInv, PTL DEF Spec

\* Type correctness of the breaker.
THEOREM TypeCorrect == Spec => []TypeOK
<1>1. IInv => TypeOK
    BY DEF IInv
<1> QED BY <1>1, AlwaysIInv, PTL

\* At most one half-open trial is on the wire, for any number of callers.
THEOREM AtMostOneProbe == Spec => []OneProbeOnTheWire
<1>1. IInv => OneProbeOnTheWire
    BY DEF IInv
<1> QED BY <1>1, AlwaysIInv, PTL

\* probeInFlight is set exactly while a trial is on the wire.
THEOREM FlagIsExact == Spec => []ProbeFlagExact
<1>1. IInv => ProbeFlagExact
    BY DEF IInv
<1> QED BY <1>1, AlwaysIInv, PTL

\* Calls admitted before the last opening or closing cannot touch the breaker.
THEOREM StaleCallsAreHarmless == Spec => []CurrentPermitsMatchMode
<1>1. IInv => CurrentPermitsMatchMode
    BY DEF IInv
<1> QED BY <1>1, AlwaysIInv, PTL

--------------------------------------------------------------------------------
\* Every step of the breaker is a step of the three-state contract, or
\* leaves the contract's state alone.
LEMMA StepSimulation ==
    ASSUME IInv, [Next]_vars
    PROVE  [Contract!ContractNext]_(Contract!contractVars)
<1> USE DEF Contract!ContractNext, Contract!contractVars
<1>1. CASE UNCHANGED vars
    <2>1. Mode' = Mode /\ sinceOpened' = sinceOpened
        BY <1>1 DEF vars, breaker, Mode, Probing
    <2> QED BY <2>1
<1>2. ASSUME NEW r \in Requests, Allow(r) PROVE [Contract!ContractNext]_(Contract!contractVars)
    <2>1. CASE AllowClosed(r)
        <3>1. Mode' = Mode /\ sinceOpened' = sinceOpened
            BY <2>1 DEF AllowClosed, Grant, breaker, Mode
        <3> QED BY <3>1
    <2>2. CASE AllowProbe(r)
        <3>1. Mode = "open" /\ sinceOpened = OpenTimeout
            BY <2>2 DEF AllowProbe, Mode, IInv, ProbeFlagExact
        <3>2. r \in Probing' /\ open' /\ sinceOpened' = sinceOpened
            BY <2>2 DEF AllowProbe, Grant, Probing, IInv, TypeOK, Permits
        <3>3. Mode' = "half_open"
            BY <3>2 DEF Mode
        <3> QED BY <3>1, <3>2, <3>3 DEF Contract!ProbeStarted
    <2>3. CASE Reject(r)
        <3>1. Mode' = Mode /\ sinceOpened' = sinceOpened
            BY <2>3 DEF Reject, vars, breaker, Mode, Probing
        <3> QED BY <3>1
    <2> QED BY <1>2, <2>1, <2>2, <2>3 DEF Allow
<1>3. ASSUME NEW r \in Requests, NEW outcome \in Outcomes, Record(r, outcome)
      PROVE  [Contract!ContractNext]_(Contract!contractVars)
    <2>1. phase[r] = "sent" /\ Probing' = Probing \ {r}
        BY <1>3 DEF Record, Returned, Probing, IInv, TypeOK, NoPermit, Permits
    <2>2. CASE RecordStale(r)
        <3>1. r \notin Probing /\ Probing' = Probing
            BY <2>1, <2>2 DEF RecordStale, IInv, ProbesAreCurrent
        <3>2. Mode' = Mode /\ sinceOpened' = sinceOpened
            BY <2>2, <3>1 DEF RecordStale, breaker, Mode
        <3> QED BY <3>2
    <2>3. CASE RecordProbe(r, outcome)
        <3>1. open /\ Probing = {r} /\ Probing' = {}
            BY <2>1, <2>3, CurrentAnswer DEF RecordProbe
        <3>2. Mode = "half_open"
            BY <3>1 DEF Mode
        <3>3. CASE outcome = "irrelevant"
            <4>1. Mode' = "open" /\ sinceOpened' = sinceOpened
                BY <2>3, <3>1, <3>3 DEF RecordProbe, Mode
            <4> QED BY <3>2, <4>1 DEF Contract!ProbeCanceled
        <3>4. CASE outcome = "failure"
            <4>1. Mode' = "open" /\ sinceOpened' = 0
                BY <2>3, <3>1, <3>4 DEF RecordProbe, OpenNow, Mode
            <4> QED BY <3>2, <4>1 DEF Contract!ProbeFailed
        <3>5. CASE outcome = "success"
            <4>1. Mode' = "closed" /\ sinceOpened' = 0
                BY <2>3, <3>5 DEF RecordProbe, Mode
            <4> QED BY <3>2, <4>1 DEF Contract!ProbeSucceeded
        <3> QED BY <3>3, <3>4, <3>5 DEF Outcomes
    <2>4. CASE RecordClosed(r, outcome)
        <3>1. ~open /\ Probing = {} /\ Probing' = {}
            BY <2>1, <2>4, CurrentAnswer DEF RecordClosed
        <3>2. CASE OpenNow
            <4>1. Mode = "closed" /\ Mode' = "open" /\ sinceOpened' = 0
                BY <3>1, <3>2 DEF OpenNow, Mode
            <4> QED BY <4>1 DEF Contract!Opened
        <3>3. CASE UNCHANGED <<open, sinceOpened>>
            <4>1. Mode' = Mode /\ sinceOpened' = sinceOpened
                BY <3>1, <3>3 DEF Mode
            <4> QED BY <4>1
        <3> QED BY <2>4, <3>2, <3>3 DEF RecordClosed
    <2> QED BY <1>3, <2>2, <2>3, <2>4 DEF Record
<1>4. CASE Tick
    <2>1. Mode # "closed" /\ Mode' = Mode /\ sinceOpened' = sinceOpened + 1
        BY <1>4 DEF Tick, Mode, Probing
    <2> QED BY <1>4, <2>1 DEF Tick, Contract!Elapse
<1> QED BY <1>1, <1>2, <1>3, <1>4 DEF Next

\* The breaker implements the three-state contract, for any callers.
THEOREM BreakerRefinesContract == Spec => ImplementsContract
<1>1. Init => Contract!ContractInit
    BY DEF Init, Contract!ContractInit, Mode
<1>2. IInv /\ [Next]_vars => [Contract!ContractNext]_(Contract!contractVars)
    BY StepSimulation
<1> QED BY <1>1, <1>2, AlwaysIInv, PTL DEF Spec, ImplementsContract, Contract!ContractSpec

-----------------------------------------------------------------------------
(* Reliable delivery.  The inductive invariant says what a worker's record   *)
(* tells: which settlement it may be making, that a failed lease extension   *)
(* excludes one, and that an acknowledgement, planned or on the wire, is of  *)
(* a message that was handled or is on the dead-letter stream.               *)

Pending == {"publishing", "acking"}

WorkerRecords ==
    [pc : {"loop", "quarantine", "handling", "backoff", "joining", "planned", "settling", "exited"},
     job : Messages \cup {NoMessage}, attempt : Nat, plan : {"none", "Acknowledge", "DeadLetter"},
     callback : {"none", "start", "published", "ok", "failed"} \cup Pending,
     ext : {"none", "waiting", "calling", "ended", "failed"}, canceled : BOOLEAN]

Calls == [op : {"publish", "ack"}, msg : Messages, from : Workers \cup {NoWorker}]

DeliveryTypeOK ==
    /\ worker \in [Workers -> WorkerRecords]
    /\ ctxDone \in BOOLEAN /\ extending \in BOOLEAN
    /\ status \in [Messages -> {"absent", "ready", "leased", "acked", "spent"}]
    /\ dlq \in [Messages -> Nat]
    /\ remembered \subseteq Messages /\ forgotten \subseteq Messages /\ handled \subseteq Messages
    /\ wire \subseteq Calls
    /\ faults \in Nat

\* What a worker's record tells about its delivery.
Sound(rec) ==
    /\ rec.pc \in {"loop", "exited"} => rec.ext = "none"
    /\ rec.pc \notin {"loop", "exited"} => rec.job \in Messages
    /\ rec.callback # "none" => rec.pc \in {"settling", "quarantine"}
    \* The lease: a settlement begins when the extender has ended well.
    /\ rec.ext # "none" => extending
    /\ rec.canceled => rec.ext = "failed"
    /\ rec.pc \in {"planned", "settling", "quarantine"} =>
          rec.ext \in {"none", "ended"} /\ rec.plan # "none"
    /\ rec.pc = "joining" /\ rec.plan = "none" => ctxDone \/ rec.ext = "failed"
    \* The evidence.
    /\ rec.plan = "Acknowledge" => rec.job \in handled
    /\ rec.callback = "published" => rec.job \in Buried

WorkersInv == \A w \in Workers : Sound(worker[w])

\* A call that has a caller is the one its caller waits for.
CallsInv ==
    \A c \in wire : c.from # NoWorker =>
        /\ c.msg = worker[c.from].job
        /\ worker[c.from].callback = IF c.op = "publish" THEN "publishing" ELSE "acking"

\* Whoever sent it, an acknowledgement may arrive.
AcksInv == \A c \in wire : c.op = "ack" => c.msg \in handled \cup Buried

\* The dead-letter stream remembers a copy's ID, or its window has passed.
CopiesInv ==
    /\ \A m \in Messages : dlq[m] > 0 => m \in remembered \cup forgotten
    /\ \A m \in remembered : dlq[m] > 0
    /\ OneDeadLetterCopy

DeliveryInv == WorkersInv /\ CallsInv /\ AcksInv /\ CopiesInv
-----------------------------------------------------------------------------
(* Lemmas about a worker's record, whatever step changed it *)

\* What a worker's record tells stays true as evidence grows.
LEMMA SoundStays ==
  ASSUME NEW rec, Sound(rec), extending' = extending, ctxDone => ctxDone',
         handled \subseteq handled', Buried \subseteq Buried'
  PROVE  Sound(rec)'
BY DEF Sound

\* Every action sets one worker's record, or none.
LEMMA OneWorker ==
  ASSUME DeliveryTypeOK, WorkersInv, NEW w \in Workers, NEW rec \in WorkerRecords,
         worker' = [worker EXCEPT ![w] = rec], extending' = extending, ctxDone => ctxDone',
         handled \subseteq handled', Buried \subseteq Buried', Sound(rec)'
  PROVE  worker' \in [Workers -> WorkerRecords] /\ WorkersInv'
<1>1. worker' \in [Workers -> WorkerRecords]
  BY DEF DeliveryTypeOK
<1>2. ASSUME NEW v \in Workers PROVE Sound(worker[v])'
  <2>1. worker'[v] = IF v = w THEN rec ELSE worker[v]
    BY DEF DeliveryTypeOK
  <2>2. CASE v = w
    BY <2>1, <2>2 DEF Sound
  <2>3. CASE v # w
    <3>1. Sound(worker[v])
      BY DEF WorkersInv
    <3>2. worker'[v] = worker[v]
      BY <2>1, <2>3
    <3> QED
      BY <3>1, <3>2 DEF Sound
  <2> QED
    BY <2>2, <2>3
<1> QED
  BY <1>1, <1>2 DEF WorkersInv

LEMMA IdleIsSound == Idle \in WorkerRecords /\ Gone \in WorkerRecords /\ Sound(Idle) /\ Sound(Gone)
BY DEF Idle, Gone, WorkerRecords, Sound

\* A worker without a pending call has none on the wire.
LEMMA QuietCalls ==
  ASSUME DeliveryTypeOK, CallsInv, NEW w \in Workers, NEW rec \in WorkerRecords,
         worker' = [worker EXCEPT ![w] = rec], wire' = wire,
         \/ worker[w].callback \notin Pending
         \/ rec.callback = worker[w].callback /\ rec.job = worker[w].job
  PROVE  wire' \subseteq Calls /\ CallsInv'
<1>1. ASSUME NEW c \in wire, c.from # NoWorker
      PROVE  /\ c.msg = worker'[c.from].job
             /\ worker'[c.from].callback = IF c.op = "publish" THEN "publishing" ELSE "acking"
  <2>1. c.from \in Workers
    BY <1>1 DEF DeliveryTypeOK, Calls
  <2>2. /\ c.msg = worker[c.from].job
        /\ worker[c.from].callback = IF c.op = "publish" THEN "publishing" ELSE "acking"
    BY <1>1 DEF CallsInv
  <2>3. worker'[c.from] = IF c.from = w THEN rec ELSE worker[c.from]
    BY <2>1 DEF DeliveryTypeOK
  <2> QED
    BY <2>2, <2>3 DEF Pending
<1> QED
  BY <1>1 DEF CallsInv, DeliveryTypeOK

\* The calls of workers that went away are still those of the others.
LEMMA OrphanCalls ==
  ASSUME DeliveryTypeOK, CallsInv, AcksInv, NEW ws \in SUBSET Workers, wire' = Orphan(ws),
         \A v \in Workers \ ws : worker'[v] = worker[v],
         handled \subseteq handled', Buried \subseteq Buried'
  PROVE  wire' \subseteq Calls /\ CallsInv' /\ AcksInv'
<1>1. ASSUME NEW d \in wire'
      PROVE  /\ d \in Calls
             /\ d.from # NoWorker =>
                   /\ d.msg = worker'[d.from].job
                   /\ worker'[d.from].callback = IF d.op = "publish" THEN "publishing" ELSE "acking"
             /\ d.op = "ack" => d.msg \in handled' \cup Buried'
  <2>1. PICK c \in wire : d = [c EXCEPT !.from = IF c.from \in ws THEN NoWorker ELSE c.from]
    BY <1>1 DEF Orphan
  <2>2. /\ c \in Calls /\ d \in Calls /\ d.op = c.op /\ d.msg = c.msg
        /\ d.from = IF c.from \in ws THEN NoWorker ELSE c.from
    BY <2>1 DEF DeliveryTypeOK, Calls
  <2>3. d.from # NoWorker => c.from # NoWorker /\ d.from = c.from /\ c.from \in Workers \ ws
    BY <2>2 DEF Calls
  <2> QED
    BY <2>2, <2>3 DEF CallsInv, AcksInv
<1> QED
  BY <1>1 DEF CallsInv, AcksInv

\* As long as the broker's copies and what it remembers of them do not change.
LEMMA SameCopies ==
  ASSUME CopiesInv, UNCHANGED <<dlq, remembered, forgotten>>
  PROVE  CopiesInv' /\ Buried' = Buried
BY DEF CopiesInv, OneDeadLetterCopy, Buried
-----------------------------------------------------------------------------
(* Steps of the worker and of its extender *)

Statuses == [Messages -> {"absent", "ready", "leased", "acked", "spent"}]

Preserved == DeliveryTypeOK' /\ DeliveryInv'

\* A step that sets one record and nothing of what is on the wire or stored.
LEMMA QuietStep ==
  ASSUME DeliveryTypeOK, DeliveryInv, NEW w \in Workers, NEW rec \in WorkerRecords,
         worker' = [worker EXCEPT ![w] = rec],
         UNCHANGED <<dlq, remembered, forgotten, wire, extending>>,
         status' \in Statuses, faults' \in Nat, ctxDone' = ctxDone,
         handled \subseteq handled', handled' \subseteq Messages,
         \/ worker[w].callback \notin Pending
         \/ rec.callback = worker[w].callback /\ rec.job = worker[w].job,
         Sound(rec)'
  PROVE  Preserved
<1>1. CopiesInv' /\ Buried' = Buried
  BY SameCopies DEF DeliveryInv
<1>2. worker' \in [Workers -> WorkerRecords] /\ WorkersInv'
  BY <1>1, OneWorker DEF DeliveryInv
<1>3. wire' \subseteq Calls /\ CallsInv'
  BY QuietCalls DEF DeliveryInv
<1>4. AcksInv'
  BY <1>1 DEF AcksInv, DeliveryInv
<1>5. ctxDone' \in BOOLEAN /\ extending' \in BOOLEAN
  BY DEF DeliveryTypeOK
<1> QED
  BY <1>1, <1>2, <1>3, <1>4, <1>5 DEF DeliveryInv, DeliveryTypeOK, Statuses, Preserved

\* A worker returns, canceled or having failed the group.
LEMMA LeaveStep ==
  ASSUME DeliveryTypeOK, DeliveryInv, NEW w \in Workers, Leave(w),
         UNCHANGED <<brokerVars, handled, extending>>, faults' \in Nat,
         ctxDone => ctxDone', ctxDone' \in BOOLEAN
  PROVE  Preserved
<1>1. CopiesInv' /\ Buried' = Buried
  BY SameCopies DEF DeliveryInv, brokerVars
<1>2. Sound(Gone)'
  BY IdleIsSound, <1>1, SoundStays DEF brokerVars
<1>3. worker' \in [Workers -> WorkerRecords] /\ WorkersInv'
  BY <1>1, <1>2, IdleIsSound, OneWorker DEF DeliveryInv, Leave
<1>4. \A v \in Workers \ {w} : worker'[v] = worker[v]
  BY DEF Leave, DeliveryTypeOK
<1>5. wire' \subseteq Calls /\ CallsInv' /\ AcksInv'
  BY <1>1, <1>4, OrphanCalls DEF DeliveryInv, Leave
<1> QED
  BY <1>1, <1>3, <1>5 DEF DeliveryInv, DeliveryTypeOK, brokerVars, Preserved

LEMMA FaultCounts == ASSUME DeliveryTypeOK, Fault PROVE faults' \in Nat
BY DEF DeliveryTypeOK, Fault

\* The record of a worker and what it tells.
LEMMA RecordFacts ==
  ASSUME DeliveryTypeOK, DeliveryInv, NEW w \in Workers
  PROVE  worker[w] \in WorkerRecords /\ Sound(worker[w])
BY DEF DeliveryTypeOK, DeliveryInv, WorkersInv

LEMMA ReceiveSteps ==
  ASSUME DeliveryTypeOK, DeliveryInv, extending' = extending, NEW w \in Workers,
         LoopExits(w) \/ ReceiveFails(w) \/ \E m \in Messages : Receive(w, m)
  PROVE  Preserved
<1>1. CASE LoopExits(w)
  BY <1>1, LeaveStep DEF LoopExits, Exit, DeliveryTypeOK
<1>2. CASE ReceiveFails(w)
  BY <1>2, LeaveStep, FaultCounts DEF ReceiveFails, Fail
<1>3. ASSUME NEW m \in Messages, Receive(w, m) PROVE Preserved
  <2>1. worker[w].callback \notin Pending
    BY <1>3, RecordFacts DEF Receive, Sound, Pending
  <2> PICK rec \in WorkerRecords :
        /\ worker' = [worker EXCEPT ![w] = rec]
        /\ rec.job = m /\ rec.ext = (IF extending /\ rec.pc = "handling" THEN "waiting" ELSE "none")
        /\ rec.canceled = FALSE
        /\ \/ rec.pc = "quarantine" /\ rec.plan = "DeadLetter" /\ rec.callback = "start"
           \/ rec.pc = "handling" /\ rec.plan = "none" /\ rec.callback = "none"
    <3> DEFINE malformed == [Idle EXCEPT !.pc = "quarantine", !.job = m, !.plan = "DeadLetter",
                                         !.callback = "start"]
               wellFormed == [Idle EXCEPT !.pc = "handling", !.job = m, !.attempt = 1,
                                          !.ext = IF extending THEN "waiting" ELSE "none"]
    <3>1. malformed \in WorkerRecords /\ wellFormed \in WorkerRecords
      BY DEF WorkerRecords, Idle
    <3>2. worker' = [worker EXCEPT ![w] = IF m \in Malformed THEN malformed ELSE wellFormed]
      BY <1>3 DEF Receive
    <3>3. CASE m \in Malformed
      BY <3>1, <3>2, <3>3 DEF Idle
    <3>4. CASE m \notin Malformed
      BY <3>1, <3>2, <3>4 DEF Idle
    <3> QED
      BY <3>3, <3>4
  <2>2. Sound(rec)'
    BY DEF Sound
  <2>3. status' \in Statuses
    BY <1>3 DEF Receive, Deliver, Statuses, DeliveryTypeOK
  <2>4. UNCHANGED <<ctxDone, dlq, remembered, forgotten, wire, handled, faults>>
    BY <1>3 DEF Receive
  <2> QED
    BY <2>1, <2>2, <2>3, <2>4, QuietStep DEF DeliveryTypeOK
<1> QED
  BY <1>1, <1>2, <1>3

\* A worker that handles, waits or joins has no settlement callback.
LEMMA PlanStep ==
  ASSUME DeliveryTypeOK, DeliveryInv, extending' = extending, NEW w \in Workers,
         NEW plan \in {"none", "Acknowledge", "DeadLetter"},
         worker[w].pc \in {"handling", "backoff"}, Planned(w, plan),
         plan = "Acknowledge" => worker[w].job \in handled',
         plan = "none" => extending /\ DeliveryDone(w),
         handled \subseteq handled', handled' \subseteq Messages,
         UNCHANGED <<ctxDone, brokerVars, wire, faults>>
  PROVE  Preserved
<1>1. worker[w] \in WorkerRecords /\ Sound(worker[w])
  BY RecordFacts
<1> PICK rec \in WorkerRecords :
      rec = [worker[w] EXCEPT !.plan = plan, !.pc = IF extending THEN "joining" ELSE "planned"]
  BY <1>1 DEF WorkerRecords
<1>2. worker' = [worker EXCEPT ![w] = rec]
  BY DEF Planned
<1>3. /\ rec.pc = (IF extending THEN "joining" ELSE "planned") /\ rec.plan = plan
      /\ rec.job = worker[w].job /\ rec.callback = worker[w].callback
      /\ rec.ext = worker[w].ext /\ rec.canceled = worker[w].canceled
  BY <1>1 DEF WorkerRecords
<1>4. Sound(rec)'
  BY <1>1, <1>3 DEF Sound, DeliveryDone, brokerVars, Buried
<1>5. UNCHANGED <<dlq, remembered, forgotten, wire, extending>> /\ status' = status
  BY DEF brokerVars
<1> QED
  BY <1>2, <1>3, <1>4, <1>5, QuietStep DEF DeliveryTypeOK, Statuses

LEMMA HandlerSteps ==
  ASSUME DeliveryTypeOK, DeliveryInv, extending' = extending, NEW w \in Workers,
         \/ HandlerSucceeds(w) \/ \E permanent \in BOOLEAN : HandlerFails(w, permanent)
         \/ BackoffEnds(w) \/ PlanCanceled(w) \/ HandlerPanics(w)
  PROVE  Preserved
<1>0. worker[w] \in WorkerRecords /\ Sound(worker[w])
  BY RecordFacts
<1>1. CASE HandlerSucceeds(w)
  <2>1. worker[w].job \in Messages
    BY <1>0, <1>1 DEF HandlerSucceeds, Sound
  <2>2. /\ worker[w].job \in handled' /\ handled \subseteq handled' /\ handled' \subseteq Messages
        /\ Planned(w, "Acknowledge") /\ UNCHANGED <<ctxDone, brokerVars, wire, faults>>
    BY <1>1, <2>1 DEF HandlerSucceeds, DeliveryTypeOK
  <2> QED
    BY <1>1, <2>2, PlanStep DEF HandlerSucceeds
<1>2. ASSUME worker[w].pc \in {"handling", "backoff"}, NEW next \in {"handling", "backoff"},
             NEW count \in Nat, worker' = [worker EXCEPT ![w] = [worker[w] EXCEPT !.pc = next, !.attempt = count]],
             UNCHANGED <<ctxDone, brokerVars, wire, handled, faults>>
      PROVE  Preserved
  <2> PICK rec \in WorkerRecords : rec = [worker[w] EXCEPT !.pc = next, !.attempt = count]
    BY <1>0 DEF WorkerRecords
  <2>1. /\ rec.pc = next /\ rec.plan = worker[w].plan
        /\ rec.job = worker[w].job /\ rec.callback = worker[w].callback
        /\ rec.ext = worker[w].ext /\ rec.canceled = worker[w].canceled
    BY <1>0 DEF WorkerRecords
  <2>2. Sound(rec)'
    BY <1>0, <1>2, <2>1 DEF Sound, brokerVars, Buried
  <2>3. UNCHANGED <<dlq, remembered, forgotten, wire, extending>> /\ status' = status
    BY <1>2 DEF brokerVars
  <2> QED
    BY <1>2, <2>1, <2>2, <2>3, QuietStep DEF DeliveryTypeOK, Statuses
<1>3. ASSUME NEW permanent \in BOOLEAN, HandlerFails(w, permanent) PROVE Preserved
  <2>1. CASE Planned(w, "DeadLetter")
    BY <1>3, <2>1, PlanStep DEF HandlerFails, DeliveryTypeOK
  <2>2. CASE worker' = [worker EXCEPT ![w].pc = "backoff"]
    <3>0. [worker[w] EXCEPT !.pc = "backoff", !.attempt = worker[w].attempt] = [worker[w] EXCEPT !.pc = "backoff"]
      BY <1>0 DEF WorkerRecords
    <3>1. worker' = [worker EXCEPT ![w] = [worker[w] EXCEPT !.pc = "backoff", !.attempt = worker[w].attempt]]
      BY <2>2, <3>0
    <3> QED
      BY <1>0, <1>2, <1>3, <3>1 DEF HandlerFails, WorkerRecords
  <2> QED
    BY <1>3, <2>1, <2>2 DEF HandlerFails
<1>4. CASE BackoffEnds(w)
  <2>1. worker' = [worker EXCEPT ![w] = [worker[w] EXCEPT !.pc = "handling", !.attempt = worker[w].attempt + 1]]
    BY <1>4 DEF BackoffEnds
  <2>2. worker[w].attempt + 1 \in Nat
    BY <1>0 DEF WorkerRecords
  <2> QED
    BY <1>2, <1>4, <2>1, <2>2 DEF BackoffEnds
<1>5. CASE PlanCanceled(w)
  <2>1. CASE extending
    BY <1>5, <2>1, PlanStep DEF PlanCanceled, DeliveryTypeOK
  <2>2. CASE ~extending
    BY <1>5, <2>2, LeaveStep DEF PlanCanceled, Exit, DeliveryTypeOK
  <2> QED
    BY <2>1, <2>2
<1>6. CASE HandlerPanics(w)
  BY <1>6, LeaveStep, FaultCounts DEF HandlerPanics, Fail
<1> QED
  BY <1>1, <1>3, <1>4, <1>5, <1>6
LEMMA ExtenderSteps ==
  ASSUME DeliveryTypeOK, DeliveryInv, extending' = extending, NEW w \in Workers,
         ExtensionStep(w) \/ ExtensionFails(w)
  PROVE  Preserved
<1>0. worker[w] \in WorkerRecords /\ Sound(worker[w])
  BY RecordFacts
<1>1. ASSUME worker[w].ext \in {"waiting", "calling"},
             NEW state \in {"waiting", "calling", "ended", "failed"}, NEW canceled \in BOOLEAN,
             canceled => state = "failed",
             worker' = [worker EXCEPT ![w] = [worker[w] EXCEPT !.ext = state, !.canceled = canceled]],
             UNCHANGED <<ctxDone, brokerVars, wire, handled>>, faults' \in Nat
      PROVE  Preserved
  <2> PICK rec \in WorkerRecords : rec = [worker[w] EXCEPT !.ext = state, !.canceled = canceled]
    BY <1>0 DEF WorkerRecords
  <2>1. /\ rec.pc = worker[w].pc /\ rec.plan = worker[w].plan
        /\ rec.job = worker[w].job /\ rec.callback = worker[w].callback
        /\ rec.ext = state /\ rec.canceled = canceled
    BY <1>0 DEF WorkerRecords
  <2>2. Sound(rec)'
    <3>1. worker[w].pc \notin {"loop", "exited", "planned", "settling", "quarantine"}
      BY <1>0, <1>1 DEF Sound
    <3>2. Buried' = Buried
      BY <1>1 DEF brokerVars, Buried
    <3>3. rec.pc = "joining" /\ rec.plan = "none" => ctxDone
      BY <1>0, <1>1, <2>1 DEF Sound
    <3> QED
      BY <1>0, <1>1, <2>1, <3>1, <3>2, <3>3 DEF Sound
  <2>3. UNCHANGED <<dlq, remembered, forgotten, wire, extending>> /\ status' = status
    BY <1>1 DEF brokerVars
  <2> QED
    BY <1>1, <2>1, <2>2, <2>3, QuietStep DEF DeliveryTypeOK, Statuses
<1>2. ASSUME NEW state, worker' = [worker EXCEPT ![w].ext = state]
      PROVE  worker' = [worker EXCEPT ![w] = [worker[w] EXCEPT !.ext = state, !.canceled = worker[w].canceled]]
  <2>1. [worker[w] EXCEPT !.ext = state, !.canceled = worker[w].canceled] = [worker[w] EXCEPT !.ext = state]
    BY <1>0 DEF WorkerRecords
  <2> QED
    BY <1>2, <2>1
<1>3. ~worker[w].canceled \/ worker[w].ext = "failed"
  BY <1>0 DEF Sound, WorkerRecords
<1>4. worker[w].canceled \in BOOLEAN /\ faults \in Nat
  BY <1>0 DEF WorkerRecords, DeliveryTypeOK
<1>5. CASE ExtensionFires(w)
  BY <1>1, <1>2, <1>3, <1>4, <1>5 DEF ExtensionFires
<1>6. CASE ExtensionOk(w)
  BY <1>1, <1>2, <1>3, <1>4, <1>6 DEF ExtensionOk
<1>7. CASE ExtensionCanceled(w)
  BY <1>1, <1>2, <1>3, <1>4, <1>7 DEF ExtensionCanceled
<1>8. CASE ExtensionStops(w)
  BY <1>1, <1>2, <1>3, <1>4, <1>8 DEF ExtensionStops
<1>9. CASE ExtensionFails(w)
  BY <1>1, <1>9, FaultCounts DEF ExtensionFails
<1> QED
  BY <1>5, <1>6, <1>7, <1>8, <1>9 DEF ExtensionStep

\* The settlement begins after the extender has ended well, and only with a plan.
LEMMA JoinSteps ==
  ASSUME DeliveryTypeOK, DeliveryInv, extending' = extending, NEW w \in Workers,
         Join(w) \/ SettleBegins(w)
  PROVE  Preserved
<1>0. worker[w] \in WorkerRecords /\ Sound(worker[w])
  BY RecordFacts
<1>1. CASE worker' = [worker EXCEPT ![w].pc = "planned"] /\ Join(w) /\ worker[w].ext = "ended" /\ ~ctxDone
           /\ UNCHANGED <<ctxDone, wire, faults>>
  <2> PICK rec \in WorkerRecords : rec = [worker[w] EXCEPT !.pc = "planned"]
    BY <1>0 DEF WorkerRecords
  <2>1. /\ rec.pc = "planned" /\ rec.plan = worker[w].plan /\ rec.job = worker[w].job
        /\ rec.callback = worker[w].callback /\ rec.ext = "ended" /\ rec.canceled = worker[w].canceled
    BY <1>0, <1>1 DEF WorkerRecords
  <2>2. UNCHANGED <<dlq, remembered, forgotten, extending, handled>> /\ status' = status /\ Buried' = Buried
    BY <1>1 DEF Join, brokerVars, Buried
  <2>3. worker[w].pc = "joining" /\ worker[w].callback = "none" /\ worker[w].plan # "none"
    BY <1>0, <1>1 DEF Join, Sound
  <2>4. Sound(rec)'
    BY <1>0, <1>1, <2>1, <2>2, <2>3 DEF Sound
  <2> QED
    BY <1>1, <2>1, <2>2, <2>4, QuietStep DEF DeliveryTypeOK, Statuses
<1>2. CASE worker' = [worker EXCEPT ![w] = [worker[w] EXCEPT !.pc = "settling", !.callback = "start"]]
           /\ SettleBegins(w) /\ UNCHANGED <<ctxDone, wire, faults>>
  <2> PICK rec \in WorkerRecords : rec = [worker[w] EXCEPT !.pc = "settling", !.callback = "start"]
    BY <1>0 DEF WorkerRecords
  <2>1. /\ rec.pc = "settling" /\ rec.plan = worker[w].plan /\ rec.job = worker[w].job
        /\ rec.callback = "start" /\ rec.ext = worker[w].ext /\ rec.canceled = worker[w].canceled
    BY <1>0 DEF WorkerRecords
  <2>2. UNCHANGED <<dlq, remembered, forgotten, extending, handled>> /\ status' = status /\ Buried' = Buried
    BY <1>2 DEF SettleBegins, brokerVars, Buried
  <2>3. worker[w].pc = "planned" /\ worker[w].callback \notin Pending
    BY <1>0, <1>2 DEF SettleBegins, Sound, Pending
  <2>4. Sound(rec)'
    BY <1>0, <1>2, <2>1, <2>2, <2>3 DEF Sound
  <2> QED
    BY <1>2, <2>2, <2>3, <2>4, QuietStep DEF DeliveryTypeOK, Statuses
<1>3. CASE Leave(w) /\ (Join(w) \/ SettleBegins(w)) /\ faults' = faults /\ (ctxDone => ctxDone') /\ ctxDone' \in BOOLEAN
  <2>1. UNCHANGED <<brokerVars, handled>> /\ faults' \in Nat
    BY <1>3 DEF Join, SettleBegins, DeliveryTypeOK
  <2> QED
    BY <1>3, <2>1, LeaveStep
<1>4. CASE Join(w)
  <2>1. CASE Exit(w)
    BY <1>3, <1>4, <2>1 DEF Exit, DeliveryTypeOK
  <2>2. CASE Fail(w) /\ faults' = faults
    BY <1>3, <1>4, <2>2 DEF Fail
  <2>3. CASE worker' = [worker EXCEPT ![w].pc = "planned"] /\ worker[w].ext = "ended" /\ ~ctxDone
             /\ UNCHANGED <<ctxDone, wire, faults>>
    BY <1>1, <1>4, <2>3
  <2> QED
    BY <1>4, <2>1, <2>2, <2>3 DEF Join
<1>5. CASE SettleBegins(w)
  BY <1>2, <1>3, <1>5 DEF SettleBegins, Exit, DeliveryTypeOK
<1> QED
  BY <1>4, <1>5
-----------------------------------------------------------------------------
(* Steps of the settlement callback and of the broker *)

\* The callback sends what its plan and its last answer justify.
LEMMA CallbackStep ==
  ASSUME DeliveryTypeOK, DeliveryInv, extending' = extending, NEW w \in Workers, CallbackCalls(w)
  PROVE  Preserved
<1>0. worker[w] \in WorkerRecords /\ Sound(worker[w])
  BY RecordFacts
<1> PICK op \in {"publish", "ack"} :
      /\ op = "publish" <=> worker[w].callback = "start" /\ worker[w].plan = "DeadLetter"
      /\ Send(w, op)
      /\ worker' = [worker EXCEPT ![w].callback = IF op = "publish" THEN "publishing" ELSE "acking"]
  BY DEF CallbackCalls
<1> PICK callback \in Pending : callback = IF op = "publish" THEN "publishing" ELSE "acking"
  BY DEF Pending
<1> PICK rec \in WorkerRecords : rec = [worker[w] EXCEPT !.callback = callback]
  BY <1>0 DEF WorkerRecords
<1> PICK call \in [op : {op}, msg : {worker[w].job}, from : {w}] : wire' = wire \cup {call}
  BY DEF Send
<1>1. /\ rec.pc = worker[w].pc /\ rec.plan = worker[w].plan /\ rec.job = worker[w].job
      /\ rec.callback = callback /\ rec.ext = worker[w].ext /\ rec.canceled = worker[w].canceled
  BY <1>0 DEF WorkerRecords
<1>2. /\ worker[w].callback \in {"start", "published"}
      /\ UNCHANGED <<ctxDone, dlq, remembered, forgotten, handled, faults, status>> /\ Buried' = Buried
  BY DEF CallbackCalls, brokerVars, Buried
<1>3. worker[w].pc \in {"settling", "quarantine"} /\ worker[w].plan # "none" /\ worker[w].job \in Messages
  BY <1>0, <1>2 DEF Sound
<1>4. Sound(rec)'
  BY <1>0, <1>1, <1>2, <1>3 DEF Sound, Pending
<1>5. worker' = [worker EXCEPT ![w] = rec]
  OBVIOUS
<1>6. worker' \in [Workers -> WorkerRecords] /\ WorkersInv'
  BY <1>2, <1>4, <1>5, OneWorker DEF DeliveryInv
<1>7. CopiesInv'
  BY <1>2, SameCopies DEF DeliveryInv
<1>8. call \in Calls /\ call.op = op /\ call.msg = worker[w].job /\ call.from = w
  BY <1>3 DEF Calls
<1>9. w # NoWorker
  BY DeliveryAssumption
<1>10. AcksInv'
  <2>1. op = "ack" => worker[w].job \in handled \cup Buried
    BY <1>0, <1>2, <1>3 DEF Sound, WorkerRecords
  <2> QED
    BY <1>2, <1>8, <2>1 DEF AcksInv, DeliveryInv
<1>11. ASSUME NEW c \in wire', c.from # NoWorker
       PROVE  /\ c.msg = worker'[c.from].job
              /\ worker'[c.from].callback = IF c.op = "publish" THEN "publishing" ELSE "acking"
  <2>1. CASE c = call
    BY <1>1, <1>5, <1>8, <2>1 DEF DeliveryTypeOK
  <2>2. CASE c \in wire
    <3>1. /\ c.from \in Workers /\ c.msg = worker[c.from].job
          /\ worker[c.from].callback = IF c.op = "publish" THEN "publishing" ELSE "acking"
      BY <1>11, <2>2 DEF DeliveryTypeOK, Calls, DeliveryInv, CallsInv
    <3>2. c.from # w
      BY <1>2, <3>1
    <3>3. worker'[c.from] = worker[c.from]
      BY <1>5, <3>1, <3>2 DEF DeliveryTypeOK
    <3> QED
      BY <3>1, <3>3
  <2> QED
    BY <2>1, <2>2
<1>12. CallsInv'
  BY <1>11 DEF CallsInv
<1> QED
  BY <1>2, <1>6, <1>7, <1>8, <1>10, <1>12 DEF DeliveryTypeOK, DeliveryInv, Preserved

\* An error of a broker call: the call stays on the wire and nobody waits for it.
LEMMA CallbackFailure ==
  ASSUME DeliveryTypeOK, DeliveryInv, extending' = extending, NEW w \in Workers, CallbackFails(w)
  PROVE  Preserved
<1>0. worker[w] \in WorkerRecords /\ Sound(worker[w])
  BY RecordFacts
<1> PICK rec \in WorkerRecords : rec = [worker[w] EXCEPT !.callback = "failed"]
  BY <1>0 DEF WorkerRecords
<1>1. /\ rec.pc = worker[w].pc /\ rec.plan = worker[w].plan /\ rec.job = worker[w].job
      /\ rec.callback = "failed" /\ rec.ext = worker[w].ext /\ rec.canceled = worker[w].canceled
  BY <1>0 DEF WorkerRecords
<1>2. /\ worker[w].callback \in Pending /\ wire' = Orphan({w})
      /\ worker' = [worker EXCEPT ![w] = rec]
      /\ UNCHANGED <<ctxDone, dlq, remembered, forgotten, handled, status>> /\ Buried' = Buried
  BY DEF CallbackFails, brokerVars, Buried, Pending
<1>3. Sound(rec)'
  BY <1>0, <1>1, <1>2 DEF Sound, Pending
<1>4. worker' \in [Workers -> WorkerRecords] /\ WorkersInv'
  BY <1>2, <1>3, OneWorker DEF DeliveryInv
<1>5. CopiesInv'
  BY <1>2, SameCopies DEF DeliveryInv
<1>6. \A v \in Workers \ {w} : worker'[v] = worker[v]
  BY <1>2 DEF DeliveryTypeOK
<1>7. wire' \subseteq Calls /\ CallsInv' /\ AcksInv'
  BY <1>2, <1>6, OrphanCalls DEF DeliveryInv
<1>8. faults' \in Nat
  BY FaultCounts DEF CallbackFails
<1> QED
  BY <1>2, <1>4, <1>5, <1>7, <1>8 DEF DeliveryTypeOK, DeliveryInv, Preserved

LEMMA SettleSteps ==
  ASSUME DeliveryTypeOK, DeliveryInv, extending' = extending, NEW w \in Workers,
         SettleEnds(w) \/ QuarantineEnds(w) \/ SettleTimesOut(w) \/ SettleCanceled(w)
  PROVE  Preserved
<1>1. CASE worker[w].callback = "ok" /\ worker' = [worker EXCEPT ![w] = Idle]
           /\ UNCHANGED <<ctxDone, brokerVars, wire, handled, faults>>
  <2> PICK rec \in WorkerRecords : rec = Idle
    BY IdleIsSound
  <2>1. Sound(rec)'
    BY DEF Sound, Idle
  <2>2. worker[w].callback \notin Pending /\ UNCHANGED <<dlq, remembered, forgotten>> /\ status' = status
    BY <1>1 DEF Pending, brokerVars
  <2> QED
    BY <1>1, <2>1, <2>2, QuietStep DEF DeliveryTypeOK, Statuses
<1>2. CASE Leave(w) /\ UNCHANGED <<brokerVars, handled>> /\ faults' \in Nat
           /\ (ctxDone => ctxDone') /\ ctxDone' \in BOOLEAN
  BY <1>2, LeaveStep
<1>3. CASE SettleEnds(w)
  BY <1>1, <1>2, <1>3 DEF SettleEnds, Fail, DeliveryTypeOK
<1>4. CASE QuarantineEnds(w)
  BY <1>1, <1>2, <1>4 DEF QuarantineEnds, Fail, DeliveryTypeOK
<1>5. CASE SettleTimesOut(w)
  BY <1>2, <1>5, FaultCounts DEF SettleTimesOut, Fail
<1>6. CASE SettleCanceled(w)
  BY <1>2, <1>6 DEF SettleCanceled, Exit, DeliveryTypeOK
<1> QED
  BY <1>3, <1>4, <1>5, <1>6
\* The broker answers the worker that waits for the call, if one still does.
LEMMA AnswerStep ==
  ASSUME DeliveryTypeOK, DeliveryInv, extending' = extending, NEW c \in wire,
         NEW callback \in {"ok", "published"}, Answer(c, callback),
         callback = "published" => c.msg \in Buried',
         wire' = wire \ {c}, UNCHANGED <<ctxDone, handled, faults>>,
         Buried \subseteq Buried', CopiesInv',
         status' \in Statuses, dlq' \in [Messages -> Nat],
         remembered' \subseteq Messages, forgotten' \subseteq Messages
  PROVE  Preserved
<1>1. c \in Calls /\ c.msg \in Messages
  BY DEF DeliveryTypeOK, Calls
<1>2. AcksInv' /\ wire' \subseteq Calls
  BY DEF DeliveryInv, AcksInv, DeliveryTypeOK
<1>3. CASE c.from = NoWorker
  <2>1. worker' = worker
    BY <1>3 DEF Answer
  <2>2. CallsInv'
    BY <2>1 DEF DeliveryInv, CallsInv
  <2>3. WorkersInv'
    <3> SUFFICES ASSUME NEW v \in Workers PROVE Sound(worker[v])'
      BY DEF WorkersInv
    <3>1. Sound(worker[v])
      BY DEF DeliveryInv, WorkersInv
    <3> QED
      BY <2>1, <3>1 DEF Sound
  <2> QED
    BY <1>2, <2>1, <2>2, <2>3 DEF DeliveryInv, DeliveryTypeOK, Preserved, Statuses
<1>4. CASE c.from # NoWorker
  <2> PICK w \in Workers : w = c.from
    BY <1>1, <1>4 DEF Calls
  <2>0. worker[w] \in WorkerRecords /\ Sound(worker[w])
    BY RecordFacts
  <2> PICK rec \in WorkerRecords : rec = [worker[w] EXCEPT !.callback = callback]
    BY <2>0 DEF WorkerRecords
  <2>1. /\ rec.pc = worker[w].pc /\ rec.plan = worker[w].plan /\ rec.job = worker[w].job
        /\ rec.callback = callback /\ rec.ext = worker[w].ext /\ rec.canceled = worker[w].canceled
    BY <2>0 DEF WorkerRecords
  <2>2. worker' = [worker EXCEPT ![w] = rec]
    BY <1>4 DEF Answer
  <2>3. c.msg = worker[w].job /\ worker[w].callback = IF c.op = "publish" THEN "publishing" ELSE "acking"
    BY <1>4 DEF DeliveryInv, CallsInv
  <2>4. Sound(rec)'
    BY <2>0, <2>1, <2>3 DEF Sound
  <2>5. worker' \in [Workers -> WorkerRecords] /\ WorkersInv'
    BY <2>2, <2>4, OneWorker DEF DeliveryInv
  <2>6. ASSUME NEW d \in wire', d.from # NoWorker
        PROVE  /\ d.msg = worker'[d.from].job
               /\ worker'[d.from].callback = IF d.op = "publish" THEN "publishing" ELSE "acking"
    <3>1. /\ d \in Calls /\ d.from \in Workers /\ d.msg = worker[d.from].job /\ d # c
          /\ worker[d.from].callback = IF d.op = "publish" THEN "publishing" ELSE "acking"
      BY <2>6 DEF DeliveryTypeOK, Calls, DeliveryInv, CallsInv
    <3>2. d.from # w
      <4> SUFFICES ASSUME d.from = w PROVE d = c
        BY <3>1
      <4>1. d.op = c.op /\ d.msg = c.msg
        BY <1>1, <2>3, <3>1 DEF Calls
      <4> QED
        BY <1>1, <3>1, <4>1 DEF Calls
    <3> QED
      BY <2>2, <3>1, <3>2 DEF DeliveryTypeOK
  <2>7. CallsInv'
    BY <2>6 DEF CallsInv
  <2> QED
    BY <1>2, <2>5, <2>7 DEF DeliveryInv, DeliveryTypeOK, Preserved, Statuses
<1> QED
  BY <1>3, <1>4

LEMMA BrokerSteps ==
  ASSUME DeliveryTypeOK, DeliveryInv, extending' = extending, NEW c \in wire,
         BrokerAcks(c) \/ BrokerStores(c) \/ BrokerNeverSees(c)
  PROVE  Preserved
<1>0. c.msg \in Messages
  BY DEF DeliveryTypeOK, Calls
<1>1. CASE BrokerAcks(c)
  <2>1. UNCHANGED <<dlq, remembered, forgotten>> /\ status' \in Statuses
    BY <1>1 DEF BrokerAcks, DeliveryTypeOK, Statuses
  <2>2. CopiesInv' /\ Buried' = Buried
    BY <2>1, SameCopies DEF DeliveryInv
  <2> QED
    BY <1>1, <2>1, <2>2, AnswerStep DEF BrokerAcks, DeliveryTypeOK
<1>2. CASE BrokerStores(c)
  <2>1. /\ dlq' = [dlq EXCEPT ![c.msg] = IF c.msg \in remembered THEN @ ELSE @ + 1]
        /\ remembered' = remembered \cup {c.msg} /\ UNCHANGED <<status, forgotten>>
    BY <1>2 DEF BrokerStores
  <2>2. dlq' \in [Messages -> Nat] /\ \A m \in Messages : dlq'[m] >= dlq[m]
    BY <1>0, <2>1 DEF DeliveryTypeOK
  <2>3. dlq'[c.msg] > 0
    BY <1>0, <2>1 DEF DeliveryTypeOK, DeliveryInv, CopiesInv
  <2>4. Buried \subseteq Buried' /\ c.msg \in Buried'
    BY <1>0, <2>2, <2>3 DEF Buried, DeliveryTypeOK
  <2>5. CopiesInv'
    BY <1>0, <2>1, <2>3 DEF DeliveryTypeOK, DeliveryInv, CopiesInv, OneDeadLetterCopy
  <2> QED
    BY <1>0, <1>2, <2>1, <2>2, <2>4, <2>5, AnswerStep DEF BrokerStores, DeliveryTypeOK, Statuses
<1>3. CASE BrokerNeverSees(c)
  <2>1. CopiesInv' /\ Buried' = Buried
    BY <1>3, SameCopies DEF BrokerNeverSees, brokerVars, DeliveryInv
  <2>2. UNCHANGED <<processVars, handled, brokerVars, faults>> /\ wire' \subseteq wire
    BY <1>3 DEF BrokerNeverSees
  <2>3. WorkersInv'
    <3> SUFFICES ASSUME NEW v \in Workers PROVE Sound(worker[v])'
      BY DEF WorkersInv
    <3>1. Sound(worker[v])
      BY DEF DeliveryInv, WorkersInv
    <3> QED
      BY <2>1, <2>2, <3>1 DEF Sound, processVars
  <2>4. CallsInv' /\ AcksInv'
    BY <2>1, <2>2 DEF DeliveryInv, CallsInv, AcksInv, processVars
  <2> QED
    BY <2>1, <2>2, <2>3, <2>4 DEF DeliveryInv, DeliveryTypeOK, Preserved, processVars, brokerVars
<1> QED
  BY <1>1, <1>2, <1>3
-----------------------------------------------------------------------------
(* Steps of nobody's delivery *)

LEMMA SameWorkers ==
  ASSUME DeliveryTypeOK, DeliveryInv, UNCHANGED <<worker, wire, handled, extending>>, Buried' = Buried,
         ctxDone => ctxDone', ctxDone' \in BOOLEAN, CopiesInv',
         status' \in Statuses, dlq' \in [Messages -> Nat],
         remembered' \subseteq Messages, forgotten' \subseteq Messages, faults' \in Nat
  PROVE  Preserved
<1>1. WorkersInv'
  <2> SUFFICES ASSUME NEW v \in Workers PROVE Sound(worker[v])'
    BY DEF WorkersInv
  <2>1. Sound(worker[v])
    BY DEF DeliveryInv, WorkersInv
  <2> QED
    BY <2>1 DEF Sound
<1>2. CallsInv' /\ AcksInv'
  BY DEF DeliveryInv, CallsInv, AcksInv
<1> QED
  BY <1>1, <1>2 DEF DeliveryInv, DeliveryTypeOK, Statuses, Preserved

LEMMA QueueSteps ==
  ASSUME DeliveryTypeOK, DeliveryInv, extending' = extending, NEW m \in Messages,
         ReceiveTooLate(m) \/ WindowPasses(m) \/ LeaseExpires(m)
  PROVE  Preserved
<1>1. CASE ReceiveTooLate(m) \/ LeaseExpires(m)
  <2>1. UNCHANGED <<processVars, dlq, remembered, forgotten, wire, handled>>
    BY <1>1 DEF ReceiveTooLate, LeaseExpires
  <2>2. CopiesInv' /\ Buried' = Buried
    BY <2>1, SameCopies DEF DeliveryInv
  <2>3. status' \in Statuses
    BY <1>1 DEF ReceiveTooLate, Deliver, LeaseExpires, DeliveryTypeOK, Statuses
  <2>4. faults' \in Nat
    BY <1>1, FaultCounts DEF ReceiveTooLate, LeaseExpires, DeliveryTypeOK
  <2> QED
    BY <2>1, <2>2, <2>3, <2>4, SameWorkers DEF processVars, DeliveryTypeOK
<1>2. CASE WindowPasses(m)
  <2>1. /\ UNCHANGED <<processVars, status, dlq, wire, handled>>
        /\ remembered' = remembered \ {m} /\ forgotten' = forgotten \cup {m}
    BY <1>2 DEF WindowPasses
  <2>2. CopiesInv' /\ Buried' = Buried
    BY <2>1 DEF DeliveryInv, CopiesInv, OneDeadLetterCopy, Buried
  <2>3. faults' \in Nat
    BY <1>2, FaultCounts DEF WindowPasses
  <2> QED
    BY <2>1, <2>2, <2>3, SameWorkers DEF processVars, DeliveryTypeOK, Statuses
<1> QED
  BY <1>1, <1>2

\* Whatever the old process had on the wire may still arrive after it is gone.
LEMMA RebornStep ==
  ASSUME DeliveryTypeOK, DeliveryInv, extending' = extending, Reborn, faults' \in Nat
  PROVE  Preserved
<1>1. /\ worker' = [w \in Workers |-> Idle] /\ ctxDone' = FALSE /\ wire' = Orphan(Workers)
      /\ UNCHANGED <<status, dlq, remembered, forgotten, handled>>
  BY DEF Reborn, brokerVars
<1>2. CopiesInv' /\ Buried' = Buried
  BY <1>1, SameCopies DEF DeliveryInv
<1>3. worker' \in [Workers -> WorkerRecords]
  BY <1>1, IdleIsSound
<1>4. WorkersInv'
  <2> SUFFICES ASSUME NEW w \in Workers PROVE Sound(worker[w])'
    BY DEF WorkersInv
  <2>1. worker'[w] = Idle
    BY <1>1
  <2> QED
    BY <2>1 DEF Sound, Idle
<1>5. wire' \subseteq Calls /\ CallsInv' /\ AcksInv'
  BY <1>1, <1>2, OrphanCalls DEF DeliveryInv
<1> QED
  BY <1>1, <1>2, <1>3, <1>4, <1>5 DEF DeliveryInv, DeliveryTypeOK, Preserved

LEMMA DeliveryStep == DeliveryTypeOK /\ DeliveryInv /\ [DeliveryNext]_deliveryVars => Preserved
<1> SUFFICES ASSUME DeliveryTypeOK, DeliveryInv, [DeliveryNext]_deliveryVars PROVE Preserved
  OBVIOUS
<1>1. CASE UNCHANGED deliveryVars
  BY <1>1, SameCopies, SameWorkers
     DEF deliveryVars, movingVars, processVars, brokerVars, configVars, DeliveryTypeOK, DeliveryInv, Statuses
<1>2. CASE DeliveryNext
  <2>0. extending' = extending
    BY <1>2 DEF DeliveryNext, configVars
  <2>1. ASSUME NEW w \in Workers, WorkerStep(w) PROVE Preserved
    BY <2>0, <2>1, ReceiveSteps, HandlerSteps, JoinSteps, CallbackStep, SettleSteps DEF WorkerStep
  <2>2. ASSUME NEW w \in Workers, ExtensionStep(w) PROVE Preserved
    BY <2>0, <2>2, ExtenderSteps
  <2>3. ASSUME NEW w \in Workers, ReceiveNothing(w) PROVE Preserved
    BY <1>1, <1>2, <2>3 DEF ReceiveNothing, deliveryVars, DeliveryNext
  <2>4. CASE BrokerStep
    BY <2>0, <2>4, BrokerSteps DEF BrokerStep
  <2>5. ASSUME NEW m \in Messages, LeaseExpires(m) PROVE Preserved
    BY <2>0, <2>5, QueueSteps
  <2>6. CASE Shutdown
    <3>1. UNCHANGED <<worker, wire, handled, brokerVars>> /\ ctxDone' = TRUE /\ faults' \in Nat
      BY <2>6, FaultCounts DEF Shutdown
    <3> QED
      BY <2>0, <3>1, SameCopies, SameWorkers DEF brokerVars, DeliveryTypeOK, DeliveryInv, Statuses
  <2>7. CASE Crash
    BY <2>0, <2>7, RebornStep, FaultCounts DEF Crash
  <2>8. CASE FaultStep
    BY <2>0, <2>6, <2>7, <2>8, ReceiveSteps, HandlerSteps, ExtenderSteps, CallbackFailure, SettleSteps, QueueSteps
       DEF FaultStep
  <2>9. CASE Restart
    BY <2>0, <2>9, RebornStep DEF Restart, DeliveryTypeOK
  <2> QED
    BY <1>2, <2>1, <2>2, <2>3, <2>4, <2>5, <2>8, <2>9 DEF DeliveryNext
<1> QED
  BY <1>1, <1>2

LEMMA DeliveryStart == DeliveryInit => DeliveryTypeOK /\ DeliveryInv
<1> SUFFICES ASSUME DeliveryInit PROVE DeliveryTypeOK /\ DeliveryInv
  OBVIOUS
<1>1. worker \in [Workers -> WorkerRecords] /\ WorkersInv
  <2>1. worker = [w \in Workers |-> Idle]
    BY DEF DeliveryInit
  <2> QED
    BY <2>1, IdleIsSound DEF WorkersInv
<1>2. DeliveryTypeOK
  BY <1>1, DeliveryAssumption DEF DeliveryInit, DeliveryTypeOK
<1>3. CallsInv /\ AcksInv /\ CopiesInv
  BY DEF DeliveryInit, CallsInv, AcksInv, CopiesInv, OneDeadLetterCopy
<1> QED
  BY <1>1, <1>2, <1>3 DEF DeliveryInv

\* Every reachable state of reliable delivery is well typed, and every worker's
\* record tells the truth about its settlement.
THEOREM DeliveryTypeCorrect == DeliverySpec => [](DeliveryTypeOK /\ DeliveryInv)
<1>1. DeliveryTypeOK /\ DeliveryInv /\ [DeliveryNext]_deliveryVars => DeliveryTypeOK' /\ DeliveryInv'
  BY DeliveryStep DEF Preserved
<1> QED
  BY <1>1, DeliveryStart, PTL DEF DeliverySpec

\* A second dead-letter copy is stored only after the duplicate window passed
\* (worker.go, settleDelivery and the adapter's DeadLetter callback).
THEOREM OneCopyTheorem == DeliverySpec => []OneDeadLetterCopy
<1>1. DeliveryInv => OneDeadLetterCopy
  BY DEF DeliveryInv, CopiesInv
<1> QED
  BY <1>1, DeliveryTypeCorrect, PTL

\* No settlement of a delivery is started once the extension of its lease
\* failed (worker.go, processDelivery).
THEOREM FailClosedTheorem == DeliverySpec => []NoSettlementWithoutLease
<1>1. DeliveryTypeOK /\ DeliveryInv => NoSettlementWithoutLease
  BY DEF DeliveryInv, WorkersInv, Sound, NoSettlementWithoutLease
<1> QED
  BY <1>1, DeliveryTypeCorrect, PTL
-----------------------------------------------------------------------------
(* Refinement of the at-least-once queue *)

Kept == {"ready", "leased", "spent"}
Owed == {m \in Messages : status[m] \in Kept}

\* Only an acknowledgement makes the broker forget a message.
LEMMA QueueStutters ==
  ASSUME Owed' = Owed, handled' = handled, Buried' = Buried
  PROVE  UNCHANGED Queue!queueVars
BY DEF Queue!queueVars, Owed, Kept

LEMMA OwedStays ==
  ASSUME DeliveryTypeOK, NEW m \in Messages, status[m] \in Kept,
         NEW s \in Kept, status' = [status EXCEPT ![m] = s]
  PROVE  Owed' = Owed
BY DEF DeliveryTypeOK, Owed

LEMMA WorkerSettlesNothing ==
  ASSUME DeliveryTypeOK, NEW w \in Workers, WorkerStep(w) \/ ExtensionStep(w)
  PROVE  Owed' = Owed /\ UNCHANGED <<dlq, remembered>> /\ (handled' = handled \/ HandlerSucceeds(w))
<1>1. CASE WorkerStep(w)
  <2>1. ASSUME NEW m \in Messages, Receive(w, m)
        PROVE  Owed' = Owed /\ UNCHANGED <<dlq, remembered, handled>>
    <3>1. status[m] \in Kept /\ status' = [status EXCEPT ![m] = "leased"]
      BY <2>1 DEF Receive, Deliver, Kept
    <3>2. Owed' = Owed
      BY <3>1, OwedStays DEF Kept
    <3> QED
      BY <2>1, <3>2 DEF Receive
  <2>2. CASE UNCHANGED brokerVars /\ (handled' = handled \/ HandlerSucceeds(w))
    BY <2>2 DEF brokerVars, Owed
  <2>3. \/ \E m \in Messages : Receive(w, m)
        \/ UNCHANGED brokerVars /\ (handled' = handled \/ HandlerSucceeds(w))
    BY <1>1 DEF WorkerStep, LoopExits, HandlerSucceeds, HandlerFails, BackoffEnds, PlanCanceled, Join,
                SettleBegins, CallbackCalls, SettleEnds, QuarantineEnds, SettleCanceled
  <2> QED
    BY <2>1, <2>2, <2>3
<1>2. CASE ExtensionStep(w)
  <2>1. UNCHANGED brokerVars /\ handled' = handled
    BY <1>2 DEF ExtensionStep, ExtensionFires, ExtensionOk, ExtensionCanceled, ExtensionStops
  <2> QED
    BY <2>1 DEF brokerVars, Owed
<1> QED
  BY <1>1, <1>2

LEMMA FaultSettlesNothing ==
  ASSUME DeliveryTypeOK, FaultStep \/ Restart \/ \E m \in Messages : LeaseExpires(m)
  PROVE  Owed' = Owed /\ UNCHANGED <<dlq, handled>>
<1>1. ASSUME NEW m \in Messages, ReceiveTooLate(m) \/ LeaseExpires(m)
      PROVE  Owed' = Owed /\ UNCHANGED <<dlq, handled>>
  <2>1. /\ status[m] \in Kept
        /\ \E s \in Kept : status' = [status EXCEPT ![m] = s]
    BY <1>1 DEF ReceiveTooLate, Deliver, LeaseExpires, Kept
  <2>2. Owed' = Owed
    BY <2>1, OwedStays
  <2> QED
    BY <1>1, <2>2 DEF ReceiveTooLate, LeaseExpires
<1>2. ASSUME NEW m \in Messages, WindowPasses(m) PROVE Owed' = Owed /\ UNCHANGED <<dlq, handled>>
  BY <1>2 DEF WindowPasses, Owed
<1>3. ASSUME NEW w \in Workers,
             ReceiveFails(w) \/ HandlerPanics(w) \/ ExtensionFails(w) \/ CallbackFails(w) \/ SettleTimesOut(w)
      PROVE  Owed' = Owed /\ UNCHANGED <<dlq, handled>>
  BY <1>3 DEF ReceiveFails, HandlerPanics, ExtensionFails, CallbackFails, SettleTimesOut, brokerVars, Owed
<1>4. CASE Shutdown \/ Crash \/ Restart
  BY <1>4 DEF Shutdown, Crash, Restart, Reborn, brokerVars, Owed
<1> QED
  BY <1>1, <1>2, <1>3, <1>4 DEF FaultStep

\* An acknowledgement is of a message whose evidence is there; a copy that is
\* stored is one more or none.
LEMMA BrokerServesQueue ==
  ASSUME DeliveryTypeOK, DeliveryInv, NEW c \in wire,
         BrokerAcks(c) \/ BrokerStores(c) \/ BrokerNeverSees(c)
  PROVE  Queue!QueueNext \/ UNCHANGED Queue!queueVars
<1>0. c.msg \in Messages
  BY DEF DeliveryTypeOK, Calls
<1>1. CASE BrokerAcks(c)
  <2>1. status' = [status EXCEPT ![c.msg] = "acked"] /\ UNCHANGED <<dlq, handled>>
    BY <1>1 DEF BrokerAcks
  <2>2. Owed' = Owed \ {c.msg} /\ Buried' = Buried
    BY <1>0, <2>1 DEF DeliveryTypeOK, Owed, Kept, Buried
  <2>3. c.msg \in handled \cup Buried
    BY <1>1 DEF BrokerAcks, DeliveryInv, AcksInv
  <2>4. CASE c.msg \in Owed
    <3>1. Queue!Settle(c.msg)
      BY <2>1, <2>2, <2>3, <2>4 DEF Queue!Settle, Owed, Kept
    <3> QED
      BY <1>0, <3>1 DEF Queue!QueueNext
  <2>5. CASE c.msg \notin Owed
    BY <2>1, <2>2, <2>5, QueueStutters
  <2> QED
    BY <2>4, <2>5
<1>2. CASE BrokerStores(c)
  <2>1. /\ dlq' = [dlq EXCEPT ![c.msg] = IF c.msg \in remembered THEN @ ELSE @ + 1]
        /\ UNCHANGED <<status, handled>>
    BY <1>2 DEF BrokerStores
  <2>2. dlq'[c.msg] > 0 /\ \A m \in Messages \ {c.msg} : dlq'[m] = dlq[m]
    BY <1>0, <2>1 DEF DeliveryTypeOK, DeliveryInv, CopiesInv
  <2>3. Buried' = Buried \cup {c.msg}
    BY <1>0, <2>2 DEF Buried
  <2>4. Queue!Bury(c.msg)
    BY <2>1, <2>3 DEF Queue!Bury
  <2> QED
    BY <1>0, <2>4 DEF Queue!QueueNext
<1>3. CASE BrokerNeverSees(c)
  BY <1>3, QueueStutters DEF BrokerNeverSees, brokerVars, Owed, Buried
<1> QED
  BY <1>1, <1>2, <1>3

LEMMA QueueStep ==
  ASSUME DeliveryTypeOK, DeliveryInv, [DeliveryNext]_deliveryVars
  PROVE  [Queue!QueueNext]_Queue!queueVars
<1>1. CASE UNCHANGED deliveryVars
  BY <1>1, QueueStutters DEF deliveryVars, movingVars, brokerVars, Owed, Buried
<1>2. CASE DeliveryNext
  <2>1. ASSUME NEW w \in Workers, WorkerStep(w) \/ ExtensionStep(w)
        PROVE  Queue!QueueNext \/ UNCHANGED Queue!queueVars
    <3>1. Owed' = Owed /\ Buried' = Buried /\ (handled' = handled \/ HandlerSucceeds(w))
      BY <2>1, WorkerSettlesNothing DEF Buried
    <3>2. CASE HandlerSucceeds(w)
      <4>1. worker[w].job \in Messages /\ handled' = handled \cup {worker[w].job}
        BY <3>2, RecordFacts DEF HandlerSucceeds, Sound
      <4>2. Queue!Serve(worker[w].job)
        BY <3>1, <4>1 DEF Queue!Serve, Owed, Kept
      <4> QED
        BY <4>1, <4>2 DEF Queue!QueueNext
    <3> QED
      BY <3>1, <3>2, QueueStutters
  <2>2. ASSUME NEW w \in Workers, ReceiveNothing(w) PROVE UNCHANGED Queue!queueVars
    BY <2>2, QueueStutters DEF ReceiveNothing, movingVars, brokerVars, Owed, Buried
  <2>3. CASE BrokerStep
    BY <2>3, BrokerServesQueue DEF BrokerStep
  <2>4. CASE FaultStep \/ Restart \/ \E m \in Messages : LeaseExpires(m)
    BY <2>4, FaultSettlesNothing, QueueStutters DEF Buried
  <2> QED
    BY <1>2, <2>1, <2>2, <2>3, <2>4 DEF DeliveryNext
<1> QED
  BY <1>1, <1>2

\* Reliable delivery implements the at-least-once queue: nothing is lost.
THEOREM QueueTheorem == DeliverySpec => ImplementsAtLeastOnce
<1>1. DeliveryInit => Queue!QueueInit
  BY DEF DeliveryInit, Queue!QueueInit, Buried
<1>2. DeliveryTypeOK /\ DeliveryInv /\ [DeliveryNext]_deliveryVars => [Queue!QueueNext]_Queue!queueVars
  BY QueueStep
<1> QED
  BY <1>1, <1>2, DeliveryTypeCorrect, PTL DEF DeliverySpec, ImplementsAtLeastOnce, Queue!QueueSpec
-----------------------------------------------------------------------------
(* Giving up.  Every delivery of a message that did not settle it is paid    *)
(* for by a fault of its own: a fault that is still to bring the group down  *)
(* pays for the deliveries that end then.                                    *)

\* A worker has failed and the group has not noticed yet.
Failing == ~ctxDone /\ \E w \in Workers : worker[w].ext = "failed" \/ worker[w].callback = "failed"

\* The faults that have ended deliveries.
Spent == IF Failing THEN faults - 1 ELSE faults

\* A worker between deliveries holds none; an acknowledgement that its caller
\* saw has reached the broker.
HolderOK(w) ==
    /\ worker[w].pc \in {"loop", "exited"} => worker[w].job = NoMessage
    /\ worker[w].callback = "ok" => status[worker[w].job] = "acked"

CountOK(m) ==
    /\ status[m] = "ready" => deliveries[m] <= Spent
    /\ status[m] = "leased" =>
          deliveries[m] <= Spent \/ (deliveries[m] <= Spent + 1 /\ ~ctxDone /\ Holders(m) # {})
    /\ status[m] = "spent" =>
          maxDeliver # Unlimited /\ deliveries[m] = maxDeliver /\ deliveries[m] <= faults

CountInv ==
    /\ deliveries \in [Messages -> Nat]
    /\ \A w \in Workers : HolderOK(w)
    /\ \A m \in Messages : CountOK(m)

LEMMA SpentIsFaults ==
  ASSUME DeliveryTypeOK PROVE Spent \in Int /\ faults - 1 <= Spent /\ Spent <= faults
BY DEF Spent, DeliveryTypeOK

\* Failing once and failing again are paid for together.
LEMMA SpentGrows ==
  ASSUME DeliveryTypeOK, Failing' => Failing \/ faults' = faults + 1,
         faults' \in {faults, faults + 1}
  PROVE  Spent <= Spent' /\ Spent' \in Int
<1>1. faults \in Nat /\ faults' \in Nat
  BY DEF DeliveryTypeOK
<1>2. Spent' = faults' \/ (Failing' /\ Spent' = faults' - 1)
  BY DEF Spent
<1>3. Spent = faults - 1 \/ (~Failing /\ Spent = faults)
  BY DEF Spent
<1>4. CASE ~Failing /\ Failing'
  BY <1>1, <1>2, <1>3, <1>4
<1>5. CASE Failing
  <2>1. Spent = faults - 1
    BY <1>5 DEF Spent
  <2> QED
    BY <1>1, <1>2, <2>1
<1>6. CASE ~Failing'
  BY <1>1, <1>2, <1>3, <1>6
<1> QED
  BY <1>4, <1>5, <1>6

\* A step that settles and delivers nothing keeps the count, if a delivery
\* that loses its holder is paid for.
LEMMA CountKept ==
  ASSUME DeliveryTypeOK, CountInv, UNCHANGED <<status, deliveries, maxDeliver>>,
         faults' \in {faults, faults + 1}, Spent <= Spent', Spent' \in Int,
         \A w \in Workers : HolderOK(w)',
         \A m \in Messages : status[m] = "leased" /\ ~ctxDone /\ Holders(m) # {} =>
            Spent + 1 <= Spent' \/ (~ctxDone' /\ Holders(m)' # {})
  PROVE  CountInv'
<1>1. ASSUME NEW m \in Messages PROVE CountOK(m)'
  <2>1. CountOK(m) /\ deliveries[m] \in Nat
    BY DEF CountInv
  <2>2. status'[m] = status[m] /\ deliveries'[m] = deliveries[m] /\ maxDeliver' = maxDeliver
    OBVIOUS
  <2>3. Spent \in Int /\ faults \in Nat
    BY SpentIsFaults DEF DeliveryTypeOK
  <2>4. CASE status[m] = "leased"
    <3>1. CASE deliveries[m] <= Spent
      <4>1. deliveries[m] <= Spent'
        BY <2>1, <2>3, <3>1
      <4> QED
        BY <2>2, <2>4, <4>1 DEF CountOK
    <3>2. CASE deliveries[m] <= Spent + 1 /\ ~ctxDone /\ Holders(m) # {}
      <4>1. deliveries[m] <= Spent' \/ (deliveries[m] <= Spent' + 1 /\ ~ctxDone' /\ Holders(m)' # {})
        BY <2>1, <2>3, <2>4, <3>2
      <4> QED
        BY <2>2, <2>4, <4>1 DEF CountOK
    <3> QED
      BY <2>1, <2>4, <3>1, <3>2 DEF CountOK
  <2>5. CASE status[m] = "ready"
    <3>1. deliveries[m] <= Spent'
      BY <2>1, <2>3, <2>5 DEF CountOK
    <3> QED
      BY <2>2, <2>5, <3>1 DEF CountOK
  <2>6. CASE status[m] \notin {"leased", "ready"}
    BY <2>1, <2>2, <2>3, <2>6 DEF CountOK
  <2> QED
    BY <2>4, <2>5, <2>6
<1> QED
  BY <1>1 DEF CountInv

\* A worker goes on with its delivery, or fails it with a fault.
LEMMA CountGoesOn ==
  ASSUME DeliveryTypeOK, CountInv, NEW w \in Workers,
         UNCHANGED <<status, deliveries, maxDeliver, ctxDone>>, faults' \in {faults, faults + 1},
         \A v \in Workers \ {w} : worker'[v] = worker[v],
         worker'[w].job = worker[w].job, worker'[w].pc \notin {"loop", "exited"},
         worker'[w].callback = "ok" => worker[w].callback = "ok",
         worker'[w].ext = "failed" => worker[w].ext = "failed" \/ ctxDone \/ faults' = faults + 1,
         worker'[w].callback = "failed" => worker[w].callback = "failed" \/ faults' = faults + 1
  PROVE  CountInv'
<1>1. Failing' => Failing \/ faults' = faults + 1
  <2> SUFFICES ASSUME Failing', faults' # faults + 1 PROVE Failing
    OBVIOUS
  <2>1. PICK v \in Workers : worker'[v].ext = "failed" \/ worker'[v].callback = "failed"
    BY DEF Failing
  <2>2. worker[v].ext = "failed" \/ worker[v].callback = "failed"
    BY <2>1 DEF Failing
  <2> QED
    BY <2>2 DEF Failing
<1>2. Spent <= Spent' /\ Spent' \in Int
  BY <1>1, SpentGrows
<1>3. ASSUME NEW v \in Workers PROVE HolderOK(v)'
  <2>1. HolderOK(v)
    BY DEF CountInv
  <2>2. CASE v = w
    BY <2>1, <2>2 DEF HolderOK
  <2>3. CASE v # w
    BY <2>1, <2>3 DEF HolderOK
  <2> QED
    BY <2>2, <2>3
<1>4. ASSUME NEW m \in Messages PROVE Holders(m) \subseteq Holders(m)'
  BY DEF Holders
<1> QED
  BY <1>2, <1>3, <1>4, CountKept

\* A worker returns: canceled, with a fault, or failing the group.
LEMMA CountLeaves ==
  ASSUME DeliveryTypeOK, CountInv, NEW w \in Workers, Leave(w),
         UNCHANGED <<brokerVars, maxDeliver>>, faults' \in {faults, faults + 1},
         \/ ctxDone /\ ctxDone'
         \/ ctxDone' /\ (Failing \/ faults' = faults + 1)
  PROVE  CountInv'
<1>1. \A v \in Workers \ {w} : worker'[v] = worker[v]
  BY DEF Leave, DeliveryTypeOK
<1>2. worker'[w] = Gone
  BY DEF Leave, DeliveryTypeOK
<1>0. ~Failing' /\ faults \in Nat
  BY DEF Failing, DeliveryTypeOK
<1>3. Spent' = faults' /\ Spent' \in Int /\ Spent <= Spent'
  <2>1. Spent' = faults'
    BY <1>0 DEF Spent
  <2> QED
    BY <1>0, <2>1, SpentIsFaults
<1>4. ~ctxDone => Spent + 1 <= Spent'
  <2> SUFFICES ASSUME ~ctxDone PROVE Spent + 1 <= Spent'
    OBVIOUS
  <2>1. CASE Failing
    <3>1. Spent = faults - 1
      BY <2>1 DEF Spent
    <3> QED
      BY <1>0, <1>3, <3>1
  <2>2. CASE faults' = faults + 1
    BY <1>0, <1>3, <2>2, SpentIsFaults
  <2> QED
    BY <2>1, <2>2
<1>5. ASSUME NEW v \in Workers PROVE HolderOK(v)'
  <2>1. HolderOK(v)
    BY DEF CountInv
  <2>2. CASE v = w
    BY <1>2, <2>2 DEF HolderOK, Gone, Idle
  <2>3. CASE v # w
    BY <1>1, <2>1, <2>3 DEF HolderOK, brokerVars
  <2> QED
    BY <2>2, <2>3
<1>6. UNCHANGED <<status, deliveries, maxDeliver>>
  BY DEF brokerVars
<1> QED
  BY <1>3, <1>4, <1>5, <1>6, CountKept

\* A worker whose delivery was acknowledged goes on to the next one.
LEMMA CountSettles ==
  ASSUME DeliveryTypeOK, CountInv, NEW w \in Workers, worker[w].callback = "ok",
         worker' = [worker EXCEPT ![w] = Idle],
         UNCHANGED <<brokerVars, maxDeliver, ctxDone, faults>>
  PROVE  CountInv'
<1>1. worker'[w] = Idle /\ \A v \in Workers \ {w} : worker'[v] = worker[v]
  BY DEF DeliveryTypeOK
<1>2. Failing' => Failing
  BY <1>1 DEF Failing, Idle
<1>3. Spent <= Spent' /\ Spent' \in Int
  BY <1>2, SpentGrows
<1>4. ASSUME NEW v \in Workers PROVE HolderOK(v)'
  <2>1. HolderOK(v)
    BY DEF CountInv
  <2>2. CASE v = w
    BY <1>1, <2>2 DEF HolderOK, Idle
  <2>3. CASE v # w
    BY <1>1, <2>1, <2>3 DEF HolderOK, brokerVars
  <2> QED
    BY <2>2, <2>3
<1>5. ASSUME NEW m \in Messages, status[m] = "leased", Holders(m) # {} PROVE Holders(m)' # {}
  <2>1. PICK v \in Workers : worker[v].job = m
    BY <1>5 DEF Holders
  <2>2. v # w
    BY <1>5, <2>1 DEF CountInv, HolderOK
  <2>3. worker'[v].job = m
    BY <1>1, <2>1, <2>2
  <2> QED
    BY <2>3 DEF Holders
<1>6. UNCHANGED <<status, deliveries, maxDeliver>>
  BY DEF brokerVars
<1> QED
  BY <1>3, <1>4, <1>5, <1>6, CountKept
\* The actions of a worker that keep its delivery.
LEMMA CountWorks ==
  ASSUME DeliveryTypeOK, DeliveryInv, CountInv, maxDeliver' = maxDeliver, NEW w \in Workers,
         \/ HandlerSucceeds(w) \/ \E permanent \in BOOLEAN : HandlerFails(w, permanent)
         \/ BackoffEnds(w) \/ CallbackCalls(w) \/ CallbackFails(w)
         \/ ExtensionStep(w) \/ ExtensionFails(w)
  PROVE  CountInv'
<1> DEFINE GoesOn ==
      /\ UNCHANGED <<status, deliveries, ctxDone>> /\ faults' \in {faults, faults + 1}
      /\ \A v \in Workers \ {w} : worker'[v] = worker[v]
      /\ worker'[w].job = worker[w].job /\ worker'[w].pc \notin {"loop", "exited"}
      /\ worker'[w].callback = "ok" => worker[w].callback = "ok"
      /\ worker'[w].ext = "failed" => worker[w].ext = "failed" \/ ctxDone \/ faults' = faults + 1
      /\ worker'[w].callback = "failed" => worker[w].callback = "failed" \/ faults' = faults + 1
<1>0. worker[w] \in WorkerRecords /\ Sound(worker[w])
  BY RecordFacts
<1>1. ASSUME HandlerSucceeds(w) \/ \E permanent \in BOOLEAN : HandlerFails(w, permanent) PROVE GoesOn
  <2>1. UNCHANGED <<status, deliveries, ctxDone>> /\ faults' = faults
    BY <1>1 DEF HandlerSucceeds, HandlerFails, brokerVars
  <2>2. \/ \E plan : Planned(w, plan)
        \/ worker' = [worker EXCEPT ![w].pc = "backoff"]
    BY <1>1 DEF HandlerSucceeds, HandlerFails
  <2>3. CASE \E plan : Planned(w, plan)
    BY <1>0, <2>1, <2>3 DEF Planned, DeliveryTypeOK, WorkerRecords
  <2>4. CASE worker' = [worker EXCEPT ![w].pc = "backoff"]
    BY <1>0, <2>1, <2>4 DEF DeliveryTypeOK, WorkerRecords
  <2> QED
    BY <2>2, <2>3, <2>4
<1>2. ASSUME BackoffEnds(w) PROVE GoesOn
  BY <1>0, <1>2 DEF BackoffEnds, brokerVars, DeliveryTypeOK, WorkerRecords
<1>3. ASSUME CallbackCalls(w) PROVE GoesOn
  <2>1. worker[w].pc \notin {"loop", "exited"}
    BY <1>0, <1>3 DEF CallbackCalls, Sound
  <2> QED
    BY <1>0, <1>3, <2>1 DEF CallbackCalls, brokerVars, DeliveryTypeOK, WorkerRecords
<1>4. ASSUME CallbackFails(w) PROVE GoesOn
  <2>1. worker[w].pc \notin {"loop", "exited"}
    BY <1>0, <1>4 DEF CallbackFails, Sound
  <2> QED
    BY <1>0, <1>4, <2>1 DEF CallbackFails, Fault, brokerVars, DeliveryTypeOK, WorkerRecords
<1>5. ASSUME ExtensionStep(w) \/ ExtensionFails(w) PROVE GoesOn
  <2>1. worker[w].pc \notin {"loop", "exited"}
    BY <1>0, <1>5 DEF ExtensionStep, ExtensionFires, ExtensionOk, ExtensionCanceled, ExtensionStops,
                     ExtensionFails, Sound
  <2>2. CASE ExtensionFires(w) \/ ExtensionOk(w) \/ ExtensionStops(w)
    BY <1>0, <2>1, <2>2 DEF ExtensionFires, ExtensionOk, ExtensionStops, brokerVars, DeliveryTypeOK, WorkerRecords
  <2>3. CASE ExtensionCanceled(w)
    BY <1>0, <2>1, <2>3 DEF ExtensionCanceled, brokerVars, DeliveryTypeOK, WorkerRecords
  <2>4. CASE ExtensionFails(w)
    BY <1>0, <2>1, <2>4 DEF ExtensionFails, Fault, brokerVars, DeliveryTypeOK, WorkerRecords
  <2> QED
    BY <1>5, <2>2, <2>3, <2>4 DEF ExtensionStep
<1>6. GoesOn
  BY <1>1, <1>2, <1>3, <1>4, <1>5
<1> QED
  BY <1>6, CountGoesOn

\* The actions that move a worker on to its plan or its settlement.
LEMMA CountPlans ==
  ASSUME DeliveryTypeOK, DeliveryInv, CountInv, maxDeliver' = maxDeliver, NEW w \in Workers,
         UNCHANGED <<ctxDone, brokerVars, faults>>,
         NEW rec, worker' = [worker EXCEPT ![w] = rec],
         rec.job = worker[w].job, rec.pc \notin {"loop", "exited"}, rec.ext = worker[w].ext,
         rec.callback \in {"start", worker[w].callback}
  PROVE  CountInv'
<1>1. worker'[w] = rec /\ \A v \in Workers \ {w} : worker'[v] = worker[v]
  BY DEF DeliveryTypeOK
<1> QED
  BY <1>1, CountGoesOn DEF brokerVars, DeliveryTypeOK

\* The actions of a worker that may end its delivery.
LEMMA CountEnds ==
  ASSUME DeliveryTypeOK, DeliveryInv, CountInv, maxDeliver' = maxDeliver, NEW w \in Workers,
         \/ LoopExits(w) \/ ReceiveFails(w) \/ PlanCanceled(w) \/ HandlerPanics(w) \/ Join(w)
         \/ SettleBegins(w) \/ SettleEnds(w) \/ QuarantineEnds(w) \/ SettleCanceled(w) \/ SettleTimesOut(w)
  PROVE  CountInv'
<1>0. worker[w] \in WorkerRecords /\ faults \in Nat
  BY RecordFacts DEF DeliveryTypeOK
<1>1. ASSUME ctxDone, Exit(w), UNCHANGED brokerVars PROVE CountInv'
  BY <1>0, <1>1, CountLeaves DEF Exit
<1>2. ASSUME Fault, Fail(w), UNCHANGED brokerVars PROVE CountInv'
  BY <1>2, CountLeaves DEF Fault, Fail
<1>3. ASSUME ~ctxDone, worker[w].ext = "failed" \/ worker[w].callback = "failed",
             Fail(w), UNCHANGED <<brokerVars, faults>>
      PROVE  CountInv'
  BY <1>0, <1>3, CountLeaves DEF Failing, Fail
<1>4. CASE LoopExits(w)
  BY <1>1, <1>4 DEF LoopExits
<1>5. CASE ReceiveFails(w) \/ HandlerPanics(w) \/ SettleTimesOut(w)
  BY <1>2, <1>5 DEF ReceiveFails, HandlerPanics, SettleTimesOut
<1>6. CASE SettleCanceled(w)
  BY <1>1, <1>6 DEF SettleCanceled
<1>7. CASE PlanCanceled(w)
  <2>1. CASE extending
    <3>1. worker' = [worker EXCEPT ![w] = [worker[w] EXCEPT !.plan = "none", !.pc = "joining"]]
      BY <1>7, <2>1 DEF PlanCanceled, Planned
    <3>2. UNCHANGED <<ctxDone, brokerVars, faults>>
      BY <1>7, <2>1 DEF PlanCanceled
    <3> QED
      BY <1>0, <3>1, <3>2, CountPlans DEF WorkerRecords
  <2>2. CASE ~extending
    <3>1. ctxDone
      BY <1>7, <2>2, RecordFacts DEF PlanCanceled, DeliveryDone, Sound
    <3> QED
      BY <1>1, <1>7, <2>2, <3>1 DEF PlanCanceled
  <2> QED
    BY <2>1, <2>2
<1>8. CASE Join(w)
  <2>1. CASE ctxDone
    BY <1>1, <1>8, <2>1 DEF Join
  <2>2. CASE ~ctxDone /\ worker[w].ext = "failed"
    BY <1>3, <1>8, <2>2 DEF Join
  <2>3. CASE ~ctxDone /\ worker[w].ext # "failed"
    <3>1. worker' = [worker EXCEPT ![w] = [worker[w] EXCEPT !.pc = "planned"]]
      BY <1>8, <2>3 DEF Join
    <3>2. UNCHANGED <<ctxDone, brokerVars, faults>>
      BY <1>8, <2>3 DEF Join
    <3> QED
      BY <1>0, <3>1, <3>2, CountPlans DEF WorkerRecords
  <2> QED
    BY <2>1, <2>2, <2>3
<1>9. CASE SettleBegins(w)
  <2>1. CASE ctxDone
    BY <1>1, <1>9, <2>1 DEF SettleBegins
  <2>2. CASE ~ctxDone
    <3>1. worker' = [worker EXCEPT ![w] = [worker[w] EXCEPT !.pc = "settling", !.callback = "start"]]
      BY <1>9, <2>2 DEF SettleBegins
    <3>2. UNCHANGED <<ctxDone, brokerVars, faults>>
      BY <1>9, <2>2 DEF SettleBegins
    <3> QED
      BY <1>0, <3>1, <3>2, CountPlans DEF WorkerRecords
  <2> QED
    BY <2>1, <2>2
<1>10. CASE SettleEnds(w) \/ QuarantineEnds(w)
  <2>1. ~ctxDone /\ UNCHANGED <<brokerVars, faults>>
    BY <1>10 DEF SettleEnds, QuarantineEnds
  <2>2. \/ worker[w].callback = "ok" /\ worker' = [worker EXCEPT ![w] = Idle] /\ ctxDone' = ctxDone
        \/ worker[w].callback = "failed" /\ Fail(w)
    BY <1>10 DEF SettleEnds, QuarantineEnds
  <2> QED
    BY <1>3, <2>1, <2>2, CountSettles
<1> QED
  BY <1>4, <1>5, <1>6, <1>7, <1>8, <1>9, <1>10
\* A delivery is paid for when it ends, not when it begins.
LEMMA CountReceives ==
  ASSUME DeliveryTypeOK, DeliveryInv, CountInv, maxDeliver' = maxDeliver, NEW w \in Workers,
         NEW m \in Messages, Receive(w, m)
  PROVE  CountInv'
<1>1. /\ worker[w].pc = "loop" /\ ~ctxDone /\ status[m] = "ready" /\ ctxDone' = ctxDone /\ faults' = faults
      /\ status' = [status EXCEPT ![m] = "leased"]
      /\ deliveries' = [deliveries EXCEPT ![m] = IF maxDeliver = Unlimited THEN @ ELSE @ + 1]
  BY DEF Receive, Deliver
<1>2. /\ \A v \in Workers \ {w} : worker'[v] = worker[v]
      /\ worker'[w].job = m /\ worker'[w].pc \notin {"loop", "exited"}
      /\ worker'[w].callback \in {"none", "start"} /\ worker'[w].ext # "failed"
  <2>1. CASE m \in Malformed
    BY <2>1 DEF Receive, DeliveryTypeOK, Idle
  <2>2. CASE m \notin Malformed
    BY <2>2 DEF Receive, DeliveryTypeOK, Idle
  <2> QED
    BY <2>1, <2>2
<1>3. Spent <= Spent' /\ Spent' \in Int /\ Spent \in Int
  <2>1. Failing' => Failing
    BY <1>1, <1>2 DEF Failing
  <2> QED
    BY <1>1, <2>1, SpentGrows, SpentIsFaults
<1>4. deliveries' \in [Messages -> Nat] /\ deliveries \in [Messages -> Nat]
  BY <1>1 DEF CountInv
<1>5. ASSUME NEW v \in Workers PROVE HolderOK(v)'
  <2>1. HolderOK(v)
    BY DEF CountInv
  <2>2. CASE v = w
    BY <1>2, <2>2 DEF HolderOK
  <2>3. CASE v # w
    BY <1>1, <1>2, <2>1, <2>3 DEF HolderOK, DeliveryTypeOK
  <2> QED
    BY <2>2, <2>3
<1>6. ASSUME NEW n \in Messages PROVE CountOK(n)'
  <2>1. CountOK(n) /\ CountOK(m)
    BY DEF CountInv
  <2>2. CASE n = m
    <3>1. status'[n] = "leased" /\ deliveries'[n] <= deliveries[n] + 1 /\ deliveries[n] <= Spent
      BY <1>1, <1>4, <2>1, <2>2 DEF CountOK, DeliveryTypeOK
    <3>2. ~ctxDone' /\ Holders(n)' # {}
      BY <1>1, <1>2, <2>2 DEF Holders
    <3>3. deliveries'[n] <= Spent' + 1
      BY <1>3, <1>4, <3>1
    <3> QED
      BY <3>1, <3>2, <3>3 DEF CountOK
  <2>3. CASE n # m
    <3>1. status'[n] = status[n] /\ deliveries'[n] = deliveries[n]
      BY <1>1, <1>4, <2>3 DEF DeliveryTypeOK
    <3>2. Holders(n) # {} => Holders(n)' # {}
      <4> SUFFICES ASSUME NEW v \in Workers, worker[v].job = n PROVE Holders(n)' # {}
        BY DEF Holders
      <4>1. worker[w].job = NoMessage
        BY <1>1 DEF CountInv, HolderOK
      <4>2. v # w
        BY <4>1, DeliveryAssumption
      <4> QED
        BY <1>2, <4>2 DEF Holders
    <3> HIDE DEF Holders
    <3>3. deliveries[n] \in Nat
      BY <1>4
    <3> QED
      BY <1>1, <1>3, <2>1, <3>1, <3>2, <3>3 DEF CountOK
  <2> QED
    BY <2>2, <2>3
<1> QED
  BY <1>4, <1>5, <1>6 DEF CountInv

\* A step of the broker on one message that a fault pays for, or that no worker
\* holds: the message is leased, offered again or given up.
LEMMA CountBroker ==
  ASSUME DeliveryTypeOK, DeliveryInv, CountInv, maxDeliver' = maxDeliver, NEW m \in Messages,
         ReceiveTooLate(m) \/ LeaseExpires(m)
  PROVE  CountInv'
<1>1. UNCHANGED <<worker, ctxDone>> /\ faults' \in {faults, faults + 1} /\ status[m] \in {"ready", "leased"}
  BY DEF ReceiveTooLate, LeaseExpires, Deliver, Fault, processVars
<1>2. Failing' = Failing /\ \A n \in Messages : Holders(n)' = Holders(n)
  BY <1>1 DEF Failing, Holders
<1>3. /\ Spent \in Int /\ Spent' \in Int /\ Spent <= Spent' /\ Spent' <= faults'
      /\ faults' = faults + 1 => Spent' = Spent + 1
  <2>1. faults \in Nat /\ faults' \in Nat /\ (faults' = faults \/ faults' = faults + 1)
    BY <1>1 DEF DeliveryTypeOK
  <2>2. CASE Failing
    <3>1. Spent = faults - 1 /\ Spent' = faults' - 1
      BY <1>2, <2>2 DEF Spent
    <3>2. CASE faults' = faults
      BY <2>1, <3>1, <3>2
    <3>3. CASE faults' = faults + 1
      <4>1. Spent' = faults
        BY <2>1, <3>1, <3>3
      <4> QED
        BY <2>1, <3>1, <3>3, <4>1
    <3> QED
      BY <2>1, <3>2, <3>3
  <2>3. CASE ~Failing
    <3>1. Spent = faults /\ Spent' = faults'
      BY <1>2, <2>3 DEF Spent
    <3> QED
      BY <2>1, <3>1
  <2> QED
    BY <2>2, <2>3
<1>4. /\ deliveries' \in [Messages -> Nat] /\ deliveries \in [Messages -> Nat]
      /\ \A n \in Messages \ {m} : status'[n] = status[n] /\ deliveries'[n] = deliveries[n]
  BY DEF ReceiveTooLate, LeaseExpires, Deliver, CountInv, DeliveryTypeOK
<1>5. ASSUME NEW v \in Workers PROVE HolderOK(v)'
  <2>1. HolderOK(v)
    BY DEF CountInv
  <2>2. CASE worker[v].job \in Messages
    <3>1. CASE worker[v].job = m
      BY <1>1, <2>1, <3>1 DEF HolderOK
    <3>2. CASE worker[v].job # m
      BY <1>1, <1>4, <2>1, <2>2, <3>2 DEF HolderOK
    <3> QED
      BY <3>1, <3>2
  <2>3. CASE worker[v].job \notin Messages
    <3>1. worker[v].callback # "ok"
      BY <2>3, RecordFacts DEF Sound
    <3> QED
      BY <1>1, <2>1, <3>1 DEF HolderOK
  <2> QED
    BY <2>2, <2>3
<1>6. CountOK(m)'
  <2>1. CountOK(m)
    BY DEF CountInv
  <2>2. CASE ReceiveTooLate(m)
    <3>1. /\ status[m] = "ready" /\ status'[m] = "leased" /\ faults' = faults + 1
          /\ deliveries'[m] <= deliveries[m] + 1
      BY <1>4, <2>2 DEF ReceiveTooLate, Deliver, Fault, DeliveryTypeOK
    <3>2. deliveries'[m] <= Spent'
      BY <1>3, <1>4, <2>1, <3>1 DEF CountOK, DeliveryTypeOK
    <3> QED
      BY <3>1, <3>2 DEF CountOK
  <2>3. CASE LeaseExpires(m)
    <3>1. /\ status[m] = "leased" /\ deliveries'[m] = deliveries[m]
          /\ status'[m] = IF deliveries[m] = maxDeliver THEN "spent" ELSE "ready"
          /\ Holders(m) # {} => faults' = faults + 1
      BY <1>4, <2>3 DEF LeaseExpires, Fault, DeliveryTypeOK
    <3>2. deliveries'[m] <= Spent' /\ deliveries'[m] <= faults'
      <4>1. faults \in Nat /\ faults' \in Nat /\ deliveries[m] \in Nat
        BY <1>1, <1>4 DEF DeliveryTypeOK
      <4>2. deliveries[m] <= Spent \/ (deliveries[m] <= Spent + 1 /\ faults' = faults + 1)
        BY <2>1, <3>1 DEF CountOK
      <4>3. CASE deliveries[m] <= Spent
        BY <1>3, <3>1, <4>1, <4>3
      <4>4. CASE deliveries[m] <= Spent + 1 /\ faults' = faults + 1
        BY <1>3, <3>1, <4>1, <4>4
      <4> QED
        BY <4>2, <4>3, <4>4
    <3>3. deliveries[m] # Unlimited
      BY <1>4 DEF Unlimited
    <3> QED
      BY <3>1, <3>2, <3>3 DEF CountOK
  <2> QED
    BY <2>2, <2>3
<1>7. ASSUME NEW n \in Messages \ {m} PROVE CountOK(n)'
  <2>1. CountOK(n) /\ status'[n] = status[n] /\ deliveries'[n] = deliveries[n] /\ deliveries[n] \in Nat
    BY <1>4 DEF CountInv
  <2> QED
    BY <1>1, <1>2, <1>3, <2>1 DEF CountOK, DeliveryTypeOK
<1> QED
  BY <1>4, <1>5, <1>6, <1>7 DEF CountInv

\* An acknowledged message asks for no more deliveries.
LEMMA CountAcks ==
  ASSUME DeliveryTypeOK, DeliveryInv, CountInv, maxDeliver' = maxDeliver, NEW c \in wire, BrokerAcks(c)
  PROVE  CountInv'
<1>1. /\ c.msg \in Messages /\ c.op = "ack" /\ status' = [status EXCEPT ![c.msg] = "acked"]
      /\ UNCHANGED <<deliveries, ctxDone, faults>>
  BY DEF BrokerAcks, DeliveryTypeOK, Calls
<1>2. /\ Holders(c.msg) \subseteq Workers
      /\ \A v \in Workers : v # c.from => worker'[v] = worker[v]
      /\ \A v \in Workers : v = c.from =>
            /\ worker'[v].job = worker[v].job /\ worker'[v].pc = worker[v].pc /\ worker[v].job = c.msg
            /\ worker'[v].ext = worker[v].ext /\ worker'[v].callback = "ok"
  <2>1. CASE c.from = NoWorker
    BY <2>1, DeliveryAssumption DEF BrokerAcks, Answer, Holders
  <2>2. CASE c.from # NoWorker
    <3>1. c.from \in Workers /\ worker[c.from].job = c.msg /\ worker[c.from] \in WorkerRecords
      BY <2>2 DEF DeliveryTypeOK, Calls, DeliveryInv, CallsInv
    <3>2. worker' = [worker EXCEPT ![c.from].callback = "ok"]
      BY <2>2 DEF BrokerAcks, Answer
    <3> QED
      BY <3>1, <3>2 DEF DeliveryTypeOK, WorkerRecords, Holders
  <2> QED
    BY <2>1, <2>2
<1>3. \A v \in Workers : worker'[v].job = worker[v].job /\ worker'[v].ext = worker[v].ext
  BY <1>2
<1>4. Spent \in Int /\ Spent' \in Int /\ Spent <= Spent'
  <2>1. Failing' => Failing
    BY <1>1, <1>2, <1>3 DEF Failing
  <2> QED
    BY <1>1, <2>1, SpentGrows, SpentIsFaults
<1>5. ASSUME NEW v \in Workers PROVE HolderOK(v)'
  <2>1. HolderOK(v)
    BY DEF CountInv
  <2>2. CASE v = c.from
    BY <1>1, <1>2, <2>1, <2>2 DEF HolderOK, DeliveryTypeOK
  <2>3. CASE v # c.from
    <3>1. worker[v].callback = "ok" => worker[v].job \in Messages
      BY RecordFacts DEF Sound
    <3> QED
      BY <1>1, <1>2, <2>1, <2>3, <3>1 DEF HolderOK, DeliveryTypeOK
  <2> QED
    BY <2>2, <2>3
<1>6. ASSUME NEW n \in Messages PROVE CountOK(n)'
  <2>1. CountOK(n) /\ deliveries'[n] = deliveries[n] /\ deliveries[n] \in Nat
    BY <1>1 DEF CountInv
  <2>2. Holders(n)' = Holders(n)
    BY <1>3 DEF Holders
  <2>3. CASE n = c.msg
    <3>1. status'[n] = "acked"
      BY <1>1, <2>3 DEF DeliveryTypeOK
    <3> QED
      BY <3>1 DEF CountOK
  <2>4. CASE n # c.msg
    <3>1. status'[n] = status[n]
      BY <1>1, <2>4 DEF DeliveryTypeOK
    <3> QED
      BY <1>1, <1>4, <2>1, <2>2, <3>1 DEF CountOK
  <2> QED
    BY <2>3, <2>4
<1> QED
  BY <1>1, <1>5, <1>6 DEF CountInv

\* Whatever else the broker does is no delivery.
LEMMA CountStores ==
  ASSUME DeliveryTypeOK, DeliveryInv, CountInv, maxDeliver' = maxDeliver, NEW c \in wire,
         BrokerStores(c) \/ BrokerNeverSees(c)
  PROVE  CountInv'
<1>1. CASE BrokerStores(c) /\ c.from # NoWorker
  <2>1. c.from \in Workers /\ worker[c.from].callback = "publishing" /\ worker[c.from] \in WorkerRecords
    BY <1>1 DEF BrokerStores, DeliveryTypeOK, Calls, DeliveryInv, CallsInv
  <2>2. worker[c.from].pc \notin {"loop", "exited"}
    BY <2>1, RecordFacts DEF Sound
  <2>3. worker' = [worker EXCEPT ![c.from].callback = "published"]
        /\ UNCHANGED <<status, deliveries, ctxDone, faults>>
    BY <1>1 DEF BrokerStores, Answer
  <2>4. /\ \A v \in Workers \ {c.from} : worker'[v] = worker[v]
        /\ worker'[c.from].job = worker[c.from].job /\ worker'[c.from].pc = worker[c.from].pc
        /\ worker'[c.from].callback = "published" /\ worker'[c.from].ext = worker[c.from].ext
    BY <2>1, <2>3 DEF DeliveryTypeOK, WorkerRecords
  <2> QED
    BY <2>1, <2>2, <2>3, <2>4, CountGoesOn DEF DeliveryTypeOK
<1>2. CASE (BrokerStores(c) /\ c.from = NoWorker) \/ BrokerNeverSees(c)
  <2>1. UNCHANGED <<worker, status, deliveries, ctxDone, faults, maxDeliver>>
    BY <1>2 DEF BrokerStores, BrokerNeverSees, Answer, processVars, brokerVars
  <2> QED
    BY <2>1 DEF CountInv, HolderOK, CountOK, Spent, Failing, Holders
<1> QED
  BY <1>1, <1>2

\* A fault that hits no delivery pays for none.
LEMMA CountPays ==
  ASSUME DeliveryTypeOK, CountInv, maxDeliver' = maxDeliver, Fault,
         UNCHANGED <<worker, status, deliveries>>, ctxDone' \in {ctxDone, TRUE}
  PROVE  CountInv'
<1>1. faults \in Nat /\ faults' = faults + 1
  BY DEF Fault, DeliveryTypeOK
<1>2. Spent <= Spent' /\ Spent' \in Int
  BY <1>1, SpentGrows
<1>3. \A w \in Workers : HolderOK(w)'
  BY DEF CountInv, HolderOK
<1>4. ASSUME NEW m \in Messages PROVE Holders(m)' = Holders(m)
  BY DEF Holders
<1>5. ASSUME ~ctxDone, ctxDone' PROVE Spent + 1 <= Spent'
  <2>1. Spent' = faults'
    BY <1>5 DEF Spent, Failing
  <2> QED
    BY <1>1, <2>1, SpentIsFaults
<1> QED
  BY <1>1, <1>2, <1>3, <1>4, <1>5, CountKept

\* A new group starts with nothing: nobody held a delivery, or the crash pays.
LEMMA CountReborn ==
  ASSUME DeliveryTypeOK, CountInv, maxDeliver' = maxDeliver, Restart \/ Crash
  PROVE  CountInv'
<1>1. /\ worker' = [w \in Workers |-> Idle] /\ UNCHANGED <<status, deliveries>>
      /\ faults \in Nat /\ faults' \in {faults, faults + 1}
  BY DEF Restart, Crash, Reborn, Fault, brokerVars, DeliveryTypeOK
<1>2. ~Failing'
  BY <1>1 DEF Failing, Idle
<1>3. Spent' = faults' /\ Spent <= Spent' /\ Spent' \in Int
  BY <1>1, <1>2, SpentGrows DEF Spent
<1>4. \A w \in Workers : HolderOK(w)'
  BY <1>1 DEF HolderOK, Idle
<1>5. ASSUME NEW m \in Messages, Holders(m) # {} PROVE Spent + 1 <= Spent'
  <2>1. CASE Restart
    <3>1. PICK w \in Workers : worker[w].job = m
      BY <1>5 DEF Holders
    <3>2. worker[w].job = NoMessage
      BY <2>1 DEF Restart, CountInv, HolderOK
    <3> QED
      BY <3>1, <3>2, DeliveryAssumption
  <2>2. CASE Crash
    BY <1>1, <1>3, <2>2, SpentIsFaults DEF Crash, Fault
  <2> QED
    BY <2>1, <2>2
<1> QED
  BY <1>1, <1>3, <1>4, <1>5, CountKept

LEMMA CountStep ==
  ASSUME DeliveryTypeOK, DeliveryInv, CountInv, [DeliveryNext]_deliveryVars
  PROVE  CountInv'
<1>1. CASE UNCHANGED <<worker, status, deliveries, ctxDone, faults, maxDeliver>>
  BY <1>1 DEF CountInv, HolderOK, CountOK, Spent, Failing, Holders
<1>2. CASE DeliveryNext
  <2>0. maxDeliver' = maxDeliver
    BY <1>2 DEF DeliveryNext, configVars
  <2>1. ASSUME NEW w \in Workers, WorkerStep(w) PROVE CountInv'
    BY <2>0, <2>1, CountWorks, CountEnds, CountReceives DEF WorkerStep
  <2>2. ASSUME NEW w \in Workers, ExtensionStep(w) PROVE CountInv'
    BY <2>0, <2>2, CountWorks
  <2>3. ASSUME NEW w \in Workers, ReceiveNothing(w) PROVE CountInv'
    BY <1>1, <2>0, <2>3 DEF ReceiveNothing, movingVars, processVars, brokerVars
  <2>4. CASE BrokerStep
    BY <2>0, <2>4, CountAcks, CountStores DEF BrokerStep
  <2>5. ASSUME NEW m \in Messages, LeaseExpires(m) PROVE CountInv'
    BY <2>0, <2>5, CountBroker
  <2>6. CASE FaultStep
    <3>1. ASSUME NEW w \in Workers, ReceiveFails(w) \/ HandlerPanics(w) \/ SettleTimesOut(w) PROVE CountInv'
      BY <2>0, <3>1, CountEnds
    <3>2. ASSUME NEW w \in Workers, ExtensionFails(w) \/ CallbackFails(w) PROVE CountInv'
      BY <2>0, <3>2, CountWorks
    <3>3. ASSUME NEW m \in Messages, ReceiveTooLate(m) PROVE CountInv'
      BY <2>0, <3>3, CountBroker
    <3>4. ASSUME NEW m \in Messages, WindowPasses(m) PROVE CountInv'
      BY <2>0, <3>4, CountPays DEF WindowPasses, processVars
    <3>5. CASE Shutdown
      BY <2>0, <3>5, CountPays DEF Shutdown, brokerVars
    <3>6. CASE Crash
      BY <2>0, <3>6, CountReborn
    <3> QED
      BY <2>6, <3>1, <3>2, <3>3, <3>4, <3>5, <3>6 DEF FaultStep
  <2>7. CASE Restart
    BY <2>0, <2>7, CountReborn
  <2> QED
    BY <1>2, <2>1, <2>2, <2>3, <2>4, <2>5, <2>6, <2>7 DEF DeliveryNext
<1> QED
  BY <1>1, <1>2 DEF deliveryVars, movingVars, processVars, brokerVars, configVars

LEMMA CountStart == DeliveryInit => CountInv
<1> SUFFICES ASSUME DeliveryInit PROVE CountInv
  OBVIOUS
<1>1. Spent = 0
  BY DEF DeliveryInit, Spent, Failing, Idle
<1>2. \A m \in Messages : CountOK(m)
  BY <1>1 DEF DeliveryInit, CountOK
<1>3. \A w \in Workers : HolderOK(w)
  BY DEF DeliveryInit, HolderOK, Idle
<1> QED
  BY <1>2, <1>3 DEF DeliveryInit, CountInv

\* A message is left unsettled only under a delivery limit, and only after as
\* many faults as the limit allows deliveries (adapter.go, PreflightConsumer;
\* worker.go, processDelivery).
THEOREM GivenUpTheorem == DeliverySpec => []GivenUpOnlyByFaults
<1>1. DeliveryTypeOK /\ CountInv => GivenUpOnlyByFaults
  BY DEF CountInv, CountOK, GivenUpOnlyByFaults
<1>2. DeliveryTypeOK /\ DeliveryInv /\ CountInv /\ [DeliveryNext]_deliveryVars => CountInv'
  BY CountStep
<1> QED
  BY <1>1, <1>2, CountStart, DeliveryTypeCorrect, PTL DEF DeliverySpec

-----------------------------------------------------------------------------
(* The lease of a delivery that is extended *)

\* The lease is extended, and the margin covers one extension call.
Covered(c) == ExtensionEnabled(c) /\ c.safetyMargin >= c.LeaseExtensionTimeout

Longest(c) == Max({c.SettlementTimeout, c.LeaseExtensionTimeout})

\* What the lease is worth at least at each point of a delivery.
WorthInv ==
    /\ ackWait = config.LeaseExtensionInterval + Longest(config) + config.safetyMargin
    /\ lease \in Int
    /\ pc \in {"handling", "backoff", "joining", "settling", "done"}
    /\ pc \in {"handling", "backoff", "joining"} =>
          ext \in {"waiting", "calling"} /\ extLeft \in Nat
    /\ pc = "settling" => ext = "off" /\ left \in Nat /\ lease > left
    /\ pc # "done" /\ ext = "waiting" =>
          lease > extLeft + Longest(config) + config.safetyMargin - config.LeaseExtensionTimeout
    /\ pc # "done" /\ ext = "calling" =>
          /\ extLeft <= config.LeaseExtensionTimeout
          /\ lease > extLeft + Longest(config) + config.safetyMargin - 2 * config.LeaseExtensionTimeout
          /\ extended => lease >= ackWait - config.LeaseExtensionTimeout + extLeft

ExtendedInv == config \in Configs /\ (Covered(config) => WorthInv)

LEMMA MaxOfTwo ==
  ASSUME NEW a \in Int, NEW b \in Int
  PROVE  Max({a, b}) \in {a, b} /\ Max({a, b}) >= a /\ Max({a, b}) >= b
<1>1. \E x \in {a, b} : \A y \in {a, b} : x >= y
  OBVIOUS
<1>2. Max({a, b}) \in {a, b} /\ \A y \in {a, b} : Max({a, b}) >= y
  BY <1>1 DEF Max
<1> QED
  BY <1>2

LEMMA ConfigFacts ==
  ASSUME NEW c \in Configs
  PROVE  /\ c.LeaseExtensionInterval \in Nat /\ c.LeaseExtensionTimeout \in Nat
         /\ c.SettlementTimeout \in Nat /\ c.safetyMargin \in Nat /\ Longest(c) \in Nat
         /\ c.SettlementTimeout > 0 /\ Longest(c) >= c.SettlementTimeout
         /\ Longest(c) >= c.LeaseExtensionTimeout
         /\ ExtensionEnabled(c) => c.LeaseExtensionTimeout > 0
         /\ MinimumDeliveryLease(c) =
               IF ExtensionEnabled(c) THEN c.LeaseExtensionInterval + Longest(c) + c.safetyMargin
               ELSE StaticLease(c)
<1>1. c \in ConfigRecords /\ ValidConfig(c)
  BY LeaseAssumption
<1>2. c.SettlementTimeout \in Nat /\ c.LeaseExtensionTimeout \in Nat
  BY <1>1 DEF ConfigRecords
<1>3. /\ Longest(c) \in Nat /\ Longest(c) >= c.SettlementTimeout /\ Longest(c) >= c.LeaseExtensionTimeout
  <2>1. c.SettlementTimeout \in Int /\ c.LeaseExtensionTimeout \in Int
    BY <1>2
  <2>2. /\ Longest(c) \in {c.SettlementTimeout, c.LeaseExtensionTimeout}
        /\ Longest(c) >= c.SettlementTimeout /\ Longest(c) >= c.LeaseExtensionTimeout
    BY <2>1, MaxOfTwo, Zenon DEF Longest
  <2> QED
    BY <1>2, <2>2
<1> QED
  BY <1>1, <1>3 DEF ConfigRecords, ValidConfig, ExtensionEnabled, MinimumDeliveryLease, ExtendedLease, Longest

LEMMA ExtendedStart == LeaseInit => ExtendedInv
<1> SUFFICES ASSUME LeaseInit, Covered(config) PROVE WorthInv
  BY DEF LeaseInit, ExtendedInv
<1>1. config \in Configs /\ ExtensionEnabled(config)
  BY DEF LeaseInit, Covered
<1>2. ackWait = config.LeaseExtensionInterval + Longest(config) + config.safetyMargin
  BY <1>1, ConfigFacts DEF LeaseInit
<1> QED
  BY <1>1, <1>2, ConfigFacts DEF LeaseInit, WorthInv

LEMMA ExtendedStep == ExtendedInv /\ [LeaseNext]_leaseVars => ExtendedInv'
<1> SUFFICES ASSUME ExtendedInv, [LeaseNext]_leaseVars, Covered(config) PROVE WorthInv'
  BY DEF ExtendedInv, LeaseNext, leaseVars, AttemptSucceeds, AttemptFails, WaitEnds, Joined, SettlementEnds,
         ExtensionBegins, BrokerExtends, ExtensionReturns, ExtensionTimesOut, Elapse
<1> USE DEF WorthInv
<1>1. config \in Configs /\ WorthInv
  BY DEF ExtendedInv
<1>2. /\ config.LeaseExtensionInterval \in Nat /\ config.LeaseExtensionTimeout \in Nat
      /\ config.SettlementTimeout \in Nat /\ config.safetyMargin \in Nat /\ Longest(config) \in Nat
      /\ Longest(config) >= config.SettlementTimeout /\ Longest(config) >= config.LeaseExtensionTimeout
      /\ config.LeaseExtensionTimeout > 0 /\ config.safetyMargin >= config.LeaseExtensionTimeout
  BY <1>1, ConfigFacts DEF Covered
<1>3. CASE AttemptSucceeds
  BY <1>1, <1>2, <1>3 DEF AttemptSucceeds, PlanMade
<1>4. CASE AttemptFails
  <2>1. CASE PlanMade
    BY <1>1, <1>2, <1>4, <2>1 DEF AttemptFails, PlanMade
  <2>2. CASE pc' = "backoff" /\ ext' = ext
    BY <1>1, <1>2, <1>4, <2>2 DEF AttemptFails
  <2> QED
    BY <1>4, <2>1, <2>2 DEF AttemptFails
<1>5. CASE WaitEnds
  BY <1>1, <1>2, <1>5 DEF WaitEnds
<1>6. CASE Joined
  BY <1>1, <1>2, <1>6 DEF Joined
<1>7. CASE SettlementEnds
  BY <1>1, <1>2, <1>7 DEF SettlementEnds
<1>8. CASE ExtensionBegins
  BY <1>1, <1>2, <1>8 DEF ExtensionBegins
<1>9. CASE BrokerExtends
  BY <1>1, <1>2, <1>9 DEF BrokerExtends
<1>10. CASE ExtensionReturns
  BY <1>1, <1>2, <1>10 DEF ExtensionReturns
<1>11. CASE ExtensionTimesOut
  BY <1>1, <1>2, <1>11 DEF ExtensionTimesOut
<1>12. CASE Elapse
  <2>1. lease' \in Int /\ lease' >= lease - 1
    <3>1. lease - 1 \in Int /\ 0 \in Int
      BY <1>1
    <3>2. lease' = Max({lease - 1, 0})
      BY <1>12 DEF Elapse
    <3>3. lease' \in {lease - 1, 0} /\ lease' >= lease - 1
      BY <3>1, <3>2, MaxOfTwo, Zenon
    <3> QED
      BY <3>1, <3>3
  <2>2. pc # "settling" => extLeft' = extLeft - 1 /\ extLeft' \in Nat
    BY <1>1, <1>12 DEF Elapse
  <2> QED
    BY <1>1, <1>2, <1>12, <2>1, <2>2 DEF Elapse
<1>13. CASE UNCHANGED leaseVars
  BY <1>1, <1>13 DEF leaseVars
<1> QED
  BY <1>3, <1>4, <1>5, <1>6, <1>7, <1>8, <1>9, <1>10, <1>11, <1>12, <1>13 DEF LeaseNext

\* With lease extension, and a margin that covers one extension call, a lease
\* of the computed length outlives every delivery (MinimumDeliveryLease).
THEOREM ExtendedLeaseTheorem == LeaseSpec => [](Covered(config) => LeaseOutlivesDelivery)
<1>1. ExtendedInv => (Covered(config) => LeaseOutlivesDelivery)
  <2> SUFFICES ASSUME ExtendedInv, Covered(config), pc # "done" PROVE lease > 0
    BY DEF LeaseOutlivesDelivery
  <2>1. config \in Configs /\ WorthInv
    BY DEF ExtendedInv
  <2> QED
    BY <2>1, ConfigFacts DEF WorthInv, Covered
<1> QED
  BY <1>1, ExtendedStart, ExtendedStep, PTL DEF LeaseSpec

=============================================================================
