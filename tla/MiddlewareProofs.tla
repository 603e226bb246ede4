-------------------------- MODULE MiddlewareProofs --------------------------
(***************************************************************************)
(* Proofs about what surrounds the handler of a request.                   *)
(*                                                                         *)
(* Idempotency, for any number of requests and any durations that meet the *)
(* module's assumptions; and the audit log, for any requests, keys and     *)
(* failures of the writer: what the verifier accepts is what was           *)
(* acknowledged.                                                           *)
(***************************************************************************)
EXTENDS Idempotency, AuditChain, SequenceTheorems, TLAPS

(***************************************************************************)
(* Idempotent requests                                                     *)
(***************************************************************************)
\* A request between a granted Lock and its Unlock.
Holding(r) ==
    phase[r] \in {"readBinding", "writeBinding", "unlockBinding",
                  "lookupAgain", "handler", "save", "unlockResponse"}

\* The lease of a request inside outlasts the request's own deadline.
LeaseInv == \A r \in Requests : Holding(r) => lock.holder = r /\ lock.left > left[r]

\* What a request inside has read stays true until it acts on it.
ReadInv ==
    \A r \in Requests :
        /\ phase[r] \in {"handler", "save"} => response = NoResponse
        /\ At(r, "writeBinding") => binding = NoBinding

\* Only a request that passed the binding has written it.
FreshInv ==
    \A r \in Requests :
        phase[r] \in {"new", "lockBinding", "readBinding", "writeBinding"} => ~wrote[r]

\* A request that wrote the binding can still store a response under it.
BindInv ==
    \A r \in Requests :
        wrote[r] /\ InFlight(r) /\ (InTime(r) \/ phase[r] \in {"handler", "save"}) =>
            binding.digest = Fingerprint[r] /\ binding.left >= Lifetime + left[r]

\* A stored response is covered by the binding its request wrote.
CoverInv ==
    response.own =>
        /\ response.left > 0
        /\ binding.digest = response.digest
        /\ binding.left >= response.left

Guard == LeaseInv /\ ReadInv /\ FreshInv /\ BindInv /\ CoverInv

USE DEF At, Go, Answer, Waiting, InFlight, InTime

LEMMA TypeInit == Init => TypeOK
  BY ConstantsAssumption, LoadAssumption DEF Init, TypeOK, Phases, Outcomes, NoLease, NoBinding, NoResponse, Digests

LEMMA TypeStep == TypeOK /\ [Next]_vars => TypeOK'
<1> SUFFICES ASSUME TypeOK, [Next]_vars PROVE TypeOK'
  OBVIOUS
<1> USE ConstantsAssumption, LoadAssumption DEF TypeOK, Phases, Outcomes
<1>1. ASSUME NEW r \in Requests, Arrive(r) \/ LockFails(r) \/ BindReads(r) \/ Looks(r)
             \/ LookupFails(r) \/ LooksAgain(r) \/ Handles(r) \/ Crash(r)
      PROVE TypeOK'
  BY <1>1 DEF Arrive, LockFails, BindReads, Looks, LookupFails, LooksAgain, Handles, Crash
<1>2. ASSUME NEW r \in Requests, Locked(r) PROVE TypeOK'
  BY <1>2 DEF Locked
<1>3. ASSUME NEW r \in Requests, BindWrites(r) PROVE TypeOK'
  BY <1>3 DEF BindWrites, fingerprintLifetime, Digests
<1>4. ASSUME NEW r \in Requests, BindFails(r) PROVE TypeOK'
  BY <1>4 DEF BindFails, fingerprintLifetime, Digests
<1>5. ASSUME NEW r \in Requests, UnlocksBinding(r) \/ UnlocksResponse(r) PROVE TypeOK'
  BY <1>5 DEF UnlocksBinding, UnlocksResponse, Unlock, NoLease
<1>6. ASSUME NEW r \in Requests, Saves(r) \/ ExecutionFails(r) PROVE TypeOK'
  BY <1>6 DEF Saves, ExecutionFails, Stored, Digests
<1>7. CASE Tick
  <2>1. left' \in [Requests -> 0 .. RequestTimeout] /\ waited' \in [Requests -> 0 .. LockWaitTimeout]
    BY <1>7 DEF Tick, TimelyCalls, Runs
  <2>2. lock' \in [holder : Requests \cup {NoRequest}, left : 0 .. LockTTL]
    BY <1>7 DEF Tick, Lasts, NoLease
  <2>3. binding' \in [digest : Digests, left : 0 .. Lifetime + Overlap]
    BY <1>7 DEF Tick, Lasts, NoBinding, Digests
  <2>4. response' \in [digest : Digests, own : BOOLEAN, left : 0 .. Lifetime]
    BY <1>7 DEF Tick, Lasts, NoResponse, Digests
  <2> QED BY <1>7, <2>1, <2>2, <2>3, <2>4 DEF Tick
<1>8. CASE UNCHANGED vars
  BY <1>8 DEF vars
<1> QED BY <1>1, <1>2, <1>3, <1>4, <1>5, <1>6, <1>7, <1>8 DEF Next, Step

(* Every behaviour of the middleware stays within the states the module      *)
(* describes: no timer of a request, the lock or a stored value overruns.    *)
THEOREM TypeCorrect == Spec => []TypeOK
  BY TypeInit, TypeStep, PTL DEF Spec

-----------------------------------------------------------------------------
(* The inductive strengthening.                                              *)

LEMMA GuardInit == Init => Guard
  BY DEF Init, Guard, LeaseInv, ReadInv, FreshInv, BindInv, CoverInv, Holding, NoResponse

\* Two requests are never inside together: each would hold the lease.
LEMMA OneInside ==
  ASSUME LeaseInv, NEW r \in Requests, NEW q \in Requests, Holding(r), Holding(q)
  PROVE  r = q
  BY DEF LeaseInv

\* The steps that leave lock, binding and response as they are, or change
\* only what the acting request may change, as seen by the five parts.
LEMMA QuietSteps ==
  ASSUME TypeOK, Guard, NEW r \in Requests,
         Arrive(r) \/ LockFails(r) \/ BindReads(r) \/ Looks(r) \/ LookupFails(r)
           \/ LooksAgain(r) \/ Handles(r) \/ Crash(r)
  PROVE  Guard'
<1> USE DEF TypeOK, Guard, Holding, Arrive, LockFails, BindReads, Looks, LookupFails, LooksAgain, Handles, Crash
<1>1. LeaseInv'
  BY DEF LeaseInv
<1>2. ReadInv'
  BY DEF ReadInv
<1>3. FreshInv'
  BY DEF FreshInv
<1>4. BindInv'
  BY DEF BindInv, FreshInv
<1>5. CoverInv'
  BY DEF CoverInv
<1> QED BY <1>1, <1>2, <1>3, <1>4, <1>5

LEMMA LockSteps ==
  ASSUME TypeOK, Guard, NEW r \in Requests,
         Locked(r) \/ UnlocksBinding(r) \/ UnlocksResponse(r)
  PROVE  Guard'
<1> USE DEF TypeOK, Guard, Holding, Locked, UnlocksBinding, UnlocksResponse, Unlock, NoLease
<1>1. LeaseInv'
  BY ConstantsAssumption, LoadAssumption DEF LeaseInv
<1>2. ReadInv'
  BY DEF ReadInv
<1>3. FreshInv'
  BY DEF FreshInv
<1>4. BindInv'
  BY DEF BindInv, FreshInv
<1>5. CoverInv'
  BY DEF CoverInv
<1> QED BY <1>1, <1>2, <1>3, <1>4, <1>5

LEMMA BindingSteps ==
  ASSUME TypeOK, Guard, NEW r \in Requests, BindWrites(r) \/ BindFails(r)
  PROVE  Guard'
<1> USE DEF TypeOK, Guard, Holding, BindWrites, BindFails
<1>1. LeaseInv'
  BY DEF LeaseInv
<1>2. ReadInv'
  <2>1. ASSUME NEW q \in Requests, phase'[q] \in {"handler", "save"} PROVE response' = NoResponse
    BY <2>1 DEF ReadInv
  <2>2. ASSUME NEW q \in Requests, phase'[q] = "writeBinding" PROVE binding' = NoBinding
    <3>1. q # r /\ phase[q] = "writeBinding"
      BY <2>2
    <3>2. phase[r] \notin {"writeBinding", "readBinding"}
      BY <3>1, OneInside
    <3> QED BY <3>2
  <2> QED BY <2>1, <2>2 DEF ReadInv
<1>3. FreshInv'
  BY DEF FreshInv
<1>4. CASE At(r, "writeBinding") /\ binding' # binding
  <2>1. binding = NoBinding /\ binding'.digest = Fingerprint[r] /\ binding'.left = Lifetime + Overlap
    BY <1>4 DEF ReadInv, fingerprintLifetime
  <2>2. BindInv'
    <3> SUFFICES ASSUME NEW q \in Requests, wrote'[q], InFlight(q)',
                        InTime(q)' \/ phase'[q] \in {"handler", "save"}
                 PROVE  binding'.digest = Fingerprint[q] /\ binding'.left >= Lifetime + left'[q]
      BY DEF BindInv
    <3>1. q = r
      BY <2>1, ConstantsAssumption DEF BindInv, NoBinding
    <3> QED BY <2>1, <3>1, ConstantsAssumption, LoadAssumption, OverlapAssumption
  <2>3. CoverInv'
    BY <2>1, ConstantsAssumption DEF CoverInv, NoBinding
  <2> QED BY <1>1, <1>2, <1>3, <2>2, <2>3
<1>5. CASE UNCHANGED binding
  <2>1. BindInv'
    <3> SUFFICES ASSUME NEW q \in Requests, wrote'[q], InFlight(q)',
                        InTime(q)' \/ phase'[q] \in {"handler", "save"}
                 PROVE  binding'.digest = Fingerprint[q] /\ binding'.left >= Lifetime + left'[q]
      BY DEF BindInv
    <3>1. CASE BindFails(r)
      BY <1>5, <3>1 DEF BindInv
    <3>2. CASE BindWrites(r)
      <4>1. binding = NoBinding /\ binding'.left = Lifetime + Overlap
        BY <3>2 DEF ReadInv, fingerprintLifetime
      <4> QED BY <4>1, <1>5, ConstantsAssumption DEF NoBinding
    <3> QED BY <3>1, <3>2
  <2>2. CoverInv'
    BY <1>5 DEF CoverInv
  <2> QED BY <1>1, <1>2, <1>3, <2>1, <2>2
<1> QED BY <1>4, <1>5

LEMMA ResponseSteps ==
  ASSUME TypeOK, Guard, NEW r \in Requests, Saves(r) \/ ExecutionFails(r)
  PROVE  Guard'
<1> USE DEF TypeOK, Guard, Holding, Saves, ExecutionFails
<1>1. LeaseInv'
  BY DEF LeaseInv
<1>2. ReadInv'
  <2>1. ASSUME NEW q \in Requests, phase'[q] \in {"handler", "save"} PROVE response' = NoResponse
    <3>1. q # r /\ phase[q] \in {"handler", "save"}
      BY <2>1
    <3>2. FALSE
      BY <3>1, OneInside
    <3> QED BY <3>2
  <2>2. ASSUME NEW q \in Requests, phase'[q] = "writeBinding" PROVE binding' = NoBinding
    BY <2>2 DEF ReadInv
  <2> QED BY <2>1, <2>2 DEF ReadInv
<1>3. FreshInv'
  BY DEF FreshInv
<1>4. BindInv'
  BY DEF BindInv
<1>5. CoverInv'
  <2>1. CASE UNCHANGED response
    BY <2>1 DEF CoverInv
  <2>2. CASE At(r, "save") /\ response' = Stored(r)
    BY <2>2, ConstantsAssumption DEF CoverInv, BindInv, Stored
  <2> QED BY <2>1, <2>2
<1> QED BY <1>1, <1>2, <1>3, <1>4, <1>5

LEMMA TimeStep ==
  ASSUME TypeOK, Guard, Tick
  PROVE  Guard'
<1> USE ConstantsAssumption, LoadAssumption DEF TypeOK, Guard, Holding, Tick, Lasts, Runs
<1>1. LeaseInv'
  <2> SUFFICES ASSUME NEW q \in Requests, Holding(q)' PROVE lock'.holder = q /\ lock'.left > left'[q]
    BY DEF LeaseInv
  <2>1. lock.holder = q /\ lock.left > left[q] /\ left[q] > 0
    BY DEF LeaseInv, TimelyCalls
  <2> QED BY <2>1
<1>2. ReadInv'
  BY DEF ReadInv, NoResponse, NoBinding
<1>3. FreshInv'
  BY DEF FreshInv
<1>4. BindInv'
  <2> SUFFICES ASSUME NEW q \in Requests, wrote'[q], InFlight(q)',
                      InTime(q)' \/ phase'[q] \in {"handler", "save"}
               PROVE  binding'.digest = Fingerprint[q] /\ binding'.left >= Lifetime + left'[q]
    BY DEF BindInv
  <2>1. left[q] > 0 /\ left'[q] = left[q] - 1
    BY DEF TimelyCalls
  <2>2. binding.digest = Fingerprint[q] /\ binding.left >= Lifetime + left[q]
    BY <2>1 DEF BindInv
  <2> QED BY <2>1, <2>2
<1>5. CoverInv'
  BY DEF CoverInv, NoResponse
<1> QED BY <1>1, <1>2, <1>3, <1>4, <1>5

LEMMA GuardStep == TypeOK /\ Guard /\ [Next]_vars => Guard'
<1> SUFFICES ASSUME TypeOK, Guard, [Next]_vars PROVE Guard'
  OBVIOUS
<1>1. CASE UNCHANGED vars
  BY <1>1 DEF vars, Guard, LeaseInv, ReadInv, FreshInv, BindInv, CoverInv, Holding
<1>2. CASE Tick
  BY <1>2, TimeStep
<1>3. ASSUME NEW r \in Requests, Step(r) PROVE Guard'
  BY <1>3, QuietSteps, LockSteps, BindingSteps, ResponseSteps DEF Step
<1> QED BY <1>1, <1>2, <1>3 DEF Next

LEMMA GuardHolds == Spec => []Guard
  BY TypeInit, TypeStep, GuardInit, GuardStep, PTL DEF Spec

(* Requests with one key never execute side by side nor execute again what   *)
(* a stored response answers, for any number of requests: the lease taken    *)
(* inside outlasts the request, because REDIS_LOCK_TTL exceeds the request   *)
(* timeout, and the response is looked up again under it.                    *)
THEOREM ExclusiveTheorem == Spec => []ExecutionExclusive
<1>1. Guard => ExecutionExclusive
  BY DEF Guard, LeaseInv, ReadInv, Holding, ExecutionExclusive
<1> QED BY <1>1, GuardHolds, PTL

(* The fingerprint written by a request outlives the response it stores      *)
(* whenever the request timeout is at most the overlap.                      *)
THEOREM CoverTheorem == Spec => []OwnBindingOutlivesResponse
<1>1. Guard => OwnBindingOutlivesResponse
  BY DEF Guard, BindInv, CoverInv, OwnBindingOutlivesResponse
<1> QED BY <1>1, GuardHolds, PTL

(***************************************************************************)
(* The audit log                                                           *)
(***************************************************************************)
Told == Len(acked)

\* The log begins with the acknowledged records, linked, and the sink is
\* where the last of them left it.
Linked ==
    /\ sequence = Told /\ Told <= Len(log)
    /\ previous = IF Told = 0 THEN <<>> ELSE log[Told].hash
    /\ \A i \in 1..Told : VerifyLine(i) /\ log[i].record = acked[i]

\* Nothing but them.
Clean == Linked /\ Len(log) = Told /\ ~open

\* One failed write has left a line behind them, and nothing else since.
Trailing == Linked /\ Len(log) = Told + 1

\* Something came after that line, or joined it.
Broken == \E i \in 1..Len(log) : log[i] = Unreadable \/ log[i].sequence # i

ChainInv == IF spoiled THEN Trailing \/ Broken ELSE Clean

-----------------------------------------------------------------------------
LEMMA LineType ==
  ASSUME AuditTypeOK, NEW r \in Writers
  PROVE  /\ Line(r) \in Envelopes /\ Line(r) # Unreadable
         /\ Line(r).sequence = sequence + 1 /\ Line(r).previous = previous /\ Line(r).record = r
         /\ Line(r).hash = AuditChainDigest(previous, sequence + 1, r) /\ Line(r).hash \in Chains
<1>1. AuditChainDigest(previous, sequence + 1, r) \in Chains
  BY DEF AuditTypeOK, AuditChainDigest, Chains
<1>2. Line(r) \in Envelopes
  BY <1>1 DEF Line, Envelopes, AuditTypeOK
<1> QED
  BY <1>1, <1>2, AuditAssumption DEF Line

\* What a write can do to the log.
LEMMA WroteCases ==
  ASSUME AuditTypeOK, NEW r \in Writers, NEW bytes \in Partly, Wrote(Line(r), bytes),
         open => Len(log) > 0
  PROVE  /\ log' \in Seq(Envelopes \cup {Unreadable}) /\ open' \in BOOLEAN
         /\ open' => Len(log') > 0
         /\ \/ bytes = "none" /\ UNCHANGED <<log, open>>
            \/ open /\ log' = [log EXCEPT ![Len(log)] = Unreadable]
            \/ ~open /\ log' = Append(log, Unreadable)
            \/ ~open /\ bytes # "some" /\ log' = Append(log, Line(r))
         /\ bytes = "all" => ~open'
<1>1. log \in Seq(Envelopes \cup {Unreadable})
  BY DEF AuditTypeOK
<1>2. Line(r) \in Envelopes
  BY LineType
<1>3. open \in BOOLEAN
  BY DEF AuditTypeOK
<1>4. CASE bytes = "none"
  <2>1. log' = log /\ open' = open
    BY <1>4 DEF Wrote
  <2> QED
    BY <1>1, <1>3, <1>4, <2>1
<1>5. CASE bytes # "none" /\ open
  <2>1. log' = [log EXCEPT ![Len(log)] = Unreadable]
    BY <1>5 DEF Wrote
  <2>2. open' = (bytes # "all")
    BY <1>5 DEF Wrote
  <2>3. Len(log) \in 1..Len(log)
    BY <1>1, <1>5, LenProperties
  <2>4. log' \in Seq(Envelopes \cup {Unreadable}) /\ Len(log') = Len(log)
    BY <1>1, <2>1, <2>3, ExceptSeq
  <2> QED
    BY <1>5, <2>1, <2>2, <2>3, <2>4
<1>6. CASE bytes # "none" /\ ~open
  <2>1. \/ log' = Append(log, Unreadable)
        \/ bytes # "some" /\ log' = Append(log, Line(r))
    BY <1>6 DEF Wrote
  <2>2. open' = (bytes # "all")
    BY <1>6 DEF Wrote
  <2> PICK line \in Envelopes \cup {Unreadable} : log' = Append(log, line)
    BY <1>2, <2>1
  <2>3. log' \in Seq(Envelopes \cup {Unreadable}) /\ Len(log') = Len(log) + 1 /\ Len(log) \in Nat
    BY <1>1, AppendProperties, LenProperties
  <2>4. open' \in BOOLEAN /\ (bytes = "all" => ~open')
    BY <2>2
  <2>5. Len(log') > 0
    BY <2>3
  <2> QED
    BY <1>6, <2>1, <2>3, <2>4, <2>5, Zenon
<1> QED
  BY <1>4, <1>5, <1>6

OpenInv == open => Len(log) > 0

LEMMA AuditTypeStep ==
  ASSUME AuditTypeOK, OpenInv, AuditNext
  PROVE  AuditTypeOK' /\ OpenInv'
<1> USE DEF AuditTypeOK, OpenInv
<1>1. ASSUME NEW r \in Writers, WriteSecurityAudit(r) PROVE AuditTypeOK' /\ OpenInv'
  BY <1>1 DEF WriteSecurityAudit
<1>2. ASSUME NEW r \in Writers, AuditExpires(r) PROVE AuditTypeOK' /\ OpenInv'
  BY <1>2 DEF AuditExpires
<1>3. ASSUME NEW r \in Writers, TakesGate(r) PROVE AuditTypeOK' /\ OpenInv'
  BY <1>3 DEF TakesGate
<1>4. ASSUME NEW r \in Writers, Refuses(r) PROVE AuditTypeOK' /\ OpenInv'
  BY <1>4 DEF Refuses, Leaves
<1>5. ASSUME NEW r \in Writers, Writes(r) PROVE AuditTypeOK' /\ OpenInv'
  <2>1. Wrote(Line(r), "all") /\ "all" \in Partly
    BY <1>5 DEF Writes, Partly
  <2>2. log' \in Seq(Envelopes \cup {Unreadable}) /\ open' \in BOOLEAN /\ OpenInv'
    BY <2>1, WroteCases
  <2>3. previous' \in Chains
    BY <1>5, LineType DEF Writes
  <2> QED
    BY <1>5, <2>2, <2>3 DEF Writes, Leaves
<1>6. ASSUME NEW r \in Writers, WriteFails(r) PROVE AuditTypeOK' /\ OpenInv'
  <2>1. PICK bytes \in Partly : Wrote(Line(r), bytes) /\ spoiled' = (spoiled \/ bytes # "none")
    BY <1>6 DEF WriteFails
  <2>2. log' \in Seq(Envelopes \cup {Unreadable}) /\ open' \in BOOLEAN /\ OpenInv'
    BY <2>1, WroteCases
  <2>3. spoiled' \in BOOLEAN
    BY <2>1
  <2> QED
    BY <1>6, <2>2, <2>3 DEF WriteFails, Leaves
<1>7. ASSUME NEW k \in Keys, RotateKey(k) PROVE AuditTypeOK' /\ OpenInv'
  BY <1>7 DEF RotateKey
<1> QED
  BY <1>1, <1>2, <1>3, <1>4, <1>5, <1>6, <1>7 DEF AuditNext

\* Every reachable state of the sink, its callers and the log is well typed.
THEOREM AuditTypeCorrect == AuditSpec => [](AuditTypeOK /\ OpenInv)
<1>1. AuditInit => AuditTypeOK /\ OpenInv
  <2> SUFFICES ASSUME AuditInit PROVE AuditTypeOK /\ OpenInv
    OBVIOUS
  <2>1. open \in BOOLEAN /\ spoiled \in BOOLEAN /\ OpenInv
    BY DEF AuditInit, OpenInv
  <2>2. audit \in [Writers -> {"idle", "waiting", "holding"}]
    BY DEF AuditInit
  <2>3. previous \in Chains /\ acked \in Seq(Writers) /\ log \in Seq(Envelopes \cup {Unreadable})
    BY DEF AuditInit, Chains
  <2> QED
    BY <2>1, <2>2, <2>3 DEF AuditInit, AuditTypeOK
<1>2. AuditTypeOK /\ OpenInv /\ [AuditNext]_auditVars => AuditTypeOK' /\ OpenInv'
  <2>1. ASSUME AuditTypeOK, OpenInv, UNCHANGED auditVars PROVE AuditTypeOK' /\ OpenInv'
    BY <2>1 DEF AuditTypeOK, OpenInv, auditVars
  <2> QED
    BY <2>1, AuditTypeStep
<1> QED
  BY <1>1, <1>2, PTL DEF AuditSpec
-----------------------------------------------------------------------------
\* Once broken, whatever is written: each line stays, or becomes unreadable.
LEMMA BrokenStays ==
  ASSUME AuditTypeOK, OpenInv, Broken, NEW r \in Writers, NEW bytes \in Partly, Wrote(Line(r), bytes)
  PROVE  Broken'
<1> PICK i \in 1..Len(log) : log[i] = Unreadable \/ log[i].sequence # i
  BY DEF Broken
<1>1. log \in Seq(Envelopes \cup {Unreadable}) /\ Line(r) \in Envelopes
  BY LineType DEF AuditTypeOK
<1>2. log' = log \/ log' = [log EXCEPT ![Len(log)] = Unreadable]
      \/ \E line \in {Unreadable, Line(r)} : log' = Append(log, line)
  BY WroteCases DEF OpenInv
<1>3. CASE log' = log
  BY <1>3 DEF Broken
<1>4. CASE log' = [log EXCEPT ![Len(log)] = Unreadable]
  BY <1>1, <1>4, ExceptSeq, LenProperties DEF Broken
<1>5. CASE \E line \in {Unreadable, Line(r)} : log' = Append(log, line)
  <2>1. Len(log') = Len(log) + 1 /\ log'[i] = log[i]
    BY <1>1, <1>5, AppendProperties
  <2> QED
    BY <1>1, <2>1, LenProperties DEF Broken
<1> QED
  BY <1>2, <1>3, <1>4, <1>5

\* A line after the one that a failed write left has that one's number, and one
\* that joins it makes it unreadable.
LEMMA TrailingBreaks ==
  ASSUME AuditTypeOK, OpenInv, Trailing, NEW r \in Writers, NEW bytes \in Partly,
         Wrote(Line(r), bytes), bytes # "none"
  PROVE  Broken'
<1>1. log \in Seq(Envelopes \cup {Unreadable}) /\ Len(log) = sequence + 1 /\ sequence \in Nat
  BY DEF Trailing, Linked, AuditTypeOK
<1>2. Line(r) \in Envelopes /\ Line(r).sequence = sequence + 1
  BY LineType
<1>3. CASE open
  <2>1. log' = [log EXCEPT ![Len(log)] = Unreadable]
    BY <1>3 DEF Wrote
  <2>2. Len(log') = Len(log) /\ log'[Len(log)] = Unreadable
    BY <1>1, <2>1, ExceptSeq
  <2> QED
    BY <1>1, <2>2 DEF Broken
<1>4. CASE ~open
  <2>1. PICK line \in {Unreadable, Line(r)} : log' = Append(log, line)
    BY <1>4 DEF Wrote
  <2>2. Len(log') = sequence + 2 /\ log'[sequence + 2] = line
    BY <1>1, <1>2, <2>1, AppendProperties
  <2> QED
    BY <1>1, <1>2, <2>2 DEF Broken
<1> QED
  BY <1>3, <1>4

\* What is appended to a log that tells what was acknowledged leaves that part as it is.
LEMMA LinkedGrows ==
  ASSUME AuditTypeOK, Clean, NEW line \in Envelopes \cup {Unreadable}, log' = Append(log, line)
  PROVE  /\ Len(log') = Told + 1 /\ Told \in Nat /\ log'[Told + 1] = line
         /\ \A i \in 1..Told : log'[i] = log[i]
         /\ \A i \in 1..Told : VerifyLine(i)' /\ log'[i].record = acked[i]
<1>1. log \in Seq(Envelopes \cup {Unreadable}) /\ Len(log) = Told /\ Told \in Nat
  BY LenProperties DEF Clean, AuditTypeOK, Told
<1>2. Len(log') = Told + 1 /\ log'[Told + 1] = line /\ \A i \in 1..Told : log'[i] = log[i]
  BY <1>1, AppendProperties
<1>3. ASSUME NEW i \in 1..Told PROVE VerifyLine(i)' /\ log'[i].record = acked[i]
  <2>1. VerifyLine(i) /\ log[i].record = acked[i]
    BY DEF Clean, Linked
  <2>2. log'[i] = log[i] /\ (i # 1 => log'[i - 1] = log[i - 1])
    BY <1>1, <1>2
  <2> QED
    BY <2>1, <2>2 DEF VerifyLine, AuditChainDigest
<1> QED
  BY <1>1, <1>2, <1>3

LEMMA WritesKeepsChain ==
  ASSUME AuditTypeOK, OpenInv, ChainInv, NEW r \in Writers, Writes(r)
  PROVE  ChainInv'
<1>1. Wrote(Line(r), "all") /\ "all" \in Partly /\ spoiled' = spoiled
  BY DEF Writes, Partly
<1>2. CASE spoiled
  BY <1>1, <1>2, BrokenStays, TrailingBreaks DEF ChainInv
<1>3. CASE ~spoiled
  <2>1. Clean
    BY <1>3 DEF ChainInv
  <2>2. log' = Append(log, Line(r)) /\ open' = FALSE
    BY <1>1, <2>1 DEF Wrote, Clean
  <2>3. /\ Line(r) \in Envelopes /\ Line(r) # Unreadable
        /\ Line(r).sequence = Told + 1 /\ Line(r).previous = previous /\ Line(r).record = r
        /\ Line(r).hash = AuditChainDigest(previous, Told + 1, r)
    BY <2>1, LineType DEF Clean, Linked
  <2>4. /\ Len(log') = Told + 1 /\ Told \in Nat /\ log'[Told + 1] = Line(r)
        /\ \A i \in 1..Told : log'[i] = log[i]
        /\ \A i \in 1..Told : VerifyLine(i)' /\ log'[i].record = acked[i]
    BY <2>1, <2>2, <2>3, LinkedGrows
  <2>5. Told' = Told + 1 /\ acked'[Told + 1] = r /\ \A i \in 1..Told : acked'[i] = acked[i]
    BY AppendProperties DEF Writes, AuditTypeOK, Told
  <2>6. sequence' = Told' /\ previous' = log'[Told'].hash
    BY <2>1, <2>4, <2>5 DEF Writes, Clean, Linked
  <2> PICK n \in Nat : n = Told + 1
    BY <2>4
  <2>7. VerifyLine(n)'
    <3>1. previous = IF n = 1 THEN <<>> ELSE log'[n - 1].hash
      BY <2>1, <2>4 DEF Clean, Linked
    <3>2. r \notin Invalid
      BY DEF Writes
    <3>3. /\ log'[n] = Line(r) /\ Line(r) # Unreadable /\ Line(r).record = r /\ Line(r).sequence = n
          /\ Line(r).previous = IF n = 1 THEN <<>> ELSE log'[n - 1].hash
          /\ Line(r).hash = AuditChainDigest(Line(r).previous, Line(r).sequence, Line(r).record)
      BY <2>3, <2>4, <3>1
    <3> QED
      BY <3>2, <3>3 DEF VerifyLine, AuditChainDigest
  <2>8. \A i \in 1..Told' : VerifyLine(i)' /\ log'[i].record = acked'[i]
    <3> SUFFICES ASSUME NEW i \in 1..n PROVE VerifyLine(i)' /\ log'[i].record = acked'[i]
      BY <2>5
    <3>1. CASE i = n
      BY <2>3, <2>4, <2>5, <2>7, <3>1
    <3>2. CASE i # n
      <4>1. i \in 1..Told
        BY <2>4, <3>2
      <4> QED
        BY <2>4, <2>5, <4>1
    <3> QED
      BY <3>1, <3>2
  <2> QED
    BY <1>1, <1>3, <2>2, <2>4, <2>5, <2>6, <2>8 DEF ChainInv, Clean, Linked
<1> QED
  BY <1>2, <1>3

LEMMA FailureKeepsChain ==
  ASSUME AuditTypeOK, OpenInv, ChainInv, NEW r \in Writers, WriteFails(r)
  PROVE  ChainInv'
<1>1. PICK bytes \in Partly : Wrote(Line(r), bytes) /\ spoiled' = (spoiled \/ bytes # "none")
  BY DEF WriteFails
<1>2. UNCHANGED <<sequence, previous, acked>>
  BY DEF WriteFails
<1>3. CASE bytes = "none"
  <2>1. log' = log /\ open' = open
    BY <1>1, <1>3 DEF Wrote
  <2>2. spoiled' = spoiled
    BY <1>1, <1>3 DEF AuditTypeOK
  <2> QED
    BY <1>2, <2>1, <2>2 DEF ChainInv, Clean, Trailing, Broken, Linked, Told, VerifyLine
<1>4. CASE bytes # "none" /\ spoiled
  BY <1>1, <1>4, BrokenStays, TrailingBreaks DEF ChainInv
<1>5. CASE bytes # "none" /\ ~spoiled
  <2>1. Clean
    BY <1>5 DEF ChainInv
  <2>2. PICK line \in {Unreadable, Line(r)} : log' = Append(log, line)
    BY <1>1, <1>5, <2>1 DEF Wrote, Clean
  <2>3. line \in Envelopes \cup {Unreadable}
    BY LineType
  <2>4. /\ Len(log') = Told + 1 /\ Told \in Nat
        /\ \A i \in 1..Told : log'[i] = log[i]
        /\ \A i \in 1..Told : VerifyLine(i)' /\ log'[i].record = acked[i]
    BY <2>1, <2>2, <2>3, LinkedGrows
  <2>5. Told' = Told
    BY <1>2 DEF Told
  <2>6. previous = IF Told = 0 THEN <<>> ELSE log'[Told].hash
    BY <2>1, <2>4 DEF Clean, Linked
  <2>7. Linked'
    BY <1>2, <2>1, <2>4, <2>5, <2>6 DEF Linked, Clean
  <2> QED
    BY <1>1, <1>5, <2>4, <2>5, <2>7 DEF ChainInv, Trailing
<1> QED
  BY <1>3, <1>4, <1>5

LEMMA ChainStep == AuditTypeOK /\ OpenInv /\ ChainInv /\ [AuditNext]_auditVars => ChainInv'
<1> SUFFICES ASSUME AuditTypeOK, OpenInv, ChainInv, [AuditNext]_auditVars PROVE ChainInv'
  OBVIOUS
<1>1. CASE UNCHANGED <<sequence, previous, log, open, acked, spoiled>>
  BY <1>1 DEF ChainInv, Clean, Trailing, Broken, Linked, Told, VerifyLine
<1>2. ASSUME NEW r \in Writers,
             WriteSecurityAudit(r) \/ AuditExpires(r) \/ TakesGate(r) \/ Refuses(r)
      PROVE  ChainInv'
  BY <1>1, <1>2 DEF WriteSecurityAudit, AuditExpires, TakesGate, Refuses
<1>3. ASSUME NEW k \in Keys, RotateKey(k) PROVE ChainInv'
  BY <1>1, <1>3 DEF RotateKey
<1>4. CASE UNCHANGED auditVars
  BY <1>1, <1>4 DEF auditVars
<1> QED
  BY <1>2, <1>3, <1>4, WritesKeepsChain, FailureKeepsChain DEF AuditNext

LEMMA ChainHolds == AuditSpec => [](AuditTypeOK /\ ChainInv)
<1>1. AuditInit => ChainInv
  <2> SUFFICES ASSUME AuditInit PROVE ChainInv
    OBVIOUS
  <2>1. Told = 0 /\ Len(log) = 0
    BY DEF AuditInit, Told
  <2> QED
    BY <2>1 DEF AuditInit, ChainInv, Clean, Linked
<1> QED
  BY <1>1, ChainStep, AuditTypeCorrect, PTL DEF AuditSpec

\* Whatever failed writes leave in the log, the verifier accepts it only if it
\* holds the acknowledged records and at most the line of one failed write
\* (security_audit_chain.go:336).
THEOREM ChainTheorem == AuditSpec => []LogTellsAcknowledged
<1>1. AuditTypeOK /\ ChainInv => LogTellsAcknowledged
  <2> SUFFICES ASSUME AuditTypeOK, ChainInv PROVE LogTellsAcknowledged
    OBVIOUS
  <2>1. /\ log \in Seq(Envelopes \cup {Unreadable}) /\ acked \in Seq(Writers)
        /\ Len(log) \in Nat /\ Told \in Nat
    BY LenProperties DEF AuditTypeOK, Told
  <2>2. acked = [i \in 1..Told |-> acked[i]]
    BY <2>1, LenProperties DEF Told
  <2>3. CASE Clean
    <3>1. Records = acked
      BY <2>2, <2>3 DEF Clean, Linked, Records
    <3>2. ASSUME NEW i \in 1..Len(log) PROVE VerifyLine(i) /\ log[i].key \in Keys
      <4>1. VerifyLine(i)
        BY <2>3 DEF Clean, Linked
      <4>2. log[i] \in Envelopes
        BY <2>1, <4>1, ElementOfSeq DEF VerifyLine
      <4> QED
        BY <4>1, <4>2 DEF Envelopes
    <3> QED
      BY <3>1, <3>2 DEF LogTellsAcknowledged, Accepts
  <2>4. CASE Trailing /\ spoiled
    <3> SUFFICES ASSUME Accepts(Keys) PROVE \E r \in Writers : Records = Append(acked, r)
      BY <2>4 DEF LogTellsAcknowledged
    <3>1. Len(log) = Told + 1 /\ \A i \in 1..Told : log[i].record = acked[i]
      BY <2>4 DEF Trailing, Linked
    <3>2. log[Told + 1] \in Envelopes
      BY <2>1, <3>1, ElementOfSeq DEF Accepts, VerifyLine
    <3> DEFINE last == log[Told + 1].record
    <3>3. last \in Writers
      BY <3>2 DEF Envelopes
    <3>4. /\ Append(acked, last) = [i \in 1..Told + 1 |-> Append(acked, last)[i]]
          /\ \A i \in 1..Told : Append(acked, last)[i] = acked[i]
          /\ Append(acked, last)[Told + 1] = last
      BY <2>1, <3>3, AppendProperties, LenProperties DEF Told
    <3>5. \A i \in 1..Told + 1 : log[i].record = Append(acked, last)[i]
      BY <2>1, <3>1, <3>4
    <3>6. Records = Append(acked, last)
      BY <3>1, <3>4, <3>5 DEF Records
    <3> QED
      BY <3>3, <3>6
  <2>5. CASE Broken /\ spoiled
    BY <2>5 DEF Broken, Accepts, VerifyLine, LogTellsAcknowledged
  <2> QED
    BY <2>3, <2>4, <2>5 DEF ChainInv
<1> QED
  BY <1>1, ChainHolds, PTL
=============================================================================
