----------------------------- MODULE CircuitBreaker -----------------------------
(***************************************************************************)
(* The outbound HTTP circuit breaker of Framework/httpclient               *)
(* (circuit_breaker.go) with its concurrent callers.  A call is two        *)
(* critical sections of breaker.mu, allow() and record(), with the round   *)
(* trip between them: any number of other calls may open, probe, close and *)
(* reopen the breaker before the answer of a call is recorded.             *)
(***************************************************************************)
EXTENDS Integers, FiniteSets

CONSTANTS
    Requests,          \* concurrent callers of the client
    FailureThreshold,  \* CircuitBreakerConfig.FailureThreshold
    OpenTimeout,       \* CircuitBreakerConfig.OpenTimeout, in time units
    MaxGeneration      \* bound: failures are explored below this generation

ASSUME BreakerAssumption ==
    /\ FailureThreshold \in Nat \ {0}
    /\ OpenTimeout \in Nat \ {0}
    /\ MaxGeneration \in Nat

VARIABLES
    failures,       \* consecutive failures counted since the last success
    open,           \* openedAt is not the zero time
    sinceOpened,    \* now() - openedAt, saturating at OpenTimeout
    probeInFlight,
    generation,
    phase,          \* per caller: "idle" or "sent" (between allow and record)
    permit          \* per caller: the circuitPermit it holds

breaker == <<failures, open, sinceOpened, probeInFlight, generation>>
vars == <<breaker, phase, permit>>

Permits == [generation : Nat, probe : BOOLEAN]
NoPermit == [generation |-> 0, probe |-> FALSE]

Init ==
    /\ failures = 0 /\ open = FALSE /\ sinceOpened = 0
    /\ probeInFlight = FALSE /\ generation = 0
    /\ phase = [r \in Requests |-> "idle"]
    /\ permit = [r \in Requests |-> NoPermit]

--------------------------------------------------------------------------------
(* allow(): one critical section.  A rejected call returns ErrCircuitOpen   *)
(* and changes nothing.                                                     *)

Grant(r, isProbe) ==
    /\ phase' = [phase EXCEPT ![r] = "sent"]
    /\ permit' = [permit EXCEPT ![r] = [generation |-> generation, probe |-> isProbe]]

AllowClosed(r) ==
    /\ phase[r] = "idle" /\ ~open
    /\ Grant(r, FALSE)
    /\ UNCHANGED breaker

\* Fault: allow() does not look at the trial already in flight.
AllowProbeUnguarded(r) ==
    /\ phase[r] = "idle" /\ open /\ sinceOpened = OpenTimeout
    /\ probeInFlight' = TRUE
    /\ Grant(r, TRUE)
    /\ UNCHANGED <<failures, open, sinceOpened, generation>>

AllowProbe(r) ==
    /\ phase[r] = "idle" /\ open
    /\ sinceOpened = OpenTimeout /\ ~probeInFlight
    /\ probeInFlight' = TRUE
    /\ Grant(r, TRUE)
    /\ UNCHANGED <<failures, open, sinceOpened, generation>>

Reject(r) ==
    /\ phase[r] = "idle" /\ open
    /\ sinceOpened < OpenTimeout \/ probeInFlight
    /\ UNCHANGED vars

Allow(r) == AllowClosed(r) \/ AllowProbe(r) \/ Reject(r)

--------------------------------------------------------------------------------
(* record(): the answer of the round trip, classified by                    *)
(* circuitBreakerResult as a failure, a success, or irrelevant because the  *)
(* caller's own context is done.                                            *)

Outcomes == {"success", "failure", "irrelevant"}

Returned(r) ==
    /\ phase[r] = "sent"
    /\ phase' = [phase EXCEPT ![r] = "idle"]
    /\ permit' = [permit EXCEPT ![r] = NoPermit]

OpenNow ==
    /\ failures' = FailureThreshold
    /\ open' = TRUE /\ sinceOpened' = 0
    /\ generation' = generation + 1

RecordStale(r) ==
    /\ permit[r].generation # generation
    /\ UNCHANGED breaker

\* Fault: a canceled trial returns before it clears probeInFlight.
RecordProbeLeaky(r, outcome) ==
    /\ permit[r].generation = generation /\ permit[r].probe
    /\ \/ outcome = "irrelevant" /\ UNCHANGED breaker
       \/ outcome = "failure" /\ OpenNow /\ probeInFlight' = FALSE
       \/ /\ outcome = "success"
          /\ failures' = 0 /\ open' = FALSE /\ sinceOpened' = 0
          /\ generation' = generation + 1 /\ probeInFlight' = FALSE

RecordProbe(r, outcome) ==
    /\ permit[r].generation = generation /\ permit[r].probe
    /\ probeInFlight' = FALSE
    /\ \/ /\ outcome = "irrelevant"
          /\ UNCHANGED <<failures, open, sinceOpened, generation>>
       \/ outcome = "failure" /\ OpenNow
       \/ /\ outcome = "success"
          /\ failures' = 0 /\ open' = FALSE /\ sinceOpened' = 0
          /\ generation' = generation + 1

\* Fault: the generation of an ordinary permit is not compared.
RecordClosedAnyGeneration(r, outcome) ==
    /\ ~permit[r].probe /\ outcome = "failure"
    /\ UNCHANGED probeInFlight
    /\ IF failures + 1 < FailureThreshold
       THEN failures' = failures + 1 /\ UNCHANGED <<open, sinceOpened, generation>>
       ELSE OpenNow

RecordClosed(r, outcome) ==
    /\ permit[r].generation = generation /\ ~permit[r].probe
    /\ UNCHANGED probeInFlight
    /\ \/ outcome = "irrelevant" /\ UNCHANGED <<failures, open, sinceOpened, generation>>
       \/ /\ outcome = "success" /\ failures' = 0
          /\ UNCHANGED <<open, sinceOpened, generation>>
       \/ /\ outcome = "failure" /\ failures + 1 < FailureThreshold
          /\ failures' = failures + 1
          /\ UNCHANGED <<open, sinceOpened, generation>>
       \/ /\ outcome = "failure" /\ failures + 1 >= FailureThreshold
          /\ OpenNow

Record(r, outcome) ==
    /\ outcome = "failure" => generation < MaxGeneration
    /\ Returned(r)
    /\ RecordStale(r) \/ RecordProbe(r, outcome) \/ RecordClosed(r, outcome)

\* breaker.now(): only the time since the last opening is ever looked at.
Tick ==
    /\ open /\ sinceOpened < OpenTimeout
    /\ sinceOpened' = sinceOpened + 1
    /\ UNCHANGED <<failures, open, probeInFlight, generation, phase, permit>>

Next ==
    \/ \E r \in Requests : Allow(r) \/ \E outcome \in Outcomes : Record(r, outcome)
    \/ Tick

Spec == Init /\ [][Next]_vars

(***************************************************************************)
(* Time passes, a round trip returns (http.Client.Timeout bounds it), and  *)
(* callers keep calling.  Recovery of the dependency is the premise of the *)
(* liveness property: a probe that could succeed again and again is not    *)
(* unlucky forever (strong fairness on a probe's success).                 *)
(***************************************************************************)
ProbeAnswered(r) == permit[r].probe /\ Record(r, "success")

BreakerFairness ==
    /\ WF_vars(Tick)
    /\ WF_vars(\E r \in Requests : AllowProbe(r))
    /\ \A r \in Requests : WF_vars(\E outcome \in Outcomes : Record(r, outcome))
    /\ SF_vars(\E r \in Requests : ProbeAnswered(r))

--------------------------------------------------------------------------------
(* Properties. *)

TypeOK ==
    /\ failures \in 0 .. FailureThreshold
    /\ open \in BOOLEAN
    /\ sinceOpened \in 0 .. OpenTimeout
    /\ probeInFlight \in BOOLEAN
    /\ generation \in Nat
    /\ phase \in [Requests -> {"idle", "sent"}]
    /\ permit \in [Requests -> Permits]

\* The calls that are really on the wire as half-open trials.
Probing == {r \in Requests : phase[r] = "sent" /\ permit[r].probe}

\* However late the answers of earlier calls arrive, at most one trial call
\* is on the wire at a time, of any generation: two callers that meet an
\* expired open timeout never both reach the dependency (allow(), line 113).
OneProbeOnTheWire == \A r, s \in Probing : r = s

\* probeInFlight is not a leaking flag: it is set exactly while a trial call
\* is on the wire, whichever path its answer took through record().
ProbeFlagExact == probeInFlight <=> Probing # {}

\* A call admitted before the last opening or closing can no longer touch
\* the breaker: a permit of the current generation is a trial if and only if
\* the breaker is open.  Without the generation increments of record() late
\* failures of an earlier outage would reopen a breaker that just closed.
CurrentPermitsMatchMode ==
    \A r \in Requests :
        /\ phase[r] = "sent" => permit[r].generation <= generation
        /\ phase[r] = "sent" /\ permit[r].generation = generation => (permit[r].probe <=> open)

\* Refinement: permits, generations and stale answers implement the
\* three-state contract that the observer events describe.
Mode == IF ~open THEN "closed" ELSE IF Probing # {} THEN "half_open" ELSE "open"
Contract == INSTANCE BreakerContract WITH
    QuietPeriod <- OpenTimeout, mode <- Mode, quiet <- sinceOpened
ImplementsContract == Contract!ContractSpec

\* An open breaker closes again once its dependency answers: canceled trials
\* and stale answers never leave it rejecting calls forever.
EventuallyCloses == open ~> ~open

================================================================================
