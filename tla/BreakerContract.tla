---------------------------- MODULE BreakerContract ----------------------------
(***************************************************************************)
(* What an outbound circuit breaker promises its dependency, independent   *)
(* of permits, generations and mutexes: the three states that              *)
(* Framework/httpclient/circuit_breaker.go reports to its observer, and    *)
(* the only ways to move between them.  After every opening the dependency *)
(* is left alone for QuietPeriod time units; then one trial at a time.     *)
(***************************************************************************)
EXTENDS Integers

CONSTANT QuietPeriod

VARIABLES
    mode,   \* "closed", "open" or "half_open"
    quiet   \* time units since the last opening, saturating at QuietPeriod

contractVars == <<mode, quiet>>

ContractInit == mode = "closed" /\ quiet = 0

\* The breaker opens, out of normal service.
Opened == mode = "closed" /\ mode' = "open" /\ quiet' = 0

\* Time passes; it is only of interest while the breaker is not closed.
Elapse == mode # "closed" /\ quiet < QuietPeriod /\ quiet' = quiet + 1 /\ mode' = mode

\* A single trial starts, never before the quiet period is over.
ProbeStarted == mode = "open" /\ quiet = QuietPeriod /\ mode' = "half_open" /\ quiet' = quiet

\* The trial was abandoned by its caller: another one may start at once.
ProbeCanceled == mode = "half_open" /\ mode' = "open" /\ quiet' = quiet

\* The trial failed: a new quiet period begins.
ProbeFailed == mode = "half_open" /\ mode' = "open" /\ quiet' = 0

\* The trial succeeded: normal service resumes.
ProbeSucceeded == mode = "half_open" /\ mode' = "closed" /\ quiet' = 0

ContractNext ==
    Opened \/ Elapse \/ ProbeStarted \/ ProbeCanceled \/ ProbeFailed \/ ProbeSucceeded

ContractSpec == ContractInit /\ [][ContractNext]_contractVars
================================================================================
