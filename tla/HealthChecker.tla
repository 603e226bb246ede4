---------------------------- MODULE HealthChecker ----------------------------
(***************************************************************************)
(* The readiness checker: a cached report with a time to live, refreshed   *)
(* by one goroutine that every Readiness call joins.  Checks are           *)
(* registered and draining is set while calls and a refresh are under way; *)
(* both count up a revision and then clear the cache, and a refresh keeps  *)
(* its report only if the revision is still the one it began with.         *)
(*                                                                         *)
(* A step is one atomic load or store, or what happens under the cache     *)
(* mutex between two of them.  draining and revision are atomics that are  *)
(* changed without the mutex.  c.refresh is set before a refresh goroutine *)
(* starts and reset in its last step, so there is at most one of them, and *)
(* a caller waits for the one that runs.                                   *)
(***************************************************************************)
EXTENDS Integers

CONSTANTS
    Callers,     \* goroutines that call Readiness
    Checks,      \* names of health checks
    Drainers,    \* goroutines that call SetDraining
    NoReport,    \* no cached report, or one whose time is up
    Free,        \* nobody holds the cache mutex
    Refresher,   \* the refresh goroutine
    MaxDrains    \* bound on the calls of SetDraining

ASSUME HealthAssumption ==
    /\ Free \notin Callers /\ Refresher \notin Callers /\ Free # Refresher
    /\ MaxDrains \in Nat
    /\ NoReport \notin [ready : BOOLEAN, seen : SUBSET Checks]

VARIABLES
    register,   \* how far Register of each check is
    drainer,    \* how far SetDraining is
    draining,
    revision,
    drains,     \* calls of SetDraining so far
    settled,    \* history: a SetDraining has returned with draining on, and
                \* it has not been turned off since
    cache,      \* the report that is served from the cache
    mutex,      \* who holds cacheMu
    at,         \* where each Readiness call is
    answer,     \* the last report that was returned, and what was due then
    refresh     \* the refresh goroutine

editVars == <<register, drainer, draining, revision, drains, settled>>
healthVars == <<editVars, cache, mutex, at, answer, refresh>>

Reports == [ready : BOOLEAN, seen : SUBSET Checks]
Answers == [ready : BOOLEAN, seen : SUBSET Checks, due : SUBSET Checks, drained : BOOLEAN]
Refreshes == [pc : {"idle", "started", "checking", "holding"}, revision : Nat, seen : SUBSET Checks,
              pending : SUBSET Checks, failed : BOOLEAN, keep : BOOLEAN]
Idle == [pc |-> "idle", revision |-> 0, seen |-> {}, pending |-> {}, failed |-> FALSE, keep |-> FALSE]

HealthTypeOK ==
    /\ register \in [Checks -> {"absent", "added", "counted", "returned"}]
    /\ drainer \in [Drainers -> {"idle", "stored", "counted"}]
    /\ draining \in BOOLEAN /\ settled \in BOOLEAN
    /\ revision \in Nat /\ drains \in Nat
    /\ cache \in Reports \cup {NoReport}
    /\ mutex \in Callers \cup {Free, Refresher}
    /\ at \in [Callers -> {"idle", "loop", "locking", "holding", "waiting", "woken"}]
    /\ answer \in Answers
    /\ refresh \in Refreshes

Registered == {n \in Checks : register[n] # "absent"}
Enrolled == {n \in Checks : register[n] = "returned"}

\* draining, canceled: reports that are not ready and of no check.
Unready == [ready |-> FALSE, seen |-> {}, due |-> {}, drained |-> FALSE]

HealthInit ==
    /\ register = [n \in Checks |-> "absent"]
    /\ drainer = [d \in Drainers |-> "idle"]
    /\ draining = FALSE /\ settled = FALSE /\ revision = 0 /\ drains = 0
    /\ cache = NoReport /\ mutex = Free
    /\ at = [c \in Callers |-> "idle"]
    /\ answer = Unready
    /\ refresh = Idle

(***************************************************************************)
(* Register and SetDraining                                                *)
(***************************************************************************)

\* A name that is registered already is refused and nothing changes.
RegisterAdds(n) ==
    /\ register[n] = "absent"
    /\ register' = [register EXCEPT ![n] = "added"]
    /\ UNCHANGED <<drainer, draining, revision, drains, settled, cache, mutex, at, answer, refresh>>

RegisterCounts(n) ==
    /\ register[n] = "added"
    /\ register' = [register EXCEPT ![n] = "counted"]
    /\ revision' = revision + 1
    /\ UNCHANGED <<drainer, draining, drains, settled, cache, mutex, at, answer, refresh>>

InvalidateCache == mutex = Free /\ cache' = NoReport

RegisterClears(n) ==
    /\ register[n] = "counted"
    /\ InvalidateCache
    /\ register' = [register EXCEPT ![n] = "returned"]
    /\ UNCHANGED <<drainer, draining, revision, drains, settled, mutex, at, answer, refresh>>

SetDraining(d, on) ==
    /\ drainer[d] = "idle" /\ drains < MaxDrains
    /\ drainer' = [drainer EXCEPT ![d] = "stored"]
    /\ draining' = on /\ settled' = (settled /\ on)
    /\ drains' = drains + 1
    /\ UNCHANGED <<register, revision, cache, mutex, at, answer, refresh>>

DrainCounts(d) ==
    /\ drainer[d] = "stored"
    /\ drainer' = [drainer EXCEPT ![d] = "counted"]
    /\ revision' = revision + 1
    /\ UNCHANGED <<register, draining, drains, settled, cache, mutex, at, answer, refresh>>

DrainClears(d) ==
    /\ drainer[d] = "counted"
    /\ InvalidateCache
    /\ drainer' = [drainer EXCEPT ![d] = "idle"]
    /\ settled' = draining
    /\ UNCHANGED <<register, draining, revision, drains, mutex, at, answer, refresh>>

(***************************************************************************)
(* Readiness                                                               *)
(***************************************************************************)
Calls(c) ==
    /\ at[c] = "idle"
    /\ at' = [at EXCEPT ![c] = "loop"]
    /\ UNCHANGED <<editVars, cache, mutex, answer, refresh>>

Answer(c, report) ==
    /\ at' = [at EXCEPT ![c] = "idle"]
    /\ answer' = report

\* The first look at draining, without the mutex.
Looks(c) ==
    /\ at[c] = "loop"
    /\ IF draining THEN Answer(c, Unready)
       ELSE at' = [at EXCEPT ![c] = "locking"] /\ UNCHANGED answer
    /\ UNCHANGED <<editVars, cache, mutex, refresh>>

\* The second, with the mutex.
LooksAgain(c) ==
    /\ at[c] = "locking" /\ mutex = Free
    /\ IF draining THEN Answer(c, Unready) /\ UNCHANGED mutex
       ELSE at' = [at EXCEPT ![c] = "holding"] /\ mutex' = c /\ UNCHANGED answer
    /\ UNCHANGED <<editVars, cache, refresh>>

Served == [ready |-> cache.ready, seen |-> cache.seen, due |-> Enrolled, drained |-> settled]

\* A report whose time is not up is the answer; else the call joins the
\* refresh, which it starts with the present revision if there is none.
Serves(c) ==
    /\ at[c] = "holding"
    /\ mutex' = Free
    /\ IF cache # NoReport THEN Answer(c, Served) /\ UNCHANGED refresh
       ELSE /\ at' = [at EXCEPT ![c] = "waiting"]
            /\ refresh' = IF refresh.pc = "idle"
                          THEN [Idle EXCEPT !.pc = "started", !.revision = revision] ELSE refresh
            /\ UNCHANGED answer
    /\ UNCHANGED <<editVars, cache>>

Wakes(c) ==
    /\ at[c] = "woken"
    /\ at' = [at EXCEPT ![c] = "loop"]
    /\ UNCHANGED <<editVars, cache, mutex, answer, refresh>>

\* The caller's context ends while it waits; the refresh goes on.
Cancels(c) ==
    /\ at[c] \in {"waiting", "woken"}
    /\ Answer(c, Unready)
    /\ UNCHANGED <<editVars, cache, mutex, refresh>>

(***************************************************************************)
(* The refresh                                                             *)
(***************************************************************************)

\* runChecks copies the registered checks and runs each in a goroutine.
RunsChecks ==
    /\ refresh.pc = "started"
    /\ refresh' = [refresh EXCEPT !.pc = "checking", !.seen = Registered, !.pending = Registered]
    /\ UNCHANGED <<editVars, cache, mutex, at, answer>>

\* A check returns nil, or it returns an error or panics.
CheckEnds(n) ==
    /\ refresh.pc = "checking" /\ n \in refresh.pending
    /\ \E failed \in BOOLEAN :
           refresh' = [refresh EXCEPT !.pending = @ \ {n}, !.failed = @ \/ failed]
    /\ UNCHANGED <<editVars, cache, mutex, at, answer>>

\* The time of the checks is up: those that have not returned have failed.
ChecksTimeOut ==
    /\ refresh.pc = "checking" /\ refresh.pending # {}
    /\ refresh' = [refresh EXCEPT !.pending = {}, !.failed = TRUE]
    /\ UNCHANGED <<editVars, cache, mutex, at, answer>>

\* refreshCache takes the mutex and looks at draining ...
RefreshLocks ==
    /\ refresh.pc = "checking" /\ refresh.pending = {} /\ mutex = Free
    /\ mutex' = Refresher
    /\ refresh' = [refresh EXCEPT !.pc = "holding", !.keep = ~draining]
    /\ UNCHANGED <<editVars, cache, at, answer>>

Report == [ready |-> ~refresh.failed, seen |-> refresh.seen]

\* ... then at the revision, and lets everyone go who waits for it.
Finish ==
    /\ refresh' = Idle /\ mutex' = Free
    /\ at' = [c \in Callers |-> IF at[c] = "waiting" THEN "woken" ELSE at[c]]
    /\ UNCHANGED <<editVars, answer>>

\* Fault: the report is kept whatever the revision is.
RefreshKeepsAny ==
    /\ refresh.pc = "holding" /\ Finish
    /\ cache' = IF refresh.keep THEN Report ELSE cache

\* Fault: a refresh whose report is dropped does not close its channel.
RefreshEndsIfKept ==
    /\ refresh.pc = "holding" /\ UNCHANGED <<editVars, answer>>
    /\ mutex' = Free
    /\ IF refresh.keep /\ revision = refresh.revision
       THEN /\ cache' = Report /\ refresh' = Idle
            /\ at' = [c \in Callers |-> IF at[c] = "waiting" THEN "woken" ELSE at[c]]
       ELSE cache' = cache /\ at' = at /\ refresh' = [refresh EXCEPT !.pc = "dropped"]

RefreshEnds ==
    /\ refresh.pc = "holding" /\ Finish
    /\ cache' = IF refresh.keep /\ revision = refresh.revision THEN Report ELSE cache

\* The time to live of the cached report is up.
Expires ==
    /\ cache # NoReport
    /\ cache' = NoReport
    /\ UNCHANGED <<editVars, mutex, at, answer, refresh>>

(***************************************************************************)
(* Specification                                                           *)
(***************************************************************************)
EditStep ==
    \/ \E n \in Checks : RegisterAdds(n) \/ RegisterCounts(n) \/ RegisterClears(n)
    \/ \E d \in Drainers : (\E on \in BOOLEAN : SetDraining(d, on)) \/ DrainCounts(d) \/ DrainClears(d)

CallerStep(c) == Looks(c) \/ LooksAgain(c) \/ Serves(c) \/ Wakes(c)

RefreshStep == RunsChecks \/ ChecksTimeOut \/ RefreshLocks \/ RefreshEnds

HealthNext ==
    \/ EditStep
    \/ \E c \in Callers : Calls(c) \/ CallerStep(c) \/ Cancels(c)
    \/ RefreshStep \/ (\E n \in Checks : CheckEnds(n))
    \/ Expires

HealthSpec == HealthInit /\ [][HealthNext]_healthVars

(***************************************************************************)
(* Goroutines are scheduled, and whoever waits for a mutex gets it in the  *)
(* end: a Go mutex hands itself to a waiter that was starved.  The checks  *)
(* may hang; the context that runChecks gives them ends on its own.        *)
(***************************************************************************)
HealthFairness ==
    /\ \A c \in Callers :
          /\ WF_healthVars(Looks(c) \/ Serves(c) \/ Wakes(c)) /\ SF_healthVars(LooksAgain(c))
    /\ WF_healthVars(RunsChecks \/ ChecksTimeOut \/ RefreshEnds) /\ SF_healthVars(RefreshLocks)

(***************************************************************************)
(* Properties                                                              *)
(***************************************************************************)

\* Whoever is told that the process is ready is told so by every check whose
\* Register had returned by then, and not once SetDraining(true) had returned,
\* however a refresh that began earlier, a second SetDraining and other
\* Registers run past each other (checker.go:204).
ReadyMeansCurrent ==
    answer.ready => answer.due \subseteq answer.seen /\ ~answer.drained

\* Unless reports keep expiring before anyone reads them, every Readiness call
\* is answered, although checks may hang and the refresh it joined may end with
\* a report that is dropped.
CallsAreAnswered ==
    \/ []<><<Expires>>_healthVars
    \/ \A c \in Callers : at[c] = "loop" ~> at[c] = "idle"
=============================================================================
