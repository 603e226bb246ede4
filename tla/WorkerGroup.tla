------------------------------ MODULE WorkerGroup ------------------------------
(***************************************************************************)
(* The lifecycle of a consumer worker group                                *)
(* (Framework/queueclient/worker.go): Start, Shutdown, Wait and Err called *)
(* concurrently, the worker goroutines, fail(), and the goroutine that     *)
(* closes the group.  Steps are the atomic accesses of the code: the       *)
(* compare-and-swap of state, the critical sections of group.mu, the       *)
(* cancellation of the run context and the closing of done.  What a worker *)
(* does with a delivery is the subject of module ReliableDelivery; here a  *)
(* turn of its loop only has an outcome.                                   *)
(***************************************************************************)
EXTENDS Integers, FiniteSets

CONSTANTS
    Workers,    \* the goroutines launched by Start
    Starters,   \* goroutines that call Start
    Stoppers,   \* goroutines that call Shutdown
    Waiters,    \* goroutines that call Wait
    Failures,   \* the distinct non-cancellation errors a worker can meet
    NoError     \* Go's nil

ASSUME GroupAssumption == NoError \notin Failures /\ Workers # {}

VARIABLES
    state,      \* group.state: "new", "running" or "stopped"
    cancelSet,  \* group.cancel is not nil
    ctxDone,    \* the run context is canceled
    err,        \* group.err
    done,       \* group.done is closed
    closer,     \* the closing goroutine: "unborn", "waiting", "canceled", "stored", "ended"
    worker,     \* per worker: "unborn", "loop", "busy", "failing", "canceling", "exited"
    failure,    \* per worker: the error it is about to report
    starter,    \* per Start call: "idle", "won", "installed", "returned", "refused"
    stopper,    \* per Shutdown call: "idle", "checked", "took", "waiting", "returned", "expired", "refused"
    tookCancel, \* per Shutdown call: the cancel function it read was not nil
    waiter,     \* per Wait call: "idle", "waiting", "returned", "refused"
    result      \* per Shutdown or Wait call: the error it returned

groupVars == <<state, cancelSet, ctxDone, err, done>>
workerVars == <<closer, worker, failure>>
callVars == <<starter, stopper, tookCancel, waiter, result>>
vars == <<groupVars, workerVars, callVars>>

Errors == Failures \cup {NoError}

Init ==
    /\ state = "new" /\ cancelSet = FALSE /\ ctxDone = FALSE /\ err = NoError /\ done = FALSE
    /\ closer = "unborn"
    /\ worker = [w \in Workers |-> "unborn"]
    /\ failure = [w \in Workers |-> NoError]
    /\ starter = [c \in Starters |-> "idle"]
    /\ stopper = [c \in Stoppers |-> "idle"]
    /\ tookCancel = [c \in Stoppers |-> FALSE]
    /\ waiter = [c \in Waiters |-> "idle"]
    /\ result = [c \in Stoppers \cup Waiters |-> NoError]

--------------------------------------------------------------------------------
(* Start *)

StartClaim(c) ==
    /\ starter[c] = "idle"
    /\ \/ /\ state = "new"
          /\ state' = "running"
          /\ starter' = [starter EXCEPT ![c] = "won"]
       \/ /\ state # "new"   \* ErrWorkerStarted or ErrWorkerClosed
          /\ starter' = [starter EXCEPT ![c] = "refused"]
          /\ UNCHANGED state
    /\ UNCHANGED <<cancelSet, ctxDone, err, done, workerVars, stopper, tookCancel, waiter, result>>

StartInstall(c) ==
    /\ starter[c] = "won"
    /\ cancelSet' = TRUE
    /\ starter' = [starter EXCEPT ![c] = "installed"]
    /\ UNCHANGED <<state, ctxDone, err, done, workerVars, stopper, tookCancel, waiter, result>>

StartLaunch(c) ==
    /\ starter[c] = "installed"
    /\ worker' = [w \in Workers |-> "loop"]
    /\ closer' = "waiting"
    /\ starter' = [starter EXCEPT ![c] = "returned"]
    /\ UNCHANGED <<groupVars, failure, stopper, tookCancel, waiter, result>>

--------------------------------------------------------------------------------
(* runWorker and fail *)

\* The loop looks at the run context, then receives.
WorkerTurn(w) ==
    /\ worker[w] = "loop"
    /\ worker' = [worker EXCEPT ![w] = IF ctxDone THEN "exited" ELSE "busy"]
    /\ UNCHANGED <<groupVars, closer, failure, callVars>>

\* Receive and processing ended well.
WorkerContinues(w) ==
    /\ worker[w] = "busy"
    /\ worker' = [worker EXCEPT ![w] = "loop"]
    /\ UNCHANGED <<groupVars, closer, failure, callVars>>

\* A context error while the run context is done is a normal stop.
WorkerCanceled(w) ==
    /\ worker[w] = "busy" /\ ctxDone
    /\ worker' = [worker EXCEPT ![w] = "exited"]
    /\ UNCHANGED <<groupVars, closer, failure, callVars>>

\* Any other error, or a panic recovered by the deferred function.
WorkerFails(w) ==
    /\ worker[w] = "busy"
    /\ \E e \in Failures :
          /\ failure' = [failure EXCEPT ![w] = e]
          /\ worker' = [worker EXCEPT ![w] = "failing"]
    /\ UNCHANGED <<groupVars, closer, callVars>>

\* fail(): the critical section keeps the first failure and reads cancel ...
FailRecords(w) ==
    /\ worker[w] = "failing"
    /\ err' = IF err = NoError THEN failure[w] ELSE err
    /\ worker' = [worker EXCEPT ![w] = IF cancelSet THEN "canceling" ELSE "exited"]
    /\ UNCHANGED <<state, cancelSet, ctxDone, done, closer, failure, callVars>>

\* Fault: fail() returns without calling cancel.
FailForgetsCancel(w) ==
    /\ worker[w] = "canceling"
    /\ worker' = [worker EXCEPT ![w] = "exited"]
    /\ UNCHANGED <<groupVars, closer, failure, callVars>>

\* ... and cancel runs after it, outside the lock; then the worker is done.
FailCancels(w) ==
    /\ worker[w] = "canceling"
    /\ ctxDone' = TRUE
    /\ worker' = [worker EXCEPT ![w] = "exited"]
    /\ UNCHANGED <<state, cancelSet, err, done, closer, failure, callVars>>

\* The closing goroutine: wg.Wait, cancel, state.Store, close(done).
AllExited == \A w \in Workers : worker[w] = "exited"

\* Fault: the closing goroutine only waits until some worker has returned.
CloserCancelsEarly ==
    /\ closer = "waiting" /\ \E w \in Workers : worker[w] = "exited"
    /\ closer' = "canceled" /\ ctxDone' = TRUE
    /\ UNCHANGED <<state, cancelSet, err, done, worker, failure, callVars>>

CloserCancels ==
    /\ closer = "waiting" /\ AllExited
    /\ closer' = "canceled" /\ ctxDone' = TRUE
    /\ UNCHANGED <<state, cancelSet, err, done, worker, failure, callVars>>

CloserStores ==
    /\ closer = "canceled"
    /\ closer' = "stored" /\ state' = "stopped"
    /\ UNCHANGED <<cancelSet, ctxDone, err, done, worker, failure, callVars>>

CloserEnds ==
    /\ closer = "stored"
    /\ closer' = "ended" /\ done' = TRUE
    /\ UNCHANGED <<state, cancelSet, ctxDone, err, worker, failure, callVars>>

\* The caller's context given to Start is canceled.
ParentCancels ==
    /\ \E c \in Starters : starter[c] \in {"installed", "returned"}
    /\ ~ctxDone /\ ctxDone' = TRUE
    /\ UNCHANGED <<state, cancelSet, err, done, workerVars, callVars>>

--------------------------------------------------------------------------------
(* Shutdown and Wait *)

ShutdownChecks(c) ==
    /\ stopper[c] = "idle"
    /\ stopper' = [stopper EXCEPT ![c] = IF state = "new" THEN "refused" ELSE "checked"]
    /\ UNCHANGED <<groupVars, workerVars, starter, tookCancel, waiter, result>>

ShutdownTakes(c) ==
    /\ stopper[c] = "checked"
    /\ tookCancel' = [tookCancel EXCEPT ![c] = cancelSet]
    /\ stopper' = [stopper EXCEPT ![c] = "took"]
    /\ UNCHANGED <<groupVars, workerVars, starter, waiter, result>>

ShutdownCancels(c) ==
    /\ stopper[c] = "took"
    /\ ctxDone' = (ctxDone \/ tookCancel[c])
    /\ stopper' = [stopper EXCEPT ![c] = "waiting"]
    /\ UNCHANGED <<state, cancelSet, err, done, workerVars, starter, tookCancel, waiter, result>>

ShutdownReturns(c) ==
    /\ stopper[c] = "waiting" /\ done
    /\ result' = [result EXCEPT ![c] = err]
    /\ stopper' = [stopper EXCEPT ![c] = "returned"]
    /\ UNCHANGED <<groupVars, workerVars, starter, tookCancel, waiter>>

\* The caller's deadline only bounds its wait.
ShutdownExpires(c) ==
    /\ stopper[c] = "waiting"
    /\ stopper' = [stopper EXCEPT ![c] = "expired"]
    /\ UNCHANGED <<groupVars, workerVars, starter, tookCancel, waiter, result>>

WaitChecks(c) ==
    /\ waiter[c] = "idle"
    /\ waiter' = [waiter EXCEPT ![c] = IF state = "new" THEN "refused" ELSE "waiting"]
    /\ UNCHANGED <<groupVars, workerVars, starter, stopper, tookCancel, result>>

WaitReturns(c) ==
    /\ waiter[c] = "waiting" /\ done
    /\ result' = [result EXCEPT ![c] = err]
    /\ waiter' = [waiter EXCEPT ![c] = "returned"]
    /\ UNCHANGED <<groupVars, workerVars, starter, stopper, tookCancel>>

StarterStep(c) == StartClaim(c) \/ StartInstall(c) \/ StartLaunch(c)

WorkerEnds(w) == WorkerContinues(w) \/ WorkerCanceled(w) \/ WorkerFails(w)

FailStep(w) == FailRecords(w) \/ FailCancels(w)

CloserStep == CloserCancels \/ CloserStores \/ CloserEnds

StopperStep(c) == ShutdownChecks(c) \/ ShutdownTakes(c) \/ ShutdownCancels(c) \/ ShutdownReturns(c)

WaiterStep(c) == WaitChecks(c) \/ WaitReturns(c)

Next ==
    \/ \E c \in Starters : StarterStep(c)
    \/ \E w \in Workers : WorkerTurn(w) \/ WorkerEnds(w) \/ FailStep(w)
    \/ CloserStep
    \/ ParentCancels
    \/ \E c \in Stoppers : StopperStep(c) \/ ShutdownExpires(c)
    \/ \E c \in Waiters : WaiterStep(c)

Spec == Init /\ [][Next]_vars

(***************************************************************************)
(* Scheduled goroutines make progress.  A receive or handler call ends,    *)
(* and once the run context is done it ends by honouring it: the code asks *)
(* this of its callbacks.  Nothing is assumed about whether a call that is *)
(* not canceled ends well or fails.                                        *)
(***************************************************************************)
GroupFairness ==
    /\ \A c \in Starters : WF_vars(StartInstall(c) \/ StartLaunch(c))
    /\ \A w \in Workers :
          /\ WF_vars(WorkerTurn(w)) /\ WF_vars(WorkerEnds(w)) /\ WF_vars(FailStep(w))
    /\ WF_vars(CloserStep)
    /\ \A c \in Stoppers : WF_vars(ShutdownTakes(c) \/ ShutdownCancels(c) \/ ShutdownReturns(c))
    /\ \A c \in Waiters : WF_vars(WaitReturns(c))

FairSpec == Spec /\ GroupFairness

--------------------------------------------------------------------------------
(* Properties *)

TypeOK ==
    /\ state \in {"new", "running", "stopped"}
    /\ cancelSet \in BOOLEAN /\ ctxDone \in BOOLEAN /\ done \in BOOLEAN
    /\ err \in Errors
    /\ closer \in {"unborn", "waiting", "canceled", "stored", "ended"}
    /\ worker \in [Workers -> {"unborn", "loop", "busy", "failing", "canceling", "exited"}]
    /\ failure \in [Workers -> Errors]
    /\ starter \in [Starters -> {"idle", "won", "installed", "returned", "refused"}]
    /\ stopper \in [Stoppers -> {"idle", "checked", "took", "waiting", "returned", "expired", "refused"}]
    /\ tookCancel \in [Stoppers -> BOOLEAN]
    /\ waiter \in [Waiters -> {"idle", "waiting", "returned", "refused"}]
    /\ result \in [Stoppers \cup Waiters -> Errors]

Returned == {c \in Stoppers : stopper[c] = "returned"} \cup {c \in Waiters : waiter[c] = "returned"}

\* Whoever returns from Wait or Shutdown holds the group's final verdict: it
\* is never changed afterwards, although workers record failures on their
\* own and Err reads the field without looking at the state (lines 305, 322).
VerdictIsFinal == \A c \in Returned : result[c] = err

\* When Wait or Shutdown has returned, no worker goroutine is running a
\* callback any more and the group can not be started again.
ReturnMeansQuiet == Returned # {} => AllExited /\ state = "stopped"

\* The verdict of a group is the failure of the worker that reported first;
\* later failures never replace it (fail, line 672).
FirstFailureKept == [][err # NoError => err' = err]_vars

\* The group is claimed once: workers are launched by at most one Start.
LaunchedOnce == \A c, d \in Starters :
    starter[c] \in {"won", "installed", "returned"} /\ starter[d] \in {"won", "installed", "returned"} => c = d

\* A recorded failure, and a Shutdown call that found the group's cancel
\* function, even when its own deadline expires first, take the whole group
\* down: every worker stops and everyone waiting is released.
GroupStops == (err # NoError \/ \E c \in Stoppers : tookCancel[c]) ~> done

\* Documented (Shutdown): it "requests cancellation and waits for all
\* workers": so a Shutdown call that was not refused leads to a stopped group.
EveryShutdownStopsGroup == \A c \in Stoppers : stopper[c] = "checked" ~> done
================================================================================
