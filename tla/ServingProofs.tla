--------------------------- MODULE ServingProofs ----------------------------
(***************************************************************************)
(* Proofs about a serving process, for any number of workers, callers,     *)
(* checks and goroutines.                                                  *)
(*                                                                         *)
(* The worker group: the inductive invariant ties the closing goroutine to *)
(* everything else.  Past wg.Wait all workers are gone, so nobody is left  *)
(* to call fail() and the verdict read by Wait and Shutdown can not change *)
(* any more.  The readiness checker: what a ready report says is current.  *)
(***************************************************************************)
EXTENDS WorkerGroup, HealthChecker, TLAPS

(***************************************************************************)
(* The worker group                                                        *)
(***************************************************************************)
Claimed == {"won", "installed", "returned"}

\* How far the closing goroutine is determines state, done and the workers.
CloserInv ==
    /\ closer \in {"canceled", "stored", "ended"} => AllExited
    /\ closer = "unborn" => \A w \in Workers : worker[w] = "unborn"
    /\ state = "stopped" <=> closer \in {"stored", "ended"}
    /\ done <=> closer = "ended"

\* Who claimed the group and how far its Start call is.
StartInv ==
    /\ state = "new" => closer = "unborn"
    /\ \A c \in Starters : starter[c] \in Claimed => state # "new"
    /\ \A c \in Starters : starter[c] \in {"won", "installed"} => closer = "unborn"
    /\ \A c \in Starters : starter[c] = "returned" => closer # "unborn"

\* Wait and Shutdown return only through done.
ReturnInv == Returned # {} => done

IInv == TypeOK /\ CloserInv /\ StartInv /\ LaunchedOnce /\ ReturnInv /\ VerdictIsFinal

\* The initial state satisfies the inductive invariant.
LEMMA InitIInv == Init => IInv
<1> SUFFICES ASSUME Init PROVE IInv
    OBVIOUS
<1>1. TypeOK
    <2>1. cancelSet \in BOOLEAN /\ ctxDone \in BOOLEAN /\ done \in BOOLEAN
          /\ tookCancel \in [Stoppers -> BOOLEAN]
        BY Zenon DEF Init
    <2> QED BY <2>1 DEF Init, TypeOK, Errors
<1>2. Returned = {}
    BY DEF Init, Returned
<1>3. ReturnInv /\ VerdictIsFinal
    BY <1>2 DEF ReturnInv, VerdictIsFinal
<1>4. CloserInv /\ StartInv /\ LaunchedOnce
    BY DEF Init, CloserInv, StartInv, LaunchedOnce, Claimed
<1> QED BY <1>1, <1>3, <1>4 DEF IInv

\* The calls that returned are the same when the calls' phases are.
LEMMA ReturnedStable ==
    ASSUME UNCHANGED <<stopper, waiter>>
    PROVE  Returned' = Returned
BY DEF Returned

\* Start preserves the inductive invariant.
LEMMA StartIInv ==
    ASSUME IInv, NEW c \in Starters, StarterStep(c)
    PROVE  IInv'
<1> USE DEF IInv, Claimed
<1>1. Returned' = Returned
    BY ReturnedStable DEF StarterStep, StartClaim, StartInstall, StartLaunch
<1>2. CASE StartClaim(c)
    <2>1. TypeOK'
        BY <1>2 DEF TypeOK, StartClaim, workerVars
    <2>2. CloserInv' /\ StartInv' /\ LaunchedOnce'
        BY <1>2 DEF TypeOK, StartClaim, workerVars, CloserInv, StartInv, LaunchedOnce, AllExited
    <2>3. ReturnInv' /\ VerdictIsFinal'
        BY <1>1, <1>2 DEF StartClaim, ReturnInv, VerdictIsFinal
    <2> QED BY <2>1, <2>2, <2>3
<1>3. CASE StartInstall(c)
    <2>1. TypeOK'
        BY <1>3 DEF TypeOK, StartInstall, workerVars
    <2>2. CloserInv' /\ StartInv' /\ LaunchedOnce'
        BY <1>3 DEF TypeOK, StartInstall, workerVars, CloserInv, StartInv, LaunchedOnce, AllExited
    <2>3. ReturnInv' /\ VerdictIsFinal'
        BY <1>1, <1>3 DEF StartInstall, ReturnInv, VerdictIsFinal
    <2> QED BY <2>1, <2>2, <2>3
<1>4. CASE StartLaunch(c)
    <2>1. TypeOK'
        BY <1>4 DEF TypeOK, StartLaunch, groupVars
    <2>2. CloserInv' /\ StartInv' /\ LaunchedOnce'
        BY <1>4 DEF TypeOK, StartLaunch, groupVars, CloserInv, StartInv, LaunchedOnce, AllExited
    <2>3. ReturnInv' /\ VerdictIsFinal'
        BY <1>1, <1>4 DEF StartLaunch, groupVars, ReturnInv, VerdictIsFinal
    <2> QED BY <2>1, <2>2, <2>3
<1> QED BY <1>2, <1>3, <1>4 DEF StarterStep

\* A worker that still acts proves that the closing goroutine is waiting.
LEMMA ActiveWorker ==
    ASSUME IInv, NEW w \in Workers, worker[w] \notin {"unborn", "exited"}
    PROVE  closer = "waiting" /\ ~done /\ Returned = {}
BY DEF IInv, TypeOK, CloserInv, AllExited, ReturnInv

\* The steps of a worker preserve the inductive invariant.
LEMMA WorkerIInv ==
    ASSUME IInv, NEW w \in Workers, WorkerTurn(w) \/ WorkerEnds(w) \/ FailStep(w)
    PROVE  IInv'
<1> USE DEF WorkerEnds, FailStep, WorkerTurn, WorkerContinues, WorkerCanceled, WorkerFails,
        FailRecords, FailCancels
<1>1. closer = "waiting" /\ ~done /\ Returned = {} /\ closer' = closer /\ done' = done
    BY ActiveWorker DEF groupVars
<1>2. Returned' = {}
    BY <1>1, ReturnedStable DEF callVars
<1>3. TypeOK'
    <2>1. worker' \in [Workers -> {"unborn", "loop", "busy", "failing", "canceling", "exited"}]
        BY DEF IInv, TypeOK
    <2>2. failure' \in [Workers -> Errors] /\ err' \in Errors
        BY DEF IInv, TypeOK, Errors, groupVars
    <2>3. ctxDone' \in BOOLEAN
        BY Zenon DEF IInv, TypeOK, groupVars
    <2>4. UNCHANGED <<state, cancelSet, done, closer, callVars>>
        BY DEF groupVars
    <2> QED BY <2>1, <2>2, <2>3, <2>4 DEF IInv, TypeOK, callVars
<1>4. CloserInv' /\ StartInv' /\ LaunchedOnce'
    <2>1. UNCHANGED <<state, done, closer, starter>>
        BY DEF groupVars, callVars
    <2> QED BY <1>1, <2>1 DEF IInv, CloserInv, StartInv, LaunchedOnce
<1>5. ReturnInv' /\ VerdictIsFinal'
    BY <1>2 DEF ReturnInv, VerdictIsFinal
<1> QED BY <1>3, <1>4, <1>5 DEF IInv

\* The closing goroutine and the parent context preserve the invariant.
LEMMA CloserIInv ==
    ASSUME IInv, CloserStep \/ ParentCancels
    PROVE  IInv'
<1> USE DEF CloserStep, CloserCancels, CloserStores, CloserEnds, ParentCancels
<1>1. UNCHANGED <<err, worker, failure, callVars, cancelSet>>
    BY DEF workerVars
<1>2. Returned' = Returned
    BY <1>1, ReturnedStable DEF callVars
<1>3. TypeOK'
    <2>1. ctxDone' \in BOOLEAN /\ done' \in BOOLEAN
        BY Zenon DEF IInv, TypeOK
    <2>2. state' \in {"new", "running", "stopped"}
          /\ closer' \in {"unborn", "waiting", "canceled", "stored", "ended"}
        BY DEF IInv, TypeOK, workerVars
    <2> QED BY <1>1, <2>1, <2>2 DEF IInv, TypeOK, callVars
<1>4. CloserInv'
    BY <1>1 DEF IInv, TypeOK, CloserInv, AllExited, workerVars
<1>5. StartInv' /\ LaunchedOnce'
    BY <1>1 DEF IInv, TypeOK, CloserInv, StartInv, LaunchedOnce, callVars, workerVars
<1>6. ReturnInv' /\ VerdictIsFinal'
    BY <1>1, <1>2 DEF IInv, ReturnInv, VerdictIsFinal, callVars
<1> QED BY <1>3, <1>4, <1>5, <1>6 DEF IInv

\* Shutdown and Wait preserve the inductive invariant.
LEMMA CallIInv ==
    ASSUME IInv,
           \/ \E c \in Stoppers : StopperStep(c) \/ ShutdownExpires(c)
           \/ \E c \in Waiters : WaiterStep(c)
    PROVE  IInv'
<1> USE DEF StopperStep, ShutdownChecks, ShutdownTakes, ShutdownCancels, ShutdownReturns,
        ShutdownExpires, WaiterStep, WaitChecks, WaitReturns
<1>1. UNCHANGED <<state, cancelSet, err, done, workerVars, starter>>
    BY DEF groupVars
<1>2. TypeOK'
    <2>1. ctxDone' \in BOOLEAN
        BY Zenon DEF IInv, TypeOK, groupVars
    <2>2. tookCancel' \in [Stoppers -> BOOLEAN]
        BY DEF IInv, TypeOK
    <2>3. stopper' \in [Stoppers -> {"idle", "checked", "took", "waiting", "returned", "expired", "refused"}]
        BY DEF IInv, TypeOK
    <2>4. waiter' \in [Waiters -> {"idle", "waiting", "returned", "refused"}]
        BY DEF IInv, TypeOK
    <2>5. result' \in [Stoppers \cup Waiters -> Errors]
        BY DEF IInv, TypeOK
    <2> QED BY <1>1, <2>1, <2>2, <2>3, <2>4, <2>5 DEF IInv, TypeOK, workerVars
<1>3. CloserInv' /\ StartInv' /\ LaunchedOnce'
    BY <1>1 DEF IInv, CloserInv, StartInv, LaunchedOnce, AllExited, workerVars
<1>4. ReturnInv' /\ VerdictIsFinal'
    <2> SUFFICES ASSUME NEW d \in Returned' PROVE done' /\ result'[d] = err'
        BY DEF ReturnInv, VerdictIsFinal
    <2>1. d \in Returned => done /\ result[d] = err
        BY DEF IInv, ReturnInv, VerdictIsFinal
    <2>2. done
        BY <2>1 DEF Returned, IInv, TypeOK
    <2>3. d \in Stoppers \cup Waiters
        BY DEF Returned
    <2>4. result'[d] = result[d] \/ result'[d] = err
        BY <2>3 DEF IInv, TypeOK
    <2>5. d \notin Returned => result'[d] = err
        BY <2>3 DEF Returned, IInv, TypeOK
    <2> QED BY <1>1, <2>1, <2>2, <2>4, <2>5
<1> QED BY <1>2, <1>3, <1>4 DEF IInv

\* Every step preserves the inductive invariant.
LEMMA NextIInv == IInv /\ [Next]_vars => IInv'
<1> SUFFICES ASSUME IInv, [Next]_vars PROVE IInv'
    OBVIOUS
<1>1. CASE UNCHANGED vars
    <2>1. Returned' = Returned
        BY <1>1, ReturnedStable DEF vars, callVars
    <2> QED BY <1>1, <2>1 DEF vars, groupVars, workerVars, callVars, IInv, TypeOK, CloserInv, StartInv,
            LaunchedOnce, ReturnInv, VerdictIsFinal, AllExited
<1> QED BY <1>1, StartIInv, WorkerIInv, CloserIInv, CallIInv DEF Next

THEOREM AlwaysIInv == Spec => []IInv
BY InitIInv, NextIInv, PTL DEF Spec

\* Type correctness of the worker group.
THEOREM TypeCorrect == Spec => []TypeOK
<1>1. IInv => TypeOK
    BY DEF IInv
<1> QED BY <1>1, AlwaysIInv, PTL

\* What Wait or Shutdown returned stays the verdict of the group.
THEOREM VerdictTheorem == Spec => []VerdictIsFinal
<1>1. IInv => VerdictIsFinal
    BY DEF IInv
<1> QED BY <1>1, AlwaysIInv, PTL

\* After Wait or Shutdown returned no worker runs and state is stopped.
THEOREM QuietTheorem == Spec => []ReturnMeansQuiet
<1>1. IInv => ReturnMeansQuiet
    BY DEF IInv, ReturnInv, CloserInv, ReturnMeansQuiet
<1> QED BY <1>1, AlwaysIInv, PTL

\* At most one Start call ever launches workers.
THEOREM LaunchTheorem == Spec => []LaunchedOnce
<1>1. IInv => LaunchedOnce
    BY DEF IInv
<1> QED BY <1>1, AlwaysIInv, PTL

\* The first recorded failure is never replaced.
THEOREM FirstFailureTheorem == Spec => FirstFailureKept
<1>1. [Next]_vars => [err # NoError => err' = err]_vars
    BY DEF Next, vars, groupVars, workerVars, callVars, StarterStep, StartClaim, StartInstall,
        StartLaunch, WorkerTurn, WorkerEnds, WorkerContinues, WorkerCanceled, WorkerFails, FailStep,
        FailRecords, FailCancels, CloserStep, CloserCancels, CloserStores, CloserEnds,
        ParentCancels, StopperStep, ShutdownChecks, ShutdownTakes, ShutdownCancels,
        ShutdownReturns, ShutdownExpires, WaiterStep, WaitChecks, WaitReturns
<1> QED BY <1>1, PTL DEF Spec, FirstFailureKept

(***************************************************************************)
(* The readiness checker                                                   *)
(***************************************************************************)
\* The mutex is held by whoever is in a critical section, and by nobody else.
MutexInv ==
    /\ \A c \in Callers : at[c] = "holding" => mutex = c
    /\ refresh.pc = "holding" => mutex = Refresher

\* SetDraining returns after it has cleared the cache, so whoever has seen
\* draining off under the mutex knows that none has returned.
DrainInv ==
    /\ settled => draining
    /\ \A c \in Callers : at[c] = "holding" => ~settled
    /\ refresh.pc = "holding" /\ refresh.keep => ~settled

Counted == {n \in Checks : register[n] \in {"counted", "returned"}}

\* A refresh that still has the present revision copied the checks after
\* every Register that has counted up so far had added its own.
RefreshInv ==
    /\ refresh.revision <= revision
    /\ refresh.pc \in {"checking", "holding"} /\ refresh.revision = revision => Counted \subseteq refresh.seen

\* What is served from the cache is current.
CacheInv == cache # NoReport => Enrolled \subseteq cache.seen /\ ~settled

HealthInv == MutexInv /\ DrainInv /\ RefreshInv /\ CacheInv /\ ReadyMeansCurrent

-----------------------------------------------------------------------------
LEMMA InitHealthType == HealthInit => HealthTypeOK
<1>1. Idle \in Refreshes /\ Unready \in Answers
  BY DEF Idle, Refreshes, Unready, Answers
<1>2. ASSUME HealthInit PROVE HealthTypeOK
  <2>1. register \in [Checks -> {"absent", "added", "counted", "returned"}]
        /\ drainer \in [Drainers -> {"idle", "stored", "counted"}]
    BY <1>2 DEF HealthInit
  <2>2. draining \in BOOLEAN /\ settled \in BOOLEAN /\ revision \in Nat /\ drains \in Nat
    BY <1>2 DEF HealthInit
  <2>3. at \in [Callers -> {"idle", "loop", "locking", "holding", "waiting", "woken"}]
    BY <1>2 DEF HealthInit
  <2> QED
    BY <1>1, <1>2, <2>1, <2>2, <2>3 DEF HealthInit, HealthTypeOK
<1> QED
  BY <1>2

LEMMA EditType ==
  ASSUME HealthTypeOK, EditStep
  PROVE  HealthTypeOK'
<1> USE DEF HealthTypeOK
<1>1. ASSUME NEW n \in Checks, RegisterAdds(n) PROVE HealthTypeOK'
  BY <1>1 DEF RegisterAdds
<1>2. ASSUME NEW n \in Checks, RegisterCounts(n) PROVE HealthTypeOK'
  BY <1>2 DEF RegisterCounts
<1>3. ASSUME NEW n \in Checks, RegisterClears(n) PROVE HealthTypeOK'
  BY <1>3 DEF RegisterClears, InvalidateCache
<1>4. ASSUME NEW d \in Drainers, NEW on \in BOOLEAN, SetDraining(d, on) PROVE HealthTypeOK'
  BY <1>4 DEF SetDraining
<1>5. ASSUME NEW d \in Drainers, DrainCounts(d) PROVE HealthTypeOK'
  BY <1>5 DEF DrainCounts
<1>6. ASSUME NEW d \in Drainers, DrainClears(d) PROVE HealthTypeOK'
  BY <1>6 DEF DrainClears, InvalidateCache
<1> QED
  BY <1>1, <1>2, <1>3, <1>4, <1>5, <1>6 DEF EditStep

LEMMA CallerType ==
  ASSUME HealthTypeOK, NEW c \in Callers, Calls(c) \/ CallerStep(c) \/ Cancels(c)
  PROVE  HealthTypeOK'
<1> USE DEF HealthTypeOK, editVars
<1>0. Unready \in Answers
  BY DEF Unready, Answers
<1>1. CASE Calls(c)
  BY <1>1 DEF Calls
<1>2. CASE Looks(c)
  BY <1>0, <1>2 DEF Looks, Answer
<1>3. CASE LooksAgain(c)
  BY <1>0, <1>3 DEF LooksAgain, Answer
<1>4. CASE Serves(c)
  <2>1. cache # NoReport => Served \in Answers
    BY DEF Served, Answers, Reports, Enrolled
  <2>2. [Idle EXCEPT !.pc = "started", !.revision = revision] \in Refreshes
    BY DEF Idle, Refreshes
  <2> QED
    BY <1>4, <2>1, <2>2 DEF Serves, Answer
<1>5. CASE Wakes(c)
  BY <1>5 DEF Wakes
<1>6. CASE Cancels(c)
  BY <1>0, <1>6 DEF Cancels, Answer
<1> QED
  BY <1>1, <1>2, <1>3, <1>4, <1>5, <1>6 DEF CallerStep

LEMMA RefreshType ==
  ASSUME HealthTypeOK, RefreshStep \/ (\E n \in Checks : CheckEnds(n)) \/ Expires
  PROVE  HealthTypeOK'
<1> USE DEF HealthTypeOK, editVars
<1>1. CASE RunsChecks
  BY <1>1 DEF RunsChecks, Registered, Refreshes
<1>2. ASSUME NEW n \in Checks, CheckEnds(n) PROVE HealthTypeOK'
  <2>1. PICK failed \in BOOLEAN :
            refresh' = [refresh EXCEPT !.pending = @ \ {n}, !.failed = @ \/ failed]
    BY <1>2 DEF CheckEnds
  <2>2. refresh.failed \in BOOLEAN /\ (refresh.failed \/ failed) \in BOOLEAN
    BY DEF Refreshes
  <2>3. refresh' \in Refreshes
    BY <2>1, <2>2 DEF Refreshes
  <2> QED
    BY <1>2, <2>3 DEF CheckEnds
<1>3. CASE ChecksTimeOut
  BY <1>3 DEF ChecksTimeOut, Refreshes
<1>4. CASE RefreshLocks
  BY <1>4 DEF RefreshLocks, Refreshes
<1>5. CASE RefreshEnds
  <2>1. Report \in Reports
    BY DEF Report, Reports, Refreshes
  <2>2. Idle \in Refreshes
    BY DEF Idle, Refreshes
  <2> QED
    BY <1>5, <2>1, <2>2 DEF RefreshEnds, Finish
<1>6. CASE Expires
  BY <1>6 DEF Expires
<1> QED
  BY <1>1, <1>2, <1>3, <1>4, <1>5, <1>6 DEF RefreshStep

\* Every reachable state is well typed.
THEOREM HealthTypeCorrect == HealthSpec => []HealthTypeOK
<1>1. HealthTypeOK /\ [HealthNext]_healthVars => HealthTypeOK'
  <2> SUFFICES ASSUME HealthTypeOK, [HealthNext]_healthVars PROVE HealthTypeOK'
    OBVIOUS
  <2>1. CASE UNCHANGED healthVars
    BY <2>1 DEF HealthTypeOK, healthVars, editVars
  <2>2. CASE HealthNext
    BY <2>2, EditType, CallerType, RefreshType DEF HealthNext
  <2> QED
    BY <2>1, <2>2
<1> QED
  BY <1>1, InitHealthType, PTL DEF HealthSpec

-----------------------------------------------------------------------------
LEMMA InitHealthInv == HealthInit => HealthInv
<1> SUFFICES ASSUME HealthInit PROVE HealthInv
  OBVIOUS
<1>1. MutexInv /\ DrainInv
  BY DEF HealthInit, MutexInv, DrainInv, Idle
<1>2. RefreshInv /\ CacheInv /\ ReadyMeansCurrent
  BY DEF HealthInit, RefreshInv, CacheInv, ReadyMeansCurrent, Idle, Unready
<1> QED
  BY <1>1, <1>2 DEF HealthInv

LEMMA EditInv ==
  ASSUME HealthTypeOK, HealthInv, EditStep
  PROVE  HealthInv'
<1> USE DEF HealthInv
<1>1. ASSUME NEW n \in Checks, RegisterAdds(n) PROVE HealthInv'
  <2>1. Counted' = Counted /\ Enrolled' = Enrolled
    BY <1>1 DEF RegisterAdds, HealthTypeOK, Counted, Enrolled
  <2> QED
    BY <1>1, <2>1 DEF RegisterAdds, MutexInv, DrainInv, RefreshInv, CacheInv, ReadyMeansCurrent
<1>2. ASSUME NEW n \in Checks, RegisterCounts(n) PROVE HealthInv'
  <2>1. Enrolled' = Enrolled
    BY <1>2 DEF RegisterCounts, HealthTypeOK, Enrolled
  <2>2. RefreshInv'
    BY <1>2 DEF RegisterCounts, RefreshInv, HealthTypeOK, Refreshes
  <2> QED
    BY <1>2, <2>1, <2>2 DEF RegisterCounts, MutexInv, DrainInv, CacheInv, ReadyMeansCurrent
<1>3. ASSUME NEW n \in Checks, RegisterClears(n) PROVE HealthInv'
  <2>1. Counted' = Counted
    BY <1>3 DEF RegisterClears, HealthTypeOK, Counted
  <2> QED
    BY <1>3, <2>1 DEF RegisterClears, InvalidateCache, MutexInv, DrainInv, RefreshInv, CacheInv, ReadyMeansCurrent
<1>4. ASSUME NEW d \in Drainers, NEW on \in BOOLEAN, SetDraining(d, on) PROVE HealthInv'
  <2>1. settled' = (settled /\ on) /\ draining' = on
    BY <1>4 DEF SetDraining
  <2>2. DrainInv' /\ CacheInv'
    <3>1. UNCHANGED <<at, refresh, cache, register>>
      BY <1>4 DEF SetDraining
    <3> QED
      BY <2>1, <3>1 DEF DrainInv, CacheInv, Enrolled
  <2>3. Counted' = Counted
    BY <1>4 DEF SetDraining, Counted
  <2> QED
    BY <1>4, <2>2, <2>3 DEF SetDraining, MutexInv, RefreshInv, ReadyMeansCurrent
<1>5. ASSUME NEW d \in Drainers, DrainCounts(d) PROVE HealthInv'
  <2>1. RefreshInv'
    BY <1>5 DEF DrainCounts, RefreshInv, HealthTypeOK, Refreshes
  <2>2. Enrolled' = Enrolled
    BY <1>5 DEF DrainCounts, Enrolled
  <2> QED
    BY <1>5, <2>1, <2>2 DEF DrainCounts, MutexInv, DrainInv, CacheInv, ReadyMeansCurrent
<1>6. ASSUME NEW d \in Drainers, DrainClears(d) PROVE HealthInv'
  <2>1. mutex = Free /\ cache' = NoReport /\ settled' = draining
        /\ UNCHANGED <<register, draining, revision, mutex, at, answer, refresh>>
    BY <1>6 DEF DrainClears, InvalidateCache
  <2>2. (\A c \in Callers : at[c] # "holding") /\ refresh.pc # "holding"
    BY <2>1, HealthAssumption DEF MutexInv
  <2>3. DrainInv' /\ CacheInv'
    BY <2>1, <2>2 DEF DrainInv, CacheInv
  <2>4. Counted' = Counted
    BY <2>1 DEF Counted
  <2> QED
    BY <2>1, <2>3, <2>4 DEF MutexInv, RefreshInv, ReadyMeansCurrent
<1> QED
  BY <1>1, <1>2, <1>3, <1>4, <1>5, <1>6 DEF EditStep

LEMMA CallerInv ==
  ASSUME HealthTypeOK, HealthInv, NEW c \in Callers, Calls(c) \/ CallerStep(c) \/ Cancels(c)
  PROVE  HealthInv'
<1> USE DEF HealthInv, editVars
<1>0. UNCHANGED <<register, settled, draining, revision, cache>> /\ Counted' = Counted /\ Enrolled' = Enrolled
  BY DEF CallerStep, Calls, Looks, LooksAgain, Serves, Wakes, Cancels, Counted, Enrolled
<1>1. CacheInv'
  BY <1>0 DEF CacheInv
<1>2. ASSUME UNCHANGED <<mutex, refresh>>,
             \A d \in Callers : at'[d] = "holding" => at[d] = "holding",
             answer' \in {answer, Unready}
      PROVE  HealthInv'
  <2>1. MutexInv' /\ DrainInv' /\ RefreshInv'
    BY <1>0, <1>2 DEF MutexInv, DrainInv, RefreshInv
  <2>2. ReadyMeansCurrent'
    BY <1>2 DEF ReadyMeansCurrent, Unready
  <2> QED
    BY <1>1, <2>1, <2>2
<1>3. CASE Calls(c) \/ Looks(c) \/ Wakes(c) \/ Cancels(c)
  <2>1. UNCHANGED <<mutex, refresh>> /\ answer' \in {answer, Unready}
    BY <1>3 DEF Calls, Looks, Wakes, Cancels, Answer
  <2>2. \A d \in Callers : at'[d] = "holding" => at[d] = "holding"
    BY <1>3 DEF Calls, Looks, Wakes, Cancels, Answer, HealthTypeOK
  <2> QED
    BY <1>2, <2>1, <2>2
<1>4. CASE LooksAgain(c)
  <2>1. CASE draining
    <3>1. \A d \in Callers : at'[d] = "holding" => at[d] = "holding"
      BY <1>4, <2>1 DEF LooksAgain, Answer, HealthTypeOK
    <3> QED
      BY <1>2, <1>4, <2>1, <3>1 DEF LooksAgain, Answer
  <2>2. CASE ~draining
    <3>1. at' = [at EXCEPT ![c] = "holding"] /\ mutex = Free /\ mutex' = c /\ UNCHANGED <<answer, refresh>>
      BY <1>4, <2>2 DEF LooksAgain
    <3>2. (\A d \in Callers : at[d] # "holding") /\ refresh.pc # "holding" /\ ~settled
      BY <2>2, <3>1, HealthAssumption DEF MutexInv, DrainInv
    <3>3. \A d \in Callers : at'[d] = "holding" => d = c
      BY <3>1, <3>2 DEF HealthTypeOK
    <3>4. MutexInv' /\ DrainInv' /\ RefreshInv' /\ ReadyMeansCurrent'
      BY <1>0, <3>1, <3>2, <3>3 DEF MutexInv, DrainInv, RefreshInv, ReadyMeansCurrent
    <3> QED
      BY <1>1, <3>4
  <2> QED
    BY <2>1, <2>2
<1>5. CASE Serves(c)
  <2>1. at[c] = "holding" /\ mutex = c /\ ~settled /\ mutex' = Free
    BY <1>5 DEF Serves, MutexInv, DrainInv
  <2>2. refresh.pc # "holding" /\ \A d \in Callers : at[d] = "holding" => d = c
    BY <2>1, HealthAssumption DEF MutexInv
  <2>3. at'[c] # "holding" /\ \A d \in Callers : d # c => at'[d] = at[d]
    BY <1>5 DEF Serves, Answer, HealthTypeOK
  <2>4. \A d \in Callers : at'[d] # "holding"
    BY <2>2, <2>3
  <2>5. CASE cache # NoReport
    <3>1. answer' = Served /\ refresh' = refresh
      BY <1>5, <2>5 DEF Serves, Answer
    <3>2. ReadyMeansCurrent'
      BY <2>1, <2>5, <3>1 DEF ReadyMeansCurrent, Served, CacheInv
    <3>3. MutexInv' /\ DrainInv' /\ RefreshInv'
      BY <1>0, <2>2, <2>4, <3>1 DEF MutexInv, DrainInv, RefreshInv
    <3> QED
      BY <1>1, <3>2, <3>3
  <2>6. CASE cache = NoReport
    <3>1. answer' = answer
          /\ refresh' \in {refresh, [Idle EXCEPT !.pc = "started", !.revision = revision]}
      BY <1>5, <2>6 DEF Serves
    <3>2. CASE refresh' = refresh
      BY <1>0, <1>1, <2>2, <2>4, <3>1, <3>2 DEF MutexInv, DrainInv, RefreshInv, ReadyMeansCurrent
    <3>3. CASE refresh' = [Idle EXCEPT !.pc = "started", !.revision = revision]
      <4>1. refresh'.pc = "started" /\ refresh'.revision = revision
        BY <3>3 DEF Idle
      <4>2. RefreshInv'
        BY <1>0, <4>1 DEF RefreshInv, HealthTypeOK
      <4> QED
        BY <1>0, <1>1, <2>4, <3>1, <4>1, <4>2 DEF MutexInv, DrainInv, ReadyMeansCurrent
    <3> QED
      BY <3>1, <3>2, <3>3
  <2> QED
    BY <2>5, <2>6
<1> QED
  BY <1>3, <1>4, <1>5 DEF CallerStep

LEMMA RefreshesInv ==
  ASSUME HealthTypeOK, HealthInv, RefreshStep \/ (\E n \in Checks : CheckEnds(n)) \/ Expires
  PROVE  HealthInv'
<1> USE DEF HealthInv, editVars
<1>0. UNCHANGED <<register, settled, draining, revision, answer>> /\ Counted' = Counted /\ Enrolled' = Enrolled
  BY DEF RefreshStep, RunsChecks, CheckEnds, ChecksTimeOut, RefreshLocks, RefreshEnds, Finish, Expires, Counted, Enrolled
<1>1. ReadyMeansCurrent'
  BY <1>0 DEF ReadyMeansCurrent
<1>2. CASE RunsChecks
  <2>1. refresh'.pc = "checking" /\ refresh'.revision = refresh.revision /\ refresh'.seen = Registered
        /\ UNCHANGED <<cache, mutex, at>>
    BY <1>2 DEF RunsChecks, HealthTypeOK, Refreshes
  <2>2. Counted \subseteq Registered
    BY DEF Counted, Registered
  <2> QED
    BY <1>0, <1>1, <2>1, <2>2 DEF MutexInv, DrainInv, RefreshInv, CacheInv
<1>3. ASSUME (\E n \in Checks : CheckEnds(n)) \/ ChecksTimeOut PROVE HealthInv'
  <2>1. refresh'.pc = refresh.pc /\ refresh'.revision = refresh.revision /\ refresh'.seen = refresh.seen
        /\ refresh.pc = "checking" /\ UNCHANGED <<cache, mutex, at>>
    BY <1>3 DEF CheckEnds, ChecksTimeOut, HealthTypeOK, Refreshes
  <2> QED
    BY <1>0, <1>1, <2>1 DEF MutexInv, DrainInv, RefreshInv, CacheInv
<1>4. CASE RefreshLocks
  <2>1. refresh'.pc = "holding" /\ refresh'.revision = refresh.revision /\ refresh'.seen = refresh.seen
        /\ refresh.pc = "checking" /\ mutex = Free /\ mutex' = Refresher /\ UNCHANGED <<cache, at>>
    BY <1>4 DEF RefreshLocks, HealthTypeOK, Refreshes
  <2>2. refresh'.keep = ~draining
    BY <1>4 DEF RefreshLocks, HealthTypeOK, Refreshes
  <2>3. \A c \in Callers : at[c] # "holding"
    BY <2>1, HealthAssumption DEF MutexInv
  <2>4. DrainInv'
    BY <1>0, <2>1, <2>2, <2>3 DEF DrainInv
  <2> QED
    BY <1>0, <1>1, <2>1, <2>3, <2>4 DEF MutexInv, RefreshInv, CacheInv
<1>5. CASE RefreshEnds
  <2>1. refresh.pc = "holding" /\ mutex = Refresher /\ mutex' = Free /\ refresh' = Idle
        /\ at' = [c \in Callers |-> IF at[c] = "waiting" THEN "woken" ELSE at[c]]
    BY <1>5 DEF RefreshEnds, Finish, MutexInv
  <2>2. \A c \in Callers : at[c] # "holding" /\ at'[c] # "holding"
    BY <2>1, HealthAssumption DEF MutexInv
  <2>3. MutexInv' /\ DrainInv' /\ RefreshInv'
    BY <1>0, <2>1, <2>2 DEF MutexInv, DrainInv, RefreshInv, Idle, HealthTypeOK
  <2>4. CASE refresh.keep /\ revision = refresh.revision
    <3>1. cache' = Report /\ ~settled /\ Counted \subseteq refresh.seen
      BY <1>5, <2>1, <2>4 DEF RefreshEnds, DrainInv, RefreshInv
    <3>2. Enrolled \subseteq Counted
      BY DEF Enrolled, Counted
    <3> QED
      BY <1>0, <1>1, <2>3, <3>1, <3>2 DEF CacheInv, Report
  <2>5. CASE ~(refresh.keep /\ revision = refresh.revision)
    BY <1>0, <1>1, <1>5, <2>3, <2>5 DEF RefreshEnds, CacheInv
  <2> QED
    BY <2>4, <2>5
<1>6. CASE Expires
  BY <1>0, <1>1, <1>6 DEF Expires, MutexInv, DrainInv, RefreshInv, CacheInv
<1> QED
  BY <1>2, <1>3, <1>4, <1>5, <1>6 DEF RefreshStep

\* Whoever is told ready is told so by every check whose Register has returned,
\* and not once SetDraining(true) has, for any number of goroutines: a report
\* that is too old for either has another revision, or was cleared.
THEOREM ReadyTheorem == HealthSpec => []ReadyMeansCurrent
<1>1. HealthTypeOK /\ HealthInv /\ [HealthNext]_healthVars => HealthInv'
  <2> SUFFICES ASSUME HealthTypeOK, HealthInv, [HealthNext]_healthVars PROVE HealthInv'
    OBVIOUS
  <2>1. CASE UNCHANGED healthVars
    BY <2>1 DEF HealthInv, healthVars, editVars, MutexInv, DrainInv, RefreshInv, CacheInv, ReadyMeansCurrent,
                Counted, Enrolled
  <2>2. CASE HealthNext
    BY <2>2, EditInv, CallerInv, RefreshesInv DEF HealthNext
  <2> QED
    BY <2>1, <2>2
<1>2. HealthInv => ReadyMeansCurrent
  BY DEF HealthInv
<1> QED
  BY <1>1, <1>2, InitHealthInv, HealthTypeCorrect, PTL DEF HealthSpec
=============================================================================
