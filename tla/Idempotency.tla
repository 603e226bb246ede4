------------------------------ MODULE Idempotency ------------------------------
(***************************************************************************)
(* Requests that carry one X-Idempotency-Key on one route.  A request      *)
(* first binds the key to its fingerprint, then runs the idempotency       *)
(* middleware of the web framework, which replays a stored response or     *)
(* executes the handler and stores its response.  Both parts run under the *)
(* same lock of the shared state; between them the lock is free.           *)
(*                                                                         *)
(* Time is discrete.  Stored values and the lock's lease count down; a     *)
(* request has RequestTimeout ticks, after which its storage calls and its *)
(* handler, which are given the request's context, can only fail.  The     *)
(* lock is LeaseLock: one holder until it unlocks or the lease runs out.   *)
(***************************************************************************)
EXTENDS Integers

CONSTANTS
    Requests,          \* requests with the same key
    Fingerprint,       \* the digest of each request
    NoRequest,
    NoFingerprint,
    Lifetime,          \* of a stored response
    Overlap,           \* by which a binding is to outlive a response
    RequestTimeout,
    LockWaitTimeout,
    LockTTL

ASSUME ConstantsAssumption ==
    /\ NoRequest \notin Requests
    /\ \A r \in Requests : Fingerprint[r] # NoFingerprint
    /\ Lifetime \in Nat \ {0} /\ Overlap \in Nat
    /\ RequestTimeout \in Nat \ {0} /\ LockWaitTimeout \in Nat \ {0}

\* What the configuration loader enforces.
ASSUME LoadAssumption ==
    /\ LockTTL \in Nat /\ LockTTL > RequestTimeout
    /\ LockWaitTimeout < RequestTimeout

\* What it does not enforce but the overlap of one minute is meant for.
ASSUME OverlapAssumption == RequestTimeout <= Overlap

VARIABLES
    phase,     \* where each request is
    left,      \* ticks before its deadline
    waited,    \* ticks it has waited for the lock
    outcome,   \* what it is, or will be, answered with
    wrote,     \* history: it wrote the binding itself
    lock,      \* the lease: its holder and its remaining ticks
    binding,   \* the stored fingerprint and its remaining ticks
    response   \* the stored response: the digest it answers, its remaining
               \* ticks and, as history, whether its request wrote the binding

vars == <<phase, left, waited, outcome, wrote, lock, binding, response>>

Phases == {"new", "lockBinding", "readBinding", "writeBinding", "unlockBinding",
           "lookup", "lockResponse", "lookupAgain", "handler", "save", "unlockResponse",
           "answered", "crashed"}
Outcomes == {"none", "bound", "conflict", "error", "replayed", "executed"}

Waiting(r) == phase[r] \in {"lockBinding", "lockResponse"}
InFlight(r) == phase[r] \notin {"new", "answered", "crashed"}

NoLease == [holder |-> NoRequest, left |-> 0]
NoBinding == [digest |-> NoFingerprint, left |-> 0]
NoResponse == [digest |-> NoFingerprint, own |-> FALSE, left |-> 0]

Digests == {Fingerprint[r] : r \in Requests} \cup {NoFingerprint}

TypeOK ==
    /\ phase \in [Requests -> Phases]
    /\ left \in [Requests -> 0 .. RequestTimeout]
    /\ waited \in [Requests -> 0 .. LockWaitTimeout]
    /\ outcome \in [Requests -> Outcomes]
    /\ wrote \in [Requests -> BOOLEAN]
    /\ lock \in [holder : Requests \cup {NoRequest}, left : 0 .. LockTTL]
    /\ binding \in [digest : Digests, left : 0 .. Lifetime + Overlap]
    /\ response \in [digest : Digests, own : BOOLEAN, left : 0 .. Lifetime]

Init ==
    /\ phase = [r \in Requests |-> "new"]
    /\ left = [r \in Requests |-> RequestTimeout]
    /\ waited = [r \in Requests |-> 0]
    /\ outcome = [r \in Requests |-> "none"]
    /\ wrote = [r \in Requests |-> FALSE]
    /\ lock = NoLease
    /\ binding = NoBinding
    /\ response = NoResponse

-----------------------------------------------------------------------------
(* Steps of one request.                                                     *)

At(r, p) == phase[r] = p
Go(r, p) == phase' = [phase EXCEPT ![r] = p]
Answer(r, o) == Go(r, "answered") /\ outcome' = [outcome EXCEPT ![r] = o]
InTime(r) == left[r] > 0

Arrive(r) ==
    /\ At(r, "new") /\ Go(r, "lockBinding")
    /\ UNCHANGED <<left, waited, outcome, wrote, lock, binding, response>>

\* Locker.Lock: granted when no lease is live, or given up after its own
\* wait budget, or failed by the store at any time.
Locked(r) ==
    /\ Waiting(r) /\ lock = NoLease
    /\ lock' = [holder |-> r, left |-> LockTTL]
    /\ Go(r, IF At(r, "lockBinding") THEN "readBinding" ELSE "lookupAgain")
    /\ waited' = [waited EXCEPT ![r] = 0]
    /\ UNCHANGED <<left, outcome, wrote, binding, response>>

LockFails(r) ==
    /\ Waiting(r) /\ Answer(r, "error")
    /\ UNCHANGED <<left, waited, wrote, lock, binding, response>>

\* bind: a stored digest is compared, and kept as it is when it matches.
BindReads(r) ==
    /\ At(r, "readBinding") /\ InTime(r)
    /\ IF binding = NoBinding
         THEN Go(r, "writeBinding") /\ UNCHANGED outcome
         ELSE /\ Go(r, "unlockBinding")
              /\ outcome' = [outcome EXCEPT ![r] =
                               IF binding.digest = Fingerprint[r] THEN "bound" ELSE "conflict"]
    /\ UNCHANGED <<left, waited, wrote, lock, binding, response>>

\* Fault: the binding lives exactly as long as a response.
FingerprintLifetimeNoOverlap == Lifetime

fingerprintLifetime == Lifetime + Overlap

BindWrites(r) ==
    /\ At(r, "writeBinding") /\ InTime(r)
    /\ binding' = [digest |-> Fingerprint[r], left |-> fingerprintLifetime]
    /\ wrote' = [wrote EXCEPT ![r] = TRUE]
    /\ outcome' = [outcome EXCEPT ![r] = "bound"]
    /\ Go(r, "unlockBinding")
    /\ UNCHANGED <<left, waited, lock, response>>

\* The store fails, or the deadline has passed; a write may have been applied.
BindFails(r) ==
    /\ phase[r] \in {"readBinding", "writeBinding"}
    /\ Go(r, "unlockBinding") /\ outcome' = [outcome EXCEPT ![r] = "error"]
    /\ \/ UNCHANGED binding
       \/ /\ At(r, "writeBinding")
          /\ binding' = [digest |-> Fingerprint[r], left |-> fingerprintLifetime]
    /\ UNCHANGED <<left, waited, wrote, lock, response>>

\* Locker.Unlock removes the caller's own lease, or fails and leaves it.
Unlock(r, ok) ==
    lock' = IF ok /\ lock.holder = r THEN NoLease ELSE lock

\* The lock is released whatever bind returned; its error comes first.
UnlocksBinding(r) ==
    /\ At(r, "unlockBinding")
    /\ \E ok \in BOOLEAN :
         /\ Unlock(r, ok)
         /\ IF outcome[r] = "bound" /\ ok
              THEN Go(r, "lookup") /\ UNCHANGED outcome
              ELSE Answer(r, IF outcome[r] = "bound" THEN "error" ELSE outcome[r])
    /\ UNCHANGED <<left, waited, wrote, binding, response>>

\* The middleware's first look at the stored response, without the lock.
Looks(r) ==
    /\ At(r, "lookup") /\ InTime(r)
    /\ IF response = NoResponse
         THEN Go(r, "lockResponse") /\ UNCHANGED outcome
         ELSE Answer(r, "replayed")
    /\ UNCHANGED <<left, waited, wrote, lock, binding, response>>

\* Fault: the stored response is not looked up again under the lock.
LooksOnce(r) ==
    /\ At(r, "lookupAgain") /\ InTime(r)
    /\ Go(r, "handler")
    /\ UNCHANGED <<left, waited, outcome, wrote, lock, binding, response>>

\* The second look, holding the lock.
LooksAgain(r) ==
    /\ At(r, "lookupAgain") /\ InTime(r)
    /\ IF response = NoResponse
         THEN Go(r, "handler") /\ UNCHANGED outcome
         ELSE Go(r, "unlockResponse") /\ outcome' = [outcome EXCEPT ![r] = "replayed"]
    /\ UNCHANGED <<left, waited, wrote, lock, binding, response>>

Handles(r) ==
    /\ At(r, "handler") /\ InTime(r) /\ Go(r, "save")
    /\ UNCHANGED <<left, waited, outcome, wrote, lock, binding, response>>

Stored(r) == [digest |-> Fingerprint[r], own |-> wrote[r], left |-> Lifetime]

Saves(r) ==
    /\ At(r, "save") /\ InTime(r)
    /\ response' = Stored(r)
    /\ outcome' = [outcome EXCEPT ![r] = "executed"]
    /\ Go(r, "unlockResponse")
    /\ UNCHANGED <<left, waited, wrote, lock, binding>>

\* A failed lookup without the lock; a failed lookup, a failed handler or a
\* failed save with it.  A failed save may have been applied.
LookupFails(r) ==
    /\ At(r, "lookup") /\ Answer(r, "error")
    /\ UNCHANGED <<left, waited, wrote, lock, binding, response>>

ExecutionFails(r) ==
    /\ phase[r] \in {"lookupAgain", "handler", "save"}
    /\ Go(r, "unlockResponse") /\ outcome' = [outcome EXCEPT ![r] = "error"]
    /\ UNCHANGED response \/ (At(r, "save") /\ response' = Stored(r))
    /\ UNCHANGED <<left, waited, wrote, lock, binding>>

\* A failed unlock is only logged.
UnlocksResponse(r) ==
    /\ At(r, "unlockResponse") /\ Go(r, "answered")
    /\ \E ok \in BOOLEAN : Unlock(r, ok)
    /\ UNCHANGED <<left, waited, outcome, wrote, binding, response>>

\* The process dies with the request; its lease stays.
Crash(r) ==
    /\ InFlight(r) /\ Go(r, "crashed")
    /\ UNCHANGED <<left, waited, outcome, wrote, lock, binding, response>>

Step(r) ==
    \/ Arrive(r) \/ Locked(r) \/ LockFails(r)
    \/ BindReads(r) \/ BindWrites(r) \/ BindFails(r) \/ UnlocksBinding(r)
    \/ Looks(r) \/ LookupFails(r) \/ LooksAgain(r) \/ Handles(r) \/ Saves(r)
    \/ ExecutionFails(r) \/ UnlocksResponse(r) \/ Crash(r)

-----------------------------------------------------------------------------
(* Time passes unless a call that must have returned by now is still out:    *)
(* one past the request's deadline, or a wait past the lock's.               *)

TimelyCalls ==
    \A r \in Requests : InFlight(r) =>
        IF Waiting(r) THEN waited[r] < LockWaitTimeout ELSE InTime(r)

Runs(n) == IF n > 0 THEN n - 1 ELSE 0
Lasts(stored, none) == IF stored.left > 1 THEN [stored EXCEPT !.left = @ - 1] ELSE none

Tick ==
    /\ TimelyCalls
    /\ left' = [r \in Requests |-> IF InFlight(r) THEN Runs(left[r]) ELSE left[r]]
    /\ waited' = [r \in Requests |-> IF Waiting(r) THEN waited[r] + 1 ELSE waited[r]]
    /\ lock' = Lasts(lock, NoLease)
    /\ binding' = Lasts(binding, NoBinding)
    /\ response' = Lasts(response, NoResponse)
    /\ UNCHANGED <<phase, outcome, wrote>>

Next == (\E r \in Requests : Step(r)) \/ Tick

Spec == Init /\ [][Next]_vars

-----------------------------------------------------------------------------
(* Properties.                                                               *)

(* The handler runs under the request's own unexpired lease and while no     *)
(* response is stored, up to the moment its response is saved: requests      *)
(* with one key never execute side by side, and never execute again what a   *)
(* stored response answers, whatever crashed or failed to unlock before.     *)
ExecutionExclusive ==
    \A r \in Requests : phase[r] \in {"handler", "save"} =>
        lock.holder = r /\ response = NoResponse

(* A binding outlives what it guards: from the moment a request has bound    *)
(* the key itself until its answer or its deadline, and as long as its       *)
(* response is stored, the key stays bound to that request's fingerprint.    *)
(* This is what the overlap added by fingerprintLifetime is for.             *)
OwnBindingOutlivesResponse ==
    /\ \A r \in Requests : InFlight(r) /\ InTime(r) /\ wrote[r] =>
         binding.digest = Fingerprint[r]
    /\ response.own =>
         binding.digest = response.digest /\ binding.left >= response.left

(* A stored response is replayed only to requests with the fingerprint it    *)
(* was produced for; a different request with the same key gets a conflict.  *)
NoForeignReplay ==
    response # NoResponse =>
        \A r \in Requests : phase[r] \in {"lookup", "lookupAgain"} /\ InTime(r) =>
            Fingerprint[r] = response.digest
================================================================================
