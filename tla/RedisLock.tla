------------------------------- MODULE RedisLock -------------------------------
(***************************************************************************)
(* The distributed lock of Framework/sharedstate/redis.go for one key:     *)
(* Lock takes a gate local to the process, then a Redis lease with a fresh *)
(* owner token; Unlock deletes the lease only if it still carries that     *)
(* token.  Several processes with several goroutines each share one Redis. *)
(*                                                                         *)
(* Steps are the critical sections of gatesMu and ownersMu, the channel    *)
(* operations on a gate, and the commands Redis runs.  A command whose     *)
(* caller gave up, or whose answer was lost, may still run later or run a  *)
(* second time (the client resends).  Waiting times are left open: any     *)
(* wait may end in its timeout.  A lease may run out at any moment.        *)
(***************************************************************************)
EXTENDS Integers, FiniteSets

CONSTANTS
    Callers,    \* goroutines that call Lock and Unlock
    Processes,
    Home,       \* the process of each goroutine
    Gates,      \* addresses of localGate values
    NoGate,     \* nil
    NoToken,    \* the key does not exist / no owner recorded
    MaxCalls    \* bound: Lock calls per goroutine

ASSUME LockAssumption ==
    /\ Home \in [Callers -> Processes]
    /\ NoGate \notin Gates /\ NoToken \notin Callers \X Nat
    /\ IsFiniteSet(Callers)
    /\ MaxCalls \in Nat

VARIABLES
    pc,        \* per goroutine: where it is in Lock or Unlock
    gate,      \* per goroutine: the gate it holds a reference to
    calls,     \* per goroutine: tokens made so far
    taken,     \* per goroutine: the owner record Unlock took from the map
    registry,  \* per process: gates[key]
    free,      \* per gate: its channel holds the token
    refs,      \* per gate: its reference count
    owners,    \* per process: owners[key]
    lease,     \* Redis: the value of the key
    lapsed,    \* history: tokens whose lease ran out before they were unlocked
    wire       \* commands Redis may still run

localVars == <<pc, gate, calls, taken, registry, free, refs, owners>>
redisVars == <<lease, lapsed, wire>>
vars == <<localVars, redisVars>>

Tokens == Callers \X (0 .. MaxCalls)
Token(c) == <<c, calls[c]>>
Commands == [op : {"SetNX", "unlock"}, token : Tokens]

Init ==
    /\ pc = [c \in Callers |-> "idle"]
    /\ gate = [c \in Callers |-> NoGate]
    /\ calls = [c \in Callers |-> 0]
    /\ taken = [c \in Callers |-> NoToken]
    /\ registry = [p \in Processes |-> NoGate]
    /\ free = [g \in Gates |-> FALSE]
    /\ refs = [g \in Gates |-> 0]
    /\ owners = [p \in Processes |-> NoToken]
    /\ lease = NoToken /\ lapsed = {} /\ wire = {}

Goto(c, l) == pc' = [pc EXCEPT ![c] = l]

--------------------------------------------------------------------------------
(* acquireLocal and releaseGateRef *)

\* Nothing points to g: a new gate may be allocated there.
Unreachable(g) == (\A p \in Processes : registry[p] # g) /\ (\A c \in Callers : gate[c] # g)

\* The first critical section of acquireLocal: find or make the gate.
LockBegins(c) ==
    /\ pc[c] = "idle" /\ calls[c] < MaxCalls
    /\ \/ /\ registry[Home[c]] # NoGate
          /\ gate' = [gate EXCEPT ![c] = registry[Home[c]]]
          /\ refs' = [refs EXCEPT ![registry[Home[c]]] = @ + 1]
          /\ UNCHANGED <<registry, free>>
       \/ /\ registry[Home[c]] = NoGate
          /\ \E g \in Gates :
                /\ Unreachable(g)
                /\ gate' = [gate EXCEPT ![c] = g]
                /\ registry' = [registry EXCEPT ![Home[c]] = g]
                /\ free' = [free EXCEPT ![g] = TRUE]
                /\ refs' = [refs EXCEPT ![g] = 1]
    /\ Goto(c, "gating")
    /\ UNCHANGED <<calls, taken, owners, redisVars>>

\* The token is received from the channel; Lock makes a new owner token.
GateTaken(c) ==
    /\ pc[c] = "gating" /\ free[gate[c]]
    /\ free' = [free EXCEPT ![gate[c]] = FALSE]
    /\ calls' = [calls EXCEPT ![c] = @ + 1]
    /\ Goto(c, "attempting")
    /\ UNCHANGED <<gate, taken, registry, refs, owners, redisVars>>

\* Fault: the registry entry is never dropped.
ReleaseGateRefKeeps(c) ==
    /\ refs' = [refs EXCEPT ![gate[c]] = @ - 1]
    /\ gate' = [gate EXCEPT ![c] = NoGate]
    /\ UNCHANGED registry

releaseGateRef(c) ==
    /\ refs' = [refs EXCEPT ![gate[c]] = @ - 1]
    /\ registry' = [registry EXCEPT ![Home[c]] = IF refs[gate[c]] = 1 /\ @ = gate[c] THEN NoGate ELSE @]
    /\ gate' = [gate EXCEPT ![c] = NoGate]

GateTimesOut(c) ==
    /\ pc[c] = "gating"
    /\ releaseGateRef(c)
    /\ Goto(c, "idle")
    /\ UNCHANGED <<calls, taken, free, owners, redisVars>>

\* release(): the token goes back into the channel, ...
GateReleased(c) ==
    /\ pc[c] = "releasing" /\ ~free[gate[c]]
    /\ free' = [free EXCEPT ![gate[c]] = TRUE]
    /\ Goto(c, "leaving")
    /\ UNCHANGED <<gate, calls, taken, registry, refs, owners, redisVars>>

\* ... then the reference is dropped.
GateLeft(c) ==
    /\ pc[c] = "leaving"
    /\ releaseGateRef(c)
    /\ Goto(c, "idle")
    /\ UNCHANGED <<calls, taken, free, owners, redisVars>>

--------------------------------------------------------------------------------
(* Lock *)

SetNXSent(c) ==
    /\ pc[c] = "attempting"
    /\ wire' = wire \cup {[op |-> "SetNX", token |-> Token(c)]}
    /\ Goto(c, "SetNX")
    /\ UNCHANGED <<gate, calls, taken, registry, free, refs, owners, lease, lapsed>>

\* The deadline has passed (or no random token could be made), or the
\* attempt ends in an error: the gate is released, the lock not taken.
LockFails(c) ==
    /\ pc[c] \in {"attempting", "SetNX"}
    /\ Goto(c, "releasing")
    /\ UNCHANGED <<gate, calls, taken, registry, free, refs, owners, redisVars>>

OwnerRecorded(c) ==
    /\ pc[c] = "acquired"
    /\ owners' = [owners EXCEPT ![Home[c]] = Token(c)]
    /\ Goto(c, "held")
    /\ UNCHANGED <<gate, calls, taken, registry, free, refs, redisVars>>

--------------------------------------------------------------------------------
(* Unlock *)

UnlockTakes(c) ==
    /\ pc[c] = "held"
    /\ taken' = [taken EXCEPT ![c] = owners[Home[c]]]
    /\ owners' = [owners EXCEPT ![Home[c]] = NoToken]
    /\ Goto(c, "unlocking")
    /\ UNCHANGED <<gate, calls, registry, free, refs, redisVars>>

UnlockSent(c) ==
    /\ pc[c] = "unlocking"
    /\ wire' = wire \cup {[op |-> "unlock", token |-> taken[c]]}
    /\ Goto(c, "unlock")
    /\ UNCHANGED <<gate, calls, taken, registry, free, refs, owners, lease, lapsed>>

\* The script's answer does not come in time; the gate is released anyway.
UnlockFails(c) ==
    /\ pc[c] \in {"unlocking", "unlock"}
    /\ taken' = [taken EXCEPT ![c] = NoToken]
    /\ Goto(c, "releasing")
    /\ UNCHANGED <<gate, calls, registry, free, refs, owners, redisVars>>

--------------------------------------------------------------------------------
(* Redis *)

\* A command runs; a copy of it may still be under way.
Consume(cmd) == wire' \in {wire, wire \ {cmd}}

\* SET key token NX PX ttl.
SetNXRuns(cmd) ==
    /\ cmd \in wire /\ cmd.op = "SetNX"
    /\ lease' = IF lease = NoToken THEN cmd.token ELSE lease
    /\ lapsed' = IF lease = NoToken THEN lapsed \ {cmd.token} ELSE lapsed
    /\ Consume(cmd)
    /\ LET c == cmd.token[1] IN
          \/ UNCHANGED pc   \* the answer is lost or nobody waits for it
          \/ /\ pc[c] = "SetNX" /\ Token(c) = cmd.token
             /\ Goto(c, IF lease = NoToken THEN "acquired" ELSE "attempting")
    /\ UNCHANGED <<gate, calls, taken, registry, free, refs, owners>>

\* Fault: the key is deleted without looking at its value.
CompareAndDeleteBlind(token) == NoToken

CompareAndDelete(token) == IF lease = token THEN NoToken ELSE lease

\* unlockScript.
UnlockRuns(cmd) ==
    /\ cmd \in wire /\ cmd.op = "unlock"
    /\ lease' = CompareAndDelete(cmd.token)
    /\ Consume(cmd)
    /\ LET c == cmd.token[1] IN
          \/ UNCHANGED <<pc, taken>>
          \/ /\ pc[c] = "unlock" /\ taken[c] = cmd.token
             /\ taken' = [taken EXCEPT ![c] = NoToken]
             /\ Goto(c, "releasing")
    /\ UNCHANGED <<gate, calls, registry, free, refs, owners, lapsed>>

CommandLost(cmd) ==
    /\ cmd \in wire
    /\ wire' = wire \ {cmd}
    /\ UNCHANGED <<localVars, lease, lapsed>>

\* The time to live of the key ends (a failover that loses it looks alike).
LeaseExpires ==
    /\ lease # NoToken
    /\ lapsed' = lapsed \cup {lease}
    /\ lease' = NoToken
    /\ UNCHANGED <<localVars, wire>>

\* A process dies and comes back with empty maps.
Crash(p) ==
    /\ LET mine == {c \in Callers : Home[c] = p} IN
          /\ \E c \in mine : pc[c] # "idle"
          /\ pc' = [c \in Callers |-> IF c \in mine THEN "idle" ELSE pc[c]]
          /\ gate' = [c \in Callers |-> IF c \in mine THEN NoGate ELSE gate[c]]
          /\ taken' = [c \in Callers |-> IF c \in mine THEN NoToken ELSE taken[c]]
    /\ registry' = [registry EXCEPT ![p] = NoGate]
    /\ owners' = [owners EXCEPT ![p] = NoToken]
    /\ free' = [g \in Gates |-> g # registry[p] /\ free[g]]
    /\ refs' = [g \in Gates |-> IF g = registry[p] THEN 0 ELSE refs[g]]
    /\ UNCHANGED <<calls, redisVars>>

LockStep(c) ==
    \/ LockBegins(c) \/ GateTaken(c) \/ GateTimesOut(c) \/ GateReleased(c) \/ GateLeft(c)
    \/ SetNXSent(c) \/ LockFails(c) \/ OwnerRecorded(c)
    \/ UnlockTakes(c) \/ UnlockSent(c) \/ UnlockFails(c)

RedisStep ==
    \/ \E cmd \in wire : SetNXRuns(cmd) \/ UnlockRuns(cmd) \/ CommandLost(cmd)
    \/ LeaseExpires

Next ==
    \/ \E c \in Callers : LockStep(c)
    \/ RedisStep
    \/ \E p \in Processes : Crash(p)

Spec == Init /\ [][Next]_vars

--------------------------------------------------------------------------------
(* Properties *)

Labels == {"idle", "gating", "attempting", "SetNX", "acquired", "held",
           "unlocking", "unlock", "releasing", "leaving"}

TypeOK ==
    /\ pc \in [Callers -> Labels]
    /\ gate \in [Callers -> Gates \cup {NoGate}]
    /\ calls \in [Callers -> 0 .. MaxCalls]
    /\ taken \in [Callers -> Tokens \cup {NoToken}]
    /\ registry \in [Processes -> Gates \cup {NoGate}]
    /\ free \in [Gates -> BOOLEAN]
    /\ refs \in [Gates -> Nat]
    /\ owners \in [Processes -> Tokens \cup {NoToken}]
    /\ lease \in Tokens \cup {NoToken}
    /\ lapsed \in SUBSET Tokens
    /\ wire \in SUBSET Commands

Holds(c) == pc[c] \in {"acquired", "held"}

\* Whoever Lock has told that it owns the key does own it in Redis until its
\* lease runs out: neither a late or repeated command nor the Unlock of an
\* earlier owner takes it away (unlockScript, SetNX).
HolderOwnsLease == \A c \in Callers : Holds(c) /\ Token(c) \notin lapsed => lease = Token(c)

Inside(c) == pc[c] \in {"attempting", "SetNX", "acquired", "held", "unlocking", "unlock", "releasing"}

\* Within a process one goroutine at a time is between Lock and Unlock, even
\* when its lease has run out: the gate, not the lease, guards owners[key].
OneInsidePerProcess ==
    \A c, d \in Callers : Inside(c) /\ Inside(d) /\ Home[c] = Home[d] => c = d

\* Unlock finds its own record in the owners map, never another goroutine's.
UnlockFindsOwnRecord ==
    \A c \in Callers :
        /\ pc[c] = "held" => owners[Home[c]] = Token(c)
        /\ taken[c] # NoToken => taken[c] = Token(c)

\* The gate registry neither leaks an entry nor forgets a gate that is in use.
GatesReclaimed ==
    \A p \in Processes :
        registry[p] = NoGate <=> \A c \in Callers : Home[c] = p => pc[c] = "idle"

Current == {c \in Callers : Holds(c) /\ Token(c) \notin lapsed}

\* Refinement: for its unexpired holders the lock is an exclusive lease.
Lease == INSTANCE LeaseLock WITH holders <- Current
ImplementsLease == Lease!LockSpec
================================================================================
