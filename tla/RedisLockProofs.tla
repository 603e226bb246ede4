---------------------------- MODULE RedisLockProofs ----------------------------
(***************************************************************************)
(* Proofs about the distributed lock for any number of processes,          *)
(* goroutines and calls.  The argument has two halves.  Inside a process   *)
(* the reference count of the registered gate is exactly the number of     *)
(* goroutines that use it (GateInv), so the gate is never replaced while   *)
(* somebody is inside.  In Redis an unlock command carries the token of a  *)
(* call that has already given the lock up (LeaseInv), so it can not       *)
(* delete the lease of a holder.                                           *)
(***************************************************************************)
EXTENDS RedisLock, FiniteSetTheorems, TLAPS

--------------------------------------------------------------------------------
(* The gates *)

Users(p) == {c \in Callers : Home[c] = p /\ pc[c] # "idle"}

GateShape ==
    \A c \in Callers :
        /\ pc[c] = "idle" => gate[c] = NoGate
        /\ pc[c] # "idle" => gate[c] \in Gates /\ registry[Home[c]] = gate[c]

GatesDistinct ==
    \A p, q \in Processes : registry[p] # NoGate /\ registry[p] = registry[q] => p = q

RefsExact ==
    \A p \in Processes : registry[p] # NoGate =>
        Users(p) # {} /\ refs[registry[p]] = Cardinality(Users(p))

GateClosed == \A c \in Callers : Inside(c) => ~free[gate[c]]

GateInv == TypeOK /\ GateShape /\ GatesDistinct /\ RefsExact /\ GateClosed /\ OneInsidePerProcess

\* The users of a process are a finite set.
LEMMA UsersFinite == ASSUME NEW p PROVE IsFiniteSet(Users(p)) /\ Cardinality(Users(p)) \in Nat
<1>1. Users(p) \in SUBSET Callers
    BY DEF Users
<1>2. IsFiniteSet(Users(p))
    BY <1>1, LockAssumption, FS_Subset
<1> QED BY <1>2, FS_CardinalityType

\* A goroutine that moves from one place inside to another leaves the gates alone.
LEMMA MoveInside ==
    ASSUME GateInv, TypeOK', NEW c \in Callers, Inside(c), Inside(c)',
           \A d \in Callers : d # c => pc'[d] = pc[d],
           UNCHANGED <<gate, registry, free, refs>>
    PROVE  GateInv'
<1> USE DEF GateInv, Inside
<1>1. \A d \in Callers : (pc'[d] = "idle" <=> pc[d] = "idle") /\ (Inside(d)' <=> Inside(d))
    OBVIOUS
<1>2. \A p : Users(p)' = Users(p)
    BY <1>1 DEF Users
<1>3. GateShape' /\ GatesDistinct' /\ GateClosed' /\ OneInsidePerProcess'
    BY <1>1 DEF GateShape, GatesDistinct, GateClosed, OneInsidePerProcess
<1>4. RefsExact'
    BY <1>2 DEF RefsExact
<1> QED BY <1>3, <1>4

\* Dropping a reference keeps the gates in order.
LEMMA DropReference ==
    ASSUME GateInv, TypeOK', NEW c \in Callers, pc[c] \in {"gating", "leaving"},
           releaseGateRef(c), Goto(c, "idle"), UNCHANGED free
    PROVE  GateInv'
<1> DEFINE p == Home[c]
<1> DEFINE g == gate[c]
<1> USE DEF GateInv, Goto
<1>1. p \in Processes /\ g \in Gates /\ registry[p] = g /\ registry[p] # NoGate
    BY LockAssumption DEF GateShape
<1>2. Users(p)' = Users(p) \ {c} /\ c \in Users(p)
    BY DEF Users, TypeOK
<1>3. \A q \in Processes : q # p => Users(q)' = Users(q)
    BY DEF Users, TypeOK
<1>4. Cardinality(Users(p)') = Cardinality(Users(p)) - 1
    BY <1>2, UsersFinite, FS_RemoveElement
<1>5. refs[g] = Cardinality(Users(p)) /\ refs'[g] = Cardinality(Users(p)')
    BY <1>1, <1>4, UsersFinite DEF RefsExact, releaseGateRef, TypeOK
<1>6. registry' = IF refs[g] = 1 THEN [registry EXCEPT ![p] = NoGate] ELSE registry
    BY <1>1 DEF releaseGateRef, TypeOK
<1>7. Users(p)' = {} <=> refs[g] = 1
    <2>1. IsFiniteSet(Users(p)')
        BY <1>2, UsersFinite, FS_RemoveElement
    <2>2. Users(p)' = {} <=> Cardinality(Users(p)') = 0
        BY <2>1, FS_EmptySet
    <2> QED BY <2>2, <1>4, <1>5, UsersFinite
<1>8. GatesDistinct'
    BY <1>1, <1>6 DEF GatesDistinct, TypeOK
<1>9. RefsExact'
    <2> SUFFICES ASSUME NEW q \in Processes, registry'[q] # NoGate
                 PROVE  Users(q)' # {} /\ refs'[registry'[q]] = Cardinality(Users(q)')
        BY DEF RefsExact
    <2>1. CASE q = p
        <3>1. refs[g] # 1 /\ registry'[q] = g
            BY <2>1, <1>1, <1>6 DEF TypeOK
        <3> QED BY <3>1, <2>1, <1>5, <1>7
    <2>2. CASE q # p
        <3>1. registry'[q] = registry[q] /\ registry[q] # g /\ registry[q] \in Gates
            BY <2>2, <1>1, <1>6 DEF TypeOK, GatesDistinct
        <3>2. refs'[registry[q]] = refs[registry[q]]
            BY <3>1, <1>1 DEF releaseGateRef, TypeOK
        <3> QED BY <3>1, <3>2, <2>2, <1>3 DEF RefsExact
    <2> QED BY <2>1, <2>2
<1>10. GateShape'
    <2> SUFFICES ASSUME NEW d \in Callers
                 PROVE  /\ pc'[d] = "idle" => gate'[d] = NoGate
                        /\ pc'[d] # "idle" => gate'[d] \in Gates /\ registry'[Home[d]] = gate'[d]
        BY DEF GateShape
    <2>1. CASE d = c
        BY <2>1 DEF releaseGateRef, TypeOK
    <2>2. CASE d # c
        <3>1. pc'[d] = pc[d] /\ gate'[d] = gate[d]
            BY <2>2 DEF releaseGateRef, TypeOK
        <3>2. CASE Home[d] = p /\ pc[d] # "idle"
            <4>1. d \in Users(p)'
                BY <3>1, <3>2 DEF Users
            <4>2. registry' = registry
                BY <4>1, <1>6, <1>7
            <4> QED BY <3>1, <3>2, <4>2 DEF GateShape
        <3>3. CASE Home[d] # p
            <4>1. registry'[Home[d]] = registry[Home[d]]
                BY <3>3, <1>6, LockAssumption DEF TypeOK
            <4> QED BY <4>1, <3>1 DEF GateShape
        <3>4. CASE pc[d] = "idle"
            BY <3>1, <3>4 DEF GateShape
        <3> QED BY <3>2, <3>3, <3>4
    <2> QED BY <2>1, <2>2
<1>11. GateClosed' /\ OneInsidePerProcess'
    BY DEF GateClosed, OneInsidePerProcess, Inside, TypeOK, releaseGateRef
<1> QED BY <1>8, <1>9, <1>10, <1>11

\* The first critical section of acquireLocal keeps the gates in order.
LEMMA LockBeginsGates ==
    ASSUME GateInv, TypeOK', NEW c \in Callers, LockBegins(c)
    PROVE  GateInv'
<1> DEFINE p == Home[c]
<1> USE DEF GateInv, Goto
<1>1. p \in Processes /\ pc[c] = "idle" /\ gate[c] = NoGate
    BY LockAssumption DEF GateShape, LockBegins
<1>2. Users(p)' = Users(p) \cup {c} /\ c \notin Users(p)
    BY <1>1 DEF Users, TypeOK, LockBegins
<1>3. \A q \in Processes : q # p => Users(q)' = Users(q)
    BY DEF Users, TypeOK, LockBegins
<1>4. Cardinality(Users(p)') = Cardinality(Users(p)) + 1
    BY <1>2, UsersFinite, FS_AddElement
<1>5. \A d \in Callers : Inside(d)' <=> Inside(d)
    BY <1>1 DEF Inside, LockBegins, TypeOK
<1>6. OneInsidePerProcess'
    BY <1>5 DEF OneInsidePerProcess
<1>7. CASE registry[p] # NoGate
    <2>1. /\ gate' = [gate EXCEPT ![c] = registry[p]] /\ registry[p] \in Gates
          /\ refs' = [refs EXCEPT ![registry[p]] = @ + 1] /\ UNCHANGED <<registry, free>>
        BY <1>1, <1>7 DEF LockBegins, TypeOK
    <2>2. GateShape' /\ GatesDistinct'
        BY <2>1, <1>1, <1>7, LockAssumption DEF GateShape, GatesDistinct, LockBegins, TypeOK
    <2>3. GateClosed'
        BY <2>1, <1>5, <1>1 DEF GateClosed, Inside, TypeOK
    <2>4. ASSUME NEW q \in Processes, registry[q] # NoGate
          PROVE  Users(q)' # {} /\ refs'[registry[q]] = Cardinality(Users(q)')
        <3>1. CASE q = p
            BY <3>1, <2>1, <2>4, <1>2, <1>4 DEF RefsExact, TypeOK
        <3>2. CASE q # p
            BY <3>2, <2>1, <2>4, <1>3, <1>1 DEF RefsExact, TypeOK, GatesDistinct
        <3> QED BY <3>1, <3>2
    <2>5. RefsExact'
        BY <2>4, <2>1 DEF RefsExact
    <2> QED BY <2>2, <2>3, <2>5, <1>6
<1>8. CASE registry[p] = NoGate
    <2>1. PICK g \in Gates :
            /\ Unreachable(g) /\ gate' = [gate EXCEPT ![c] = g]
            /\ registry' = [registry EXCEPT ![p] = g]
            /\ free' = [free EXCEPT ![g] = TRUE] /\ refs' = [refs EXCEPT ![g] = 1]
        BY <1>8 DEF LockBegins
    <2>2. g # NoGate
        BY LockAssumption
    <2>3. Users(p) = {}
        BY <1>8, LockAssumption DEF Users, GateShape
    <2>4. Cardinality(Users(p)') = 1
        BY <2>3, <1>4, FS_EmptySet
    <2>5. GatesDistinct'
        BY <2>1, <1>1 DEF GatesDistinct, Unreachable, TypeOK
    <2>6. GateShape'
        <3> SUFFICES ASSUME NEW d \in Callers
                     PROVE  /\ pc'[d] = "idle" => gate'[d] = NoGate
                            /\ pc'[d] # "idle" => gate'[d] \in Gates /\ registry'[Home[d]] = gate'[d]
            BY DEF GateShape
        <3>1. CASE d = c
            BY <3>1, <2>1, <1>1 DEF TypeOK, LockBegins
        <3>2. CASE d # c
            <4>0. pc'[d] = pc[d]
                BY <3>2 DEF TypeOK, LockBegins
            <4>1. pc'[d] = pc[d] /\ gate'[d] = gate[d] /\ Home[d] \in Processes
                BY <4>0, <3>2, <2>1, LockAssumption DEF TypeOK
            <4>2. pc[d] # "idle" => Home[d] # p
                BY <2>3 DEF Users
            <4> QED BY <4>1, <4>2, <2>1, <1>1 DEF GateShape, TypeOK
        <3> QED BY <3>1, <3>2
    <2>7. GateClosed'
        BY <2>1, <1>5, <1>1 DEF GateClosed, GateShape, Inside, Unreachable, TypeOK
    <2>8. ASSUME NEW q \in Processes, registry'[q] # NoGate
          PROVE  Users(q)' # {} /\ refs'[registry'[q]] = Cardinality(Users(q)')
        <3>1. CASE q = p
            BY <3>1, <2>1, <2>4, <1>1, <1>2 DEF TypeOK
        <3>2. CASE q # p
            BY <3>2, <2>1, <2>8, <1>3 DEF RefsExact, TypeOK, Unreachable
        <3> QED BY <3>1, <3>2
    <2>9. RefsExact'
        BY <2>8 DEF RefsExact
    <2> QED BY <2>5, <2>6, <2>7, <2>9, <1>6
<1> QED BY <1>7, <1>8

\* Taking the gate: nobody else of the process is inside.
LEMMA GateTakenGates ==
    ASSUME GateInv, TypeOK', NEW c \in Callers, GateTaken(c)
    PROVE  GateInv'
<1> USE DEF GateInv, Goto, GateTaken
<1>1. gate[c] \in Gates /\ registry[Home[c]] = gate[c] /\ pc[c] = "gating" /\ pc'[c] = "attempting"
    BY DEF GateShape, TypeOK
<1>2. \A d \in Callers : d # c => pc'[d] = pc[d]
    BY DEF TypeOK
<1>3. \A d \in Callers : Inside(d) => gate[d] # gate[c] /\ Home[d] # Home[c]
    BY <1>1 DEF GateClosed, GateShape, Inside
<1>4. \A q : Users(q)' = Users(q)
    BY <1>1, <1>2 DEF Users
<1>5. GateShape' /\ GatesDistinct'
    BY <1>1, <1>2 DEF GateShape, GatesDistinct
<1>6. RefsExact'
    BY <1>4 DEF RefsExact
<1>7. OneInsidePerProcess'
    BY <1>1, <1>2, <1>3 DEF OneInsidePerProcess, Inside
<1>8. GateClosed'
    BY <1>1, <1>2, <1>3 DEF GateClosed, GateShape, Inside, TypeOK
<1> QED BY <1>5, <1>6, <1>7, <1>8

\* Putting the token back: the goroutine that was inside no longer is.
LEMMA GateReleasedGates ==
    ASSUME GateInv, TypeOK', NEW c \in Callers, GateReleased(c)
    PROVE  GateInv'
<1> USE DEF GateInv, Goto, GateReleased
<1>0. pc[c] = "releasing" /\ pc'[c] = "leaving"
    BY DEF TypeOK
<1>1. gate[c] \in Gates /\ registry[Home[c]] = gate[c] /\ Inside(c) /\ pc'[c] = "leaving" /\ Home[c] \in Processes
    BY <1>0, LockAssumption DEF GateShape, Inside
<1>2. \A d \in Callers : d # c => pc'[d] = pc[d]
    BY DEF TypeOK
<1>3. \A d \in Callers : Inside(d)' => Inside(d) /\ d # c
    BY <1>1, <1>2 DEF Inside
<1>4. \A d \in Callers : Inside(d)' => gate[d] # gate[c]
    BY <1>1, <1>3, LockAssumption DEF GateShape, GatesDistinct, OneInsidePerProcess, Inside
<1>5. \A q : Users(q)' = Users(q)
    BY <1>1, <1>2 DEF Users
<1>6. GateShape' /\ GatesDistinct'
    BY <1>1, <1>2 DEF GateShape, GatesDistinct
<1>7. RefsExact'
    BY <1>5 DEF RefsExact
<1>8. OneInsidePerProcess'
    BY <1>3 DEF OneInsidePerProcess
<1>9. GateClosed'
    BY <1>1, <1>3, <1>4 DEF GateClosed, GateShape, Inside, TypeOK
<1> QED BY <1>6, <1>7, <1>8, <1>9

\* A crash empties the maps of its process and leaves the others alone.
LEMMA CrashGates ==
    ASSUME GateInv, TypeOK', NEW p \in Processes, Crash(p)
    PROVE  GateInv'
<1> USE DEF GateInv, Crash
<1>1. \A c \in Callers : Home[c] = p => pc'[c] = "idle" /\ gate'[c] = NoGate
    OBVIOUS
<1>2. \A c \in Callers : Home[c] # p => pc'[c] = pc[c] /\ gate'[c] = gate[c]
    OBVIOUS
<1>3. \A q \in Processes : q # p => Users(q)' = Users(q) /\ registry'[q] = registry[q]
    BY <1>2 DEF Users, TypeOK
<1>4. registry'[p] = NoGate
    BY DEF TypeOK
<1>5. GateShape'
    BY <1>1, <1>2, <1>3, LockAssumption DEF GateShape
<1>6. GatesDistinct'
    BY <1>3, <1>4 DEF GatesDistinct
<1>7. \A q \in Processes : q # p /\ registry[q] # NoGate => refs'[registry[q]] = refs[registry[q]]
    BY DEF GatesDistinct, TypeOK
<1>8. RefsExact'
    BY <1>3, <1>4, <1>7 DEF RefsExact
<1>9. OneInsidePerProcess'
    BY <1>1, <1>2 DEF OneInsidePerProcess, Inside
<1>10. GateClosed'
    BY <1>1, <1>2 DEF GateClosed, Inside, GateShape, TypeOK
<1> QED BY <1>5, <1>6, <1>8, <1>9, <1>10

--------------------------------------------------------------------------------
(* The owner records and the lease *)

RecordsOwn ==
    \A c \in Callers :
        /\ pc[c] = "held" => owners[Home[c]] = Token(c)
        /\ pc[c] \in {"unlocking", "unlock"} => taken[c] = Token(c)
        /\ pc[c] \notin {"unlocking", "unlock"} => taken[c] = NoToken

CallsLeft == \A c \in Callers : pc[c] = "gating" => calls[c] < MaxCalls

TokensMade == \A cmd \in wire : cmd.token[2] <= calls[cmd.token[1]]

UnlocksAreLate ==
    \A cmd \in wire : cmd.op = "unlock" /\ cmd.token = Token(cmd.token[1]) =>
        pc[cmd.token[1]] \in {"unlock", "releasing", "leaving", "idle", "gating"}

LeaseInv == RecordsOwn /\ CallsLeft /\ TokensMade /\ UnlocksAreLate /\ HolderOwnsLease

IInv == GateInv /\ LeaseInv

\* Every step keeps the variables well typed.
LEMMA StepTypes ==
    ASSUME IInv, Next
    PROVE  TypeOK'
<1> USE LockAssumption DEF IInv, GateInv, TypeOK, Tokens, Commands, Labels, Goto
<1>1. ASSUME NEW c \in Callers, LockStep(c) PROVE TypeOK'
    <2> USE DEF Token
    <2>1. CASE LockBegins(c)
        <3>1. free' \in [Gates -> BOOLEAN]
            BY <2>1, Zenon DEF LockBegins
        <3>2. /\ gate' \in [Callers -> Gates \cup {NoGate}] /\ refs' \in [Gates -> Nat]
              /\ registry' \in [Processes -> Gates \cup {NoGate}]
            BY <2>1 DEF LockBegins
        <3> QED BY <2>1, <3>1, <3>2 DEF LockBegins, redisVars
    <2>2. CASE GateTaken(c)
        BY <2>2 DEF GateTaken, redisVars, LeaseInv, CallsLeft, GateShape
    <2>3. ASSUME releaseGateRef(c), pc[c] # "idle"
          PROVE  /\ refs' \in [Gates -> Nat] /\ registry' \in [Processes -> Gates \cup {NoGate}]
                 /\ gate' \in [Callers -> Gates \cup {NoGate}]
        <3>1. Home[c] \in Processes /\ c \in Users(Home[c]) /\ gate[c] \in Gates /\ registry[Home[c]] = gate[c]
            BY <2>3 DEF Users, GateShape
        <3>2. refs[gate[c]] = Cardinality(Users(Home[c])) /\ refs[gate[c]] # 0
            BY <3>1, UsersFinite, FS_EmptySet DEF RefsExact
        <3> QED BY <2>3, <3>1, <3>2 DEF releaseGateRef
    <2>4. CASE GateTimesOut(c)
        BY <2>3, <2>4 DEF GateTimesOut, redisVars
    <2>5. CASE GateReleased(c)
        BY <2>5 DEF GateReleased, redisVars
    <2>6. CASE GateLeft(c)
        BY <2>3, <2>6 DEF GateLeft, redisVars
    <2>7. CASE SetNXSent(c)
        BY <2>7 DEF SetNXSent
    <2>8. CASE LockFails(c)
        BY <2>8 DEF LockFails, redisVars
    <2>9. CASE OwnerRecorded(c)
        BY <2>9 DEF OwnerRecorded, redisVars
    <2>10. CASE UnlockTakes(c)
        BY <2>10 DEF UnlockTakes, redisVars
    <2>11. CASE UnlockSent(c)
        <3>1. taken[c] = <<c, calls[c]>> /\ <<c, calls[c]>> \in Tokens
            BY <2>11 DEF UnlockSent, LeaseInv, RecordsOwn
        <3>2. wire' \in SUBSET Commands
            BY <2>11, <3>1 DEF UnlockSent
        <3> QED BY <2>11, <3>2 DEF UnlockSent
    <2>12. CASE UnlockFails(c)
        BY <2>12 DEF UnlockFails, redisVars
    <2> QED BY <1>1, <2>1, <2>2, <2>4, <2>5, <2>6, <2>7, <2>8, <2>9, <2>10, <2>11, <2>12 DEF LockStep
<1>2. ASSUME NEW cmd \in wire, SetNXRuns(cmd) PROVE TypeOK'
    BY <1>2 DEF SetNXRuns, Consume
<1>3. ASSUME NEW cmd \in wire, UnlockRuns(cmd) PROVE TypeOK'
    BY <1>3 DEF UnlockRuns, Consume, CompareAndDelete
<1>4. ASSUME NEW cmd \in wire, CommandLost(cmd) PROVE TypeOK'
    BY <1>4 DEF CommandLost, localVars
<1>5. CASE LeaseExpires
    BY <1>5 DEF LeaseExpires, localVars
<1>6. ASSUME NEW p \in Processes, Crash(p) PROVE TypeOK'
    <2>1. free' \in [Gates -> BOOLEAN]
        BY <1>6, Zenon DEF Crash
    <2> QED BY <1>6, <2>1 DEF Crash, redisVars
<1> QED BY <1>1, <1>2, <1>3, <1>4, <1>5, <1>6 DEF Next, RedisStep

\* The steps of Lock and Unlock preserve the second half of the invariant.
LEMMA LockStepLease ==
    ASSUME IInv, NEW c \in Callers, LockStep(c)
    PROVE  LeaseInv'
<1> USE LockAssumption DEF IInv, GateInv, LeaseInv, TypeOK, Goto, Token
<1>1. CASE LockBegins(c)
    BY <1>1 DEF LockBegins, redisVars, RecordsOwn, CallsLeft, TokensMade, UnlocksAreLate, HolderOwnsLease, Holds, Tokens, Commands
<1>2. CASE GateTaken(c)
    <2>1. /\ pc[c] = "gating" /\ pc'[c] = "attempting" /\ calls'[c] = calls[c] + 1
          /\ \A d \in Callers : d # c => pc'[d] = pc[d] /\ calls'[d] = calls[d]
          /\ UNCHANGED <<taken, owners, redisVars>>
        BY <1>2 DEF GateTaken
    <2>2. RecordsOwn' /\ CallsLeft' /\ HolderOwnsLease'
        BY <2>1 DEF redisVars, RecordsOwn, CallsLeft, HolderOwnsLease, Holds
    <2>3. TokensMade'
        BY <2>1 DEF redisVars, TokensMade, Commands, Tokens
    <2>4. UnlocksAreLate'
        BY <2>1 DEF redisVars, TokensMade, UnlocksAreLate, Commands, Tokens
    <2> QED BY <2>2, <2>3, <2>4
<1>3. CASE GateTimesOut(c)
    BY <1>3 DEF GateTimesOut, redisVars, RecordsOwn, CallsLeft, TokensMade, UnlocksAreLate, HolderOwnsLease, Holds, Tokens, Commands
<1>4. CASE GateReleased(c)
    BY <1>4 DEF GateReleased, redisVars, RecordsOwn, CallsLeft, TokensMade, UnlocksAreLate, HolderOwnsLease, Holds, Tokens, Commands
<1>5. CASE GateLeft(c)
    BY <1>5 DEF GateLeft, redisVars, RecordsOwn, CallsLeft, TokensMade, UnlocksAreLate, HolderOwnsLease, Holds, Tokens, Commands
<1>6. CASE SetNXSent(c)
    BY <1>6 DEF SetNXSent, RecordsOwn, CallsLeft, TokensMade, UnlocksAreLate, HolderOwnsLease, Holds, Tokens, Commands
<1>7. CASE LockFails(c)
    BY <1>7 DEF LockFails, redisVars, RecordsOwn, CallsLeft, TokensMade, UnlocksAreLate, HolderOwnsLease, Holds, Tokens, Commands
<1>8. CASE OwnerRecorded(c)
    <2>1. \A d \in Callers : pc[d] = "held" => Home[d] # Home[c]
        BY <1>8 DEF OwnerRecorded, OneInsidePerProcess, Inside
    <2>2. RecordsOwn'
        BY <1>8, <2>1 DEF OwnerRecorded, RecordsOwn
    <2> QED BY <1>8, <2>2 DEF OwnerRecorded, redisVars, CallsLeft, TokensMade, UnlocksAreLate, HolderOwnsLease, Holds, Tokens, Commands
<1>9. CASE UnlockTakes(c)
    <2>1. \A d \in Callers : d # c /\ pc[d] = "held" => Home[d] # Home[c]
        BY <1>9 DEF UnlockTakes, OneInsidePerProcess, Inside
    <2>2. RecordsOwn'
        BY <1>9, <2>1 DEF UnlockTakes, RecordsOwn
    <2> QED BY <1>9, <2>2 DEF UnlockTakes, redisVars, CallsLeft, TokensMade, UnlocksAreLate, HolderOwnsLease, Holds, Tokens, Commands
<1>10. CASE UnlockSent(c)
    BY <1>10 DEF UnlockSent, RecordsOwn, CallsLeft, TokensMade, UnlocksAreLate, HolderOwnsLease, Holds, Tokens, Commands
<1>11. CASE UnlockFails(c)
    BY <1>11 DEF UnlockFails, redisVars, RecordsOwn, CallsLeft, TokensMade, UnlocksAreLate, HolderOwnsLease, Holds, Tokens, Commands
<1> QED BY <1>1, <1>2, <1>3, <1>4, <1>5, <1>6, <1>7, <1>8, <1>9, <1>10, <1>11 DEF LockStep

\* The steps of Redis and a crash preserve it.
LEMMA OtherStepLease ==
    ASSUME IInv, RedisStep \/ \E p \in Processes : Crash(p)
    PROVE  LeaseInv'
<1> USE LockAssumption DEF IInv, GateInv, LeaseInv, TypeOK, Goto, Token
<1>1. ASSUME NEW cmd \in wire, SetNXRuns(cmd) PROVE LeaseInv'
    <2> DEFINE c == cmd.token[1]
    <2>1. /\ c \in Callers /\ cmd.token = <<c, cmd.token[2]>> /\ wire' \subseteq wire
          /\ UNCHANGED <<calls, taken, owners>> /\ cmd.token # NoToken
        BY <1>1 DEF SetNXRuns, Consume, Commands, Tokens
    <2>2. \A d \in Callers : pc'[d] # pc[d] =>
              d = c /\ pc[d] = "SetNX" /\ Token(d) = cmd.token /\ pc'[d] \in {"acquired", "attempting"}
        BY <1>1, <2>1 DEF SetNXRuns
    <2>3. \A d \in Callers : pc'[d] # pc[d] /\ pc'[d] = "acquired" => lease = NoToken
        BY <1>1, <2>1 DEF SetNXRuns
    <2>4. RecordsOwn' /\ CallsLeft'
        BY <2>1, <2>2 DEF RecordsOwn, CallsLeft
    <2>5. TokensMade'
        BY <2>1 DEF TokensMade
    <2>6. \A u \in wire : u.token[1] \in Callers
        BY DEF Commands, Tokens
    <2>7. UnlocksAreLate'
        BY <2>1, <2>2, <2>6 DEF UnlocksAreLate
    <2>8. ASSUME NEW d \in Callers, Holds(d)', Token(d) \notin lapsed'
          PROVE  lease' = Token(d)
        <3>1. CASE lease = NoToken
            <4>1. lease' = cmd.token /\ lapsed' = lapsed \ {cmd.token}
                BY <1>1, <3>1 DEF SetNXRuns
            <4>2. CASE Holds(d)
                BY <4>1, <4>2, <3>1, <2>8 DEF HolderOwnsLease, Tokens
            <4>3. CASE ~Holds(d)
                BY <4>1, <4>3, <2>2, <2>8 DEF Holds
            <4> QED BY <4>2, <4>3
        <3>2. CASE lease # NoToken
            <4>1. lease' = lease /\ lapsed' = lapsed
                BY <1>1, <3>2 DEF SetNXRuns
            <4>2. Holds(d)
                BY <3>2, <2>2, <2>3, <2>8 DEF Holds
            <4> QED BY <4>1, <4>2, <2>8 DEF HolderOwnsLease
        <3> QED BY <3>1, <3>2
    <2>9. HolderOwnsLease'
        BY <2>1, <2>8 DEF HolderOwnsLease
    <2> QED BY <2>4, <2>5, <2>7, <2>9
<1>2. ASSUME NEW cmd \in wire, UnlockRuns(cmd) PROVE LeaseInv'
    <2> DEFINE c == cmd.token[1]
    <2>1. /\ c \in Callers /\ cmd.token = <<c, cmd.token[2]>> /\ wire' \subseteq wire
          /\ UNCHANGED <<calls, owners, lapsed>> /\ cmd.op = "unlock"
        BY <1>2 DEF UnlockRuns, Consume, Commands, Tokens
    <2>2. \A d \in Callers : pc'[d] # pc[d] =>
              d = c /\ pc[d] = "unlock" /\ pc'[d] = "releasing" /\ taken'[d] = NoToken
        BY <1>2, <2>1 DEF UnlockRuns
    <2>3. \A d \in Callers : pc'[d] = pc[d] => taken'[d] = taken[d]
        BY <1>2, <2>1 DEF UnlockRuns
    <2>4. RecordsOwn' /\ CallsLeft'
        BY <2>1, <2>2, <2>3 DEF RecordsOwn, CallsLeft
    <2>5. TokensMade'
        BY <2>1 DEF TokensMade
    <2>6. \A u \in wire : u.token[1] \in Callers
        BY DEF Commands, Tokens
    <2>7. UnlocksAreLate'
        BY <2>1, <2>2, <2>6 DEF UnlocksAreLate
    <2>8. ASSUME NEW d \in Callers, Holds(d)', Token(d) \notin lapsed
          PROVE  lease' = Token(d)
        <3>1. Holds(d) /\ lease = Token(d)
            BY <2>2, <2>8 DEF Holds, HolderOwnsLease
        <3>2. cmd.token # Token(d)
            BY <2>1, <3>1 DEF UnlocksAreLate, Holds
        <3> QED BY <1>2, <3>1, <3>2 DEF UnlockRuns, CompareAndDelete
    <2>9. HolderOwnsLease'
        BY <2>1, <2>8 DEF HolderOwnsLease
    <2> QED BY <2>4, <2>5, <2>7, <2>9
<1>3. ASSUME NEW cmd \in wire, CommandLost(cmd) PROVE LeaseInv'
    BY <1>3 DEF CommandLost, localVars, RecordsOwn, CallsLeft, TokensMade, UnlocksAreLate, HolderOwnsLease, Holds
<1>4. CASE LeaseExpires
    BY <1>4 DEF LeaseExpires, localVars, RecordsOwn, CallsLeft, TokensMade, UnlocksAreLate, HolderOwnsLease, Holds
<1>5. ASSUME NEW p \in Processes, Crash(p) PROVE LeaseInv'
    <2>1. \A u \in wire : u.token[1] \in Callers
        BY DEF Commands, Tokens
    <2>2. RecordsOwn' /\ CallsLeft' /\ HolderOwnsLease' /\ TokensMade'
        BY <1>5 DEF Crash, redisVars, RecordsOwn, CallsLeft, HolderOwnsLease, Holds, TokensMade
    <2>3. UnlocksAreLate'
        BY <1>5, <2>1 DEF Crash, redisVars, UnlocksAreLate
    <2> QED BY <2>2, <2>3
<1> QED BY <1>1, <1>2, <1>3, <1>4, <1>5 DEF RedisStep

--------------------------------------------------------------------------------
(* The theorems *)

\* The initial state satisfies the inductive invariant.
LEMMA InitIInv == Init => IInv
<1> SUFFICES ASSUME Init PROVE IInv
    OBVIOUS
<1> USE LockAssumption DEF Init
<1>1. free \in [Gates -> BOOLEAN]
    BY Zenon
<1>2. TypeOK
    BY <1>1 DEF TypeOK, Labels, Tokens
<1>3. GateShape /\ GatesDistinct /\ RefsExact /\ GateClosed /\ OneInsidePerProcess
    BY DEF GateShape, GatesDistinct, RefsExact, GateClosed, OneInsidePerProcess, Inside
<1>4. LeaseInv
    BY DEF LeaseInv, RecordsOwn, TokensMade, UnlocksAreLate, HolderOwnsLease, CallsLeft, Holds
<1> QED BY <1>2, <1>3, <1>4 DEF IInv, GateInv

\* Every step preserves the inductive invariant.
LEMMA NextIInv == IInv /\ [Next]_vars => IInv'
<1> SUFFICES ASSUME IInv, [Next]_vars PROVE IInv'
    OBVIOUS
<1>1. CASE Next
    <2>1. TypeOK'
        BY <1>1, StepTypes
    <2>2. GateInv
        BY DEF IInv
    <2>3. ASSUME NEW c \in Callers, LockStep(c) PROVE IInv'
        <3>1. LeaseInv'
            BY <2>3, LockStepLease
        <3>2. CASE LockBegins(c)
            BY <3>1, <3>2, <2>1, <2>2, LockBeginsGates DEF IInv
        <3>3. CASE GateTaken(c)
            BY <3>1, <3>3, <2>1, <2>2, GateTakenGates DEF IInv
        <3>4. CASE GateTimesOut(c)
            <4>1. GateInv'
                BY <3>4, <2>1, <2>2, DropReference DEF GateTimesOut
            <4> QED BY <3>1, <4>1 DEF IInv
        <3>5. CASE GateReleased(c)
            BY <3>1, <3>5, <2>1, <2>2, GateReleasedGates DEF IInv
        <3>6. CASE GateLeft(c)
            <4>1. GateInv'
                BY <3>6, <2>1, <2>2, DropReference DEF GateLeft
            <4> QED BY <3>1, <4>1 DEF IInv
        <3>7. CASE SetNXSent(c) \/ LockFails(c) \/ OwnerRecorded(c) \/ UnlockTakes(c) \/ UnlockSent(c) \/ UnlockFails(c)
            <4>1. /\ Inside(c) /\ Inside(c)' /\ (\A d \in Callers : d # c => pc'[d] = pc[d])
                  /\ UNCHANGED <<gate, registry, free, refs>>
                BY <3>7, <2>2 DEF SetNXSent, LockFails, OwnerRecorded, UnlockTakes, UnlockSent, UnlockFails,
                    Goto, Inside, GateInv, TypeOK
            <4>2. GateInv'
                BY <4>1, <2>1, <2>2, MoveInside
            <4> QED BY <3>1, <4>2 DEF IInv
        <3> QED BY <2>3, <3>2, <3>3, <3>4, <3>5, <3>6, <3>7 DEF LockStep
    <2>4. CASE RedisStep
        <3>1. LeaseInv'
            BY <2>4, OtherStepLease
        <3>2. CASE UNCHANGED <<pc, gate, registry, free, refs>>
            BY <3>1, <3>2, <2>1, <2>2 DEF IInv, GateInv, GateShape, GatesDistinct, RefsExact, Users,
                GateClosed, OneInsidePerProcess, Inside
        <3>3. ASSUME NEW c \in Callers, Inside(c), Inside(c)', \A d \in Callers : d # c => pc'[d] = pc[d],
                     UNCHANGED <<gate, registry, free, refs>>
              PROVE  IInv'
            BY <3>1, <3>3, <2>1, <2>2, MoveInside DEF IInv
        <3>4. ASSUME NEW cmd \in wire, SetNXRuns(cmd) \/ UnlockRuns(cmd) PROVE IInv'
            <4>1. cmd.token[1] \in Callers
                BY <2>2 DEF GateInv, TypeOK, Commands, Tokens
            <4>2. UNCHANGED <<gate, registry, free, refs>>
                BY <3>4 DEF SetNXRuns, UnlockRuns
            <4>3. \/ UNCHANGED pc
                  \/ /\ Inside(cmd.token[1]) /\ Inside(cmd.token[1])'
                     /\ \A d \in Callers : d # cmd.token[1] => pc'[d] = pc[d]
                BY <3>4, <4>1, <2>2 DEF SetNXRuns, UnlockRuns, Inside, Goto, GateInv, TypeOK
            <4> QED BY <4>1, <4>2, <4>3, <3>2, <3>3
        <3> QED BY <2>4, <3>2, <3>4 DEF RedisStep, CommandLost, LeaseExpires, localVars
    <2>5. ASSUME NEW p \in Processes, Crash(p) PROVE IInv'
        <3>1. LeaseInv'
            BY <2>5, OtherStepLease
        <3>2. GateInv'
            BY <2>5, <2>1, <2>2, CrashGates
        <3> QED BY <3>1, <3>2 DEF IInv
    <2> QED BY <1>1, <2>3, <2>4, <2>5 DEF Next
<1>2. CASE UNCHANGED vars
    <2> USE <1>2 DEF vars, localVars, redisVars
    <2>1. TypeOK'
        BY DEF IInv, GateInv, TypeOK
    <2>5. GateShape' /\ GatesDistinct'
        BY DEF IInv, GateInv, GateShape, GatesDistinct
    <2>6. RefsExact'
        <3>1. \A p \in Processes : Users(p)' = Users(p)
            BY DEF Users
        <3> QED BY <3>1 DEF IInv, GateInv, RefsExact
    <2>2. GateClosed' /\ OneInsidePerProcess'
        BY DEF IInv, GateInv, GateClosed, OneInsidePerProcess, Inside
    <2>3. RecordsOwn' /\ CallsLeft' /\ TokensMade'
        BY DEF IInv, LeaseInv, RecordsOwn, CallsLeft, TokensMade, Token
    <2>4. UnlocksAreLate' /\ HolderOwnsLease'
        BY DEF IInv, LeaseInv, UnlocksAreLate, HolderOwnsLease, Holds, Token
    <2> QED BY <2>1, <2>2, <2>3, <2>4, <2>5, <2>6 DEF IInv, GateInv, LeaseInv
<1> QED BY <1>1, <1>2

\* The inductive invariant holds in every reachable state.
LEMMA Inductive == Spec => []IInv
<1> QED BY InitIInv, NextIInv, PTL DEF Spec

\* The lock's state is always well typed.
THEOREM TypeCorrect == Spec => []TypeOK
<1>1. IInv => TypeOK
    BY DEF IInv, GateInv
<1> QED BY <1>1, Inductive, PTL

\* A caller that Lock told it owns the key owns it until its lease runs out.
THEOREM LeaseTheorem == Spec => []HolderOwnsLease
<1>1. IInv => HolderOwnsLease
    BY DEF IInv, LeaseInv
<1> QED BY <1>1, Inductive, PTL

\* One goroutine per process is between Lock and Unlock.
THEOREM GateTheorem == Spec => []OneInsidePerProcess
<1>1. IInv => OneInsidePerProcess
    BY DEF IInv, GateInv
<1> QED BY <1>1, Inductive, PTL

\* Unlock takes its own record from the owners map.
THEOREM RecordTheorem == Spec => []UnlockFindsOwnRecord
<1>1. IInv => UnlockFindsOwnRecord
    BY LockAssumption DEF IInv, LeaseInv, RecordsOwn, UnlockFindsOwnRecord
<1> QED BY <1>1, Inductive, PTL

\* The registry holds a gate exactly while a goroutine of the process uses one.
THEOREM ReclaimTheorem == Spec => []GatesReclaimed
<1>1. ASSUME IInv, NEW p \in Processes
      PROVE  registry[p] = NoGate <=> \A c \in Callers : Home[c] = p => pc[c] = "idle"
    BY <1>1, LockAssumption DEF IInv, GateInv, GateShape, RefsExact, Users
<1>2. IInv => GatesReclaimed
    BY <1>1 DEF GatesReclaimed
<1> QED BY <1>2, Inductive, PTL

\* A lease is never replaced by another one in a single step.
LEMMA LeaseSteps ==
    ASSUME IInv, [Next]_vars, lease # NoToken
    PROVE  lease' \in {lease, NoToken}
<1> USE DEF vars, localVars, redisVars
<1>1. ASSUME NEW c \in Callers, LockStep(c) PROVE lease' = lease
    BY <1>1 DEF LockStep, LockBegins, GateTaken, GateTimesOut, GateReleased, GateLeft, SetNXSent, LockFails,
        OwnerRecorded, UnlockTakes, UnlockSent, UnlockFails
<1>2. CASE RedisStep
    BY <1>2 DEF RedisStep, SetNXRuns, UnlockRuns, CompareAndDelete, CommandLost, LeaseExpires
<1>3. ASSUME NEW p \in Processes, Crash(p) PROVE lease' = lease
    BY <1>3 DEF Crash
<1> QED BY <1>1, <1>2, <1>3 DEF Next

\* The lock with gates, tokens and late commands implements an exclusive lease.
THEOREM LockImplementsLease == Spec => ImplementsLease
<1>1. Init => Lease!LockInit
    BY DEF Init, Lease!LockInit, Current, Holds
<1>2. IInv /\ IInv' /\ [Next]_vars => [Lease!LockNext]_Current
    <2> SUFFICES ASSUME IInv, IInv', [Next]_vars, Current' # {}
                 PROVE  Current' = Current \/ (\E c \in Callers : Lease!Acquire(c))
        BY DEF Lease!LockNext, Lease!GiveUp
    <2>1. PICK c \in Callers : c \in Current'
        BY DEF Current
    <2>2. lease' = Token(c)' /\ \A d \in Current' : d \in Callers /\ lease' = Token(d)'
        BY <2>1 DEF IInv, LeaseInv, HolderOwnsLease, Current
    <2>3. Current' = {c}
        BY <2>1, <2>2 DEF Token
    <2>4. \A d \in Current : d = c
        <3> SUFFICES ASSUME NEW d \in Current PROVE d = c
            OBVIOUS
        <3>1. d \in Callers /\ lease = Token(d)
            BY DEF IInv, LeaseInv, HolderOwnsLease, Current
        <3>2. lease # NoToken /\ Token(c)' # NoToken
            BY <3>1, LockAssumption DEF IInv, GateInv, TypeOK, Token
        <3>3. lease' = lease
            BY <3>2, <2>2, LeaseSteps
        <3> QED BY <3>1, <3>3, <2>2 DEF Token
    <2>5. Current = {} \/ Current = {c}
        BY <2>4
    <2> QED BY <2>3, <2>5 DEF Lease!Acquire
<1> QED BY <1>1, <1>2, Inductive, PTL DEF Spec, ImplementsLease, Lease!LockSpec
================================================================================
