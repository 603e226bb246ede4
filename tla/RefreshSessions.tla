---------------------------- MODULE RefreshSessions ----------------------------
(***************************************************************************)
(* The Redis store of refresh-token families, shared by several processes. *)
(* Each operation is one Lua script, executed atomically by Redis, but the *)
(* caller reads its clock before it sends the command: `now' may be old    *)
(* when the script runs, and a command whose answer is lost is sent again. *)
(* Keys live for a duration counted from the script's execution.           *)
(*                                                                         *)
(* Token n of family f is written n: token 1 is issued by Start, and each  *)
(* Rotate call brings the next number, whether it is accepted or not.      *)
(***************************************************************************)
EXTENDS Integers, FiniteSets

CONSTANTS
    Families, Users,
    NoFamily,
    RefreshTTL, AbsoluteTTL, MaxFamilies,
    MaxHistory,    \* maxSessionTokensPerFamily
    MaxInventory,  \* maxRefreshSessionFamilyInventory
    MaxToken,      \* bound: token numbers per family
    MaxClock,      \* bound: the clock
    MaxWire,       \* bound: commands under way
    MaxDelay       \* the operation timeout: how long a command is under way

Tokens == 1 .. MaxToken
Horizon == MaxClock + AbsoluteTTL

\* A family hash, and the time Redis removes it.
Hash == [absolute : 1 .. Horizon, expires : 1 .. Horizon, current : Tokens,
         revoked : BOOLEAN, dies : 1 .. Horizon + MaxDelay]

ASSUME SessionAssumption ==
    /\ RefreshTTL \in Nat \ {0} /\ AbsoluteTTL \in Nat /\ AbsoluteTTL >= RefreshTTL
    /\ MaxInventory \in Nat /\ MaxFamilies \in 1 .. MaxInventory
    /\ MaxHistory \in Nat \ {0} /\ MaxToken \in Nat \ {0} /\ MaxClock \in Nat /\ MaxWire \in Nat
    /\ MaxDelay \in Nat /\ MaxDelay < AbsoluteTTL
    /\ NoFamily \notin Families \cup Hash

VARIABLES
    clock,    \* the time all processes and Redis agree on
    wire,     \* commands sent and not yet answered
    issued,   \* per family, the last token number generated for it
    owner,    \* per family, the user it was started for
    held,     \* tokens returned to a client, by family
    family,   \* Redis: the family hash and the time it dies
    used,     \* Redis: the family's used tokens and the time they die
    token,    \* Redis: per family and token, the time its mapping dies
    userIndex, familyIndex,  \* Redis: scores of the two sorted sets
    latest,   \* history: per family, the token last put in place, 0 if none
    spent,    \* history: per family, the tokens that were exchanged
    stolen,   \* history: families for which a replay was detected
    banned    \* history: families that existed when RevokeUser returned

redisVars == <<family, used, token, userIndex, familyIndex>>
historyVars == <<latest, spent, stolen, banned>>
vars == <<clock, wire, issued, owner, held, redisVars, historyVars>>

Commands ==
    [op : {"create", "rotate", "revokeFamily"}, f : Families, old : 0 .. MaxToken, new : 0 .. MaxToken,
     now : 0 .. MaxClock]
    \cup [op : {"revokeUser", "active"}, u : Users, now : 0 .. MaxClock]

\* What the variables hold.
TypeOK ==
    /\ clock \in 0 .. MaxClock
    /\ wire \in SUBSET Commands
    /\ issued \in [Families -> 0 .. MaxToken]
    /\ owner \in [Families -> Users \cup {NoFamily}]
    /\ held \in [Families -> SUBSET Tokens]
    /\ family \in [Families -> Hash \cup {NoFamily}]
    /\ used \in [Families -> [tokens : SUBSET Tokens, dies : 0 .. Horizon + MaxDelay]]
    /\ token \in [Families -> [Tokens -> 0 .. Horizon + MaxDelay]]
    /\ userIndex \in [Families -> 0 .. Horizon]
    /\ familyIndex \in [Families -> 0 .. Horizon]
    /\ latest \in [Families -> 0 .. MaxToken] /\ spent \in [Families -> SUBSET Tokens]
    /\ stolen \in SUBSET Families
    /\ banned \in SUBSET Families

NothingUsed == [tokens |-> {}, dies |-> 0]

Init ==
    /\ clock = 0 /\ wire = {}
    /\ issued = [f \in Families |-> 0]
    /\ owner = [f \in Families |-> NoFamily]
    /\ held = [f \in Families |-> {}]
    /\ family = [f \in Families |-> NoFamily]
    /\ used = [f \in Families |-> NothingUsed]
    /\ token = [f \in Families |-> [n \in Tokens |-> 0]]
    /\ userIndex = [f \in Families |-> 0]
    /\ familyIndex = [f \in Families |-> 0]
    /\ latest = [f \in Families |-> 0] /\ spent = [f \in Families |-> {}]
    /\ stolen = {} /\ banned = {}

-----------------------------------------------------------------------------
(* Calls of a SessionManager: the clock is read, the command is sent.        *)

Send(c) == Cardinality(wire) < MaxWire /\ wire' = wire \cup {c}

Start(u, f) ==
    /\ issued[f] = 0
    /\ issued' = [issued EXCEPT ![f] = 1]
    /\ owner' = [owner EXCEPT ![f] = u]
    /\ Send([op |-> "create", f |-> f, old |-> 0, new |-> 1, now |-> clock])
    /\ UNCHANGED <<clock, held, redisVars, historyVars>>

\* Anyone who was ever given a token may present it, again and again.
Rotate(f, n) ==
    /\ n \in held[f] /\ issued[f] < MaxToken
    /\ issued' = [issued EXCEPT ![f] = @ + 1]
    /\ Send([op |-> "rotate", f |-> f, old |-> n, new |-> issued[f] + 1, now |-> clock])
    /\ UNCHANGED <<clock, owner, held, redisVars, historyVars>>

RevokeFamily(f, n) ==
    /\ n \in held[f]
    /\ Send([op |-> "revokeFamily", f |-> f, old |-> n, new |-> 0, now |-> clock])
    /\ UNCHANGED <<clock, issued, owner, held, redisVars, historyVars>>

RevokeUser(u) ==
    /\ Send([op |-> "revokeUser", u |-> u, now |-> clock])
    /\ UNCHANGED <<clock, issued, owner, held, redisVars, historyVars>>

ActiveFamilies(u) ==
    /\ Send([op |-> "active", u |-> u, now |-> clock])
    /\ UNCHANGED <<clock, issued, owner, held, redisVars, historyVars>>

\* A script ran and its caller has the answer, or the answer was lost and the
\* client library sends the command again.
Answered(c) == wire' = wire \ {c}
Resent == UNCHANGED wire

\* The caller gives up; the command does not reach Redis any more.
Abandon(c) ==
    /\ wire' = wire \ {c}
    /\ UNCHANGED <<clock, issued, owner, held, redisVars, historyVars>>

-----------------------------------------------------------------------------
(* createSessionScript                                                       *)

\* Fault: the limit is exceeded by one.
OverLimitByOne(index) == Cardinality({f \in Families : index[f] > 0}) > MaxFamilies

OverLimit(index) == Cardinality({f \in Families : index[f] > 0}) >= MaxFamilies

\* ZREMRANGEBYSCORE -inf now
Pruned(now) == [f \in Families |-> IF familyIndex[f] <= now THEN 0 ELSE familyIndex[f]]

CreateRefused(c) ==
    /\ c.op = "create"
    /\ OverLimit(Pruned(c.now)) \/ family[c.f] # NoFamily
    /\ familyIndex' = Pruned(c.now)
    /\ Answered(c) \/ Resent
    /\ UNCHANGED <<clock, issued, owner, held, family, used, token, userIndex, historyVars>>

CreateSession(c) ==
    LET absolute == c.now + AbsoluteTTL IN
    /\ c.op = "create"
    /\ ~OverLimit(Pruned(c.now)) /\ family[c.f] = NoFamily
    /\ family' = [family EXCEPT ![c.f] =
          [absolute |-> absolute, expires |-> c.now + RefreshTTL, current |-> 1,
           revoked |-> FALSE, dies |-> clock + AbsoluteTTL]]
    /\ token' = [token EXCEPT ![c.f][1] = clock + AbsoluteTTL]
    /\ userIndex' = [userIndex EXCEPT ![c.f] = absolute]
    /\ familyIndex' = [Pruned(c.now) EXCEPT ![c.f] = absolute]
    /\ latest' = [latest EXCEPT ![c.f] = 1]
    /\ \/ Answered(c) /\ held' = [held EXCEPT ![c.f] = @ \cup {1}]
       \/ Resent /\ UNCHANGED held
    /\ UNCHANGED <<clock, issued, owner, used, spent, stolen, banned>>

-----------------------------------------------------------------------------
(* rotateSessionScript and revokeSessionFamilyScript look up the family of a *)
(* token and test that its records agree.                                    *)

Indexed(f) == familyIndex[f] = family[f].absolute /\ userIndex[f] = family[f].absolute

Mapped(f) ==
    /\ family[f].current \notin used[f].tokens
    /\ \A n \in used[f].tokens \cup {family[f].current} : token[f][n] > 0

\* The token leads to a family that has not ended.
Open(f, n, now) ==
    /\ token[f][n] > 0 /\ family[f] # NoFamily
    /\ Cardinality(used[f].tokens) <= MaxHistory /\ Mapped(f)
    /\ n \in used[f].tokens \cup {family[f].current}
    /\ family[f].absolute > now /\ Indexed(f)
    /\ ~family[f].revoked

Revoke(fs) ==
    family' = [f \in Families |-> IF f \in fs THEN [family[f] EXCEPT !.revoked = TRUE] ELSE family[f]]

\* Unknown, expired or revoked: nothing changes.
RotateRefused(c) ==
    /\ c.op \in {"rotate", "revokeFamily"} /\ ~Open(c.f, c.old, c.now)
    /\ Answered(c) \/ Resent
    /\ UNCHANGED <<clock, issued, owner, held, redisVars, historyVars>>

\* Fault: a replayed token is refused but its family goes on.
RotateReusedOnly(c) ==
    /\ c.op = "rotate" /\ Open(c.f, c.old, c.now) /\ c.old # family[c.f].current
    /\ stolen' = stolen \cup {c.f}
    /\ Answered(c) \/ Resent
    /\ UNCHANGED <<clock, issued, owner, held, redisVars, latest, spent, banned>>

\* A used token is presented again: the family is revoked.
RotateReused(c) ==
    /\ c.op = "rotate" /\ Open(c.f, c.old, c.now) /\ c.old # family[c.f].current
    /\ Revoke({c.f})
    /\ stolen' = stolen \cup {c.f}
    /\ Answered(c) \/ Resent
    /\ UNCHANGED <<clock, issued, owner, held, used, token, userIndex, familyIndex, latest, spent, banned>>

\* The current token has expired, or the history is full.
RotateEnds(c) ==
    /\ c.op = "rotate" /\ Open(c.f, c.old, c.now) /\ c.old = family[c.f].current
    /\ \/ family[c.f].expires <= c.now
       \/ Cardinality(used[c.f].tokens) >= MaxHistory
    /\ Revoke({c.f})
    /\ Answered(c) \/ Resent
    /\ UNCHANGED <<clock, issued, owner, held, used, token, userIndex, familyIndex, historyVars>>

\* Fault: the new token's mapping lives only as long as the token.
MappingDiesWithToken(c) == clock + RefreshTTL

MappingDies(c) == clock + family[c.f].absolute - c.now

\* Fault: every token of the family is exchanged, not only the current one.
AcceptsAny(c) == c.old \in used[c.f].tokens \cup {family[c.f].current}

AcceptsOnlyCurrent(c) == c.old = family[c.f].current

RotateSession(c) ==
    /\ c.op = "rotate" /\ Open(c.f, c.old, c.now) /\ AcceptsOnlyCurrent(c)
    /\ family[c.f].expires > c.now
    /\ Cardinality(used[c.f].tokens) < MaxHistory
    /\ token[c.f][c.new] = 0
    /\ used' = [used EXCEPT ![c.f] =
          [tokens |-> @.tokens \cup {c.old}, dies |-> clock + family[c.f].absolute - c.now]]
    /\ family' = [family EXCEPT ![c.f].current = c.new,
                                ![c.f].expires = IF c.now + RefreshTTL > family[c.f].absolute
                                                   THEN family[c.f].absolute ELSE c.now + RefreshTTL]
    /\ token' = [token EXCEPT ![c.f][c.new] = MappingDies(c)]
    /\ latest' = [latest EXCEPT ![c.f] = c.new]
    /\ spent' = [spent EXCEPT ![c.f] = @ \cup {c.old}]
    /\ \/ Answered(c) /\ held' = [held EXCEPT ![c.f] = @ \cup {c.new}]
       \/ Resent /\ UNCHANGED held
    /\ UNCHANGED <<clock, issued, owner, userIndex, familyIndex, stolen, banned>>

RevokeSessionFamily(c) ==
    /\ c.op = "revokeFamily" /\ Open(c.f, c.old, c.now)
    /\ Revoke({c.f})
    /\ Answered(c) \/ Resent
    /\ UNCHANGED <<clock, issued, owner, held, used, token, userIndex, familyIndex, historyVars>>

-----------------------------------------------------------------------------
(* revokeSessionUserScript and activeSessionFamiliesScript walk the user's   *)
(* index, refuse it as a whole when an entry does not agree with its family, *)
(* and remove the entries of families that are gone or have expired.         *)

Listed(u) == {f \in Families : owner[f] = u /\ userIndex[f] > 0}
Existing(fs) == {f \in fs : family[f] # NoFamily}

Agrees(f, now) ==
    /\ userIndex[f] = family[f].absolute
    /\ family[f].absolute > now => familyIndex[f] = family[f].absolute

Readable(u, now) ==
    /\ Cardinality(Listed(u)) <= MaxInventory
    /\ \A f \in Existing(Listed(u)) : Agrees(f, now)

Over(f, now) == family[f] = NoFamily \/ family[f].absolute <= now

Dropped(index, u, now) ==
    [f \in Families |-> IF f \in Listed(u) /\ Over(f, now) THEN 0 ELSE index[f]]

ActiveIn(u, now) == {f \in Listed(u) : ~Over(f, now) /\ ~family[f].revoked /\ family[f].expires > now}

\* RevokeUser returned to its caller, whatever it found.
Bans(u) == banned' = banned \cup Existing({f \in Families : owner[f] = u})

\* The script refuses; SessionManager.RevokeUser answers 0.
RevokeUserRefused(c) ==
    /\ c.op = "revokeUser" /\ ~Readable(c.u, c.now)
    /\ (Answered(c) /\ Bans(c.u)) \/ (Resent /\ UNCHANGED banned)
    /\ UNCHANGED <<clock, issued, owner, held, redisVars, latest, spent, stolen>>

RevokeSessionUser(c) ==
    /\ c.op = "revokeUser" /\ Readable(c.u, c.now)
    /\ Revoke(ActiveIn(c.u, c.now))
    /\ userIndex' = Dropped(userIndex, c.u, c.now)
    /\ familyIndex' = Dropped(familyIndex, c.u, c.now)
    /\ (Answered(c) /\ Bans(c.u)) \/ (Resent /\ UNCHANGED banned)
    /\ UNCHANGED <<clock, issued, owner, held, used, token, latest, spent, stolen>>

ActiveSessionFamilies(c) ==
    /\ c.op = "active"
    /\ IF Readable(c.u, c.now)
         THEN /\ userIndex' = Dropped(userIndex, c.u, c.now)
              /\ familyIndex' = Dropped(familyIndex, c.u, c.now)
         ELSE UNCHANGED <<userIndex, familyIndex>>
    /\ Answered(c) \/ Resent
    /\ UNCHANGED <<clock, issued, owner, held, family, used, token, historyVars>>

\* Commands whose operation context has not expired.
Timely == {c \in wire : clock - c.now <= MaxDelay}

Script(c) ==
    \/ CreateRefused(c) \/ CreateSession(c)
    \/ RotateRefused(c) \/ RotateReused(c) \/ RotateEnds(c) \/ RotateSession(c)
    \/ RevokeSessionFamily(c)
    \/ RevokeUserRefused(c) \/ RevokeSessionUser(c) \/ ActiveSessionFamilies(c)

-----------------------------------------------------------------------------

\* Time passes and Redis removes the keys whose time is over.
Tick ==
    /\ clock < MaxClock /\ clock' = clock + 1
    /\ family' = [f \in Families |->
          IF family[f] # NoFamily /\ family[f].dies <= clock' THEN NoFamily ELSE family[f]]
    /\ used' = [f \in Families |-> IF used[f].dies <= clock' THEN NothingUsed ELSE used[f]]
    /\ token' = [f \in Families |-> [n \in Tokens |-> IF token[f][n] <= clock' THEN 0 ELSE token[f][n]]]
    /\ UNCHANGED <<wire, issued, owner, held, userIndex, familyIndex, historyVars>>

Call ==
    \/ \E u \in Users : (\E f \in Families : Start(u, f)) \/ RevokeUser(u) \/ ActiveFamilies(u)
    \/ \E f \in Families, n \in Tokens : Rotate(f, n) \/ RevokeFamily(f, n)

Next ==
    \/ Call
    \/ \E c \in Timely : Script(c)
    \/ \E c \in wire : Abandon(c)
    \/ Tick

Spec == Init /\ [][Next]_vars

-----------------------------------------------------------------------------
(* Properties.                                                               *)

(* A replay that was detected ends its family for good: neither the replayed *)
(* token nor the one that replaced it, held by whoever came first, is        *)
(* exchanged afterwards.                                                     *)
TheftEndsFamily == \A f \in stolen : family[f] = NoFamily \/ family[f].revoked

(* The families that have not reached their absolute end are never more than *)
(* the configured maximum, although expired entries are only removed on the  *)
(* way and by calls whose clock reading is old.                              *)
LiveFamiliesBounded ==
    Cardinality({f \in Families : family[f] # NoFamily /\ family[f].absolute > clock}) <= MaxFamilies

(* The integrity tests of the scripts never reject a store that only the     *)
(* scripts have written: until its absolute end a family is in both indexes  *)
(* with its own score and every token it ever had still leads to it.         *)
StoreStaysIntact ==
    \A f \in Families : family[f] # NoFamily /\ family[f].absolute > clock =>
        Indexed(f) /\ Mapped(f) /\ family[f].expires <= family[f].absolute

(* RevokeUser revokes all active families of the user: none that existed     *)
(* when it returned is, or becomes, active afterwards.                       *)
RevokedUserStaysOut ==
    \A f \in banned : family[f] = NoFamily \/ family[f].revoked \/ family[f].expires <= clock

(* The store implements single-use chains of tokens.                         *)
Sessions == INSTANCE SessionFamilies WITH
    live <- {f \in Families : family[f] # NoFamily /\ ~family[f].revoked},
    over <- {f \in Families : latest[f] # 0 /\ (family[f] # NoFamily => family[f].revoked)},
    current <- latest
ImplementsFamilies == Sessions!FamiliesSpec
================================================================================
