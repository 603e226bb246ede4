----------------------- MODULE RefreshSessionsProofs ------------------------
(***************************************************************************)
(* Proofs about the refresh-token families, for any families, users, times *)
(* to live and limits.  The inductive invariant rests on what a command on *)
(* the wire can still do: a create can not bring back a family that was    *)
(* there, since it is given up before the family dies; and a rotation that *)
(* brings a token which was already put in place brings an old token that  *)
(* was already spent.                                                      *)
(***************************************************************************)
EXTENDS RefreshSessions, FiniteSetTheorems, TLAPS

\* The tokens that were ever put in place.
Seen(f) == spent[f] \cup {latest[f]}

\* What a command under way can still do.
Harmless(c) ==
    /\ c.now <= clock
    /\ c.op = "create" =>
          /\ c.old = 0 /\ c.new = 1 /\ issued[c.f] >= 1
          /\ latest[c.f] # 0 =>
                IF family[c.f] = NoFamily THEN clock - c.now > MaxDelay
                ELSE family[c.f].dies >= c.now + AbsoluteTTL
    /\ c.op = "rotate" =>
          /\ c.old \in Tokens /\ c.new \in Tokens /\ c.new <= issued[c.f] /\ latest[c.f] # 0
          /\ c.new \in Seen(c.f) => c.old \in spent[c.f]

WireInv ==
    /\ \A c \in wire : Harmless(c)
    /\ \A c, d \in wire : c.op = "rotate" /\ d.op = "rotate" /\ c.f = d.f /\ c.new = d.new => c = d

\* A family and its history.
Honest(f) ==
    /\ \A n \in Seen(f) : n <= issued[f]
    /\ latest[f] \notin spent[f]
    /\ latest[f] = 0 => spent[f] = {} /\ held[f] = {} /\ used[f].tokens = {} /\ family[f] = NoFamily
    /\ f \in stolen => latest[f] # 0 /\ (family[f] = NoFamily \/ family[f].revoked)
    /\ family[f] # NoFamily => family[f].current = latest[f] /\ family[f].expires <= family[f].absolute

\* Until its absolute end a family is indexed and its tokens lead to it.
Intact(f) ==
    family[f] # NoFamily /\ family[f].absolute > clock =>
        /\ Indexed(f) /\ family[f].current \notin used[f].tokens
        /\ \A n \in used[f].tokens \cup {family[f].current} : token[f][n] >= family[f].absolute

IndexedFamilies == {f \in Families : familyIndex[f] > 0}

SessionInv ==
    /\ WireInv
    /\ \A f \in Families : Honest(f) /\ Intact(f)
    /\ IsFiniteSet(IndexedFamilies)
    /\ LiveFamiliesBounded
-----------------------------------------------------------------------------
(* Commands and times *)

LEMMA CommandFacts ==
  ASSUME NEW c \in Commands
  PROVE  /\ c.now \in 0 .. MaxClock
         /\ c.op \in {"create", "rotate", "revokeFamily", "revokeUser", "active"}
         /\ c.op \in {"create", "rotate", "revokeFamily"} =>
               c.f \in Families /\ c.old \in 0 .. MaxToken /\ c.new \in 0 .. MaxToken
         /\ c.op \in {"revokeUser", "active"} => c.u \in Users
BY DEF Commands

LEMMA HashFacts ==
  ASSUME TypeOK, NEW f \in Families, family[f] # NoFamily
  PROVE  /\ family[f] \in Hash
         /\ family[f].absolute \in 1 .. Horizon /\ family[f].expires \in 1 .. Horizon
         /\ family[f].current \in Tokens /\ family[f].dies \in 1 .. Horizon + MaxDelay
         /\ family[f].revoked \in BOOLEAN
BY DEF TypeOK, Hash

LEMMA Bounds ==
  /\ RefreshTTL \in Nat /\ RefreshTTL > 0 /\ AbsoluteTTL \in Nat /\ AbsoluteTTL >= RefreshTTL
  /\ MaxToken \in Nat /\ MaxToken > 0 /\ MaxClock \in Nat /\ MaxDelay \in Nat /\ MaxDelay < AbsoluteTTL
  /\ Horizon \in Nat /\ Horizon = MaxClock + AbsoluteTTL
  /\ MaxFamilies \in Nat /\ MaxFamilies >= 1
BY SessionAssumption DEF Horizon

\* Revoking changes the flag only.
LEMMA RevokeFacts ==
  ASSUME TypeOK, NEW fs \in SUBSET Families, \A f \in fs : family[f] # NoFamily, Revoke(fs)
  PROVE  /\ family' \in [Families -> Hash \cup {NoFamily}]
         /\ \A f \in Families \ fs : family'[f] = family[f]
         /\ \A f \in fs : /\ family'[f] # NoFamily /\ family'[f].revoked
                          /\ family'[f].absolute = family[f].absolute /\ family'[f].expires = family[f].expires
                          /\ family'[f].current = family[f].current /\ family'[f].dies = family[f].dies
<1>1. ASSUME NEW f \in fs
      PROVE  /\ family'[f] \in Hash /\ family'[f].revoked
             /\ family'[f].absolute = family[f].absolute /\ family'[f].expires = family[f].expires
             /\ family'[f].current = family[f].current /\ family'[f].dies = family[f].dies
  <2>1. family[f] \in Hash
    BY HashFacts
  <2>2. family'[f] = [family[f] EXCEPT !.revoked = TRUE]
    BY DEF Revoke
  <2> QED
    BY <2>1, <2>2 DEF Hash
<1>2. \A f \in Families \ fs : family'[f] = family[f]
  BY DEF Revoke
<1>3. \A f \in Families : family'[f] \in Hash \cup {NoFamily}
  BY <1>1, <1>2 DEF TypeOK
<1>4. family' = [f \in Families |-> family'[f]]
  BY DEF Revoke
<1>5. NoFamily \notin Hash
  BY SessionAssumption
<1> QED
  BY <1>1, <1>2, <1>3, <1>4, <1>5

-----------------------------------------------------------------------------
(* Steps that put no token in place *)

\* What becomes of families in such a step.
Alike(f) ==
    /\ family'[f] = NoFamily <=> family[f] = NoFamily
    /\ family[f] # NoFamily =>
          /\ family'[f].absolute = family[f].absolute /\ family'[f].expires = family[f].expires
          /\ family'[f].current = family[f].current /\ family'[f].dies = family[f].dies
          /\ family[f].revoked => family'[f].revoked

\* An entry of an index is left or, once its family is gone or over, removed.
Entry(f) ==
    \/ familyIndex'[f] = familyIndex[f] /\ userIndex'[f] = userIndex[f]
    \/ /\ family[f] = NoFamily \/ family[f].absolute <= clock
       /\ familyIndex'[f] \in {0, familyIndex[f]}

Preserved == TypeOK' /\ SessionInv'

LEMMA KeptStep ==
  ASSUME TypeOK, SessionInv, wire' \subseteq wire,
         UNCHANGED <<clock, issued, owner, held, used, token, latest, spent>>,
         family' \in [Families -> Hash \cup {NoFamily}], \A f \in Families : Alike(f) /\ Entry(f),
         userIndex' \in [Families -> 0 .. Horizon], familyIndex' \in [Families -> 0 .. Horizon],
         stolen' \in SUBSET Families, banned' \in SUBSET Families,
         \A f \in stolen' \ stolen : family[f] # NoFamily /\ family'[f].revoked
  PROVE  Preserved
<1>1. TypeOK'
  BY DEF TypeOK
<1>2. WireInv'
  <2>1. ASSUME NEW c \in wire' PROVE Harmless(c)'
    <3>1. Harmless(c) /\ c \in Commands
      BY <2>1 DEF SessionInv, WireInv, TypeOK
    <3>2. c.op = "create" => Alike(c.f)
      BY <3>1, CommandFacts
    <3> QED
      BY <3>1, <3>2 DEF Harmless, Seen, Alike
  <2> QED
    BY <2>1 DEF SessionInv, WireInv
<1>3. ASSUME NEW f \in Families PROVE Honest(f)'
  <2>1. Honest(f) /\ Alike(f)
    BY DEF SessionInv
  <2> QED
    BY <2>1 DEF Honest, Seen, Alike
<1>4. ASSUME NEW f \in Families PROVE Intact(f)'
  <2>1. Intact(f) /\ Alike(f) /\ Entry(f)
    BY DEF SessionInv
  <2>2. SUFFICES ASSUME family'[f] # NoFamily, family'[f].absolute > clock
        PROVE  /\ Indexed(f)' /\ family'[f].current \notin used'[f].tokens
               /\ \A n \in used'[f].tokens \cup {family'[f].current} : token'[f][n] >= family'[f].absolute
    BY DEF Intact
  <2>3. family[f] # NoFamily /\ family[f].absolute > clock
    BY <2>1, <2>2 DEF Alike
  <2>4. familyIndex'[f] = familyIndex[f] /\ userIndex'[f] = userIndex[f]
    BY <2>1, <2>3, HashFacts DEF Entry, TypeOK
  <2> QED
    BY <2>1, <2>3, <2>4 DEF Intact, Indexed, Alike
<1>5. IsFiniteSet(IndexedFamilies)'
  <2>1. IndexedFamilies' \subseteq IndexedFamilies
    <3> SUFFICES ASSUME NEW f \in Families, familyIndex'[f] > 0 PROVE familyIndex[f] > 0
      BY DEF IndexedFamilies
    <3> QED
      BY DEF Entry
  <2> QED
    BY <2>1, FS_Subset DEF SessionInv
<1>6. LiveFamiliesBounded'
  <2>1. {f \in Families : family'[f] # NoFamily /\ family'[f].absolute > clock'}
          = {f \in Families : family[f] # NoFamily /\ family[f].absolute > clock}
    BY DEF Alike
  <2> QED
    BY <2>1 DEF SessionInv, LiveFamiliesBounded
<1> QED
  BY <1>1, <1>2, <1>3, <1>4, <1>5, <1>6 DEF SessionInv, Preserved
\* Nothing of the store is touched.
LEMMA UntouchedStep ==
  ASSUME TypeOK, SessionInv, wire' \subseteq wire,
         UNCHANGED <<clock, issued, owner, held, redisVars, latest, spent, stolen>>,
         banned' \in SUBSET Families
  PROVE  Preserved
BY KeptStep DEF redisVars, TypeOK, Alike, Entry

\* Time has passed since the caller read its clock.
LEMMA PastReading == ASSUME SessionInv, NEW c \in wire PROVE c.now <= clock
BY DEF SessionInv, WireInv, Harmless

LEMMA PrunedFacts ==
  ASSUME TypeOK, SessionInv, NEW now \in 0 .. MaxClock, now <= clock
  PROVE  /\ Pruned(now) \in [Families -> 0 .. Horizon]
         /\ \A f \in Families :
               \/ Pruned(now)[f] = familyIndex[f]
               \/ Pruned(now)[f] = 0 /\ (family[f] = NoFamily \/ family[f].absolute <= clock)
<1>1. ASSUME NEW f \in Families, familyIndex[f] <= now PROVE family[f] = NoFamily \/ family[f].absolute <= clock
  <2> SUFFICES ASSUME family[f] # NoFamily, family[f].absolute > clock PROVE FALSE
    BY HashFacts DEF TypeOK
  <2>1. familyIndex[f] = family[f].absolute
    BY DEF SessionInv, Intact, Indexed
  <2> QED
    BY <1>1, <2>1, HashFacts DEF TypeOK
<1>2. \A f \in Families : Pruned(now)[f] \in {0, familyIndex[f]} /\ Pruned(now)[f] \in 0 .. Horizon
  BY Bounds DEF Pruned, TypeOK
<1>3. Pruned(now) \in [Families -> 0 .. Horizon]
  BY <1>2 DEF Pruned
<1>4. \A f \in Families : Pruned(now)[f] = IF familyIndex[f] <= now THEN 0 ELSE familyIndex[f]
  BY DEF Pruned
<1> QED
  BY <1>1, <1>3, <1>4

LEMMA CreateRefusedStep ==
  ASSUME TypeOK, SessionInv, NEW c \in wire, CreateRefused(c)
  PROVE  Preserved
<1>1. c.now \in 0 .. MaxClock /\ c.now <= clock /\ wire' \subseteq wire
  BY CommandFacts, PastReading DEF TypeOK, CreateRefused, Answered, Resent
<1>2. UNCHANGED <<clock, issued, owner, held, family, used, token, userIndex, latest, spent, stolen, banned>>
  BY DEF CreateRefused, historyVars
<1>3. familyIndex' = Pruned(c.now)
  BY DEF CreateRefused
<1>4. /\ familyIndex' \in [Families -> 0 .. Horizon]
      /\ \A f \in Families :
            \/ familyIndex'[f] = familyIndex[f]
            \/ familyIndex'[f] = 0 /\ (family[f] = NoFamily \/ family[f].absolute <= clock)
  BY <1>1, <1>3, PrunedFacts, Zenon
<1>5. \A f \in Families : Alike(f) /\ Entry(f)
  BY <1>2, <1>4 DEF Alike, Entry
<1> QED
  BY <1>1, <1>2, <1>4, <1>5, KeptStep DEF TypeOK

\* A family that is open was started and is neither gone nor revoked.
LEMMA OpenFacts ==
  ASSUME TypeOK, SessionInv, NEW f \in Families, NEW n \in 0 .. MaxToken, NEW now \in 0 .. MaxClock,
         Open(f, n, now)
  PROVE  family[f] # NoFamily /\ ~family[f].revoked /\ latest[f] # 0 /\ family[f].absolute > now
BY DEF Open, SessionInv, Honest

\* The three ways in which a token's family is revoked.
LEMMA RevokingStep ==
  ASSUME TypeOK, SessionInv, NEW c \in wire, RotateReused(c) \/ RotateEnds(c) \/ RevokeSessionFamily(c)
  PROVE  Preserved
<1>1. c.f \in Families /\ c.old \in 0 .. MaxToken /\ c.now \in 0 .. MaxClock
  BY CommandFacts DEF TypeOK, RotateReused, RotateEnds, RevokeSessionFamily
<1>2. Open(c.f, c.old, c.now) /\ Revoke({c.f}) /\ wire' \subseteq wire
  BY DEF RotateReused, RotateEnds, RevokeSessionFamily, Answered, Resent
<1>3. /\ UNCHANGED <<clock, issued, owner, held, used, token, userIndex, familyIndex, latest, spent, banned>>
      /\ stolen' \in {stolen, stolen \cup {c.f}}
  BY DEF RotateReused, RotateEnds, RevokeSessionFamily, historyVars
<1>4. family[c.f] # NoFamily
  BY <1>1, <1>2, OpenFacts
<1>5. /\ family' \in [Families -> Hash \cup {NoFamily}]
      /\ \A f \in Families \ {c.f} : family'[f] = family[f]
      /\ family'[c.f] # NoFamily /\ family'[c.f].revoked
      /\ family'[c.f].absolute = family[c.f].absolute /\ family'[c.f].expires = family[c.f].expires
      /\ family'[c.f].current = family[c.f].current /\ family'[c.f].dies = family[c.f].dies
  BY <1>1, <1>2, <1>4, RevokeFacts
<1>6. \A f \in Families : Alike(f) /\ Entry(f)
  BY <1>3, <1>4, <1>5 DEF Alike, Entry
<1>7. stolen' \in SUBSET Families /\ \A f \in stolen' \ stolen : family[f] # NoFamily /\ family'[f].revoked
  BY <1>1, <1>3, <1>4, <1>5 DEF TypeOK
<1> QED
  BY <1>2, <1>3, <1>5, <1>6, <1>7, KeptStep DEF TypeOK

\* Walking a user's index removes the entries of families that are gone or over.
LEMMA DroppedFacts ==
  ASSUME TypeOK, NEW u \in Users, NEW now \in 0 .. MaxClock, now <= clock
  PROVE  /\ Dropped(userIndex, u, now) \in [Families -> 0 .. Horizon]
         /\ Dropped(familyIndex, u, now) \in [Families -> 0 .. Horizon]
         /\ \A f \in Families :
               \/ /\ Dropped(userIndex, u, now)[f] = userIndex[f]
                  /\ Dropped(familyIndex, u, now)[f] = familyIndex[f]
               \/ /\ family[f] = NoFamily \/ family[f].absolute <= clock
                  /\ Dropped(familyIndex, u, now)[f] \in {0, familyIndex[f]}
<1>1. ASSUME NEW f \in Families, Over(f, now) PROVE family[f] = NoFamily \/ family[f].absolute <= clock
  BY <1>1, HashFacts DEF Over, TypeOK
<1>2. 0 \in 0 .. Horizon
  BY Bounds
<1> QED
  BY <1>1, <1>2 DEF Dropped, TypeOK

LEMMA UserScriptStep ==
  ASSUME TypeOK, SessionInv, NEW c \in wire,
         RevokeUserRefused(c) \/ RevokeSessionUser(c) \/ ActiveSessionFamilies(c)
  PROVE  Preserved
<1>1. c.u \in Users /\ c.now \in 0 .. MaxClock /\ c.now <= clock
  BY CommandFacts, PastReading DEF TypeOK, RevokeUserRefused, RevokeSessionUser, ActiveSessionFamilies
<1>2. wire' \subseteq wire
  BY DEF RevokeUserRefused, RevokeSessionUser, ActiveSessionFamilies, Answered, Resent
<1>3. UNCHANGED <<clock, issued, owner, held, used, token, latest, spent, stolen>>
  BY DEF RevokeUserRefused, RevokeSessionUser, ActiveSessionFamilies, redisVars, historyVars
<1>4. banned' \in SUBSET Families
  BY DEF RevokeUserRefused, RevokeSessionUser, ActiveSessionFamilies, historyVars, Bans, Existing, TypeOK
<1>5. CASE UNCHANGED <<userIndex, familyIndex>>
           /\ (RevokeUserRefused(c) \/ ActiveSessionFamilies(c))
  <2>1. UNCHANGED redisVars
    BY <1>5 DEF RevokeUserRefused, ActiveSessionFamilies, redisVars
  <2> QED
    BY <1>2, <1>3, <1>4, <2>1, UntouchedStep
<1>6. CASE userIndex' = Dropped(userIndex, c.u, c.now) /\ familyIndex' = Dropped(familyIndex, c.u, c.now)
           /\ (RevokeSessionUser(c) \/ ActiveSessionFamilies(c))
  <2>1. /\ userIndex' \in [Families -> 0 .. Horizon] /\ familyIndex' \in [Families -> 0 .. Horizon]
        /\ \A f \in Families : Entry(f)
    BY <1>1, <1>6, DroppedFacts DEF Entry
  <2>2. family' \in [Families -> Hash \cup {NoFamily}] /\ \A f \in Families : Alike(f)
    <3>1. CASE family' = family
      BY <3>1 DEF TypeOK, Alike
    <3>2. CASE RevokeSessionUser(c)
      <4> DEFINE fs == ActiveIn(c.u, c.now)
      <4>1. fs \in SUBSET Families /\ \A f \in fs : family[f] # NoFamily
        BY DEF ActiveIn, Listed, Over
      <4>2. Revoke(fs)
        BY <3>2 DEF RevokeSessionUser
      <4> HIDE DEF fs
      <4>3. /\ family' \in [Families -> Hash \cup {NoFamily}]
            /\ \A f \in Families \ fs : family'[f] = family[f]
            /\ \A f \in fs : /\ family'[f] # NoFamily /\ family'[f].revoked
                             /\ family'[f].absolute = family[f].absolute
                             /\ family'[f].expires = family[f].expires
                             /\ family'[f].current = family[f].current /\ family'[f].dies = family[f].dies
        BY <4>1, <4>2, RevokeFacts
      <4> QED
        BY <4>1, <4>3 DEF Alike
    <3> QED
      BY <1>6, <3>1, <3>2 DEF ActiveSessionFamilies
  <2> QED
    BY <1>2, <1>3, <1>4, <2>1, <2>2, KeptStep DEF TypeOK
<1> QED
  BY <1>5, <1>6 DEF RevokeUserRefused, RevokeSessionUser, ActiveSessionFamilies, redisVars
-----------------------------------------------------------------------------
(* Calls, and the end of time *)

LEMMA CallStep ==
  ASSUME TypeOK, SessionInv, Call
  PROVE  Preserved
<1>1. UNCHANGED <<clock, held, redisVars, historyVars>>
  BY DEF Call, Start, RevokeUser, ActiveFamilies, Rotate, RevokeFamily
<1>2. UNCHANGED <<family, used, token, userIndex, familyIndex, latest, spent, stolen, banned>>
  BY <1>1 DEF redisVars, historyVars
<1>3. ASSUME NEW d \in Commands, wire' = wire \cup {d}, d.op = "rotate" => d.new > issued[d.f],
             owner' \in [Families -> Users \cup {NoFamily}],
             issued' \in [Families -> 0 .. MaxToken], \A f \in Families : issued'[f] >= issued[f],
             Harmless(d)'
      PROVE  Preserved
  <2>1. ASSUME NEW c \in wire PROVE Harmless(c)'
    <3>1. Harmless(c) /\ c \in Commands
      BY DEF SessionInv, WireInv, TypeOK
    <3>2. c.op \in {"create", "rotate"} => issued'[c.f] >= issued[c.f] /\ issued'[c.f] \in Nat /\ issued[c.f] \in Nat
      BY <1>3, <3>1, CommandFacts DEF TypeOK
    <3>3. c.op \in {"create", "rotate"} => c.new \in Nat
      BY <3>1, CommandFacts, Bounds
    <3>4. UNCHANGED <<clock, family, latest, spent>>
      BY <1>1, <1>2
    <3>5. CASE c.op = "create"
      BY <3>1, <3>2, <3>4, <3>5 DEF Harmless
    <3>6. CASE c.op = "rotate"
      <4>1. c.new <= issued'[c.f]
        BY <3>1, <3>2, <3>3, <3>6 DEF Harmless
      <4> QED
        BY <3>1, <3>4, <3>6, <4>1 DEF Harmless, Seen
    <3>7. CASE c.op \notin {"create", "rotate"}
      BY <3>1, <3>4, <3>7 DEF Harmless
    <3> QED
      BY <3>5, <3>6, <3>7
  <2>2. ASSUME NEW c \in wire, c.op = "rotate", d.op = "rotate" PROVE ~(c.f = d.f /\ c.new = d.new)
    <3>1. Harmless(c) /\ c \in Commands
      BY DEF SessionInv, WireInv, TypeOK
    <3>2. c.new <= issued[c.f] /\ c.new \in Nat /\ issued[c.f] \in Nat
      BY <2>2, <3>1, CommandFacts DEF Harmless, TypeOK
    <3>3. d.new > issued[d.f]
      BY <1>3, <2>2
    <3> QED
      BY <3>2, <3>3
  <2>3. WireInv'
    BY <1>3, <2>1, <2>2 DEF SessionInv, WireInv
  <2>4. ASSUME NEW f \in Families PROVE Honest(f)' /\ Intact(f)'
    <3>1. Honest(f) /\ Intact(f)
      BY DEF SessionInv
    <3>2. issued[f] \in Nat /\ issued'[f] \in Nat /\ issued'[f] >= issued[f] /\ Seen(f) \subseteq Nat
      BY <1>3 DEF TypeOK, Seen, Tokens
    <3>3. Honest(f)'
      BY <1>1, <1>2, <3>1, <3>2 DEF Honest, Seen
    <3>4. Intact(f)'
      BY <1>1, <1>2, <3>1 DEF Intact, Indexed
    <3> QED
      BY <3>3, <3>4
  <2>5. IsFiniteSet(IndexedFamilies)' /\ LiveFamiliesBounded'
    BY <1>1, <1>2 DEF SessionInv, IndexedFamilies, LiveFamiliesBounded
  <2>6. TypeOK'
    BY <1>1, <1>2, <1>3 DEF TypeOK
  <2> QED
    BY <2>3, <2>4, <2>5, <2>6 DEF SessionInv, Preserved
<1>4. ASSUME NEW u \in Users, NEW f \in Families, Start(u, f) PROVE Preserved
  <2> PICK d \in Commands : /\ d.op = "create" /\ d.f = f /\ d.old = 0 /\ d.new = 1 /\ d.now = clock
                            /\ wire' = wire \cup {d}
    <3> DEFINE d == [op |-> "create", f |-> f, old |-> 0, new |-> 1, now |-> clock]
    <3>1. d \in Commands
      BY Bounds DEF Commands, TypeOK
    <3> QED
      BY <1>4, <3>1 DEF Start, Send
  <2>1. issued[f] = 0 /\ issued' = [issued EXCEPT ![f] = 1] /\ owner' = [owner EXCEPT ![f] = u]
    BY <1>4 DEF Start
  <2>2. issued' \in [Families -> 0 .. MaxToken] /\ issued'[f] = 1 /\ \A g \in Families : issued'[g] >= issued[g]
    BY <2>1, Bounds DEF TypeOK
  <2>3. latest[f] = 0
    <3>1. latest[f] <= issued[f] /\ latest[f] \in Nat
      BY DEF SessionInv, Honest, Seen, TypeOK
    <3> QED
      BY <2>1, <3>1
  <2>4. Harmless(d)'
    BY <1>1, <1>2, <2>2, <2>3 DEF Harmless, TypeOK
  <2> QED
    BY <1>3, <2>1, <2>2, <2>4 DEF TypeOK
<1>5. ASSUME NEW f \in Families, NEW n \in Tokens, Rotate(f, n) PROVE Preserved
  <2>1. issued[f] \in 0 .. MaxToken /\ issued[f] < MaxToken /\ clock \in 0 .. MaxClock
    BY <1>5 DEF TypeOK, Rotate
  <2> PICK k \in Tokens : k = issued[f] + 1
    BY <2>1, Bounds DEF Tokens
  <2>2. n \in 0 .. MaxToken /\ k \in 0 .. MaxToken
    BY Bounds DEF Tokens
  <2> PICK d \in Commands : /\ d.op = "rotate" /\ d.f = f /\ d.old = n /\ d.new = k /\ d.now = clock
                            /\ wire' = wire \cup {d}
    <3> DEFINE d == [op |-> "rotate", f |-> f, old |-> n, new |-> k, now |-> clock]
    <3>1. d \in Commands
      BY <2>1, <2>2 DEF Commands
    <3> QED
      BY <1>5, <3>1 DEF Rotate, Send
  <2>3. issued' = [issued EXCEPT ![f] = k] /\ owner' = owner
    BY <1>5 DEF Rotate
  <2>4. issued' \in [Families -> 0 .. MaxToken]
    BY <2>2, <2>3 DEF TypeOK
  <2>5. issued'[f] = k /\ \A g \in Families \ {f} : issued'[g] = issued[g]
    BY <2>3 DEF TypeOK
  <2>6. ASSUME NEW g \in Families PROVE issued'[g] >= issued[g]
    <3>1. issued[g] \in Nat
      BY DEF TypeOK
    <3> QED
      BY <2>1, <2>5, <3>1
  <2>7. k \notin Seen(f)
    <3>1. \A m \in Seen(f) : m <= issued[f]
      BY DEF SessionInv, Honest
    <3> QED
      BY <2>1, <3>1
  <2>8. Harmless(d)'
    <3>0. latest[f] # 0
      BY <1>5 DEF Rotate, SessionInv, Honest
    <3>1. d.now <= clock' /\ d.op # "create" /\ d.old \in Tokens /\ d.new \in Tokens /\ d.new <= issued'[d.f]
      BY <1>1, <2>1, <2>2, <2>5, Bounds
    <3>2. d.new \notin Seen(d.f)'
      BY <1>2, <2>7 DEF Seen
    <3> QED
      BY <1>2, <3>0, <3>1, <3>2 DEF Harmless
  <2>9. d.new > issued[d.f]
    BY <2>1
  <2> QED
    BY <1>3, <2>3, <2>4, <2>6, <2>8, <2>9 DEF TypeOK
<1>6. ASSUME NEW f \in Families, NEW n \in Tokens, RevokeFamily(f, n) PROVE Preserved
  <2> PICK d \in Commands : d.op = "revokeFamily" /\ d.now = clock /\ wire' = wire \cup {d}
    <3> DEFINE d == [op |-> "revokeFamily", f |-> f, old |-> n, new |-> 0, now |-> clock]
    <3>1. d \in Commands
      BY Bounds DEF Commands, TypeOK, Tokens
    <3> QED
      BY <1>6, <3>1 DEF RevokeFamily, Send
  <2>1. UNCHANGED <<issued, owner>>
    BY <1>6 DEF RevokeFamily
  <2>2. Harmless(d)'
    BY <1>1 DEF Harmless, TypeOK
  <2>3. issued' \in [Families -> 0 .. MaxToken] /\ \A g \in Families : issued'[g] >= issued[g]
    BY <2>1, Bounds DEF TypeOK
  <2> QED
    BY <1>3, <2>1, <2>2, <2>3 DEF TypeOK
<1>7. ASSUME NEW u \in Users, RevokeUser(u) \/ ActiveFamilies(u) PROVE Preserved
  <2> PICK d \in Commands : d.op \in {"revokeUser", "active"} /\ d.now = clock /\ wire' = wire \cup {d}
    <3>1. \A op \in {"revokeUser", "active"} : [op |-> op, u |-> u, now |-> clock] \in Commands
      BY DEF Commands, TypeOK
    <3> QED
      BY <1>7, <3>1 DEF RevokeUser, ActiveFamilies, Send
  <2>1. UNCHANGED <<issued, owner>>
    BY <1>7 DEF RevokeUser, ActiveFamilies
  <2>2. Harmless(d)'
    BY <1>1 DEF Harmless, TypeOK
  <2>3. issued' \in [Families -> 0 .. MaxToken] /\ \A g \in Families : issued'[g] >= issued[g]
    BY <2>1, Bounds DEF TypeOK
  <2> QED
    BY <1>3, <2>1, <2>2, <2>3 DEF TypeOK
<1> QED
  BY <1>4, <1>5, <1>6, <1>7 DEF Call

\* Redis removes a family's keys only after its absolute end, and by then a
\* create command for it has been given up.
LEMMA TickStep ==
  ASSUME TypeOK, SessionInv, Tick
  PROVE  Preserved
<1>1. clock \in Nat /\ clock' = clock + 1 /\ clock' \in 0 .. MaxClock
  BY Bounds DEF Tick, TypeOK
<1>2. UNCHANGED <<wire, issued, owner, held, userIndex, familyIndex, latest, spent, stolen, banned>>
  BY DEF Tick, historyVars
<1>3. /\ family' \in [Families -> Hash \cup {NoFamily}]
      /\ \A f \in Families :
            \/ family'[f] = family[f]
            \/ family'[f] = NoFamily /\ family[f] # NoFamily /\ family[f].dies <= clock'
  BY DEF Tick, TypeOK
<1>4. used' \in [Families -> [tokens : SUBSET Tokens, dies : 0 .. Horizon + MaxDelay]]
      /\ \A f \in Families : used'[f].tokens \subseteq used[f].tokens
  <2>1. NothingUsed \in [tokens : SUBSET Tokens, dies : 0 .. Horizon + MaxDelay] /\ NothingUsed.tokens = {}
    BY Bounds DEF NothingUsed
  <2>2. \A f \in Families : used'[f] = NothingUsed \/ used'[f] = used[f]
    BY DEF Tick
  <2> QED
    BY <2>1, <2>2 DEF Tick, TypeOK
<1>5. /\ token' \in [Families -> [Tokens -> 0 .. Horizon + MaxDelay]]
      /\ \A f \in Families, n \in Tokens : token[f][n] > clock' => token'[f][n] = token[f][n]
  <2>1. token' = [f \in Families |-> [n \in Tokens |-> IF token[f][n] <= clock' THEN 0 ELSE token[f][n]]]
    BY DEF Tick
  <2>2. 0 \in 0 .. Horizon + MaxDelay
    BY Bounds
  <2>3. \A f \in Families, n \in Tokens : token[f][n] \in 0 .. Horizon + MaxDelay
    BY DEF TypeOK
  <2>4. \A f \in Families, n \in Tokens : token'[f][n] = IF token[f][n] <= clock' THEN 0 ELSE token[f][n]
    BY <2>1
  <2>5. token' \in [Families -> [Tokens -> 0 .. Horizon + MaxDelay]]
    BY <2>1, <2>2, <2>3
  <2> QED
    BY <1>1, <2>3, <2>4, <2>5
<1>6. ASSUME NEW c \in wire PROVE Harmless(c)'
  <2>1. Harmless(c) /\ c \in Commands /\ c.now \in Nat
    BY CommandFacts DEF SessionInv, WireInv, TypeOK
  <2>2. CASE c.op = "create"
    <3>1. c.f \in Families
      BY <2>1, <2>2, CommandFacts
    <3>2. CASE family'[c.f] = family[c.f]
      BY <1>1, <1>2, <2>1, <2>2, <3>2, Bounds DEF Harmless
    <3>3. CASE family'[c.f] = NoFamily /\ family[c.f] # NoFamily /\ family[c.f].dies <= clock'
      <4>1. latest[c.f] # 0 => family[c.f].dies >= c.now + AbsoluteTTL /\ family[c.f].dies \in Nat
        BY <2>1, <2>2, <3>1, <3>3, HashFacts, Bounds DEF Harmless
      <4> QED
        BY <1>1, <1>2, <2>1, <2>2, <3>3, <4>1, Bounds DEF Harmless
    <3> QED
      BY <1>3, <3>1, <3>2, <3>3
  <2>3. CASE c.op # "create"
    BY <1>1, <1>2, <2>1, <2>3 DEF Harmless, Seen
  <2> QED
    BY <2>2, <2>3
<1>7. ASSUME NEW f \in Families PROVE Honest(f)'
  <2>1. Honest(f)
    BY DEF SessionInv
  <2>2. latest[f] = 0 => used'[f].tokens = {}
    BY <1>4, <2>1 DEF Honest
  <2> QED
    BY <1>2, <1>3, <2>1, <2>2 DEF Honest, Seen
<1>8. ASSUME NEW f \in Families PROVE Intact(f)'
  <2> SUFFICES ASSUME family'[f] # NoFamily, family'[f].absolute > clock'
      PROVE  /\ Indexed(f)' /\ family'[f].current \notin used'[f].tokens
             /\ \A n \in used'[f].tokens \cup {family'[f].current} : token'[f][n] >= family'[f].absolute
    BY DEF Intact
  <2>1. family'[f] = family[f] /\ family[f].absolute \in Nat /\ family[f].current \in Tokens
    BY <1>3, HashFacts, Bounds
  <2>2. Intact(f) /\ family[f].absolute > clock
    BY <1>1, <2>1 DEF SessionInv
  <2>3. Indexed(f) /\ family[f].current \notin used[f].tokens
        /\ \A n \in used[f].tokens \cup {family[f].current} : token[f][n] >= family[f].absolute
    BY <2>1, <2>2 DEF Intact
  <2>4. ASSUME NEW n \in used'[f].tokens \cup {family'[f].current} PROVE token'[f][n] >= family'[f].absolute
    <3>1. n \in Tokens /\ token[f][n] >= family[f].absolute
      BY <1>4, <2>1, <2>3 DEF TypeOK
    <3>2. token[f][n] \in Nat
      BY <3>1, Bounds DEF TypeOK
    <3>3. token'[f][n] = token[f][n]
      BY <1>1, <1>5, <2>1, <3>1, <3>2
    <3> QED
      BY <2>1, <3>1, <3>3
  <2> QED
    BY <1>2, <1>4, <2>1, <2>3, <2>4 DEF Indexed
<1>9. LiveFamiliesBounded'
  <2> DEFINE live == {f \in Families : family[f] # NoFamily /\ family[f].absolute > clock}
  <2>1. IsFiniteSet(live) /\ Cardinality(live) <= MaxFamilies
    <3>1. live \subseteq IndexedFamilies
      <4> SUFFICES ASSUME NEW f \in Families, family[f] # NoFamily, family[f].absolute > clock
          PROVE familyIndex[f] > 0
        BY DEF IndexedFamilies
      <4>1. familyIndex[f] = family[f].absolute
        BY DEF SessionInv, Intact, Indexed
      <4> QED
        BY <4>1, HashFacts
    <3> QED
      BY <3>1, FS_Subset DEF SessionInv, LiveFamiliesBounded
  <2>2. {f \in Families : family'[f] # NoFamily /\ family'[f].absolute > clock'} \subseteq live
    <3> SUFFICES ASSUME NEW f \in Families, family'[f] # NoFamily, family'[f].absolute > clock'
        PROVE family[f] # NoFamily /\ family[f].absolute > clock
      OBVIOUS
    <3>1. family'[f] = family[f] /\ family[f].absolute \in Nat
      BY <1>3, HashFacts, Bounds
    <3> QED
      BY <1>1, <3>1
  <2> HIDE DEF live
  <2>3. Cardinality({f \in Families : family'[f] # NoFamily /\ family'[f].absolute > clock'}) <= Cardinality(live)
        /\ Cardinality({f \in Families : family'[f] # NoFamily /\ family'[f].absolute > clock'}) \in Nat
    BY <2>1, <2>2, FS_Subset, FS_CardinalityType
  <2>4. Cardinality(live) \in Nat
    BY <2>1, FS_CardinalityType
  <2> QED
    BY <2>1, <2>3, <2>4, Bounds DEF LiveFamiliesBounded
<1>10. TypeOK'
  BY <1>1, <1>2, <1>3, <1>4, <1>5 DEF TypeOK
<1> QED
  BY <1>2, <1>6, <1>7, <1>8, <1>9, <1>10 DEF SessionInv, WireInv, Preserved, IndexedFamilies
-----------------------------------------------------------------------------
(* Steps that put a token in place *)

\* A create command that is executed is the first for its family.
LEMMA FirstCreate ==
  ASSUME TypeOK, SessionInv, NEW c \in wire, clock - c.now <= MaxDelay, CreateSession(c)
  PROVE  /\ c.f \in Families /\ c.now \in 0 .. MaxClock /\ c.now <= clock /\ issued[c.f] >= 1
         /\ latest[c.f] = 0 /\ spent[c.f] = {} /\ used[c.f].tokens = {} /\ c.f \notin stolen
<1>1. c \in Commands /\ Harmless(c) /\ c.op = "create" /\ family[c.f] = NoFamily
  BY DEF TypeOK, SessionInv, WireInv, CreateSession
<1>2. c.f \in Families /\ c.now \in 0 .. MaxClock /\ c.now \in Nat /\ clock \in Nat
  BY <1>1, CommandFacts, Bounds DEF TypeOK
<1>3. latest[c.f] = 0
  BY <1>1, <1>2, Bounds DEF Harmless
<1>4. Honest(c.f)
  BY <1>2 DEF SessionInv
<1> QED
  BY <1>1, <1>2, <1>3, <1>4 DEF Harmless, Honest

\* The keys that a create command writes.
LEMMA CreateWrites ==
  ASSUME TypeOK, SessionInv, NEW c \in wire, clock - c.now <= MaxDelay, CreateSession(c)
  PROVE  /\ TypeOK'
         /\ \A f \in Families \ {c.f} :
               /\ family'[f] = family[f] /\ token'[f] = token[f] /\ userIndex'[f] = userIndex[f]
               /\ familyIndex'[f] = Pruned(c.now)[f] /\ latest'[f] = latest[f] /\ held'[f] = held[f]
         /\ /\ family'[c.f] # NoFamily /\ family'[c.f].absolute = c.now + AbsoluteTTL /\ ~family'[c.f].revoked
            /\ family'[c.f].expires = c.now + RefreshTTL /\ family'[c.f].current = 1
            /\ family'[c.f].dies = clock + AbsoluteTTL
         /\ token'[c.f][1] = clock + AbsoluteTTL /\ latest'[c.f] = 1
         /\ userIndex'[c.f] = c.now + AbsoluteTTL /\ familyIndex'[c.f] = c.now + AbsoluteTTL
         /\ wire' \subseteq wire /\ UNCHANGED <<clock, issued, owner, used, spent, stolen, banned>>
<1>1. /\ c.f \in Families /\ c.now \in 0 .. MaxClock /\ c.now <= clock /\ clock \in 0 .. MaxClock
      /\ c.now \in Nat /\ clock \in Nat
  BY FirstCreate, Bounds DEF TypeOK
<1> PICK h \in Hash : /\ h.absolute = c.now + AbsoluteTTL /\ h.expires = c.now + RefreshTTL /\ h.current = 1
                      /\ ~h.revoked /\ h.dies = clock + AbsoluteTTL /\ family' = [family EXCEPT ![c.f] = h]
  <2> DEFINE h == [absolute |-> c.now + AbsoluteTTL, expires |-> c.now + RefreshTTL, current |-> 1,
                   revoked |-> FALSE, dies |-> clock + AbsoluteTTL]
  <2>1. c.now + AbsoluteTTL \in 1 .. Horizon /\ c.now + RefreshTTL \in 1 .. Horizon
    BY <1>1, Bounds
  <2>2. clock + AbsoluteTTL \in 1 .. Horizon + MaxDelay /\ 1 \in Tokens
    BY <1>1, Bounds DEF Tokens
  <2>3. h \in Hash
    BY <2>1, <2>2 DEF Hash
  <2>4. family' = [family EXCEPT ![c.f] = h]
    BY DEF CreateSession
  <2> QED
    BY <2>3, <2>4
<1>2. h # NoFamily
  BY SessionAssumption
<1> PICK end \in 0 .. Horizon : end = c.now + AbsoluteTTL
  BY <1>1, Bounds
<1> PICK dies \in 0 .. Horizon + MaxDelay : dies = clock + AbsoluteTTL
  BY <1>1, Bounds
<1>3. 1 \in Tokens /\ 1 \in 0 .. MaxToken
  BY Bounds DEF Tokens
<1>4. token' = [token EXCEPT ![c.f] = [token[c.f] EXCEPT ![1] = dies]]
  BY DEF CreateSession
<1>5. /\ userIndex' = [userIndex EXCEPT ![c.f] = end]
      /\ familyIndex' = [Pruned(c.now) EXCEPT ![c.f] = end] /\ latest' = [latest EXCEPT ![c.f] = 1]
  BY DEF CreateSession
<1>6. held' \in {held, [held EXCEPT ![c.f] = held[c.f] \cup {1}]} /\ wire' \subseteq wire
  BY DEF CreateSession, Answered, Resent
<1>7. UNCHANGED <<clock, issued, owner, used, spent, stolen, banned>>
  BY DEF CreateSession
<1>8. Pruned(c.now) \in [Families -> 0 .. Horizon]
  BY <1>1, PrunedFacts
<1>9. /\ family' \in [Families -> Hash \cup {NoFamily}] /\ userIndex' \in [Families -> 0 .. Horizon]
      /\ familyIndex' \in [Families -> 0 .. Horizon] /\ latest' \in [Families -> 0 .. MaxToken]
      /\ held' \in [Families -> SUBSET Tokens]
  <2>1. family' \in [Families -> Hash \cup {NoFamily}]
    BY DEF TypeOK
  <2>2. userIndex' \in [Families -> 0 .. Horizon] /\ familyIndex' \in [Families -> 0 .. Horizon]
    BY <1>5, <1>8 DEF TypeOK
  <2>3. latest' \in [Families -> 0 .. MaxToken]
    BY <1>3, <1>5 DEF TypeOK
  <2>4. held' \in [Families -> SUBSET Tokens]
    <3>1. held[c.f] \cup {1} \in SUBSET Tokens
      BY <1>1, <1>3 DEF TypeOK
    <3> QED
      BY <1>6, <3>1 DEF TypeOK
  <2> QED
    BY <2>1, <2>2, <2>3, <2>4
<1>10. token' \in [Families -> [Tokens -> 0 .. Horizon + MaxDelay]] /\ token'[c.f][1] = dies
  BY <1>1, <1>3, <1>4 DEF TypeOK
<1>11. TypeOK'
  BY <1>6, <1>7, <1>9, <1>10 DEF TypeOK
<1>12. family'[c.f] = h /\ \A f \in Families \ {c.f} : family'[f] = family[f]
  BY <1>1 DEF TypeOK
<1>13. /\ userIndex'[c.f] = end /\ familyIndex'[c.f] = end /\ latest'[c.f] = 1
       /\ \A f \in Families \ {c.f} :
            /\ token'[f] = token[f] /\ userIndex'[f] = userIndex[f]
            /\ familyIndex'[f] = Pruned(c.now)[f] /\ latest'[f] = latest[f] /\ held'[f] = held[f]
  BY <1>1, <1>4, <1>5, <1>6, <1>8 DEF TypeOK
<1> QED
  BY <1>2, <1>6, <1>7, <1>10, <1>11, <1>12, <1>13

LEMMA CreateBounded ==
  ASSUME TypeOK, SessionInv, NEW c \in wire, clock - c.now <= MaxDelay, CreateSession(c)
  PROVE  IsFiniteSet(IndexedFamilies)' /\ LiveFamiliesBounded'
<1> DEFINE kept == {f \in Families : Pruned(c.now)[f] > 0}
           live == {f \in Families : family'[f] # NoFamily /\ family'[f].absolute > clock'}
<1>1. /\ c.f \in Families /\ c.now \in 0 .. MaxClock /\ c.now <= clock /\ clock' = clock
      /\ \A f \in Families \ {c.f} : family'[f] = family[f] /\ familyIndex'[f] = Pruned(c.now)[f]
  BY FirstCreate, CreateWrites
<1>2. \A f \in Families :
         \/ Pruned(c.now)[f] = familyIndex[f]
         \/ Pruned(c.now)[f] = 0 /\ (family[f] = NoFamily \/ family[f].absolute <= clock)
  BY <1>1, PrunedFacts, Zenon
<1>3. IsFiniteSet(kept)
  <2>1. kept \subseteq IndexedFamilies
    BY <1>2 DEF IndexedFamilies
  <2> QED
    BY <2>1, FS_Subset DEF SessionInv
<1>4. Cardinality(kept) \in Nat /\ Cardinality(kept) < MaxFamilies
  <2>1. ~(Cardinality(kept) >= MaxFamilies)
    BY DEF CreateSession, OverLimit
  <2>2. Cardinality(kept) \in Nat
    BY <1>3, FS_CardinalityType
  <2> QED
    BY <2>1, <2>2, Bounds
<1>5. IndexedFamilies' \subseteq kept \cup {c.f}
  BY <1>1 DEF IndexedFamilies
<1>6. live \subseteq kept \cup {c.f}
  <2> SUFFICES ASSUME NEW f \in Families \ {c.f}, family'[f] # NoFamily, family'[f].absolute > clock'
      PROVE  Pruned(c.now)[f] > 0
    BY DEF kept
  <2>1. family[f] # NoFamily /\ family[f].absolute > clock /\ family[f].absolute \in Nat /\ clock \in Nat
    BY <1>1, HashFacts, Bounds DEF TypeOK
  <2>2. familyIndex[f] = family[f].absolute
    BY <2>1 DEF SessionInv, Intact, Indexed
  <2>3. ~(family[f].absolute <= clock)
    BY <2>1
  <2>4. Pruned(c.now)[f] = familyIndex[f]
    BY <1>2, <2>1, <2>3
  <2> QED
    BY <2>1, <2>2, <2>4
<1> HIDE DEF kept, live
<1>7. IsFiniteSet(kept \cup {c.f}) /\ Cardinality(kept \cup {c.f}) \in Nat
      /\ Cardinality(kept \cup {c.f}) <= Cardinality(kept) + 1
  <2>1. IsFiniteSet(kept \cup {c.f})
        /\ Cardinality(kept \cup {c.f}) = IF c.f \in kept THEN Cardinality(kept) ELSE Cardinality(kept) + 1
    BY <1>3, FS_AddElement
  <2> QED
    BY <1>4, <2>1
<1>8. IsFiniteSet(IndexedFamilies)'
  BY <1>5, <1>7, FS_Subset
<1>9. Cardinality(live) \in Nat /\ Cardinality(live) <= Cardinality(kept \cup {c.f})
  BY <1>6, <1>7, FS_Subset, FS_CardinalityType
<1>10. Cardinality(live) <= MaxFamilies
  BY <1>4, <1>7, <1>9, Bounds
<1> QED
  BY <1>8, <1>10 DEF LiveFamiliesBounded, live

LEMMA CreateStep ==
  ASSUME TypeOK, SessionInv, NEW c \in wire, clock - c.now <= MaxDelay, CreateSession(c)
  PROVE  Preserved
<1>1. /\ c.f \in Families /\ c.now \in Nat /\ c.now <= clock /\ clock \in Nat /\ issued[c.f] >= 1
      /\ latest[c.f] = 0 /\ spent[c.f] = {} /\ used[c.f].tokens = {} /\ c.f \notin stolen
  BY FirstCreate, Bounds DEF TypeOK
<1>2. /\ TypeOK' /\ wire' \subseteq wire
      /\ UNCHANGED <<clock, issued, owner, used, spent, stolen, banned>>
      /\ \A f \in Families \ {c.f} :
            /\ family'[f] = family[f] /\ token'[f] = token[f] /\ userIndex'[f] = userIndex[f]
            /\ familyIndex'[f] = Pruned(c.now)[f] /\ latest'[f] = latest[f] /\ held'[f] = held[f]
  BY CreateWrites
<1>3. /\ family'[c.f] # NoFamily /\ family'[c.f].absolute = c.now + AbsoluteTTL
      /\ family'[c.f].expires = c.now + RefreshTTL /\ family'[c.f].current = 1
      /\ family'[c.f].dies = clock + AbsoluteTTL /\ token'[c.f][1] = clock + AbsoluteTTL
      /\ latest'[c.f] = 1
      /\ userIndex'[c.f] = c.now + AbsoluteTTL /\ familyIndex'[c.f] = c.now + AbsoluteTTL
  BY CreateWrites
<1>4. ASSUME NEW e \in wire PROVE Harmless(e)'
  <2>1. Harmless(e) /\ e \in Commands /\ e.now \in Nat
    BY CommandFacts, Bounds DEF SessionInv, WireInv, TypeOK
  <2>2. CASE e.op \notin {"create", "rotate"}
    BY <1>2, <2>1, <2>2 DEF Harmless
  <2>3. CASE e.op \in {"create", "rotate"} /\ e.f # c.f
    <3>1. e.f \in Families \ {c.f}
      BY <2>1, <2>3, CommandFacts
    <3> QED
      BY <1>2, <2>1, <2>3, <3>1 DEF Harmless, Seen
  <2>4. CASE e.op = "create" /\ e.f = c.f
    <3>1. clock + AbsoluteTTL >= e.now + AbsoluteTTL
      BY <1>1, <2>1, Bounds DEF Harmless
    <3> QED
      BY <1>2, <1>3, <2>1, <2>4, <3>1 DEF Harmless
  <2>5. CASE e.op = "rotate" /\ e.f = c.f
    BY <1>1, <2>1, <2>5 DEF Harmless
  <2> QED
    BY <2>2, <2>3, <2>4, <2>5
<1>5. WireInv'
  BY <1>2, <1>4 DEF SessionInv, WireInv
<1>6. ASSUME NEW f \in Families PROVE Honest(f)'
  <2>1. CASE f = c.f
    BY <1>1, <1>2, <1>3, <2>1, Bounds DEF Honest, Seen
  <2>2. CASE f # c.f
    <3>1. Honest(f)
      BY DEF SessionInv
    <3> QED
      BY <1>2, <2>2, <3>1 DEF Honest, Seen
  <2> QED
    BY <2>1, <2>2
<1>7. ASSUME NEW f \in Families PROVE Intact(f)'
  <2>1. CASE f = c.f
    <3>1. clock + AbsoluteTTL >= c.now + AbsoluteTTL
      BY <1>1, Bounds
    <3> QED
      BY <1>1, <1>2, <1>3, <2>1, <3>1 DEF Intact, Indexed
  <2>2. CASE f # c.f
    <3>1. Intact(f)
      BY DEF SessionInv
    <3>2. family[f] # NoFamily /\ family[f].absolute > clock => familyIndex'[f] = familyIndex[f]
      <4> SUFFICES ASSUME family[f] # NoFamily, family[f].absolute > clock PROVE Pruned(c.now)[f] = familyIndex[f]
        BY <1>2, <2>2
      <4>1. c.now \in 0 .. MaxClock /\ ~(family[f].absolute <= clock)
        BY <1>1, FirstCreate, HashFacts
      <4> QED
        BY <1>1, <4>1, PrunedFacts
    <3> QED
      BY <1>2, <2>2, <3>1, <3>2 DEF Intact, Indexed
  <2> QED
    BY <2>1, <2>2
<1>8. IsFiniteSet(IndexedFamilies)' /\ LiveFamiliesBounded'
  BY CreateBounded
<1> QED
  BY <1>2, <1>5, <1>6, <1>7, <1>8 DEF SessionInv, Preserved

\* A rotation that is executed exchanges the token last put in place.
LEMMA Exchanged ==
  ASSUME TypeOK, SessionInv, NEW c \in wire, RotateSession(c)
  PROVE  /\ c.f \in Families /\ c.old \in Tokens /\ c.new \in Tokens /\ c.new <= issued[c.f]
         /\ c.now \in 0 .. MaxClock /\ c.now <= clock
         /\ family[c.f] # NoFamily /\ ~family[c.f].revoked /\ family[c.f].absolute > c.now
         /\ c.old = latest[c.f] /\ c.old \notin spent[c.f] /\ latest[c.f] # 0
         /\ c.new \notin Seen(c.f) /\ c.new \notin used[c.f].tokens /\ c.new # c.old
<1>1. c \in Commands /\ Harmless(c) /\ c.op = "rotate"
  BY DEF TypeOK, SessionInv, WireInv, RotateSession
<1>2. c.f \in Families /\ c.now \in 0 .. MaxClock /\ c.old \in 0 .. MaxToken /\ c.old \in Tokens /\ c.new \in Tokens
  BY <1>1, CommandFacts DEF Harmless
<1>3. Honest(c.f) /\ Open(c.f, c.old, c.now) /\ c.old = family[c.f].current /\ token[c.f][c.new] = 0
  BY <1>2 DEF SessionInv, RotateSession, AcceptsOnlyCurrent
<1>4. /\ family[c.f] # NoFamily /\ ~family[c.f].revoked /\ latest[c.f] # 0 /\ family[c.f].absolute > c.now
      /\ c.old = latest[c.f] /\ c.old \notin spent[c.f]
  BY <1>2, <1>3, OpenFacts DEF Honest
<1>5. c.new \notin Seen(c.f)
  BY <1>1, <1>4 DEF Harmless
<1>6. c.new \notin used[c.f].tokens
  BY <1>2, <1>3 DEF Open, Mapped
<1> QED
  BY <1>1, <1>2, <1>4, <1>5, <1>6 DEF Harmless, Seen

\* The keys that a rotation writes.
LEMMA RotateWrites ==
  ASSUME TypeOK, SessionInv, NEW c \in wire, clock - c.now <= MaxDelay, RotateSession(c)
  PROVE  /\ TypeOK'
         /\ \A f \in Families \ {c.f} :
               /\ family'[f] = family[f] /\ token'[f] = token[f] /\ used'[f] = used[f]
               /\ latest'[f] = latest[f] /\ spent'[f] = spent[f] /\ held'[f] = held[f]
         /\ /\ family'[c.f] # NoFamily /\ family'[c.f].absolute = family[c.f].absolute
            /\ family'[c.f].expires <= family[c.f].absolute /\ family'[c.f].current = c.new
            /\ family'[c.f].dies = family[c.f].dies /\ family'[c.f].revoked = family[c.f].revoked
         /\ used'[c.f].tokens = used[c.f].tokens \cup {c.old}
         /\ token'[c.f][c.new] = clock + family[c.f].absolute - c.now
         /\ \A n \in Tokens \ {c.new} : token'[c.f][n] = token[c.f][n]
         /\ latest'[c.f] = c.new /\ spent'[c.f] = spent[c.f] \cup {c.old}
         /\ wire' \subseteq wire
         /\ UNCHANGED <<clock, issued, owner, userIndex, familyIndex, stolen, banned>>
<1>1. /\ c.f \in Families /\ c.old \in Tokens /\ c.new \in Tokens /\ c.now \in Nat /\ c.now <= clock
      /\ clock \in Nat /\ clock <= MaxClock /\ family[c.f] # NoFamily
  BY Exchanged, Bounds DEF TypeOK
<1>2. /\ family[c.f] \in Hash /\ family[c.f].absolute \in 1 .. Horizon /\ family[c.f].expires \in 1 .. Horizon
      /\ family[c.f].absolute > c.now
  BY <1>1, HashFacts, Exchanged
<1> PICK ends \in 1 .. Horizon : /\ ends <= family[c.f].absolute
                                 /\ ends = IF c.now + RefreshTTL > family[c.f].absolute
                                             THEN family[c.f].absolute ELSE c.now + RefreshTTL
  BY <1>1, <1>2, Bounds
<1> PICK h \in Hash : /\ h.absolute = family[c.f].absolute /\ h.expires = ends /\ h.current = c.new
                      /\ h.dies = family[c.f].dies /\ h.revoked = family[c.f].revoked
                      /\ family' = [family EXCEPT ![c.f] = h]
  <2> DEFINE h == [family[c.f] EXCEPT !.current = c.new, !.expires = ends]
  <2>1. /\ h \in Hash /\ h.absolute = family[c.f].absolute /\ h.expires = ends /\ h.current = c.new
        /\ h.dies = family[c.f].dies /\ h.revoked = family[c.f].revoked
    BY <1>1, <1>2 DEF Hash
  <2>2. family' = [family EXCEPT ![c.f] = h]
    BY <1>1 DEF RotateSession, TypeOK
  <2> QED
    BY <2>1, <2>2
<1> PICK dies \in 0 .. Horizon + MaxDelay : dies = clock + family[c.f].absolute - c.now
  <2>1. clock - c.now >= 0 /\ clock - c.now <= MaxDelay
    BY <1>1
  <2>2. clock + family[c.f].absolute - c.now \in 0 .. Horizon + MaxDelay
    BY <1>1, <1>2, <2>1, Bounds
  <2> QED
    BY <2>2
<1>3. used' = [used EXCEPT ![c.f] = [tokens |-> used[c.f].tokens \cup {c.old}, dies |-> dies]]
  BY DEF RotateSession
<1>4. token' = [token EXCEPT ![c.f] = [token[c.f] EXCEPT ![c.new] = dies]]
  BY DEF RotateSession, MappingDies
<1>5. latest' = [latest EXCEPT ![c.f] = c.new] /\ spent' = [spent EXCEPT ![c.f] = spent[c.f] \cup {c.old}]
  BY DEF RotateSession
<1>6. held' \in {held, [held EXCEPT ![c.f] = held[c.f] \cup {c.new}]} /\ wire' \subseteq wire
  BY DEF RotateSession, Answered, Resent
<1>7. UNCHANGED <<clock, issued, owner, userIndex, familyIndex, stolen, banned>>
  BY DEF RotateSession
<1>8. /\ used' \in [Families -> [tokens : SUBSET Tokens, dies : 0 .. Horizon + MaxDelay]]
      /\ used'[c.f].tokens = used[c.f].tokens \cup {c.old}
      /\ \A f \in Families \ {c.f} : used'[f] = used[f]
  <2>1. [tokens |-> used[c.f].tokens \cup {c.old}, dies |-> dies]
          \in [tokens : SUBSET Tokens, dies : 0 .. Horizon + MaxDelay]
    BY <1>1 DEF TypeOK
  <2> QED
    BY <1>1, <1>3, <2>1 DEF TypeOK
<1>9. /\ token' \in [Families -> [Tokens -> 0 .. Horizon + MaxDelay]]
      /\ token'[c.f][c.new] = dies /\ \A n \in Tokens \ {c.new} : token'[c.f][n] = token[c.f][n]
      /\ \A f \in Families \ {c.f} : token'[f] = token[f]
  <2>1. [token[c.f] EXCEPT ![c.new] = dies] \in [Tokens -> 0 .. Horizon + MaxDelay]
    BY <1>1 DEF TypeOK
  <2> QED
    BY <1>1, <1>4, <2>1 DEF TypeOK
<1>10. /\ latest' \in [Families -> 0 .. MaxToken] /\ spent' \in [Families -> SUBSET Tokens]
       /\ held' \in [Families -> SUBSET Tokens]
  <2>1. c.new \in 0 .. MaxToken
    BY <1>1, Bounds DEF Tokens
  <2>2. latest' \in [Families -> 0 .. MaxToken]
    BY <1>5, <2>1 DEF TypeOK
  <2>3. spent' \in [Families -> SUBSET Tokens]
    BY <1>1, <1>5 DEF TypeOK
  <2>4. held' \in [Families -> SUBSET Tokens]
    BY <1>1, <1>6 DEF TypeOK
  <2> QED
    BY <2>2, <2>3, <2>4
<1>11. family' \in [Families -> Hash \cup {NoFamily}]
  BY DEF TypeOK
<1>12. TypeOK'
  BY <1>6, <1>7, <1>8, <1>9, <1>10, <1>11 DEF TypeOK
<1>13. family'[c.f] = h /\ h # NoFamily /\ \A f \in Families \ {c.f} : family'[f] = family[f]
  BY <1>1, SessionAssumption DEF TypeOK
<1>14. /\ latest'[c.f] = c.new /\ spent'[c.f] = spent[c.f] \cup {c.old}
       /\ \A f \in Families \ {c.f} : latest'[f] = latest[f] /\ spent'[f] = spent[f] /\ held'[f] = held[f]
  BY <1>1, <1>5, <1>6 DEF TypeOK
<1> QED
  BY <1>6, <1>7, <1>8, <1>9, <1>12, <1>13, <1>14

LEMMA RotateStep ==
  ASSUME TypeOK, SessionInv, NEW c \in wire, clock - c.now <= MaxDelay, RotateSession(c)
  PROVE  Preserved
<1>1. /\ c.f \in Families /\ c.old \in Tokens /\ c.new \in Tokens /\ c.new <= issued[c.f]
      /\ c.now \in Nat /\ c.now <= clock /\ clock \in Nat
      /\ family[c.f] # NoFamily /\ ~family[c.f].revoked /\ family[c.f].absolute > c.now
      /\ c.old = latest[c.f] /\ c.old \notin spent[c.f] /\ latest[c.f] # 0
      /\ c.new \notin Seen(c.f) /\ c.new \notin used[c.f].tokens /\ c.new # c.old
  BY Exchanged, Bounds DEF TypeOK
<1>2. /\ TypeOK' /\ wire' \subseteq wire
      /\ UNCHANGED <<clock, issued, owner, userIndex, familyIndex, stolen, banned>>
      /\ \A f \in Families \ {c.f} :
            /\ family'[f] = family[f] /\ token'[f] = token[f] /\ used'[f] = used[f]
            /\ latest'[f] = latest[f] /\ spent'[f] = spent[f] /\ held'[f] = held[f]
  BY RotateWrites
<1>3. /\ family'[c.f] # NoFamily /\ family'[c.f].absolute = family[c.f].absolute
      /\ family'[c.f].expires <= family[c.f].absolute /\ family'[c.f].current = c.new
      /\ family'[c.f].dies = family[c.f].dies /\ family'[c.f].revoked = family[c.f].revoked
      /\ used'[c.f].tokens = used[c.f].tokens \cup {c.old}
      /\ token'[c.f][c.new] = clock + family[c.f].absolute - c.now
      /\ \A n \in Tokens \ {c.new} : token'[c.f][n] = token[c.f][n]
      /\ latest'[c.f] = c.new /\ spent'[c.f] = spent[c.f] \cup {c.old}
  BY RotateWrites
<1>4. c.new # 0 /\ Honest(c.f) /\ Intact(c.f) /\ c.op = "rotate"
  BY <1>1 DEF Tokens, SessionInv, RotateSession
<1>5. ASSUME NEW e \in wire PROVE Harmless(e)'
  <2>1. Harmless(e) /\ e \in Commands
    BY DEF SessionInv, WireInv, TypeOK
  <2>2. CASE e.op \notin {"create", "rotate"}
    BY <1>2, <2>1, <2>2 DEF Harmless
  <2>3. CASE e.op \in {"create", "rotate"} /\ e.f # c.f
    <3>1. e.f \in Families \ {c.f}
      BY <2>1, <2>3, CommandFacts
    <3> QED
      BY <1>2, <2>1, <2>3, <3>1 DEF Harmless, Seen
  <2>4. CASE e.op = "create" /\ e.f = c.f
    BY <1>1, <1>2, <1>3, <2>1, <2>4 DEF Harmless
  <2>5. CASE e.op = "rotate" /\ e.f = c.f
    <3>1. Seen(c.f)' = Seen(c.f) \cup {c.new}
      BY <1>1, <1>3 DEF Seen
    <3>2. e.new = c.new => e = c
      BY <1>4, <2>5 DEF SessionInv, WireInv
    <3>3. e.new \in Seen(c.f)' => e.old \in spent'[c.f]
      BY <1>3, <2>1, <2>5, <3>1, <3>2 DEF Harmless
    <3> QED
      BY <1>2, <1>3, <1>4, <2>1, <2>5, <3>3 DEF Harmless
  <2> QED
    BY <2>2, <2>3, <2>4, <2>5
<1>6. WireInv'
  BY <1>2, <1>5 DEF SessionInv, WireInv
<1>7. ASSUME NEW f \in Families PROVE Honest(f)'
  <2>1. CASE f = c.f
    <3>1. Seen(c.f)' = Seen(c.f) \cup {c.new}
      BY <1>1, <1>3 DEF Seen
    <3>2. c.new \notin spent'[c.f]
      BY <1>1, <1>3 DEF Seen
    <3>3. c.f \notin stolen
      BY <1>1, <1>4 DEF Honest
    <3> QED
      BY <1>1, <1>2, <1>3, <1>4, <2>1, <3>1, <3>2, <3>3 DEF Honest
  <2>2. CASE f # c.f
    <3>1. Honest(f)
      BY DEF SessionInv
    <3> QED
      BY <1>2, <2>2, <3>1 DEF Honest, Seen
  <2> QED
    BY <2>1, <2>2
<1>8. ASSUME NEW f \in Families PROVE Intact(f)'
  <2>1. CASE f = c.f
    <3> SUFFICES ASSUME family[c.f].absolute > clock
        PROVE  /\ Indexed(c.f)' /\ c.new \notin used'[c.f].tokens
               /\ \A n \in used'[c.f].tokens \cup {c.new} : token'[c.f][n] >= family[c.f].absolute
      BY <1>2, <1>3, <2>1 DEF Intact
    <3>1. /\ Indexed(c.f) /\ family[c.f].current = c.old
          /\ \A n \in used[c.f].tokens \cup {c.old} : token[c.f][n] >= family[c.f].absolute
      BY <1>1, <1>4 DEF Intact, Honest
    <3>2. Indexed(c.f)'
      BY <1>2, <1>3, <3>1 DEF Indexed
    <3>3. clock + family[c.f].absolute - c.now >= family[c.f].absolute
      BY <1>1, HashFacts
    <3>4. used[c.f].tokens \cup {c.old} \subseteq Tokens \ {c.new}
      BY <1>1 DEF TypeOK
    <3> QED
      BY <1>1, <1>3, <3>1, <3>2, <3>3, <3>4
  <2>2. CASE f # c.f
    <3>1. Intact(f)
      BY DEF SessionInv
    <3> QED
      BY <1>2, <2>2, <3>1 DEF Intact, Indexed
  <2> QED
    BY <2>1, <2>2
<1>9. IsFiniteSet(IndexedFamilies)' /\ LiveFamiliesBounded'
  <2>1. {f \in Families : family'[f] # NoFamily /\ family'[f].absolute > clock'}
          = {f \in Families : family[f] # NoFamily /\ family[f].absolute > clock}
    BY <1>1, <1>2, <1>3
  <2> QED
    BY <1>2, <2>1 DEF SessionInv, IndexedFamilies, LiveFamiliesBounded
<1> QED
  BY <1>2, <1>6, <1>7, <1>8, <1>9 DEF SessionInv, Preserved

-----------------------------------------------------------------------------
(* The invariant *)

LEMMA InitHolds == Init => TypeOK /\ SessionInv
<1> SUFFICES ASSUME Init PROVE TypeOK /\ SessionInv
  OBVIOUS
<1>1. TypeOK
  BY Bounds DEF Init, TypeOK, NothingUsed
<1>2. WireInv
  BY DEF Init, WireInv
<1>3. ASSUME NEW f \in Families PROVE Honest(f) /\ Intact(f)
  BY Bounds DEF Init, Honest, Intact, Seen, NothingUsed
<1>4. IsFiniteSet(IndexedFamilies)
  <2>1. IndexedFamilies = {}
    BY DEF Init, IndexedFamilies
  <2> QED
    BY <2>1, FS_EmptySet
<1>5. LiveFamiliesBounded
  <2>1. {f \in Families : family[f] # NoFamily /\ family[f].absolute > clock} = {}
    BY DEF Init
  <2>2. Cardinality({}) = 0
    BY FS_EmptySet
  <2> QED
    BY <2>1, <2>2, Bounds DEF LiveFamiliesBounded
<1> QED
  BY <1>1, <1>2, <1>3, <1>4, <1>5 DEF SessionInv

LEMMA SessionStep == TypeOK /\ SessionInv /\ [Next]_vars => TypeOK' /\ SessionInv'
<1> SUFFICES ASSUME TypeOK, SessionInv, [Next]_vars PROVE Preserved
  BY DEF Preserved
<1>1. CASE Call
  BY <1>1, CallStep
<1>2. ASSUME NEW c \in Timely, Script(c) PROVE Preserved
  <2>1. c \in wire /\ clock - c.now <= MaxDelay
    BY DEF Timely
  <2>2. CASE CreateRefused(c)
    BY <2>1, <2>2, CreateRefusedStep
  <2>3. CASE CreateSession(c)
    BY <2>1, <2>3, CreateStep
  <2>4. CASE RotateRefused(c)
    <3>1. wire' \subseteq wire /\ UNCHANGED <<clock, issued, owner, held, redisVars, latest, spent, stolen, banned>>
      BY <2>4 DEF RotateRefused, Answered, Resent, historyVars
    <3> QED
      BY <3>1, UntouchedStep DEF TypeOK
  <2>5. CASE RotateReused(c) \/ RotateEnds(c) \/ RevokeSessionFamily(c)
    BY <2>1, <2>5, RevokingStep
  <2>6. CASE RotateSession(c)
    BY <2>1, <2>6, RotateStep
  <2>7. CASE RevokeUserRefused(c) \/ RevokeSessionUser(c) \/ ActiveSessionFamilies(c)
    BY <2>1, <2>7, UserScriptStep
  <2> QED
    BY <1>2, <2>2, <2>3, <2>4, <2>5, <2>6, <2>7 DEF Script
<1>3. ASSUME NEW c \in wire, Abandon(c) PROVE Preserved
  <2>1. wire' \subseteq wire /\ UNCHANGED <<clock, issued, owner, held, redisVars, latest, spent, stolen, banned>>
    BY <1>3 DEF Abandon, historyVars
  <2> QED
    BY <2>1, UntouchedStep DEF TypeOK
<1>4. CASE Tick
  BY <1>4, TickStep
<1>5. CASE UNCHANGED vars
  <2>1. wire' \subseteq wire /\ UNCHANGED <<clock, issued, owner, held, redisVars, latest, spent, stolen, banned>>
    BY <1>5 DEF vars, historyVars
  <2> QED
    BY <2>1, UntouchedStep DEF TypeOK
<1> QED
  BY <1>1, <1>2, <1>3, <1>4, <1>5 DEF Next

\* The store of families, and the commands under way, keep SessionInv.
THEOREM SessionInvariant == Spec => [](TypeOK /\ SessionInv)
<1>1. Init => TypeOK /\ SessionInv
  BY InitHolds
<1>2. TypeOK /\ SessionInv /\ [Next]_vars => (TypeOK /\ SessionInv)'
  BY SessionStep
<1> QED
  BY <1>1, <1>2, PTL DEF Spec

\* A family for which rotateSessionScript detected a replayed token is never
\* again there and unrevoked.
THEOREM TheftTheorem == Spec => []TheftEndsFamily
<1>1. TypeOK /\ SessionInv => TheftEndsFamily
  BY DEF TypeOK, SessionInv, Honest, TheftEndsFamily
<1> QED
  BY <1>1, SessionInvariant, PTL

\* createSessionScript keeps the families that are not over within the limit,
\* for any number of users and whatever the callers' clock readings.
THEOREM BoundTheorem == Spec => []LiveFamiliesBounded
<1>1. TypeOK /\ SessionInv => LiveFamiliesBounded
  BY DEF SessionInv
<1> QED
  BY <1>1, SessionInvariant, PTL

\* The integrity tests of the scripts accept every family that is not over.
THEOREM IntactTheorem == Spec => []StoreStaysIntact
<1>1. ASSUME TypeOK, SessionInv, NEW f \in Families, family[f] # NoFamily, family[f].absolute > clock
      PROVE  Indexed(f) /\ Mapped(f) /\ family[f].expires <= family[f].absolute
  <2>1. /\ Indexed(f) /\ family[f].current \notin used[f].tokens
        /\ \A n \in used[f].tokens \cup {family[f].current} : token[f][n] >= family[f].absolute
    BY <1>1 DEF SessionInv, Intact
  <2>2. family[f].absolute \in 1 .. Horizon /\ family[f].current \in Tokens
    BY <1>1, HashFacts
  <2>3. ASSUME NEW n \in used[f].tokens \cup {family[f].current} PROVE token[f][n] > 0
    <3>1. token[f][n] \in 0 .. Horizon + MaxDelay
      BY <1>1, <2>2 DEF TypeOK
    <3>2. token[f][n] >= family[f].absolute
      BY <2>1
    <3> QED
      BY <2>2, <3>1, <3>2, Bounds
  <2>4. family[f].expires <= family[f].absolute
    BY <1>1 DEF SessionInv, Honest
  <2> QED
    BY <2>1, <2>3, <2>4 DEF Mapped
<1>2. TypeOK /\ SessionInv => StoreStaysIntact
  BY <1>1 DEF StoreStaysIntact
<1> QED
  BY <1>2, SessionInvariant, PTL

-----------------------------------------------------------------------------
(* The store implements single-use chains *)

Usable == {f \in Families : family[f] # NoFamily /\ ~family[f].revoked}
Past == {f \in Families : latest[f] # 0 /\ (family[f] # NoFamily => family[f].revoked)}

\* A step that only ends families: revocations, and the end of their keys.
LEMMA EndingStep ==
  ASSUME TypeOK, SessionInv, UNCHANGED <<latest, spent>>, Usable' \subseteq Usable
  PROVE  [Sessions!FamiliesNext]_(Sessions!familiesVars)
<1> PICK fs \in SUBSET Families : fs = Usable \ Usable'
  BY DEF Usable
<1>1. \A f \in Usable : latest[f] # 0
  BY DEF SessionInv, Honest, Usable
<1>2. Usable' = Usable \ fs
  OBVIOUS
<1>3. Past' = Past \cup fs
  <2> SUFFICES ASSUME NEW f \in Families PROVE f \in Past' <=> f \in Past \cup fs
    BY DEF Past, Usable
  <2>1. f \in Past' <=> latest[f] # 0 /\ f \notin Usable'
    BY DEF Past, Usable
  <2>2. f \in Past <=> latest[f] # 0 /\ f \notin Usable
    BY DEF Past, Usable
  <2> QED
    BY <1>1, <2>1, <2>2
<1>4. Sessions!End(fs) /\ UNCHANGED latest
  BY <1>2, <1>3 DEF Sessions!End, Usable, Past
<1> QED
  BY <1>4 DEF Sessions!FamiliesNext

LEMMA BeginsFamily ==
  ASSUME TypeOK, SessionInv, NEW c \in wire, clock - c.now <= MaxDelay, CreateSession(c)
  PROVE  [Sessions!FamiliesNext]_(Sessions!familiesVars)
<1>1. c.f \in Families /\ latest[c.f] = 0 /\ family[c.f] = NoFamily
  BY FirstCreate DEF CreateSession
<1>2. /\ spent' = spent /\ family'[c.f] # NoFamily /\ ~family'[c.f].revoked
      /\ \A f \in Families \ {c.f} : family'[f] = family[f] /\ latest'[f] = latest[f]
  BY CreateWrites
<1>3. Usable' = Usable \cup {c.f}
  BY <1>1, <1>2 DEF Usable
<1>4. Past' = Past
  BY <1>1, <1>2 DEF Past
<1>5. c.f \notin Usable \cup Past
  BY <1>1 DEF Usable, Past
<1>6. Sessions!Begin(c.f)
  BY <1>2, <1>3, <1>4, <1>5 DEF Sessions!Begin, Usable, Past
<1> QED
  BY <1>1, <1>2, <1>6 DEF Sessions!FamiliesNext

LEMMA ExchangesToken ==
  ASSUME TypeOK, SessionInv, NEW c \in wire, clock - c.now <= MaxDelay, RotateSession(c)
  PROVE  [Sessions!FamiliesNext]_(Sessions!familiesVars)
<1>1. /\ c.f \in Families /\ family[c.f] # NoFamily /\ ~family[c.f].revoked
      /\ c.old = latest[c.f] /\ c.new \notin Seen(c.f) /\ c.new # c.old
  BY Exchanged
<1>2. /\ \A f \in Families \ {c.f} : family'[f] = family[f] /\ latest'[f] = latest[f] /\ spent'[f] = spent[f]
      /\ family'[c.f] # NoFamily /\ family'[c.f].revoked = family[c.f].revoked
      /\ latest'[c.f] = c.new
  BY RotateWrites
<1>3. Usable' = Usable
  BY <1>1, <1>2 DEF Usable
<1>4. Past' = Past
  BY <1>1, <1>2 DEF Past
<1>5. c.f \in Usable /\ latest'[c.f] \notin spent[c.f] \cup {latest[c.f]}
  BY <1>1, <1>2 DEF Usable, Seen
<1>6. spent' = [spent EXCEPT ![c.f] = spent[c.f] \cup {latest[c.f]}]
  BY <1>1 DEF RotateSession
<1>7. Sessions!Exchange(c.f)
  BY <1>3, <1>4, <1>5, <1>6 DEF Sessions!Exchange, Usable, Past
<1> QED
  BY <1>1, <1>2, <1>7 DEF Sessions!FamiliesNext

LEMMA FamiliesStep ==
  ASSUME TypeOK, SessionInv, [Next]_vars
  PROVE  [Sessions!FamiliesNext]_(Sessions!familiesVars)
<1>1. CASE UNCHANGED <<family, latest, spent>>
  BY <1>1, EndingStep DEF Usable
<1>2. ASSUME NEW c \in Timely, Script(c), ~UNCHANGED <<family, latest, spent>>
      PROVE  [Sessions!FamiliesNext]_(Sessions!familiesVars)
  <2>1. c \in wire /\ clock - c.now <= MaxDelay
    BY DEF Timely
  <2>2. CASE CreateSession(c)
    BY <2>1, <2>2, BeginsFamily
  <2>3. CASE RotateSession(c)
    BY <2>1, <2>3, ExchangesToken
  <2>4. CASE RotateReused(c) \/ RotateEnds(c) \/ RevokeSessionFamily(c) \/ RevokeSessionUser(c)
    <3> PICK fs \in SUBSET Families : Revoke(fs) /\ \A f \in fs : family[f] # NoFamily
      <4>1. CASE RevokeSessionUser(c)
        <5>1. ActiveIn(c.u, c.now) \in SUBSET Families /\ \A f \in ActiveIn(c.u, c.now) : family[f] # NoFamily
          BY DEF ActiveIn, Listed, Over
        <5>2. Revoke(ActiveIn(c.u, c.now))
          BY <4>1 DEF RevokeSessionUser
        <5> QED
          BY <5>1, <5>2
      <4>2. CASE RotateReused(c) \/ RotateEnds(c) \/ RevokeSessionFamily(c)
        <5>1. c.f \in Families /\ Revoke({c.f}) /\ family[c.f] # NoFamily
          BY <2>1, <4>2, CommandFacts DEF TypeOK, RotateReused, RotateEnds, RevokeSessionFamily, Open
        <5> QED
          BY <5>1
      <4> QED
        BY <2>4, <4>1, <4>2
    <3>1. /\ \A f \in Families \ fs : family'[f] = family[f]
          /\ \A f \in fs : family'[f] # NoFamily /\ family'[f].revoked
      BY RevokeFacts
    <3>2. UNCHANGED <<latest, spent>>
      BY <2>4 DEF RotateReused, RotateEnds, RevokeSessionFamily, RevokeSessionUser, historyVars
    <3>3. Usable' \subseteq Usable
      BY <3>1 DEF Usable
    <3> QED
      BY <3>2, <3>3, EndingStep
  <2>5. CASE CreateRefused(c) \/ RotateRefused(c) \/ RevokeUserRefused(c) \/ ActiveSessionFamilies(c)
    BY <1>2, <2>5 DEF CreateRefused, RotateRefused, RevokeUserRefused, ActiveSessionFamilies, redisVars, historyVars
  <2> QED
    BY <1>2, <2>2, <2>3, <2>4, <2>5 DEF Script
<1>3. CASE Tick
  <2>1. UNCHANGED <<latest, spent>> /\ \A f \in Families : family'[f] \in {family[f], NoFamily}
    BY <1>3 DEF Tick, historyVars
  <2> QED
    BY <2>1, EndingStep DEF Usable
<1>4. CASE Call \/ (\E c \in wire : Abandon(c)) \/ UNCHANGED vars
  <2>1. UNCHANGED <<family, latest, spent>>
    BY <1>4 DEF Call, Start, RevokeUser, ActiveFamilies, Rotate, RevokeFamily, Abandon, redisVars, historyVars, vars
  <2> QED
    BY <1>1, <2>1
<1> QED
  BY <1>1, <1>2, <1>3, <1>4 DEF Next

\* The scripts implement the abstract store: tokens are exchanged once, in a
\* chain, and a family that was revoked, replayed or expired never comes back.
THEOREM FamiliesTheorem == Spec => ImplementsFamilies
<1>1. Init => Sessions!FamiliesInit
  BY DEF Init, Sessions!FamiliesInit
<1>2. TypeOK /\ SessionInv /\ [Next]_vars => [Sessions!FamiliesNext]_(Sessions!familiesVars)
  BY FamiliesStep
<1> QED
  BY <1>1, <1>2, SessionInvariant, PTL DEF Spec, ImplementsFamilies, Sessions!FamiliesSpec
=============================================================================
