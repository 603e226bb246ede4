---------------------------- MODULE SessionFamilies ----------------------------
(***************************************************************************)
(* What a store of refresh-token families promises its callers: a family   *)
(* is started once, has one current token at a time, which is replaced by  *)
(* a token never seen before, and once it is over it never comes back.     *)
(***************************************************************************)
CONSTANTS Families, Tokens

VARIABLES
    live,      \* families whose current token may be exchanged
    current,   \* per family, the token that may be exchanged
    over,      \* families that ended: revoked, replayed or expired
    spent      \* per family, the tokens that were exchanged

familiesVars == <<live, current, over, spent>>

FamiliesInit ==
    /\ live = {} /\ over = {}
    /\ spent = [f \in Families |-> {}]

Begin(f) ==
    /\ f \notin live \cup over
    /\ live' = live \cup {f}
    /\ UNCHANGED <<over, spent>>

Exchange(f) ==
    /\ f \in live
    /\ current'[f] \notin spent[f] \cup {current[f]}
    /\ spent' = [spent EXCEPT ![f] = @ \cup {current[f]}]
    /\ UNCHANGED <<live, over>>

\* Several families may end at once.
End(fs) ==
    /\ fs \subseteq live
    /\ live' = live \ fs /\ over' = over \cup fs
    /\ UNCHANGED spent

FamiliesNext ==
    \/ \E f \in Families : (Begin(f) \/ Exchange(f)) /\ \A g \in Families \ {f} : current'[g] = current[g]
    \/ \E fs \in SUBSET Families : End(fs) /\ UNCHANGED current

FamiliesSpec == FamiliesInit /\ [][FamiliesNext]_familiesVars
================================================================================
