------------------------------ MODULE AtLeastOnce ------------------------------
(***************************************************************************)
(* What reliable delivery promises about a durable queue: the broker drops *)
(* a message only after the message was handled or a copy of it was stored *)
(* on the dead-letter stream.  Handling twice, and handling as well as     *)
(* dead-lettering, are allowed: the code claims neither exactly-once nor   *)
(* atomic settlement.                                                      *)
(***************************************************************************)
CONSTANT Messages

VARIABLES
    owed,     \* messages the broker keeps because nobody settled them
    served,   \* messages a handler accepted at least once
    buried    \* messages with a copy on the dead-letter stream

queueVars == <<owed, served, buried>>

QueueInit == owed \subseteq Messages /\ served = {} /\ buried = {}

\* A settled message may still be handled by a consumer that was given it
\* earlier, and a delayed publish may still arrive: neither asks for owed.
Serve(m) == served' = served \cup {m} /\ UNCHANGED <<owed, buried>>

Bury(m) == buried' = buried \cup {m} /\ UNCHANGED <<owed, served>>

Settle(m) ==
    /\ m \in owed /\ m \in served \cup buried
    /\ owed' = owed \ {m}
    /\ UNCHANGED <<served, buried>>

QueueNext == \E m \in Messages : Serve(m) \/ Bury(m) \/ Settle(m)

QueueSpec == QueueInit /\ [][QueueNext]_queueVars
================================================================================
