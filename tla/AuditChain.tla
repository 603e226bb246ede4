----------------------------- MODULE AuditChain -----------------------------
(***************************************************************************)
(* The tamper-evident audit log: HashChainAuditSink numbers the records of *)
(* concurrent requests, links each to the one before by its digest and     *)
(* writes it as a line, directly or through EncryptedAuditWriter, whose    *)
(* key can be rotated meanwhile; the verifiers read the lines back.        *)
(*                                                                         *)
(* The deployment's writer is external: a write may fail, or be short,     *)
(* after none, some or all bytes of the line have reached the log.  A      *)
(* digest is the sequence of what went into it, so two digests are equal   *)
(* only if all their inputs are.  Nonces are taken to be distinct.         *)
(***************************************************************************)
EXTENDS Integers, Sequences

CONSTANTS
    Writers,     \* requests that have a record to write, named after the request
    Invalid,     \* those whose record validation or the size limit refuses
    Keys,        \* encryption keys
    Unreadable,  \* a line that is no envelope
    MaxLines     \* bound on the lines of the log

Chains == Seq(Nat \X Writers)
Envelopes == [sequence : Nat, previous : Chains, record : Writers, hash : Chains, key : Keys]

ASSUME AuditAssumption ==
    /\ Invalid \subseteq Writers /\ MaxLines \in Nat /\ Keys # {}
    /\ Unreadable \notin Envelopes

VARIABLES
    sequence,  \* of the sink
    previous,  \* of the sink: the digest of the last record
    holder,    \* {}, or the request that holds the sink's gate
    audit,     \* where each WriteSecurityAudit call is
    key,       \* of the encrypting writer
    log,       \* the lines of the log
    open,      \* its last line has no line feed yet
    acked,     \* history: the records whose call returned nil, in order
    spoiled    \* history: a failed write has left bytes in the log

auditVars == <<sequence, previous, holder, audit, key, log, open, acked, spoiled>>

AuditTypeOK ==
    /\ sequence \in Nat /\ previous \in Chains
    /\ holder \in SUBSET Writers
    /\ audit \in [Writers -> {"idle", "waiting", "holding"}]
    /\ key \in Keys
    /\ log \in Seq(Envelopes \cup {Unreadable})
    /\ open \in BOOLEAN /\ spoiled \in BOOLEAN
    /\ acked \in Seq(Writers)

AuditInit ==
    /\ sequence = 0 /\ previous = <<>> /\ holder = {}
    /\ audit = [r \in Writers |-> "idle"]
    /\ key \in Keys
    /\ log = <<>> /\ open = FALSE /\ acked = <<>> /\ spoiled = FALSE

AuditChainDigest(before, number, record) == Append(before, <<number, record>>)

(***************************************************************************)
(* The log                                                                 *)
(***************************************************************************)

\* The bytes of a line that a write can leave: a line that follows one without
\* a line feed is part of it, and the two together are no envelope.
Wrote(line, bytes) ==
    /\ log' = IF bytes = "none" THEN log
              ELSE IF open THEN [log EXCEPT ![Len(log)] = Unreadable]
              ELSE Append(log, IF bytes = "some" THEN Unreadable ELSE line)
    /\ open' = IF bytes = "none" THEN open ELSE bytes # "all"
    /\ Len(log') <= MaxLines

Partly == {"none", "some", "unterminated", "all"}

\* verifyLine, on a line whose predecessors were accepted.
VerifyLine(i) ==
    /\ log[i] # Unreadable /\ log[i].record \notin Invalid
    /\ log[i].sequence = i
    /\ log[i].previous = IF i = 1 THEN <<>> ELSE log[i - 1].hash
    /\ log[i].hash = AuditChainDigest(log[i].previous, log[i].sequence, log[i].record)

\* VerifyHashChain, and VerifyEncryptedHashChain with these keys, accept the log.
Accepts(keyring) == \A i \in 1..Len(log) : VerifyLine(i) /\ log[i].key \in keyring

(***************************************************************************)
(* Actions                                                                 *)
(***************************************************************************)

\* recordSecurityAudit calls the sink; a context that is done already ends the call.
WriteSecurityAudit(r) ==
    /\ audit[r] = "idle"
    /\ audit' = [audit EXCEPT ![r] = "waiting"]
    /\ UNCHANGED <<sequence, previous, holder, key, log, open, acked, spoiled>>

\* The context ends while the call waits for the gate.
AuditExpires(r) ==
    /\ audit[r] = "waiting"
    /\ audit' = [audit EXCEPT ![r] = "idle"]
    /\ UNCHANGED <<sequence, previous, holder, key, log, open, acked, spoiled>>

TakesGate(r) ==
    /\ audit[r] = "waiting" /\ holder = {}
    /\ holder' = {r}
    /\ audit' = [audit EXCEPT ![r] = "holding"]
    /\ UNCHANGED <<sequence, previous, key, log, open, acked, spoiled>>

Leaves(r) ==
    /\ holder' = {}
    /\ audit' = [audit EXCEPT ![r] = "idle"]

\* The context has ended before the gate was taken, or the record is invalid,
\* or its line too long.
Refuses(r) ==
    /\ audit[r] = "holding"
    /\ Leaves(r)
    /\ UNCHANGED <<sequence, previous, key, log, open, acked, spoiled>>

Line(r) ==
    LET number == sequence + 1
    IN  [sequence |-> number, previous |-> previous, record |-> r,
         hash |-> AuditChainDigest(previous, number, r), key |-> key]

\* The writer takes the whole line; the sink moves on.
Writes(r) ==
    /\ audit[r] = "holding" /\ r \notin Invalid
    /\ Wrote(Line(r), "all")
    /\ sequence' = sequence + 1 /\ previous' = Line(r).hash
    /\ acked' = Append(acked, r)
    /\ Leaves(r)
    /\ UNCHANGED <<key, spoiled>>

\* Fault: the sink moves on before the write.
WriteFailsLate(r) ==
    /\ audit[r] = "holding" /\ r \notin Invalid
    /\ \E bytes \in Partly : Wrote(Line(r), bytes) /\ spoiled' = (spoiled \/ bytes # "none")
    /\ sequence' = sequence + 1 /\ previous' = Line(r).hash
    /\ Leaves(r)
    /\ UNCHANGED <<key, acked>>

\* The write fails, panics or is short, whatever of the line has arrived; the
\* sink stays where it was, and its next record has the same number.
WriteFails(r) ==
    /\ audit[r] = "holding" /\ r \notin Invalid
    /\ \E bytes \in Partly : Wrote(Line(r), bytes) /\ spoiled' = (spoiled \/ bytes # "none")
    /\ Leaves(r)
    /\ UNCHANGED <<sequence, previous, key, acked>>

\* RotateKey waits for a write under way: a line is of one key.
RotateKey(k) ==
    /\ key # k
    /\ key' = k
    /\ UNCHANGED <<sequence, previous, holder, audit, log, open, acked, spoiled>>

AuditNext ==
    \/ \E r \in Writers :
          \/ WriteSecurityAudit(r) \/ AuditExpires(r) \/ TakesGate(r) \/ Refuses(r)
          \/ Writes(r) \/ WriteFails(r)
    \/ \E k \in Keys : RotateKey(k)

AuditSpec == AuditInit /\ [][AuditNext]_auditVars

(***************************************************************************)
(* Properties                                                              *)
(***************************************************************************)
Records == [i \in 1..Len(log) |-> log[i].record]

\* The log tells what was acknowledged (security_audit_chain.go:336).  As long
\* as no failed write has left bytes the verifier accepts it and it holds the
\* acknowledged records, in order; and whatever failed writes have left, a log
\* that is accepted holds those records and at most one more, its last, whose
\* write failed when it had arrived: what is written after a damage can not
\* make the log look whole.
LogTellsAcknowledged ==
    /\ ~spoiled => Accepts(Keys) /\ Records = acked
    /\ Accepts(Keys) => Records = acked \/ \E r \in Writers : Records = Append(acked, r)
=============================================================================
