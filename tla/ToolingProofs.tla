----------------------------- MODULE ToolingProofs -----------------------------
(***************************************************************************)
(* Proofs about the publication of a generated SDK, for any number of      *)
(* edits, tasks and failing writes, about the release of the server, for   *)
(* any number of edits, commits, tasks and failures, about the release     *)
(* evidence, for any set of its kinds and any number of runs and edits,    *)
(* and about the contract gate, for any number of edits and releases.      *)
(*                                                                         *)
(* Of an SDK, only a generator publishes, and in one order; what it found  *)
(* is still there as far as it has not replaced it; a manifest that was    *)
(* noted or written is of one document.                                    *)
(***************************************************************************)
EXTENDS SDKPublication, ServerRelease, EvidencePipeline, OpenAPICompat, SequenceTheorems, TLAPS

SDKKinds == SDKTasks \cup {"none"}
Clients == {NoFile} \cup {GenerateSource(d) : d \in Documents}
ManifestOK(m) == m # NoFile => m.client = GenerateSource(m.document) /\ m.version = VersionOf(m.document)

\* What a process remembers, and the step it is at.
Task(q) == TaskOf(q.kind, q.fetch)
OnStep(q, step) == q.pc > 0 /\ Task(q)[q.pc] = step
ProcessOK(q) ==
    /\ q \in [kind : SDKKinds, fetch : BOOLEAN, pc : Nat, pin : {q.pin}, parent : {q.parent}, document : {q.document},
              source : Clients, found : {q.found}, commit : {q.commit}, manifest : {q.manifest}]
    /\ IF q.kind = "none" THEN q.pc = 0 ELSE q.pc \in 1..Len(Task(q))
    /\ ManifestOK(q.manifest)

SdkOK(s) ==
    /\ s \in [client : Clients, version : {s.version}, manifest : {s.manifest}]
    /\ ManifestOK(s.manifest)

\* What a generator has found is still there, as far as it has not been replaced.
Remembers(q, s) ==
    /\ OnStep(q, "publishClient") => q.found.client = s.client /\ q.found.version = s.version
    /\ OnStep(q, "publishVersion") => q.found.client \in Clients /\ q.found.version = s.version

PublicationInv ==
    /\ project = [external |-> project.external, document |-> project.document, pin |-> project.pin, ref |-> project.ref,
                  head |-> project.head]
    /\ project.external \in BOOLEAN
    /\ SdkOK(sdk)
    /\ process = [p \in Processes |-> process[p]]
    /\ \A p \in Processes : ProcessOK(process[p]) /\ Remembers(process[p], sdk)
    /\ \A p, o \in Processes : process[p].kind = "generate" /\ process[o].kind = "generate" => p = o
    /\ publication.end = "failed" => \A p \in Processes : process[p].kind # "generate"
    /\ FailureLeavesNothing

\* The steps of all tasks but the last three of a generator.
Plain == {"ls-remote", "init", "fetch", "cat-file", "show", "read", "format", "compare", "commit", "fork", "join",
          "version", "client", "writeManifest", "recorded", "verifyManifest"}

LEMMA ConcatPlain == ASSUME NEW S, NEW a \in Seq(S), NEW b \in Seq(S) PROVE a \o b \in Seq(S)
OBVIOUS

LEMMA OnePlain == ASSUME NEW S, NEW x \in S PROVE <<x>> \in Seq(S)
OBVIOUS

LEMMA TwoPlain == ASSUME NEW S, NEW x \in S, NEW y \in S PROVE <<x, y>> \in Seq(S)
OBVIOUS

LEMMA ResolvePlain == ASSUME NEW f \in BOOLEAN PROVE ResolveProjectDocument(f) \in Seq(Plain)
<1>1. <<>> \in Seq(Plain) /\ <<"read">> \in Seq(Plain)
  BY OnePlain DEF Plain
<1>2. <<"cat-file", "show">> \in Seq(Plain)
  BY TwoPlain DEF Plain
<1>3. <<"ls-remote", "init", "fetch">> \in Seq(Plain)
  <2> PICK P : P = Plain
    OBVIOUS
  <2>1. "ls-remote" \in P /\ "init" \in P /\ "fetch" \in P
    BY DEF Plain
  <2> HIDE DEF Plain
  <2> QED
    BY <2>1
<1> PICK a \in Seq(Plain) : a = <<"ls-remote", "init", "fetch">>
  BY <1>3
<1> PICK b \in Seq(Plain) : b = <<"cat-file", "show">>
  BY <1>2
<1> PICK c \in Seq(Plain) : c = <<>>
  BY <1>1
<1>4. a \o b \in Seq(Plain) /\ c \o b \in Seq(Plain)
  BY ConcatPlain
<1> QED
  BY <1>1, <1>4 DEF ResolveProjectDocument

LEMMA CheckPlain == ASSUME NEW f \in BOOLEAN PROVE CheckSDK(f) \in Seq(Plain)
<1> PICK r \in Seq(Plain) : r = ResolveProjectDocument(f)
  BY ResolvePlain
<1>1. <<"format", "compare">> \in Seq(Plain)
  BY TwoPlain DEF Plain
<1> PICK b \in Seq(Plain) : b = <<"format", "compare">>
  BY <1>1
<1>2. r \o b \in Seq(Plain)
  BY ConcatPlain
<1> QED
  BY <1>2 DEF CheckSDK

LEMMA ManifestPlain == BuildSDKReleaseManifest \in Seq(Plain)
<1> PICK r \in Seq(Plain) : r = ResolveProjectDocument(FALSE)
  BY ResolvePlain
<1>1. <<"version", "client">> \in Seq(Plain)
  BY TwoPlain DEF Plain
<1> PICK b \in Seq(Plain) : b = <<"version", "client">>
  BY <1>1
<1>2. r \o b \in Seq(Plain)
  BY ConcatPlain
<1> QED
  BY <1>2 DEF BuildSDKReleaseManifest

LEMMA OtherTasks ==
  ASSUME NEW k \in SDKTasks \ {"generate"}, NEW f \in BOOLEAN
  PROVE  TaskOf(k, f) \in Seq(Plain)
<1> PICK c \in Seq(Plain) : c = CheckSDK(FALSE)
  BY CheckPlain
<1> PICK b \in Seq(Plain) : b = BuildSDKReleaseManifest
  BY ManifestPlain
<1>1. <<"commit", "fork">> \in Seq(Plain) /\ <<"join", "recorded">> \in Seq(Plain)
  BY TwoPlain DEF Plain
<1>2. <<"join">> \in Seq(Plain) /\ <<"writeManifest">> \in Seq(Plain) /\ <<"fork">> \in Seq(Plain)
      /\ <<"verifyManifest">> \in Seq(Plain)
  BY OnePlain DEF Plain
<1>3. CASE k = "materialize"
  BY <1>3, ResolvePlain DEF TaskOf
<1>4. CASE k = "check"
  BY <1>4, CheckPlain DEF TaskOf
<1>5. ASSUME NEW x \in Seq(Plain), NEW y \in Seq(Plain), NEW z \in Seq(Plain)
      PROVE  x \o c \o y \o b \o z \in Seq(Plain)
  <2> PICK t \in Seq(Plain) : t = x \o c
    BY ConcatPlain
  <2> PICK u \in Seq(Plain) : u = t \o y
    BY ConcatPlain
  <2> PICK v \in Seq(Plain) : v = u \o b
    BY ConcatPlain
  <2>1. v \o z \in Seq(Plain)
    BY ConcatPlain
  <2> QED
    BY <2>1
<1>6. CASE k = "prepare"
  <2> PICK x \in Seq(Plain) : x = <<"commit", "fork">>
    BY <1>1
  <2> PICK y \in Seq(Plain) : y = <<"join">>
    BY <1>2
  <2> PICK z \in Seq(Plain) : z = <<"writeManifest">>
    BY <1>2
  <2>1. TaskOf(k, f) = x \o c \o y \o b \o z
    BY <1>6 DEF TaskOf
  <2> PICK t : t = x \o c \o y \o b \o z
    OBVIOUS
  <2>2. t \in Seq(Plain)
    BY <1>5
  <2>3. t = TaskOf(k, f)
    BY <2>1
  <2> QED
    BY <2>2, <2>3
<1>7. CASE k = "verify"
  <2> PICK x \in Seq(Plain) : x = <<"fork">>
    BY <1>2
  <2> PICK y \in Seq(Plain) : y = <<"join", "recorded">>
    BY <1>1
  <2> PICK z \in Seq(Plain) : z = <<"verifyManifest">>
    BY <1>2
  <2>1. TaskOf(k, f) = x \o c \o y \o b \o z
    BY <1>7 DEF TaskOf
  <2> PICK t : t = x \o c \o y \o b \o z
    OBVIOUS
  <2>2. t \in Seq(Plain)
    BY <1>5
  <2>3. t = TaskOf(k, f)
    BY <2>1
  <2> QED
    BY <2>2, <2>3
<1> QED
  BY <1>3, <1>4, <1>6, <1>7 DEF SDKTasks

\* Only a generator publishes, and it does so in this order.
LEMMA Order ==
  ASSUME NEW k \in SDKTasks, NEW f \in BOOLEAN, NEW i \in 1..Len(TaskOf(k, f))
  PROVE  LET t == TaskOf(k, f) IN
         /\ t[i] \in {"snapshot", "publishClient", "publishVersion"} => k = "generate"
         /\ t[i] = "publishClient" => i > 1 /\ t[i - 1] = "snapshot"
         /\ t[i] = "publishVersion" => i > 1 /\ t[i - 1] = "publishClient"
<1>1. CASE k # "generate"
  <2> PICK t : t = TaskOf(k, f)
    OBVIOUS
  <2>1. t \in Seq(Plain)
    BY <1>1, OtherTasks
  <2>2. t[i] \in Plain
    BY <2>1
  <2> QED
    BY <2>2 DEF Plain
<1>2. CASE k = "generate"
  <2> PICK r : r = ResolveProjectDocument(f)
    OBVIOUS
  <2> PICK u : u = <<"format", "snapshot", "publishClient", "publishVersion">>
    OBVIOUS
  <2> PICK t : t = TaskOf(k, f)
    OBVIOUS
  <2>1. r \in Seq(Plain)
    BY ResolvePlain
  <2>2. t = r \o u
    BY <1>2 DEF TaskOf
  <2>3. Len(u) = 4 /\ u[1] = "format" /\ u[2] = "snapshot" /\ u[3] = "publishClient" /\ u[4] = "publishVersion"
    OBVIOUS
  <2> PICK n \in Nat : n = Len(r)
    BY <2>1
  <2>12. u \in Seq({"format", "snapshot", "publishClient", "publishVersion"})
    OBVIOUS
  <2>4. Len(t) = n + 4
    BY <2>1, <2>2, <2>3, <2>12
  <2>5. \A j \in 1..n : t[j] = r[j] /\ r[j] \in Plain
    BY <2>1, <2>2, <2>3, <2>12
  <2>6. t[n + 1] = "format" /\ t[n + 2] = "snapshot" /\ t[n + 3] = "publishClient" /\ t[n + 4] = "publishVersion"
    BY <2>1, <2>2, <2>3, <2>12
  <2>7. i \in 1..n \/ i = n + 1 \/ i = n + 2 \/ i = n + 3 \/ i = n + 4
    BY <2>4
  <2>8. n + 3 > 1 /\ n + 3 - 1 = n + 2 /\ n + 4 > 1 /\ n + 4 - 1 = n + 3
    OBVIOUS
  <2>9. CASE i \in 1..n
    BY <1>2, <2>5, <2>9 DEF Plain
  <2>10. CASE i \in {n + 1, n + 2}
    BY <1>2, <2>6, <2>10
  <2>11. CASE i \in {n + 3, n + 4}
    BY <1>2, <2>6, <2>8, <2>11
  <2> QED
    BY <2>7, <2>9, <2>10, <2>11
<1> QED
  BY <1>1, <1>2

LEMMA LineStays ==
  ASSUME project.external' = project.external, NEW q, NEW s, NEW step
  PROVE  /\ OnStep(q, step)' <=> OnStep(q, step)
         /\ ProcessOK(q)' <=> ProcessOK(q)
         /\ Remembers(q, s)' <=> Remembers(q, s)
<1>1. Task(q)' = Task(q)
  BY DEF Task, TaskOf, ResolveProjectDocument, CheckSDK, BuildSDKReleaseManifest
<1>2. \A t : OnStep(q, t)' <=> OnStep(q, t)
  BY <1>1 DEF OnStep
<1>3. ProcessOK(q)' <=> ProcessOK(q)
  BY <1>1 DEF ProcessOK
<1> QED
  BY <1>2, <1>3 DEF Remembers

LEMMA RestOK ==
  /\ ProcessOK(AtRest) /\ AtRest.kind = "none"
  /\ \A step : ~OnStep(AtRest, step)
BY DEF ProcessOK, AtRest, OnStep, SDKKinds, Clients, ManifestOK

LEMMA StepKinds ==
  ASSUME NEW q, ProcessOK(q), NEW step \in {"snapshot", "publishClient", "publishVersion"}, OnStep(q, step)
  PROVE  q.kind = "generate"
<1>1. q.kind \in SDKTasks /\ q.fetch \in BOOLEAN /\ q.pc \in 1..Len(Task(q)) /\ Task(q)[q.pc] = step
  BY DEF ProcessOK, OnStep, SDKKinds
<1> PICK k \in SDKTasks : k = q.kind
  BY <1>1
<1> PICK f \in BOOLEAN : f = q.fetch
  BY <1>1
<1> PICK i : i = q.pc
  OBVIOUS
<1>2. i \in 1..Len(TaskOf(k, f)) /\ TaskOf(k, f)[i] = step
  BY <1>1 DEF Task
<1> QED
  BY <1>2, Order

LEMMA TaskIsLong ==
  ASSUME NEW k \in SDKTasks, NEW f \in BOOLEAN
  PROVE  Len(TaskOf(k, f)) \in Nat
<1>1. CASE k # "generate"
  <2> PICK t \in Seq(Plain) : t = TaskOf(k, f)
    BY <1>1, OtherTasks
  <2>1. Len(t) \in Nat
    OBVIOUS
  <2> QED
    BY <2>1
<1>2. CASE k = "generate"
  <2> PICK u : u = <<"format", "snapshot", "publishClient", "publishVersion">>
    OBVIOUS
  <2>1. u \in Seq({"format", "snapshot", "publishClient", "publishVersion"})
    OBVIOUS
  <2> PICK r \in Seq(Plain) : r = ResolveProjectDocument(f)
    BY ResolvePlain
  <2>2. Len(r \o u) \in Nat
    BY <2>1
  <2> QED
    BY <1>2, <2>2 DEF TaskOf
<1> QED
  BY <1>1, <1>2

\* A process goes on: it remembers what it did, and knows where it comes from.
LEMMA DoneOK ==
  ASSUME NEW q, ProcessOK(q), q.kind # "none"
  PROVE  LET r == Done(q) IN
         /\ ProcessOK(r) /\ r.kind \in {q.kind, "none"}
         /\ OnStep(r, "publishClient") => OnStep(q, "snapshot") /\ r.found = q.found
         /\ OnStep(r, "publishVersion") => OnStep(q, "publishClient") /\ r.found = q.found
<1>1. q.kind \in SDKTasks /\ q.fetch \in BOOLEAN /\ q.pc \in 1..Len(Task(q)) /\ q.pc \in Nat
  BY DEF ProcessOK, SDKKinds
<1>2. CASE q.pc = Len(Task(q))
  BY <1>2, RestOK DEF Done, Task
<1>3. CASE q.pc # Len(Task(q))
  <2> PICK n : n = q.pc + 1
    OBVIOUS
  <2> PICK r : r = [q EXCEPT !.pc = n]
    OBVIOUS
  <2>1. Done(q) = r
    BY <1>3 DEF Done, Task
  <2>2. n \in Nat /\ n > 1 /\ n - 1 = q.pc
    BY <1>1
  <2>3. r.kind = q.kind /\ r.fetch = q.fetch /\ r.pc = n /\ r.found = q.found /\ r.manifest = q.manifest
    BY DEF ProcessOK
  <2>4. r \in [kind : SDKKinds, fetch : BOOLEAN, pc : Nat, pin : {r.pin}, parent : {r.parent}, document : {r.document},
               source : Clients, found : {r.found}, commit : {r.commit}, manifest : {r.manifest}]
    BY <2>2 DEF ProcessOK
  <2> PICK k \in SDKTasks, f \in BOOLEAN : k = q.kind /\ f = q.fetch
    BY <1>1
  <2> PICK t : t = TaskOf(k, f)
    OBVIOUS
  <2>5. Task(q) = t /\ Task(r) = t
    BY <2>3 DEF Task
  <2> PICK l : l = Len(t)
    OBVIOUS
  <2>6. l \in Nat
    BY TaskIsLong
  <2>7. n \in 1..l
    BY <1>1, <1>3, <2>2, <2>5, <2>6
  <2>8. ManifestOK(r.manifest)
    BY <2>3 DEF ProcessOK
  <2>9. ProcessOK(r)
    BY <1>1, <2>3, <2>4, <2>5, <2>7, <2>8, q.kind # "none" DEF ProcessOK
  <2>10. /\ t[n] = "publishClient" => t[n - 1] = "snapshot"
         /\ t[n] = "publishVersion" => t[n - 1] = "publishClient"
    BY <2>7, Order
  <2>11. q.pc > 0
    BY <1>1
  <2>12. /\ OnStep(r, "publishClient") => OnStep(q, "snapshot")
         /\ OnStep(r, "publishVersion") => OnStep(q, "publishClient")
    BY <2>2, <2>3, <2>5, <2>10, <2>11 DEF OnStep
  <2> QED
    BY <2>1, <2>3, <2>9, <2>12
<1> QED
  BY <1>2, <1>3

\* One process takes a step.
LEMMA Move ==
  ASSUME PublicationInv, NEW p \in Processes, NEW r, ProcessOK(r), process' = [process EXCEPT ![p] = r],
         UNCHANGED project, SdkOK(sdk)', Remembers(r, sdk'),
         r.kind = "generate" => \A o \in Processes : process[o].kind = "generate" => o = p,
         \/ sdk'.client = sdk.client /\ sdk'.version = sdk.version
         \/ process[p].kind = "generate",
         publication'.end = "failed" => /\ r.kind # "generate"
                                        /\ process[p].kind = "generate" \/ publication' = publication,
         FailureLeavesNothing'
  PROVE  PublicationInv'
<1>1. process'[p] = r /\ process' = [o \in Processes |-> process'[o]]
      /\ \A o \in Processes : o # p => process'[o] = process[o]
  BY DEF PublicationInv
<1>2. \A o \in Processes : ProcessOK(process[o]) /\ Remembers(process[o], sdk)
  BY DEF PublicationInv
<1>3. ASSUME NEW o \in Processes PROVE ProcessOK(process'[o]) /\ Remembers(process'[o], sdk')
  <2>1. CASE o = p
    BY <1>1, <2>1
  <2>2. CASE o # p
    <3> PICK q : q = process[o]
      OBVIOUS
    <3>1. process'[o] = q /\ ProcessOK(q) /\ Remembers(q, sdk)
      BY <1>1, <1>2, <2>2
    <3>2. CASE sdk'.client = sdk.client /\ sdk'.version = sdk.version
      BY <3>1, <3>2 DEF Remembers
    <3>3. CASE process[p].kind = "generate"
      <4>1. q.kind # "generate"
        BY <2>2, <3>3 DEF PublicationInv
      <4>2. ~OnStep(q, "publishClient") /\ ~OnStep(q, "publishVersion")
        BY <3>1, <4>1, StepKinds
      <4> QED
        BY <3>1, <4>2 DEF Remembers
    <3> QED
      BY <3>1, <3>2, <3>3
  <2> QED
    BY <2>1, <2>2
<1>4. ASSUME NEW o \in Processes PROVE (ProcessOK(process[o]) /\ Remembers(process[o], sdk))'
  <2> PICK q : q = process'[o]
    OBVIOUS
  <2> PICK s : s = sdk'
    OBVIOUS
  <2>1. ProcessOK(q) /\ Remembers(q, s)
    BY <1>3
  <2>2. ProcessOK(q)' /\ Remembers(q, s)'
    BY <2>1, LineStays
  <2> QED
    BY <2>2
<1>5. \A a, b \in Processes : process'[a].kind = "generate" /\ process'[b].kind = "generate" => a = b
  <2> SUFFICES ASSUME NEW a \in Processes, NEW b \in Processes, process'[a].kind = "generate", process'[b].kind = "generate"
               PROVE  a = b
    OBVIOUS
  <2> QED
    BY <1>1 DEF PublicationInv
<1>6. publication'.end = "failed" => \A o \in Processes : process'[o].kind # "generate"
  <2> SUFFICES ASSUME publication'.end = "failed", NEW o \in Processes PROVE process'[o].kind # "generate"
    OBVIOUS
  <2> QED
    BY <1>1 DEF PublicationInv
<1> QED
  BY <1>1, <1>4, <1>5, <1>6 DEF PublicationInv

LEMMA LongTail ==
  ASSUME NEW S, NEW a \in Seq(S), NEW b \in Seq(S), Len(b) >= 1
  PROVE  Len(a \o b) >= 1
<1>1. Len(a) \in Nat /\ Len(b) \in Nat /\ Len(a \o b) = Len(a) + Len(b)
  OBVIOUS
<1> QED
  BY <1>1

LEMMA TasksBegin ==
  ASSUME NEW k \in SDKTasks, NEW f \in BOOLEAN
  PROVE  Len(TaskOf(k, f)) >= 1
<1> PICK S : S = Plain \cup {"snapshot", "publishClient", "publishVersion"}
  OBVIOUS
<1>1. \A t : t \in Seq(Plain) => t \in Seq(S)
  OBVIOUS
<1>2. \A t \in Seq(Plain) : Len(t) \in Nat
  OBVIOUS
<1> PICK r \in Seq(Plain) : r = ResolveProjectDocument(f)
  BY ResolvePlain
<1> PICK c \in Seq(Plain) : c = CheckSDK(FALSE)
  BY CheckPlain
<1> PICK b \in Seq(Plain) : b = BuildSDKReleaseManifest
  BY ManifestPlain
<1>3. CASE k = "materialize"
  <2>1. CASE project.external
    <3> PICK y : y = <<"cat-file", "show">>
      OBVIOUS
    <3>1. y \in Seq(Plain) /\ Len(y) >= 1
      BY TwoPlain DEF Plain
    <3> PICK x : x = IF f THEN <<"ls-remote", "init", "fetch">> ELSE <<>>
      OBVIOUS
    <3> PICK T : T = {"ls-remote", "init", "fetch", "cat-file", "show"}
      OBVIOUS
    <3>4. <<>> \in Seq(T) /\ <<"cat-file", "show">> \in Seq(T)
      OBVIOUS
    <3>5. <<"ls-remote", "init", "fetch">> \in Seq(T)
      OBVIOUS
    <3>2. x \in Seq(T) /\ y \in Seq(T)
      BY <3>4, <3>5
    <3>3. Len(x \o y) >= 1
      BY <3>1, <3>2, LongTail
    <3> QED
      BY <1>3, <2>1, <3>3 DEF TaskOf, ResolveProjectDocument
  <2>2. CASE ~project.external
    <3>1. TaskOf(k, f) = <<"read">>
      BY <1>3, <2>2 DEF TaskOf, ResolveProjectDocument
    <3> QED
      BY <3>1
  <2> QED
    BY <2>1, <2>2
<1>4. CASE k = "generate"
  <2> PICK u : u = <<"format", "snapshot", "publishClient", "publishVersion">>
    OBVIOUS
  <2>1. "format" \in S /\ "snapshot" \in S /\ "publishClient" \in S /\ "publishVersion" \in S
    BY DEF Plain
  <2>2. u \in Seq(S) /\ Len(u) = 4
    BY <2>1
  <2>3. Len(r \o u) >= 1
    BY <1>1, <2>2, LongTail
  <2> QED
    BY <1>4, <2>3 DEF TaskOf
<1>5. CASE k = "check"
  <2> PICK u : u = <<"format", "compare">>
    OBVIOUS
  <2>1. u \in Seq(Plain) /\ Len(u) = 2
    BY TwoPlain DEF Plain
  <2>2. Len(r \o u) >= 1
    BY <2>1, LongTail
  <2> QED
    BY <1>5, <2>2 DEF TaskOf, CheckSDK
<1>6. ASSUME NEW x \in Seq(Plain), NEW y \in Seq(Plain), NEW z \in Plain
      PROVE  Len(x \o c \o y \o b \o <<z>>) >= 1
  <2> PICK t \in Seq(Plain) : t = x \o c
    BY ConcatPlain
  <2> PICK u \in Seq(Plain) : u = t \o y
    BY ConcatPlain
  <2> PICK v \in Seq(Plain) : v = u \o b
    BY ConcatPlain
  <2> PICK w : w = <<z>>
    OBVIOUS
  <2>1. w \in Seq(Plain)
    BY OnePlain
  <2>3. Len(w) = 1
    OBVIOUS
  <2>5. 1 >= 1
    OBVIOUS
  <2>4. Len(w) >= 1
    BY <2>3, <2>5
  <2>2. Len(v \o w) >= 1
    BY <2>1, <2>4, LongTail
  <2> QED
    BY <2>2
<1>7. CASE k = "prepare"
  <2> PICK x : x = <<"commit", "fork">>
    OBVIOUS
  <2> PICK y : y = <<"join">>
    OBVIOUS
  <2> PICK z : z = "writeManifest"
    OBVIOUS
  <2>1. x \in Seq(Plain) /\ y \in Seq(Plain) /\ z \in Plain
    BY OnePlain, TwoPlain DEF Plain
  <2>2. Len(x \o c \o y \o b \o <<z>>) >= 1
    BY <1>6, <2>1
  <2> QED
    BY <1>7, <2>2 DEF TaskOf
<1>8. CASE k = "verify"
  <2> PICK x : x = <<"fork">>
    OBVIOUS
  <2> PICK y : y = <<"join", "recorded">>
    OBVIOUS
  <2> PICK z : z = "verifyManifest"
    OBVIOUS
  <2>1. x \in Seq(Plain) /\ y \in Seq(Plain) /\ z \in Plain
    BY OnePlain, TwoPlain DEF Plain
  <2>2. Len(x \o c \o y \o b \o <<z>>) >= 1
    BY <1>6, <2>1
  <2> QED
    BY <1>8, <2>2 DEF TaskOf
<1> QED
  BY <1>3, <1>4, <1>5, <1>7, <1>8 DEF SDKTasks

\* A process that leaves, or goes on from a step that publishes nothing.
LEMMA LeavesOK ==
  ASSUME PublicationInv, NEW p \in Processes, Abort(p), UNCHANGED <<project, sdk>>,
         publication' = publication \/ publication'.end = "verified"
  PROVE  PublicationInv'
<1>1. ProcessOK(AtRest) /\ Remembers(AtRest, sdk') /\ AtRest.kind # "generate"
  BY RestOK DEF Remembers
<1>2. SdkOK(sdk)'
  BY DEF PublicationInv, SdkOK, ManifestOK
<1>3. FailureLeavesNothing'
  BY DEF PublicationInv, FailureLeavesNothing
<1>4. process' = [process EXCEPT ![p] = AtRest]
  BY DEF Abort
<1>5. publication'.end = "failed" => publication' = publication
  OBVIOUS
<1> QED
  BY <1>1, <1>2, <1>3, <1>4, <1>5, Move

LEMMA GoesOn ==
  ASSUME PublicationInv, NEW p \in Processes, NEW step, StepAt(p, step), step \notin {"snapshot", "publishClient"},
         NEW q, ProcessOK(q), q.kind = process[p].kind, q.fetch = process[p].fetch, q.pc = process[p].pc,
         Proceed(p, q), UNCHANGED project, SdkOK(sdk)', sdk'.client = sdk.client, sdk'.version = sdk.version,
         UNCHANGED publication
  PROVE  PublicationInv'
<1> PICK r : r = Done(q)
  OBVIOUS
<1>1. process[p].pc > 0 /\ OnStep(q, step) /\ ProcessOK(process[p])
  BY DEF StepAt, OnStep, Task, PublicationInv
<1>2. q.kind # "none"
  <2>1. process[p].kind = "none" => process[p].pc = 0
    BY <1>1 DEF ProcessOK
  <2> QED
    BY <1>1, <2>1
<1>3. ProcessOK(r) /\ r.kind \in {q.kind, "none"} /\ ~OnStep(r, "publishClient") /\ ~OnStep(r, "publishVersion")
  BY <1>1, <1>2, DoneOK DEF OnStep
<1>4. Remembers(r, sdk')
  BY <1>3 DEF Remembers
<1>5. process' = [process EXCEPT ![p] = r]
  BY DEF Proceed
<1>6. r.kind = "generate" => process[p].kind = "generate"
  BY <1>3
<1>7. r.kind = "generate" => \A o \in Processes : process[o].kind = "generate" => o = p
  BY <1>6 DEF PublicationInv
<1>8. publication'.end = "failed" => r.kind # "generate" /\ publication' = publication
  BY <1>6 DEF PublicationInv
<1>9. FailureLeavesNothing'
  BY DEF PublicationInv, FailureLeavesNothing
<1> QED
  BY <1>3, <1>4, <1>5, <1>7, <1>8, <1>9, Move

LEMMA SameSdk == ASSUME PublicationInv, UNCHANGED sdk PROVE SdkOK(sdk)'
BY DEF PublicationInv, SdkOK, ManifestOK

LEMMA StartOK == ASSUME PublicationInv, NEW p \in Processes, StartSDKTask(p) PROVE PublicationInv'
<1> PICK k \in SDKTasks, f \in BOOLEAN :
       /\ k = "generate" => \A o \in Processes : process[o].kind # "generate"
       /\ process' = [process EXCEPT ![p] = [AtRest EXCEPT !.kind = k, !.fetch = f, !.pc = 1, !.pin = project.pin]]
       /\ publication' = IF k = "generate" THEN Unpublished ELSE publication
  BY DEF StartSDKTask
<1> PICK r : r = [AtRest EXCEPT !.kind = k, !.fetch = f, !.pc = 1, !.pin = project.pin]
  OBVIOUS
<1>1. r.kind = k /\ r.fetch = f /\ r.pc = 1 /\ r.manifest = NoFile
      /\ r \in [kind : SDKKinds, fetch : BOOLEAN, pc : Nat, pin : {r.pin}, parent : {r.parent}, document : {r.document},
               source : Clients, found : {r.found}, commit : {r.commit}, manifest : {r.manifest}]
  BY DEF AtRest, SDKKinds, Clients
<1> PICK l : l = Len(TaskOf(k, f))
  OBVIOUS
<1>2. l >= 1
  BY TasksBegin
<1>3. 1 \in 1..l /\ r.kind # "none"
  <2>1. l \in Nat
    BY TaskIsLong
  <2> QED
    BY <1>1, <1>2, <2>1 DEF SDKTasks
<1>4. Task(r) = TaskOf(k, f)
  BY <1>1 DEF Task
<1>5. ProcessOK(r)
  BY <1>1, <1>3, <1>4 DEF ProcessOK, ManifestOK
<1>6. TaskOf(k, f)[1] \notin {"publishClient", "publishVersion"}
  BY <1>3, Order
<1>7. Remembers(r, sdk')
  BY <1>1, <1>4, <1>6 DEF Remembers, OnStep
<1>8. UNCHANGED <<project, sdk>> /\ SdkOK(sdk)'
  BY SameSdk DEF StartSDKTask
<1>9. publication'.end = "failed" => k # "generate" /\ publication' = publication
  BY DEF Unpublished
<1>10. FailureLeavesNothing'
  BY <1>8, <1>9 DEF PublicationInv, FailureLeavesNothing
<1>11. process' = [process EXCEPT ![p] = r]
  OBVIOUS
<1>12. r.kind = "generate" => \A o \in Processes : process[o].kind = "generate" => o = p
  BY <1>1
<1>13. sdk'.client = sdk.client /\ sdk'.version = sdk.version
  BY <1>8
<1> QED
  BY <1>1, <1>5, <1>7, <1>8, <1>9, <1>10, <1>11, <1>12, <1>13, Move

\* What a process notes down leaves it where it is.
Like(q, r) ==
    r \in [kind : {q.kind}, fetch : {q.fetch}, pc : {q.pc}, pin : {r.pin}, parent : {r.parent}, document : {r.document},
           source : Clients, found : {r.found}, commit : {r.commit}, manifest : {r.manifest}]
Same(q, r) == ProcessOK(r) /\ r.kind = q.kind /\ r.fetch = q.fetch /\ r.pc = q.pc

LEMMA NotesOK ==
  ASSUME NEW q, ProcessOK(q), NEW x, NEW y
  PROVE  /\ Same(q, q)
         /\ Same(q, [q EXCEPT !.document = x]) /\ Same(q, [q EXCEPT !.commit = x])
         /\ Same(q, [q EXCEPT !.pin = x]) /\ Same(q, [q EXCEPT !.pin = x, !.parent = y])
         /\ Same(q, [q EXCEPT !.found = x]) /\ [q EXCEPT !.found = x].found = x
         /\ x \in Clients => Same(q, [q EXCEPT !.source = x])
         /\ ManifestOK(x) => Same(q, [q EXCEPT !.manifest = x])
<1>1. ASSUME NEW r, Like(q, r),
             ManifestOK(r.manifest)
      PROVE  Same(q, r)
  <2>1. r.kind = q.kind /\ r.fetch = q.fetch /\ r.pc = q.pc
    BY <1>1 DEF Like
  <2>2. Task(r) = Task(q)
    BY <2>1 DEF Task
  <2>3. q.kind \in SDKKinds /\ q.fetch \in BOOLEAN /\ q.pc \in Nat
    BY DEF ProcessOK
  <2>4. r \in [kind : SDKKinds, fetch : BOOLEAN, pc : Nat, pin : {r.pin}, parent : {r.parent}, document : {r.document},
               source : Clients, found : {r.found}, commit : {r.commit}, manifest : {r.manifest}]
    BY <1>1, <2>3 DEF Like
  <2> QED
    BY <1>1, <2>1, <2>2, <2>4 DEF Same, ProcessOK
<1>2. /\ Like(q, q)
      /\ ManifestOK(q.manifest)
  BY DEF ProcessOK, Like
<1>3. Same(q, q)
  BY <1>1, <1>2
<1>4. Same(q, [q EXCEPT !.document = x])
  <2> PICK r : r = [q EXCEPT !.document = x]
    OBVIOUS
  <2>1. Like(q, r) /\ r.manifest = q.manifest
    BY <1>2 DEF Like
  <2> QED
    BY <1>1, <1>2, <2>1
<1>5. Same(q, [q EXCEPT !.commit = x])
  <2> PICK r : r = [q EXCEPT !.commit = x]
    OBVIOUS
  <2>1. Like(q, r) /\ r.manifest = q.manifest
    BY <1>2 DEF Like
  <2> QED
    BY <1>1, <1>2, <2>1
<1>6. Same(q, [q EXCEPT !.pin = x])
  <2> PICK r : r = [q EXCEPT !.pin = x]
    OBVIOUS
  <2>1. Like(q, r) /\ r.manifest = q.manifest
    BY <1>2 DEF Like
  <2> QED
    BY <1>1, <1>2, <2>1
<1>7. Same(q, [q EXCEPT !.pin = x, !.parent = y])
  <2> PICK r : r = [q EXCEPT !.pin = x, !.parent = y]
    OBVIOUS
  <2>1. Like(q, r) /\ r.manifest = q.manifest
    BY <1>2 DEF Like
  <2> QED
    BY <1>1, <1>2, <2>1
<1>8. Same(q, [q EXCEPT !.found = x]) /\ [q EXCEPT !.found = x].found = x
  <2> PICK r : r = [q EXCEPT !.found = x]
    OBVIOUS
  <2>1. Like(q, r) /\ r.manifest = q.manifest /\ r.found = x
    BY <1>2 DEF Like
  <2> QED
    BY <1>1, <1>2, <2>1
<1>9. ASSUME x \in Clients PROVE Same(q, [q EXCEPT !.source = x])
  <2> PICK r : r = [q EXCEPT !.source = x]
    OBVIOUS
  <2>1. Like(q, r) /\ r.manifest = q.manifest
    BY <1>2, <1>9 DEF Like
  <2> QED
    BY <1>1, <1>2, <2>1
<1>10. ASSUME ManifestOK(x) PROVE Same(q, [q EXCEPT !.manifest = x])
  <2> PICK r : r = [q EXCEPT !.manifest = x]
    OBVIOUS
  <2>1. Like(q, r) /\ r.manifest = x
    BY <1>2 DEF Like
  <2> QED
    BY <1>1, <1>10, <2>1
<1> QED
  BY <1>3, <1>4, <1>5, <1>6, <1>7, <1>8, <1>9, <1>10

\* A step that keeps the files: on to the next one, or out.
LEMMA QuietOK ==
  ASSUME PublicationInv, NEW p \in Processes, NEW step, StepAt(p, step), step \notin {"snapshot", "publishClient"},
         UNCHANGED <<project, sdk, publication>>,
         Abort(p) \/ \E q : Same(process[p], q) /\ Proceed(p, q)
  PROVE  PublicationInv'
<1>1. CASE Abort(p)
  BY <1>1, LeavesOK
<1>2. CASE \E q : Same(process[p], q) /\ Proceed(p, q)
  <2> PICK q : Same(process[p], q) /\ Proceed(p, q)
    BY <1>2
  <2>1. ProcessOK(q) /\ q.kind = process[p].kind /\ q.fetch = process[p].fetch /\ q.pc = process[p].pc
    BY DEF Same
  <2>2. SdkOK(sdk)' /\ sdk'.client = sdk.client /\ sdk'.version = sdk.version
    BY SameSdk
  <2> QED
    BY <2>1, <2>2, GoesOn
<1> QED
  BY <1>1, <1>2

LEMMA DocumentStepsOK ==
  ASSUME PublicationInv, NEW p \in Processes,
         \/ ReadWorkspaceDocument(p) \/ ResolveRef(p) \/ InitCache(p) \/ Fetch(p) \/ CommitAvailable(p) \/ ShowDocument(p)
         \/ GitFails(p) \/ CompareSDK(p) \/ ReadVersion(p) \/ StopProcess(p)
  PROVE  PublicationInv'
<1> PICK o : o = process[p]
  OBVIOUS
<1>1. ProcessOK(o)
  BY DEF PublicationInv
<1>2. Same(o, o) /\ \A d : Same(o, [o EXCEPT !.document = d])
  BY <1>1, NotesOK
<1>3. CASE ReadWorkspaceDocument(p)
  <2>1. StepAt(p, "read") /\ UNCHANGED <<project, sdk, publication>>
    BY <1>3 DEF ReadWorkspaceDocument, KeepFiles
  <2>2. \E q : Same(process[p], q) /\ Proceed(p, q)
    BY <1>2, <1>3 DEF ReadWorkspaceDocument
  <2> QED
    BY <2>1, <2>2, QuietOK
<1>4. CASE ResolveRef(p)
  <2>1. StepAt(p, "ls-remote") /\ UNCHANGED <<project, sdk, publication>>
    BY <1>4 DEF ResolveRef, KeepFiles
  <2>2. Abort(p) \/ \E q : Same(process[p], q) /\ Proceed(p, q)
    BY <1>2, <1>4 DEF ResolveRef
  <2> QED
    BY <2>1, <2>2, QuietOK
<1>5. CASE InitCache(p)
  <2>1. StepAt(p, "init") /\ UNCHANGED <<project, sdk, publication>>
    BY <1>5 DEF InitCache
  <2>2. \E q : Same(process[p], q) /\ Proceed(p, q)
    BY <1>2, <1>5 DEF InitCache
  <2> QED
    BY <2>1, <2>2, QuietOK
<1>6. CASE Fetch(p)
  <2>1. StepAt(p, "fetch") /\ UNCHANGED <<project, sdk, publication>>
    BY <1>6 DEF Fetch
  <2>2. \E q : Same(process[p], q) /\ Proceed(p, q)
    BY <1>2, <1>6 DEF Fetch
  <2> QED
    BY <2>1, <2>2, QuietOK
<1>7. CASE CommitAvailable(p)
  <2>1. StepAt(p, "cat-file") /\ UNCHANGED <<project, sdk, publication>>
    BY <1>7 DEF CommitAvailable, KeepFiles
  <2>2. Abort(p) \/ \E q : Same(process[p], q) /\ Proceed(p, q)
    BY <1>2, <1>7 DEF CommitAvailable
  <2> QED
    BY <2>1, <2>2, QuietOK
<1>8. CASE ShowDocument(p)
  <2>1. StepAt(p, "show") /\ UNCHANGED <<project, sdk, publication>>
    BY <1>8 DEF ShowDocument
  <2>2. \E q : Same(process[p], q) /\ Proceed(p, q)
    BY <1>2, <1>8 DEF ShowDocument
  <2> QED
    BY <2>1, <2>2, QuietOK
<1>9. CASE GitFails(p) \/ StopProcess(p)
  <2>1. Abort(p) /\ UNCHANGED <<project, sdk, publication>>
    BY <1>9 DEF GitFails, StopProcess, KeepFiles
  <2> QED
    BY <2>1, LeavesOK
<1>10. CASE CompareSDK(p)
  <2>1. StepAt(p, "compare") /\ UNCHANGED <<project, sdk, publication>>
    BY <1>10 DEF CompareSDK, KeepFiles
  <2>2. Abort(p) \/ \E q : Same(process[p], q) /\ Proceed(p, q)
    BY <1>2, <1>10 DEF CompareSDK
  <2> QED
    BY <2>1, <2>2, QuietOK
<1>11. CASE ReadVersion(p)
  <2>1. StepAt(p, "version") /\ UNCHANGED <<project, sdk, publication>>
    BY <1>11 DEF ReadVersion, KeepFiles
  <2>2. Abort(p) \/ \E q : Same(process[p], q) /\ Proceed(p, q)
    BY <1>2, <1>11 DEF ReadVersion
  <2> QED
    BY <2>1, <2>2, QuietOK
<1> QED
  BY <1>3, <1>4, <1>5, <1>6, <1>7, <1>8, <1>9, <1>10, <1>11

LEMMA ManifestStepsOK ==
  ASSUME PublicationInv, NEW p \in Processes,
         \/ FormatGeneratedGoSDKSource(p) \/ SourceCommit(p) \/ SpawnCheck(p) \/ CheckEnds(p) \/ RecordedSourceCommit(p)
         \/ ReadClient(p)
  PROVE  PublicationInv'
<1> PICK o : o = process[p]
  OBVIOUS
<1>1. ProcessOK(o)
  BY DEF PublicationInv
<1>2. /\ \A x : Same(o, [o EXCEPT !.commit = x]) /\ Same(o, [o EXCEPT !.pin = x])
      /\ \A x, y : Same(o, [o EXCEPT !.pin = x, !.parent = y])
  BY <1>1, NotesOK
<1>3. CASE FormatGeneratedGoSDKSource(p)
  <2>1. StepAt(p, "format") /\ UNCHANGED <<project, sdk, publication>>
    BY <1>3 DEF FormatGeneratedGoSDKSource, KeepFiles
  <2>2. ASSUME AssertOpenAPIDocument(o.document), Proceed(p, [o EXCEPT !.source = GenerateSource(o.document)])
        PROVE  \E q : Same(process[p], q) /\ Proceed(p, q)
    <3> PICK x : x = GenerateSource(o.document)
      OBVIOUS
    <3>1. x \in Clients
      BY <2>2 DEF AssertOpenAPIDocument, Clients
    <3>2. Same(o, [o EXCEPT !.source = x])
      BY <1>1, <3>1, NotesOK
    <3> QED
      BY <2>2, <3>2
  <2>3. Abort(p) \/ \E q : Same(process[p], q) /\ Proceed(p, q)
    BY <1>3, <2>2 DEF FormatGeneratedGoSDKSource
  <2> QED
    BY <2>1, <2>3, QuietOK
<1>4. CASE SourceCommit(p)
  <2>1. StepAt(p, "commit") /\ UNCHANGED <<project, sdk, publication>>
    BY <1>4 DEF SourceCommit, KeepFiles
  <2>2. \E q : Same(process[p], q) /\ Proceed(p, q)
    BY <1>2, <1>4 DEF SourceCommit
  <2> QED
    BY <2>1, <2>2, QuietOK
<1>5. CASE SpawnCheck(p)
  <2>1. StepAt(p, "fork") /\ UNCHANGED <<project, sdk, publication>>
    BY <1>5 DEF SpawnCheck, KeepFiles
  <2>2. Abort(p) \/ \E q : Same(process[p], q) /\ Proceed(p, q)
    BY <1>2, <1>5 DEF SpawnCheck
  <2> QED
    BY <2>1, <2>2, QuietOK
<1>6. CASE CheckEnds(p)
  <2>1. StepAt(p, "join") /\ UNCHANGED <<project, sdk, publication>>
    BY <1>6 DEF CheckEnds, KeepFiles
  <2>2. \E q : Same(process[p], q) /\ Proceed(p, q)
    BY <1>2, <1>6 DEF CheckEnds
  <2> QED
    BY <2>1, <2>2, QuietOK
<1>7. CASE RecordedSourceCommit(p)
  <2>1. StepAt(p, "recorded") /\ UNCHANGED <<project, sdk, publication>>
    BY <1>7 DEF RecordedSourceCommit, KeepFiles
  <2>2. Abort(p) \/ \E q : Same(process[p], q) /\ Proceed(p, q)
    BY <1>2, <1>7 DEF RecordedSourceCommit
  <2> QED
    BY <2>1, <2>2, QuietOK
<1>8. CASE ReadClient(p)
  <2> PICK d : d = o.document
    OBVIOUS
  <2> PICK m : m = [document |-> d, version |-> VersionOf(d), client |-> sdk.client, commit |-> o.commit]
    OBVIOUS
  <2>1. StepAt(p, "client") /\ UNCHANGED <<project, sdk, publication>>
    BY <1>8 DEF ReadClient, KeepFiles
  <2>2. ASSUME ValidateGeneratedClient(sdk.client, d) PROVE Same(o, [o EXCEPT !.manifest = m])
    <3>1. sdk.client \in Clients /\ sdk.client # NoFile
      BY <2>2 DEF PublicationInv, SdkOK, ValidateGeneratedClient
    <3> PICK e \in Documents : sdk.client = GenerateSource(e)
      BY <3>1 DEF Clients
    <3>2. e = d
      BY <2>2 DEF ValidateGeneratedClient, GenerateSource
    <3>3. ManifestOK(m)
      BY <3>2 DEF ManifestOK
    <3> QED
      BY <1>1, <3>3, NotesOK
  <2>3. \/ ValidateGeneratedClient(sdk.client, d) /\ Proceed(p, [o EXCEPT !.manifest = m])
        \/ Abort(p)
    BY <1>8 DEF ReadClient
  <2>4. Abort(p) \/ \E q : Same(process[p], q) /\ Proceed(p, q)
    BY <2>2, <2>3
  <2> QED
    BY <2>1, <2>4, QuietOK
<1> QED
  BY <1>3, <1>4, <1>5, <1>6, <1>7, <1>8

\* What is known of a generator that is about to publish.
LEMMA Publishing ==
  ASSUME PublicationInv, NEW p \in Processes, NEW step \in {"snapshot", "publishClient", "publishVersion"}, StepAt(p, step)
  PROVE  /\ ProcessOK(process[p]) /\ Remembers(process[p], sdk) /\ OnStep(process[p], step)
         /\ process[p].kind = "generate" /\ \A o \in Processes : process[o].kind = "generate" => o = p
         /\ publication.end # "failed"
<1>1. ProcessOK(process[p]) /\ Remembers(process[p], sdk) /\ OnStep(process[p], step)
  BY DEF PublicationInv, StepAt, OnStep, Task
<1> PICK q : q = process[p]
  OBVIOUS
<1>2. q.kind = "generate"
  BY <1>1, StepKinds
<1> QED
  BY <1>1, <1>2 DEF PublicationInv

LEMMA SnapshotOK == ASSUME PublicationInv, NEW p \in Processes, SnapshotFiles(p) PROVE PublicationInv'
<1>1. StepAt(p, "snapshot") /\ UNCHANGED <<project, sdk, publication>>
  BY DEF SnapshotFiles, KeepFiles
<1> PICK o : o = process[p]
  OBVIOUS
<1>2. ProcessOK(o) /\ OnStep(o, "snapshot") /\ o.kind = "generate" /\ publication.end # "failed"
      /\ \A c \in Processes : process[c].kind = "generate" => c = p
  BY <1>1, Publishing
<1> PICK f : f = [client |-> sdk.client, version |-> sdk.version]
  OBVIOUS
<1> PICK q : q = [o EXCEPT !.found = f]
  OBVIOUS
<1> PICK r : r = Done(q)
  OBVIOUS
<1>3. Same(o, q) /\ q.found = f
  BY <1>2, NotesOK
<1>4. ProcessOK(q) /\ q.kind # "none" /\ OnStep(q, "snapshot")
  BY <1>2, <1>3 DEF Same, OnStep, Task
<1>5. /\ OnStep(r, "publishClient") => r.found = f
      /\ OnStep(r, "publishVersion") => OnStep(q, "publishClient")
  BY <1>3, <1>4, DoneOK
<1>6. ~OnStep(q, "publishClient")
  BY <1>4 DEF OnStep
<1>7. Remembers(r, sdk')
  <2>1. ~OnStep(r, "publishVersion")
    BY <1>5, <1>6
  <2>2. f.client = sdk.client /\ f.version = sdk.version
    OBVIOUS
  <2> PICK g : g = r.found
    OBVIOUS
  <2>3. OnStep(r, "publishClient") => g.client = sdk.client /\ g.version = sdk.version
    BY <1>5, <2>2
  <2> QED
    BY <1>1, <2>1, <2>3 DEF Remembers
<1>8. ProcessOK(r) /\ process' = [process EXCEPT ![p] = r]
  BY <1>4, DoneOK DEF SnapshotFiles, Proceed
<1>9. SdkOK(sdk)' /\ sdk'.client = sdk.client /\ sdk'.version = sdk.version
  BY <1>1, SameSdk
<1>10. FailureLeavesNothing' /\ (publication'.end = "failed" => r.kind # "generate" /\ publication' = publication)
  BY <1>1, <1>2 DEF FailureLeavesNothing
<1>11. r.kind = "generate" => \A c \in Processes : process[c].kind = "generate" => c = p
  BY <1>2
<1> QED
  BY <1>1, <1>7, <1>8, <1>9, <1>10, <1>11, Move

LEMMA PublishClientOK == ASSUME PublicationInv, NEW p \in Processes, PublishClient(p) PROVE PublicationInv'
<1>1. StepAt(p, "publishClient") /\ UNCHANGED <<project, publication>>
  BY DEF PublishClient
<1> PICK o : o = process[p]
  OBVIOUS
<1>2. ProcessOK(o) /\ Remembers(o, sdk) /\ OnStep(o, "publishClient") /\ o.kind = "generate" /\ publication.end # "failed"
      /\ \A c \in Processes : process[c].kind = "generate" => c = p
  BY <1>1, Publishing
<1> PICK s : s = [sdk EXCEPT !.client = o.source]
  OBVIOUS
<1>3. sdk' = s
  BY DEF PublishClient
<1>4. SdkOK(s) /\ s.version = sdk.version
  <2>1. o.source \in Clients /\ SdkOK(sdk)
    BY <1>2 DEF ProcessOK, PublicationInv
  <2>2. s \in [client : Clients, version : {s.version}, manifest : {s.manifest}] /\ s.manifest = sdk.manifest /\ s.version = sdk.version
    BY <2>1 DEF SdkOK
  <2> QED
    BY <2>1, <2>2 DEF SdkOK
<1>5. SdkOK(sdk)'
  BY <1>3, <1>4 DEF SdkOK, ManifestOK
<1> PICK r : r = Done(o)
  OBVIOUS
<1>6. /\ ProcessOK(r)
      /\ OnStep(r, "publishClient") => OnStep(o, "snapshot")
      /\ OnStep(r, "publishVersion") => r.found = o.found
  BY <1>2, DoneOK
<1>7. ~OnStep(o, "snapshot")
  BY <1>2 DEF OnStep
<1>8. o.found.client \in Clients /\ o.found.version = sdk.version
  BY <1>2 DEF Remembers, PublicationInv, SdkOK
<1>9. Remembers(r, sdk')
  <2>1. ~OnStep(r, "publishClient")
    BY <1>6, <1>7
  <2> PICK f : f = r.found
    OBVIOUS
  <2>2. OnStep(r, "publishVersion") => f.client \in Clients /\ f.version = s.version
    BY <1>4, <1>6, <1>8
  <2> QED
    BY <1>3, <2>1, <2>2 DEF Remembers
<1>10. process' = [process EXCEPT ![p] = r]
  BY DEF PublishClient, Proceed
<1>11. FailureLeavesNothing' /\ publication'.end # "failed"
  BY <1>1, <1>2 DEF FailureLeavesNothing
<1> QED
  BY <1>1, <1>2, <1>5, <1>6, <1>9, <1>10, <1>11, Move

LEMMA PublishVersionOK == ASSUME PublicationInv, NEW p \in Processes, PublishVersion(p) PROVE PublicationInv'
<1>1. StepAt(p, "publishVersion") /\ UNCHANGED project
  BY DEF PublishVersion
<1> PICK o : o = process[p]
  OBVIOUS
<1>2. ProcessOK(o) /\ OnStep(o, "publishVersion") /\ o.kind = "generate"
      /\ \A c \in Processes : process[c].kind = "generate" => c = p
  BY <1>1, Publishing
<1> PICK v : v = o.source.version
  OBVIOUS
<1> PICK s : s = [sdk EXCEPT !.version = v]
  OBVIOUS
<1>3. sdk' = s
  BY DEF PublishVersion
<1>4. SdkOK(s)
  <2>1. SdkOK(sdk)
    BY DEF PublicationInv
  <2>2. s \in [client : Clients, version : {s.version}, manifest : {s.manifest}] /\ s.manifest = sdk.manifest
    BY <2>1 DEF SdkOK
  <2> QED
    BY <2>1, <2>2 DEF SdkOK
<1>5. SdkOK(sdk)'
  BY <1>3, <1>4 DEF SdkOK, ManifestOK
<1> PICK r : r = Done(o)
  OBVIOUS
<1>6. /\ ProcessOK(r)
      /\ OnStep(r, "publishClient") => OnStep(o, "snapshot")
      /\ OnStep(r, "publishVersion") => OnStep(o, "publishClient")
  BY <1>2, DoneOK
<1>7. ~OnStep(o, "snapshot") /\ ~OnStep(o, "publishClient")
  BY <1>2 DEF OnStep
<1>8. Remembers(r, sdk')
  BY <1>6, <1>7 DEF Remembers
<1>9. process' = [process EXCEPT ![p] = r]
  BY DEF PublishVersion, Proceed
<1>10. FailureLeavesNothing' /\ publication'.end # "failed"
  BY DEF PublishVersion, FailureLeavesNothing
<1> QED
  BY <1>1, <1>2, <1>5, <1>6, <1>8, <1>9, <1>10, Move

LEMMA PublishFailsOK == ASSUME PublicationInv, NEW p \in Processes, PublishFails(p) PROVE PublicationInv'
<1>1. process' = [process EXCEPT ![p] = AtRest] /\ UNCHANGED project
  BY DEF PublishFails, Abort
<1>2. ProcessOK(AtRest) /\ Remembers(AtRest, sdk') /\ AtRest.kind # "generate"
  BY RestOK DEF Remembers
<1> PICK o : o = process[p]
  OBVIOUS
<1>3. SdkOK(sdk)' /\ FailureLeavesNothing' /\ o.kind = "generate"
  <2>1. CASE StepAt(p, "publishClient") /\ publication' = [end |-> "failed", found |-> o.found] /\ UNCHANGED sdk
    <3>1. o.found.client = sdk.client /\ o.found.version = sdk.version /\ o.kind = "generate"
      BY <2>1, Publishing DEF Remembers
    <3> QED
      BY <2>1, <3>1, SameSdk DEF FailureLeavesNothing
  <2>2. CASE StepAt(p, "publishVersion") /\ sdk' = RestorePublished(o.found)
             /\ publication' = [end |-> "failed", found |-> o.found]
    <3>1. o.found.client \in Clients /\ o.found.version = sdk.version /\ o.kind = "generate"
      BY <2>2, Publishing DEF Remembers
    <3> PICK c : c = o.found.client
      OBVIOUS
    <3> PICK s : s = [sdk EXCEPT !.client = c]
      OBVIOUS
    <3>2. SdkOK(sdk)
      BY DEF PublicationInv
    <3>3. s.client = c /\ s.version = sdk.version /\ s.manifest = sdk.manifest
          /\ s \in [client : Clients, version : {s.version}, manifest : {s.manifest}]
      BY <3>1, <3>2 DEF SdkOK
    <3>4. sdk' = s
      BY <2>2 DEF RestorePublished
    <3>5. SdkOK(s)
      BY <3>2, <3>3 DEF SdkOK
    <3>6. SdkOK(sdk)'
      BY <3>4, <3>5 DEF SdkOK, ManifestOK
    <3>7. FailureLeavesNothing'
      BY <2>2, <3>1, <3>3, <3>4 DEF FailureLeavesNothing
    <3> QED
      BY <3>1, <3>6, <3>7
  <2>3. CASE StepAt(p, "publishVersion") /\ publication' = [end |-> "incomplete", found |-> o.found] /\ UNCHANGED sdk
    <3>1. o.kind = "generate"
      BY <2>3, Publishing
    <3> QED
      BY <2>3, <3>1, SameSdk DEF FailureLeavesNothing
  <2> QED
    BY <2>1, <2>2, <2>3 DEF PublishFails
<1> QED
  BY <1>1, <1>2, <1>3, Move

LEMMA WriteManifestOK == ASSUME PublicationInv, NEW p \in Processes, WriteSDKReleaseManifest(p) PROVE PublicationInv'
<1>1. StepAt(p, "writeManifest") /\ UNCHANGED <<project, publication>>
  BY DEF WriteSDKReleaseManifest
<1> PICK o : o = process[p]
  OBVIOUS
<1>2. ProcessOK(o) /\ SdkOK(sdk) /\ ManifestOK(o.manifest)
  BY DEF PublicationInv, ProcessOK
<1>3. CASE sdk' = [sdk EXCEPT !.manifest = o.manifest] /\ Proceed(p, o)
  <2> PICK m : m = o.manifest
    OBVIOUS
  <2> PICK s : s = [sdk EXCEPT !.manifest = m]
    OBVIOUS
  <2>1. s.client = sdk.client /\ s.version = sdk.version /\ s.manifest = m
        /\ s \in [client : Clients, version : {s.version}, manifest : {s.manifest}]
    BY <1>2 DEF SdkOK
  <2>2. SdkOK(s) /\ sdk' = s
    BY <1>2, <1>3, <2>1 DEF SdkOK
  <2>3. SdkOK(sdk)'
    BY <2>2 DEF SdkOK, ManifestOK
  <2> QED
    BY <1>1, <1>2, <1>3, <2>1, <2>2, <2>3, GoesOn
<1>4. CASE Abort(p) /\ UNCHANGED sdk
  BY <1>1, <1>4, LeavesOK
<1> QED
  BY <1>3, <1>4 DEF WriteSDKReleaseManifest

LEMMA VerifyManifestOK == ASSUME PublicationInv, NEW p \in Processes, VerifySDKReleaseManifest(p) PROVE PublicationInv'
<1>1. Abort(p) /\ UNCHANGED <<project, sdk>> /\ (publication' = publication \/ publication'.end = "verified")
  BY DEF VerifySDKReleaseManifest
<1> QED
  BY <1>1, LeavesOK

LEMMA EditOK == ASSUME PublicationInv, EditProject PROVE PublicationInv'
<1>1. UNCHANGED <<sdk, process, publication>>
  BY DEF EditProject
<1>2. /\ project'.external = project.external
      /\ project' = [external |-> project'.external, document |-> project'.document, pin |-> project'.pin, ref |-> project'.ref,
                     head |-> project'.head]
  <2> PICK e : e = project
    OBVIOUS
  <2>1. e = [external |-> e.external, document |-> e.document, pin |-> e.pin, ref |-> e.ref, head |-> e.head]
    BY DEF PublicationInv
  <2> PICK n : n = e.head + 1
    OBVIOUS
  <2>2. (\E d : project' \in {[e EXCEPT !.document = d], [e EXCEPT !.pin = d], [e EXCEPT !.ref = d]})
        \/ project' = [e EXCEPT !.head = n]
    BY DEF EditProject
  <2> QED
    BY <2>1, <2>2
<1>3. ASSUME NEW p \in Processes PROVE (ProcessOK(process[p]) /\ Remembers(process[p], sdk))'
  <2> PICK q : q = process[p]
    OBVIOUS
  <2> PICK s : s = sdk
    OBVIOUS
  <2>1. ProcessOK(q) /\ Remembers(q, s)
    BY DEF PublicationInv
  <2>2. ProcessOK(q)' /\ Remembers(q, s)'
    BY <1>2, <2>1, LineStays
  <2> QED
    BY <1>1, <2>2
<1>4. SdkOK(sdk)' /\ FailureLeavesNothing'
  BY <1>1, SameSdk DEF FailureLeavesNothing, PublicationInv
<1> QED
  BY <1>1, <1>2, <1>3, <1>4 DEF PublicationInv

LEMMA PublicationStarts == PublicationInit => PublicationInv
<1> SUFFICES ASSUME PublicationInit PROVE PublicationInv
  OBVIOUS
<1>1. project.external \in BOOLEAN /\ project = [external |-> project.external, document |-> project.document,
        pin |-> project.pin, ref |-> project.ref, head |-> project.head]
  BY DEF PublicationInit
<1>2. process = [p \in Processes |-> process[p]] /\ \A p \in Processes : process[p] = AtRest
  BY DEF PublicationInit
<1>3. \A p \in Processes : ProcessOK(process[p]) /\ Remembers(process[p], sdk) /\ process[p].kind # "generate"
  BY <1>2, RestOK DEF Remembers
<1>4. SdkOK(sdk)
  <2>1. NoFile \in Clients /\ GenerateSource(1) \in Clients /\ ManifestOK(NoFile)
    BY DEF Clients, Documents, ManifestOK
  <2> QED
    BY <2>1 DEF PublicationInit, SdkOK
<1>5. FailureLeavesNothing /\ publication.end # "failed"
  BY DEF PublicationInit, Unpublished, FailureLeavesNothing
<1> QED
  BY <1>1, <1>2, <1>3, <1>4, <1>5 DEF PublicationInv

LEMMA PublicationHolds == PublicationInv => SDKIsWhole
BY DEF PublicationInv, SdkOK, ManifestOK, SDKIsWhole, ManifestOfOneDocument

\* What the SDK tasks leave is whole, whatever is edited, refused, stopped or
\* cannot be written, for any number of tasks and failing writes: a publication
\* that failed has changed neither file, and a manifest names one document
\* (publishGeneratedSDK and writeSDKReleaseManifest).
THEOREM SDKTheorem == PublicationSpec => []SDKIsWhole
<1>1. PublicationInv /\ [PublicationNext]_sdkVars => PublicationInv'
  <2> SUFFICES ASSUME PublicationInv, [PublicationNext]_sdkVars PROVE PublicationInv'
    OBVIOUS
  <2>1. CASE UNCHANGED sdkVars
    <3>1. UNCHANGED <<project, sdk, process, publication>>
      BY <2>1 DEF sdkVars
    <3>2. ASSUME NEW p \in Processes PROVE (ProcessOK(process[p]) /\ Remembers(process[p], sdk))'
      <4> PICK q : q = process[p]
        OBVIOUS
      <4> PICK s : s = sdk
        OBVIOUS
      <4>1. ProcessOK(q) /\ Remembers(q, s)
        BY DEF PublicationInv
      <4>2. ProcessOK(q)' /\ Remembers(q, s)'
        BY <3>1, <4>1, LineStays
      <4> QED
        BY <3>1, <4>2
    <3>3. SdkOK(sdk)' /\ FailureLeavesNothing'
      BY <3>1, SameSdk DEF FailureLeavesNothing, PublicationInv
    <3> QED
      BY <3>1, <3>2, <3>3 DEF PublicationInv
  <2>2. CASE EditProject
    BY <2>2, EditOK
  <2>3. ASSUME NEW p \in Processes, StartSDKTask(p) PROVE PublicationInv'
    BY <2>3, StartOK
  <2>4. ASSUME NEW p \in Processes,
               \/ ReadWorkspaceDocument(p) \/ ResolveRef(p) \/ InitCache(p) \/ Fetch(p) \/ CommitAvailable(p)
               \/ ShowDocument(p) \/ GitFails(p) \/ CompareSDK(p) \/ ReadVersion(p) \/ StopProcess(p)
        PROVE  PublicationInv'
    BY <2>4, DocumentStepsOK
  <2>5. ASSUME NEW p \in Processes,
               \/ FormatGeneratedGoSDKSource(p) \/ SourceCommit(p) \/ SpawnCheck(p) \/ CheckEnds(p)
               \/ RecordedSourceCommit(p) \/ ReadClient(p)
        PROVE  PublicationInv'
    BY <2>5, ManifestStepsOK
  <2>6. ASSUME NEW p \in Processes, SnapshotFiles(p) \/ PublishClient(p) \/ PublishVersion(p) \/ PublishFails(p)
        PROVE  PublicationInv'
    BY <2>6, SnapshotOK, PublishClientOK, PublishVersionOK, PublishFailsOK
  <2>7. ASSUME NEW p \in Processes, WriteSDKReleaseManifest(p) \/ VerifySDKReleaseManifest(p) PROVE PublicationInv'
    BY <2>7, WriteManifestOK, VerifyManifestOK
  <2> QED
    BY <2>1, <2>2, <2>3, <2>4, <2>5, <2>6, <2>7 DEF PublicationNext
<1> QED
  BY <1>1, PublicationStarts, PublicationHolds, PTL DEF PublicationSpec

-----------------------------------------------------------------------------
(***************************************************************************)
(* The release of the server.  What is proved is that neither verifier     *)
(* accepts a binary that was not compiled from what it is a release of.    *)
(* An edit numbers what it writes with a number that no source had, so     *)
(* that the sources that are the same before and after were the same in    *)
(* between; a manifest that was written to its end is of such sources, and *)
(* of the binary that was compiled between the two collections.  That the  *)
(* sources are those of the manifest's commit is settled when the second   *)
(* witness has read the same commit: HEAD did not move since the status    *)
(* was clean.  Only a workflow that got so far is attested.                *)
(***************************************************************************)
\* Sources that the first n - 1 edits can have made.
Srcs(n) == [code : 1..n, version : 1..n]
StoredManifest(d) == d["release-manifest"].says
Uncut(d, name) == name \in DOMAIN d /\ ~d[name].cut
Below(s, u) == s.code <= u.code /\ s.version <= u.version
Witnesses == {"first", "second"}

\* HEAD and every commit have sources that were written.
TreeOK(t) ==
    /\ DOMAIN t = {"src", "edits", "head", "contents"}
    /\ t.edits \in Nat /\ t.head \in Nat \ {0}
    /\ t.src \in Srcs(t.edits + 1)
    /\ t.contents \in [1..t.head -> Srcs(t.edits + 1)] /\ Len(t.contents) = t.head

\* A task is a part of the workflow: Place is the step of the workflow that it is at.
Begin(task) == IF task = "reproducible" THEN 13 ELSE IF task = "verify" THEN 11 ELSE 0
LastPlace(task) == IF task = "build" THEN 11 ELSE IF task = "verify" THEN 13 ELSE IF task = "reproducible" THEN 49 ELSE 53
Place(j) == j.pc + Begin(j.task)

JobFields == {"n", "task", "pc", "clean", "sha", "of", "version", "commit", "time", "dirty", "binary", "canonical",
              "witness", "attested", "record"}
JobOK(j) ==
    /\ DOMAIN j = JobFields
    /\ j.n \in 0..MaxTasks
    /\ IF j.task = "none" THEN j.pc = 0
       ELSE /\ j.task \in Tasks /\ j.pc \in Nat /\ j.pc > 0 /\ Place(j) <= LastPlace(j.task) /\ j.n > 0
            /\ DOMAIN j.version = Places
            /\ j.clean \in BOOLEAN /\ (j.task = "workflow" => j.clean)

ReleaseManifestOK(m, t) ==
    /\ m.sources \in Srcs(t.edits + 1)
    /\ m.subject.of = m.sources.code /\ m.subject.version = m.version /\ m.subject.commit = m.commit
    /\ m.commit \in Nat

\* What is whole in a directory was written by a build or a comparison that held.
FilesOK(rs, t, bs, n) ==
    /\ DOMAIN rs = Places
    /\ \A r \in Places : Uncut(rs[r], "release-manifest") => ReleaseManifestOK(StoredManifest(rs[r]), t)
    /\ \A r \in Places : Uncut(rs[r], "reproducibility-report") =>
          \E k \in 1..MaxTasks : \A w \in Witnesses : <<k, w, rs[r]["reproducibility-report"].says.subject>> \in bs
    /\ \A w \in Witnesses : "artifact" \in DOMAIN rs[w] => <<n, w, rs[w]["artifact"].says>> \in bs

\* The step of a build, and the directory, that a step of the workflow is at.
BuildOf(k) == IF k \in 18..28 THEN k - 17 ELSE IF k \in 32..42 THEN k - 31 ELSE IF k <= 11 THEN k ELSE 0
RootOf(k) == IF k \in 17..30 THEN "first" ELSE IF k \in 31..44 THEN "second" ELSE "canonical"

\* What a build has read by its step b, and what has happened to it since.
Reads(b, j, r, d, t) ==
    /\ b >= 3 => j.of \in Srcs(t.edits + 1)
    /\ b \in 3..8 => Below(j.of, t.src)
    /\ b >= 4 => j.commit \in 1..t.head
    /\ b = 8 => j.binary.of \in j.of.code..t.src.code
    /\ b >= 9 => j.binary.of = j.of.code
    /\ b >= 8 => j.binary.version = j.version[r] /\ j.binary.commit = j.commit
    /\ b = 10 => d["source-manifest"].says = j.of

\* The sources of a manifest are those of its commit.
Settled(m, t) == m.commit \in 1..t.head /\ m.sources = t.contents[m.commit]
Newer(h, m, t) == h > m.commit \/ Settled(m, t)
\* In the workflow, as long as HEAD has not moved since the commit was read, the
\* sources collected are those of the commit.
Cleans(k, j, c, s, t) ==
    /\ k \in 6..8 => \/ t.head > j.commit
                     \/ Below(j.of, t.contents[j.commit]) /\ Below(t.contents[j.commit], t.src)
    /\ k \in 9..10 => t.head > j.commit \/ j.of = t.contents[j.commit]
    /\ k \in 11..50 => "release-manifest" \in DOMAIN c /\ StoredManifest(c).commit \in Nat
    /\ k = 42 => "release-manifest" \in DOMAIN s
    /\ k \in 11..34 => Newer(t.head, StoredManifest(c), t)
    /\ k \in 35..41 => Newer(j.commit, StoredManifest(c), t)
    /\ k \in 42..45 => Newer(StoredManifest(s).commit, StoredManifest(c), t)
    /\ k \in 46..50 => Settled(StoredManifest(c), t)
    /\ k \in 14..50 => StoredManifest(c).version = StoredManifest(c).sources.version

\* What the comparison remembers is what the directories hold.
Copies(k, j, rs, bs) ==
    /\ k \in 17..45 => j.canonical["release-manifest"] = StoredManifest(rs["canonical"])
    /\ k \in 31..45 => "artifact" \in DOMAIN rs["first"]
    /\ k = 45 => "artifact" \in DOMAIN rs["second"]
    /\ k = 46 => \A w \in Witnesses : <<j.n, w, j.canonical["artifact"]>> \in bs

\* When the version in the tree is no longer the one that was loaded, the manifest on
\* file is of an older one.
Current(j, r, d, t) ==
    Uncut(d, "release-manifest") /\ t.src.version # j.version[r] => StoredManifest(d).sources.version < t.src.version
Since(k, j, rs, t) ==
    /\ k = 13 \/ k \in 15..48 => Current(j, "canonical", rs["canonical"], t)
    /\ k = 30 => Current(j, "first", rs["first"], t)
    /\ k = 44 => Current(j, "second", rs["second"], t)

\* What is attested, and what gh found attested, is of its commit.
Final(m, t) == Settled(m, t) /\ m.version = m.sources.version
Signs(k, j, c, t) ==
    /\ k <= 50 => j.attested = None
    /\ k = 51 /\ j.attested # None => "release-manifest" \in DOMAIN c /\ Final(StoredManifest(c), t)
    /\ k \in 52..53 /\ c["status"].says = 0 => Final(StoredManifest(c), t)

\* What holds at step k of the workflow.
Track(k, j, rs, t, bs) ==
    /\ Reads(BuildOf(k), j, RootOf(k), rs[RootOf(k)], t)
    /\ j.task = "workflow" => Cleans(k, j, rs["canonical"], rs["second"], t)
    /\ Copies(k, j, rs, bs)
    /\ Since(k, j, rs, t)
    /\ Signs(k, j, rs["canonical"], t)

ReleaseInv ==
    /\ TreeOK(tree)
    /\ JobOK(job)
    /\ FilesOK(roots, tree, builds, job.n)
    /\ job.task # "none" => Track(Place(job), job, roots, tree, builds)
    /\ AcceptedReleaseIsOfItsSources

-----------------------------------------------------------------------------
BuildNames == <<"load", "collect", "commit", "time", "status", "clear", "compile",
                "recollect", "sources", "manifest", "sums">>
\* The steps of every task are a part of the workflow's.
PlanDo(k) ==
    CASE BuildOf(k) > 0 -> BuildNames[BuildOf(k)]
      [] k \in {12, 14, 29, 43} -> "load"
      [] k \in {13, 15, 30, 44, 48} -> "check"
      [] k = 16 -> "snapshot"
      [] k \in {17, 31} -> "prepare"
      [] k = 45 -> "compare"
      [] k = 46 -> "report"
      [] k = 47 -> "sums"
      [] k = 49 -> "cleanup"
      [] k = 50 -> "attest"
      [] k = 51 -> "gh"
      [] k = 52 -> "record"
      [] k = 53 -> "accept"
Plan(k) == Do(PlanDo(k), RootOf(k))
StepSet == {Plan(k) : k \in 1..53}
\* A list of n steps is what the workflow does after its first off steps.
Agrees(s, n, off) == s \in Seq(StepSet) /\ Len(s) = n /\ \A i \in 1..n : s[i] = Plan(off + i)

\* Elements of a concatenation.
LEMMA Joined ==
  ASSUME NEW S, NEW a \in Seq(S), NEW b \in Seq(S)
  PROVE  /\ a \o b \in Seq(S) /\ Len(a \o b) = Len(a) + Len(b)
         /\ \A i \in 1..Len(a) : (a \o b)[i] = a[i]
         /\ \A i \in 1..Len(b) : (a \o b)[Len(a) + i] = b[i]
<1>1. PICK r : r = a \o b
  OBVIOUS
<1>2. /\ r \in Seq(S) /\ Len(r) = Len(a) + Len(b)
      /\ \A i \in 1..Len(a) : r[i] = a[i]
      /\ \A i \in 1..Len(b) : r[Len(a) + i] = b[i]
  BY <1>1
<1> QED
  BY <1>1, <1>2

LEMMA Agree ==
  ASSUME NEW a, NEW b, NEW m \in Nat, NEW n \in Nat, NEW off \in Nat, Agrees(a, m, off), Agrees(b, n, off + m)
  PROVE  Agrees(a \o b, m + n, off)
<1>1. PICK c : c = a \o b
  OBVIOUS
<1>2. a \in Seq(StepSet) /\ b \in Seq(StepSet) /\ Len(a) = m /\ Len(b) = n
  BY DEF Agrees
<1>3. /\ c \in Seq(StepSet) /\ Len(c) = m + n
      /\ \A i \in 1..m : c[i] = a[i]
      /\ \A i \in 1..n : c[m + i] = b[i]
  <2> PICK S : S = StepSet
    OBVIOUS
  <2>1. a \in Seq(S) /\ b \in Seq(S)
    BY <1>2
  <2>2. /\ a \o b \in Seq(S) /\ Len(a \o b) = Len(a) + Len(b)
        /\ \A i \in 1..Len(a) : (a \o b)[i] = a[i]
        /\ \A i \in 1..Len(b) : (a \o b)[Len(a) + i] = b[i]
    BY <2>1, Joined
  <2> QED
    BY <1>1, <1>2, <2>2
<1>4. ASSUME NEW i \in 1..(m + n) PROVE c[i] = Plan(off + i)
  <2>1. CASE i <= m
    <3>1. i \in 1..m
      BY <2>1
    <3> QED
      BY <1>3, <3>1 DEF Agrees
  <2>2. CASE i > m
    <3>1. PICK k : k = i - m
      OBVIOUS
    <3>2. k \in 1..n /\ m + k = i /\ (off + m) + k = off + i
      BY <2>2, <3>1
    <3>3. b[k] = Plan((off + m) + k)
      BY <3>2 DEF Agrees
    <3>4. c[m + k] = b[k]
      BY <1>3, <3>2
    <3> QED
      BY <3>2, <3>3, <3>4
  <2> QED
    BY <2>1, <2>2
<1> QED
  BY <1>1, <1>3, <1>4 DEF Agrees

LEMMA Eleven ==
  ASSUME NEW S, NEW s, s = [i \in 1..11 |-> s[i]], \A i \in 1..11 : s[i] \in S
  PROVE  s \in Seq(S) /\ Len(s) = 11
<1>1. s \in [1..11 -> S]
  OBVIOUS
<1> QED
  BY <1>1

LEMMA BuildAgrees ==
  ASSUME NEW root, NEW off \in {0, 17, 31}, root = RootOf(off + 1)
  PROVE  Agrees(BuildSteps(root), 11, off)
<1> PICK s : s = BuildSteps(root)
  OBVIOUS
<1>1. ASSUME NEW i \in 1..11 PROVE s[i] = Plan(off + i) /\ Plan(off + i) \in StepSet
  <2>1. s[i] = Do(BuildNames[i], root)
    BY DEF BuildSteps, BuildNames
  <2>2. BuildOf(off + i) = i /\ RootOf(off + i) = root /\ off + i \in 1..53
    BY DEF BuildOf, RootOf
  <2>3. PlanDo(off + i) = BuildNames[i]
    BY <2>2 DEF PlanDo
  <2> QED
    BY <2>1, <2>2, <2>3 DEF Plan, StepSet
<1>2. DOMAIN s = 1..11 /\ s = [i \in 1..11 |-> s[i]]
  BY DEF BuildSteps
<1>3. s \in Seq(StepSet) /\ Len(s) = 11
  BY <1>1, <1>2, Eleven
<1> QED
  BY <1>1, <1>3 DEF Agrees

LEMMA OneAgrees ==
  ASSUME NEW x, NEW off \in 0..52, x = Plan(off + 1)
  PROVE  Agrees(<<x>>, 1, off)
<1>1. x \in StepSet
  BY DEF StepSet
<1>2. <<x>> \in Seq(StepSet) /\ Len(<<x>>) = 1 /\ \A i \in 1..1 : i = 1
  BY <1>1
<1> QED
  BY <1>2 DEF Agrees

LEMMA TwoAgrees ==
  ASSUME NEW x, NEW y, NEW off \in 0..51, x = Plan(off + 1), y = Plan(off + 2)
  PROVE  Agrees(<<x, y>>, 2, off)
<1> PICK S : S = StepSet
  OBVIOUS
<1>1. x \in S /\ y \in S
  BY DEF StepSet
<1>2. <<x, y>> \in Seq(S) /\ Len(<<x, y>>) = 2 /\ <<x, y>>[1] = x /\ <<x, y>>[2] = y
  BY <1>1
<1>3. \A i \in 1..2 : i = 1 \/ i = 2
  OBVIOUS
<1> QED
  BY <1>2, <1>3 DEF Agrees

LEMMA CheckAgrees ==
  ASSUME NEW root, NEW off \in {11, 13, 28, 42}, root = RootOf(off + 1)
  PROVE  Agrees(CheckSteps(root), 2, off)
<1>1. Plan(off + 1) = Do("load", root) /\ Plan(off + 2) = Do("check", root)
  BY DEF Plan, PlanDo, BuildOf, RootOf
<1> QED
  BY <1>1, TwoAgrees DEF CheckSteps

LEMMA WitnessAgrees ==
  ASSUME NEW root, NEW off \in {16, 30}, root = RootOf(off + 1)
  PROVE  Agrees(WitnessSteps(root), 14, off)
<1>1. Plan(off + 1) = Do("prepare", root)
  BY DEF Plan, PlanDo, BuildOf, RootOf
<1>2. Agrees(<<Do("prepare", root)>>, 1, off)
  BY <1>1, OneAgrees
<1>3. off + 1 \in {0, 17, 31} /\ RootOf(off + 1 + 1) = root /\ off + 12 \in {11, 13, 28, 42} /\ RootOf(off + 12 + 1) = root
  BY DEF RootOf
<1>4. Agrees(BuildSteps(root), 11, off + 1)
  BY <1>3, BuildAgrees
<1>5. Agrees(CheckSteps(root), 2, off + 12)
  BY <1>3, CheckAgrees
<1>6. Agrees(<<Do("prepare", root)>> \o BuildSteps(root), 12, off)
  BY <1>2, <1>4, Agree
<1> QED
  BY <1>5, <1>6, Agree DEF WitnessSteps

LEMMA ReproducibleAgrees == Agrees(ReproducibleSteps, 36, 13)
<1> DEFINE s == <<Do("compare", "canonical"), Do("report", "canonical"), Do("sums", "canonical"),
                  Do("check", "canonical"), Do("cleanup", "canonical")>>
<1>1. Agrees(CheckSteps("canonical"), 2, 13)
  BY CheckAgrees DEF RootOf
<1>2. Agrees(<<Do("snapshot", "canonical")>>, 1, 15)
  BY OneAgrees DEF Plan, PlanDo, BuildOf, RootOf
<1>3. Agrees(WitnessSteps("first"), 14, 16)
  BY WitnessAgrees DEF RootOf
<1>4. Agrees(WitnessSteps("second"), 14, 30)
  BY WitnessAgrees DEF RootOf
<1>5. Agrees(s, 5, 44)
  <2> PICK S : S = StepSet
    OBVIOUS
  <2>1. /\ s[1] = Plan(45) /\ s[2] = Plan(46) /\ s[3] = Plan(47) /\ s[4] = Plan(48) /\ s[5] = Plan(49)
    BY DEF Plan, PlanDo, BuildOf, RootOf
  <2>2. Plan(45) \in S /\ Plan(46) \in S /\ Plan(47) \in S /\ Plan(48) \in S /\ Plan(49) \in S
    BY DEF StepSet
  <2>3. \A i \in 1..5 : i = 1 \/ i = 2 \/ i = 3 \/ i = 4 \/ i = 5
    OBVIOUS
  <2>4. Len(s) = 5
    OBVIOUS
  <2>5. s \in Seq(S)
    BY <2>1, <2>2
  <2> QED
    BY <2>1, <2>3, <2>4, <2>5 DEF Agrees
<1> HIDE DEF s
<1>6. Agrees(CheckSteps("canonical") \o <<Do("snapshot", "canonical")>>, 3, 13)
  BY <1>1, <1>2, Agree
<1>7. Agrees(CheckSteps("canonical") \o <<Do("snapshot", "canonical")>> \o WitnessSteps("first"), 17, 13)
  BY <1>3, <1>6, Agree
<1>8. Agrees(CheckSteps("canonical") \o <<Do("snapshot", "canonical")>> \o WitnessSteps("first")
             \o WitnessSteps("second"), 31, 13)
  BY <1>4, <1>7, Agree
<1>9. Agrees(CheckSteps("canonical") \o <<Do("snapshot", "canonical")>> \o WitnessSteps("first")
             \o WitnessSteps("second") \o s, 36, 13)
  BY <1>5, <1>8, Agree
<1> QED
  BY <1>9 DEF ReproducibleSteps, s

LEMMA WorkflowAgrees == Agrees(WorkflowSteps, 53, 0)
<1> DEFINE s == <<Do("attest", "canonical"), Do("gh", "canonical"), Do("record", "canonical"), Do("accept", "canonical")>>
<1>1. Agrees(BuildSteps("canonical"), 11, 0)
  BY BuildAgrees DEF RootOf
<1>2. Agrees(CheckSteps("canonical"), 2, 11)
  BY CheckAgrees DEF RootOf
<1>3. Agrees(s, 4, 49)
  <2> PICK S : S = StepSet
    OBVIOUS
  <2>1. s[1] = Plan(50) /\ s[2] = Plan(51) /\ s[3] = Plan(52) /\ s[4] = Plan(53)
    BY DEF Plan, PlanDo, BuildOf, RootOf
  <2>2. Plan(50) \in S /\ Plan(51) \in S /\ Plan(52) \in S /\ Plan(53) \in S
    BY DEF StepSet
  <2>3. \A i \in 1..4 : i = 1 \/ i = 2 \/ i = 3 \/ i = 4
    OBVIOUS
  <2>4. Len(s) = 4
    OBVIOUS
  <2>5. s \in Seq(S)
    BY <2>1, <2>2
  <2> QED
    BY <2>1, <2>3, <2>4, <2>5 DEF Agrees
<1> HIDE DEF s
<1>4. Agrees(BuildSteps("canonical") \o CheckSteps("canonical"), 13, 0)
  BY <1>1, <1>2, Agree
<1>5. Agrees(BuildSteps("canonical") \o CheckSteps("canonical") \o ReproducibleSteps, 49, 0)
  BY <1>4, ReproducibleAgrees, Agree
<1>6. Agrees(BuildSteps("canonical") \o CheckSteps("canonical") \o ReproducibleSteps \o s, 53, 0)
  BY <1>3, <1>5, Agree
<1> QED
  BY <1>6 DEF WorkflowSteps, s

LEMMA TaskAgrees ==
  ASSUME NEW task \in Tasks
  PROVE  Agrees(TaskSteps(task), LastPlace(task) - Begin(task), Begin(task))
<1>1. Agrees(BuildSteps("canonical"), 11, 0) /\ Agrees(CheckSteps("canonical"), 2, 11)
  BY BuildAgrees, CheckAgrees DEF RootOf
<1> QED
  BY <1>1, ReproducibleAgrees, WorkflowAgrees DEF Tasks, TaskSteps, Begin, LastPlace

-----------------------------------------------------------------------------
LEMMA GhIs51 == GhStep = 51
BY WorkflowAgrees DEF Agrees, GhStep

\* Where a step is, and of which directory.
LEMMA AtPlace ==
  ASSUME JobOK(job), NEW step, At(step)
  PROVE  /\ job.task \in Tasks /\ job.pc \in Nat /\ Place(job) \in 1..53 /\ Place(job) <= LastPlace(job.task)
         /\ PlanDo(Place(job)) = step /\ Root = RootOf(Place(job))
<1>1. job.task \in Tasks /\ job.pc \in Nat /\ job.pc > 0 /\ Place(job) <= LastPlace(job.task)
  BY DEF JobOK, At
<1>2. LastPlace(job.task) \in 1..53 /\ Begin(job.task) \in 0..13 /\ Begin(job.task) <= LastPlace(job.task)
  BY DEF LastPlace, Begin
<1>3. Place(job) \in 1..53 /\ job.pc \in 1..(LastPlace(job.task) - Begin(job.task)) /\ Place(job) = Begin(job.task) + job.pc
  BY <1>1, <1>2 DEF Place
<1>4. TaskSteps(job.task)[job.pc] = Plan(Place(job))
  BY <1>1, <1>3, TaskAgrees DEF Agrees
<1> QED
  BY <1>1, <1>3, <1>4 DEF At, Root, Plan, Do

LEMMA Places53 ==
  ASSUME NEW k \in 1..53
  PROVE  /\ PlanDo(k) = "load" => k \in {1, 12, 14, 18, 29, 32, 43}
         /\ PlanDo(k) = "collect" => k \in {2, 19, 33}
         /\ PlanDo(k) = "commit" => k \in {3, 20, 34}
         /\ PlanDo(k) = "time" => k \in {4, 21, 35}
         /\ PlanDo(k) = "status" => k \in {5, 22, 36}
         /\ PlanDo(k) = "clear" => k \in {6, 23, 37}
         /\ PlanDo(k) = "compile" => k \in {7, 24, 38}
         /\ PlanDo(k) = "recollect" => k \in {8, 25, 39}
         /\ PlanDo(k) = "sources" => k \in {9, 26, 40}
         /\ PlanDo(k) = "manifest" => k \in {10, 27, 41}
         /\ PlanDo(k) = "sums" => k \in {11, 28, 42, 47}
         /\ PlanDo(k) = "check" => k \in {13, 15, 30, 44, 48}
         /\ PlanDo(k) = "snapshot" => k = 16
         /\ PlanDo(k) = "prepare" => k \in {17, 31}
         /\ PlanDo(k) = "compare" => k = 45
         /\ PlanDo(k) = "report" => k = 46
         /\ PlanDo(k) = "cleanup" => k = 49
         /\ PlanDo(k) = "attest" => k = 50
         /\ PlanDo(k) = "gh" => k = 51
         /\ PlanDo(k) = "record" => k = 52
         /\ PlanDo(k) = "accept" => k = 53
<1>1. CASE BuildOf(k) > 0
  <2>1. PICK b \in 1..11 : PlanDo(k) = BuildNames[b] /\ k \in {b, b + 17, b + 31}
    BY <1>1 DEF BuildOf, PlanDo
  <2>2. \/ b = 1 /\ PlanDo(k) = "load"
        \/ b = 2 /\ PlanDo(k) = "collect"
        \/ b = 3 /\ PlanDo(k) = "commit"
        \/ b = 4 /\ PlanDo(k) = "time"
        \/ b = 5 /\ PlanDo(k) = "status"
        \/ b = 6 /\ PlanDo(k) = "clear"
        \/ b = 7 /\ PlanDo(k) = "compile"
        \/ b = 8 /\ PlanDo(k) = "recollect"
        \/ b = 9 /\ PlanDo(k) = "sources"
        \/ b = 10 /\ PlanDo(k) = "manifest"
        \/ b = 11 /\ PlanDo(k) = "sums"
    BY <2>1 DEF BuildNames
  <2> QED
    BY <2>1, <2>2
<1>2. CASE ~(BuildOf(k) > 0)
  <2>1. k \in 12..17 \/ k \in 29..31 \/ k \in 43..53
    BY <1>2 DEF BuildOf
  <2>2. k \in {12, 14, 29, 43} => PlanDo(k) = "load"
    BY <1>2 DEF PlanDo
  <2>3. k \in {13, 15, 30, 44, 48} => PlanDo(k) = "check"
    BY <1>2 DEF PlanDo
  <2>4. k \in {16} => PlanDo(k) = "snapshot"
    BY <1>2 DEF PlanDo
  <2>5. k \in {17, 31} => PlanDo(k) = "prepare"
    BY <1>2 DEF PlanDo
  <2>6. k \in {45} => PlanDo(k) = "compare"
    BY <1>2 DEF PlanDo
  <2>7. k \in {46} => PlanDo(k) = "report"
    BY <1>2 DEF PlanDo
  <2>8. k \in {47} => PlanDo(k) = "sums"
    BY <1>2 DEF PlanDo
  <2>9. k \in {49} => PlanDo(k) = "cleanup"
    BY <1>2 DEF PlanDo
  <2>10. k \in {50} => PlanDo(k) = "attest"
    BY <1>2 DEF PlanDo
  <2>11. k \in {51} => PlanDo(k) = "gh"
    BY <1>2 DEF PlanDo
  <2>12. k \in {52} => PlanDo(k) = "record"
    BY <1>2 DEF PlanDo
  <2>13. k \in {53} => PlanDo(k) = "accept"
    BY <1>2 DEF PlanDo
  <2> QED
    BY <2>1, <2>2, <2>3, <2>4, <2>5, <2>6, <2>7, <2>8, <2>9, <2>10, <2>11, <2>12, <2>13
<1> QED
  BY <1>1, <1>2

\* A task goes on, or ends after its last step.
LEMMA Onward ==
  ASSUME NEW j, NEW k, NEW rs, NEW t, NEW bs, JobOK(j), j.task \in Tasks, k = Place(j), Track(k + 1, j, rs, t, bs),
         NEW g, g = Advance(j)
  PROVE  JobOK(g) /\ g.n = j.n /\ (g.task # "none" => Track(Place(g), g, rs, t, bs))
<1>1. j.pc \in Nat /\ j.pc > 0 /\ k <= LastPlace(j.task) /\ "none" \notin Tasks
  BY DEF JobOK, Tasks
<1>2. Len(TaskSteps(j.task)) = LastPlace(j.task) - Begin(j.task) /\ Begin(j.task) \in Nat /\ LastPlace(j.task) \in Nat
  BY TaskAgrees DEF Agrees, Begin, LastPlace
<1>3. CASE j.pc = Len(TaskSteps(j.task))
  <2>1. g = Idle(j.n)
    BY <1>3 DEF Advance
  <2> QED
    BY <2>1 DEF Idle, JobOK, JobFields
<1>4. CASE j.pc # Len(TaskSteps(j.task))
  <2>1. g = [j EXCEPT !.pc = j.pc + 1]
    BY <1>4 DEF Advance
  <2>2. DOMAIN g = JobFields /\ g.pc = j.pc + 1 /\ \A f \in JobFields \ {"pc"} : g[f] = j[f]
    BY <2>1 DEF JobOK, JobFields
  <2>3. Place(g) = k + 1 /\ k + 1 <= LastPlace(j.task) /\ g.task = j.task
    BY <1>1, <1>2, <1>4, <2>2 DEF Place, JobFields
  <2>4. JobOK(g)
    BY <1>1, <2>2, <2>3 DEF JobOK, JobFields
  <2>5. Track(k + 1, g, rs, t, bs)
    BY <2>2 DEF JobFields, Track, Reads, Cleans, Copies, Since, Current, Signs
  <2> QED
    BY <2>2, <2>3, <2>4, <2>5 DEF JobFields
<1> QED
  BY <1>3, <1>4

\* A task that fails: nothing has been attested.
LEMMA Fails ==
  ASSUME NEW j, JobOK(j), j.task \in Tasks, Place(j) <= 50 => j.attested = None, NEW rs, NEW t, NEW bs,
         NEW g, g \in {Failed(j), Idle(j.n)}
  PROVE  JobOK(g) /\ g.n = j.n /\ (g.task # "none" => Track(Place(g), g, rs, t, bs))
<1>1. CASE g = Idle(j.n)
  BY <1>1 DEF Idle, JobOK, JobFields
<1>2. CASE g # Idle(j.n)
  <2>1. j.task = "workflow" /\ j.pc < 51 /\ g = [j EXCEPT !.pc = 51]
    BY <1>2, GhIs51 DEF Failed
  <2>2. DOMAIN g = JobFields /\ g.pc = 51 /\ \A f \in JobFields \ {"pc"} : g[f] = j[f]
    BY <2>1 DEF JobOK, JobFields
  <2>3. Place(g) = 51 /\ g.task = "workflow" /\ g.n = j.n /\ g.attested = None
    BY <2>1, <2>2 DEF Place, Begin, JobFields, JobOK
  <2>4. JobOK(g)
    BY <2>1, <2>2, <2>3 DEF JobOK, JobFields, LastPlace, Tasks
  <2>5. Track(51, g, rs, t, bs)
    <3>1. BuildOf(51) = 0
      BY DEF BuildOf
    <3> QED
      BY <2>3, <3>1 DEF Track, Reads, Cleans, Copies, Since, Signs
  <2> QED
    BY <2>3, <2>4, <2>5
<1> QED
  BY <1>1, <1>2

-----------------------------------------------------------------------------
\* A step that changes one thing that a task remembers, or none.
Memory == {"of", "commit", "time", "dirty", "binary", "canonical", "witness", "attested", "record"}
Updated(h, j, f) == DOMAIN h = JobFields /\ JobOK(h) /\ \A g \in JobFields \ {f} : h[g] = j[g]

LEMMA Remember ==
  ASSUME NEW j, JobOK(j), NEW f \in Memory, NEW v, NEW h, h = [j EXCEPT ![f] = v]
  PROVE  Updated(h, j, f) /\ h[f] = v
<1>1. DOMAIN h = JobFields /\ h[f] = v /\ \A g \in JobFields \ {f} : h[g] = j[g]
  BY DEF JobOK, JobFields, Memory
<1>2. JobOK(h)
  BY <1>1 DEF JobOK, JobFields, Memory, Place
<1> QED
  BY <1>1, <1>2 DEF Updated

LEMMA RememberVersion ==
  ASSUME NEW j, JobOK(j), j.task \in Tasks, NEW r \in Places, NEW v, NEW h, h = [j EXCEPT !.version[r] = v]
  PROVE  /\ Updated(h, j, "version") /\ h.version[r] = v
         /\ \A o \in Places \ {r} : h.version[o] = j.version[o]
<1>1. DOMAIN j = JobFields /\ DOMAIN j.version = Places
  BY DEF JobOK, Tasks
<1>2. /\ DOMAIN h = JobFields /\ h.version = [j.version EXCEPT ![r] = v]
      /\ \A g \in JobFields \ {"version"} : h[g] = j[g]
  BY <1>1 DEF JobFields
<1>3. DOMAIN h.version = Places /\ h.version[r] = v /\ \A o \in Places \ {r} : h.version[o] = j.version[o]
  BY <1>1, <1>2
<1>4. JobOK(h)
  BY <1>2, <1>3 DEF JobOK, JobFields, Place
<1> QED
  BY <1>2, <1>3, <1>4 DEF Updated

LEMMA LoadTracks ==
  ASSUME NEW j, NEW k \in {1, 12, 14, 18, 29, 32, 43}, NEW rs, NEW t, NEW bs, NEW h, Track(k, j, rs, t, bs),
         Updated(h, j, "version"), h.version[RootOf(k)] = t.src.version,
         \A o \in Places \ {RootOf(k)} : h.version[o] = j.version[o]
  PROVE  Track(k + 1, h, rs, t, bs)
<1>1. BuildOf(k + 1) \in {0, 2} /\ RootOf(k) \in Places
  BY DEF BuildOf, RootOf, Places
<1>2. Reads(BuildOf(k + 1), h, RootOf(k + 1), rs[RootOf(k + 1)], t)
  BY <1>1 DEF Reads
<1>3. h.task = "workflow" => Cleans(k + 1, h, rs["canonical"], rs["second"], t)
  BY DEF Track, Cleans, Updated, JobFields
<1>4. Copies(k + 1, h, rs, bs)
  BY DEF Track, Copies, Updated, JobFields
<1>5. Since(k + 1, h, rs, t)
  BY DEF Track, Since, Current, RootOf, Places
<1>6. Signs(k + 1, h, rs["canonical"], t)
  BY DEF Track, Signs, Updated, JobFields
<1> QED
  BY <1>2, <1>3, <1>4, <1>5, <1>6 DEF Track

LEMMA CollectTracks ==
  ASSUME NEW j, NEW k \in {2, 19, 33}, NEW rs, NEW t, NEW bs, NEW h, TreeOK(t), Track(k, j, rs, t, bs),
         Updated(h, j, "of"), h.of = t.src
  PROVE  Track(k + 1, h, rs, t, bs)
<1>1. BuildOf(k + 1) = 3
  BY DEF BuildOf
<1>2. Reads(BuildOf(k + 1), h, RootOf(k + 1), rs[RootOf(k + 1)], t)
  BY <1>1 DEF Reads, TreeOK, Srcs, Below
<1>3. h.task = "workflow" => Cleans(k + 1, h, rs["canonical"], rs["second"], t)
  BY DEF Track, Cleans, Updated, JobFields
<1>4. Copies(k + 1, h, rs, bs)
  BY DEF Track, Copies, Updated, JobFields
<1>5. Since(k + 1, h, rs, t)
  BY DEF Track, Since, Current, Updated, JobFields
<1>6. Signs(k + 1, h, rs["canonical"], t)
  BY DEF Track, Signs, Updated, JobFields
<1> QED
  BY <1>2, <1>3, <1>4, <1>5, <1>6 DEF Track

LEMMA CommitTracks ==
  ASSUME NEW j, NEW k \in {3, 20, 34}, NEW rs, NEW t, NEW bs, NEW h, TreeOK(t), Track(k, j, rs, t, bs),
         Updated(h, j, "commit"), h.commit = t.head
  PROVE  Track(k + 1, h, rs, t, bs)
<1>1. BuildOf(k) = 3 /\ BuildOf(k + 1) = 4
  BY DEF BuildOf
<1>2. Reads(BuildOf(k + 1), h, RootOf(k + 1), rs[RootOf(k + 1)], t)
  BY <1>1 DEF Track, Reads, TreeOK, Updated, JobFields
<1>3. h.task = "workflow" => Cleans(k + 1, h, rs["canonical"], rs["second"], t)
  BY DEF Track, Cleans, Updated, JobFields
<1>4. Copies(k + 1, h, rs, bs)
  BY DEF Track, Copies, Updated, JobFields
<1>5. Since(k + 1, h, rs, t)
  BY DEF Track, Since, Current, Updated, JobFields
<1>6. Signs(k + 1, h, rs["canonical"], t)
  BY DEF Track, Signs, Updated, JobFields
<1> QED
  BY <1>2, <1>3, <1>4, <1>5, <1>6 DEF Track

LEMMA TimeTracks ==
  ASSUME NEW j, NEW k \in {4, 21, 35}, NEW rs, NEW t, NEW bs, NEW h, Track(k, j, rs, t, bs), Updated(h, j, "time")
  PROVE  Track(k + 1, h, rs, t, bs)
<1>1. BuildOf(k) = 4 /\ BuildOf(k + 1) = 5
  BY DEF BuildOf
<1>2. Reads(BuildOf(k + 1), h, RootOf(k + 1), rs[RootOf(k + 1)], t)
  BY <1>1 DEF Track, Reads, Updated, JobFields
<1>3. h.task = "workflow" => Cleans(k + 1, h, rs["canonical"], rs["second"], t)
  BY DEF Track, Cleans, Updated, JobFields
<1>4. Copies(k + 1, h, rs, bs)
  BY DEF Track, Copies, Updated, JobFields
<1>5. Since(k + 1, h, rs, t)
  BY DEF Track, Since, Current, Updated, JobFields
<1>6. Signs(k + 1, h, rs["canonical"], t)
  BY DEF Track, Signs, Updated, JobFields
<1> QED
  BY <1>2, <1>3, <1>4, <1>5, <1>6 DEF Track

\* The status of the workflow's own build is clean.
LEMMA StatusTracks ==
  ASSUME NEW j, NEW k \in {5, 22, 36}, NEW rs, NEW t, NEW bs, NEW h, TreeOK(t), Track(k, j, rs, t, bs),
         Updated(h, j, "dirty"), j.task = "workflow" /\ k = 5 => t.src = t.contents[t.head]
  PROVE  Track(k + 1, h, rs, t, bs)
<1>1. BuildOf(k) = 5 /\ BuildOf(k + 1) = 6
  BY DEF BuildOf
<1>2. Reads(BuildOf(k + 1), h, RootOf(k + 1), rs[RootOf(k + 1)], t)
  BY <1>1 DEF Track, Reads, Updated, JobFields
<1>3. h.task = "workflow" => Cleans(k + 1, h, rs["canonical"], rs["second"], t)
  <2>1. CASE k = 5
    <3>1. h.task = j.task /\ h.commit = j.commit /\ h.of = j.of
      BY DEF Updated, JobFields
    <3>2. j.commit \in 1..t.head /\ Below(j.of, t.src) /\ Below(t.src, t.src)
      BY <1>1 DEF Track, Reads, TreeOK, Srcs, Below
    <3> QED
      BY <2>1, <3>1, <3>2 DEF Cleans, TreeOK
  <2>2. CASE k # 5
    BY <2>2 DEF Track, Cleans, Updated, JobFields
  <2> QED
    BY <2>1, <2>2
<1>4. Copies(k + 1, h, rs, bs)
  BY DEF Track, Copies, Updated, JobFields
<1>5. Since(k + 1, h, rs, t)
  BY DEF Track, Since, Current, Updated, JobFields
<1>6. Signs(k + 1, h, rs["canonical"], t)
  BY DEF Track, Signs, Updated, JobFields
<1> QED
  BY <1>2, <1>3, <1>4, <1>5, <1>6 DEF Track

Elsewhere(ss, rs, r) == DOMAIN ss = Places /\ \A o \in Places \ {r} : ss[o] = rs[o]
Wrote(e, d, name, x) ==
    DOMAIN e = DOMAIN d \cup {name} /\ e[name] = x /\ \A n \in DOMAIN d \ {name} : e[n] = d[n]

LEMMA PutWrites ==
  ASSUME NEW d, NEW name, NEW x, NEW e, e = Put(d, name, x)
  PROVE  Wrote(e, d, name, x)
BY DEF Put, Wrote

LEMMA ClearTracks ==
  ASSUME NEW j, NEW k \in {6, 17, 23, 31, 37}, NEW rs, NEW t, NEW bs, NEW ss, Track(k, j, rs, t, bs),
         Elsewhere(ss, rs, RootOf(k))
  PROVE  Track(k + 1, j, ss, t, bs)
<1>1. RootOf(k) \in Places /\ Places = {"canonical", "first", "second"}
  BY DEF RootOf, Places
<1>2. Reads(BuildOf(k + 1), j, RootOf(k + 1), ss[RootOf(k + 1)], t)
  BY DEF Track, Reads, BuildOf, RootOf
<1>3. j.task = "workflow" => Cleans(k + 1, j, ss["canonical"], ss["second"], t)
  BY <1>1 DEF Track, Cleans, Elsewhere, RootOf
<1>4. Copies(k + 1, j, ss, bs)
  BY <1>1 DEF Track, Copies, Elsewhere, RootOf
<1>5. Since(k + 1, j, ss, t)
  BY <1>1 DEF Track, Since, Current, Elsewhere, RootOf
<1>6. Signs(k + 1, j, ss["canonical"], t)
  BY DEF Track, Signs
<1> QED
  BY <1>2, <1>3, <1>4, <1>5, <1>6 DEF Track

LEMMA CompileTracks ==
  ASSUME NEW j, NEW k \in {7, 24, 38}, NEW rs, NEW t, NEW bs, NEW ss, NEW h, Track(k, j, rs, t, bs),
         TreeOK(t), Elsewhere(ss, rs, RootOf(k)), Updated(h, j, "binary"),
         h.binary.of = t.src.code, h.binary.version = j.version[RootOf(k)], h.binary.commit = j.commit
  PROVE  Track(k + 1, h, ss, t, bs)
<1>1. RootOf(k) \in Places /\ Places = {"canonical", "first", "second"}
  BY DEF RootOf, Places
<1>2. Reads(BuildOf(k + 1), h, RootOf(k + 1), ss[RootOf(k + 1)], t)
  BY DEF Track, Reads, BuildOf, RootOf, TreeOK, Srcs, Below, Updated, JobFields
<1>3. h.task = "workflow" => Cleans(k + 1, h, ss["canonical"], ss["second"], t)
  BY <1>1 DEF Track, Cleans, Elsewhere, RootOf, Updated, JobFields
<1>4. Copies(k + 1, h, ss, bs)
  BY <1>1 DEF Track, Copies, Elsewhere, RootOf, Updated, JobFields
<1>5. Since(k + 1, h, ss, t)
  BY <1>1 DEF Track, Since, Current, Elsewhere, RootOf, Updated, JobFields
<1>6. Signs(k + 1, h, ss["canonical"], t)
  BY DEF Track, Signs, Updated, JobFields
<1> QED
  BY <1>2, <1>3, <1>4, <1>5, <1>6 DEF Track

\* What the compiler read is what was collected, before it and after it.
LEMMA RecollectTracks ==
  ASSUME NEW j, NEW k \in {8, 25, 39}, NEW rs, NEW t, NEW bs, Track(k, j, rs, t, bs),
         TreeOK(t), j.of = t.src
  PROVE  Track(k + 1, j, rs, t, bs)
<1>2. Reads(BuildOf(k + 1), j, RootOf(k + 1), rs[RootOf(k + 1)], t)
  BY DEF Track, Reads, BuildOf, RootOf, TreeOK, Srcs, Below
<1>3. j.task = "workflow" => Cleans(k + 1, j, rs["canonical"], rs["second"], t)
  <2>1. CASE k = 8 /\ t.head <= j.commit /\ j.task = "workflow"
    <3>1. j.commit \in 1..t.head
      BY <2>1 DEF Track, Reads, BuildOf
    <3>2. Below(t.src, t.contents[j.commit]) /\ Below(t.contents[j.commit], t.src)
      BY <2>1, <3>1 DEF Track, Cleans, TreeOK
    <3>3. t.src \in Srcs(t.edits + 1) /\ t.contents[j.commit] \in Srcs(t.edits + 1) /\ t.edits \in Nat
      BY <3>1 DEF TreeOK
    <3>4. t.src = t.contents[j.commit]
      BY <3>2, <3>3 DEF Srcs, Below
    <3> QED
      BY <2>1, <3>4 DEF Cleans
  <2>2. CASE k = 8 /\ ~(t.head <= j.commit) /\ j.task = "workflow"
    <3>1. j.commit \in 1..t.head /\ t.head \in Nat
      BY <2>2 DEF Track, Reads, BuildOf, TreeOK
    <3> QED
      BY <2>2, <3>1 DEF Cleans
  <2>3. CASE k # 8
    BY <2>3 DEF Track, Cleans
  <2> QED
    BY <2>1, <2>2, <2>3
<1>4. Copies(k + 1, j, rs, bs)
  BY DEF Track, Copies
<1>5. Since(k + 1, j, rs, t)
  BY DEF Track, Since
<1>6. Signs(k + 1, j, rs["canonical"], t)
  BY DEF Track, Signs
<1> QED
  BY <1>2, <1>3, <1>4, <1>5, <1>6 DEF Track

LEMMA SourcesTracks ==
  ASSUME NEW j, NEW k \in {9, 26, 40}, NEW rs, NEW t, NEW bs, NEW ss, Track(k, j, rs, t, bs),
         Elsewhere(ss, rs, RootOf(k)), ss[RootOf(k)]["source-manifest"].says = j.of
  PROVE  Track(k + 1, j, ss, t, bs)
<1>1. RootOf(k) \in Places /\ Places = {"canonical", "first", "second"}
  BY DEF RootOf, Places
<1>2. Reads(BuildOf(k + 1), j, RootOf(k + 1), ss[RootOf(k + 1)], t)
  BY DEF Track, Reads, BuildOf, RootOf
<1>3. j.task = "workflow" => Cleans(k + 1, j, ss["canonical"], ss["second"], t)
  BY <1>1 DEF Track, Cleans, Elsewhere, RootOf
<1>4. Copies(k + 1, j, ss, bs)
  BY <1>1 DEF Track, Copies, Elsewhere, RootOf
<1>5. Since(k + 1, j, ss, t)
  BY <1>1 DEF Track, Since, Current, Elsewhere, RootOf
<1>6. Signs(k + 1, j, ss["canonical"], t)
  BY DEF Track, Signs
<1> QED
  BY <1>2, <1>3, <1>4, <1>5, <1>6 DEF Track

LEMMA ManifestTracks ==
  ASSUME NEW j, NEW k \in {10, 27, 41}, NEW rs, NEW t, NEW bs, NEW ss, Track(k, j, rs, t, bs),
         TreeOK(t), Elsewhere(ss, rs, RootOf(k)), "release-manifest" \in DOMAIN ss[RootOf(k)],
         StoredManifest(ss[RootOf(k)]).commit = j.commit, StoredManifest(ss[RootOf(k)]).sources = j.of
  PROVE  Track(k + 1, j, ss, t, bs)
<1>1. RootOf(k) \in Places /\ Places = {"canonical", "first", "second"}
  BY DEF RootOf, Places
<1>2. Reads(BuildOf(k + 1), j, RootOf(k + 1), ss[RootOf(k + 1)], t)
  BY DEF Track, Reads, BuildOf, RootOf
<1>3. j.task = "workflow" => Cleans(k + 1, j, ss["canonical"], ss["second"], t)
  BY <1>1 DEF Track, Cleans, Elsewhere, RootOf, Reads, BuildOf, TreeOK, Newer, Settled
<1>4. Copies(k + 1, j, ss, bs)
  BY <1>1 DEF Track, Copies, Elsewhere, RootOf
<1>5. Since(k + 1, j, ss, t)
  BY <1>1 DEF Track, Since, Current, Elsewhere, RootOf
<1>6. Signs(k + 1, j, ss["canonical"], t)
  BY DEF Track, Signs
<1> QED
  BY <1>2, <1>3, <1>4, <1>5, <1>6 DEF Track

LEMMA SumsTracks ==
  ASSUME NEW j, NEW k \in {11, 28, 42, 47}, NEW rs, NEW t, NEW bs, NEW ss, Track(k, j, rs, t, bs),
         NEW x, Elsewhere(ss, rs, RootOf(k)), Wrote(ss[RootOf(k)], rs[RootOf(k)], "SHA256SUMS", x)
  PROVE  Track(k + 1, j, ss, t, bs)
<1>1. RootOf(k) \in Places /\ Places = {"canonical", "first", "second"}
  BY DEF RootOf, Places
<1>2. Reads(BuildOf(k + 1), j, RootOf(k + 1), ss[RootOf(k + 1)], t)
  BY DEF Reads, BuildOf
<1>3. j.task = "workflow" => Cleans(k + 1, j, ss["canonical"], ss["second"], t)
  BY <1>1 DEF Track, Cleans, Elsewhere, RootOf, Wrote, StoredManifest
<1>4. Copies(k + 1, j, ss, bs)
  BY <1>1 DEF Track, Copies, Elsewhere, RootOf, Wrote, StoredManifest
<1>5. Since(k + 1, j, ss, t)
  BY <1>1 DEF Track, Since, Current, Uncut, Elsewhere, RootOf, Wrote, StoredManifest
<1>6. Signs(k + 1, j, ss["canonical"], t)
  BY DEF Track, Signs
<1> QED
  BY <1>2, <1>3, <1>4, <1>5, <1>6 DEF Track

\* The check compares the version of the manifest with the one that was loaded and
\* with the sources present: what was loaded is not older than they are.
LEMMA CheckTracks ==
  ASSUME NEW j, NEW k \in {13, 15, 30, 44, 48}, NEW rs, NEW t, NEW bs, Track(k, j, rs, t, bs),
         TreeOK(t),
         k = 13 => /\ Uncut(rs["canonical"], "release-manifest")
                   /\ StoredManifest(rs["canonical"]).version = j.version["canonical"]
                   /\ StoredManifest(rs["canonical"]).sources = t.src,
         k \in {30, 44} => "artifact" \in DOMAIN rs[RootOf(k)]
  PROVE  Track(k + 1, j, rs, t, bs)
<1>2. Reads(BuildOf(k + 1), j, RootOf(k + 1), rs[RootOf(k + 1)], t)
  BY DEF Reads, BuildOf
<1>3. j.task = "workflow" => Cleans(k + 1, j, rs["canonical"], rs["second"], t)
  BY DEF Track, Cleans, Since, Current, TreeOK, Srcs
<1>4. Copies(k + 1, j, rs, bs)
  BY DEF Track, Copies, RootOf
<1>5. Since(k + 1, j, rs, t)
  BY DEF Track, Since
<1>6. Signs(k + 1, j, rs["canonical"], t)
  BY DEF Track, Signs
<1> QED
  BY <1>2, <1>3, <1>4, <1>5, <1>6 DEF Track

LEMMA SnapshotTracks ==
  ASSUME NEW j, NEW k \in {16}, NEW rs, NEW t, NEW bs, NEW h, Track(k, j, rs, t, bs),
         Updated(h, j, "canonical"), h.canonical["release-manifest"] = StoredManifest(rs["canonical"])
  PROVE  Track(k + 1, h, rs, t, bs)
<1>2. Reads(BuildOf(k + 1), h, RootOf(k + 1), rs[RootOf(k + 1)], t)
  BY DEF Reads, BuildOf
<1>3. h.task = "workflow" => Cleans(k + 1, h, rs["canonical"], rs["second"], t)
  BY DEF Track, Cleans, Updated, JobFields
<1>4. Copies(k + 1, h, rs, bs)
  BY DEF Copies
<1>5. Since(k + 1, h, rs, t)
  BY DEF Track, Since, Current, Updated, JobFields
<1>6. Signs(k + 1, h, rs["canonical"], t)
  BY DEF Track, Signs, Updated, JobFields
<1> QED
  BY <1>2, <1>3, <1>4, <1>5, <1>6 DEF Track

\* Both witnesses wrote the same release; the second's commit was read after the
\* first had ended, so HEAD was still the commit of the manifest.
LEMMA CompareTracks ==
  ASSUME NEW j, NEW k \in {45}, NEW rs, NEW t, NEW bs, NEW h, Track(k, j, rs, t, bs),
         Updated(h, j, "witness"), FilesOK(rs, t, bs, j.n), StoredManifest(rs["second"]) = j.canonical["release-manifest"],
         \A w \in Witnesses : rs[w]["artifact"].says = j.canonical["artifact"]
  PROVE  Track(k + 1, h, rs, t, bs)
<1>2. Reads(BuildOf(k + 1), h, RootOf(k + 1), rs[RootOf(k + 1)], t)
  BY DEF Reads, BuildOf
<1>3. h.task = "workflow" => Cleans(k + 1, h, rs["canonical"], rs["second"], t)
  BY DEF Track, Cleans, Copies, Newer, Updated, JobFields
<1>4. Copies(k + 1, h, rs, bs)
  BY DEF Track, Copies, FilesOK, Witnesses, Updated, JobFields
<1>5. Since(k + 1, h, rs, t)
  BY DEF Track, Since, Current, Updated, JobFields
<1>6. Signs(k + 1, h, rs["canonical"], t)
  BY DEF Track, Signs, Updated, JobFields
<1> QED
  BY <1>2, <1>3, <1>4, <1>5, <1>6 DEF Track

LEMMA ReportTracks ==
  ASSUME NEW j, NEW k \in {46}, NEW rs, NEW t, NEW bs, NEW ss, Track(k, j, rs, t, bs),
         NEW x, Elsewhere(ss, rs, RootOf(k)), Wrote(ss[RootOf(k)], rs[RootOf(k)], "reproducibility-report", x)
  PROVE  Track(k + 1, j, ss, t, bs)
<1>1. RootOf(k) \in Places /\ Places = {"canonical", "first", "second"}
  BY DEF RootOf, Places
<1>2. Reads(BuildOf(k + 1), j, RootOf(k + 1), ss[RootOf(k + 1)], t)
  BY DEF Reads, BuildOf
<1>3. j.task = "workflow" => Cleans(k + 1, j, ss["canonical"], ss["second"], t)
  BY <1>1 DEF Track, Cleans, Elsewhere, RootOf, Wrote, StoredManifest
<1>4. Copies(k + 1, j, ss, bs)
  BY <1>1 DEF Track, Copies, Elsewhere, RootOf, Wrote, StoredManifest
<1>5. Since(k + 1, j, ss, t)
  BY <1>1 DEF Track, Since, Current, Uncut, Elsewhere, RootOf, Wrote, StoredManifest
<1>6. Signs(k + 1, j, ss["canonical"], t)
  BY DEF Track, Signs
<1> QED
  BY <1>2, <1>3, <1>4, <1>5, <1>6 DEF Track

LEMMA CleanupTracks ==
  ASSUME NEW j, NEW k \in {49}, NEW rs, NEW t, NEW bs, NEW ss, Track(k, j, rs, t, bs),
         ss["canonical"] = rs["canonical"]
  PROVE  Track(k + 1, j, ss, t, bs)
<1>2. Reads(BuildOf(k + 1), j, RootOf(k + 1), ss[RootOf(k + 1)], t)
  BY DEF Reads, BuildOf
<1>3. j.task = "workflow" => Cleans(k + 1, j, ss["canonical"], ss["second"], t)
  BY DEF Track, Cleans
<1>4. Copies(k + 1, j, ss, bs)
  BY DEF Copies
<1>5. Since(k + 1, j, ss, t)
  BY DEF Since
<1>6. Signs(k + 1, j, ss["canonical"], t)
  BY DEF Track, Signs
<1> QED
  BY <1>2, <1>3, <1>4, <1>5, <1>6 DEF Track

\* What is attested is settled.
LEMMA AttestTracks ==
  ASSUME NEW j, NEW k \in {50}, NEW rs, NEW t, NEW bs, NEW h, Track(k, j, rs, t, bs),
         Updated(h, j, "attested"), j.task = "workflow"
  PROVE  Track(k + 1, h, rs, t, bs)
<1>2. Reads(BuildOf(k + 1), h, RootOf(k + 1), rs[RootOf(k + 1)], t)
  BY DEF Reads, BuildOf
<1>3. h.task = "workflow" => Cleans(k + 1, h, rs["canonical"], rs["second"], t)
  BY DEF Cleans
<1>4. Copies(k + 1, h, rs, bs)
  BY DEF Copies
<1>5. Since(k + 1, h, rs, t)
  BY DEF Since
<1>6. Signs(k + 1, h, rs["canonical"], t)
  BY DEF Track, Cleans, Signs, Final
<1> QED
  BY <1>2, <1>3, <1>4, <1>5, <1>6 DEF Track

LEMMA GhTracks ==
  ASSUME NEW j, NEW k \in {51}, NEW rs, NEW t, NEW bs, NEW ss, Track(k, j, rs, t, bs),
         StoredManifest(ss["canonical"]) = StoredManifest(rs["canonical"]) \/ "release-manifest" \notin DOMAIN rs["canonical"],
         ss["canonical"]["status"].says = 0 => j.attested # None
  PROVE  Track(k + 1, j, ss, t, bs)
<1>2. Reads(BuildOf(k + 1), j, RootOf(k + 1), ss[RootOf(k + 1)], t)
  BY DEF Reads, BuildOf
<1>3. j.task = "workflow" => Cleans(k + 1, j, ss["canonical"], ss["second"], t)
  BY DEF Cleans
<1>4. Copies(k + 1, j, ss, bs)
  BY DEF Copies
<1>5. Since(k + 1, j, ss, t)
  BY DEF Since
<1>6. Signs(k + 1, j, ss["canonical"], t)
  BY DEF Track, Signs
<1> QED
  BY <1>2, <1>3, <1>4, <1>5, <1>6 DEF Track

LEMMA RecordTracks ==
  ASSUME NEW j, NEW k \in {52}, NEW rs, NEW t, NEW bs, NEW h, Track(k, j, rs, t, bs),
         Updated(h, j, "record")
  PROVE  Track(k + 1, h, rs, t, bs)
<1>2. Reads(BuildOf(k + 1), h, RootOf(k + 1), rs[RootOf(k + 1)], t)
  BY DEF Reads, BuildOf
<1>3. h.task = "workflow" => Cleans(k + 1, h, rs["canonical"], rs["second"], t)
  BY DEF Cleans
<1>4. Copies(k + 1, h, rs, bs)
  BY DEF Copies
<1>5. Since(k + 1, h, rs, t)
  BY DEF Since
<1>6. Signs(k + 1, h, rs["canonical"], t)
  BY DEF Track, Signs
<1> QED
  BY <1>2, <1>3, <1>4, <1>5, <1>6 DEF Track

LEMMA AcceptTracks ==
  ASSUME NEW j, NEW k \in {53}, NEW rs, NEW t, NEW bs, Track(k, j, rs, t, bs),
         TRUE
  PROVE  Track(k + 1, j, rs, t, bs)
<1>2. Reads(BuildOf(k + 1), j, RootOf(k + 1), rs[RootOf(k + 1)], t)
  BY DEF Reads, BuildOf
<1>3. j.task = "workflow" => Cleans(k + 1, j, rs["canonical"], rs["second"], t)
  BY DEF Cleans
<1>4. Copies(k + 1, j, rs, bs)
  BY DEF Copies
<1>5. Since(k + 1, j, rs, t)
  BY DEF Since
<1>6. Signs(k + 1, j, rs["canonical"], t)
  BY DEF Signs
<1> QED
  BY <1>2, <1>3, <1>4, <1>5, <1>6 DEF Track


-----------------------------------------------------------------------------
LEMMA FilesPut ==
  ASSUME NEW rs, NEW t, NEW bs, NEW n, FilesOK(rs, t, bs, n), NEW r \in Places, NEW name, NEW x, NEW ss, NEW cs,
         Elsewhere(ss, rs, r), Wrote(ss[r], rs[r], name, x), bs \subseteq cs,
         name = "release-manifest" /\ ~x.cut => ReleaseManifestOK(x.says, t),
         name = "reproducibility-report" /\ ~x.cut =>
             \E k \in 1..MaxTasks : \A w \in Witnesses : <<k, w, x.says.subject>> \in cs,
         name = "artifact" /\ r \in Witnesses => <<n, r, x.says>> \in cs
  PROVE  FilesOK(ss, t, cs, n)
<1>1. ASSUME NEW o \in Places, Uncut(ss[o], "release-manifest") PROVE ReleaseManifestOK(StoredManifest(ss[o]), t)
  BY <1>1 DEF FilesOK, Elsewhere, Wrote, Uncut, StoredManifest
<1>2. ASSUME NEW o \in Places, Uncut(ss[o], "reproducibility-report")
      PROVE  \E k \in 1..MaxTasks : \A w \in Witnesses : <<k, w, ss[o]["reproducibility-report"].says.subject>> \in cs
  <2>1. CASE ss[o]["reproducibility-report"] = x /\ name = "reproducibility-report"
    BY <1>2, <2>1 DEF Uncut
  <2>2. CASE ~(ss[o]["reproducibility-report"] = x /\ name = "reproducibility-report")
    <3>1. Uncut(rs[o], "reproducibility-report") /\ ss[o]["reproducibility-report"] = rs[o]["reproducibility-report"]
      BY <1>2, <2>2 DEF Elsewhere, Wrote, Uncut
    <3>2. PICK k \in 1..MaxTasks : \A w \in Witnesses : <<k, w, rs[o]["reproducibility-report"].says.subject>> \in bs
      BY <3>1 DEF FilesOK
    <3> QED
      BY <3>1, <3>2
  <2> QED
    BY <2>1, <2>2
<1>3. ASSUME NEW w \in Witnesses, "artifact" \in DOMAIN ss[w] PROVE <<n, w, ss[w]["artifact"].says>> \in cs
  <2>1. w \in Places
    BY DEF Witnesses, Places
  <2> QED
    BY <1>3, <2>1 DEF FilesOK, Elsewhere, Wrote
<1> QED
  BY <1>1, <1>2, <1>3 DEF FilesOK, Elsewhere

LEMMA FilesLess ==
  ASSUME NEW rs, NEW t, NEW bs, NEW n, FilesOK(rs, t, bs, n), NEW ss, DOMAIN ss = Places,
         \A r \in Places : DOMAIN ss[r] \subseteq DOMAIN rs[r] /\ \A name \in DOMAIN ss[r] : ss[r][name] = rs[r][name]
  PROVE  FilesOK(ss, t, bs, n)
<1>1. \A o \in Places : Uncut(ss[o], "release-manifest") => ReleaseManifestOK(StoredManifest(ss[o]), t)
  BY DEF FilesOK, Uncut, StoredManifest
<1>2. ASSUME NEW o \in Places, Uncut(ss[o], "reproducibility-report")
      PROVE  \E k \in 1..MaxTasks : \A w \in Witnesses : <<k, w, ss[o]["reproducibility-report"].says.subject>> \in bs
  <2>1. Uncut(rs[o], "reproducibility-report") /\ ss[o]["reproducibility-report"] = rs[o]["reproducibility-report"]
    BY <1>2 DEF Uncut
  <2> QED
    BY <2>1 DEF FilesOK
<1>3. ASSUME NEW w \in Witnesses, "artifact" \in DOMAIN ss[w] PROVE <<n, w, ss[w]["artifact"].says>> \in bs
  <2>1. w \in Places
    BY DEF Witnesses, Places
  <2> QED
    BY <1>3, <2>1 DEF FilesOK
<1> QED
  BY <1>1, <1>2, <1>3 DEF FilesOK

LEMMA NothingIsThere == DOMAIN Nothing = {}
<1>1. PICK x : x = Nothing
  OBVIOUS
<1>2. x = <<>>
  BY <1>1 DEF Nothing
<1>3. DOMAIN x = {}
  BY <1>2
<1> QED
  BY <1>1, <1>3

\* What was accepted stays accepted: builds are only added.
LEMMA AcceptedStays ==
  ASSUME AcceptedReleaseIsOfItsSources, verdict' = verdict, builds \subseteq builds'
  PROVE  AcceptedReleaseIsOfItsSources'
<1>1. VerifiedOfItsSources'
  BY DEF AcceptedReleaseIsOfItsSources, VerifiedOfItsSources, Accepted, Released, Reproduced
<1>2. SignedOfItsCommit'
  BY DEF AcceptedReleaseIsOfItsSources, SignedOfItsCommit, Accepted, Released
<1> QED
  BY <1>1, <1>2 DEF AcceptedReleaseIsOfItsSources

LEMMA Passes ==
  ASSUME ReleaseInv, NEW h, NEW k, job.task \in Tasks, k = Place(job),
         JobOK(h), h.n = job.n, h.task = job.task, h.pc = job.pc,
         tree' = tree, AcceptedReleaseIsOfItsSources', job' = Advance(h),
         FilesOK(roots', tree, builds', job.n), Track(k + 1, h, roots', tree, builds')
  PROVE  ReleaseInv'
<1>1. PICK g, ss, cs : g = job' /\ ss = roots' /\ cs = builds'
  OBVIOUS
<1>2. k = Place(h) /\ g = Advance(h) /\ h.task \in Tasks /\ Track(k + 1, h, ss, tree, cs)
  BY <1>1 DEF Place
<1>3. JobOK(g) /\ g.n = h.n /\ (g.task # "none" => Track(Place(g), g, ss, tree, cs))
  BY <1>2, Onward
<1>4. TreeOK(tree')
  BY DEF ReleaseInv
<1> QED
  BY <1>1, <1>3, <1>4 DEF ReleaseInv

\* A step that changes nothing but what the task remembers.
LEMMA Notes ==
  ASSUME ReleaseInv, NEW step, At(step), NEW h, NEW f \in Memory \cup {"version"}, Updated(h, job, f), job' = Advance(h),
         NEW k, k = Place(job), UNCHANGED <<tree, roots, builds, verdict>>, Track(k + 1, h, roots, tree, builds)
  PROVE  ReleaseInv'
<1>1. job.task \in Tasks
  BY AtPlace DEF ReleaseInv
<1>2. JobOK(h) /\ h.n = job.n /\ h.task = job.task /\ h.pc = job.pc
  BY DEF Updated, JobFields, Memory
<1>3. AcceptedReleaseIsOfItsSources'
  BY AcceptedStays DEF ReleaseInv
<1>4. FilesOK(roots', tree, builds', job.n) /\ Track(k + 1, h, roots', tree, builds')
  BY DEF ReleaseInv
<1> QED
  BY <1>1, <1>2, <1>3, <1>4, Passes

\* A step that changes nothing but the files.
LEMMA Files ==
  ASSUME ReleaseInv, NEW step, At(step), job' = Advance(job), NEW k, k = Place(job),
         UNCHANGED <<tree, builds, verdict>>, NEW ss, ss = roots', FilesOK(ss, tree, builds, job.n),
         Track(k + 1, job, ss, tree, builds)
  PROVE  ReleaseInv'
<1>1. job.task \in Tasks /\ JobOK(job)
  BY AtPlace DEF ReleaseInv
<1>2. AcceptedReleaseIsOfItsSources'
  BY AcceptedStays DEF ReleaseInv
<1>3. PICK h : h = job
  OBVIOUS
<1>4. FilesOK(roots', tree, builds', job.n) /\ Track(k + 1, h, roots', tree, builds')
  BY <1>3
<1> QED
  BY <1>1, <1>2, <1>3, <1>4, Passes

LEMMA Falls ==
  ASSUME ReleaseInv, job.task \in Tasks, job' \in {Failed(job), Idle(job.n)}, UNCHANGED <<tree, builds, verdict>>,
         NEW ss, ss = roots', FilesOK(ss, tree, builds, job.n)
  PROVE  ReleaseInv'
<1>1. PICK g : g = job'
  OBVIOUS
<1>2. JobOK(job) /\ "none" \notin Tasks
  BY DEF ReleaseInv, Tasks
<1>3. Signs(Place(job), job, roots["canonical"], tree)
  BY <1>2 DEF ReleaseInv, Track
<1>4. JobOK(g) /\ g.n = job.n /\ (g.task # "none" => Track(Place(g), g, ss, tree, builds))
  <2>1. Place(job) <= 50 => job.attested = None
    BY <1>3 DEF Signs
  <2>2. g \in {Failed(job), Idle(job.n)}
    BY <1>1
  <2> QED
    BY <1>2, <2>1, <2>2, Fails
<1>5. AcceptedReleaseIsOfItsSources'
  BY AcceptedStays DEF ReleaseInv
<1>6. TreeOK(tree')
  BY DEF ReleaseInv
<1> QED
  BY <1>1, <1>4, <1>5, <1>6 DEF ReleaseInv

LEMMA LoadSteps == ReleaseInv /\ Load => ReleaseInv'
<1> SUFFICES ASSUME ReleaseInv, Load PROVE ReleaseInv'
  OBVIOUS
<1>1. At("load") /\ JobOK(job)
  BY DEF ReleaseInv, Load
<1>2. PICK k : k = Place(job)
  OBVIOUS
<1>3. job.task \in Tasks /\ k \in 1..53 /\ PlanDo(k) = "load" /\ Root = RootOf(k)
  BY <1>1, <1>2, AtPlace
<1>4. k \in {1, 12, 14, 18, 29, 32, 43}
  BY <1>3, Places53
<1>5. Track(k, job, roots, tree, builds) /\ TreeOK(tree)
  BY <1>2, <1>3 DEF ReleaseInv, Tasks
<1>6. PICK h : h = [job EXCEPT !.version[Root] = tree.src.version]
  OBVIOUS
<1>7. /\ Updated(h, job, "version") /\ h.version[RootOf(k)] = tree.src.version
      /\ \A o \in Places \ {RootOf(k)} : h.version[o] = job.version[o]
  <2>1. PICK v, r : v = tree.src.version /\ r = Root
    OBVIOUS
  <2>2. r \in Places /\ r = RootOf(k)
    BY <1>3, <2>1 DEF RootOf, Places
  <2>3. h = [job EXCEPT !.version[r] = v]
    BY <1>6, <2>1
  <2>4. Updated(h, job, "version")
    BY <1>1, <1>3, <2>2, <2>3, RememberVersion
  <2>5. h.version[r] = v /\ \A o \in Places \ {r} : h.version[o] = job.version[o]
    BY <1>1, <1>3, <2>2, <2>3, RememberVersion
  <2> QED
    BY <2>1, <2>2, <2>4, <2>5
<1>8. job' = Advance(h) /\ UNCHANGED <<tree, roots, builds, verdict>>
  BY <1>6 DEF Load, Pass, Keep
<1>9. Track(k + 1, h, roots, tree, builds)
  BY <1>4, <1>5, <1>7, LoadTracks
<1> QED
  BY <1>1, <1>2, <1>7, <1>8, <1>9, Notes

LEMMA CollectSteps == ReleaseInv /\ Collect => ReleaseInv'
<1> SUFFICES ASSUME ReleaseInv, Collect PROVE ReleaseInv'
  OBVIOUS
<1>1. At("collect") /\ JobOK(job)
  BY DEF ReleaseInv, Collect
<1>2. PICK k : k = Place(job)
  OBVIOUS
<1>3. job.task \in Tasks /\ k \in 1..53 /\ PlanDo(k) = "collect" /\ Root = RootOf(k)
  BY <1>1, <1>2, AtPlace
<1>4. k \in {2, 19, 33}
  BY <1>3, Places53
<1>5. Track(k, job, roots, tree, builds) /\ TreeOK(tree)
  BY <1>2, <1>3 DEF ReleaseInv, Tasks
<1>6. PICK h : h = [job EXCEPT !.of = CollectSourceManifest]
  OBVIOUS
<1>7. Updated(h, job, "of") /\ h.of = CollectSourceManifest
  <2>1. PICK v : v = CollectSourceManifest
    OBVIOUS
  <2>2. h = [job EXCEPT !["of"] = v] /\ "of" \in Memory
    BY <1>6, <2>1 DEF Memory
  <2>3. Updated(h, job, "of")
    BY <1>1, <2>2, Remember
  <2>4. h["of"] = v
    BY <1>1, <2>2, Remember
  <2> QED
    BY <2>1, <2>3, <2>4
<1>8. job' = Advance(h) /\ UNCHANGED <<tree, roots, builds, verdict>>
  BY <1>6 DEF Collect, Pass, Keep
<1>9. Track(k + 1, h, roots, tree, builds)
  BY <1>4, <1>5, <1>7, CollectTracks DEF CollectSourceManifest
<1> QED
  BY <1>1, <1>2, <1>7, <1>8, <1>9, Notes DEF Memory

LEMMA ResolveCommitSteps == ReleaseInv /\ ResolveCommit => ReleaseInv'
<1> SUFFICES ASSUME ReleaseInv, ResolveCommit PROVE ReleaseInv'
  OBVIOUS
<1>1. At("commit") /\ JobOK(job)
  BY DEF ReleaseInv, ResolveCommit
<1>2. PICK k : k = Place(job)
  OBVIOUS
<1>3. job.task \in Tasks /\ k \in 1..53 /\ PlanDo(k) = "commit" /\ Root = RootOf(k)
  BY <1>1, <1>2, AtPlace
<1>4. k \in {3, 20, 34}
  BY <1>3, Places53
<1>5. Track(k, job, roots, tree, builds) /\ TreeOK(tree)
  BY <1>2, <1>3 DEF ReleaseInv, Tasks
<1>6. PICK h : h = [job EXCEPT !.commit = tree.head]
  OBVIOUS
<1>7. Updated(h, job, "commit") /\ h.commit = tree.head
  <2>1. PICK v : v = tree.head
    OBVIOUS
  <2>2. h = [job EXCEPT !["commit"] = v] /\ "commit" \in Memory
    BY <1>6, <2>1 DEF Memory
  <2>3. Updated(h, job, "commit")
    BY <1>1, <2>2, Remember
  <2>4. h["commit"] = v
    BY <1>1, <2>2, Remember
  <2> QED
    BY <2>1, <2>3, <2>4
<1>8. job' = Advance(h) /\ UNCHANGED <<tree, roots, builds, verdict>>
  BY <1>6 DEF ResolveCommit, Pass, Keep
<1>9. Track(k + 1, h, roots, tree, builds)
  BY <1>4, <1>5, <1>7, CommitTracks
<1> QED
  BY <1>1, <1>2, <1>7, <1>8, <1>9, Notes DEF Memory

LEMMA ResolveTimeSteps == ReleaseInv /\ ResolveTime => ReleaseInv'
<1> SUFFICES ASSUME ReleaseInv, ResolveTime PROVE ReleaseInv'
  OBVIOUS
<1>1. At("time") /\ JobOK(job)
  BY DEF ReleaseInv, ResolveTime
<1>2. PICK k : k = Place(job)
  OBVIOUS
<1>3. job.task \in Tasks /\ k \in 1..53 /\ PlanDo(k) = "time" /\ Root = RootOf(k)
  BY <1>1, <1>2, AtPlace
<1>4. k \in {4, 21, 35}
  BY <1>3, Places53
<1>5. Track(k, job, roots, tree, builds) /\ TreeOK(tree)
  BY <1>2, <1>3 DEF ReleaseInv, Tasks
<1>6. PICK h : h = [job EXCEPT !.time = tree.head]
  OBVIOUS
<1>7. Updated(h, job, "time") /\ h.time = tree.head
  <2>1. PICK v : v = tree.head
    OBVIOUS
  <2>2. h = [job EXCEPT !["time"] = v] /\ "time" \in Memory
    BY <1>6, <2>1 DEF Memory
  <2>3. Updated(h, job, "time")
    BY <1>1, <2>2, Remember
  <2>4. h["time"] = v
    BY <1>1, <2>2, Remember
  <2> QED
    BY <2>1, <2>3, <2>4
<1>8. job' = Advance(h) /\ UNCHANGED <<tree, roots, builds, verdict>>
  BY <1>6 DEF ResolveTime, Pass, Keep
<1>9. Track(k + 1, h, roots, tree, builds)
  BY <1>4, <1>5, <1>7, TimeTracks
<1> QED
  BY <1>1, <1>2, <1>7, <1>8, <1>9, Notes DEF Memory

LEMMA InspectStatusSteps == ReleaseInv /\ InspectStatus => ReleaseInv'
<1> SUFFICES ASSUME ReleaseInv, InspectStatus PROVE ReleaseInv'
  OBVIOUS
<1>1. At("status") /\ JobOK(job)
  BY DEF ReleaseInv, InspectStatus
<1>2. PICK k : k = Place(job)
  OBVIOUS
<1>3. job.task \in Tasks /\ k \in 1..53 /\ PlanDo(k) = "status" /\ Root = RootOf(k)
  BY <1>1, <1>2, AtPlace
<1>4. k \in {5, 22, 36}
  BY <1>3, Places53
<1>5. Track(k, job, roots, tree, builds) /\ TreeOK(tree)
  BY <1>2, <1>3 DEF ReleaseInv, Tasks
<1>6. CASE RequireClean /\ SourceDirty
  <2>1. job' = Failed(job) /\ UNCHANGED <<tree, roots, builds, verdict>>
    BY <1>6 DEF InspectStatus, Fail, Keep
  <2>2. PICK ss : ss = roots'
    OBVIOUS
  <2>3. FilesOK(ss, tree, builds, job.n)
    BY <2>1, <2>2 DEF ReleaseInv
  <2> QED
    BY <1>3, <2>1, <2>2, <2>3, Falls
<1>7. CASE ~(RequireClean /\ SourceDirty)
  <2>1. PICK v : v = SourceDirty
    OBVIOUS
  <2>2. PICK h : h = [job EXCEPT !.dirty = v]
    OBVIOUS
  <2>3. job' = Advance(h) /\ UNCHANGED <<tree, roots, builds, verdict>>
    BY <1>7, <2>1, <2>2 DEF InspectStatus, Pass, Keep
  <2>4. Updated(h, job, "dirty")
    <3>1. h = [job EXCEPT !["dirty"] = v] /\ "dirty" \in Memory
      BY <2>2 DEF Memory
    <3> QED
      BY <1>1, <3>1, Remember
  <2>5. job.task = "workflow" /\ k = 5 => tree.src = tree.contents[tree.head]
    BY <1>1, <1>3, <1>7 DEF RequireClean, SourceDirty, RootOf, JobOK, Tasks
  <2>6. Track(k + 1, h, roots, tree, builds)
    BY <1>4, <1>5, <2>4, <2>5, StatusTracks
  <2> QED
    BY <1>1, <1>2, <2>3, <2>4, <2>6, Notes DEF Memory
<1> QED
  BY <1>6, <1>7

LEMMA ClearRootSteps == ReleaseInv /\ ClearRoot => ReleaseInv'
<1> SUFFICES ASSUME ReleaseInv, ClearRoot PROVE ReleaseInv'
  OBVIOUS
<1>1. At("clear") /\ JobOK(job)
  BY DEF ReleaseInv, ClearRoot
<1>2. PICK k : k = Place(job)
  OBVIOUS
<1>3. job.task \in Tasks /\ k \in 1..53 /\ PlanDo(k) = "clear" /\ Root = RootOf(k)
  BY <1>1, <1>2, AtPlace
<1>4. k \in {6, 23, 37}
  BY <1>3, Places53
<1>5. Track(k, job, roots, tree, builds) /\ TreeOK(tree)
  BY <1>2, <1>3 DEF ReleaseInv, Tasks
<1>6. job' = Advance(job) /\ UNCHANGED <<tree, builds, verdict>> /\ roots' = [roots EXCEPT ![RootOf(k)] = Nothing]
  BY <1>3 DEF ClearRoot, Pass, Keep
<1>7. PICK ss : ss = roots'
  OBVIOUS
<1>8. RootOf(k) \in Places /\ DOMAIN roots = Places
  BY <1>1 DEF RootOf, Places, ReleaseInv, FilesOK
<1>9. Elsewhere(ss, roots, RootOf(k)) /\ DOMAIN ss[RootOf(k)] = {} /\ DOMAIN ss = Places
  <2>1. ss[RootOf(k)] = Nothing /\ DOMAIN ss = Places /\ \A o \in Places \ {RootOf(k)} : ss[o] = roots[o]
    BY <1>6, <1>7, <1>8
  <2> QED
    BY <2>1, NothingIsThere DEF Elsewhere
<1>10. FilesOK(ss, tree, builds, job.n)
  <2>1. \A r \in Places : DOMAIN ss[r] \subseteq DOMAIN roots[r] /\ \A name \in DOMAIN ss[r] : ss[r][name] = roots[r][name]
    BY <1>9 DEF Elsewhere
  <2> QED
    BY <1>9, <2>1, FilesLess DEF ReleaseInv
<1>11. Track(k + 1, job, ss, tree, builds)
  BY <1>4, <1>5, <1>9, ClearTracks
<1> QED
  BY <1>1, <1>2, <1>6, <1>7, <1>10, <1>11, Files

LEMMA PrepareSteps == ReleaseInv /\ Prepare => ReleaseInv'
<1> SUFFICES ASSUME ReleaseInv, Prepare PROVE ReleaseInv'
  OBVIOUS
<1>1. At("prepare") /\ JobOK(job)
  BY DEF ReleaseInv, Prepare
<1>2. PICK k : k = Place(job)
  OBVIOUS
<1>3. job.task \in Tasks /\ k \in 1..53 /\ PlanDo(k) = "prepare" /\ Root = RootOf(k)
  BY <1>1, <1>2, AtPlace
<1>4. k \in {17, 31}
  BY <1>3, Places53
<1>5. Track(k, job, roots, tree, builds) /\ TreeOK(tree)
  BY <1>2, <1>3 DEF ReleaseInv, Tasks
<1>6. job' = Advance(job) /\ UNCHANGED <<tree, builds, verdict>> /\ roots' = [roots EXCEPT ![RootOf(k)] = Nothing]
  BY <1>3 DEF Prepare, Pass, Keep
<1>7. PICK ss : ss = roots'
  OBVIOUS
<1>8. RootOf(k) \in Places /\ DOMAIN roots = Places
  BY <1>1 DEF RootOf, Places, ReleaseInv, FilesOK
<1>9. Elsewhere(ss, roots, RootOf(k)) /\ DOMAIN ss[RootOf(k)] = {} /\ DOMAIN ss = Places
  <2>1. ss[RootOf(k)] = Nothing /\ DOMAIN ss = Places /\ \A o \in Places \ {RootOf(k)} : ss[o] = roots[o]
    BY <1>6, <1>7, <1>8
  <2> QED
    BY <2>1, NothingIsThere DEF Elsewhere
<1>10. FilesOK(ss, tree, builds, job.n)
  <2>1. \A r \in Places : DOMAIN ss[r] \subseteq DOMAIN roots[r] /\ \A name \in DOMAIN ss[r] : ss[r][name] = roots[r][name]
    BY <1>9 DEF Elsewhere
  <2> QED
    BY <1>9, <2>1, FilesLess DEF ReleaseInv
<1>11. Track(k + 1, job, ss, tree, builds)
  BY <1>4, <1>5, <1>9, ClearTracks
<1> QED
  BY <1>1, <1>2, <1>6, <1>7, <1>10, <1>11, Files

LEMMA PutsFile ==
  ASSUME NEW rs, DOMAIN rs = Places, NEW r \in Places, NEW name, NEW x, NEW ss, ss = [rs EXCEPT ![r] = Put(@, name, x)]
  PROVE  Elsewhere(ss, rs, r) /\ Wrote(ss[r], rs[r], name, x)
<1>1. DOMAIN ss = Places /\ ss[r] = Put(rs[r], name, x) /\ \A o \in Places \ {r} : ss[o] = rs[o]
  OBVIOUS
<1> QED
  BY <1>1, PutWrites DEF Elsewhere

LEMMA FileSays == ASSUME NEW n, NEW x, NEW f, f = File(n, x) PROVE f.says = x /\ f.cut = FALSE
BY DEF File

LEMMA WriteSourceManifestSteps == ReleaseInv /\ WriteSourceManifest => ReleaseInv'
<1> SUFFICES ASSUME ReleaseInv, WriteSourceManifest PROVE ReleaseInv'
  OBVIOUS
<1>1. At("sources") /\ JobOK(job)
  BY DEF ReleaseInv, WriteSourceManifest
<1>2. PICK k : k = Place(job)
  OBVIOUS
<1>3. job.task \in Tasks /\ k \in 1..53 /\ PlanDo(k) = "sources" /\ Root = RootOf(k)
  BY <1>1, <1>2, AtPlace
<1>4. k \in {9, 26, 40}
  BY <1>3, Places53
<1>5. Track(k, job, roots, tree, builds) /\ TreeOK(tree)
  BY <1>2, <1>3 DEF ReleaseInv, Tasks
<1>6. PICK x : x = File(job.n, job.of)
  OBVIOUS
<1>7. PICK ss : ss = roots'
  OBVIOUS
<1>8. job' = Advance(job) /\ UNCHANGED <<tree, builds, verdict>>
  BY DEF WriteSourceManifest, Pass, Keep
<1>9. RootOf(k) \in Places /\ DOMAIN roots = Places
  BY <1>1 DEF RootOf, Places, ReleaseInv, FilesOK
<1>10. Elsewhere(ss, roots, RootOf(k)) /\ Wrote(ss[RootOf(k)], roots[RootOf(k)], "source-manifest", x)
  <2>1. ss = [roots EXCEPT ![RootOf(k)] = Put(@, "source-manifest", x)]
    BY <1>3, <1>6, <1>7 DEF WriteSourceManifest, PutFile
  <2> QED
    BY <1>9, <2>1, PutsFile
<1>11. FilesOK(ss, tree, builds, job.n)
  <2>1. FilesOK(roots, tree, builds, job.n)
    BY DEF ReleaseInv
  <2> QED
    BY <1>9, <1>10, <2>1, FilesPut
<1>12. Track(k + 1, job, ss, tree, builds)
  <2>1. ss[RootOf(k)]["source-manifest"].says = job.of
    BY <1>6, <1>10 DEF File, Wrote
  <2> QED
    BY <1>4, <1>5, <1>10, <2>1, SourcesTracks
<1> QED
  BY <1>1, <1>2, <1>7, <1>8, <1>11, <1>12, Files

LEMMA WriteManifestSteps == ReleaseInv /\ WriteManifest => ReleaseInv'
<1> SUFFICES ASSUME ReleaseInv, WriteManifest PROVE ReleaseInv'
  OBVIOUS
<1>1. At("manifest") /\ JobOK(job)
  BY DEF ReleaseInv, WriteManifest
<1>2. PICK k : k = Place(job)
  OBVIOUS
<1>3. job.task \in Tasks /\ k \in 1..53 /\ PlanDo(k) = "manifest" /\ Root = RootOf(k)
  BY <1>1, <1>2, AtPlace
<1>4. k \in {10, 27, 41}
  BY <1>3, Places53
<1>5. Track(k, job, roots, tree, builds) /\ TreeOK(tree)
  BY <1>2, <1>3 DEF ReleaseInv, Tasks
<1>6. PICK x : x = File(job.n, ReleaseManifest(Dir))
  OBVIOUS
<1>7. PICK ss : ss = roots'
  OBVIOUS
<1>8. job' = Advance(job) /\ UNCHANGED <<tree, builds, verdict>>
  BY DEF WriteManifest, Pass, Keep
<1>9. RootOf(k) \in Places /\ DOMAIN roots = Places
  BY <1>1 DEF RootOf, Places, ReleaseInv, FilesOK
<1>10. Elsewhere(ss, roots, RootOf(k)) /\ Wrote(ss[RootOf(k)], roots[RootOf(k)], "release-manifest", x)
  <2>1. ss = [roots EXCEPT ![RootOf(k)] = Put(@, "release-manifest", x)]
    BY <1>3, <1>6, <1>7 DEF WriteManifest, PutFile
  <2> QED
    BY <1>9, <2>1, PutsFile
<1>13. x.says = ReleaseManifest(Dir) /\ Dir = roots[RootOf(k)]
  <2>1. Dir = roots[RootOf(k)]
    BY <1>3 DEF Dir
  <2> PICK r : r = ReleaseManifest(Dir)
    OBVIOUS
  <2>2. x = File(job.n, r)
    BY <1>6
  <2>3. x.says = r
    BY <2>2, FileSays
  <2> QED
    BY <2>1, <2>3
<1>14. BuildOf(k) = 10
  BY <1>4 DEF BuildOf
<1>15. /\ job.of \in Srcs(tree.edits + 1) /\ job.commit \in 1..tree.head /\ job.binary.of = job.of.code
       /\ job.binary.version = job.version[RootOf(k)] /\ job.binary.commit = job.commit
       /\ roots[RootOf(k)]["source-manifest"].says = job.of
  BY <1>5, <1>14 DEF Track, Reads
<1>16. PICK m : m = ReleaseManifest(Dir)
  OBVIOUS
<1>17. m.sources = job.of /\ m.subject = job.binary /\ m.version = job.version[RootOf(k)] /\ m.commit = job.commit
  BY <1>3, <1>13, <1>15, <1>16 DEF ReleaseManifest
<1>18. ReleaseManifestOK(x.says, tree)
  BY <1>5, <1>13, <1>15, <1>16, <1>17 DEF ReleaseManifestOK, TreeOK
<1>11. FilesOK(ss, tree, builds, job.n)
  <2>1. FilesOK(roots, tree, builds, job.n)
    BY DEF ReleaseInv
  <2> QED
    BY <1>9, <1>10, <1>18, <2>1, FilesPut
<1>12. Track(k + 1, job, ss, tree, builds)
  <2>1. StoredManifest(ss[RootOf(k)]) = m /\ "release-manifest" \in DOMAIN ss[RootOf(k)]
    BY <1>10, <1>13, <1>16 DEF Wrote, StoredManifest
  <2> QED
    BY <1>4, <1>5, <1>10, <1>17, <2>1, ManifestTracks
<1> QED
  BY <1>1, <1>2, <1>7, <1>8, <1>11, <1>12, Files

LEMMA WriteReleaseSumsSteps == ReleaseInv /\ WriteReleaseSums => ReleaseInv'
<1> SUFFICES ASSUME ReleaseInv, WriteReleaseSums PROVE ReleaseInv'
  OBVIOUS
<1>1. At("sums") /\ JobOK(job)
  BY DEF ReleaseInv, WriteReleaseSums
<1>2. PICK k : k = Place(job)
  OBVIOUS
<1>3. job.task \in Tasks /\ k \in 1..53 /\ PlanDo(k) = "sums" /\ Root = RootOf(k)
  BY <1>1, <1>2, AtPlace
<1>4. k \in {11, 28, 42, 47}
  BY <1>3, Places53
<1>5. Track(k, job, roots, tree, builds) /\ TreeOK(tree)
  BY <1>2, <1>3 DEF ReleaseInv, Tasks
<1>6. PICK x : x = File(job.n, ExpectedChecksums(Dir))
  OBVIOUS
<1>7. PICK ss : ss = roots'
  OBVIOUS
<1>8. job' = Advance(job) /\ UNCHANGED <<tree, builds, verdict>>
  BY DEF WriteReleaseSums, Pass, Keep
<1>9. RootOf(k) \in Places /\ DOMAIN roots = Places
  BY <1>1 DEF RootOf, Places, ReleaseInv, FilesOK
<1>10. Elsewhere(ss, roots, RootOf(k)) /\ Wrote(ss[RootOf(k)], roots[RootOf(k)], "SHA256SUMS", x)
  <2>1. ss = [roots EXCEPT ![RootOf(k)] = Put(@, "SHA256SUMS", x)]
    BY <1>3, <1>6, <1>7 DEF WriteReleaseSums, PutFile
  <2> QED
    BY <1>9, <2>1, PutsFile
<1>11. FilesOK(ss, tree, builds, job.n)
  <2>1. FilesOK(roots, tree, builds, job.n)
    BY DEF ReleaseInv
  <2> QED
    BY <1>9, <1>10, <2>1, FilesPut
<1>12. Track(k + 1, job, ss, tree, builds)
  BY <1>4, <1>5, <1>10, SumsTracks
<1> QED
  BY <1>1, <1>2, <1>7, <1>8, <1>11, <1>12, Files

LEMMA WriteReproducibilitySteps == ReleaseInv /\ WriteReproducibility => ReleaseInv'
<1> SUFFICES ASSUME ReleaseInv, WriteReproducibility PROVE ReleaseInv'
  OBVIOUS
<1>1. At("report") /\ JobOK(job)
  BY DEF ReleaseInv, WriteReproducibility
<1>2. PICK k : k = Place(job)
  OBVIOUS
<1>3. job.task \in Tasks /\ k \in 1..53 /\ PlanDo(k) = "report" /\ Root = RootOf(k)
  BY <1>1, <1>2, AtPlace
<1>4. k \in {46}
  BY <1>3, Places53
<1>5. Track(k, job, roots, tree, builds) /\ TreeOK(tree)
  BY <1>2, <1>3 DEF ReleaseInv, Tasks
<1>6. PICK x : x = File(job.n, Reproducibility)
  OBVIOUS
<1>7. PICK ss : ss = roots'
  OBVIOUS
<1>8. job' = Advance(job) /\ UNCHANGED <<tree, builds, verdict>>
  BY DEF WriteReproducibility, Pass, Keep
<1>9. RootOf(k) \in Places /\ DOMAIN roots = Places
  BY <1>1 DEF RootOf, Places, ReleaseInv, FilesOK
<1>10. Elsewhere(ss, roots, RootOf(k)) /\ Wrote(ss[RootOf(k)], roots[RootOf(k)], "reproducibility-report", x)
  <2>1. ss = [roots EXCEPT ![RootOf(k)] = Put(@, "reproducibility-report", x)]
    BY <1>3, <1>6, <1>7 DEF WriteReproducibility, PutFile
  <2> QED
    BY <1>9, <2>1, PutsFile
<1>13. x.says.subject = job.canonical["artifact"]
  <2>1. PICK y : y = Reproducibility
    OBVIOUS
  <2>2. y.subject = job.canonical["artifact"]
    BY <2>1 DEF Reproducibility
  <2>3. x.says = y
    BY <1>6, <2>1 DEF File
  <2> QED
    BY <2>2, <2>3
<1>14. job.n \in 1..MaxTasks
  BY <1>1, <1>3, ReleaseBounds DEF JobOK, Tasks
<1>15. \A w \in Witnesses : <<job.n, w, x.says.subject>> \in builds
  BY <1>4, <1>5, <1>13 DEF Track, Copies
<1>11. FilesOK(ss, tree, builds, job.n)
  <2>1. FilesOK(roots, tree, builds, job.n)
    BY DEF ReleaseInv
  <2>2. \E i \in 1..MaxTasks : \A w \in Witnesses : <<i, w, x.says.subject>> \in builds
    BY <1>14, <1>15
  <2> QED
    BY <1>9, <1>10, <2>1, <2>2, FilesPut
<1>12. Track(k + 1, job, ss, tree, builds)
  BY <1>4, <1>5, <1>10, ReportTracks
<1> QED
  BY <1>1, <1>2, <1>7, <1>8, <1>11, <1>12, Files

LEMMA RecollectSteps == ReleaseInv /\ Recollect => ReleaseInv'
<1> SUFFICES ASSUME ReleaseInv, Recollect PROVE ReleaseInv'
  OBVIOUS
<1>1. At("recollect") /\ JobOK(job)
  BY DEF ReleaseInv, Recollect
<1>2. PICK k : k = Place(job)
  OBVIOUS
<1>3. job.task \in Tasks /\ k \in 1..53 /\ PlanDo(k) = "recollect" /\ Root = RootOf(k)
  BY <1>1, <1>2, AtPlace
<1>4. k \in {8, 25, 39}
  BY <1>3, Places53
<1>5. Track(k, job, roots, tree, builds) /\ TreeOK(tree)
  BY <1>2, <1>3 DEF ReleaseInv, Tasks
<1>6. CASE job.of # CollectSourceManifest
  <2>1. job' = Failed(job) /\ UNCHANGED <<tree, roots, builds, verdict>>
    BY <1>6 DEF Recollect, Fail, Keep
  <2>2. PICK ss : ss = roots'
    OBVIOUS
  <2>3. FilesOK(ss, tree, builds, job.n)
    BY <2>1, <2>2 DEF ReleaseInv
  <2> QED
    BY <1>3, <2>1, <2>2, <2>3, Falls
<1>7. CASE job.of = CollectSourceManifest
  <2>1. job' = Advance(job) /\ UNCHANGED <<tree, roots, builds, verdict>>
    BY <1>7 DEF Recollect, Pass, Keep
  <2>2. PICK ss : ss = roots'
    OBVIOUS
  <2>3. FilesOK(ss, tree, builds, job.n)
    BY <2>1, <2>2 DEF ReleaseInv
  <2>4. Track(k + 1, job, ss, tree, builds)
    <3>1. Track(k + 1, job, roots, tree, builds)
      BY <1>4, <1>5, <1>7, RecollectTracks DEF CollectSourceManifest
    <3> QED
      BY <2>1, <2>2, <3>1
  <2> QED
    BY <1>1, <1>2, <2>1, <2>2, <2>3, <2>4, Files
<1> QED
  BY <1>6, <1>7

LEMMA SnapshotSteps == ReleaseInv /\ Snapshot => ReleaseInv'
<1> SUFFICES ASSUME ReleaseInv, Snapshot PROVE ReleaseInv'
  OBVIOUS
<1>1. At("snapshot") /\ JobOK(job)
  BY DEF ReleaseInv, Snapshot
<1>2. PICK k : k = Place(job)
  OBVIOUS
<1>3. job.task \in Tasks /\ k \in 1..53 /\ PlanDo(k) = "snapshot" /\ Root = RootOf(k)
  BY <1>1, <1>2, AtPlace
<1>4. k \in {16}
  BY <1>3, Places53
<1>5. Track(k, job, roots, tree, builds) /\ TreeOK(tree)
  BY <1>2, <1>3 DEF ReleaseInv, Tasks
<1>6. PICK h : h = [job EXCEPT !.canonical = ReadSnapshot(Dir)]
  OBVIOUS
<1>7. Updated(h, job, "canonical") /\ h.canonical = ReadSnapshot(Dir)
  <2>1. PICK v : v = ReadSnapshot(Dir)
    OBVIOUS
  <2>2. h = [job EXCEPT !["canonical"] = v] /\ "canonical" \in Memory
    BY <1>6, <2>1 DEF Memory
  <2>3. Updated(h, job, "canonical")
    BY <1>1, <2>2, Remember
  <2>4. h["canonical"] = v
    BY <1>1, <2>2, Remember
  <2> QED
    BY <2>1, <2>3, <2>4
<1>8. job' = Advance(h) /\ UNCHANGED <<tree, roots, builds, verdict>>
  BY <1>6 DEF Snapshot, Pass, Keep
<1>10. h.canonical["release-manifest"] = StoredManifest(roots["canonical"])
  <2>1. Dir = roots["canonical"]
    BY <1>3, <1>4 DEF Dir, RootOf
  <2>2. PICK y : y = ReadSnapshot(Dir)
    OBVIOUS
  <2>3. y["release-manifest"] = StoredManifest(Dir)
    BY <2>2 DEF ReadSnapshot, StoredManifest
  <2> QED
    BY <1>7, <2>1, <2>2, <2>3
<1>9. Track(k + 1, h, roots, tree, builds)
  BY <1>4, <1>5, <1>7, <1>10, SnapshotTracks
<1> QED
  BY <1>1, <1>2, <1>7, <1>8, <1>9, Notes DEF Memory

LEMMA CleanupSteps == ReleaseInv /\ Cleanup => ReleaseInv'
<1> SUFFICES ASSUME ReleaseInv, Cleanup PROVE ReleaseInv'
  OBVIOUS
<1>1. At("cleanup") /\ JobOK(job)
  BY DEF ReleaseInv, Cleanup
<1>2. PICK k : k = Place(job)
  OBVIOUS
<1>3. job.task \in Tasks /\ k \in 1..53 /\ PlanDo(k) = "cleanup" /\ Root = RootOf(k)
  BY <1>1, <1>2, AtPlace
<1>4. k \in {49}
  BY <1>3, Places53
<1>5. Track(k, job, roots, tree, builds) /\ TreeOK(tree)
  BY <1>2, <1>3 DEF ReleaseInv, Tasks
<1>6. /\ job' = Advance(job) /\ UNCHANGED <<tree, builds, verdict>>
      /\ roots' = [roots EXCEPT !["first"] = Nothing, !["second"] = Nothing]
  BY DEF Cleanup, Pass, Keep
<1>7. PICK ss : ss = roots'
  OBVIOUS
<1>8. DOMAIN roots = Places
  BY DEF ReleaseInv, FilesOK
<1>9. DOMAIN ss = Places /\ ss["canonical"] = roots["canonical"] /\ DOMAIN ss["first"] = {} /\ DOMAIN ss["second"] = {}
  BY <1>6, <1>7, <1>8, NothingIsThere DEF Places
<1>10. FilesOK(ss, tree, builds, job.n)
  <2>1. \A r \in Places : DOMAIN ss[r] \subseteq DOMAIN roots[r] /\ \A name \in DOMAIN ss[r] : ss[r][name] = roots[r][name]
    BY <1>9 DEF Places
  <2> QED
    BY <1>9, <2>1, FilesLess DEF ReleaseInv
<1>11. Track(k + 1, job, ss, tree, builds)
  BY <1>4, <1>5, <1>9, CleanupTracks
<1> QED
  BY <1>1, <1>2, <1>6, <1>7, <1>10, <1>11, Files

LEMMA CompileSteps == ReleaseInv /\ Compile => ReleaseInv'
<1> SUFFICES ASSUME ReleaseInv, Compile PROVE ReleaseInv'
  OBVIOUS
<1>1. At("compile") /\ JobOK(job)
  BY DEF ReleaseInv, Compile
<1>2. PICK k : k = Place(job)
  OBVIOUS
<1>3. job.task \in Tasks /\ k \in 1..53 /\ PlanDo(k) = "compile" /\ Root = RootOf(k)
  BY <1>1, <1>2, AtPlace
<1>4. k \in {7, 24, 38}
  BY <1>3, Places53
<1>5. Track(k, job, roots, tree, builds) /\ TreeOK(tree)
  BY <1>2, <1>3 DEF ReleaseInv, Tasks
<1>6. PICK salt \in {0, 1} :
           /\ PutFile("artifact", File(job.n, Binary(salt)))
           /\ builds' = (IF Root = "canonical" THEN builds ELSE builds \cup {<<job.n, Root, Binary(salt)>>})
           /\ Pass([job EXCEPT !.binary = Binary(salt)])
           /\ UNCHANGED <<tree, verdict>>
  BY DEF Compile
<1>7. PICK y, x, ss, cs, h : y = Binary(salt) /\ x = File(job.n, y) /\ ss = roots' /\ cs = builds' /\ h = [job EXCEPT !.binary = y]
  OBVIOUS
<1>8. /\ job' = Advance(h) /\ tree' = tree /\ verdict' = verdict
      /\ cs = (IF Root = "canonical" THEN builds ELSE builds \cup {<<job.n, Root, y>>})
      /\ ss = [roots EXCEPT ![RootOf(k)] = Put(@, "artifact", x)]
  BY <1>3, <1>6, <1>7 DEF Pass, PutFile
<1>9. RootOf(k) \in Places /\ DOMAIN roots = Places
  BY <1>1 DEF RootOf, Places, ReleaseInv, FilesOK
<1>10. Elsewhere(ss, roots, RootOf(k)) /\ Wrote(ss[RootOf(k)], roots[RootOf(k)], "artifact", x)
  BY <1>8, <1>9, PutsFile
<1>11. Updated(h, job, "binary") /\ h.binary = y
  <2>1. h = [job EXCEPT !["binary"] = y] /\ "binary" \in Memory
    BY <1>7 DEF Memory
  <2>2. Updated(h, job, "binary")
    BY <1>1, <2>1, Remember
  <2>3. h["binary"] = y
    BY <1>1, <2>1, Remember
  <2> QED
    BY <2>2, <2>3
<1>12. y.of = tree.src.code /\ y.version = job.version[RootOf(k)] /\ y.commit = job.commit
  BY <1>3, <1>7 DEF Binary
<1>13. Track(k + 1, h, ss, tree, cs)
  <2>1. Track(k + 1, h, ss, tree, builds)
    BY <1>4, <1>5, <1>10, <1>11, <1>12, CompileTracks
  <2>2. k + 1 # 46
    BY <1>4
  <2> QED
    BY <2>1, <2>2 DEF Track, Copies
<1>14. FilesOK(ss, tree, cs, job.n)
  <2>1. FilesOK(roots, tree, builds, job.n) /\ builds \subseteq cs
    BY <1>8 DEF ReleaseInv
  <2>2. x.says = y
    BY <1>7 DEF File
  <2>3. RootOf(k) \in Witnesses => <<job.n, RootOf(k), x.says>> \in cs
    BY <1>3, <1>8, <2>2 DEF Witnesses
  <2> QED
    BY <1>9, <1>10, <2>1, <2>3, FilesPut
<1>15. AcceptedReleaseIsOfItsSources'
  <2>1. builds \subseteq builds'
    BY <1>7, <1>8
  <2> QED
    BY <1>8, <2>1, AcceptedStays DEF ReleaseInv
<1>16. JobOK(h) /\ h.n = job.n /\ h.task = job.task /\ h.pc = job.pc
  BY <1>11 DEF Updated, JobFields
<1>17. FilesOK(roots', tree, builds', job.n) /\ Track(k + 1, h, roots', tree, builds')
  BY <1>7, <1>13, <1>14
<1> QED
  BY <1>2, <1>3, <1>8, <1>15, <1>16, <1>17, Passes

\* What the check has seen when it accepts.
LEMMA CheckSees ==
  ASSUME NEW d, NEW v, ReleaseVerified(d, v)
  PROVE  /\ Uncut(d, "release-manifest") /\ Uncut(d, "artifact")
         /\ StoredManifest(d).version = v /\ StoredManifest(d).sources = tree.src
         /\ d["artifact"].says = StoredManifest(d).subject
         /\ "reproducibility-report" \in DOMAIN d =>
               /\ Uncut(d, "reproducibility-report")
               /\ d["reproducibility-report"].says.subject = StoredManifest(d).subject
<1>1. Readable(d, {"release-manifest", "SHA256SUMS"}) /\ Readable(d, {"artifact"})
  BY DEF ReleaseVerified
<1>2. Uncut(d, "release-manifest") /\ Uncut(d, "artifact")
  BY <1>1 DEF Readable, Has, Uncut
<1>3. StoredManifest(d).version = v
  BY DEF ReleaseVerified, ManifestSchemaHolds, StoredManifest
<1>4. StoredManifest(d).sources = tree.src
  BY DEF ReleaseVerified, VerifySourceManifest, StoredManifest, CollectSourceManifest
<1>5. d["artifact"].says = StoredManifest(d).subject
  BY DEF ReleaseVerified, StoredManifest
<1>6. ASSUME "reproducibility-report" \in DOMAIN d
      PROVE  Uncut(d, "reproducibility-report") /\ d["reproducibility-report"].says.subject = StoredManifest(d).subject
  BY <1>6 DEF ReleaseVerified, VerifyReproducibilityReport, Readable, Has, Uncut, StoredManifest
<1> QED
  BY <1>2, <1>3, <1>4, <1>5, <1>6

LEMMA CheckReleaseSteps == ReleaseInv /\ CheckRelease => ReleaseInv'
<1> SUFFICES ASSUME ReleaseInv, CheckRelease PROVE ReleaseInv'
  OBVIOUS
<1>1. At("check") /\ JobOK(job)
  BY DEF ReleaseInv, CheckRelease
<1>2. PICK k : k = Place(job)
  OBVIOUS
<1>3. job.task \in Tasks /\ k \in 1..53 /\ PlanDo(k) = "check" /\ Root = RootOf(k)
  BY <1>1, <1>2, AtPlace
<1>4. k \in {13, 15, 30, 44, 48}
  BY <1>3, Places53
<1>5. Track(k, job, roots, tree, builds) /\ TreeOK(tree)
  BY <1>2, <1>3 DEF ReleaseInv, Tasks
<1>6. PICK d, v : d = roots[RootOf(k)] /\ v = job.version[RootOf(k)]
  OBVIOUS
<1>7. Dir = d /\ job.version[Root] = v
  BY <1>3, <1>6 DEF Dir
<1>8. CASE ~ReleaseVerified(d, v)
  <2>1. job' = Failed(job) /\ UNCHANGED <<tree, roots, builds, verdict>>
    BY <1>7, <1>8 DEF CheckRelease, Fail
  <2>2. PICK ss : ss = roots'
    OBVIOUS
  <2>3. FilesOK(ss, tree, builds, job.n)
    BY <2>1, <2>2 DEF ReleaseInv
  <2> QED
    BY <1>3, <2>1, <2>2, <2>3, Falls
<1>9. CASE ReleaseVerified(d, v)
  <2>1. job' = Advance(job) /\ UNCHANGED <<tree, roots, builds>> /\ verdict' = [by |-> "check", dir |-> d, tree |-> tree]
    BY <1>7, <1>9 DEF CheckRelease, Pass
  <2>2. /\ Uncut(d, "release-manifest") /\ Uncut(d, "artifact")
        /\ StoredManifest(d).version = v /\ StoredManifest(d).sources = tree.src
        /\ d["artifact"].says = StoredManifest(d).subject
        /\ "reproducibility-report" \in DOMAIN d =>
              /\ Uncut(d, "reproducibility-report")
              /\ d["reproducibility-report"].says.subject = StoredManifest(d).subject
    BY <1>9, CheckSees
  <2>3. RootOf(k) \in Places
    BY DEF RootOf, Places
  <2>4. ReleaseManifestOK(StoredManifest(d), tree)
    BY <1>6, <2>2, <2>3 DEF ReleaseInv, FilesOK
  <2>5. tree.src.version = v
    <3>1. Current(job, RootOf(k), d, tree)
      BY <1>4, <1>5, <1>6 DEF Track, Since, RootOf
    <3>2. tree.src.version \in Nat
      BY <1>5 DEF TreeOK, Srcs
    <3> QED
      BY <1>6, <2>2, <3>1, <3>2 DEF Current
  <2>6. "reproducibility-report" \in DOMAIN d =>
            \E i \in 1..MaxTasks : \A w \in Witnesses : <<i, w, d["artifact"].says>> \in builds
    <3>1. ASSUME "reproducibility-report" \in DOMAIN d
          PROVE  \E i \in 1..MaxTasks : \A w \in Witnesses : <<i, w, d["artifact"].says>> \in builds
      BY <1>6, <2>2, <2>3, <3>1 DEF ReleaseInv, FilesOK
    <3> QED
      BY <3>1
  <2>7. AcceptedReleaseIsOfItsSources'
    <3>1. verdict'.by = "check" /\ verdict'.dir = d /\ verdict'.tree = tree
      BY <2>1
    <3>2. VerifiedOfItsSources'
      BY <2>1, <2>2, <2>4, <2>5, <2>6, <3>1
         DEF VerifiedOfItsSources, Released, Reproduced, StoredManifest, ReleaseManifestOK, Witnesses
    <3>3. SignedOfItsCommit'
      BY <3>1 DEF SignedOfItsCommit, Accepted
    <3> QED
      BY <3>2, <3>3 DEF AcceptedReleaseIsOfItsSources
  <2>8. Track(k + 1, job, roots, tree, builds)
    <3>1. k = 13 => Uncut(roots["canonical"], "release-manifest") /\ StoredManifest(roots["canonical"]).version = job.version["canonical"]
                    /\ StoredManifest(roots["canonical"]).sources = tree.src
      BY <1>6, <2>2 DEF RootOf
    <3>2. "artifact" \in DOMAIN roots[RootOf(k)]
      BY <1>6, <2>2 DEF Uncut
    <3> QED
      BY <1>4, <1>5, <3>1, <3>2, CheckTracks
  <2>9. PICK h : h = job
    OBVIOUS
  <2>10. FilesOK(roots', tree, builds', job.n) /\ Track(k + 1, h, roots', tree, builds')
    BY <2>1, <2>8, <2>9 DEF ReleaseInv
  <2> QED
    BY <1>1, <1>2, <1>3, <2>1, <2>7, <2>9, <2>10, Passes
<1> QED
  BY <1>8, <1>9

LEMMA CompareSteps == ReleaseInv /\ Compare => ReleaseInv'
<1> SUFFICES ASSUME ReleaseInv, Compare PROVE ReleaseInv'
  OBVIOUS
<1>1. At("compare") /\ JobOK(job)
  BY DEF ReleaseInv, Compare
<1>2. PICK k : k = Place(job)
  OBVIOUS
<1>3. job.task \in Tasks /\ k \in 1..53 /\ PlanDo(k) = "compare" /\ Root = RootOf(k)
  BY <1>1, <1>2, AtPlace
<1>4. k \in {45}
  BY <1>3, Places53
<1>5. Track(k, job, roots, tree, builds) /\ TreeOK(tree)
  BY <1>2, <1>3 DEF ReleaseInv, Tasks
<1>6. CASE ~\A w \in {"first", "second"} : SameRelease(WitnessSnapshots[w], job.canonical)
  <2>1. job' = Failed(job) /\ UNCHANGED <<tree, roots, builds, verdict>>
    BY <1>6 DEF Compare, Fail, Keep
  <2>2. PICK ss : ss = roots'
    OBVIOUS
  <2>3. FilesOK(ss, tree, builds, job.n)
    BY <2>1, <2>2 DEF ReleaseInv
  <2> QED
    BY <1>3, <2>1, <2>2, <2>3, Falls
<1>7. CASE \A w \in {"first", "second"} : SameRelease(WitnessSnapshots[w], job.canonical)
  <2>1. PICK v : v = WitnessSnapshots
    OBVIOUS
  <2>2. PICK h : h = [job EXCEPT !.witness = v]
    OBVIOUS
  <2>3. job' = Advance(h) /\ UNCHANGED <<tree, roots, builds, verdict>>
    BY <1>7, <2>1, <2>2 DEF Compare, Pass, Keep
  <2>4. Updated(h, job, "witness")
    <3>1. h = [job EXCEPT !["witness"] = v] /\ "witness" \in Memory
      BY <2>2 DEF Memory
    <3> QED
      BY <1>1, <3>1, Remember
  <2>5. ASSUME NEW w \in Witnesses
        PROVE  roots[w]["artifact"].says = job.canonical["artifact"] /\ StoredManifest(roots[w]) = job.canonical["release-manifest"]
    <3>1. v[w] = ReadSnapshot(roots[w])
      BY <2>1 DEF WitnessSnapshots, Witnesses
    <3>2. v[w]["artifact"] = roots[w]["artifact"].says /\ v[w]["release-manifest"] = StoredManifest(roots[w])
      BY <3>1 DEF ReadSnapshot, StoredManifest
    <3>3. v[w]["artifact"] = job.canonical["artifact"] /\ v[w]["release-manifest"] = job.canonical["release-manifest"]
      BY <1>7, <2>1 DEF SameRelease, Witnesses
    <3> QED
      BY <3>2, <3>3
  <2>6. Track(k + 1, h, roots, tree, builds)
    <3>1. FilesOK(roots, tree, builds, job.n) /\ "second" \in Witnesses
      BY DEF ReleaseInv, Witnesses
    <3> QED
      BY <1>4, <1>5, <2>4, <2>5, <3>1, CompareTracks
  <2> QED
    BY <1>1, <1>2, <2>3, <2>4, <2>6, Notes DEF Memory
<1> QED
  BY <1>6, <1>7

LEMMA LateIsWorkflow ==
  ASSUME NEW j, JobOK(j), j.task \in Tasks, Place(j) >= 50
  PROVE  j.task = "workflow"
BY DEF JobOK, Tasks, Place, Begin, LastPlace

LEMMA AttestSteps == ReleaseInv /\ Attest => ReleaseInv'
<1> SUFFICES ASSUME ReleaseInv, Attest PROVE ReleaseInv'
  OBVIOUS
<1>1. At("attest") /\ JobOK(job)
  BY DEF ReleaseInv, Attest
<1>2. PICK k : k = Place(job)
  OBVIOUS
<1>3. job.task \in Tasks /\ k \in 1..53 /\ PlanDo(k) = "attest" /\ Root = RootOf(k)
  BY <1>1, <1>2, AtPlace
<1>4. k \in {50}
  BY <1>3, Places53
<1>5. Track(k, job, roots, tree, builds) /\ TreeOK(tree)
  BY <1>2, <1>3 DEF ReleaseInv, Tasks
<1>6. CASE Fail
  <2>1. job' = Failed(job) /\ UNCHANGED <<tree, roots, builds, verdict>>
    BY <1>6 DEF Attest, Fail, Keep
  <2>2. PICK ss : ss = roots'
    OBVIOUS
  <2>3. FilesOK(ss, tree, builds, job.n)
    BY <2>1, <2>2 DEF ReleaseInv
  <2> QED
    BY <1>3, <2>1, <2>2, <2>3, Falls
<1>7. CASE ~Fail
  <2>1. PICK v : v = [subjects |-> Dir["SHA256SUMS"].says, commit |-> job.sha]
    OBVIOUS
  <2>2. PICK h : h = [job EXCEPT !.attested = v]
    OBVIOUS
  <2>3. job' = Advance(h) /\ UNCHANGED <<tree, roots, builds, verdict>>
    BY <1>7, <2>1, <2>2 DEF Attest, Pass, Keep
  <2>4. Updated(h, job, "attested")
    <3>1. h = [job EXCEPT !["attested"] = v] /\ "attested" \in Memory
      BY <2>2 DEF Memory
    <3> QED
      BY <1>1, <3>1, Remember
  <2>5. job.task = "workflow"
    BY <1>1, <1>2, <1>3, <1>4, LateIsWorkflow
  <2>6. Track(k + 1, h, roots, tree, builds)
    BY <1>4, <1>5, <2>4, <2>5, AttestTracks
  <2> QED
    BY <1>1, <1>2, <2>3, <2>4, <2>6, Notes DEF Memory
<1> QED
  BY <1>6, <1>7

\* What the check of the attestation leaves: a status of zero only for what was attested.
LEMMA CheckAttestationSteps == ReleaseInv /\ CheckAttestation => ReleaseInv'
<1> SUFFICES ASSUME ReleaseInv, CheckAttestation PROVE ReleaseInv'
  OBVIOUS
<1>1. At("gh") /\ JobOK(job)
  BY DEF ReleaseInv, CheckAttestation
<1>2. PICK k : k = Place(job)
  OBVIOUS
<1>3. job.task \in Tasks /\ k \in 1..53 /\ PlanDo(k) = "gh" /\ Root = RootOf(k)
  BY <1>1, <1>2, AtPlace
<1>4. k \in {51}
  BY <1>3, Places53
<1>5. Track(k, job, roots, tree, builds) /\ TreeOK(tree)
  BY <1>2, <1>3 DEF ReleaseInv, Tasks
<1>6. PICK d, seen, z :
          /\ d = roots["canonical"] /\ seen = Verified4(Dir)
          /\ z = IF \A n \in ToSet(Subjects) : seen[n] THEN 0 ELSE 1
  OBVIOUS
<1>7. Root = "canonical" /\ Dir = d
  BY <1>3, <1>4, <1>6 DEF RootOf, Dir
<1>8. PICK v, f, e1, e2, a, e, ss :
          /\ v = File(job.n, seen) /\ e1 = Put(d, "verification", v)
          /\ f = File(job.n, z) /\ e2 = Put(e1, "status", f)
          /\ a = File(job.n, job.attested)
          /\ e = (IF job.attested = None THEN e2 ELSE Put(e2, "bundle", a)) /\ ss = roots'
  OBVIOUS
<1>9. ss = [roots EXCEPT !["canonical"] = e] /\ job' = Advance(job) /\ UNCHANGED <<tree, builds, verdict>>
  BY <1>6, <1>7, <1>8 DEF CheckAttestation, Pass, Keep
<1>10. z = 0 => job.attested # None
  <2>1. "artifact" \in ToSet(Subjects)
    <3>1. Subjects[1] = "artifact" /\ 1 \in DOMAIN Subjects
      BY DEF Subjects
    <3> QED
      BY <3>1 DEF ToSet
  <2>2. seen["artifact"] => job.attested # None
    BY <1>6, <2>1 DEF Verified4
  <2> QED
    BY <1>6, <2>1, <2>2
<1>11. /\ DOMAIN e \subseteq DOMAIN d \cup {"verification", "status", "bundle"}
       /\ \A name \in DOMAIN d \ {"verification", "status", "bundle"} : name \in DOMAIN e /\ e[name] = d[name]
       /\ e["status"] = f
  <2>1. e = e2 \/ e = Put(e2, "bundle", a)
    BY <1>8
  <2>2. e1 = Put(d, "verification", v) /\ f = File(job.n, z) /\ e2 = Put(e1, "status", f)
    BY <1>8
  <2>3. Wrote(e1, d, "verification", v)
    BY <2>2, PutWrites
  <2>4. Wrote(e2, e1, "status", f)
    BY <2>2, PutWrites
  <2>5. CASE e = e2
    BY <2>3, <2>4, <2>5 DEF Wrote
  <2>6. CASE e = Put(e2, "bundle", a)
    <3>1. Wrote(e, e2, "bundle", a)
      BY <2>6, PutWrites
    <3> QED
      BY <2>3, <2>4, <3>1 DEF Wrote
  <2> QED
    BY <2>1, <2>5, <2>6
<1>12. DOMAIN ss = Places /\ ss["canonical"] = e /\ \A o \in Places \ {"canonical"} : ss[o] = roots[o]
  BY <1>9 DEF ReleaseInv, FilesOK, Places
<1>13. FilesOK(ss, tree, builds, job.n)
  <2>1. ASSUME NEW r \in Places, NEW name \in {"release-manifest", "reproducibility-report", "artifact"}
        PROVE  (name \in DOMAIN ss[r]) <=> (name \in DOMAIN roots[r])
    BY <1>6, <1>11, <1>12
  <2>2. ASSUME NEW r \in Places, NEW name \in {"release-manifest", "reproducibility-report", "artifact"}, name \in DOMAIN ss[r]
        PROVE  ss[r][name] = roots[r][name]
    BY <1>6, <1>11, <1>12, <2>1, <2>2
  <2>3. \A r \in Places : Uncut(ss[r], "release-manifest") => ReleaseManifestOK(StoredManifest(ss[r]), tree)
    BY <2>1, <2>2 DEF ReleaseInv, FilesOK, Uncut, StoredManifest
  <2>4. ASSUME NEW r \in Places, Uncut(ss[r], "reproducibility-report")
        PROVE  \E i \in 1..MaxTasks : \A w \in Witnesses : <<i, w, ss[r]["reproducibility-report"].says.subject>> \in builds
    <3>1. Uncut(roots[r], "reproducibility-report") /\ ss[r]["reproducibility-report"] = roots[r]["reproducibility-report"]
      BY <2>1, <2>2, <2>4 DEF Uncut
    <3> QED
      BY <3>1 DEF ReleaseInv, FilesOK
  <2>5. ASSUME NEW w \in Witnesses, "artifact" \in DOMAIN ss[w]
        PROVE  <<job.n, w, ss[w]["artifact"].says>> \in builds
    <3>1. w \in Places
      BY DEF Witnesses, Places
    <3> QED
      BY <2>1, <2>2, <2>5, <3>1 DEF ReleaseInv, FilesOK
  <2> QED
    BY <1>12, <2>3, <2>4, <2>5 DEF FilesOK
<1>14. Track(k + 1, job, ss, tree, builds)
  <2>1. StoredManifest(ss["canonical"]) = StoredManifest(roots["canonical"]) \/ "release-manifest" \notin DOMAIN roots["canonical"]
    BY <1>6, <1>11, <1>12 DEF StoredManifest
  <2>2. ss["canonical"]["status"].says = 0 => job.attested # None
    BY <1>8, <1>10, <1>11, <1>12 DEF File
  <2> QED
    BY <1>4, <1>5, <2>1, <2>2, GhTracks
<1> QED
  BY <1>1, <1>2, <1>8, <1>9, <1>13, <1>14, Files

LEMMA RecordEvidenceSteps == ReleaseInv /\ RecordEvidence => ReleaseInv'
<1> SUFFICES ASSUME ReleaseInv, RecordEvidence PROVE ReleaseInv'
  OBVIOUS
<1>1. At("record") /\ JobOK(job)
  BY DEF ReleaseInv, RecordEvidence
<1>2. PICK k : k = Place(job)
  OBVIOUS
<1>3. job.task \in Tasks /\ k \in 1..53 /\ PlanDo(k) = "record" /\ Root = RootOf(k)
  BY <1>1, <1>2, AtPlace
<1>4. k \in {52}
  BY <1>3, Places53
<1>5. Track(k, job, roots, tree, builds) /\ TreeOK(tree)
  BY <1>2, <1>3 DEF ReleaseInv, Tasks
<1>6. PICK h : h = [job EXCEPT !.record = [dir |-> Dir, signed |-> SignedRelease(Dir), head |-> tree.head, dirty |-> SourceDirty]]
  OBVIOUS
<1>7. Updated(h, job, "record") /\ h.record = [dir |-> Dir, signed |-> SignedRelease(Dir), head |-> tree.head, dirty |-> SourceDirty]
  <2>1. PICK v : v = [dir |-> Dir, signed |-> SignedRelease(Dir), head |-> tree.head, dirty |-> SourceDirty]
    OBVIOUS
  <2>2. h = [job EXCEPT !["record"] = v] /\ "record" \in Memory
    BY <1>6, <2>1 DEF Memory
  <2>3. Updated(h, job, "record")
    BY <1>1, <2>2, Remember
  <2>4. h["record"] = v
    BY <1>1, <2>2, Remember
  <2> QED
    BY <2>1, <2>3, <2>4
<1>8. job' = Advance(h) /\ UNCHANGED <<tree, roots, builds, verdict>>
  BY <1>6 DEF RecordEvidence, Pass, Keep
<1>9. Track(k + 1, h, roots, tree, builds)
  BY <1>4, <1>5, <1>7, RecordTracks
<1> QED
  BY <1>1, <1>2, <1>7, <1>8, <1>9, Notes DEF Memory

\* What the evidence verifier has seen when it accepts.
LEMMA EvidenceSees ==
  ASSUME NEW d, SignedReleaseHolds(d)
  PROVE  /\ Uncut(d, "release-manifest") /\ d["status"].says = 0
         /\ d["artifact"].says = StoredManifest(d).subject
         /\ d["bundle"].says.commit = StoredManifest(d).commit
<1>1. SignedRelease(d) = "recorded" /\ d["artifact"].says = StoredManifest(d).subject
  BY DEF SignedReleaseHolds, StoredManifest
<1>2. d["status"].says = 0 /\ ManifestPassed(d) /\ ProvenancePassed(d)
  BY <1>1 DEF SignedRelease
<1>3. "release-manifest" \in AttestedFiles \ {"artifact"}
  <2>1. Subjects[2] = "release-manifest" /\ 2 \in DOMAIN Subjects
    BY DEF Subjects
  <2> QED
    BY <2>1 DEF ToSet, AttestedFiles
<1>4. Uncut(d, "release-manifest")
  BY <1>2, <1>3 DEF ManifestPassed, Readable, Has, Uncut
<1>5. d["bundle"].says.commit = StoredManifest(d).commit
  BY <1>2 DEF ProvenancePassed, VerifyReleaseProvenanceBundleSubjects, VerifyGitHubWorkflowPredicate, StoredManifest
<1> QED
  BY <1>1, <1>2, <1>4, <1>5

LEMMA AcceptEvidenceSteps == ReleaseInv /\ AcceptEvidence => ReleaseInv'
<1> SUFFICES ASSUME ReleaseInv, AcceptEvidence PROVE ReleaseInv'
  OBVIOUS
<1>1. At("accept") /\ JobOK(job)
  BY DEF ReleaseInv, AcceptEvidence
<1>2. PICK k : k = Place(job)
  OBVIOUS
<1>3. job.task \in Tasks /\ k \in 1..53 /\ PlanDo(k) = "accept" /\ Root = RootOf(k)
  BY <1>1, <1>2, AtPlace
<1>4. k \in {53}
  BY <1>3, Places53
<1>5. Track(k, job, roots, tree, builds) /\ TreeOK(tree)
  BY <1>2, <1>3 DEF ReleaseInv, Tasks
<1>6. PICK d, h : d = roots["canonical"] /\ h = job
  OBVIOUS
<1>7. Dir = d /\ "canonical" \in Places
  BY <1>3, <1>4, <1>6 DEF RootOf, Dir, Places
<1>8. job' = Advance(job) /\ UNCHANGED <<tree, roots, builds>>
  BY DEF AcceptEvidence, Pass
<1>9. AcceptedReleaseIsOfItsSources'
  <2>1. CASE UNCHANGED verdict
    BY <1>8, <2>1, AcceptedStays DEF ReleaseInv
  <2>2. CASE ~UNCHANGED verdict
    <3>1. SignedReleaseHolds(d) /\ verdict' = [by |-> "accept", dir |-> d, tree |-> tree]
      BY <1>7, <2>2 DEF AcceptEvidence
    <3>2. /\ Uncut(d, "release-manifest") /\ d["status"].says = 0
          /\ d["artifact"].says = StoredManifest(d).subject
          /\ d["bundle"].says.commit = StoredManifest(d).commit
      BY <3>1, EvidenceSees
    <3>3. ReleaseManifestOK(StoredManifest(d), tree)
      BY <1>6, <1>7, <3>2 DEF ReleaseInv, FilesOK
    <3>4. Final(StoredManifest(d), tree)
      BY <1>4, <1>5, <1>6, <3>2 DEF Track, Signs
    <3>5. verdict'.by = "accept" /\ verdict'.dir = d /\ verdict'.tree = tree
      BY <3>1
    <3>6. SignedOfItsCommit'
      BY <3>2, <3>3, <3>4, <3>5 DEF SignedOfItsCommit, Released, Final, Settled, ReleaseManifestOK
    <3>7. VerifiedOfItsSources'
      BY <3>5 DEF VerifiedOfItsSources, Accepted
    <3> QED
      BY <3>6, <3>7 DEF AcceptedReleaseIsOfItsSources
  <2> QED
    BY <2>1, <2>2
<1>10. FilesOK(roots', tree, builds', job.n) /\ Track(k + 1, h, roots', tree, builds')
  <2>1. Track(k + 1, h, roots, tree, builds)
    BY <1>4, <1>5, <1>6, AcceptTracks
  <2> QED
    BY <1>8, <2>1 DEF ReleaseInv
<1>11. tree' = tree /\ job' = Advance(h) /\ JobOK(h) /\ h.n = job.n /\ h.task = job.task /\ h.pc = job.pc
  BY <1>1, <1>6, <1>8
<1> QED
  BY <1>2, <1>3, <1>9, <1>10, <1>11, Passes

LEMMA TornIsCut ==
  ASSUME NEW c \in Torn
  PROVE  Cut(c[2]).cut = TRUE
<1>1. PICK m, x : c[2] = File(m, x)
  BY DEF Torn
<1>2. PICK f : f = File(m, x)
  OBVIOUS
<1>3. f = [run |-> m, says |-> x, cut |-> FALSE]
  BY <1>2 DEF File
<1> QED
  BY <1>1, <1>2, <1>3 DEF Cut

LEMMA StopTaskSteps == ReleaseInv /\ StopTask => ReleaseInv'
<1> SUFFICES ASSUME ReleaseInv, StopTask PROVE ReleaseInv'
  OBVIOUS
<1>1. job.task \in Tasks /\ job' \in {Failed(job), Idle(job.n)} /\ UNCHANGED <<tree, builds, verdict>>
  BY DEF StopTask, ReleaseInv, JobOK, Keep
<1>2. PICK ss : ss = roots'
  OBVIOUS
<1>3. FilesOK(roots, tree, builds, job.n) /\ DOMAIN roots = Places
  BY DEF ReleaseInv, FilesOK
<1>4. FilesOK(ss, tree, builds, job.n)
  <2>1. CASE UNCHANGED roots
    BY <1>2, <1>3, <2>1
  <2>2. CASE Root = "canonical" /\ \E c \in Torn : PutFile(c[1], Cut(c[2]))
    <3>1. PICK c \in Torn : PutFile(c[1], Cut(c[2]))
      BY <2>2
    <3>2. PICK name, x : name = c[1] /\ x = Cut(c[2])
      OBVIOUS
    <3>3. x.cut = TRUE
      BY <3>2, TornIsCut
    <3>4. PICK r : r = "canonical"
      OBVIOUS
    <3>5. r \in Places /\ r \notin Witnesses /\ ss = [roots EXCEPT ![r] = Put(@, name, x)]
      BY <1>2, <2>2, <3>1, <3>2, <3>4 DEF PutFile, Places, Witnesses
    <3>6. Elsewhere(ss, roots, r) /\ Wrote(ss[r], roots[r], name, x)
      BY <1>3, <3>5, PutsFile
    <3> QED
      BY <1>3, <3>3, <3>5, <3>6, FilesPut
  <2>3. CASE At("clear") /\ \E n \in DOMAIN Dir : roots' = [roots EXCEPT ![Root] = Without(@, {n})]
    <3>1. PICK n, r : r = Root /\ roots' = [roots EXCEPT ![r] = Without(@, {n})]
      BY <2>3
    <3>2. r \in Places
      <4>1. Root = RootOf(Place(job))
        BY <2>3, AtPlace DEF ReleaseInv
      <4> QED
        BY <3>1, <4>1 DEF RootOf, Places
    <3>3. /\ DOMAIN ss = Places /\ ss[r] = Without(roots[r], {n})
          /\ \A o \in Places \ {r} : ss[o] = roots[o]
      BY <1>2, <1>3, <3>1, <3>2
    <3>4. DOMAIN ss[r] \subseteq DOMAIN roots[r] /\ \A name \in DOMAIN ss[r] : ss[r][name] = roots[r][name]
      BY <3>3 DEF Without
    <3>5. \A o \in Places : DOMAIN ss[o] \subseteq DOMAIN roots[o] /\ \A name \in DOMAIN ss[o] : ss[o][name] = roots[o][name]
      BY <3>3, <3>4
    <3> QED
      BY <1>3, <3>3, <3>5, FilesLess
  <2> QED
    BY <2>1, <2>2, <2>3 DEF StopTask
<1> QED
  BY <1>1, <1>2, <1>4, Falls

LEMMA StartTaskSteps == ReleaseInv /\ StartTask => ReleaseInv'
<1> SUFFICES ASSUME ReleaseInv, StartTask PROVE ReleaseInv'
  OBVIOUS
<1>1. PICK task \in Tasks, clean \in BOOLEAN :
        /\ task = "workflow" => clean
        /\ job' = [Idle(job.n + 1) EXCEPT !.task = task, !.pc = 1, !.clean = clean, !.sha = tree.head,
                                          !.version = [r \in Places |-> 0]]
  BY DEF StartTask
<1>2. PICK g, ss, z, m : g = job' /\ ss = roots' /\ z = [r \in Places |-> 0] /\ m = job.n + 1
  OBVIOUS
<1>3. PICK i : i = Idle(m)
  OBVIOUS
<1>4. DOMAIN i = JobFields /\ i.n = m /\ i.attested = None
  BY <1>3 DEF Idle, JobFields
<1>5. g = [i EXCEPT !.task = task, !.pc = 1, !.clean = clean, !.sha = tree.head, !.version = z]
  BY <1>1, <1>2, <1>3
<1>6. DOMAIN g = JobFields /\ g.n = m /\ g.task = task /\ g.pc = 1 /\ g.clean = clean /\ g.version = z /\ g.attested = None
  BY <1>4, <1>5 DEF JobFields
<1>7. m \in 1..MaxTasks
  BY <1>2, ReleaseBounds DEF StartTask, ReleaseInv, JobOK
<1>8. Place(g) \in {1, 12, 14} /\ Place(g) = 1 + Begin(task) /\ (task = "workflow" => Place(g) = 1) /\ Place(g) <= LastPlace(task)
  BY <1>6 DEF Place, Begin, LastPlace, Tasks
<1>9. JobOK(g)
  BY <1>1, <1>2, <1>6, <1>7, <1>8 DEF JobOK, Tasks
<1>10. DOMAIN roots = Places
  BY DEF ReleaseInv, FilesOK
<1>11. ss["canonical"] = roots["canonical"] /\ DOMAIN ss = Places /\ DOMAIN ss["first"] = {} /\ DOMAIN ss["second"] = {}
  BY <1>2, <1>10, NothingIsThere DEF StartTask, Places
<1>12. FilesOK(ss, tree, builds, m)
  <2>1. \A r \in Places : DOMAIN ss[r] \subseteq DOMAIN roots[r] /\ \A name \in DOMAIN ss[r] : ss[r][name] = roots[r][name]
    BY <1>11 DEF Places
  <2>2. FilesOK(ss, tree, builds, job.n)
    BY <1>11, <2>1, FilesLess DEF ReleaseInv
  <2> QED
    BY <1>11, <2>2 DEF FilesOK, Witnesses
<1>13. Track(Place(g), g, ss, tree, builds)
  <2>1. BuildOf(Place(g)) \in {0, 1}
    BY <1>8 DEF BuildOf
  <2>2. Reads(BuildOf(Place(g)), g, RootOf(Place(g)), ss[RootOf(Place(g))], tree)
    BY <2>1 DEF Reads
  <2>3. g.task = "workflow" => Cleans(Place(g), g, ss["canonical"], ss["second"], tree)
    BY <1>6, <1>8 DEF Cleans
  <2>4. Copies(Place(g), g, ss, builds)
    BY <1>8 DEF Copies
  <2>5. Since(Place(g), g, ss, tree)
    BY <1>8 DEF Since
  <2>6. Signs(Place(g), g, ss["canonical"], tree)
    BY <1>6, <1>8 DEF Signs
  <2> QED
    BY <2>2, <2>3, <2>4, <2>5, <2>6 DEF Track
<1>14. UNCHANGED <<tree, builds, verdict>>
  BY DEF StartTask
<1>15. AcceptedReleaseIsOfItsSources'
  BY <1>14, AcceptedStays DEF ReleaseInv
<1>16. TreeOK(tree')
  BY <1>14 DEF ReleaseInv
<1> QED
  BY <1>2, <1>6, <1>9, <1>12, <1>13, <1>14, <1>15, <1>16 DEF ReleaseInv

-----------------------------------------------------------------------------
\* The tree changes and the releases do not: what is on file was written of earlier
\* sources.
LEMMA FilesTree ==
  ASSUME NEW rs, NEW t, NEW bs, NEW n, FilesOK(rs, t, bs, n), NEW u, t.edits \in Nat, u.edits \in Nat, t.edits <= u.edits
  PROVE  FilesOK(rs, u, bs, n)
<1>1. Srcs(t.edits + 1) \subseteq Srcs(u.edits + 1)
  BY DEF Srcs
<1> QED
  BY <1>1 DEF FilesOK, ReleaseManifestOK

\* A larger number in one part of the sources, the other as it was.
Edited(u, t, part) ==
    /\ u.edits = t.edits + 1 /\ u.head = t.head /\ u.contents = t.contents
    /\ u.src[part] = t.edits + 2 /\ \A p \in {"code", "version"} \ {part} : u.src[p] = t.src[p]

LEMMA EditTracks ==
  ASSUME NEW j, NEW k, NEW rs, NEW t, NEW bs, Track(k, j, rs, t, bs), TreeOK(t), NEW n, FilesOK(rs, t, bs, n),
         NEW u, NEW part \in {"code", "version"}, TreeOK(u), Edited(u, t, part)
  PROVE  Track(k, j, rs, u, bs)
<1>1. /\ t.edits \in Nat /\ t.src.code \in Nat /\ t.src.version \in Nat /\ u.src.code \in Nat /\ u.src.version \in Nat
      /\ t.src.code <= u.src.code /\ t.src.version <= u.src.version
      /\ u.head = t.head /\ u.contents = t.contents /\ t.head \in Nat
  BY DEF TreeOK, Edited, Srcs
<1>2. Srcs(t.edits + 1) \subseteq Srcs(u.edits + 1)
  BY <1>1 DEF Srcs, Edited
<1>3. Reads(BuildOf(k), j, RootOf(k), rs[RootOf(k)], u)
  <2>1. PICK b, d : b = BuildOf(k) /\ d = rs[RootOf(k)]
    OBVIOUS
  <2>2. Reads(b, j, RootOf(k), d, t)
    BY <2>1 DEF Track
  <2>3. b >= 3 => j.of \in Srcs(t.edits + 1)
    BY <2>2 DEF Reads
  <2>4. b \in 3..8 => Below(j.of, u.src)
    BY <1>1, <2>2, <2>3 DEF Reads, Below, Srcs
  <2>5. b = 8 => j.binary.of \in j.of.code..u.src.code
    BY <1>1, <2>2, <2>3 DEF Reads, Srcs
  <2>6. Reads(b, j, RootOf(k), d, u)
    BY <1>1, <1>2, <2>2, <2>3, <2>4, <2>5 DEF Reads
  <2> QED
    BY <2>1, <2>6
<1>4. j.task = "workflow" => Cleans(k, j, rs["canonical"], rs["second"], u)
  <2>1. ASSUME k \in 6..8, j.task = "workflow"
        PROVE  \/ t.head > j.commit
               \/ Below(j.of, t.contents[j.commit]) /\ Below(t.contents[j.commit], u.src)
    <3>1. BuildOf(k) >= 4
      BY <2>1 DEF BuildOf
    <3>2. j.commit \in 1..t.head
      BY <3>1 DEF Track, Reads
    <3>3. t.contents[j.commit] \in Srcs(t.edits + 1)
      BY <3>2 DEF TreeOK
    <3>4. Below(t.contents[j.commit], t.src) => Below(t.contents[j.commit], u.src)
      BY <1>1, <3>3 DEF Below, Srcs
    <3> QED
      BY <2>1, <3>4 DEF Track, Cleans
  <2> QED
    BY <1>1, <2>1 DEF Track, Cleans, Newer, Settled
<1>5. Copies(k, j, rs, bs)
  BY DEF Track
<1>6. ASSUME NEW r \in Places, Current(j, r, rs[r], t) PROVE Current(j, r, rs[r], u)
  <2>1. ASSUME Uncut(rs[r], "release-manifest"), u.src.version # j.version[r]
        PROVE  StoredManifest(rs[r]).sources.version < u.src.version
    <3>1. StoredManifest(rs[r]).sources.version \in 1..(t.edits + 1)
      BY <2>1 DEF FilesOK, ReleaseManifestOK, Srcs
    <3>2. CASE part = "version"
      BY <1>1, <3>1, <3>2 DEF Edited
    <3>3. CASE part = "code"
      BY <1>6, <2>1, <3>3 DEF Edited, Current
    <3> QED
      BY <3>2, <3>3
  <2> QED
    BY <2>1 DEF Current
<1>7. Since(k, j, rs, u)
  BY <1>6 DEF Track, Since, Places
<1>8. Signs(k, j, rs["canonical"], u)
  BY <1>1 DEF Track, Signs, Final, Settled
<1> QED
  BY <1>3, <1>4, <1>5, <1>7, <1>8 DEF Track

Committed(u, t) ==
    /\ u.edits = t.edits /\ u.src = t.src /\ u.head = t.head + 1
    /\ \A i \in 1..t.head : u.contents[i] = t.contents[i]

LEMMA CommitTreeTracks ==
  ASSUME NEW j, NEW k, NEW rs, NEW t, NEW bs, Track(k, j, rs, t, bs), TreeOK(t), NEW u, Committed(u, t)
  PROVE  Track(k, j, rs, u, bs)
<1>1. t.head \in Nat /\ \A i \in 1..t.head : i \in 1..u.head /\ u.head > i
  BY DEF TreeOK, Committed
<1>2. Reads(BuildOf(k), j, RootOf(k), rs[RootOf(k)], u)
  BY <1>1 DEF Track, Reads, Committed
<1>3. \A m : Settled(m, t) => Settled(m, u)
  BY <1>1 DEF Settled, Committed
<1>4. j.task = "workflow" => Cleans(k, j, rs["canonical"], rs["second"], u)
  <2> SUFFICES ASSUME j.task = "workflow" PROVE Cleans(k, j, rs["canonical"], rs["second"], u)
    OBVIOUS
  <2> PICK c, s : c = rs["canonical"] /\ s = rs["second"]
    OBVIOUS
  <2>1. Cleans(k, j, c, s, t)
    BY DEF Track
  <2>2. k \in 6..10 => u.head > j.commit
    <3>1. ASSUME k \in 6..10 PROVE u.head > j.commit
      <4>1. BuildOf(k) >= 4
        BY <3>1 DEF BuildOf
      <4> QED
        BY <1>1, <4>1 DEF Track, Reads
    <3> QED
      BY <3>1
  <2>3. k \in 11..34 => Newer(u.head, StoredManifest(c), u)
    <3>1. ASSUME k \in 11..34 PROVE Newer(u.head, StoredManifest(c), u)
      <4>1. StoredManifest(c).commit \in Nat /\ Newer(t.head, StoredManifest(c), t)
        BY <2>1, <3>1 DEF Cleans
      <4> QED
        BY <1>1, <1>3, <4>1 DEF Newer, Committed
    <3> QED
      BY <3>1
  <2>4. k \in 35..41 => Newer(j.commit, StoredManifest(c), u)
    BY <1>3, <2>1 DEF Cleans, Newer
  <2>5. k \in 42..45 => Newer(StoredManifest(s).commit, StoredManifest(c), u)
    BY <1>3, <2>1 DEF Cleans, Newer
  <2>6. k \in 46..50 => Settled(StoredManifest(c), u)
    BY <1>3, <2>1 DEF Cleans
  <2> QED
    BY <2>1, <2>2, <2>3, <2>4, <2>5, <2>6 DEF Cleans
<1>5. Copies(k, j, rs, bs)
  BY DEF Track
<1>6. Since(k, j, rs, u)
  BY DEF Track, Since, Current, Committed
<1>7. Signs(k, j, rs["canonical"], u)
  BY <1>3 DEF Track, Signs, Final
<1> QED
  BY <1>2, <1>4, <1>5, <1>6, <1>7 DEF Track

LEMMA EditTreeSteps == ASSUME ReleaseInv, NEW part \in {"code", "version"}, EditTree(part) PROVE ReleaseInv'
<1>1. PICK u, v, e : u = tree' /\ v = tree.edits + 2 /\ e = tree.edits + 1
  OBVIOUS
<1>2. u = [tree EXCEPT !.src[part] = v, !.edits = e]
  BY <1>1 DEF EditTree
<1>3. TreeOK(tree) /\ JobOK(job) /\ FilesOK(roots, tree, builds, job.n)
  BY DEF ReleaseInv
<1>4. PICK z : z = [tree.src EXCEPT ![part] = v]
  OBVIOUS
<1>5. u = [tree EXCEPT !.src = z, !.edits = e]
  BY <1>2, <1>4
<1>6. /\ DOMAIN u = {"src", "edits", "head", "contents"} /\ u.src = z /\ u.edits = e
      /\ u.head = tree.head /\ u.contents = tree.contents
  BY <1>3, <1>5 DEF TreeOK
<1>7. tree.edits \in Nat /\ e = tree.edits + 1 /\ v = e + 1
  BY <1>1, <1>3 DEF TreeOK
<1>8. z \in Srcs(e + 1) /\ z[part] = v /\ \A p \in {"code", "version"} \ {part} : z[p] = tree.src[p]
  <2>1. tree.src \in [code : 1..e, version : 1..e]
    BY <1>3, <1>7 DEF TreeOK, Srcs
  <2>2. DOMAIN z = {"code", "version"} /\ z[part] = v /\ \A p \in {"code", "version"} \ {part} : z[p] = tree.src[p]
    BY <1>4, <2>1
  <2>3. z = [code |-> z.code, version |-> z.version]
    BY <1>4, <2>1
  <2>4. z.code \in 1..(e + 1) /\ z.version \in 1..(e + 1)
    <3>1. CASE part = "code"
      BY <1>7, <2>1, <2>2, <3>1
    <3>2. CASE part = "version"
      BY <1>7, <2>1, <2>2, <3>2
    <3> QED
      BY <3>1, <3>2
  <2> QED
    BY <2>2, <2>3, <2>4 DEF Srcs
<1>9. Edited(u, tree, part)
  BY <1>1, <1>6, <1>8 DEF Edited
<1>10. TreeOK(u)
  <2>1. Srcs(tree.edits + 1) \subseteq Srcs(e + 1)
    BY <1>7 DEF Srcs
  <2> QED
    BY <1>3, <1>6, <1>7, <1>8, <2>1 DEF TreeOK
<1>11. FilesOK(roots, u, builds, job.n)
  BY <1>3, <1>6, <1>7, FilesTree
<1>12. UNCHANGED <<roots, job, builds, verdict>>
  BY DEF EditTree
<1>13. job.task # "none" => Track(Place(job), job, roots, u, builds)
  <2>1. job.task # "none" => Track(Place(job), job, roots, tree, builds)
    BY DEF ReleaseInv
  <2> QED
    BY <1>3, <1>9, <1>10, <2>1, EditTracks
<1>14. AcceptedReleaseIsOfItsSources'
  BY <1>12, AcceptedStays DEF ReleaseInv
<1> QED
  BY <1>1, <1>3, <1>10, <1>11, <1>12, <1>13, <1>14 DEF ReleaseInv, JobOK, FilesOK

LEMMA CommitTreeSteps == ReleaseInv /\ CommitTree => ReleaseInv'
<1> SUFFICES ASSUME ReleaseInv, CommitTree PROVE ReleaseInv'
  OBVIOUS
<1>1. PICK u, h, c : u = tree' /\ h = tree.head + 1 /\ c = Append(tree.contents, tree.src)
  OBVIOUS
<1>2. u = [tree EXCEPT !.head = h, !.contents = c]
  BY <1>1 DEF CommitTree
<1>3. TreeOK(tree) /\ JobOK(job) /\ FilesOK(roots, tree, builds, job.n)
  BY DEF ReleaseInv
<1>4. /\ DOMAIN u = {"src", "edits", "head", "contents"} /\ u.src = tree.src /\ u.edits = tree.edits
      /\ u.head = h /\ u.contents = c
  BY <1>2, <1>3 DEF TreeOK
<1>5. tree.head \in Nat /\ tree.contents \in [1..tree.head -> Srcs(tree.edits + 1)] /\ tree.src \in Srcs(tree.edits + 1)
  BY <1>3 DEF TreeOK
<1>6. c \in [1..h -> Srcs(tree.edits + 1)] /\ Len(c) = h /\ \A i \in 1..tree.head : c[i] = tree.contents[i]
  <2>1. PICK S, n, a, x : S = Srcs(tree.edits + 1) /\ n = tree.head /\ a = tree.contents /\ x = tree.src
    OBVIOUS
  <2>2. n \in Nat /\ a \in [1..n -> S] /\ x \in S
    BY <1>5, <2>1
  <2>3. c = Append(a, x)
    BY <1>1, <2>1
  <2>4. h = n + 1
    BY <1>1, <2>1
  <2>5. a \in Seq(S) /\ Len(a) = n
    BY <2>2
  <2>6. c \in Seq(S) /\ Len(c) = h /\ \A i \in 1..n : c[i] = a[i]
    BY <2>2, <2>3, <2>4, <2>5
  <2>7. c \in [1..h -> S]
    <3>1. DOMAIN c = 1..h /\ \A i \in 1..h : c[i] \in S
      BY <2>6
    <3>2. c = [i \in 1..h |-> c[i]]
      BY <2>6
    <3> QED
      BY <3>1, <3>2
  <2> QED
    BY <2>1, <2>6, <2>7
<1>7. Committed(u, tree)
  BY <1>1, <1>4, <1>6 DEF Committed
<1>8. TreeOK(u)
  BY <1>1, <1>3, <1>4, <1>5, <1>6 DEF TreeOK
<1>9. FilesOK(roots, u, builds, job.n)
  BY <1>3, <1>4 DEF FilesOK, ReleaseManifestOK
<1>10. UNCHANGED <<roots, job, builds, verdict>>
  BY DEF CommitTree
<1>11. job.task # "none" => Track(Place(job), job, roots, u, builds)
  <2>1. job.task # "none" => Track(Place(job), job, roots, tree, builds)
    BY DEF ReleaseInv
  <2> QED
    BY <1>3, <1>7, <2>1, CommitTreeTracks
<1>12. AcceptedReleaseIsOfItsSources'
  BY <1>10, AcceptedStays DEF ReleaseInv
<1> QED
  BY <1>1, <1>3, <1>8, <1>9, <1>10, <1>11, <1>12 DEF ReleaseInv, JobOK, FilesOK

LEMMA RestoreTreeSteps == ReleaseInv /\ RestoreTree => ReleaseInv'
<1> SUFFICES ASSUME ReleaseInv, RestoreTree PROVE ReleaseInv'
  OBVIOUS
<1>1. TreeOK(tree) /\ JobOK(job) /\ FilesOK(roots, tree, builds, job.n)
  BY DEF ReleaseInv
<1>2. job.task = "none" /\ UNCHANGED <<roots, job, builds, verdict>>
  BY <1>1 DEF RestoreTree, JobOK
<1>3. PICK u, v : u = tree' /\ v = tree.contents[tree.head]
  OBVIOUS
<1>4. u = [tree EXCEPT !.src = v] /\ v \in Srcs(tree.edits + 1)
  BY <1>1, <1>3 DEF RestoreTree, TreeOK
<1>5. TreeOK(u) /\ u.edits = tree.edits
  BY <1>1, <1>4 DEF TreeOK
<1>6. FilesOK(roots, u, builds, job.n)
  BY <1>1, <1>5 DEF FilesOK, ReleaseManifestOK
<1>7. AcceptedReleaseIsOfItsSources'
  BY <1>2, AcceptedStays DEF ReleaseInv
<1> QED
  BY <1>1, <1>2, <1>3, <1>5, <1>6, <1>7 DEF ReleaseInv, JobOK, FilesOK

LEMMA ReleaseStarts == ReleaseInit => ReleaseInv
<1> SUFFICES ASSUME ReleaseInit PROVE ReleaseInv
  OBVIOUS
<1>1. PICK c : c = <<Sources0>>
  OBVIOUS
<1>2. Sources0 \in Srcs(1)
  BY DEF Sources0, Srcs
<1>3. c \in [1..1 -> Srcs(1)] /\ Len(c) = 1
  <2> PICK x, S : x = Sources0 /\ S = Srcs(1)
    OBVIOUS
  <2>1. c = <<x>> /\ x \in S
    BY <1>1, <1>2
  <2>2. c \in [1..1 -> S] /\ Len(c) = 1
    BY <2>1
  <2> QED
    BY <2>2
<1>4. TreeOK(tree)
  BY <1>1, <1>2, <1>3 DEF ReleaseInit, TreeOK
<1>5. PICK i : i = Idle(0)
  OBVIOUS
<1>6. DOMAIN i = JobFields /\ i.n = 0 /\ i.task = "none" /\ i.pc = 0
  BY <1>5 DEF Idle, JobFields
<1>7. JobOK(job) /\ job.task = "none"
  BY <1>5, <1>6, ReleaseBounds DEF ReleaseInit, JobOK
<1>8. DOMAIN roots = Places /\ \A r \in Places : DOMAIN roots[r] = {}
  BY NothingIsThere DEF ReleaseInit
<1>9. FilesOK(roots, tree, builds, job.n)
  BY <1>8 DEF FilesOK, Uncut, Witnesses, Places
<1>10. AcceptedReleaseIsOfItsSources
  BY DEF ReleaseInit, AcceptedReleaseIsOfItsSources, VerifiedOfItsSources, SignedOfItsCommit, Accepted
<1> QED
  BY <1>4, <1>7, <1>9, <1>10 DEF ReleaseInv

LEMMA ReleaseSteps == ReleaseInv /\ [ReleaseNext]_releaseVars => ReleaseInv'
<1>1. ReleaseInv /\ UNCHANGED releaseVars => ReleaseInv'
  <2> SUFFICES ASSUME ReleaseInv, UNCHANGED releaseVars PROVE ReleaseInv'
    OBVIOUS
  <2>1. UNCHANGED <<tree, roots, job, builds, verdict>>
    BY DEF releaseVars
  <2>2. AcceptedReleaseIsOfItsSources'
    BY <2>1, AcceptedStays DEF ReleaseInv
  <2> QED
    BY <2>1, <2>2 DEF ReleaseInv
<1>2. ReleaseInv /\ (\E part \in {"code", "version"} : EditTree(part)) => ReleaseInv'
  BY EditTreeSteps
<1> QED
  BY <1>1, <1>2, StartTaskSteps, LoadSteps, CollectSteps, ResolveCommitSteps, ResolveTimeSteps, InspectStatusSteps,
     ClearRootSteps, CompileSteps, RecollectSteps, WriteSourceManifestSteps, WriteManifestSteps, WriteReleaseSumsSteps,
     CheckReleaseSteps, SnapshotSteps, PrepareSteps, CompareSteps, WriteReproducibilitySteps, CleanupSteps, AttestSteps,
     CheckAttestationSteps, RecordEvidenceSteps, AcceptEvidenceSteps, StopTaskSteps, CommitTreeSteps, RestoreTreeSteps
     DEF ReleaseNext

\* A release that verify or the evidence verifier accepts was compiled from the
\* sources present, or from those of the attested commit, with that version and
\* commit linked in; and a reproducibility report with it is of two more builds of
\* one task that gave that binary.
THEOREM ReleaseTheorem == ReleaseSpec => []AcceptedReleaseIsOfItsSources
<1>1. ReleaseInv => AcceptedReleaseIsOfItsSources
  BY DEF ReleaseInv
<1> QED
  BY <1>1, ReleaseStarts, ReleaseSteps, PTL DEF ReleaseSpec

(***************************************************************************)
(* The release evidence.                                                   *)
(*                                                                         *)
(* A script clears its directory, runs its test and makes its report, each *)
(* at one place.  Between the clearing and the report all it writes is of  *)
(* its own run, so a report stands beside whole files of that run, and says *)
(* no more than the test of that run did.                                  *)
(***************************************************************************)
\* The steps of a script by their place.  The directory is cleared at one of
\* them, the test runs at another, and the report is made at a third.
ClearedAt ==
    CASE kind \in Spawned -> 5
      [] kind \in Nats \cup {"postgres-recovery", "redis-sentinel", "kubernetes", "server-recovery"} -> 1
      [] kind \in {"nginx-edge", "workflow-lint", "prometheus-rules"} -> 2
TestedAt ==
    CASE kind \in Spawned -> 6
      [] kind \in Nats \cup {"postgres-recovery", "redis-sentinel", "kubernetes"} -> 2
      [] kind \in {"nginx-edge", "server-recovery"} -> 1
      [] kind \in {"workflow-lint", "prometheus-rules"} -> 3
ReportedAt ==
    CASE kind \in Spawned -> 10
      [] kind \in Nats -> 9
      [] kind = "postgres-recovery" -> 11
      [] kind \in {"redis-sentinel", "workflow-lint"} -> 8
      [] kind = "nginx-edge" -> 7
      [] kind = "kubernetes" -> 6
      [] kind = "prometheus-rules" -> 12
      [] kind = "server-recovery" -> 2

\* What the step at a place may be.
StepOK(i, s) ==
    /\ s.do = "unlink" <=> kind \in Spawned /\ i <= 5
    /\ s.do = "unlink" => s.name = Generated[i]
    /\ s.do = "wipe" => kind \notin Spawned /\ i = ClearedAt
    /\ i = ClearedAt => s.do \in {"unlink", "wipe", "drill"}
    /\ s.do = "drill" <=> kind = "server-recovery" /\ i = TestedAt
    /\ s.do \in {"test", "drill"} <=> i = TestedAt
    /\ s.do \in {"write", "copy", "credential", "remove"} =>
          i > ClearedAt /\ i > TestedAt /\ i < ReportedAt /\ kind # "server-recovery"
    /\ s.do \in {"pin", "credential", "remove"} => kind \notin Spawned \cup Nats
    /\ s.do = "credential" => i + 2 < ReportedAt
    /\ s.do = "write" => s.name \notin {"report", "SHA256SUMS"}
    /\ s.do = "write" /\ kind \in Spawned => s.name \in Outputs
    /\ s.do = "copy" => kind \notin Spawned \cup {"nginx-edge"}
    /\ s.do = "report" <=> i = ReportedAt
    /\ s.do = "sums" => i = ReportedAt + 1 /\ kind \notin Staged
    /\ kind \in Nats => (i = 5 <=> s.name = "status") /\ (i = 5 => s.do = "write")

Deeds == {"pin", "unlink", "wipe", "test", "drill", "write", "copy", "credential", "remove", "report", "sums", "verify"}
StepNames == {"", "out", "err", "status", "report", "SHA256SUMS", "environment", "output", "server", "serverHash", "contract",
          "recoveryOutput", "recoveryStatus", "log", "check", "render", "build", "version", "lint", "config", "rules", "tests"}
Steps == [do : Deeds, name : StepNames]
Fits(s, after) == s \in Seq(Steps) /\ \A i \in 1..Len(s) : StepOK(after + i, s[i])

\* Steps that fit after each other fit as one script.
LEMMA JoinedFit ==
    ASSUME NEW s, NEW t, NEW k \in Nat, Len(s) = k, Fits(s, 0), Fits(t, k)
    PROVE  Len(s \o t) = k + Len(t) /\ Fits(s \o t, 0)
<1>1. s \in Seq(Steps) /\ t \in Seq(Steps) /\ Len(t) \in Nat
  BY DEF Fits
<1>2. /\ s \o t \in Seq(Steps)
      /\ Len(s \o t) = k + Len(t)
      /\ \A i \in 1..k + Len(t) : (s \o t)[i] = IF i <= k THEN s[i] ELSE t[i - k]
  BY <1>1, ConcatProperties
<1>3. ASSUME NEW i \in 1..k + Len(t) PROVE StepOK(0 + i, (s \o t)[i])
  <2>1. CASE i <= k
    BY <1>2, <2>1 DEF Fits
  <2>2. CASE i > k
    <3>1. i - k \in 1..Len(t) /\ k + (i - k) = i /\ 0 + i = i
      BY <1>1, <2>2
    <3>2. StepOK(k + (i - k), t[i - k])
      BY <3>1 DEF Fits
    <3> QED BY <1>2, <2>2, <3>1, <3>2
  <2> QED BY <1>1, <2>1, <2>2
<1> QED BY <1>2, <1>3 DEF Fits

\* A script given step by step fits when every step does.
LEMMA Fit1 ==
    ASSUME NEW k \in Nat, NEW a \in Steps,
           StepOK(k + 1, a)
    PROVE  Len(<<a>>) = 1 /\ Fits(<<a>>, k)
<1>1. PICK s : s = <<a>>
  OBVIOUS
<1>2. s \in Seq(Steps) /\ Len(s) = 1
  BY <1>1
<1>3. /\ s[1] = a
  BY <1>1
<1>4. \A i \in 1..1 : StepOK(k + i, s[i])
  BY <1>3
<1> QED BY <1>1, <1>2, <1>4 DEF Fits

LEMMA Fit2 ==
    ASSUME NEW k \in Nat, NEW a \in Steps, NEW b \in Steps,
           StepOK(k + 1, a), StepOK(k + 2, b)
    PROVE  Len(<<a, b>>) = 2 /\ Fits(<<a, b>>, k)
<1>1. PICK s : s = <<a, b>>
  OBVIOUS
<1>2. s \in Seq(Steps) /\ Len(s) = 2
  BY <1>1
<1>3. /\ s[1] = a
      /\ s[2] = b
  BY <1>1
<1>4. \A i \in 1..2 : StepOK(k + i, s[i])
  BY <1>3
<1> QED BY <1>1, <1>2, <1>4 DEF Fits

LEMMA Fit3 ==
    ASSUME NEW k \in Nat, NEW a \in Steps, NEW b \in Steps, NEW c \in Steps,
           StepOK(k + 1, a), StepOK(k + 2, b), StepOK(k + 3, c)
    PROVE  Len(<<a, b, c>>) = 3 /\ Fits(<<a, b, c>>, k)
<1>1. PICK s : s = <<a, b, c>>
  OBVIOUS
<1>2. s \in Seq(Steps) /\ Len(s) = 3
  BY <1>1
<1>3. /\ s[1] = a
      /\ s[2] = b
      /\ s[3] = c
  BY <1>1
<1>4. \A i \in 1..3 : StepOK(k + i, s[i])
  BY <1>3
<1> QED BY <1>1, <1>2, <1>4 DEF Fits

LEMMA Fit4 ==
    ASSUME NEW k \in Nat, NEW a \in Steps, NEW b \in Steps, NEW c \in Steps, NEW d \in Steps,
           StepOK(k + 1, a), StepOK(k + 2, b), StepOK(k + 3, c), StepOK(k + 4, d)
    PROVE  Len(<<a, b, c, d>>) = 4 /\ Fits(<<a, b, c, d>>, k)
<1>1. PICK s : s = <<a, b, c, d>>
  OBVIOUS
<1>2. s \in Seq(Steps) /\ Len(s) = 4
  BY <1>1
<1>3. /\ s[1] = a
      /\ s[2] = b
      /\ s[3] = c
      /\ s[4] = d
  BY <1>1
<1>4. \A i \in 1..4 : StepOK(k + i, s[i])
  BY <1>3
<1> QED BY <1>1, <1>2, <1>4 DEF Fits

LEMMA Fit5 ==
    ASSUME NEW k \in Nat, NEW a \in Steps, NEW b \in Steps, NEW c \in Steps, NEW d \in Steps, NEW e \in Steps,
           StepOK(k + 1, a), StepOK(k + 2, b), StepOK(k + 3, c), StepOK(k + 4, d), StepOK(k + 5, e)
    PROVE  Len(<<a, b, c, d, e>>) = 5 /\ Fits(<<a, b, c, d, e>>, k)
<1>1. PICK s : s = <<a, b, c, d, e>>
  OBVIOUS
<1>2. s \in Seq(Steps) /\ Len(s) = 5
  BY <1>1
<1>3. /\ s[1] = a
      /\ s[2] = b
      /\ s[3] = c
      /\ s[4] = d
      /\ s[5] = e
  BY <1>1
<1>4. \A i \in 1..5 : StepOK(k + i, s[i])
  BY <1>3
<1> QED BY <1>1, <1>2, <1>4 DEF Fits

LEMMA Fit7 ==
    ASSUME NEW k \in Nat, NEW a \in Steps, NEW b \in Steps, NEW c \in Steps, NEW d \in Steps, NEW e \in Steps, NEW f \in Steps, NEW g \in Steps,
           StepOK(k + 1, a), StepOK(k + 2, b), StepOK(k + 3, c), StepOK(k + 4, d), StepOK(k + 5, e), StepOK(k + 6, f), StepOK(k + 7, g)
    PROVE  Len(<<a, b, c, d, e, f, g>>) = 7 /\ Fits(<<a, b, c, d, e, f, g>>, k)
<1>1. PICK s : s = <<a, b, c, d, e, f, g>>
  OBVIOUS
<1>2. s \in Seq(Steps) /\ Len(s) = 7
  BY <1>1
<1>3. /\ s[1] = a
      /\ s[2] = b
      /\ s[3] = c
      /\ s[4] = d
      /\ s[5] = e
      /\ s[6] = f
      /\ s[7] = g
  BY <1>1
<1>4. \A i \in 1..7 : StepOK(k + i, s[i])
  BY <1>3
<1> QED BY <1>1, <1>2, <1>4 DEF Fits

LEMMA Fit8 ==
    ASSUME NEW k \in Nat, NEW a \in Steps, NEW b \in Steps, NEW c \in Steps, NEW d \in Steps, NEW e \in Steps, NEW f \in Steps, NEW g \in Steps, NEW h \in Steps,
           StepOK(k + 1, a), StepOK(k + 2, b), StepOK(k + 3, c), StepOK(k + 4, d), StepOK(k + 5, e), StepOK(k + 6, f), StepOK(k + 7, g), StepOK(k + 8, h)
    PROVE  Len(<<a, b, c, d, e, f, g, h>>) = 8 /\ Fits(<<a, b, c, d, e, f, g, h>>, k)
<1>1. PICK s : s = <<a, b, c, d, e, f, g, h>>
  OBVIOUS
<1>2. s \in Seq(Steps) /\ Len(s) = 8
  BY <1>1
<1>3. /\ s[1] = a
      /\ s[2] = b
      /\ s[3] = c
      /\ s[4] = d
      /\ s[5] = e
      /\ s[6] = f
      /\ s[7] = g
      /\ s[8] = h
  BY <1>1
<1>4. \A i \in 1..8 : StepOK(k + i, s[i])
  BY <1>3
<1> QED BY <1>1, <1>2, <1>4 DEF Fits

\* The steps that Each makes of a list of names.
LEMMA Each3 ==
    ASSUME NEW step, NEW a, NEW b, NEW c
    PROVE  Each(step, <<a, b, c>>) =
              <<Do(step, a), Do(step, b), Do(step, c)>>
BY DEF Each

LEMMA Each4 ==
    ASSUME NEW step, NEW a, NEW b, NEW c, NEW d
    PROVE  Each(step, <<a, b, c, d>>) =
              <<Do(step, a), Do(step, b), Do(step, c), Do(step, d)>>
BY DEF Each

LEMMA Each5 ==
    ASSUME NEW step, NEW a, NEW b, NEW c, NEW d, NEW e
    PROVE  Each(step, <<a, b, c, d, e>>) =
              <<Do(step, a), Do(step, b), Do(step, c), Do(step, d), Do(step, e)>>
BY DEF Each

LEMMA Each7 ==
    ASSUME NEW step, NEW a, NEW b, NEW c, NEW d, NEW e, NEW f, NEW g
    PROVE  Each(step, <<a, b, c, d, e, f, g>>) =
              <<Do(step, a), Do(step, b), Do(step, c), Do(step, d), Do(step, e), Do(step, f), Do(step, g)>>
BY DEF Each

\* Every script fits, and goes on after its report.
LEMMA SpawnRunFits ==
    ASSUME kind \in Spawned PROVE Fits(SpawnRun, 0) /\ Len(SpawnRun) > ReportedAt
<1>1. ClearedAt = 5 /\ TestedAt = 6 /\ ReportedAt = 10
  BY DEF ClearedAt, TestedAt, ReportedAt, Spawned, Nats, Staged
<1>2. /\ kind \in Spawned /\ kind \notin Nats /\ kind \notin Staged
      /\ kind # "server-recovery" /\ kind # "nginx-edge"
  BY DEF Spawned, Nats, Staged
<1>3. PICK p1 : p1 = Each("unlink", Generated) /\ Len(p1) = 5 /\ Fits(p1, 0)
  <2>1. /\ Do("unlink", "out") \in Steps /\ StepOK(0 + 1, Do("unlink", "out"))
        /\ Do("unlink", "err") \in Steps /\ StepOK(0 + 2, Do("unlink", "err"))
        /\ Do("unlink", "status") \in Steps /\ StepOK(0 + 3, Do("unlink", "status"))
        /\ Do("unlink", "report") \in Steps /\ StepOK(0 + 4, Do("unlink", "report"))
        /\ Do("unlink", "SHA256SUMS") \in Steps /\ StepOK(0 + 5, Do("unlink", "SHA256SUMS"))
    BY <1>1, <1>2 DEF Do, StepOK, Steps, Deeds, StepNames, Outputs, Generated
  <2>2. Len(<<Do("unlink", "out"), Do("unlink", "err"), Do("unlink", "status"), Do("unlink", "report"), Do("unlink", "SHA256SUMS")>>) = 5 /\ Fits(<<Do("unlink", "out"), Do("unlink", "err"), Do("unlink", "status"), Do("unlink", "report"), Do("unlink", "SHA256SUMS")>>, 0)
    BY <2>1, Fit5, Zenon
  <2>3. Each("unlink", Generated) = <<Do("unlink", "out"), Do("unlink", "err"), Do("unlink", "status"), Do("unlink", "report"), Do("unlink", "SHA256SUMS")>>
    BY Each5 DEF Generated
  <2> QED BY <2>2, <2>3, Zenon
<1>4. PICK p2 : p2 = <<Do("test", "")>> /\ Len(p2) = 1 /\ Fits(p2, 5)
  <2>1. /\ Do("test", "") \in Steps /\ StepOK(5 + 1, Do("test", ""))
    BY <1>1, <1>2 DEF Do, StepOK, Steps, Deeds, StepNames, Outputs, Generated
  <2> QED BY <2>1, Fit1, Zenon
<1>5. PICK p3 : p3 = Each("write", <<"out", "err", "status">>) /\ Len(p3) = 3 /\ Fits(p3, 6)
  <2>1. /\ Do("write", "out") \in Steps /\ StepOK(6 + 1, Do("write", "out"))
        /\ Do("write", "err") \in Steps /\ StepOK(6 + 2, Do("write", "err"))
        /\ Do("write", "status") \in Steps /\ StepOK(6 + 3, Do("write", "status"))
    BY <1>1, <1>2 DEF Do, StepOK, Steps, Deeds, StepNames, Outputs, Generated
  <2>2. Len(<<Do("write", "out"), Do("write", "err"), Do("write", "status")>>) = 3 /\ Fits(<<Do("write", "out"), Do("write", "err"), Do("write", "status")>>, 6)
    BY <2>1, Fit3, Zenon
  <2>3. Each("write", <<"out", "err", "status">>) = <<Do("write", "out"), Do("write", "err"), Do("write", "status")>>
    BY Each3
  <2> QED BY <2>2, <2>3, Zenon
<1>6. PICK p4 : p4 = <<Do("report", "report"), Do("sums", "SHA256SUMS"), Do("verify", "")>> /\ Len(p4) = 3 /\ Fits(p4, 9)
  <2>1. /\ Do("report", "report") \in Steps /\ StepOK(9 + 1, Do("report", "report"))
        /\ Do("sums", "SHA256SUMS") \in Steps /\ StepOK(9 + 2, Do("sums", "SHA256SUMS"))
        /\ Do("verify", "") \in Steps /\ StepOK(9 + 3, Do("verify", ""))
    BY <1>1, <1>2 DEF Do, StepOK, Steps, Deeds, StepNames, Outputs, Generated
  <2> QED BY <2>1, Fit3, Zenon
<1>7. Len(p1 \o p2) = 6 /\ Fits(p1 \o p2, 0)
  <2>1. Len(p1 \o p2) = 5 + Len(p2) /\ Fits(p1 \o p2, 0)
    <3> PICK k : k \in Nat /\ k = 5
      OBVIOUS
    <3>1. Len(p1) = k /\ Fits(p1, 0) /\ Fits(p2, k)
      BY <1>3, <1>4, Zenon
    <3>2. Len(p1 \o p2) = k + Len(p2) /\ Fits(p1 \o p2, 0)
      BY <3>1, JoinedFit, Zenon
    <3> QED BY <3>2
  <2>2. 5 + 1 = 6
    OBVIOUS
  <2> QED BY <1>4, <2>1, <2>2, Zenon
<1>8. Len(p1 \o p2 \o p3) = 9 /\ Fits(p1 \o p2 \o p3, 0)
  <2>1. Len(p1 \o p2 \o p3) = 6 + Len(p3) /\ Fits(p1 \o p2 \o p3, 0)
    <3> PICK q : q = p1 \o p2
      OBVIOUS
    <3> PICK k : k \in Nat /\ k = 6
      OBVIOUS
    <3>1. Len(q) = k /\ Fits(q, 0) /\ Fits(p3, k)
      BY <1>7, <1>5, Zenon
    <3>2. Len(q \o p3) = k + Len(p3) /\ Fits(q \o p3, 0)
      BY <3>1, JoinedFit, Zenon
    <3> QED BY <3>2
  <2>2. 6 + 3 = 9
    OBVIOUS
  <2> QED BY <1>5, <2>1, <2>2, Zenon
<1>9. Len(p1 \o p2 \o p3 \o p4) = 12 /\ Fits(p1 \o p2 \o p3 \o p4, 0)
  <2>1. Len(p1 \o p2 \o p3 \o p4) = 9 + Len(p4) /\ Fits(p1 \o p2 \o p3 \o p4, 0)
    <3> PICK q : q = p1 \o p2 \o p3
      OBVIOUS
    <3> PICK k : k \in Nat /\ k = 9
      OBVIOUS
    <3>1. Len(q) = k /\ Fits(q, 0) /\ Fits(p4, k)
      BY <1>8, <1>6, Zenon
    <3>2. Len(q \o p4) = k + Len(p4) /\ Fits(q \o p4, 0)
      BY <3>1, JoinedFit, Zenon
    <3> QED BY <3>2
  <2>2. 9 + 3 = 12
    OBVIOUS
  <2> QED BY <1>6, <2>1, <2>2, Zenon
<1>10. Fits(SpawnRun, 0) /\ Len(SpawnRun) = 12
  BY <1>3, <1>4, <1>5, <1>6, <1>9, Zenon DEF SpawnRun
<1> QED BY <1>1, <1>10

LEMMA NatsRunFits ==
    ASSUME kind \in Nats PROVE Fits(NatsRun, 0) /\ Len(NatsRun) > ReportedAt
<1>1. ClearedAt = 1 /\ TestedAt = 2 /\ ReportedAt = 9
  BY DEF ClearedAt, TestedAt, ReportedAt, Spawned, Nats, Staged
<1>2. /\ kind \notin Spawned /\ kind \in Nats /\ kind \notin Staged
      /\ kind # "server-recovery" /\ kind # "nginx-edge"
  BY DEF Spawned, Nats, Staged
<1>3. PICK p1 : p1 = <<Do("wipe", ""), Do("test", "")>> /\ Len(p1) = 2 /\ Fits(p1, 0)
  <2>1. /\ Do("wipe", "") \in Steps /\ StepOK(0 + 1, Do("wipe", ""))
        /\ Do("test", "") \in Steps /\ StepOK(0 + 2, Do("test", ""))
    BY <1>1, <1>2 DEF Do, StepOK, Steps, Deeds, StepNames
  <2> QED BY <2>1, Fit2, Zenon
<1>4. PICK p2 : p2 = Each("write", <<"environment", "output", "status", "server", "serverHash">>) /\ Len(p2) = 5 /\ Fits(p2, 2)
  <2>1. /\ Do("write", "environment") \in Steps /\ StepOK(2 + 1, Do("write", "environment"))
        /\ Do("write", "output") \in Steps /\ StepOK(2 + 2, Do("write", "output"))
        /\ Do("write", "status") \in Steps /\ StepOK(2 + 3, Do("write", "status"))
        /\ Do("write", "server") \in Steps /\ StepOK(2 + 4, Do("write", "server"))
        /\ Do("write", "serverHash") \in Steps /\ StepOK(2 + 5, Do("write", "serverHash"))
    BY <1>1, <1>2 DEF Do, StepOK, Steps, Deeds, StepNames
  <2>2. Len(<<Do("write", "environment"), Do("write", "output"), Do("write", "status"), Do("write", "server"), Do("write", "serverHash")>>) = 5 /\ Fits(<<Do("write", "environment"), Do("write", "output"), Do("write", "status"), Do("write", "server"), Do("write", "serverHash")>>, 2)
    BY <2>1, Fit5, Zenon
  <2>3. Each("write", <<"environment", "output", "status", "server", "serverHash">>) = <<Do("write", "environment"), Do("write", "output"), Do("write", "status"), Do("write", "server"), Do("write", "serverHash")>>
    BY Each5
  <2> QED BY <2>2, <2>3, Zenon
<1>5. PICK p3 : p3 = <<Do("copy", ""), Do("report", "report"), Do("sums", "SHA256SUMS"), Do("verify", "")>> /\ Len(p3) = 4 /\ Fits(p3, 7)
  <2>1. /\ Do("copy", "") \in Steps /\ StepOK(7 + 1, Do("copy", ""))
        /\ Do("report", "report") \in Steps /\ StepOK(7 + 2, Do("report", "report"))
        /\ Do("sums", "SHA256SUMS") \in Steps /\ StepOK(7 + 3, Do("sums", "SHA256SUMS"))
        /\ Do("verify", "") \in Steps /\ StepOK(7 + 4, Do("verify", ""))
    BY <1>1, <1>2 DEF Do, StepOK, Steps, Deeds, StepNames
  <2> QED BY <2>1, Fit4, Zenon
<1>6. Len(p1 \o p2) = 7 /\ Fits(p1 \o p2, 0)
  <2>1. Len(p1 \o p2) = 2 + Len(p2) /\ Fits(p1 \o p2, 0)
    <3> PICK k : k \in Nat /\ k = 2
      OBVIOUS
    <3>1. Len(p1) = k /\ Fits(p1, 0) /\ Fits(p2, k)
      BY <1>3, <1>4, Zenon
    <3>2. Len(p1 \o p2) = k + Len(p2) /\ Fits(p1 \o p2, 0)
      BY <3>1, JoinedFit, Zenon
    <3> QED BY <3>2
  <2>2. 2 + 5 = 7
    OBVIOUS
  <2> QED BY <1>4, <2>1, <2>2, Zenon
<1>7. Len(p1 \o p2 \o p3) = 11 /\ Fits(p1 \o p2 \o p3, 0)
  <2>1. Len(p1 \o p2 \o p3) = 7 + Len(p3) /\ Fits(p1 \o p2 \o p3, 0)
    <3> PICK q : q = p1 \o p2
      OBVIOUS
    <3> PICK k : k \in Nat /\ k = 7
      OBVIOUS
    <3>1. Len(q) = k /\ Fits(q, 0) /\ Fits(p3, k)
      BY <1>6, <1>5, Zenon
    <3>2. Len(q \o p3) = k + Len(p3) /\ Fits(q \o p3, 0)
      BY <3>1, JoinedFit, Zenon
    <3> QED BY <3>2
  <2>2. 7 + 4 = 11
    OBVIOUS
  <2> QED BY <1>5, <2>1, <2>2, Zenon
<1>8. Fits(NatsRun, 0) /\ Len(NatsRun) = 11
  BY <1>3, <1>4, <1>5, <1>7, Zenon DEF NatsRun
<1> QED BY <1>1, <1>8

LEMMA PostgresRecoveryRunFits ==
    ASSUME kind = "postgres-recovery" PROVE Fits(PostgresRecoveryRun, 0) /\ Len(PostgresRecoveryRun) > ReportedAt
<1>1. ClearedAt = 1 /\ TestedAt = 2 /\ ReportedAt = 11
  BY DEF ClearedAt, TestedAt, ReportedAt, Spawned, Nats, Staged
<1>2. /\ kind \notin Spawned /\ kind \notin Nats /\ kind \notin Staged
      /\ kind # "server-recovery" /\ kind # "nginx-edge"
  BY DEF Spawned, Nats, Staged
<1>3. PICK p1 : p1 = <<Do("wipe", ""), Do("test", ""), Do("copy", "")>> /\ Len(p1) = 3 /\ Fits(p1, 0)
  <2>1. /\ Do("wipe", "") \in Steps /\ StepOK(0 + 1, Do("wipe", ""))
        /\ Do("test", "") \in Steps /\ StepOK(0 + 2, Do("test", ""))
        /\ Do("copy", "") \in Steps /\ StepOK(0 + 3, Do("copy", ""))
    BY <1>1, <1>2 DEF Do, StepOK, Steps, Deeds, StepNames
  <2> QED BY <2>1, Fit3, Zenon
<1>4. PICK p2 : p2 = Each("write", PostgresBase) /\ Len(p2) = 7 /\ Fits(p2, 3)
  <2>1. /\ Do("write", "environment") \in Steps /\ StepOK(3 + 1, Do("write", "environment"))
        /\ Do("write", "contract") \in Steps /\ StepOK(3 + 2, Do("write", "contract"))
        /\ Do("write", "output") \in Steps /\ StepOK(3 + 3, Do("write", "output"))
        /\ Do("write", "status") \in Steps /\ StepOK(3 + 4, Do("write", "status"))
        /\ Do("write", "recoveryOutput") \in Steps /\ StepOK(3 + 5, Do("write", "recoveryOutput"))
        /\ Do("write", "recoveryStatus") \in Steps /\ StepOK(3 + 6, Do("write", "recoveryStatus"))
        /\ Do("write", "log") \in Steps /\ StepOK(3 + 7, Do("write", "log"))
    BY <1>1, <1>2 DEF Do, StepOK, Steps, Deeds, StepNames
  <2>2. Len(<<Do("write", "environment"), Do("write", "contract"), Do("write", "output"), Do("write", "status"), Do("write", "recoveryOutput"), Do("write", "recoveryStatus"), Do("write", "log")>>) = 7 /\ Fits(<<Do("write", "environment"), Do("write", "contract"), Do("write", "output"), Do("write", "status"), Do("write", "recoveryOutput"), Do("write", "recoveryStatus"), Do("write", "log")>>, 3)
    BY <2>1, Fit7, Zenon
  <2>3. Each("write", PostgresBase) = <<Do("write", "environment"), Do("write", "contract"), Do("write", "output"), Do("write", "status"), Do("write", "recoveryOutput"), Do("write", "recoveryStatus"), Do("write", "log")>>
    BY Each7 DEF PostgresBase
  <2> QED BY <2>2, <2>3, Zenon
<1>5. PICK p3 : p3 = <<Do("report", "report"), Do("sums", "SHA256SUMS")>> /\ Len(p3) = 2 /\ Fits(p3, 10)
  <2>1. /\ Do("report", "report") \in Steps /\ StepOK(10 + 1, Do("report", "report"))
        /\ Do("sums", "SHA256SUMS") \in Steps /\ StepOK(10 + 2, Do("sums", "SHA256SUMS"))
    BY <1>1, <1>2 DEF Do, StepOK, Steps, Deeds, StepNames
  <2> QED BY <2>1, Fit2, Zenon
<1>6. Len(p1 \o p2) = 10 /\ Fits(p1 \o p2, 0)
  <2>1. Len(p1 \o p2) = 3 + Len(p2) /\ Fits(p1 \o p2, 0)
    <3> PICK k : k \in Nat /\ k = 3
      OBVIOUS
    <3>1. Len(p1) = k /\ Fits(p1, 0) /\ Fits(p2, k)
      BY <1>3, <1>4, Zenon
    <3>2. Len(p1 \o p2) = k + Len(p2) /\ Fits(p1 \o p2, 0)
      BY <3>1, JoinedFit, Zenon
    <3> QED BY <3>2
  <2>2. 3 + 7 = 10
    OBVIOUS
  <2> QED BY <1>4, <2>1, <2>2, Zenon
<1>7. Len(p1 \o p2 \o p3) = 12 /\ Fits(p1 \o p2 \o p3, 0)
  <2>1. Len(p1 \o p2 \o p3) = 10 + Len(p3) /\ Fits(p1 \o p2 \o p3, 0)
    <3> PICK q : q = p1 \o p2
      OBVIOUS
    <3> PICK k : k \in Nat /\ k = 10
      OBVIOUS
    <3>1. Len(q) = k /\ Fits(q, 0) /\ Fits(p3, k)
      BY <1>6, <1>5, Zenon
    <3>2. Len(q \o p3) = k + Len(p3) /\ Fits(q \o p3, 0)
      BY <3>1, JoinedFit, Zenon
    <3> QED BY <3>2
  <2>2. 10 + 2 = 12
    OBVIOUS
  <2> QED BY <1>5, <2>1, <2>2, Zenon
<1>8. Fits(PostgresRecoveryRun, 0) /\ Len(PostgresRecoveryRun) = 12
  BY <1>3, <1>4, <1>5, <1>7, Zenon DEF PostgresRecoveryRun
<1> QED BY <1>1, <1>8

LEMMA RedisSentinelRunFits ==
    ASSUME kind = "redis-sentinel" PROVE Fits(RedisSentinelRun, 0) /\ Len(RedisSentinelRun) > ReportedAt
<1>1. ClearedAt = 1 /\ TestedAt = 2 /\ ReportedAt = 8
  BY DEF ClearedAt, TestedAt, ReportedAt, Spawned, Nats, Staged
<1>2. /\ kind \notin Spawned /\ kind \notin Nats /\ kind \notin Staged
      /\ kind # "server-recovery" /\ kind # "nginx-edge"
  BY DEF Spawned, Nats, Staged
<1>3. PICK p1 : p1 = <<Do("wipe", ""), Do("test", ""), Do("copy", "")>> /\ Len(p1) = 3 /\ Fits(p1, 0)
  <2>1. /\ Do("wipe", "") \in Steps /\ StepOK(0 + 1, Do("wipe", ""))
        /\ Do("test", "") \in Steps /\ StepOK(0 + 2, Do("test", ""))
        /\ Do("copy", "") \in Steps /\ StepOK(0 + 3, Do("copy", ""))
    BY <1>1, <1>2 DEF Do, StepOK, Steps, Deeds, StepNames
  <2> QED BY <2>1, Fit3, Zenon
<1>4. PICK p2 : p2 = Each("write", RedisBase) /\ Len(p2) = 4 /\ Fits(p2, 3)
  <2>1. /\ Do("write", "environment") \in Steps /\ StepOK(3 + 1, Do("write", "environment"))
        /\ Do("write", "contract") \in Steps /\ StepOK(3 + 2, Do("write", "contract"))
        /\ Do("write", "output") \in Steps /\ StepOK(3 + 3, Do("write", "output"))
        /\ Do("write", "status") \in Steps /\ StepOK(3 + 4, Do("write", "status"))
    BY <1>1, <1>2 DEF Do, StepOK, Steps, Deeds, StepNames
  <2>2. Len(<<Do("write", "environment"), Do("write", "contract"), Do("write", "output"), Do("write", "status")>>) = 4 /\ Fits(<<Do("write", "environment"), Do("write", "contract"), Do("write", "output"), Do("write", "status")>>, 3)
    BY <2>1, Fit4, Zenon
  <2>3. Each("write", RedisBase) = <<Do("write", "environment"), Do("write", "contract"), Do("write", "output"), Do("write", "status")>>
    BY Each4 DEF RedisBase
  <2> QED BY <2>2, <2>3, Zenon
<1>5. PICK p3 : p3 = <<Do("report", "report"), Do("sums", "SHA256SUMS")>> /\ Len(p3) = 2 /\ Fits(p3, 7)
  <2>1. /\ Do("report", "report") \in Steps /\ StepOK(7 + 1, Do("report", "report"))
        /\ Do("sums", "SHA256SUMS") \in Steps /\ StepOK(7 + 2, Do("sums", "SHA256SUMS"))
    BY <1>1, <1>2 DEF Do, StepOK, Steps, Deeds, StepNames
  <2> QED BY <2>1, Fit2, Zenon
<1>6. Len(p1 \o p2) = 7 /\ Fits(p1 \o p2, 0)
  <2>1. Len(p1 \o p2) = 3 + Len(p2) /\ Fits(p1 \o p2, 0)
    <3> PICK k : k \in Nat /\ k = 3
      OBVIOUS
    <3>1. Len(p1) = k /\ Fits(p1, 0) /\ Fits(p2, k)
      BY <1>3, <1>4, Zenon
    <3>2. Len(p1 \o p2) = k + Len(p2) /\ Fits(p1 \o p2, 0)
      BY <3>1, JoinedFit, Zenon
    <3> QED BY <3>2
  <2>2. 3 + 4 = 7
    OBVIOUS
  <2> QED BY <1>4, <2>1, <2>2, Zenon
<1>7. Len(p1 \o p2 \o p3) = 9 /\ Fits(p1 \o p2 \o p3, 0)
  <2>1. Len(p1 \o p2 \o p3) = 7 + Len(p3) /\ Fits(p1 \o p2 \o p3, 0)
    <3> PICK q : q = p1 \o p2
      OBVIOUS
    <3> PICK k : k \in Nat /\ k = 7
      OBVIOUS
    <3>1. Len(q) = k /\ Fits(q, 0) /\ Fits(p3, k)
      BY <1>6, <1>5, Zenon
    <3>2. Len(q \o p3) = k + Len(p3) /\ Fits(q \o p3, 0)
      BY <3>1, JoinedFit, Zenon
    <3> QED BY <3>2
  <2>2. 7 + 2 = 9
    OBVIOUS
  <2> QED BY <1>5, <2>1, <2>2, Zenon
<1>8. Fits(RedisSentinelRun, 0) /\ Len(RedisSentinelRun) = 9
  BY <1>3, <1>4, <1>5, <1>7, Zenon DEF RedisSentinelRun
<1> QED BY <1>1, <1>8

LEMMA NginxEdgeRunFits ==
    ASSUME kind = "nginx-edge" PROVE Fits(NginxEdgeRun, 0) /\ Len(NginxEdgeRun) > ReportedAt
<1>1. ClearedAt = 2 /\ TestedAt = 1 /\ ReportedAt = 7
  BY DEF ClearedAt, TestedAt, ReportedAt, Spawned, Nats, Staged
<1>2. /\ kind \notin Spawned /\ kind \notin Nats /\ kind \notin Staged
      /\ kind # "server-recovery" /\ kind = "nginx-edge"
  BY DEF Spawned, Nats, Staged
<1>3. PICK p1 : p1 = <<Do("test", ""), Do("wipe", "")>> /\ Len(p1) = 2 /\ Fits(p1, 0)
  <2>1. /\ Do("test", "") \in Steps /\ StepOK(0 + 1, Do("test", ""))
        /\ Do("wipe", "") \in Steps /\ StepOK(0 + 2, Do("wipe", ""))
    BY <1>1, <1>2 DEF Do, StepOK, Steps, Deeds, StepNames
  <2> QED BY <2>1, Fit2, Zenon
<1>4. PICK p2 : p2 = Each("write", NginxBase) /\ Len(p2) = 4 /\ Fits(p2, 2)
  <2>1. /\ Do("write", "environment") \in Steps /\ StepOK(2 + 1, Do("write", "environment"))
        /\ Do("write", "output") \in Steps /\ StepOK(2 + 2, Do("write", "output"))
        /\ Do("write", "log") \in Steps /\ StepOK(2 + 3, Do("write", "log"))
        /\ Do("write", "status") \in Steps /\ StepOK(2 + 4, Do("write", "status"))
    BY <1>1, <1>2 DEF Do, StepOK, Steps, Deeds, StepNames
  <2>2. Len(<<Do("write", "environment"), Do("write", "output"), Do("write", "log"), Do("write", "status")>>) = 4 /\ Fits(<<Do("write", "environment"), Do("write", "output"), Do("write", "log"), Do("write", "status")>>, 2)
    BY <2>1, Fit4, Zenon
  <2>3. Each("write", NginxBase) = <<Do("write", "environment"), Do("write", "output"), Do("write", "log"), Do("write", "status")>>
    BY Each4 DEF NginxBase
  <2> QED BY <2>2, <2>3, Zenon
<1>5. PICK p3 : p3 = <<Do("report", "report"), Do("sums", "SHA256SUMS")>> /\ Len(p3) = 2 /\ Fits(p3, 6)
  <2>1. /\ Do("report", "report") \in Steps /\ StepOK(6 + 1, Do("report", "report"))
        /\ Do("sums", "SHA256SUMS") \in Steps /\ StepOK(6 + 2, Do("sums", "SHA256SUMS"))
    BY <1>1, <1>2 DEF Do, StepOK, Steps, Deeds, StepNames
  <2> QED BY <2>1, Fit2, Zenon
<1>6. Len(p1 \o p2) = 6 /\ Fits(p1 \o p2, 0)
  <2>1. Len(p1 \o p2) = 2 + Len(p2) /\ Fits(p1 \o p2, 0)
    <3> PICK k : k \in Nat /\ k = 2
      OBVIOUS
    <3>1. Len(p1) = k /\ Fits(p1, 0) /\ Fits(p2, k)
      BY <1>3, <1>4, Zenon
    <3>2. Len(p1 \o p2) = k + Len(p2) /\ Fits(p1 \o p2, 0)
      BY <3>1, JoinedFit, Zenon
    <3> QED BY <3>2
  <2>2. 2 + 4 = 6
    OBVIOUS
  <2> QED BY <1>4, <2>1, <2>2, Zenon
<1>7. Len(p1 \o p2 \o p3) = 8 /\ Fits(p1 \o p2 \o p3, 0)
  <2>1. Len(p1 \o p2 \o p3) = 6 + Len(p3) /\ Fits(p1 \o p2 \o p3, 0)
    <3> PICK q : q = p1 \o p2
      OBVIOUS
    <3> PICK k : k \in Nat /\ k = 6
      OBVIOUS
    <3>1. Len(q) = k /\ Fits(q, 0) /\ Fits(p3, k)
      BY <1>6, <1>5, Zenon
    <3>2. Len(q \o p3) = k + Len(p3) /\ Fits(q \o p3, 0)
      BY <3>1, JoinedFit, Zenon
    <3> QED BY <3>2
  <2>2. 6 + 2 = 8
    OBVIOUS
  <2> QED BY <1>5, <2>1, <2>2, Zenon
<1>8. Fits(NginxEdgeRun, 0) /\ Len(NginxEdgeRun) = 8
  BY <1>3, <1>4, <1>5, <1>7, Zenon DEF NginxEdgeRun
<1> QED BY <1>1, <1>8

LEMMA KubernetesRunFits ==
    ASSUME kind = "kubernetes" PROVE Fits(KubernetesRun, 0) /\ Len(KubernetesRun) > ReportedAt
<1>1. ClearedAt = 1 /\ TestedAt = 2 /\ ReportedAt = 6
  BY DEF ClearedAt, TestedAt, ReportedAt, Spawned, Nats, Staged
<1>2. /\ kind \notin Spawned /\ kind \notin Nats /\ kind \in Staged
      /\ kind # "server-recovery" /\ kind # "nginx-edge"
  BY DEF Spawned, Nats, Staged
<1>3. PICK p1 : p1 = <<Do("wipe", ""), Do("test", ""), Do("write", "check"), Do("copy", ""), Do("write", "render"), Do("report", "report"), Do("verify", "")>> /\ Len(p1) = 7 /\ Fits(p1, 0)
  <2>1. /\ Do("wipe", "") \in Steps /\ StepOK(0 + 1, Do("wipe", ""))
        /\ Do("test", "") \in Steps /\ StepOK(0 + 2, Do("test", ""))
        /\ Do("write", "check") \in Steps /\ StepOK(0 + 3, Do("write", "check"))
        /\ Do("copy", "") \in Steps /\ StepOK(0 + 4, Do("copy", ""))
        /\ Do("write", "render") \in Steps /\ StepOK(0 + 5, Do("write", "render"))
        /\ Do("report", "report") \in Steps /\ StepOK(0 + 6, Do("report", "report"))
        /\ Do("verify", "") \in Steps /\ StepOK(0 + 7, Do("verify", ""))
    BY <1>1, <1>2 DEF Do, StepOK, Steps, Deeds, StepNames
  <2> QED BY <2>1, Fit7, Zenon
<1>4. Fits(KubernetesRun, 0) /\ Len(KubernetesRun) = 7
  BY <1>3, Zenon DEF KubernetesRun
<1> QED BY <1>1, <1>4

LEMMA WorkflowLintRunFits ==
    ASSUME kind = "workflow-lint" PROVE Fits(WorkflowLintRun, 0) /\ Len(WorkflowLintRun) > ReportedAt
<1>1. ClearedAt = 2 /\ TestedAt = 3 /\ ReportedAt = 8
  BY DEF ClearedAt, TestedAt, ReportedAt, Spawned, Nats, Staged
<1>2. /\ kind \notin Spawned /\ kind \notin Nats /\ kind \in Staged
      /\ kind # "server-recovery" /\ kind # "nginx-edge"
  BY DEF Spawned, Nats, Staged
<1>3. PICK p1 : p1 = <<Do("pin", ""), Do("wipe", ""), Do("test", ""), Do("copy", "")>> /\ Len(p1) = 4 /\ Fits(p1, 0)
  <2>1. /\ Do("pin", "") \in Steps /\ StepOK(0 + 1, Do("pin", ""))
        /\ Do("wipe", "") \in Steps /\ StepOK(0 + 2, Do("wipe", ""))
        /\ Do("test", "") \in Steps /\ StepOK(0 + 3, Do("test", ""))
        /\ Do("copy", "") \in Steps /\ StepOK(0 + 4, Do("copy", ""))
    BY <1>1, <1>2 DEF Do, StepOK, Steps, Deeds, StepNames
  <2> QED BY <2>1, Fit4, Zenon
<1>4. PICK p2 : p2 = Each("write", <<"build", "version", "lint">>) /\ Len(p2) = 3 /\ Fits(p2, 4)
  <2>1. /\ Do("write", "build") \in Steps /\ StepOK(4 + 1, Do("write", "build"))
        /\ Do("write", "version") \in Steps /\ StepOK(4 + 2, Do("write", "version"))
        /\ Do("write", "lint") \in Steps /\ StepOK(4 + 3, Do("write", "lint"))
    BY <1>1, <1>2 DEF Do, StepOK, Steps, Deeds, StepNames
  <2>2. Len(<<Do("write", "build"), Do("write", "version"), Do("write", "lint")>>) = 3 /\ Fits(<<Do("write", "build"), Do("write", "version"), Do("write", "lint")>>, 4)
    BY <2>1, Fit3, Zenon
  <2>3. Each("write", <<"build", "version", "lint">>) = <<Do("write", "build"), Do("write", "version"), Do("write", "lint")>>
    BY Each3
  <2> QED BY <2>2, <2>3, Zenon
<1>5. PICK p3 : p3 = <<Do("report", "report"), Do("verify", "")>> /\ Len(p3) = 2 /\ Fits(p3, 7)
  <2>1. /\ Do("report", "report") \in Steps /\ StepOK(7 + 1, Do("report", "report"))
        /\ Do("verify", "") \in Steps /\ StepOK(7 + 2, Do("verify", ""))
    BY <1>1, <1>2 DEF Do, StepOK, Steps, Deeds, StepNames
  <2> QED BY <2>1, Fit2, Zenon
<1>6. Len(p1 \o p2) = 7 /\ Fits(p1 \o p2, 0)
  <2>1. Len(p1 \o p2) = 4 + Len(p2) /\ Fits(p1 \o p2, 0)
    <3> PICK k : k \in Nat /\ k = 4
      OBVIOUS
    <3>1. Len(p1) = k /\ Fits(p1, 0) /\ Fits(p2, k)
      BY <1>3, <1>4, Zenon
    <3>2. Len(p1 \o p2) = k + Len(p2) /\ Fits(p1 \o p2, 0)
      BY <3>1, JoinedFit, Zenon
    <3> QED BY <3>2
  <2>2. 4 + 3 = 7
    OBVIOUS
  <2> QED BY <1>4, <2>1, <2>2, Zenon
<1>7. Len(p1 \o p2 \o p3) = 9 /\ Fits(p1 \o p2 \o p3, 0)
  <2>1. Len(p1 \o p2 \o p3) = 7 + Len(p3) /\ Fits(p1 \o p2 \o p3, 0)
    <3> PICK q : q = p1 \o p2
      OBVIOUS
    <3> PICK k : k \in Nat /\ k = 7
      OBVIOUS
    <3>1. Len(q) = k /\ Fits(q, 0) /\ Fits(p3, k)
      BY <1>6, <1>5, Zenon
    <3>2. Len(q \o p3) = k + Len(p3) /\ Fits(q \o p3, 0)
      BY <3>1, JoinedFit, Zenon
    <3> QED BY <3>2
  <2>2. 7 + 2 = 9
    OBVIOUS
  <2> QED BY <1>5, <2>1, <2>2, Zenon
<1>8. Fits(WorkflowLintRun, 0) /\ Len(WorkflowLintRun) = 9
  BY <1>3, <1>4, <1>5, <1>7, Zenon DEF WorkflowLintRun
<1> QED BY <1>1, <1>8

LEMMA PrometheusRulesRunFits ==
    ASSUME kind = "prometheus-rules" PROVE Fits(PrometheusRulesRun, 0) /\ Len(PrometheusRulesRun) > ReportedAt
<1>1. ClearedAt = 2 /\ TestedAt = 3 /\ ReportedAt = 12
  BY DEF ClearedAt, TestedAt, ReportedAt, Spawned, Nats, Staged
<1>2. /\ kind \notin Spawned /\ kind \notin Nats /\ kind \in Staged
      /\ kind # "server-recovery" /\ kind # "nginx-edge"
  BY DEF Spawned, Nats, Staged
<1>3. PICK p1 : p1 = <<Do("pin", ""), Do("wipe", ""), Do("test", ""), Do("copy", ""), Do("write", "build"), Do("write", "version"), Do("credential", ""), Do("remove", "")>> /\ Len(p1) = 8 /\ Fits(p1, 0)
  <2>1. /\ Do("pin", "") \in Steps /\ StepOK(0 + 1, Do("pin", ""))
        /\ Do("wipe", "") \in Steps /\ StepOK(0 + 2, Do("wipe", ""))
        /\ Do("test", "") \in Steps /\ StepOK(0 + 3, Do("test", ""))
        /\ Do("copy", "") \in Steps /\ StepOK(0 + 4, Do("copy", ""))
        /\ Do("write", "build") \in Steps /\ StepOK(0 + 5, Do("write", "build"))
        /\ Do("write", "version") \in Steps /\ StepOK(0 + 6, Do("write", "version"))
        /\ Do("credential", "") \in Steps /\ StepOK(0 + 7, Do("credential", ""))
        /\ Do("remove", "") \in Steps /\ StepOK(0 + 8, Do("remove", ""))
    BY <1>1, <1>2 DEF Do, StepOK, Steps, Deeds, StepNames
  <2> QED BY <2>1, Fit8, Zenon
<1>4. PICK p2 : p2 = Each("write", <<"config", "rules", "tests">>) /\ Len(p2) = 3 /\ Fits(p2, 8)
  <2>1. /\ Do("write", "config") \in Steps /\ StepOK(8 + 1, Do("write", "config"))
        /\ Do("write", "rules") \in Steps /\ StepOK(8 + 2, Do("write", "rules"))
        /\ Do("write", "tests") \in Steps /\ StepOK(8 + 3, Do("write", "tests"))
    BY <1>1, <1>2 DEF Do, StepOK, Steps, Deeds, StepNames
  <2>2. Len(<<Do("write", "config"), Do("write", "rules"), Do("write", "tests")>>) = 3 /\ Fits(<<Do("write", "config"), Do("write", "rules"), Do("write", "tests")>>, 8)
    BY <2>1, Fit3, Zenon
  <2>3. Each("write", <<"config", "rules", "tests">>) = <<Do("write", "config"), Do("write", "rules"), Do("write", "tests")>>
    BY Each3
  <2> QED BY <2>2, <2>3, Zenon
<1>5. PICK p3 : p3 = <<Do("report", "report"), Do("verify", "")>> /\ Len(p3) = 2 /\ Fits(p3, 11)
  <2>1. /\ Do("report", "report") \in Steps /\ StepOK(11 + 1, Do("report", "report"))
        /\ Do("verify", "") \in Steps /\ StepOK(11 + 2, Do("verify", ""))
    BY <1>1, <1>2 DEF Do, StepOK, Steps, Deeds, StepNames
  <2> QED BY <2>1, Fit2, Zenon
<1>6. Len(p1 \o p2) = 11 /\ Fits(p1 \o p2, 0)
  <2>1. Len(p1 \o p2) = 8 + Len(p2) /\ Fits(p1 \o p2, 0)
    <3> PICK k : k \in Nat /\ k = 8
      OBVIOUS
    <3>1. Len(p1) = k /\ Fits(p1, 0) /\ Fits(p2, k)
      BY <1>3, <1>4, Zenon
    <3>2. Len(p1 \o p2) = k + Len(p2) /\ Fits(p1 \o p2, 0)
      BY <3>1, JoinedFit, Zenon
    <3> QED BY <3>2
  <2>2. 8 + 3 = 11
    OBVIOUS
  <2> QED BY <1>4, <2>1, <2>2, Zenon
<1>7. Len(p1 \o p2 \o p3) = 13 /\ Fits(p1 \o p2 \o p3, 0)
  <2>1. Len(p1 \o p2 \o p3) = 11 + Len(p3) /\ Fits(p1 \o p2 \o p3, 0)
    <3> PICK q : q = p1 \o p2
      OBVIOUS
    <3> PICK k : k \in Nat /\ k = 11
      OBVIOUS
    <3>1. Len(q) = k /\ Fits(q, 0) /\ Fits(p3, k)
      BY <1>6, <1>5, Zenon
    <3>2. Len(q \o p3) = k + Len(p3) /\ Fits(q \o p3, 0)
      BY <3>1, JoinedFit, Zenon
    <3> QED BY <3>2
  <2>2. 11 + 2 = 13
    OBVIOUS
  <2> QED BY <1>5, <2>1, <2>2, Zenon
<1>8. Fits(PrometheusRulesRun, 0) /\ Len(PrometheusRulesRun) = 13
  BY <1>3, <1>4, <1>5, <1>7, Zenon DEF PrometheusRulesRun
<1> QED BY <1>1, <1>8

LEMMA ServerRecoveryRunFits ==
    ASSUME kind = "server-recovery" PROVE Fits(ServerRecoveryRun, 0) /\ Len(ServerRecoveryRun) > ReportedAt
<1>1. ClearedAt = 1 /\ TestedAt = 1 /\ ReportedAt = 2
  BY DEF ClearedAt, TestedAt, ReportedAt, Spawned, Nats, Staged
<1>2. /\ kind \notin Spawned /\ kind \notin Nats /\ kind \notin Staged
      /\ kind = "server-recovery" /\ kind # "nginx-edge"
  BY DEF Spawned, Nats, Staged
<1>3. PICK p1 : p1 = <<Do("drill", ""), Do("report", "report"), Do("sums", "SHA256SUMS"), Do("verify", "")>> /\ Len(p1) = 4 /\ Fits(p1, 0)
  <2>1. /\ Do("drill", "") \in Steps /\ StepOK(0 + 1, Do("drill", ""))
        /\ Do("report", "report") \in Steps /\ StepOK(0 + 2, Do("report", "report"))
        /\ Do("sums", "SHA256SUMS") \in Steps /\ StepOK(0 + 3, Do("sums", "SHA256SUMS"))
        /\ Do("verify", "") \in Steps /\ StepOK(0 + 4, Do("verify", ""))
    BY <1>1, <1>2 DEF Do, StepOK, Steps, Deeds, StepNames
  <2> QED BY <2>1, Fit4, Zenon
<1>4. Fits(ServerRecoveryRun, 0) /\ Len(ServerRecoveryRun) = 4
  BY <1>3, Zenon DEF ServerRecoveryRun
<1> QED BY <1>1, <1>4
LEMMA ScriptFits ==
    ASSUME kind \in AllKinds PROVE Fits(Script, 0) /\ Len(Script) > ReportedAt
<1>1. CASE kind = "audit-chain"
  <2>1. Script = SpawnRun
    BY <1>1 DEF Script, AuditChainRun
  <2> QED BY <1>1, <2>1, SpawnRunFits DEF Spawned
<1>2. CASE kind = "authorization"
  <2>1. Script = SpawnRun
    BY <1>2 DEF Script, AuthorizationRun
  <2> QED BY <1>2, <2>1, SpawnRunFits DEF Spawned
<1>3. CASE kind = "oidc-browser"
  <2>1. Script = SpawnRun
    BY <1>3 DEF Script, OIDCBrowserRun
  <2> QED BY <1>3, <2>1, SpawnRunFits DEF Spawned
<1>4. CASE kind = "sdk-consumer"
  <2>1. Script = SpawnRun
    BY <1>4 DEF Script, SDKConsumerRun
  <2> QED BY <1>4, <2>1, SpawnRunFits DEF Spawned
<1>5. CASE kind = "sdk-consumer-matrix"
  <2>1. Script = SpawnRun
    BY <1>5 DEF Script, SDKConsumerMatrixRun
  <2> QED BY <1>5, <2>1, SpawnRunFits DEF Spawned
<1>6. CASE kind = "sdk-release"
  <2>1. Script = SpawnRun
    BY <1>6 DEF Script, SDKReleaseRun
  <2> QED BY <1>6, <2>1, SpawnRunFits DEF Spawned
<1>7. CASE kind = "nats-delivery"
  <2>1. Script = NatsRun
    BY <1>7 DEF Script, NatsDeliveryRun
  <2> QED BY <1>7, <2>1, NatsRunFits DEF Nats
<1>8. CASE kind = "nats-restart"
  <2>1. Script = NatsRun
    BY <1>8 DEF Script, NatsRestartRun
  <2> QED BY <1>8, <2>1, NatsRunFits DEF Nats
<1>9. CASE kind = "nats-snapshot"
  <2>1. Script = NatsRun
    BY <1>9 DEF Script, NatsSnapshotRun
  <2> QED BY <1>9, <2>1, NatsRunFits DEF Nats
<1>10. CASE kind = "nats-cluster"
  <2>1. Script = NatsRun
    BY <1>10 DEF Script, NatsClusterRun
  <2> QED BY <1>10, <2>1, NatsRunFits DEF Nats
<1>11. CASE kind = "postgres-recovery"
  <2>1. Script = PostgresRecoveryRun
    BY <1>11 DEF Script
  <2> QED BY <1>11, <2>1, PostgresRecoveryRunFits
<1>12. CASE kind = "redis-sentinel"
  <2>1. Script = RedisSentinelRun
    BY <1>12 DEF Script
  <2> QED BY <1>12, <2>1, RedisSentinelRunFits
<1>13. CASE kind = "nginx-edge"
  <2>1. Script = NginxEdgeRun
    BY <1>13 DEF Script
  <2> QED BY <1>13, <2>1, NginxEdgeRunFits
<1>14. CASE kind = "kubernetes"
  <2>1. Script = KubernetesRun
    BY <1>14 DEF Script
  <2> QED BY <1>14, <2>1, KubernetesRunFits
<1>15. CASE kind = "workflow-lint"
  <2>1. Script = WorkflowLintRun
    BY <1>15 DEF Script
  <2> QED BY <1>15, <2>1, WorkflowLintRunFits
<1>16. CASE kind = "prometheus-rules"
  <2>1. Script = PrometheusRulesRun
    BY <1>16 DEF Script
  <2> QED BY <1>16, <2>1, PrometheusRulesRunFits
<1>17. CASE kind = "server-recovery"
  <2>1. Script = ServerRecoveryRun
    BY <1>17 DEF Script
  <2> QED BY <1>17, <2>1, ServerRecoveryRunFits
<1> QED BY <1>1, <1>2, <1>3, <1>4, <1>5, <1>6, <1>7, <1>8, <1>9, <1>10, <1>11, <1>12, <1>13, <1>14, <1>15, <1>16, <1>17 DEF AllKinds, Spawned, Nats, Staged

LEMMA StepFits ==
    ASSUME kind \in AllKinds, NEW i \in 1..Len(Script) PROVE StepOK(i, Script[i])
<1>1. Fits(Script, 0)
  BY ScriptFits
<1>2. StepOK(0 + i, Script[i]) /\ 0 + i = i
  BY <1>1 DEF Fits
<1> QED BY <1>2

\* A report that the script makes is of this run and of the sources as they are,
\* and it tells of a pass only if the run saw one.
SawPass(x) ==
    IF kind \in Nats THEN dir["status"].says = "zero" ELSE x.exit = "zero" /\ (kind = "postgres-recovery" => x.second = "zero")
BuiltOK(r, run, x) ==
    /\ r.run = run /\ r.cut = FALSE /\ {"run", "cut"} \subseteq DOMAIN r
    /\ r.source = Sources(repo, Scope)
    /\ r.status = "passed" => SawPass(x)
    /\ kind = "server-recovery" => "summary" \in DOMAIN dir /\ dir["summary"].run = run

LEMMA BuildIsOK ==
    ASSUME kind \in AllKinds, NEW run, NEW x, NEW r \in Build(dir, run, x)
    PROVE  BuiltOK(r, run, x)
<1>1. CASE kind = "audit-chain"
  <2>0. Scope = AuditChain.groups
    BY <1>1 DEF Scope, Nats
  <2>1. r \in AuditChainBuild(dir, run, x, repo)
    BY <1>1 DEF Build
  <2>2. kind \notin Nats
    BY <1>1 DEF Nats
  <2> QED BY <1>1, <2>0, <2>1, <2>2 DEF AuditChainBuild, AuditChainSource, Report, StatusOf, BuiltOK, SawPass
<1>2. CASE kind = "authorization"
  <2>0. Scope = Authorization.groups
    BY <1>2 DEF Scope, Nats
  <2>1. r \in AuthorizationBuild(dir, run, x, repo)
    BY <1>2 DEF Build
  <2>2. kind \notin Nats
    BY <1>2 DEF Nats
  <2> QED BY <1>2, <2>0, <2>1, <2>2 DEF AuthorizationBuild, AuthorizationSource, Report, StatusOf, BuiltOK, SawPass
<1>3. CASE kind = "oidc-browser"
  <2>0. Scope = OIDCBrowser.groups
    BY <1>3 DEF Scope, Nats
  <2>1. r \in OIDCBrowserBuild(dir, run, x, repo)
    BY <1>3 DEF Build
  <2>2. kind \notin Nats
    BY <1>3 DEF Nats
  <2> QED BY <1>3, <2>0, <2>1, <2>2 DEF OIDCBrowserBuild, OIDCBrowserSource, Report, StatusOf, BuiltOK, SawPass
<1>4. CASE kind = "sdk-consumer"
  <2>0. Scope = SDKConsumer.groups
    BY <1>4 DEF Scope, Nats
  <2>1. r \in SDKConsumerBuild(dir, run, x, repo)
    BY <1>4 DEF Build
  <2>2. kind \notin Nats
    BY <1>4 DEF Nats
  <2> QED BY <1>4, <2>0, <2>1, <2>2 DEF SDKConsumerBuild, SDKConsumerSource, Report, StatusOf, BuiltOK, SawPass
<1>5. CASE kind = "sdk-consumer-matrix"
  <2>0. Scope = SDKConsumerMatrix.groups
    BY <1>5 DEF Scope, Nats
  <2>1. r \in SDKConsumerMatrixBuild(dir, run, x, repo)
    BY <1>5 DEF Build
  <2>2. kind \notin Nats
    BY <1>5 DEF Nats
  <2> QED BY <1>5, <2>0, <2>1, <2>2 DEF SDKConsumerMatrixBuild, SDKConsumerMatrixSource, Report, StatusOf, BuiltOK, SawPass
<1>6. CASE kind = "sdk-release"
  <2>0. Scope = SDKRelease.groups
    BY <1>6 DEF Scope, Nats
  <2>1. r \in SDKReleaseBuild(dir, run, x, repo)
    BY <1>6 DEF Build
  <2>2. kind \notin Nats
    BY <1>6 DEF Nats
  <2> QED BY <1>6, <2>0, <2>1, <2>2 DEF SDKReleaseBuild, SDKReleaseSource, Report, StatusOf, BuiltOK, SawPass
<1>7. CASE kind = "nats-delivery"
  <2>0. Scope = NatsDelivery.groups
    BY <1>7 DEF Scope, Nats, NatsDelivery
  <2>1. r \in NatsDeliveryBuild(dir, run, repo)
    BY <1>7 DEF Build
  <2>2. kind \in Nats
    BY <1>7 DEF Nats
  <2> QED BY <1>7, <2>0, <2>1, <2>2 DEF NatsDeliveryBuild, NatsDeliverySource, NatsReport, BuiltOK, SawPass
<1>8. CASE kind = "nats-restart"
  <2>0. Scope = NatsRestart.groups
    BY <1>8 DEF Scope, Nats, NatsRestart
  <2>1. r \in NatsRestartBuild(dir, run, repo)
    BY <1>8 DEF Build
  <2>2. kind \in Nats
    BY <1>8 DEF Nats
  <2> QED BY <1>8, <2>0, <2>1, <2>2 DEF NatsRestartBuild, NatsRestartSource, NatsReport, BuiltOK, SawPass
<1>9. CASE kind = "nats-snapshot"
  <2>0. Scope = NatsSnapshot.groups
    BY <1>9 DEF Scope, Nats, NatsSnapshot
  <2>1. r \in NatsSnapshotBuild(dir, run, repo)
    BY <1>9 DEF Build
  <2>2. kind \in Nats
    BY <1>9 DEF Nats
  <2> QED BY <1>9, <2>0, <2>1, <2>2 DEF NatsSnapshotBuild, NatsSnapshotSource, NatsReport, BuiltOK, SawPass
<1>10. CASE kind = "nats-cluster"
  <2>0. Scope = NatsCluster.groups
    BY <1>10 DEF Scope, Nats, NatsCluster
  <2>1. r \in NatsClusterBuild(dir, run, repo)
    BY <1>10 DEF Build
  <2>2. kind \in Nats
    BY <1>10 DEF Nats
  <2> QED BY <1>10, <2>0, <2>1, <2>2 DEF NatsClusterBuild, NatsClusterSource, NatsReport, BuiltOK, SawPass
<1>11. CASE kind = "postgres-recovery"
  <2>0. Scope = PostgresRecovery.groups
    BY <1>11 DEF Scope, Nats, PostgresRecovery
  <2>1. r \in PostgresRecoveryBuild(dir, run, x, repo)
    BY <1>11 DEF Build
  <2>2. kind \notin Nats
    BY <1>11 DEF Nats
  <2> QED BY <1>11, <2>0, <2>1, <2>2 DEF PostgresRecoveryBuild, PostgresRecoverySource, PostgresStatus, BuiltOK, SawPass
<1>12. CASE kind = "redis-sentinel"
  <2>0. Scope = RedisSentinel.groups
    BY <1>12 DEF Scope, Nats, RedisSentinel
  <2>1. r \in RedisSentinelBuild(dir, run, x, repo)
    BY <1>12 DEF Build
  <2>2. kind \notin Nats
    BY <1>12 DEF Nats
  <2> QED BY <1>12, <2>0, <2>1, <2>2 DEF RedisSentinelBuild, RedisSentinelSource, StatusOf, BuiltOK, SawPass
<1>13. CASE kind = "nginx-edge"
  <2>0. Scope = NginxEdge.groups
    BY <1>13 DEF Scope, Nats
  <2>1. r \in NginxEdgeBuild(dir, run, x, repo)
    BY <1>13 DEF Build
  <2>2. kind \notin Nats
    BY <1>13 DEF Nats
  <2> QED BY <1>13, <2>0, <2>1, <2>2 DEF NginxEdgeBuild, NginxEdgeSource, StatusOf, BuiltOK, SawPass
<1>14. CASE kind = "kubernetes"
  <2>0. Scope = Kubernetes.groups
    BY <1>14 DEF Scope, Nats
  <2>1. r \in KubernetesBuild(dir, run, x, repo)
    BY <1>14 DEF Build
  <2>2. kind \notin Nats
    BY <1>14 DEF Nats
  <2> QED BY <1>14, <2>0, <2>1, <2>2 DEF KubernetesBuild, KubernetesSource, StatusOf, BuiltOK, SawPass
<1>15. CASE kind = "workflow-lint"
  <2>0. Scope = WorkflowLint.groups
    BY <1>15 DEF Scope, Nats
  <2>1. r \in WorkflowLintBuild(dir, run, x, repo)
    BY <1>15 DEF Build
  <2>2. kind \notin Nats
    BY <1>15 DEF Nats
  <2> QED BY <1>15, <2>0, <2>1, <2>2 DEF WorkflowLintBuild, WorkflowLintSource, StatusOf, BuiltOK, SawPass
<1>16. CASE kind = "prometheus-rules"
  <2>0. Scope = PrometheusRules.groups
    BY <1>16 DEF Scope, Nats
  <2>1. r \in PrometheusRulesBuild(dir, run, x, repo)
    BY <1>16 DEF Build
  <2>2. kind \notin Nats
    BY <1>16 DEF Nats
  <2> QED BY <1>16, <2>0, <2>1, <2>2 DEF PrometheusRulesBuild, PrometheusRulesSource, StatusOf, BuiltOK, SawPass
<1>17. CASE kind = "server-recovery"
  <2>0. Scope = ServerRecovery.groups
    BY <1>17 DEF Scope, Nats
  <2>1. r \in ServerRecoveryBuild(dir, run, x, repo)
    BY <1>17 DEF Build
  <2>2. kind \notin Nats
    BY <1>17 DEF Nats
  <2> QED BY <1>17, <2>0, <2>1, <2>2 DEF ServerRecoveryBuild, ServerRecoverySource, StatusOf, VerifySummary, ServerRecoveryExecution, BuiltOK, SawPass
<1> QED BY <1>1, <1>2, <1>3, <1>4, <1>5, <1>6, <1>7, <1>8, <1>9, <1>10, <1>11, <1>12, <1>13, <1>14, <1>15, <1>16, <1>17 DEF AllKinds, Spawned, Nats, Staged

\* What a verifier that accepts has compared.
LEMMA VerifiedIsOK ==
    ASSUME kind \in AllKinds, Verified, NEW r, r = dir["report"]
    PROVE  /\ r.source = Sources(repo, Scope)
           /\ kind \notin Staged => ~dir["SHA256SUMS"].cut
<1>1. CASE kind = "audit-chain"
  <2>0. Scope = AuditChain.groups
    BY <1>1 DEF Scope, Nats
  <2>1. AuditChainVerify(dir, repo)
    BY <1>1 DEF Verified, SpawnedVerified, Spawned, Nats
  <2> QED BY <1>1, <2>0, <2>1 DEF AuditChainVerify, AuditChainSource, AuditChainDirectory, DirectoryExact, ChecksumsHold
<1>2. CASE kind = "authorization"
  <2>0. Scope = Authorization.groups
    BY <1>2 DEF Scope, Nats
  <2>1. AuthorizationVerify(dir, repo)
    BY <1>2 DEF Verified, SpawnedVerified, Spawned, Nats
  <2> QED BY <1>2, <2>0, <2>1 DEF AuthorizationVerify, AuthorizationSource, AuthorizationDirectory, DirectoryExact, ChecksumsHold
<1>3. CASE kind = "oidc-browser"
  <2>0. Scope = OIDCBrowser.groups
    BY <1>3 DEF Scope, Nats
  <2>1. OIDCBrowserVerify(dir, repo)
    BY <1>3 DEF Verified, SpawnedVerified, Spawned, Nats
  <2> QED BY <1>3, <2>0, <2>1 DEF OIDCBrowserVerify, OIDCBrowserSource, OIDCBrowserDirectory, DirectoryExact, ChecksumsHold
<1>4. CASE kind = "sdk-consumer"
  <2>0. Scope = SDKConsumer.groups
    BY <1>4 DEF Scope, Nats
  <2>1. SDKConsumerVerify(dir, repo)
    BY <1>4 DEF Verified, SpawnedVerified, Spawned, Nats
  <2> QED BY <1>4, <2>0, <2>1 DEF SDKConsumerVerify, SDKConsumerSource, SDKConsumerDirectory, DirectoryExact, ChecksumsHold
<1>5. CASE kind = "sdk-consumer-matrix"
  <2>0. Scope = SDKConsumerMatrix.groups
    BY <1>5 DEF Scope, Nats
  <2>1. SDKConsumerMatrixVerify(dir, repo)
    BY <1>5 DEF Verified, SpawnedVerified, Spawned, Nats
  <2> QED BY <1>5, <2>0, <2>1 DEF SDKConsumerMatrixVerify, SDKConsumerMatrixSource, SDKConsumerMatrixDirectory, DirectoryExact, ChecksumsHold
<1>6. CASE kind = "sdk-release"
  <2>0. Scope = SDKRelease.groups
    BY <1>6 DEF Scope, Nats
  <2>1. SDKReleaseVerify(dir, repo)
    BY <1>6 DEF Verified, SpawnedVerified, Spawned, Nats
  <2> QED BY <1>6, <2>0, <2>1 DEF SDKReleaseVerify, SDKReleaseSource, SDKReleaseDirectory, DirectoryExact, ChecksumsHold
<1>7. CASE kind = "nats-delivery"
  <2>0. Scope = NatsDelivery.groups
    BY <1>7 DEF Scope, Nats, NatsDelivery
  <2>1. NatsDeliveryVerify(dir, repo)
    BY <1>7 DEF Verified, NatsVerified, Spawned, Nats
  <2> QED BY <1>7, <2>0, <2>1 DEF NatsDeliveryVerify, NatsDeliverySource, NatsDeliveryReportHolds, NatsReportHolds, NatsDeliverySums, SumsOptional, ChecksumsHold
<1>8. CASE kind = "nats-restart"
  <2>0. Scope = NatsRestart.groups
    BY <1>8 DEF Scope, Nats, NatsRestart
  <2>1. NatsRestartVerify(dir, repo)
    BY <1>8 DEF Verified, NatsVerified, Spawned, Nats
  <2> QED BY <1>8, <2>0, <2>1 DEF NatsRestartVerify, NatsRestartSource, NatsRestartReportHolds, NatsReportHolds, NatsRestartSums, SumsOptional, ChecksumsHold
<1>9. CASE kind = "nats-snapshot"
  <2>0. Scope = NatsSnapshot.groups
    BY <1>9 DEF Scope, Nats, NatsSnapshot
  <2>1. NatsSnapshotVerify(dir, repo)
    BY <1>9 DEF Verified, NatsVerified, Spawned, Nats
  <2> QED BY <1>9, <2>0, <2>1 DEF NatsSnapshotVerify, NatsSnapshotSource, NatsSnapshotReportHolds, NatsReportHolds, NatsSnapshotSums, SumsOptional, ChecksumsHold
<1>10. CASE kind = "nats-cluster"
  <2>0. Scope = NatsCluster.groups
    BY <1>10 DEF Scope, Nats, NatsCluster
  <2>1. NatsClusterVerify(dir, repo)
    BY <1>10 DEF Verified, NatsVerified, Spawned, Nats
  <2> QED BY <1>10, <2>0, <2>1 DEF NatsClusterVerify, NatsClusterSource, NatsClusterReportHolds, NatsReportHolds, NatsClusterSums, SumsOptional, ChecksumsHold
<1>11. CASE kind = "postgres-recovery"
  <2>0. Scope = PostgresRecovery.groups
    BY <1>11 DEF Scope, Nats, PostgresRecovery
  <2>1. PostgresRecoveryVerify(dir, repo)
    BY <1>11 DEF Verified, CollectedVerified, Spawned, Nats
  <2> QED BY <1>11, <2>0, <2>1 DEF PostgresRecoveryVerify, PostgresRecoverySource, PostgresRecoverySums, ChecksumsHold, PostgresRecoveryReportHolds, SumsOptional
<1>12. CASE kind = "redis-sentinel"
  <2>0. Scope = RedisSentinel.groups
    BY <1>12 DEF Scope, Nats, RedisSentinel
  <2>1. RedisSentinelVerify(dir, repo)
    BY <1>12 DEF Verified, CollectedVerified, Spawned, Nats
  <2> QED BY <1>12, <2>0, <2>1 DEF RedisSentinelVerify, RedisSentinelSource, RedisSentinelSums, ChecksumsHold, RedisSentinelReportHolds
<1>13. CASE kind = "nginx-edge"
  <2>0. Scope = NginxEdge.groups
    BY <1>13 DEF Scope, Nats
  <2>1. NginxEdgeVerify(dir, repo)
    BY <1>13 DEF Verified, CollectedVerified, Spawned, Nats
  <2> QED BY <1>13, <2>0, <2>1 DEF NginxEdgeVerify, NginxEdgeSource, NginxEdgeSums, ChecksumsHold
<1>14. CASE kind = "kubernetes"
  <2>0. Scope = Kubernetes.groups
    BY <1>14 DEF Scope, Nats
  <2>1. KubernetesVerify(dir, repo)
    BY <1>14 DEF Verified, CollectedVerified, Spawned, Nats
  <2> QED BY <1>14, <2>0, <2>1 DEF KubernetesVerify, KubernetesSource, Staged
<1>15. CASE kind = "workflow-lint"
  <2>0. Scope = WorkflowLint.groups
    BY <1>15 DEF Scope, Nats
  <2>1. WorkflowLintVerify(dir, repo)
    BY <1>15 DEF Verified, CollectedVerified, Spawned, Nats
  <2> QED BY <1>15, <2>0, <2>1 DEF WorkflowLintVerify, WorkflowLintSource, Staged
<1>16. CASE kind = "prometheus-rules"
  <2>0. Scope = PrometheusRules.groups
    BY <1>16 DEF Scope, Nats
  <2>1. PrometheusRulesVerify(dir, repo)
    BY <1>16 DEF Verified, CollectedVerified, Spawned, Nats
  <2> QED BY <1>16, <2>0, <2>1 DEF PrometheusRulesVerify, PrometheusRulesSource, Staged
<1>17. CASE kind = "server-recovery"
  <2>0. Scope = ServerRecovery.groups
    BY <1>17 DEF Scope, Nats
  <2>1. ServerRecoveryVerify(dir, repo)
    BY <1>17 DEF Verified, CollectedVerified, Spawned, Nats
  <2> QED BY <1>17, <2>0, <2>1 DEF ServerRecoveryVerify, ServerRecoverySource, ServerRecoverySums, ChecksumsHold
<1> QED BY <1>1, <1>2, <1>3, <1>4, <1>5, <1>6, <1>7, <1>8, <1>9, <1>10, <1>11, <1>12, <1>13, <1>14, <1>15, <1>16, <1>17 DEF AllKinds, Spawned, Nats, Staged
\* The directory holds files of this run only, all of them whole; and the test of
\* the run is over.
Fresh == runner.pc > ClearedAt /\ (kind = "server-recovery" => runner.x.left # "none")
Past == runner.pc > TestedAt

TypesOK ==
    /\ kind \in AllKinds
    /\ DOMAIN repo = {"head", "src", "committed", "pinned", "go"}
    /\ repo.src = [g \in Groups |-> repo.src[g]]
    /\ runner \in [run : Nat, pc : 0..Len(Script), x : {runner.x}]
    /\ runner.pc > 0 => runner.run > 0
    /\ \A m \in DOMAIN tested :
          /\ DOMAIN tested[m] = {"x", "repo", "edited"}
          /\ tested[m].edited \in BOOLEAN
          /\ tested[m].repo.src = [g \in Groups |-> tested[m].repo.src[g]]
    /\ \A m, o \in manifest : m = o

\* What is there is of one run, and a report is never beside a file that was cut.
DirectoryOK ==
    /\ \A n \in DOMAIN dir : dir[n].run \in 1..runner.run
    /\ \A n, o \in DOMAIN dir : dir[n].run = dir[o].run
    /\ "report" \in DOMAIN dir => \A n \in DOMAIN dir \ {"report", "SHA256SUMS"} : ~dir[n].cut
    /\ kind \in Staged => "SHA256SUMS" \notin DOMAIN dir
    /\ kind \in Spawned => DOMAIN dir \subseteq Range(Generated)

\* A report that can be read tells how the test of its run ended.
ReportOK ==
    "report" \in DOMAIN dir /\ ~dir["report"].cut =>
        /\ dir["report"].run \in DOMAIN tested
        /\ dir["report"].status = "passed" => TestPassed(tested[dir["report"].run].x)
        /\ ~tested[dir["report"].run].edited =>
              dir["report"].source = Sources(tested[dir["report"].run].repo, Scope)

\* How far the script has got, and what it has made of the directory.
StageOK ==
    /\ runner.pc > 0 /\ ~(Fresh /\ Past) => \A n \in DOMAIN dir : dir[n].run < runner.run
    /\ Fresh => \A n \in DOMAIN dir : dir[n].run = runner.run /\ ~dir[n].cut
    /\ Fresh /\ runner.pc <= ReportedAt => "report" \notin DOMAIN dir
    /\ runner.pc > ReportedAt => Fresh
    /\ kind \in Spawned => \A i \in 1..5 : i < runner.pc /\ runner.pc <= 6 => Generated[i] \notin DOMAIN dir
    /\ kind \in Nats /\ runner.pc > 5 => "status" \in DOMAIN dir /\ dir["status"].says = runner.x.exit

\* The test of the run that is going on.
EndOK ==
    Past =>
        /\ runner.run \in DOMAIN tested
        /\ kind \notin Spawned => {"exit", "left"} \subseteq DOMAIN runner.x /\ runner.x.left \in Extents
        /\ runner.x.exit = "zero" => runner.x = tested[runner.run].x
        /\ ~tested[runner.run].edited => tested[runner.run].repo.src = repo.src

EvidenceInv == TypesOK /\ DirectoryOK /\ ReportOK /\ StageOK /\ EndOK

LEMMA SameKind ==
    ASSUME kind' = kind
    PROVE  /\ Script' = Script /\ Scope' = Scope
           /\ ClearedAt' = ClearedAt /\ TestedAt' = TestedAt /\ ReportedAt' = ReportedAt
<1>1. Script' = Script
  BY DEF Script
<1>2. Scope' = Scope
  BY DEF Scope
<1> QED BY <1>1, <1>2 DEF ClearedAt, TestedAt, ReportedAt

LEMMA StepPlaces ==
    ASSUME kind \in AllKinds
    PROVE  /\ ClearedAt \in 1..5 /\ TestedAt \in 1..6 /\ ReportedAt \in 2..12
           /\ ClearedAt < ReportedAt /\ TestedAt < ReportedAt
           /\ kind \in Spawned => /\ ClearedAt = 5 /\ TestedAt = 6 /\ ReportedAt = 10
                                  /\ kind \notin Nats \cup Staged /\ kind # "server-recovery"
           /\ kind \in Nats => ClearedAt = 1 /\ TestedAt = 2 /\ ReportedAt = 9 /\ kind # "server-recovery"
           /\ kind = "server-recovery" => ClearedAt = 1 /\ TestedAt = 1 /\ ReportedAt = 2
BY DEF AllKinds, Spawned, Nats, Staged, ClearedAt, TestedAt, ReportedAt

LEMMA StepIsOK ==
    ASSUME TypesOK, runner.pc > 0
    PROVE  /\ runner.pc \in 1..Len(Script) /\ Len(Script) \in Nat /\ Len(Script) > ReportedAt
           /\ StepOK(runner.pc, Script[runner.pc])
<1>1. Len(Script) \in Nat /\ Len(Script) > ReportedAt
  BY ScriptFits DEF Fits, TypesOK
<1>2. runner.pc \in 1..Len(Script)
  BY <1>1 DEF TypesOK
<1> QED BY <1>1, <1>2, StepFits DEF TypesOK

LEMMA GeneratedNames ==
    /\ Range(Generated) = {"out", "err", "status", "report", "SHA256SUMS"}
    /\ DOMAIN Generated = 1..5
    /\ \A name \in Range(Generated) : \E i \in 1..5 : Generated[i] = name
<1>1. /\ Generated[1] = "out" /\ Generated[2] = "err" /\ Generated[3] = "status"
      /\ Generated[4] = "report" /\ Generated[5] = "SHA256SUMS"
      /\ DOMAIN Generated = 1..5
  BY DEF Generated
<1>2. Range(Generated) = {Generated[i] : i \in 1..5}
  BY <1>1 DEF Range
<1> QED BY <1>1, <1>2

LEMMA EndsLeave ==
    ASSUME kind \in AllKinds, kind \notin Spawned, NEW x \in Ends
    PROVE  {"exit", "left"} \subseteq DOMAIN x /\ x.left \in Extents
<1>1. CASE kind \in Nats
  BY <1>1 DEF Ends, Nats, Staged, Spawned, NatsExecutions
<1>2. CASE kind \in Staged
  BY <1>2 DEF Ends, Nats, Staged, Spawned, StagedExecutions
<1>3. CASE kind = "postgres-recovery"
  BY <1>3 DEF Ends, Nats, Staged, Spawned, PostgresExecutions
<1>4. CASE kind = "redis-sentinel"
  BY <1>4 DEF Ends, Nats, Staged, Spawned, RedisExecutions
<1>5. CASE kind = "nginx-edge"
  BY <1>5 DEF Ends, Nats, Staged, Spawned, NginxExecutions
<1>6. CASE kind = "server-recovery"
  BY <1>6 DEF Ends, Nats, Staged, Spawned, DrillExecutions
<1> QED BY <1>1, <1>2, <1>3, <1>4, <1>5, <1>6 DEF AllKinds

LEMMA LeavingsAreOther ==
    ASSUME kind \in AllKinds, kind \notin Spawned \cup {"nginx-edge", "server-recovery"}, NEW x, x.left \in Extents
    PROVE  "report" \notin Leavings(x) /\ "SHA256SUMS" \notin Leavings(x) /\ "status" \notin Leavings(x)
<1>1. CASE kind = "nats-delivery"
  BY <1>1 DEF Leavings, Left, Extents, NatsDelivery
<1>2. CASE kind = "nats-restart"
  BY <1>2 DEF Leavings, Left, Extents, NatsRestart
<1>3. CASE kind = "nats-snapshot"
  BY <1>3 DEF Leavings, Left, Extents, NatsSnapshot
<1>4. CASE kind = "nats-cluster"
  BY <1>4 DEF Leavings, Left, Extents, NatsCluster
<1>5. CASE kind = "postgres-recovery"
  BY <1>5 DEF Leavings, Left, Extents, PostgresRecovery
<1>6. CASE kind = "redis-sentinel"
  <2>1. Range(RedisNodes) = {"log1", "log2"}
    <3>1. DOMAIN RedisNodes = 1..2 /\ RedisNodes[1] = "log1" /\ RedisNodes[2] = "log2"
      BY DEF RedisNodes
    <3> QED BY <3>1 DEF Range
  <2> QED BY <1>6, <2>1 DEF Leavings, RedisLeft, Extents
<1>7. CASE kind \in Staged
  BY <1>7 DEF Leavings, Staged
<1> QED BY <1>1, <1>2, <1>3, <1>4, <1>5, <1>6, <1>7 DEF AllKinds, Nats

LEMMA DrillLeaves ==
    ASSUME NEW x, x.left \in Extents, NEW run, NEW d, d = Drill(dir, run, x, repo)
    PROVE  IF x.left = "none"
           THEN d = dir
           ELSE "report" \notin DOMAIN d /\ \A n \in DOMAIN d : d[n].run = run /\ ~d[n].cut
<1>1. Range(Scenarios) = {"first", "second"}
  <2>1. DOMAIN Scenarios = 1..2 /\ Scenarios[1] = "first" /\ Scenarios[2] = "second"
    BY DEF Scenarios
  <2> QED BY <2>1 DEF Range
<1>2. PICK o : o = [n \in Range(Scenarios) |-> File(run, IF x.marks THEN "passed" ELSE "other")]
  OBVIOUS
<1>3. DOMAIN o = {"first", "second"} /\ \A n \in DOMAIN o : o[n].run = run /\ ~o[n].cut
  BY <1>1, <1>2 DEF File
<1>4. CASE x.left = "none"
  BY <1>4 DEF Drill
<1>5. CASE x.left = "some"
  <2>1. d = [n \in {"first"} |-> o[n]]
    BY <1>2, <1>5 DEF Drill
  <2> QED BY <1>3, <1>5, <2>1
<1>6. CASE x.left = "all"
  <2>1. d = Put(o, "summary", DrillSummary(o, run, x, repo))
    BY <1>2, <1>6 DEF Drill
  <2>2. PICK s : s = DrillSummary(o, run, x, repo)
    OBVIOUS
  <2>3. s.run = run /\ ~s.cut
    BY <2>2 DEF DrillSummary
  <2>4. d = [n \in DOMAIN o \cup {"summary"} |-> IF n = "summary" THEN s ELSE o[n]]
    BY <2>1, <2>2 DEF Put
  <2> QED BY <1>3, <1>6, <2>3, <2>4
<1> QED BY <1>4, <1>5, <1>6 DEF Extents

LEMMA SameReport ==
    ASSUME ReportOK, dir' = dir, tested' = tested, kind' = kind PROVE ReportOK'
BY SameKind DEF ReportOK, TestPassed

LEMMA SameFiles ==
    ASSUME DirectoryOK, TypesOK, dir' = dir, runner'.run = runner.run, kind' = kind PROVE DirectoryOK'
BY DEF DirectoryOK

LEMMA Stopped ==
    ASSUME EvidenceInv, kind' = kind, UNCHANGED <<repo, tested, manifest>>,
           runner' = [runner EXCEPT !.pc = 0], DirectoryOK', ReportOK'
    PROVE  EvidenceInv'
<1>1. runner' \in [run : Nat, pc : {0}, x : {runner'.x}] /\ runner'.run = runner.run /\ runner'.pc = 0
  BY DEF EvidenceInv, TypesOK
<1>2. Len(Script) \in Nat
  BY ScriptFits DEF Fits, EvidenceInv, TypesOK
<1>3. TypesOK'
  BY <1>1, <1>2, SameKind DEF EvidenceInv, TypesOK
<1>4. ~Fresh' /\ ~Past' /\ ReportedAt \in Nat /\ ReportedAt' = ReportedAt
  BY <1>1, StepPlaces, SameKind DEF EvidenceInv, TypesOK, Fresh, Past
<1>5. StageOK' /\ EndOK'
  BY <1>1, <1>4 DEF StageOK, EndOK
<1> QED BY <1>3, <1>5 DEF EvidenceInv

LEMMA PutFiles ==
    ASSUME NEW name, NEW c, EvidenceInv, runner.pc > 0, Fresh, kind' = kind, runner'.run = runner.run,
           dir' = Put(dir, name, c), c.run = runner.run,
           c.cut => name \in {"report", "SHA256SUMS"} \/ "report" \notin DOMAIN dir,
           kind \in Spawned => name \in Range(Generated),
           name = "SHA256SUMS" => kind \notin Staged
    PROVE  /\ DirectoryOK'
           /\ DOMAIN dir' = DOMAIN dir \cup {name} /\ dir'[name] = c
           /\ \A n \in DOMAIN dir : n # name => dir'[n] = dir[n]
           /\ \A n \in DOMAIN dir' : dir'[n].run = runner.run
<1>1. /\ DOMAIN dir' = DOMAIN dir \cup {name} /\ dir'[name] = c
      /\ \A n \in DOMAIN dir : n # name => dir'[n] = dir[n]
  BY DEF Put
<1>2. \A n \in DOMAIN dir : dir[n].run = runner.run /\ ~dir[n].cut
  BY DEF EvidenceInv, StageOK
<1>3. \A n \in DOMAIN dir' : dir'[n].run = runner.run
  BY <1>1, <1>2
<1>4. runner.run \in 1..runner'.run
  BY DEF EvidenceInv, TypesOK
<1>5. "report" \in DOMAIN dir' => \A n \in DOMAIN dir' \ {"report", "SHA256SUMS"} : ~dir'[n].cut
  BY <1>1, <1>2
<1>6. kind \in Staged => "SHA256SUMS" \notin DOMAIN dir'
  BY <1>1 DEF EvidenceInv, DirectoryOK
<1>7. kind \in Spawned => DOMAIN dir' \subseteq Range(Generated)
  BY <1>1 DEF EvidenceInv, DirectoryOK
<1>8. DirectoryOK'
  BY <1>3, <1>4, <1>5, <1>6, <1>7 DEF DirectoryOK
<1> QED BY <1>1, <1>3, <1>8

\* A file other than the report leaves the report as it is.
LEMMA OtherFile ==
    ASSUME ReportOK, kind' = kind, tested' = tested,
           "report" \in DOMAIN dir' => "report" \in DOMAIN dir /\ dir'["report"] = dir["report"]
    PROVE  ReportOK'
BY SameKind DEF ReportOK, TestPassed

LEMMA Fewer ==
    ASSUME NEW names, EvidenceInv, kind' = kind, tested' = tested, runner'.run = runner.run, dir' = Without(dir, names)
    PROVE  /\ DirectoryOK' /\ ReportOK'
           /\ DOMAIN dir' = DOMAIN dir \ names /\ \A n \in DOMAIN dir' : dir'[n] = dir[n]
<1>1. DOMAIN dir' = DOMAIN dir \ names /\ \A n \in DOMAIN dir' : n \in DOMAIN dir /\ dir'[n] = dir[n]
  BY DEF Without
<1>2. DirectoryOK'
  BY <1>1 DEF EvidenceInv, DirectoryOK
<1>3. ReportOK'
  BY <1>1, OtherFile DEF EvidenceInv
<1> QED BY <1>1, <1>2, <1>3

LEMMA Emptied ==
    ASSUME kind' = kind, DOMAIN dir' = {} PROVE DirectoryOK' /\ ReportOK'
BY DEF DirectoryOK, ReportOK

\* The script goes on to a later step and changes nothing, or only what the run
\* remembers of an end that was not a pass.
LEMMA WentOn ==
    ASSUME NEW p, NEW x, EvidenceInv, runner.pc > 0, kind' = kind, UNCHANGED <<repo, dir, tested, manifest>>,
           runner' = [runner EXCEPT !.pc = p, !.x = x], p \in 0..Len(Script),
           \/ p = 0 \/ p = runner.pc + 1
           \/ /\ p = runner.pc + 2 /\ p < ReportedAt /\ kind \notin Nats
              /\ runner.pc > ClearedAt /\ runner.pc > TestedAt,
           runner.pc # ClearedAt, runner.pc # TestedAt, runner.pc # ReportedAt, kind \notin Spawned,
           kind \in Nats => runner.pc # 5 /\ x = runner.x,
           x = runner.x \/ (kind # "server-recovery" /\ kind \notin Nats /\ {"exit", "left"} \subseteq DOMAIN x
                            /\ x.exit # "zero" /\ x.left \in Extents)
    PROVE  EvidenceInv'
<1>1. runner' \in [run : Nat, pc : {p}, x : {x}] /\ runner'.run = runner.run /\ runner'.pc = p /\ runner'.x = x
  BY DEF EvidenceInv, TypesOK
<1>2. TypesOK'
  BY <1>1, SameKind DEF EvidenceInv, TypesOK
<1>3. DirectoryOK' /\ ReportOK'
  BY <1>1, SameFiles, SameReport DEF EvidenceInv
<1>4. /\ kind \in AllKinds /\ runner.pc \in Nat /\ p \in Nat
      /\ ClearedAt \in Nat /\ TestedAt \in Nat /\ ReportedAt \in Nat
      /\ ClearedAt < ReportedAt /\ TestedAt < ReportedAt
  BY StepPlaces, ScriptFits DEF EvidenceInv, TypesOK, Fits
<1>5. p # 0 => (Fresh' <=> Fresh) /\ (Past' <=> Past) /\ (p > ReportedAt <=> runner.pc > ReportedAt)
  BY <1>1, <1>4, SameKind DEF Fresh, Past
<1>6. p = 0 => ~Fresh' /\ ~Past' /\ ~(p > ReportedAt)
  BY <1>1, <1>4, SameKind, StepPlaces DEF Fresh, Past
<1>7. StageOK'
  <2>1. runner'.pc > 0 /\ ~(Fresh' /\ Past') => \A n \in DOMAIN dir : dir[n].run < runner.run
    BY <1>1, <1>4, <1>5 DEF EvidenceInv, StageOK
  <2>2. Fresh' => \A n \in DOMAIN dir : dir[n].run = runner.run /\ ~dir[n].cut
    BY <1>5, <1>6 DEF EvidenceInv, StageOK
  <2>3. Fresh' /\ p <= ReportedAt => "report" \notin DOMAIN dir
    BY <1>4, <1>5, <1>6 DEF EvidenceInv, StageOK
  <2>4. p > ReportedAt => Fresh'
    BY <1>5, <1>6 DEF EvidenceInv, StageOK
  <2>5. kind \in Nats /\ p > 5 => "status" \in DOMAIN dir /\ dir["status"].says = x.exit
    <3> SUFFICES ASSUME kind \in Nats, p > 5 PROVE "status" \in DOMAIN dir /\ dir["status"].says = x.exit
      OBVIOUS
    <3>1. x = runner.x /\ runner.pc > 5
      BY <1>4, StepPlaces
    <3> QED BY <3>1 DEF EvidenceInv, StageOK
  <2> QED BY <1>1, <2>1, <2>2, <2>3, <2>4, <2>5, SameKind DEF StageOK
<1>8. EndOK'
  <2>1. CASE p = 0
    BY <1>6, <2>1 DEF EndOK
  <2>2. CASE p # 0 /\ x = runner.x
    BY <1>1, <1>5, <2>2 DEF EvidenceInv, EndOK
  <2>3. CASE p # 0 /\ x # runner.x
    BY <1>1, <1>5, <2>3 DEF EvidenceInv, EndOK
  <2> QED BY <2>1, <2>2, <2>3
<1> QED BY <1>2, <1>3, <1>7, <1>8 DEF EvidenceInv

\* The script writes files of its own, and goes on.
LEMMA WroteOn ==
    ASSUME NEW p, EvidenceInv, runner.pc > 0, Fresh, Past, kind' = kind, UNCHANGED <<repo, tested, manifest>>,
           runner' = [runner EXCEPT !.pc = p], p \in 0..Len(Script), p = 0 \/ p = runner.pc + 1,
           runner.pc # ReportedAt => ("report" \in DOMAIN dir' => "report" \in DOMAIN dir),
           runner.pc > ReportedAt \/ runner.pc <= ReportedAt,
           \A n \in DOMAIN dir' : dir'[n].run = runner.run /\ ~dir'[n].cut,
           kind \in Nats /\ p > 5 => "status" \in DOMAIN dir' /\ dir'["status"].says = runner.x.exit,
           DirectoryOK', ReportOK'
    PROVE  EvidenceInv'
<1>1. runner' \in [run : Nat, pc : {p}, x : {runner.x}] /\ runner'.run = runner.run /\ runner'.pc = p /\ runner'.x = runner.x
  BY DEF EvidenceInv, TypesOK
<1>2. TypesOK'
  BY <1>1, SameKind DEF EvidenceInv, TypesOK
<1>3. /\ kind \in AllKinds /\ runner.pc \in Nat /\ p \in Nat
      /\ ClearedAt \in Nat /\ TestedAt \in Nat /\ ReportedAt \in Nat
      /\ ClearedAt < ReportedAt /\ TestedAt < ReportedAt
      /\ kind \in Spawned => TestedAt = 6
  BY StepPlaces, ScriptFits DEF EvidenceInv, TypesOK, Fits
<1>4. p # 0 => Fresh' /\ Past'
  BY <1>1, <1>3, SameKind DEF Fresh, Past
<1>5. p = 0 => ~Fresh' /\ ~Past' /\ ~(p > ReportedAt)
  BY <1>1, <1>3, SameKind, StepPlaces DEF Fresh, Past
<1>6. StageOK'
  <2>1. p <= ReportedAt /\ p # 0 => "report" \notin DOMAIN dir'
    BY <1>3 DEF EvidenceInv, StageOK
  <2>2. kind \in Spawned => ~(p # 0 /\ p <= 6)
    BY <1>3 DEF Past
  <2>3. kind \in Spawned => \A i \in 1..5 : ~(i < p /\ p <= 6)
    BY <1>3, <2>2
  <2> QED BY <1>1, <1>3, <1>4, <1>5, <2>1, <2>3, SameKind DEF StageOK
<1>7. EndOK'
  BY <1>1, <1>4, <1>5 DEF EvidenceInv, EndOK
<1> QED BY <1>2, <1>6, <1>7 DEF EvidenceInv

\* The invariant holds at the start, and every action keeps it.
LEMMA EvidenceInit == ASSUME Init PROVE EvidenceInv
<1>1. kind \in AllKinds
  BY KindsAreKnown DEF Init
<1>2. Len(Script) \in Nat
  BY <1>1, ScriptFits DEF Fits
<1>3. PICK s : s = [g \in Groups |-> 1]
  OBVIOUS
<1>4. repo = [head |-> 1, src |-> s, committed |-> s, pinned |-> 1, go |-> 1]
  BY <1>3 DEF Init
<1>5. DOMAIN dir = {} /\ DOMAIN tested = {}
  <2>1. dir = <<>> /\ tested = <<>>
    BY DEF Init, Nothing
  <2> QED BY <2>1
<1>6. TypesOK
  <2>1. repo.src = [g \in Groups |-> repo.src[g]]
    BY <1>3, <1>4
  <2>2. runner \in [run : Nat, pc : 0..Len(Script), x : {runner.x}] /\ runner.pc = 0
    BY <1>2 DEF Init
  <2>3. manifest = {}
    BY DEF Init
  <2> QED BY <1>1, <1>4, <1>5, <2>1, <2>2, <2>3 DEF TypesOK
<1>7. ~Fresh /\ ~Past /\ runner.pc = 0 /\ ReportedAt \in Nat
  BY <1>1, StepPlaces DEF Init, Fresh, Past
<1>8. DirectoryOK /\ ReportOK
  BY <1>5 DEF DirectoryOK, ReportOK
<1>9. StageOK /\ EndOK
  BY <1>5, <1>7 DEF StageOK, EndOK
<1> QED BY <1>6, <1>8, <1>9 DEF EvidenceInv

LEMMA StartKeeps == ASSUME EvidenceInv, Start PROVE EvidenceInv'
<1>1. /\ runner' = [run |-> runner.run + 1, pc |-> 1, x |-> NoEnd] /\ runner.run \in Nat /\ kind \in AllKinds
      /\ kind' = kind /\ repo' = repo /\ dir' = dir /\ tested' = tested /\ manifest' = manifest
  BY DEF Start, EvidenceInv, TypesOK
<1>2. /\ Len(Script) \in Nat /\ Len(Script) > ReportedAt
      /\ ClearedAt \in 1..5 /\ TestedAt \in 1..6 /\ ReportedAt \in 2..12
  BY <1>1, ScriptFits, StepPlaces DEF Fits
<1>3. runner'.run = runner.run + 1 /\ runner'.pc = 1
  BY <1>1
<1>4. TypesOK'
  <2>1. runner' \in [run : Nat, pc : 0..Len(Script), x : {runner'.x}] /\ runner'.run > 0
    BY <1>1, <1>2
  <2> QED BY <1>1, <2>1, SameKind DEF EvidenceInv, TypesOK
<1>5. \A n \in DOMAIN dir : dir[n].run \in 1..runner.run
  BY DEF EvidenceInv, DirectoryOK
<1>6. DirectoryOK' /\ ReportOK'
  <2>1. \A n \in DOMAIN dir : dir[n].run \in 1..runner'.run
    BY <1>1, <1>3, <1>5
  <2> QED BY <1>1, <2>1, SameReport DEF EvidenceInv, DirectoryOK
<1>7. ~Fresh' /\ ~Past'
  BY <1>1, <1>2, <1>3, SameKind DEF Fresh, Past
<1>8. StageOK'
  <2>1. \A n \in DOMAIN dir : dir[n].run < runner'.run
    BY <1>1, <1>3, <1>5
  <2>2. \A i \in 1..5 : ~(i < 1)
    OBVIOUS
  <2> QED BY <1>1, <1>2, <1>3, <1>7, <2>1, <2>2, SameKind DEF StageOK
<1>9. EndOK'
  BY <1>7 DEF EndOK
<1> QED BY <1>4, <1>6, <1>8, <1>9 DEF EvidenceInv

\* What every step of a running script has in common.
LEMMA Running1 ==
    ASSUME EvidenceInv, runner.pc > 0
    PROVE  /\ kind \in AllKinds /\ runner.pc \in 1..Len(Script) /\ Len(Script) \in Nat /\ Len(Script) > ReportedAt
           /\ StepOK(runner.pc, Script[runner.pc])
           /\ ClearedAt \in 1..5 /\ TestedAt \in 1..6 /\ ReportedAt \in 2..12
           /\ ClearedAt < ReportedAt /\ TestedAt < ReportedAt
           /\ runner = [run |-> runner.run, pc |-> runner.pc, x |-> runner.x]
           /\ runner.run \in Nat /\ runner.run > 0
BY StepIsOK, StepPlaces DEF EvidenceInv, TypesOK

\* A step that goes on leaves the script one place further, or at its end.
LEMMA OnwardIs ==
    ASSUME EvidenceInv, runner.pc > 0, Continue
    PROVE  \E p \in 0..Len(Script) :
              /\ runner' = [runner EXCEPT !.pc = p] /\ runner' = [runner EXCEPT !.pc = p, !.x = runner.x]
              /\ p = 0 \/ p = runner.pc + 1
<1>1. PICK p : p = IF runner.pc = Len(Script) THEN 0 ELSE runner.pc + 1
  OBVIOUS
<1>2. p \in 0..Len(Script) /\ (p = 0 \/ p = runner.pc + 1)
  BY <1>1, Running1
<1>3. runner' = [runner EXCEPT !.pc = p]
  BY <1>1 DEF Continue
<1>4. runner = [run |-> runner.run, pc |-> runner.pc, x |-> runner.x]
  BY Running1
<1>5. [runner EXCEPT !.pc = p] = [runner EXCEPT !.pc = p, !.x = runner.x]
  BY <1>4
<1> QED BY <1>2, <1>3, <1>5

LEMMA PinKeeps == ASSUME EvidenceInv, Pin PROVE EvidenceInv'
<1>1. /\ runner.pc > 0 /\ Script[runner.pc].do = "pin"
      /\ kind' = kind /\ repo' = repo /\ dir' = dir /\ tested' = tested /\ manifest' = manifest
  BY DEF Pin, Running
<1>2. /\ runner.pc # ClearedAt /\ runner.pc # TestedAt /\ runner.pc # ReportedAt
      /\ kind \notin Spawned /\ kind \notin Nats
  BY <1>1, Running1 DEF StepOK
<1>3. CASE Continue
  <2>1. PICK p \in 0..Len(Script) : runner' = [runner EXCEPT !.pc = p, !.x = runner.x] /\ (p = 0 \/ p = runner.pc + 1)
    BY <1>1, <1>3, OnwardIs
  <2> QED BY <1>1, <1>2, <2>1, WentOn
<1>4. CASE End("unpinned")
  <2>1. runner' = [runner EXCEPT !.pc = 0]
    BY <1>4 DEF End
  <2>2. runner'.run = runner.run
    BY <1>1, <2>1, Running1
  <2> QED BY <1>1, <2>1, <2>2, Stopped, SameFiles, SameReport DEF EvidenceInv
<1> QED BY <1>3, <1>4 DEF Pin

LEMMA UnlinkKeeps == ASSUME EvidenceInv, Unlink PROVE EvidenceInv'
<1>1. /\ runner.pc > 0 /\ Script[runner.pc].do = "unlink"
      /\ kind' = kind /\ repo' = repo /\ tested' = tested /\ manifest' = manifest
      /\ dir' = Without(dir, {Script[runner.pc].name}) /\ Continue
  BY DEF Unlink, Running, Name
<1>2. /\ kind \in Spawned /\ kind \notin Nats \cup Staged /\ kind # "server-recovery" /\ kind \in AllKinds
      /\ ClearedAt = 5 /\ TestedAt = 6 /\ ReportedAt = 10
      /\ runner.pc \in 1..5 /\ Script[runner.pc].name = Generated[runner.pc]
      /\ runner.pc # Len(Script) /\ runner.pc + 1 \in 0..Len(Script)
  BY <1>1, Running1, StepPlaces DEF StepOK
<1>3. PICK p : p = runner.pc + 1
  OBVIOUS
<1>4. runner' = [runner EXCEPT !.pc = p] /\ runner'.run = runner.run /\ runner'.pc = p /\ runner'.x = runner.x
  BY <1>1, <1>2, <1>3, Running1 DEF Continue
<1>5. /\ DirectoryOK' /\ ReportOK'
      /\ DOMAIN dir' = DOMAIN dir \ {Generated[runner.pc]}
      /\ \A n \in DOMAIN dir' : dir'[n] = dir[n]
  BY <1>1, <1>2, <1>4, Fewer
<1>6. TypesOK'
  <2>1. runner' \in [run : Nat, pc : 0..Len(Script), x : {runner'.x}]
    BY <1>1, <1>2, <1>3, <1>4, Running1
  <2> QED BY <1>1, <1>4, <2>1, Running1, SameKind DEF EvidenceInv, TypesOK
<1>7. ~Fresh /\ ~Past /\ ~Past' /\ (Fresh' <=> p > 5) /\ p \in 2..6
  BY <1>1, <1>2, <1>3, <1>4, SameKind DEF Fresh, Past
<1>8. \A n \in DOMAIN dir' : dir'[n].run < runner.run
  BY <1>1, <1>5, <1>7 DEF EvidenceInv, StageOK
<1>9. \A i \in 1..5 : i < p => Generated[i] \notin DOMAIN dir'
  <2> SUFFICES ASSUME NEW i \in 1..5, i < p PROVE Generated[i] \notin DOMAIN dir'
    OBVIOUS
  <2>1. CASE i = runner.pc
    BY <1>5, <2>1
  <2>2. CASE i # runner.pc
    <3>1. i < runner.pc /\ runner.pc <= 6
      BY <1>2, <1>3, <2>2
    <3>2. Generated[i] \notin DOMAIN dir
      BY <1>2, <3>1 DEF EvidenceInv, StageOK
    <3> QED BY <1>5, <3>2
  <2> QED BY <2>1, <2>2
<1>10. Fresh' => DOMAIN dir' = {}
  <2>1. DOMAIN dir' \subseteq Range(Generated)
    BY <1>1, <1>2, <1>5 DEF DirectoryOK
  <2>2. p > 5 => \A i \in 1..5 : Generated[i] \notin DOMAIN dir'
    BY <1>7, <1>9
  <2> QED BY <1>7, <2>1, <2>2, GeneratedNames
<1>11. StageOK'
  <2>1. ~(p > ReportedAt') /\ p <= 6 /\ kind' \in Spawned /\ kind' \notin Nats
    BY <1>1, <1>2, <1>7, SameKind
  <2> QED BY <1>4, <1>7, <1>8, <1>9, <1>10, <2>1 DEF StageOK
<1>12. EndOK'
  BY <1>7 DEF EndOK
<1> QED BY <1>5, <1>6, <1>11, <1>12 DEF EvidenceInv

LEMMA WipeKeeps == ASSUME EvidenceInv, Wipe PROVE EvidenceInv'
<1>1. /\ runner.pc > 0 /\ Script[runner.pc].do = "wipe"
      /\ kind' = kind /\ repo' = repo /\ tested' = tested /\ manifest' = manifest
      /\ dir' = Nothing /\ Continue
  BY DEF Wipe, Running
<1>2. DOMAIN dir' = {}
  BY <1>1 DEF Nothing
<1>3. /\ kind \notin Spawned /\ kind \in AllKinds /\ runner.pc = ClearedAt
      /\ ClearedAt \in 1..5 /\ TestedAt \in 1..6 /\ ReportedAt \in 2..12 /\ ClearedAt < ReportedAt
      /\ kind \in Nats => ClearedAt = 1
      /\ runner.pc # TestedAt
  BY <1>1, Running1, StepPlaces DEF StepOK
<1>4. PICK p : p = runner.pc + 1
  OBVIOUS
<1>5. /\ runner' = [runner EXCEPT !.pc = p] /\ runner'.run = runner.run /\ runner'.pc = p /\ runner'.x = runner.x
      /\ p \in 1..Len(Script)
  BY <1>1, <1>3, <1>4, Running1 DEF Continue
<1>6. TypesOK'
  <2>1. runner' \in [run : Nat, pc : 0..Len(Script), x : {runner'.x}]
    BY <1>5, Running1, <1>1
  <2> QED BY <1>1, <1>5, <2>1, Running1, SameKind DEF EvidenceInv, TypesOK
<1>7. DirectoryOK' /\ ReportOK'
  BY <1>1, <1>2, Emptied
<1>8. (Past' <=> Past) /\ p <= ReportedAt
  BY <1>1, <1>3, <1>4, <1>5, SameKind DEF Past
<1>9. StageOK'
  BY <1>1, <1>2, <1>3, <1>4, <1>5, <1>8, SameKind DEF StageOK
<1>10. EndOK'
  BY <1>1, <1>5, <1>8 DEF EvidenceInv, EndOK
<1> QED BY <1>6, <1>7, <1>9, <1>10 DEF EvidenceInv

\* What the end of a test changes.
LEMMA Observed ==
    ASSUME EvidenceInv, runner.pc > 0, ~Past, NEW x, Observe(x), kind' = kind, repo' = repo
    PROVE  /\ runner' = [run |-> runner.run, pc |-> runner.pc + 1, x |-> x]
           /\ runner.run \in DOMAIN tested'
           /\ tested'[runner.run] = [x |-> x, repo |-> repo, edited |-> FALSE]
           /\ \A m \in DOMAIN tested' : m # runner.run => m \in DOMAIN tested /\ tested'[m] = tested[m]
           /\ \A n \in DOMAIN dir : /\ dir[n].run < runner.run /\ dir[n].run # runner.run
                                    /\ dir[n].run \in DOMAIN tested =>
                                          dir[n].run \in DOMAIN tested' /\ tested'[dir[n].run] = tested[dir[n].run]
<1>1. runner' = [run |-> runner.run, pc |-> runner.pc + 1, x |-> x]
  BY Running1 DEF Observe
<1>2. PICK e : e = [x |-> x, repo |-> repo, edited |-> FALSE]
  OBVIOUS
<1>3. PICK R : R = {dir[n].run : n \in DOMAIN dir}
  OBVIOUS
<1>4. PICK t : t = [m \in DOMAIN tested \ (DOMAIN tested \ R) |-> tested[m]]
  OBVIOUS
<1>5. tested' = [m \in DOMAIN t \cup {runner.run} |-> IF m = runner.run THEN e ELSE t[m]]
  BY <1>2, <1>3, <1>4 DEF Observe, Put, Without
<1>6. \A m \in DOMAIN t : m \in DOMAIN tested /\ t[m] = tested[m]
  BY <1>4
<1>7. \A n \in DOMAIN dir : dir[n].run < runner.run /\ dir[n].run # runner.run
  <2>1. \A n \in DOMAIN dir : dir[n].run < runner.run /\ dir[n].run \in 1..runner.run
    BY DEF EvidenceInv, StageOK, DirectoryOK
  <2> QED BY <2>1, Running1
<1>8. \A n \in DOMAIN dir : dir[n].run \in DOMAIN tested =>
         dir[n].run \in DOMAIN tested' /\ tested'[dir[n].run] = tested[dir[n].run]
  BY <1>3, <1>4, <1>5, <1>7
<1> QED BY <1>1, <1>2, <1>5, <1>6, <1>7, <1>8

LEMMA ObservedReport ==
    ASSUME EvidenceInv, runner.pc > 0, ~Past, NEW x, Observe(x), kind' = kind, repo' = repo,
           "report" \in DOMAIN dir' => "report" \in DOMAIN dir /\ dir'["report"] = dir["report"]
    PROVE  ReportOK'
<1>1. CASE "report" \notin DOMAIN dir' \/ dir'["report"].cut
  BY <1>1 DEF ReportOK
<1>2. CASE "report" \in DOMAIN dir' /\ ~dir'["report"].cut
  <2>1. "report" \in DOMAIN dir /\ dir'["report"] = dir["report"]
    BY <1>2
  <2>2. PICK m : m = dir["report"].run
    OBVIOUS
  <2>3. m \in DOMAIN tested
    BY <1>2, <2>1, <2>2 DEF EvidenceInv, ReportOK
  <2>4. m \in DOMAIN tested' /\ tested'[m] = tested[m]
    BY <2>1, <2>2, <2>3, Observed
  <2> QED BY <1>2, <2>1, <2>2, <2>4, SameKind DEF EvidenceInv, ReportOK, TestPassed
<1> QED BY <1>1, <1>2

\* The run and the tests after the end of a test.
LEMMA ObservedEnd ==
    ASSUME EvidenceInv, runner.pc > 0, runner.pc = TestedAt, NEW x \in Ends, Observe(x),
           kind' = kind, repo' = repo, manifest' = manifest
    PROVE  TypesOK' /\ EndOK' /\ Past' /\ runner'.run = runner.run /\ runner'.pc = runner.pc + 1 /\ runner'.x = x
<1>1. ~Past
  <2>1. runner.pc \in Nat /\ TestedAt \in Nat
    BY Running1
  <2> QED BY <2>1 DEF Past
<1>2. /\ runner' = [run |-> runner.run, pc |-> runner.pc + 1, x |-> x]
      /\ runner.run \in DOMAIN tested'
      /\ tested'[runner.run] = [x |-> x, repo |-> repo, edited |-> FALSE]
      /\ \A m \in DOMAIN tested' : m # runner.run => m \in DOMAIN tested /\ tested'[m] = tested[m]
  BY <1>1, Observed
<1>3. runner'.run = runner.run /\ runner'.pc = runner.pc + 1 /\ runner'.x = x
  BY <1>2
<1>4. TypesOK'
  <2>1. runner' \in [run : Nat, pc : 0..Len(Script), x : {runner'.x}]
    BY <1>2, <1>3, Running1
  <2>2. runner'.run > 0
    BY <1>3, Running1
  <2>3. \A m \in DOMAIN tested' :
          /\ DOMAIN tested'[m] = {"x", "repo", "edited"}
          /\ tested'[m].edited \in BOOLEAN
          /\ tested'[m].repo.src = [g \in Groups |-> tested'[m].repo.src[g]]
    <3> SUFFICES ASSUME NEW m \in DOMAIN tested'
                 PROVE  /\ DOMAIN tested'[m] = {"x", "repo", "edited"}
                        /\ tested'[m].edited \in BOOLEAN
                        /\ tested'[m].repo.src = [g \in Groups |-> tested'[m].repo.src[g]]
      OBVIOUS
    <3>1. CASE m = runner.run
      <4>1. tested'[m].repo = repo /\ tested'[m].edited = FALSE /\ DOMAIN tested'[m] = {"x", "repo", "edited"}
        BY <1>2, <3>1
      <4> QED BY <4>1 DEF EvidenceInv, TypesOK
    <3>2. CASE m # runner.run
      BY <1>2, <3>2 DEF EvidenceInv, TypesOK
    <3> QED BY <3>1, <3>2
  <2> QED BY <2>1, <2>2, <2>3, SameKind DEF EvidenceInv, TypesOK
<1>5. Past'
  <2>1. runner.pc + 1 > TestedAt
    BY Running1
  <2> QED BY <1>3, <2>1, SameKind DEF Past
<1>6. EndOK'
  <2>1. tested'[runner.run].x = x /\ tested'[runner.run].repo = repo
    BY <1>2
  <2>2. kind \notin Spawned => {"exit", "left"} \subseteq DOMAIN x /\ x.left \in Extents
    BY Running1, EndsLeave
  <2> QED BY <1>2, <1>3, <2>1, <2>2 DEF EndOK
<1> QED BY <1>3, <1>4, <1>5, <1>6

LEMMA TestKeeps == ASSUME EvidenceInv, Test PROVE EvidenceInv'
<1>1. PICK x \in Ends : Observe(x)
  BY DEF Test
<1>2. /\ runner.pc > 0 /\ Script[runner.pc].do = "test"
      /\ kind' = kind /\ repo' = repo /\ dir' = dir /\ manifest' = manifest
  BY DEF Test, Running
<1>3. /\ runner.pc = TestedAt /\ runner.pc # ClearedAt /\ kind # "server-recovery"
      /\ kind \in AllKinds
      /\ ClearedAt \in 1..5 /\ TestedAt \in 1..6 /\ ReportedAt \in 2..12 /\ TestedAt < ReportedAt
      /\ kind \in Spawned => TestedAt = 6
      /\ kind \in Nats => TestedAt = 2
      /\ runner.pc \in Nat
  BY <1>2, Running1, StepPlaces DEF StepOK
<1>4. TypesOK' /\ EndOK' /\ Past' /\ runner'.run = runner.run /\ runner'.pc = runner.pc + 1 /\ runner'.x = x
  BY <1>1, <1>2, <1>3, ObservedEnd
<1>5. ~Past
  BY <1>3 DEF Past
<1>6. DirectoryOK' /\ ReportOK'
  BY <1>1, <1>2, <1>4, <1>5, SameFiles, ObservedReport DEF EvidenceInv
<1>7. \A n \in DOMAIN dir : dir[n].run < runner.run /\ dir[n].run # runner.run
  BY <1>1, <1>2, <1>5, Observed
<1>8. Fresh' => DOMAIN dir = {}
  <2>1. Fresh' => Fresh
    BY <1>2, <1>3, <1>4, SameKind DEF Fresh
  <2> QED BY <1>7, <2>1 DEF EvidenceInv, StageOK
<1>9. StageOK'
  <2>1. ~(runner'.pc > ReportedAt)
    BY <1>3, <1>4
  <2>2. kind \in Spawned => ~(runner'.pc <= 6)
    BY <1>3, <1>4
  <2>3. kind \in Nats => ~(runner'.pc > 5)
    BY <1>3, <1>4
  <2> QED BY <1>2, <1>4, <1>7, <1>8, <2>1, <2>2, <2>3, SameKind DEF StageOK
<1> QED BY <1>4, <1>6, <1>9 DEF EvidenceInv

LEMMA DrillKeeps == ASSUME EvidenceInv, RunDrill PROVE EvidenceInv'
<1>1. PICK x \in Ends : Observe(x) /\ dir' = Drill(dir, runner.run, x, repo)
  BY DEF RunDrill
<1>2. /\ runner.pc > 0 /\ Script[runner.pc].do = "drill"
      /\ kind' = kind /\ repo' = repo /\ manifest' = manifest
  BY DEF RunDrill, Running
<1>3. /\ runner.pc = 1 /\ kind = "server-recovery" /\ kind \in AllKinds /\ kind \notin Spawned /\ kind \notin Nats
      /\ kind \notin Staged /\ ClearedAt = 1 /\ TestedAt = 1 /\ ReportedAt = 2
  <2>1. kind = "server-recovery" /\ kind \in AllKinds /\ runner.pc = TestedAt
    BY <1>2, Running1 DEF StepOK
  <2> QED BY <2>1, StepPlaces DEF Spawned, Nats, Staged
<1>4. TypesOK' /\ EndOK' /\ Past' /\ runner'.run = runner.run /\ runner'.pc = 2 /\ runner'.x = x
  BY <1>1, <1>2, <1>3, ObservedEnd
<1>5. ~Past /\ (Fresh' <=> x.left # "none")
  BY <1>2, <1>3, <1>4, SameKind DEF Past, Fresh
<1>6. IF x.left = "none"
      THEN dir' = dir
      ELSE "report" \notin DOMAIN dir' /\ \A n \in DOMAIN dir' : dir'[n].run = runner.run /\ ~dir'[n].cut
  BY <1>1, <1>3, EndsLeave, DrillLeaves
<1>7. ReportOK'
  BY <1>1, <1>2, <1>5, <1>6, ObservedReport
<1>8. DirectoryOK'
  <2>1. CASE x.left = "none"
    BY <1>2, <1>4, <1>6, <2>1, SameFiles DEF EvidenceInv
  <2>2. CASE x.left # "none"
    <3>1. runner.run \in 1..runner'.run
      BY <1>2, <1>4, Running1
    <3> QED BY <1>2, <1>3, <1>6, <2>2, <3>1 DEF DirectoryOK
  <2> QED BY <2>1, <2>2
<1>9. \A n \in DOMAIN dir : dir[n].run < runner.run /\ dir[n].run # runner.run
  BY <1>1, <1>2, <1>5, Observed
<1>10. StageOK'
  BY <1>2, <1>3, <1>4, <1>5, <1>6, <1>9, SameKind DEF StageOK
<1> QED BY <1>4, <1>7, <1>8, <1>10 DEF EvidenceInv

LEMMA WriteKeeps == ASSUME EvidenceInv, Write PROVE EvidenceInv'
<1>1. /\ runner.pc > 0 /\ Script[runner.pc].do = "write"
      /\ kind' = kind /\ repo' = repo /\ tested' = tested /\ manifest' = manifest /\ Continue
  BY DEF Write, Running
<1>2. PICK name, c : name = Script[runner.pc].name /\ c = File(runner.run, Content(runner.x, name))
  OBVIOUS
<1>3. dir' = Put(dir, name, c) /\ c.run = runner.run /\ ~c.cut /\ c.says = Content(runner.x, name)
  BY <1>2 DEF Write, Name, File
<1>4. /\ kind \in AllKinds /\ kind # "server-recovery" /\ runner.pc < ReportedAt /\ runner.pc \in Nat /\ ReportedAt \in Nat
      /\ runner.pc > ClearedAt /\ runner.pc > TestedAt
      /\ name \notin {"report", "SHA256SUMS"}
      /\ kind \in Spawned => name \in Outputs
      /\ kind \in Nats => (runner.pc = 5 <=> name = "status")
  BY <1>1, <1>2, Running1 DEF StepOK
<1>5. Fresh /\ Past
  BY <1>4 DEF Fresh, Past
<1>6. PICK p \in 0..Len(Script) : runner' = [runner EXCEPT !.pc = p] /\ (p = 0 \/ p = runner.pc + 1)
  BY <1>1, OnwardIs
<1>7. runner'.run = runner.run
  BY <1>1, <1>6, Running1
<1>8. kind \in Spawned => name \in Range(Generated)
  BY <1>4, GeneratedNames DEF Outputs
<1>9. /\ DirectoryOK'
      /\ DOMAIN dir' = DOMAIN dir \cup {name} /\ dir'[name] = c
      /\ \A n \in DOMAIN dir : n # name => dir'[n] = dir[n]
      /\ \A n \in DOMAIN dir' : dir'[n].run = runner.run
  BY <1>1, <1>3, <1>4, <1>5, <1>7, <1>8, PutFiles
<1>10. ReportOK'
  BY <1>1, <1>4, <1>9, OtherFile DEF EvidenceInv
<1>11. \A n \in DOMAIN dir' : ~dir'[n].cut
  BY <1>3, <1>5, <1>9 DEF EvidenceInv, StageOK
<1>12. kind \in Nats /\ p > 5 => "status" \in DOMAIN dir' /\ dir'["status"].says = runner.x.exit
  <2> SUFFICES ASSUME kind \in Nats, p > 5 PROVE "status" \in DOMAIN dir' /\ dir'["status"].says = runner.x.exit
    OBVIOUS
  <2>1. CASE runner.pc = 5
    <3>1. name = "status" /\ kind \notin Spawned
      BY <1>4, <2>1, StepPlaces
    <3>2. Content(runner.x, name) = NatsFile(runner.x, repo, name)
      BY DEF Content, Nats, Spawned
    <3>3. NatsFile(runner.x, repo, name) = runner.x.exit
      BY <3>1 DEF NatsFile
    <3> QED BY <1>3, <1>9, <3>1, <3>2, <3>3
  <2>2. CASE runner.pc # 5
    <3>1. runner.pc > 5 /\ name # "status"
      BY <1>4, <1>6, <2>2
    <3> QED BY <1>9, <3>1 DEF EvidenceInv, StageOK
  <2> QED BY <2>1, <2>2
<1>13. "report" \in DOMAIN dir' => "report" \in DOMAIN dir
  BY <1>4, <1>9
<1> QED BY <1>1, <1>4, <1>5, <1>6, <1>9, <1>10, <1>11, <1>12, <1>13, WroteOn

LEMMA CopyKeeps == ASSUME EvidenceInv, Copy PROVE EvidenceInv'
<1>1. /\ runner.pc > 0 /\ Script[runner.pc].do = "copy"
      /\ kind' = kind /\ repo' = repo /\ tested' = tested /\ manifest' = manifest /\ Continue
  BY DEF Copy, Running
<1>2. PICK names, d : names = Leavings(runner.x) /\ d = [n \in names |-> File(runner.run, Content(runner.x, n))]
  OBVIOUS
<1>3. dir' = [n \in DOMAIN dir \cup names |-> IF n \in names THEN d[n] ELSE dir[n]]
  BY <1>2 DEF Copy
<1>4. \A n \in names : d[n].run = runner.run /\ ~d[n].cut
  BY <1>2 DEF File
<1>5. /\ kind \in AllKinds /\ kind # "server-recovery" /\ runner.pc < ReportedAt /\ runner.pc \in Nat /\ ReportedAt \in Nat
      /\ runner.pc > ClearedAt /\ runner.pc > TestedAt /\ kind \notin Spawned \cup {"nginx-edge"}
      /\ kind \in Nats => runner.pc # 5
      /\ runner.run \in Nat /\ runner.run > 0
  BY <1>1, Running1 DEF StepOK
<1>6. Fresh /\ Past
  BY <1>5 DEF Fresh, Past
<1>7. "report" \notin names /\ "SHA256SUMS" \notin names /\ "status" \notin names
  <2>1. runner.x.left \in Extents
    BY <1>5, <1>6 DEF EvidenceInv, EndOK
  <2> QED BY <1>2, <1>5, <2>1, LeavingsAreOther
<1>8. PICK p \in 0..Len(Script) : runner' = [runner EXCEPT !.pc = p] /\ (p = 0 \/ p = runner.pc + 1)
  BY <1>1, OnwardIs
<1>9. runner'.run = runner.run
  BY <1>1, <1>8, Running1
<1>10. \A n \in DOMAIN dir' : dir'[n].run = runner.run /\ ~dir'[n].cut
  BY <1>3, <1>4, <1>6 DEF EvidenceInv, StageOK
<1>11. DirectoryOK'
  <2>1. runner.run \in 1..runner'.run
    BY <1>5, <1>9
  <2>2. kind \in Staged => "SHA256SUMS" \notin DOMAIN dir'
    BY <1>3, <1>7 DEF EvidenceInv, DirectoryOK
  <2> QED BY <1>1, <1>5, <1>10, <2>1, <2>2 DEF DirectoryOK
<1>12. "report" \in DOMAIN dir' => "report" \in DOMAIN dir /\ dir'["report"] = dir["report"]
  BY <1>3, <1>7
<1>13. ReportOK'
  BY <1>1, <1>12, OtherFile DEF EvidenceInv
<1>14. kind \in Nats /\ p > 5 => "status" \in DOMAIN dir' /\ dir'["status"].says = runner.x.exit
  <2> SUFFICES ASSUME kind \in Nats, p > 5 PROVE "status" \in DOMAIN dir' /\ dir'["status"].says = runner.x.exit
    OBVIOUS
  <2>1. runner.pc > 5
    BY <1>5, <1>8
  <2>2. "status" \in DOMAIN dir /\ dir["status"].says = runner.x.exit
    BY <2>1 DEF EvidenceInv, StageOK
  <2> QED BY <1>3, <1>7, <2>2
<1> QED BY <1>1, <1>5, <1>6, <1>8, <1>10, <1>11, <1>12, <1>13, <1>14, WroteOn

LEMMA SumsKeep == ASSUME EvidenceInv, WriteSums PROVE EvidenceInv'
<1>1. /\ runner.pc > 0 /\ Script[runner.pc].do = "sums"
      /\ kind' = kind /\ repo' = repo /\ tested' = tested /\ manifest' = manifest /\ Continue
  BY DEF WriteSums, Running
<1>2. PICK c : c = Checksums(dir, runner.run, DOMAIN dir \ {"SHA256SUMS"})
  OBVIOUS
<1>3. dir' = Put(dir, "SHA256SUMS", c) /\ c.run = runner.run /\ ~c.cut
  BY <1>2 DEF WriteSums, Checksums
<1>4. /\ runner.pc = ReportedAt + 1 /\ kind \notin Staged /\ runner.pc \in Nat /\ ReportedAt \in Nat
      /\ TestedAt \in Nat /\ TestedAt < ReportedAt /\ kind \in AllKinds
      /\ kind \in Nats => ReportedAt = 9
  BY <1>1, Running1, StepPlaces DEF StepOK
<1>5. Fresh /\ Past
  BY <1>4 DEF EvidenceInv, StageOK, Past
<1>6. PICK p \in 0..Len(Script) : runner' = [runner EXCEPT !.pc = p] /\ (p = 0 \/ p = runner.pc + 1)
  BY <1>1, OnwardIs
<1>7. runner'.run = runner.run
  BY <1>1, <1>6, Running1
<1>8. /\ DirectoryOK'
      /\ DOMAIN dir' = DOMAIN dir \cup {"SHA256SUMS"} /\ dir'["SHA256SUMS"] = c
      /\ \A n \in DOMAIN dir : n # "SHA256SUMS" => dir'[n] = dir[n]
      /\ \A n \in DOMAIN dir' : dir'[n].run = runner.run
  BY <1>1, <1>3, <1>4, <1>5, <1>7, GeneratedNames, PutFiles
<1>9. ReportOK'
  BY <1>1, <1>8, OtherFile DEF EvidenceInv
<1>10. \A n \in DOMAIN dir' : ~dir'[n].cut
  BY <1>3, <1>5, <1>8 DEF EvidenceInv, StageOK
<1>11. kind \in Nats => "status" \in DOMAIN dir' /\ dir'["status"].says = runner.x.exit
  BY <1>4, <1>8 DEF EvidenceInv, StageOK
<1> QED BY <1>1, <1>4, <1>5, <1>6, <1>8, <1>9, <1>10, <1>11, WroteOn

\* A report is made only of files of this run, by a run whose test is over; and it
\* tells of a pass only if that test passed.
LEMMA ReportIsOfRun ==
    ASSUME EvidenceInv, runner.pc > 0, runner.pc = ReportedAt, NEW r \in Build(dir, runner.run, runner.x)
    PROVE  /\ Fresh /\ Past
           /\ r.run = runner.run /\ r.cut = FALSE /\ {"run", "cut"} \subseteq DOMAIN r
           /\ r.run \in DOMAIN tested
           /\ r.status = "passed" => TestPassed(tested[r.run].x)
           /\ ~tested[r.run].edited => r.source = Sources(tested[r.run].repo, Scope)
<1>1. BuiltOK(r, runner.run, runner.x)
  BY Running1, BuildIsOK
<1>2. /\ kind \in AllKinds /\ runner.pc \in Nat /\ ClearedAt \in Nat /\ TestedAt \in Nat
      /\ ClearedAt < runner.pc /\ TestedAt < runner.pc
      /\ kind \in Nats => runner.pc = 9
  BY Running1, StepPlaces
<1>3. Past
  BY <1>2 DEF Past
<1>4. Fresh
  <2>1. CASE kind # "server-recovery"
    BY <1>2, <2>1 DEF Fresh
  <2>2. CASE kind = "server-recovery"
    <3>1. "summary" \in DOMAIN dir /\ dir["summary"].run = runner.run
      BY <1>1, <2>2 DEF BuiltOK
    <3>2. ~(dir["summary"].run < runner.run)
      BY <3>1, Running1
    <3> QED BY <3>1, <3>2 DEF EvidenceInv, StageOK
  <2> QED BY <2>1, <2>2
<1>5. runner.run \in DOMAIN tested /\ (runner.x.exit = "zero" => runner.x = tested[runner.run].x)
  BY <1>3 DEF EvidenceInv, EndOK
<1>6. r.status = "passed" => TestPassed(tested[runner.run].x)
  <2> SUFFICES ASSUME r.status = "passed" PROVE TestPassed(tested[runner.run].x)
    OBVIOUS
  <2>1. SawPass(runner.x)
    BY <1>1 DEF BuiltOK
  <2>2. CASE kind \in Nats
    <3>1. dir["status"].says = runner.x.exit /\ kind # "postgres-recovery"
      BY <1>2, <2>2 DEF EvidenceInv, StageOK, Nats
    <3>2. runner.x.exit = "zero"
      BY <2>1, <2>2, <3>1 DEF SawPass
    <3> QED BY <1>5, <3>1, <3>2 DEF TestPassed
  <2>3. CASE kind \notin Nats
    BY <1>5, <2>1, <2>3 DEF SawPass, TestPassed
  <2> QED BY <2>2, <2>3
<1>7. ~tested[runner.run].edited => r.source = Sources(tested[runner.run].repo, Scope)
  <2> SUFFICES ASSUME ~tested[runner.run].edited PROVE r.source = Sources(tested[runner.run].repo, Scope)
    OBVIOUS
  <2>1. tested[runner.run].repo.src = repo.src
    BY <1>3 DEF EvidenceInv, EndOK
  <2>2. r.source = Sources(repo, Scope)
    BY <1>1 DEF BuiltOK
  <2> QED BY <2>1, <2>2 DEF Sources
<1> QED BY <1>1, <1>3, <1>4, <1>5, <1>6, <1>7 DEF BuiltOK

LEMMA MakeReportKeeps == ASSUME EvidenceInv, MakeReport PROVE EvidenceInv'
<1>1. /\ runner.pc > 0 /\ Script[runner.pc].do = "report"
      /\ kind' = kind /\ repo' = repo /\ tested' = tested /\ manifest' = manifest
  BY DEF MakeReport, Running
<1>2. runner.pc = ReportedAt
  BY <1>1, Running1 DEF StepOK
<1>3. CASE Build(dir, runner.run, runner.x) = {}
  <2>1. runner' = [runner EXCEPT !.pc = 0] /\ dir' = dir
    BY <1>3 DEF MakeReport, End
  <2>2. runner'.run = runner.run
    BY <1>1, <2>1, Running1
  <2> QED BY <1>1, <2>1, <2>2, Stopped, SameFiles, SameReport DEF EvidenceInv
<1>4. CASE Build(dir, runner.run, runner.x) # {}
  <2>1. Continue
    BY <1>4 DEF MakeReport
  <2>2. PICK r \in Build(dir, runner.run, runner.x) : dir' = Put(dir, "report", r)
    BY <1>4 DEF MakeReport
  <2>3. /\ Fresh /\ Past
        /\ r.run = runner.run /\ r.cut = FALSE
        /\ r.run \in DOMAIN tested
        /\ r.status = "passed" => TestPassed(tested[r.run].x)
        /\ ~tested[r.run].edited => r.source = Sources(tested[r.run].repo, Scope)
    BY <1>1, <1>2, ReportIsOfRun
  <2>4. PICK p \in 0..Len(Script) : runner' = [runner EXCEPT !.pc = p] /\ (p = 0 \/ p = runner.pc + 1)
    BY <1>1, <2>1, OnwardIs
  <2>5. runner'.run = runner.run
    BY <1>1, <2>4, Running1
  <2>6. /\ DirectoryOK'
        /\ DOMAIN dir' = DOMAIN dir \cup {"report"} /\ dir'["report"] = r
        /\ \A n \in DOMAIN dir : n # "report" => dir'[n] = dir[n]
        /\ \A n \in DOMAIN dir' : dir'[n].run = runner.run
    BY <1>1, <2>2, <2>3, <2>5, GeneratedNames, PutFiles
  <2>7. ReportOK'
    BY <1>1, <2>3, <2>6, SameKind DEF ReportOK, TestPassed
  <2>8. \A n \in DOMAIN dir' : ~dir'[n].cut
    BY <2>3, <2>6 DEF EvidenceInv, StageOK
  <2>9. kind \in Nats => "status" \in DOMAIN dir' /\ dir'["status"].says = runner.x.exit
    <3>1. kind \in Nats => runner.pc > 5
      BY <1>2, <1>1, Running1, StepPlaces
    <3> QED BY <2>6, <3>1 DEF EvidenceInv, StageOK
  <2>10. runner.pc > ReportedAt \/ runner.pc <= ReportedAt
    BY <1>1, Running1
  <2> QED BY <1>1, <1>2, <2>3, <2>4, <2>6, <2>7, <2>8, <2>9, <2>10, WroteOn
<1> QED BY <1>3, <1>4

LEMMA CredentialKeeps == ASSUME EvidenceInv, WriteCredential \/ RemoveCredential PROVE EvidenceInv'
<1>1. /\ runner.pc > 0 /\ Script[runner.pc].do \in {"credential", "remove"}
      /\ kind' = kind /\ repo' = repo /\ dir' = dir /\ tested' = tested /\ manifest' = manifest /\ Continue
  BY DEF WriteCredential, RemoveCredential, Running
<1>2. /\ runner.pc # ClearedAt /\ runner.pc # TestedAt /\ runner.pc # ReportedAt
      /\ kind \notin Spawned /\ kind \notin Nats
  BY <1>1, Running1 DEF StepOK
<1>3. PICK p \in 0..Len(Script) : runner' = [runner EXCEPT !.pc = p, !.x = runner.x] /\ (p = 0 \/ p = runner.pc + 1)
  BY <1>1, OnwardIs
<1> QED BY <1>1, <1>2, <1>3, WentOn

LEMMA RefuseKeeps == ASSUME EvidenceInv, RefuseCredential PROVE EvidenceInv'
<1>1. /\ runner.pc > 0 /\ Script[runner.pc].do = "credential"
      /\ kind' = kind /\ repo' = repo /\ dir' = dir /\ tested' = tested /\ manifest' = manifest
      /\ runner' = [runner EXCEPT !.pc = @ + 2, !.x.exit = "nonzero", !.x.left = "some"]
  BY DEF RefuseCredential, Running
<1>2. /\ runner.pc > ClearedAt /\ runner.pc > TestedAt /\ runner.pc + 2 < ReportedAt
      /\ runner.pc # ClearedAt /\ runner.pc # TestedAt /\ runner.pc # ReportedAt
      /\ kind \notin Spawned /\ kind \notin Nats /\ kind # "server-recovery"
  BY <1>1, Running1 DEF StepOK
<1>3. Past
  BY <1>2 DEF Past
<1>4. {"exit", "left"} \subseteq DOMAIN runner.x
  BY <1>2, <1>3 DEF EvidenceInv, EndOK
<1>5. PICK x : x = [runner.x EXCEPT !.exit = "nonzero", !.left = "some"]
  OBVIOUS
<1>6. {"exit", "left"} \subseteq DOMAIN x /\ x.exit = "nonzero" /\ x.left = "some"
  BY <1>4, <1>5
<1>7. PICK p : p = runner.pc + 2
  OBVIOUS
<1>8. runner = [run |-> runner.run, pc |-> runner.pc, x |-> runner.x]
  BY <1>1, Running1
<1>9. runner' = [runner EXCEPT !.pc = p, !.x = x]
  BY <1>1, <1>5, <1>7, <1>8
<1>10. p \in 0..Len(Script) /\ p = runner.pc + 2 /\ p < ReportedAt
  BY <1>1, <1>2, <1>7, Running1
<1> QED BY <1>1, <1>2, <1>6, <1>9, <1>10, WentOn DEF Extents

LEMMA VerifyKeeps == ASSUME EvidenceInv, Verify PROVE EvidenceInv'
<1>1. /\ runner.pc > 0 /\ runner' = [runner EXCEPT !.pc = 0]
      /\ kind' = kind /\ repo' = repo /\ dir' = dir /\ tested' = tested /\ manifest' = manifest
  BY DEF Verify, Running, End
<1>2. runner'.run = runner.run
  BY <1>1, Running1
<1> QED BY <1>1, <1>2, Stopped, SameFiles, SameReport DEF EvidenceInv

\* A run that is stopped leaves at worst one file cut, and no report beside it.
LEMMA CrashKeeps == ASSUME EvidenceInv, Crash PROVE EvidenceInv'
<1>1. /\ runner.pc > 0 /\ runner' = [runner EXCEPT !.pc = 0]
      /\ kind' = kind /\ repo' = repo /\ tested' = tested /\ manifest' = manifest
  BY DEF Crash
<1>2. runner'.run = runner.run /\ runner.run \in 1..runner.run
  BY <1>1, Running1
<1>3. kind \in AllKinds /\ StepOK(runner.pc, Script[runner.pc])
  BY <1>1, Running1
<1>4. SUFFICES DirectoryOK' /\ ReportOK'
  BY <1>1, Stopped
<1>5. CASE dir' = dir
  BY <1>1, <1>2, <1>5, SameFiles, SameReport DEF EvidenceInv
<1>6. CASE Running("write") /\ dir' = Put(dir, Name, Cut(File(runner.run, Content(runner.x, Name))))
  <2>1. PICK name, c : name = Name /\ c = Cut(File(runner.run, Content(runner.x, name)))
    OBVIOUS
  <2>2. dir' = Put(dir, name, c) /\ c.run = runner.run
    BY <1>6, <2>1 DEF Cut, File
  <2>3. /\ kind # "server-recovery" /\ runner.pc < ReportedAt /\ runner.pc > ClearedAt
        /\ name \notin {"report", "SHA256SUMS"} /\ (kind \in Spawned => name \in Outputs)
    BY <1>3, <1>6, <2>1 DEF StepOK, Running, Name
  <2>4. Fresh /\ "report" \notin DOMAIN dir
    <3>1. Fresh
      BY <2>3 DEF Fresh
    <3>2. runner.pc <= ReportedAt
      BY <1>1, <2>3, Running1
    <3> QED BY <3>1, <3>2 DEF EvidenceInv, StageOK
  <2>5. kind \in Spawned => name \in Range(Generated)
    BY <2>3, GeneratedNames DEF Outputs
  <2>6. DirectoryOK' /\ DOMAIN dir' = DOMAIN dir \cup {name}
    BY <1>1, <1>2, <2>2, <2>3, <2>4, <2>5, PutFiles
  <2> QED BY <1>1, <2>3, <2>4, <2>6 DEF ReportOK
<1>7. CASE Running("report") /\ \E r \in Build(dir, runner.run, runner.x) : dir' = Put(dir, "report", Cut(r))
  <2>1. PICK r \in Build(dir, runner.run, runner.x) : dir' = Put(dir, "report", Cut(r))
    BY <1>7
  <2>2. runner.pc = ReportedAt
    BY <1>3, <1>7 DEF StepOK, Running
  <2>3. Fresh /\ r.run = runner.run /\ {"run", "cut"} \subseteq DOMAIN r
    BY <1>1, <2>2, ReportIsOfRun
  <2>4. PICK c : c = Cut(r)
    OBVIOUS
  <2>5. c.run = runner.run /\ c.cut = TRUE
    BY <2>3, <2>4 DEF Cut
  <2>6. DirectoryOK' /\ dir'["report"] = c
    BY <1>1, <1>2, <2>1, <2>3, <2>4, <2>5, GeneratedNames, PutFiles
  <2> QED BY <2>5, <2>6 DEF ReportOK
<1>8. CASE Running("sums") /\ dir' = Put(dir, "SHA256SUMS", Cut(Checksums(dir, runner.run, DOMAIN dir)))
  <2>1. PICK c : c = Cut(Checksums(dir, runner.run, DOMAIN dir))
    OBVIOUS
  <2>2. c.run = runner.run
    BY <2>1 DEF Cut, Checksums
  <2>3. runner.pc = ReportedAt + 1 /\ kind \notin Staged
    BY <1>3, <1>8 DEF StepOK, Running
  <2>4. Fresh
    <3>1. runner.pc > ReportedAt
      BY <1>1, <2>3, Running1
    <3> QED BY <3>1 DEF EvidenceInv, StageOK
  <2>5. /\ DirectoryOK'
        /\ DOMAIN dir' = DOMAIN dir \cup {"SHA256SUMS"}
        /\ \A n \in DOMAIN dir : n # "SHA256SUMS" => dir'[n] = dir[n]
    BY <1>1, <1>2, <1>8, <2>1, <2>2, <2>3, <2>4, GeneratedNames, PutFiles
  <2>6. ReportOK'
    BY <1>1, <2>5, OtherFile DEF EvidenceInv
  <2> QED BY <2>5, <2>6
<1>9. CASE Running("wipe") /\ \E n \in DOMAIN dir : dir' = Without(dir, {n})
  BY <1>1, <1>2, <1>9, Fewer
<1>10. CASE Running("drill") /\ dir' = [n \in {"first"} |-> File(runner.run, "other")]
  <2>1. PICK c : c = File(runner.run, "other")
    OBVIOUS
  <2>2. DOMAIN dir' = {"first"} /\ dir'["first"] = c
    BY <1>10, <2>1
  <2>3. c.run = runner.run /\ ~c.cut
    BY <2>1 DEF File
  <2>4. kind \notin Spawned
    <3>1. kind = "server-recovery"
      BY <1>3, <1>10 DEF StepOK, Running
    <3> QED BY <3>1 DEF Spawned
  <2>5. DirectoryOK' /\ ReportOK'
    BY <1>1, <1>2, <2>2, <2>3, <2>4 DEF DirectoryOK, ReportOK
  <2> QED BY <2>5
<1> QED BY <1>5, <1>6, <1>7, <1>8, <1>9, <1>10 DEF Crash

LEMMA EditedKeeps ==
    ASSUME EvidenceInv, EditedDuring, kind' = kind, dir' = dir, runner' = runner, manifest' = manifest,
           DOMAIN repo' = {"head", "src", "committed", "pinned", "go"},
           repo'.src = [g \in Groups |-> repo'.src[g]]
    PROVE  EvidenceInv'
<1>1. DOMAIN tested' = DOMAIN tested
  BY DEF EditedDuring
<1>2. ASSUME NEW m \in DOMAIN tested
      PROVE  /\ DOMAIN tested'[m] = {"x", "repo", "edited"}
             /\ tested'[m].x = tested[m].x /\ tested'[m].repo = tested[m].repo
             /\ tested'[m].edited \in BOOLEAN
             /\ tested[m].edited => tested'[m].edited
             /\ m = runner.run /\ runner.pc > 0 => tested'[m].edited
  <2>1. PICK e : e = tested[m]
    OBVIOUS
  <2>2. DOMAIN e = {"x", "repo", "edited"} /\ e.edited \in BOOLEAN
    BY <2>1 DEF EvidenceInv, TypesOK
  <2>3. tested'[m] = [e EXCEPT !.edited = @ \/ (m = runner.run /\ runner.pc > 0)]
    BY <2>1 DEF EditedDuring
  <2> QED BY <2>1, <2>2, <2>3
<1>3. TypesOK'
  BY <1>1, <1>2, SameKind DEF EvidenceInv, TypesOK
<1>4. DirectoryOK' /\ StageOK'
  BY SameKind DEF EvidenceInv, DirectoryOK, StageOK, Fresh, Past
<1>5. ReportOK'
  BY <1>1, <1>2, SameKind DEF EvidenceInv, ReportOK, TestPassed
<1>6. EndOK'
  <2>1. Past' <=> Past
    BY SameKind DEF Past
  <2>2. Past => runner.pc > 0
    BY StepPlaces DEF EvidenceInv, TypesOK, Past
  <2> QED BY <1>1, <1>2, <2>1, <2>2 DEF EvidenceInv, EndOK
<1> QED BY <1>3, <1>4, <1>5, <1>6 DEF EvidenceInv

LEMMA EditKeeps ==
    ASSUME EvidenceInv, (\E g \in Groups : EditSource(g)) \/ Commit \/ ChangeToolchain PROVE EvidenceInv'
<1>1. /\ EditedDuring /\ kind' = kind /\ dir' = dir /\ runner' = runner /\ manifest' = manifest
  BY DEF EditSource, Commit, ChangeToolchain
<1>2. DOMAIN repo = {"head", "src", "committed", "pinned", "go"} /\ repo.src = [g \in Groups |-> repo.src[g]]
  BY DEF EvidenceInv, TypesOK
<1>3. CASE \E g \in Groups : EditSource(g)
  <2>1. PICK g \in Groups : repo' = [repo EXCEPT !.src[g] = 2]
    BY <1>3 DEF EditSource
  <2>2. PICK s : s = [repo.src EXCEPT ![g] = 2]
    OBVIOUS
  <2>3. repo' = [repo EXCEPT !.src = s]
    BY <2>1, <2>2
  <2>4. s = [h \in Groups |-> s[h]]
    BY <1>2, <2>2
  <2>5. DOMAIN repo' = {"head", "src", "committed", "pinned", "go"} /\ repo'.src = s
    BY <1>2, <2>3
  <2> QED BY <1>1, <2>4, <2>5, EditedKeeps
<1>4. CASE Commit \/ ChangeToolchain
  <2>1. DOMAIN repo' = {"head", "src", "committed", "pinned", "go"} /\ repo'.src = repo.src
    BY <1>2, <1>4 DEF Commit, ChangeToolchain
  <2> QED BY <1>1, <1>2, <2>1, EditedKeeps
<1> QED BY <1>3, <1>4

LEMMA GenerateKeeps == ASSUME EvidenceInv, GenerateManifest PROVE EvidenceInv'
<1>1. /\ kind' = kind /\ repo' = repo /\ dir' = dir /\ runner' = runner /\ tested' = tested
      /\ \E ci \in BOOLEAN : manifest' = {Manifest(ci)}
  BY DEF GenerateManifest
<1>2. \A m, o \in manifest' : m = o
  BY <1>1
<1>3. TypesOK'
  BY <1>1, <1>2, SameKind DEF EvidenceInv, TypesOK
<1>4. DirectoryOK' /\ StageOK' /\ EndOK'
  BY <1>1, SameKind DEF EvidenceInv, DirectoryOK, StageOK, EndOK, Fresh, Past
<1> QED BY <1>1, <1>3, <1>4, SameReport DEF EvidenceInv

LEMMA EvidenceStep == ASSUME EvidenceInv, Next PROVE EvidenceInv'
BY StartKeeps, PinKeeps, UnlinkKeeps, WipeKeeps, TestKeeps, DrillKeeps, WriteKeeps, CopyKeeps, CredentialKeeps,
   RefuseKeeps, MakeReportKeeps, SumsKeep, VerifyKeeps, CrashKeeps, EditKeeps, GenerateKeeps DEF Next

LEMMA EvidenceStutter == ASSUME EvidenceInv, UNCHANGED vars PROVE EvidenceInv'
<1>1. /\ kind' = kind /\ repo' = repo /\ dir' = dir /\ runner' = runner /\ tested' = tested /\ manifest' = manifest
  BY DEF vars
<1>2. TypesOK'
  BY <1>1, SameKind DEF EvidenceInv, TypesOK
<1>3. DirectoryOK' /\ StageOK' /\ EndOK'
  BY <1>1, SameKind DEF EvidenceInv, DirectoryOK, StageOK, EndOK, Fresh, Past
<1> QED BY <1>1, <1>2, <1>3, SameReport DEF EvidenceInv

LEMMA EvidenceIsInductive == Spec => []EvidenceInv
<1>1. Init => EvidenceInv
  BY EvidenceInit
<1>2. EvidenceInv /\ [Next]_vars => EvidenceInv'
  BY EvidenceStep, EvidenceStutter
<1> QED BY <1>1, <1>2, PTL DEF Spec

LEMMA PassIsOneRun == ASSUME EvidenceInv PROVE AcceptedPassIsOneRun
<1> SUFFICES ASSUME Verified, SaysPassed
             PROVE  /\ \A n \in DOMAIN dir : dir[n].run = dir["report"].run /\ ~dir[n].cut
                    /\ dir["report"].run \in DOMAIN tested /\ TestPassed(tested[dir["report"].run].x)
  BY DEF AcceptedPassIsOneRun
<1>1. kind \notin Staged => ~dir["SHA256SUMS"].cut
  BY VerifiedIsOK DEF EvidenceInv, TypesOK
<1>2. \A n \in DOMAIN dir : dir[n].run = dir["report"].run
  BY DEF EvidenceInv, DirectoryOK, SaysPassed
<1>3. \A n \in DOMAIN dir : ~dir[n].cut
  BY <1>1 DEF EvidenceInv, DirectoryOK, SaysPassed
<1>4. dir["report"].run \in DOMAIN tested /\ TestPassed(tested[dir["report"].run].x)
  BY DEF EvidenceInv, ReportOK, SaysPassed
<1> QED BY <1>2, <1>3, <1>4

LEMMA CurrentPass == ASSUME EvidenceInv PROVE PassIsCurrent
<1> SUFFICES ASSUME Verified, SaysPassed, ~tested[dir["report"].run].edited
             PROVE  Sources(tested[dir["report"].run].repo, Scope) = Sources(repo, Scope)
  BY DEF PassIsCurrent
<1>1. dir["report"].source = Sources(repo, Scope)
  BY VerifiedIsOK DEF EvidenceInv, TypesOK
<1>2. dir["report"].source = Sources(tested[dir["report"].run].repo, Scope)
  BY DEF EvidenceInv, ReportOK, SaysPassed
<1> QED BY <1>1, <1>2

LEMMA RecoveryHappened == ASSUME EvidenceInv PROVE RecordedRecoveryHappened
<1> SUFFICES ASSUME kind = "postgres-recovery", ManifestVerified, \E m \in manifest : m.recorded
             PROVE  /\ TestPassed(tested[dir["report"].run].x)
                    /\ ~tested[dir["report"].run].edited => tested[dir["report"].run].repo.src = repo.src
  BY DEF RecordedRecoveryHappened
<1>1. PICK m \in manifest : m.recorded /\ VerifyPostgresBoundary(m) /\ (dir # Nothing => Verified)
  BY DEF ManifestVerified, EvidenceInv, TypesOK
<1>2. PostgresBoundary(TRUE)
  BY <1>1 DEF VerifyPostgresBoundary
<1>3. /\ Has(dir, PostgresRecovery.optional) /\ "report" \in DOMAIN dir
      /\ Says(dir, "status") = {"zero"} /\ Says(dir, "recoveryStatus") = {"zero"}
  BY <1>2 DEF PostgresBoundary, PostgresFiles, Has
<1>4. dir # Nothing
  <2>1. DOMAIN Nothing = {}
    BY DEF Nothing
  <2> QED BY <1>3, <2>1
<1>5. Verified /\ PostgresRecoveryVerify(dir, repo)
  BY <1>1, <1>4 DEF Verified, CollectedVerified, Spawned, Nats
<1>6. PICK r : r = dir["report"]
  OBVIOUS
<1>7. /\ ~r.cut /\ r.status = PostgresStatus(r.execution, Has(dir, PostgresRecovery.optional))
      /\ Says(dir, "status") = {r.execution.exit} /\ Says(dir, "recoveryStatus") = {r.execution.second}
  BY <1>5, <1>6 DEF PostgresRecoveryVerify, PostgresRecoveryReportHolds, ReportReadable, PostgresRecoveryEnvironment
<1>8. r.execution.exit = "zero" /\ r.execution.second = "zero"
  BY <1>3, <1>7
<1>9. SaysPassed
  BY <1>3, <1>6, <1>7, <1>8 DEF PostgresStatus, SaysPassed
<1>10. TestPassed(tested[dir["report"].run].x) /\ dir["report"].run \in DOMAIN tested
  BY <1>9 DEF EvidenceInv, ReportOK, SaysPassed
<1>11. ASSUME ~tested[dir["report"].run].edited PROVE tested[dir["report"].run].repo.src = repo.src
  <2>1. Sources(tested[dir["report"].run].repo, Groups) = Sources(repo, Groups)
    <3>1. Scope = Groups
      BY DEF Scope, Nats
    <3> QED BY <1>5, <1>9, <1>11, <3>1, CurrentPass DEF PassIsCurrent
  <2>2. tested[dir["report"].run].repo.src = [g \in Groups |-> tested[dir["report"].run].repo.src[g]]
    BY <1>10 DEF EvidenceInv, TypesOK
  <2>3. repo.src = [g \in Groups |-> repo.src[g]]
    BY DEF EvidenceInv, TypesOK
  <2> QED BY <2>1, <2>2, <2>3 DEF Sources
<1> QED BY <1>10, <1>11

\* A report of a pass that verifies stands among whole files of its own run, and
\* the test of that run passed, however often a script is run, stopped or started
\* again over what another run left (what the tasks of
\* scripts/*-evidence.mjs write and verify).
THEOREM OneRunTheorem == Spec => []AcceptedPassIsOneRun
<1>1. EvidenceInv => AcceptedPassIsOneRun
  BY PassIsOneRun
<1> QED BY <1>1, EvidenceIsInductive, PTL

\* A report of a pass that verifies is of the sources as they are, unless they were
\* edited while its test ran; and the test and the recovery that a verified
\* manifest records both passed in the run whose files are there, on the sources
\* as they are under the same condition (evidence-verify.mjs).
THEOREM CurrencyTheorem == Spec => []AcceptedEvidenceIsCurrent
<1>1. EvidenceInv => AcceptedEvidenceIsCurrent
  BY CurrentPass, RecoveryHappened DEF AcceptedEvidenceIsCurrent
<1> QED BY <1>1, EvidenceIsInductive, PTL

(***************************************************************************)
(* The contract gate.                                                      *)
(*                                                                         *)
(* The comparison of two documents is reflexive and transitive, so each    *)
(* released document compares with the last as it did with its neighbour;  *)
(* and what the comparison lets pass serves the clients of its base.       *)
(***************************************************************************)
Directions == {"request", "response"}

\* What a released document looks like.
SchemaOK(s) ==
    /\ DOMAIN s = {"required", "properties", "additional", "items"}
    /\ \A n \in DOMAIN s.properties : s.properties[n] \in Scalar
    /\ s.required \subseteq DOMAIN s.properties
    /\ s.additional \in BOOLEAN
    /\ s.items # Absent => s.items \in Scalar
ContentOK(c) == \A t \in DOMAIN c : SchemaOK(c[t])
ParameterOK(p) == p # Absent =>
    DOMAIN p = {"required", "style", "schema"} /\ p.required \in BOOLEAN /\ p.schema \in Scalar
BodyOK(b) == b # Absent => DOMAIN b = {"required", "content"} /\ b.required \in BOOLEAN /\ ContentOK(b.content)
ResponsesOK(r) == \A status \in DOMAIN r : ContentOK(r[status])
DocumentOK(d) ==
    /\ DOMAIN d = {"security", "parameter", "body", "responses"}
    /\ ParameterOK(d.parameter) /\ BodyOK(d.body) /\ ResponsesOK(d.responses)

\* The gate finds nothing between the two documents.
Compatible(base, cur) ==
    /\ ~SecurityWasTightened(base.security, cur.security)
    /\ ParameterCompatible(base.parameter, cur.parameter)
    /\ RequestBodyCompatible(base.body, cur.body)
    /\ ResponsesCompatible(base.responses, cur.responses)

DocumentsOK ==
    /\ Len(baselines) \in Nat /\ Len(baselines) > 0 /\ DOMAIN baselines = 1..Len(baselines)
    /\ \A i \in DOMAIN baselines : DocumentOK(baselines[i])

\* Every release is compatible with the last one, not only its neighbours.
ServedByLast == \A i \in DOMAIN baselines : Compatible(baselines[i], Last(baselines))
ContractInv ==
    /\ DOMAIN contract = {"document", "edits"} /\ DocumentOK(contract.document)
    /\ DocumentsOK
    /\ ServedByLast

LEMMA QuietGate ==
  ASSUME NEW a, NEW b
  PROVE  FindOpenAPIBreakingChanges(a, b) = {} <=> Compatible(a, b)
BY DEF FindOpenAPIBreakingChanges, Compatible

\* The comparison of scalars is an order, and sound in either direction.
LEMMA ScalarSame ==
  ASSUME NEW s \in Scalar, NEW way \in Directions
  PROVE  ScalarCompatible(s, s, way)
BY DEF ScalarCompatible, TypesCompatible, NullableCompatible, EnumCompatible, NumericCompatible, Scalar, Directions, Unbounded

LEMMA ScalarOnward ==
  ASSUME NEW a \in Scalar, NEW b \in Scalar, NEW c \in Scalar, NEW way \in Directions,
         ScalarCompatible(a, b, way), ScalarCompatible(b, c, way)
  PROVE  ScalarCompatible(a, c, way)
<1>1. TypesCompatible(a.types, c.types, way)
  BY DEF ScalarCompatible, TypesCompatible, Directions
<1>2. NullableCompatible(a.nullable, c.nullable, way)
  BY DEF ScalarCompatible, NullableCompatible, Directions
<1>3. EnumCompatible(a.enum, c.enum, way)
  BY DEF ScalarCompatible, EnumCompatible, Directions
<1>4. NumericCompatible(a, c, way)
  BY DEF ScalarCompatible, NumericCompatible, Directions, Scalar, Unbounded
<1> QED BY <1>1, <1>2, <1>3, <1>4 DEF ScalarCompatible

LEMMA ScalarSound ==
  ASSUME NEW a \in Scalar, NEW b \in Scalar, NEW v \in Scalars
  PROVE  /\ ScalarCompatible(a, b, "request") /\ Valid(a, v) => Valid(b, v)
         /\ ScalarCompatible(a, b, "response") /\ Valid(b, v) => Valid(a, v)
<1>0. /\ a.minLength \in Nat /\ a.maxLength \in Nat /\ b.minLength \in Nat /\ b.maxLength \in Nat
      /\ \A x \in DOMAIN LengthOf : LengthOf[x] \in Nat
  BY DEF Scalar, Unbounded, LengthOf
<1>1. ASSUME ScalarCompatible(a, b, "request"), Valid(a, v) PROVE Valid(b, v)
  <2>1. b.types = {} \/ TypeOf(v) \in b.types \/ (b.nullable /\ v = "null")
    BY <1>1 DEF ScalarCompatible, TypesCompatible, NullableCompatible, Valid
  <2>2. v \in b.enum
    BY <1>1 DEF ScalarCompatible, EnumCompatible, Valid
  <2>3. v \in DOMAIN LengthOf => LengthOf[v] \in b.minLength..b.maxLength
    BY <1>0, <1>1 DEF ScalarCompatible, NumericCompatible, Valid
  <2> QED BY <1>1, <2>1, <2>2, <2>3 DEF ScalarCompatible, Valid
<1>2. ASSUME ScalarCompatible(a, b, "response"), Valid(b, v) PROVE Valid(a, v)
  <2>1. a.types = {} \/ TypeOf(v) \in a.types \/ (a.nullable /\ v = "null")
    BY <1>2 DEF ScalarCompatible, TypesCompatible, NullableCompatible, Valid
  <2>2. v \in a.enum
    BY <1>2 DEF ScalarCompatible, EnumCompatible, Valid
  <2>3. v \in DOMAIN LengthOf => LengthOf[v] \in a.minLength..a.maxLength
    BY <1>0, <1>2 DEF ScalarCompatible, NumericCompatible, Valid
  <2> QED BY <1>2, <2>1, <2>2, <2>3 DEF ScalarCompatible, Valid
<1> QED BY <1>1, <1>2

\* So is that of schemas and of contents.
LEMMA SchemaSame ==
  ASSUME NEW s, SchemaOK(s), NEW way \in Directions
  PROVE  SchemaCompatible(s, s, way)
<1>1. PropertiesCompatible(s.properties, s.properties, way)
  BY ScalarSame DEF PropertiesCompatible, SchemaOK
<1>2. ItemsCompatible(s.items, s.items, way)
  BY ScalarSame DEF ItemsCompatible, SchemaOK
<1> QED BY <1>1, <1>2 DEF SchemaCompatible, RequiredCompatible, AdditionalCompatible

LEMMA SchemaOnward ==
  ASSUME NEW a, NEW b, NEW c, SchemaOK(a), SchemaOK(b), SchemaOK(c), NEW way \in Directions,
         SchemaCompatible(a, b, way), SchemaCompatible(b, c, way)
  PROVE  SchemaCompatible(a, c, way)
<1>1. RequiredCompatible(a.required, c.required, way)
  BY DEF SchemaCompatible, RequiredCompatible, Directions
<1>2. AdditionalCompatible(a.additional, c.additional, way)
  BY DEF SchemaCompatible, AdditionalCompatible, Directions
<1>3. PropertiesCompatible(a.properties, c.properties, way)
  <2> SUFFICES ASSUME NEW n \in DOMAIN a.properties
               PROVE  n \in DOMAIN c.properties /\ ScalarCompatible(a.properties[n], c.properties[n], way)
    BY DEF PropertiesCompatible
  <2>1. n \in DOMAIN b.properties /\ ScalarCompatible(a.properties[n], b.properties[n], way)
    BY DEF SchemaCompatible, PropertiesCompatible
  <2>2. n \in DOMAIN c.properties /\ ScalarCompatible(b.properties[n], c.properties[n], way)
    BY <2>1 DEF SchemaCompatible, PropertiesCompatible
  <2>3. a.properties[n] \in Scalar /\ b.properties[n] \in Scalar /\ c.properties[n] \in Scalar
    BY <2>1, <2>2 DEF SchemaOK
  <2> QED BY <2>1, <2>2, <2>3, ScalarOnward
<1>4. ItemsCompatible(a.items, c.items, way)
  <2>1. ItemsCompatible(a.items, b.items, way) /\ ItemsCompatible(b.items, c.items, way)
    BY DEF SchemaCompatible
  <2>2. /\ a.items # Absent => a.items \in Scalar
        /\ b.items # Absent => b.items \in Scalar
        /\ c.items # Absent => c.items \in Scalar
    BY DEF SchemaOK
  <2> PICK x, y, z : x = a.items /\ y = b.items /\ z = c.items
    OBVIOUS
  <2>3. ASSUME x # Absent, z # Absent PROVE ScalarCompatible(x, z, way)
    <3>1. y # Absent
      BY <2>1, <2>3 DEF ItemsCompatible, Directions
    <3> QED BY <2>1, <2>2, <2>3, <3>1, ScalarOnward DEF ItemsCompatible
  <2> QED BY <2>1, <2>3 DEF ItemsCompatible, Directions
<1> QED BY <1>1, <1>2, <1>3, <1>4 DEF SchemaCompatible

LEMMA ContentSame ==
  ASSUME NEW c, ContentOK(c), NEW way \in Directions
  PROVE  ContentCompatible(c, c, way)
BY SchemaSame DEF ContentCompatible, ContentOK

LEMMA ContentOnward ==
  ASSUME NEW a, NEW b, NEW c, ContentOK(a), ContentOK(b), ContentOK(c), NEW way \in Directions,
         ContentCompatible(a, b, way), ContentCompatible(b, c, way)
  PROVE  ContentCompatible(a, c, way)
<1>1. ASSUME NEW t \in DOMAIN a PROVE t \in DOMAIN c /\ SchemaCompatible(a[t], c[t], way)
  <2>1. t \in DOMAIN b /\ SchemaCompatible(a[t], b[t], way)
    BY DEF ContentCompatible
  <2>2. t \in DOMAIN c /\ SchemaCompatible(b[t], c[t], way)
    BY <2>1 DEF ContentCompatible
  <2>3. SchemaOK(a[t]) /\ SchemaOK(b[t]) /\ SchemaOK(c[t])
    BY <2>1, <2>2 DEF ContentOK
  <2> QED BY <2>1, <2>2, <2>3, SchemaOnward
<1>2. way = "response" => DOMAIN c \subseteq DOMAIN a
  BY DEF ContentCompatible
<1> QED BY <1>1, <1>2 DEF ContentCompatible

\* Whatever the gate lets pass, however often, it would let pass at once.
LEMMA CompatibleSame == ASSUME NEW d, DocumentOK(d) PROVE Compatible(d, d)
<1>1. ParameterCompatible(d.parameter, d.parameter)
  BY ScalarSame DEF ParameterCompatible, DocumentOK, ParameterOK, Directions
<1>2. RequestBodyCompatible(d.body, d.body)
  BY ContentSame DEF RequestBodyCompatible, DocumentOK, BodyOK, Directions
<1>3. ResponsesCompatible(d.responses, d.responses)
  BY ContentSame DEF ResponsesCompatible, DocumentOK, ResponsesOK, Directions
<1>4. ~SecurityWasTightened(d.security, d.security)
  BY DEF SecurityWasTightened, SecurityAlternativeAllows
<1> QED BY <1>1, <1>2, <1>3, <1>4 DEF Compatible

LEMMA CompatibleOnward ==
  ASSUME NEW a, NEW b, NEW c, DocumentOK(a), DocumentOK(b), DocumentOK(c), Compatible(a, b), Compatible(b, c)
  PROVE  Compatible(a, c)
<1>1. ~SecurityWasTightened(a.security, c.security)
  <2>1. ~SecurityWasTightened(a.security, b.security) /\ ~SecurityWasTightened(b.security, c.security)
    BY DEF Compatible
  <2> PICK x, y, z : x = a.security /\ y = b.security /\ z = c.security
    OBVIOUS
  <2>2. ASSUME z # {} PROVE x # {} /\ \A s \in x : \E u \in z : SecurityAlternativeAllows(s, u)
    <3>1. y # {} /\ \A s \in y : \E u \in z : u \subseteq s
      BY <2>1, <2>2 DEF SecurityWasTightened, SecurityAlternativeAllows
    <3>2. x # {} /\ \A s \in x : \E u \in y : u \subseteq s
      BY <2>1, <3>1 DEF SecurityWasTightened, SecurityAlternativeAllows
    <3>3. ASSUME NEW s \in x PROVE \E u \in z : u \subseteq s
      <4> PICK u \in y : u \subseteq s
        BY <3>2
      <4> PICK w \in z : w \subseteq u
        BY <3>1
      <4> QED OBVIOUS
    <3> QED BY <3>2, <3>3 DEF SecurityAlternativeAllows
  <2> QED BY <2>2 DEF SecurityWasTightened
<1>2. ParameterCompatible(a.parameter, c.parameter)
  <2> PICK x, y, z : x = a.parameter /\ y = b.parameter /\ z = c.parameter
    OBVIOUS
  <2>1. ParameterCompatible(x, y) /\ ParameterCompatible(y, z) /\ ParameterOK(x) /\ ParameterOK(y) /\ ParameterOK(z)
    BY DEF Compatible, DocumentOK
  <2>2. CASE x = Absent
    BY <2>1, <2>2 DEF ParameterCompatible
  <2>3. CASE x # Absent
    <3>1. y # Absent /\ z # Absent
      BY <2>1, <2>3 DEF ParameterCompatible
    <3>2. ScalarCompatible(x.schema, y.schema, "request") /\ ScalarCompatible(y.schema, z.schema, "request")
      BY <2>1, <2>3, <3>1 DEF ParameterCompatible
    <3>3. ScalarCompatible(x.schema, z.schema, "request")
      BY <2>1, <2>3, <3>1, <3>2, ScalarOnward DEF ParameterOK, Directions
    <3> QED BY <2>1, <2>3, <3>1, <3>3 DEF ParameterCompatible
  <2> QED BY <2>2, <2>3
<1>3. RequestBodyCompatible(a.body, c.body)
  <2> PICK x, y, z : x = a.body /\ y = b.body /\ z = c.body
    OBVIOUS
  <2>1. RequestBodyCompatible(x, y) /\ RequestBodyCompatible(y, z) /\ BodyOK(x) /\ BodyOK(y) /\ BodyOK(z)
    BY DEF Compatible, DocumentOK
  <2>2. CASE x = Absent
    BY <2>1, <2>2 DEF RequestBodyCompatible
  <2>3. CASE x # Absent
    <3>1. y # Absent /\ z # Absent
      BY <2>1, <2>3 DEF RequestBodyCompatible
    <3>2. ContentCompatible(x.content, y.content, "request") /\ ContentCompatible(y.content, z.content, "request")
      BY <2>1, <2>3, <3>1 DEF RequestBodyCompatible
    <3>3. ContentCompatible(x.content, z.content, "request")
      BY <2>1, <2>3, <3>1, <3>2, ContentOnward DEF BodyOK, Directions
    <3> QED BY <2>1, <2>3, <3>1, <3>3 DEF RequestBodyCompatible
  <2> QED BY <2>2, <2>3
<1>4. ResponsesCompatible(a.responses, c.responses)
  <2> PICK x, y, z : x = a.responses /\ y = b.responses /\ z = c.responses
    OBVIOUS
  <2>1. ResponsesCompatible(x, y) /\ ResponsesCompatible(y, z) /\ ResponsesOK(x) /\ ResponsesOK(y) /\ ResponsesOK(z)
    BY DEF Compatible, DocumentOK
  <2>2. ASSUME NEW s \in DOMAIN x PROVE s \in DOMAIN z /\ ContentCompatible(x[s], z[s], "response")
    <3>1. s \in DOMAIN y /\ s \in DOMAIN z
          /\ ContentCompatible(x[s], y[s], "response") /\ ContentCompatible(y[s], z[s], "response")
      BY <2>1, <2>2 DEF ResponsesCompatible
    <3>2. ContentOK(x[s]) /\ ContentOK(y[s]) /\ ContentOK(z[s])
      BY <2>1, <3>1 DEF ResponsesOK
    <3> QED BY <3>1, <3>2, ContentOnward DEF Directions
  <2> QED BY <2>2 DEF ResponsesCompatible
<1> QED BY <1>1, <1>2, <1>3, <1>4 DEF Compatible

\* What the gate lets pass serves whoever was written against the base.
LEMMA ObjectValues == ASSUME NEW o \in Objects, NEW n \in DOMAIN o PROVE o[n] \in Scalars
BY DEF Objects, Scalars

LEMMA SchemaServes ==
  ASSUME NEW a, NEW b, SchemaOK(a), SchemaOK(b), SchemaCompatible(a, b, "request")
  PROVE  AcceptsSchema(a, b)
<1>1. ASSUME NEW n \in DOMAIN a.properties
      PROVE  /\ n \in DOMAIN b.properties /\ a.properties[n] \in Scalar /\ b.properties[n] \in Scalar
             /\ ScalarCompatible(a.properties[n], b.properties[n], "request")
  BY DEF SchemaCompatible, PropertiesCompatible, SchemaOK
<1>2. ASSUME NEW o \in DeclaredObjects(a) PROVE o \in DeclaredObjects(b)
  <2>1. o \in Objects /\ DOMAIN o \subseteq DOMAIN a.properties /\ a.required \subseteq DOMAIN o
        /\ \A n \in DOMAIN o : Valid(a.properties[n], o[n])
    BY DEF DeclaredObjects, ValidObject
  <2>2. b.required \subseteq DOMAIN o /\ DOMAIN o \subseteq DOMAIN b.properties
    BY <1>1, <2>1 DEF SchemaCompatible, RequiredCompatible
  <2>3. ASSUME NEW n \in DOMAIN o PROVE Valid(b.properties[n], o[n])
    BY <1>1, <2>1, ObjectValues, ScalarSound
  <2> QED BY <2>1, <2>2, <2>3 DEF DeclaredObjects, ValidObject
<1>3. ASSUME NEW l \in Lists, ValidList(a, l) PROVE ValidList(b, l)
  <2> PICK x, y : x = a.items /\ y = b.items
    OBVIOUS
  <2>1. ItemsCompatible(x, y, "request") /\ (x # Absent => x \in Scalar) /\ (y # Absent => y \in Scalar)
    BY DEF SchemaCompatible, SchemaOK
  <2>2. ASSUME NEW i \in DOMAIN l PROVE l[i] \in Scalars
    BY DEF Lists, Scalars
  <2>3. CASE y = Absent
    BY <2>3 DEF ValidList
  <2>4. CASE y # Absent
    <3>1. x # Absent /\ ScalarCompatible(x, y, "request")
      BY <2>1, <2>4 DEF ItemsCompatible
    <3>2. \A i \in DOMAIN l : Valid(x, l[i])
      BY <1>3, <3>1 DEF ValidList
    <3>3. \A i \in DOMAIN l : Valid(y, l[i])
      BY <2>1, <2>2, <2>4, <3>1, <3>2, ScalarSound
    <3> QED BY <3>3 DEF ValidList
  <2> QED BY <2>3, <2>4
<1> QED BY <1>2, <1>3 DEF AcceptsSchema

LEMMA SchemaReads ==
  ASSUME NEW a, NEW b, SchemaOK(a), SchemaOK(b), SchemaCompatible(a, b, "response")
  PROVE  /\ \A o \in DeclaredObjects(b) : ValidObject(a, Declared(a, o))
         /\ \A l \in Lists : ValidList(b, l) => ValidList(a, l)
<1>1. ASSUME NEW n \in DOMAIN a.properties
      PROVE  /\ n \in DOMAIN b.properties /\ a.properties[n] \in Scalar /\ b.properties[n] \in Scalar
             /\ ScalarCompatible(a.properties[n], b.properties[n], "response")
  BY DEF SchemaCompatible, PropertiesCompatible, SchemaOK
<1>2. ASSUME NEW o \in DeclaredObjects(b) PROVE ValidObject(a, Declared(a, o))
  <2>1. o \in Objects /\ DOMAIN o \subseteq DOMAIN b.properties /\ b.required \subseteq DOMAIN o
        /\ \A n \in DOMAIN o : Valid(b.properties[n], o[n])
    BY DEF DeclaredObjects, ValidObject
  <2> PICK d : d = Declared(a, o)
    OBVIOUS
  <2>2. DOMAIN d = DOMAIN o \cap DOMAIN a.properties /\ \A n \in DOMAIN d : d[n] = o[n]
    BY DEF Declared
  <2>3. a.required \subseteq DOMAIN d
    BY <2>1, <2>2 DEF SchemaCompatible, RequiredCompatible, SchemaOK
  <2>4. ASSUME NEW n \in DOMAIN d PROVE n \in DOMAIN a.properties /\ Valid(a.properties[n], d[n])
    BY <1>1, <2>1, <2>2, ObjectValues, ScalarSound
  <2> QED BY <2>3, <2>4 DEF ValidObject
<1>3. ASSUME NEW l \in Lists, ValidList(b, l) PROVE ValidList(a, l)
  <2> PICK x, y : x = a.items /\ y = b.items
    OBVIOUS
  <2>1. ItemsCompatible(x, y, "response") /\ (x # Absent => x \in Scalar) /\ (y # Absent => y \in Scalar)
    BY DEF SchemaCompatible, SchemaOK
  <2>2. ASSUME NEW i \in DOMAIN l PROVE l[i] \in Scalars
    BY DEF Lists, Scalars
  <2>3. CASE x = Absent
    BY <2>3 DEF ValidList
  <2>4. CASE x # Absent
    <3>1. y # Absent /\ ScalarCompatible(x, y, "response")
      BY <2>1, <2>4 DEF ItemsCompatible
    <3>2. \A i \in DOMAIN l : Valid(y, l[i])
      BY <1>3, <3>1 DEF ValidList
    <3>3. \A i \in DOMAIN l : Valid(x, l[i])
      BY <2>1, <2>2, <2>4, <3>1, <3>2, ScalarSound
    <3> QED BY <3>3 DEF ValidList
  <2> QED BY <2>3, <2>4
<1> QED BY <1>2, <1>3

LEMMA CompatibleServes ==
  ASSUME NEW a, NEW b, DocumentOK(a), DocumentOK(b), Compatible(a, b)
  PROVE  /\ AcceptsCredentials(a.security, b.security)
         /\ AcceptsParameter(a.parameter, b.parameter)
         /\ AcceptsBody(a.body, b.body)
         /\ ReadsResponse(a.responses, b.responses)
<1>1. AcceptsCredentials(a.security, b.security)
  BY DEF Compatible, SecurityWasTightened, SecurityAlternativeAllows, AcceptsCredentials
<1>2. AcceptsParameter(a.parameter, b.parameter)
  <2> PICK x, y : x = a.parameter /\ y = b.parameter
    OBVIOUS
  <2>1. ParameterCompatible(x, y) /\ ParameterOK(x) /\ ParameterOK(y)
    BY DEF Compatible, DocumentOK
  <2>2. x = Absent \/ ~x.required => y = Absent \/ ~y.required
    BY <2>1 DEF ParameterCompatible
  <2>3. ASSUME x # Absent PROVE y # Absent /\ y.style = x.style
                                /\ \A v \in Scalars : Valid(x.schema, v) => Valid(y.schema, v)
    BY <2>1, <2>3, ScalarSound DEF ParameterCompatible, ParameterOK
  <2> QED BY <2>2, <2>3 DEF AcceptsParameter
<1>3. AcceptsBody(a.body, b.body)
  <2> PICK x, y : x = a.body /\ y = b.body
    OBVIOUS
  <2>1. RequestBodyCompatible(x, y) /\ BodyOK(x) /\ BodyOK(y)
    BY DEF Compatible, DocumentOK
  <2>2. x = Absent \/ ~x.required => y = Absent \/ ~y.required
    BY <2>1 DEF RequestBodyCompatible
  <2>3. ASSUME x # Absent PROVE y # Absent /\ ContentCompatible(x.content, y.content, "request")
                                /\ ContentOK(x.content) /\ ContentOK(y.content)
    BY <2>1, <2>3 DEF RequestBodyCompatible, BodyOK
  <2>4. ASSUME x # Absent, NEW t \in DOMAIN x.content
        PROVE  t \in DOMAIN y.content /\ AcceptsSchema(x.content[t], y.content[t])
    BY <2>3, <2>4, SchemaServes DEF ContentCompatible, ContentOK
  <2> QED BY <2>2, <2>3, <2>4 DEF AcceptsBody
<1>4. ReadsResponse(a.responses, b.responses)
  <2> PICK x, y : x = a.responses /\ y = b.responses
    OBVIOUS
  <2>1. ResponsesCompatible(x, y) /\ ResponsesOK(x) /\ ResponsesOK(y)
    BY DEF Compatible, DocumentOK
  <2> SUFFICES ASSUME NEW s \in DOMAIN x
      PROVE  /\ s \in DOMAIN y /\ DOMAIN y[s] = DOMAIN x[s]
             /\ \A t \in DOMAIN x[s] :
                   /\ \A o \in DeclaredObjects(y[s][t]) : ValidObject(x[s][t], Declared(x[s][t], o))
                   /\ \A l \in Lists : ValidList(y[s][t], l) => ValidList(x[s][t], l)
    BY DEF ReadsResponse
  <2>2. s \in DOMAIN y /\ ContentCompatible(x[s], y[s], "response") /\ ContentOK(x[s]) /\ ContentOK(y[s])
    BY <2>1 DEF ResponsesCompatible, ResponsesOK
  <2>3. DOMAIN y[s] = DOMAIN x[s]
    BY <2>2 DEF ContentCompatible
  <2>4. ASSUME NEW t \in DOMAIN x[s]
        PROVE  SchemaOK(x[s][t]) /\ SchemaOK(y[s][t]) /\ SchemaCompatible(x[s][t], y[s][t], "response")
    BY <2>2, <2>3 DEF ContentCompatible, ContentOK
  <2> QED BY <2>2, <2>3, <2>4, SchemaReads
<1> QED BY <1>1, <1>2, <1>3, <1>4

\* The first document and an edited one are well formed.
LEMMA DocumentBegins ==
    /\ DocumentOK(Document) /\ ParameterOK(Document.parameter) /\ BodyOK(Document.body)
    /\ SchemaOK(Document.body.content.json) /\ ContentOK(Document.responses.ok)
<1>1. AnyString \in Scalar
  BY DEF AnyString, Scalar, TypeSets, Enums, Formats, Scalars, Unbounded
<1> PICK s : s = Document.body.content.json
  OBVIOUS
<1> PICK r : r = Document.responses.ok.json
  OBVIOUS
<1>2. SchemaOK(s)
  <2>1. s = [required |-> {}, properties |-> [a |-> AnyString], additional |-> FALSE, items |-> Absent]
    BY DEF Document
  <2> QED BY <1>1, <2>1 DEF SchemaOK
<1>3. SchemaOK(r)
  <2>1. r = [required |-> {"a"}, properties |-> [a |-> AnyString], additional |-> FALSE, items |-> AnyString]
    BY DEF Document
  <2> QED BY <1>1, <2>1 DEF SchemaOK
<1>4. ContentOK(Document.responses.ok) /\ ContentOK(Document.body.content)
  <2>1. DOMAIN Document.responses.ok = {"json"} /\ DOMAIN Document.body.content = {"json"}
    BY DEF Document
  <2> QED BY <1>2, <1>3, <2>1 DEF ContentOK
<1>5. ParameterOK(Document.parameter)
  BY <1>1 DEF Document, ParameterOK
<1>6. BodyOK(Document.body)
  <2>1. DOMAIN Document.body = {"required", "content"} /\ Document.body.required = FALSE
    BY DEF Document
  <2> QED BY <1>4, <2>1 DEF BodyOK
<1>7. ResponsesOK(Document.responses)
  <2>1. DOMAIN Document.responses = {"ok"}
    BY DEF Document
  <2> QED BY <1>4, <2>1 DEF ResponsesOK
<1>8. DOMAIN Document = {"security", "parameter", "body", "responses"}
  BY DEF Document
<1> QED BY <1>2, <1>4, <1>5, <1>6, <1>7, <1>8 DEF DocumentOK

LEMMA SchemaEdited == ASSUME NEW s, SchemaOK(s), NEW e \in SchemaEdits(s) PROVE SchemaOK(e)
<1>0. AnyString \in Scalar /\ \A t : ScalarEdits(t) \subseteq Scalar
  BY DEF AnyString, Scalar, ScalarEdits, TypeSets, Enums, Formats, Scalars, Unbounded
<1>1. CASE \E r \in SUBSET DOMAIN s.properties : e = [s EXCEPT !.required = r]
  BY <1>1 DEF SchemaOK
<1>2. CASE \E p \in {[n \in DOMAIN s.properties \cup {"b"} |-> IF n = "b" THEN AnyString ELSE s.properties[n]],
                     [n \in DOMAIN s.properties \ {"b"} |-> s.properties[n]]} :
              e = [s EXCEPT !.properties = p, !.required = @ \cap DOMAIN p]
  <2> PICK p \in {[n \in DOMAIN s.properties \cup {"b"} |-> IF n = "b" THEN AnyString ELSE s.properties[n]],
                  [n \in DOMAIN s.properties \ {"b"} |-> s.properties[n]]} :
              e = [s EXCEPT !.properties = p, !.required = @ \cap DOMAIN p]
    BY <1>2
  <2>1. \A n \in DOMAIN p : p[n] \in Scalar
    BY <1>0 DEF SchemaOK
  <2>2. /\ DOMAIN e = DOMAIN s /\ e.properties = p /\ e.required = s.required \cap DOMAIN p
        /\ e.additional = s.additional /\ e.items = s.items
    BY DEF SchemaOK
  <2> QED BY <2>1, <2>2 DEF SchemaOK
<1>3. CASE \E n \in DOMAIN s.properties : \E t \in ScalarEdits(s.properties[n]) : e = [s EXCEPT !.properties[n] = t]
  <2> PICK n \in DOMAIN s.properties : \E t \in ScalarEdits(s.properties[n]) : e = [s EXCEPT !.properties[n] = t]
    BY <1>3
  <2> PICK t \in ScalarEdits(s.properties[n]) : e = [s EXCEPT !.properties[n] = t]
    OBVIOUS
  <2> PICK p : p = [s.properties EXCEPT ![n] = t]
    OBVIOUS
  <2>1. DOMAIN p = DOMAIN s.properties /\ \A m \in DOMAIN p : p[m] \in Scalar
    BY <1>0 DEF SchemaOK
  <2>2. /\ DOMAIN e = DOMAIN s /\ e.properties = p /\ e.required = s.required
        /\ e.additional = s.additional /\ e.items = s.items
    BY DEF SchemaOK
  <2> QED BY <2>1, <2>2 DEF SchemaOK
<1>4. CASE e = [s EXCEPT !.additional = ~s.additional]
  BY <1>4 DEF SchemaOK
<1>5. CASE \E t \in {Absent, AnyString} \cup (IF s.items = Absent THEN {} ELSE ScalarEdits(s.items)) : e = [s EXCEPT !.items = t]
  BY <1>0, <1>5 DEF SchemaOK
<1>6. ASSUME e \in UNION {{[s EXCEPT !.properties[n] = t] : t \in ScalarEdits(s.properties[n])} : n \in DOMAIN s.properties}
      PROVE  \E n \in DOMAIN s.properties : \E t \in ScalarEdits(s.properties[n]) : e = [s EXCEPT !.properties[n] = t]
  BY <1>6, Zenon
<1>7. \/ e \in {[s EXCEPT !.required = r] : r \in SUBSET DOMAIN s.properties}
      \/ e \in {[s EXCEPT !.properties = p, !.required = @ \cap DOMAIN p] :
            p \in {[n \in DOMAIN s.properties \cup {"b"} |-> IF n = "b" THEN AnyString ELSE s.properties[n]],
                   [n \in DOMAIN s.properties \ {"b"} |-> s.properties[n]]}}
      \/ e \in UNION {{[s EXCEPT !.properties[n] = t] : t \in ScalarEdits(s.properties[n])} : n \in DOMAIN s.properties}
      \/ e \in {[s EXCEPT !.additional = ~s.additional]}
      \/ e \in {[s EXCEPT !.items = t] : t \in {Absent, AnyString} \cup (IF s.items = Absent THEN {} ELSE ScalarEdits(s.items))}
  BY DEF SchemaEdits
<1>8. CASE e \in {[s EXCEPT !.properties = p, !.required = @ \cap DOMAIN p] :
            p \in {[n \in DOMAIN s.properties \cup {"b"} |-> IF n = "b" THEN AnyString ELSE s.properties[n]],
                   [n \in DOMAIN s.properties \ {"b"} |-> s.properties[n]]}}
  BY <1>2, <1>8, Zenon
<1>9. CASE e \in {[s EXCEPT !.required = r] : r \in SUBSET DOMAIN s.properties}
  BY <1>1, <1>9, Zenon
<1>10. CASE e \in {[s EXCEPT !.items = t] : t \in {Absent, AnyString} \cup (IF s.items = Absent THEN {} ELSE ScalarEdits(s.items))}
  BY <1>5, <1>10, Zenon
<1>11. CASE e \in {[s EXCEPT !.additional = ~s.additional]}
  BY <1>4, <1>11, Zenon
<1>12. CASE e \in UNION {{[s EXCEPT !.properties[n] = t] : t \in ScalarEdits(s.properties[n])} : n \in DOMAIN s.properties}
  BY <1>3, <1>6, <1>12, Zenon
<1> QED BY <1>7, <1>8, <1>9, <1>10, <1>11, <1>12, Zenon

LEMMA ContentEdited == ASSUME NEW c, ContentOK(c), NEW e \in ContentEdits(c) PROVE ContentOK(e)
<1>1. CASE \E t \in DOMAIN c : \E s \in SchemaEdits(c[t]) : e = [c EXCEPT ![t] = s]
  <2> PICK t \in DOMAIN c : \E s \in SchemaEdits(c[t]) : e = [c EXCEPT ![t] = s]
    BY <1>1
  <2> PICK s \in SchemaEdits(c[t]) : e = [c EXCEPT ![t] = s]
    OBVIOUS
  <2>1. SchemaOK(s)
    BY SchemaEdited DEF ContentOK
  <2> QED BY <2>1 DEF ContentOK
<1>2. CASE e = [t \in DOMAIN c \cup {"text"} |-> IF t = "text" THEN Document.body.content.json ELSE c[t]]
  BY <1>2, DocumentBegins DEF ContentOK
<1>3. CASE e = [t \in DOMAIN c \ {"text"} |-> c[t]]
  BY <1>3 DEF ContentOK
<1>4. CASE e \in UNION {{[c EXCEPT ![t] = s] : s \in SchemaEdits(c[t])} : t \in DOMAIN c}
  BY <1>1, <1>4, Zenon
<1>5. \/ e \in UNION {{[c EXCEPT ![t] = s] : s \in SchemaEdits(c[t])} : t \in DOMAIN c}
      \/ e = [t \in DOMAIN c \cup {"text"} |-> IF t = "text" THEN Document.body.content.json ELSE c[t]]
      \/ e = [t \in DOMAIN c \ {"text"} |-> c[t]]
  BY Zenon DEF ContentEdits
<1> QED BY <1>2, <1>3, <1>4, <1>5, Zenon

LEMMA ParameterEdited == ASSUME NEW p, ParameterOK(p), NEW e \in ParameterEdits(p) PROVE ParameterOK(e)
<1>1. Document.parameter # Absent => ParameterOK(Document.parameter)
  BY DocumentBegins
<1>2. CASE p = Absent
  BY <1>1, <1>2, DocumentBegins DEF ParameterEdits
<1>3. CASE p # Absent
  <2>1. \/ e = Absent
        \/ e = [p EXCEPT !.required = ~p.required]
        \/ \E x \in {"form", "simple"} : e = [p EXCEPT !.style = x]
        \/ \E s \in ScalarEdits(p.schema) : e = [p EXCEPT !.schema = s]
    BY <1>3 DEF ParameterEdits
  <2>2. \A s \in ScalarEdits(p.schema) : s \in Scalar
    BY DEF ScalarEdits
  <2> QED BY <1>3, <2>1, <2>2 DEF ParameterOK
<1> QED BY <1>2, <1>3

LEMMA BodyEdited == ASSUME NEW b, BodyOK(b), NEW e \in BodyEdits(b) PROVE BodyOK(e)
<1>1. CASE b = Absent
  BY <1>1, DocumentBegins DEF BodyEdits
<1>2. CASE b # Absent
  <2>1. \/ e = Absent
        \/ e = [b EXCEPT !.required = ~b.required]
        \/ \E c \in ContentEdits(b.content) : e = [b EXCEPT !.content = c]
    BY <1>2 DEF BodyEdits
  <2>2. \A c \in ContentEdits(b.content) : ContentOK(c)
    BY <1>2, ContentEdited DEF BodyOK
  <2> QED BY <1>2, <2>1, <2>2 DEF BodyOK
<1> QED BY <1>1, <1>2

LEMMA ResponsesEdited == ASSUME NEW r, ResponsesOK(r), NEW e \in ResponseEdits(r) PROVE ResponsesOK(e)
<1>1. CASE \E status \in DOMAIN r : \E c \in ContentEdits(r[status]) : e = [r EXCEPT ![status] = c]
  <2> PICK status \in DOMAIN r : \E c \in ContentEdits(r[status]) : e = [r EXCEPT ![status] = c]
    BY <1>1
  <2> PICK c \in ContentEdits(r[status]) : e = [r EXCEPT ![status] = c]
    OBVIOUS
  <2>1. ContentOK(c)
    BY ContentEdited DEF ResponsesOK
  <2> QED BY <2>1 DEF ResponsesOK
<1>2. CASE e = [status \in DOMAIN r \cup {"error"} |-> IF status = "error" THEN Document.responses.ok ELSE r[status]]
  BY <1>2, DocumentBegins DEF ResponsesOK
<1>3. CASE e = [status \in DOMAIN r \ {"error"} |-> r[status]]
  BY <1>3 DEF ResponsesOK
<1>4. CASE e \in UNION {{[r EXCEPT ![status] = c] : c \in ContentEdits(r[status])} : status \in DOMAIN r}
  BY <1>1, <1>4, Zenon
<1>5. \/ e \in UNION {{[r EXCEPT ![status] = c] : c \in ContentEdits(r[status])} : status \in DOMAIN r}
      \/ e = [status \in DOMAIN r \cup {"error"} |-> IF status = "error" THEN Document.responses.ok ELSE r[status]]
      \/ e = [status \in DOMAIN r \ {"error"} |-> r[status]]
  BY Zenon DEF ResponseEdits
<1> QED BY <1>2, <1>3, <1>4, <1>5, Zenon

LEMMA DocumentEdited == ASSUME NEW d, DocumentOK(d), NEW e \in DocumentEdits(d) PROVE DocumentOK(e)
<1>1. \/ \E x : e = [d EXCEPT !.security = x]
      \/ \E x \in ParameterEdits(d.parameter) : e = [d EXCEPT !.parameter = x]
      \/ \E x \in BodyEdits(d.body) : e = [d EXCEPT !.body = x]
      \/ \E x \in ResponseEdits(d.responses) : e = [d EXCEPT !.responses = x]
  BY Zenon DEF DocumentEdits
<1>2. /\ \A x \in ParameterEdits(d.parameter) : ParameterOK(x)
      /\ \A x \in BodyEdits(d.body) : BodyOK(x)
      /\ \A x \in ResponseEdits(d.responses) : ResponsesOK(x)
  BY ParameterEdited, BodyEdited, ResponsesEdited DEF DocumentOK
<1>3. CASE \E x : e = [d EXCEPT !.security = x]
  BY <1>3 DEF DocumentOK
<1>4. CASE \E x \in ParameterEdits(d.parameter) : e = [d EXCEPT !.parameter = x]
  BY <1>2, <1>4 DEF DocumentOK
<1>5. CASE \E x \in BodyEdits(d.body) : e = [d EXCEPT !.body = x]
  BY <1>2, <1>5 DEF DocumentOK
<1>6. CASE \E x \in ResponseEdits(d.responses) : e = [d EXCEPT !.responses = x]
  BY <1>2, <1>6 DEF DocumentOK
<1> QED BY <1>1, <1>3, <1>4, <1>5, <1>6

LEMMA EditDocumentKeeps == ASSUME ContractInv, EditDocument PROVE ContractInv'
<1> PICK d \in DocumentEdits(contract.document) : contract' = [document |-> d, edits |-> contract.edits + 1]
  BY DEF EditDocument
<1>1. DocumentOK(d) /\ baselines' = baselines
  BY DocumentEdited DEF ContractInv, EditDocument
<1>2. DocumentsOK' /\ ServedByLast'
  BY <1>1 DEF ContractInv, DocumentsOK, ServedByLast
<1> QED BY <1>1, <1>2 DEF ContractInv

LEMMA ReleaseDocumentKeeps == ASSUME ContractInv, ReleaseDocument PROVE ContractInv'
<1> PICK d : d = contract.document
  OBVIOUS
<1> PICK b : b = baselines
  OBVIOUS
<1> PICK n : n = Len(b)
  OBVIOUS
<1>1. /\ DOMAIN b = 1..n /\ n \in Nat /\ n > 0 /\ Last(b) = b[n]
      /\ DocumentOK(d) /\ (\A i \in 1..n : DocumentOK(b[i]))
      /\ \A i \in 1..n : Compatible(b[i], b[n])
  BY DEF ContractInv, DocumentsOK, ServedByLast, Last
<1>2. Compatible(b[n], d)
  BY <1>1, QuietGate DEF ReleaseDocument
<1>3. \A i \in 1..n : Compatible(b[i], d)
  BY <1>1, <1>2, CompatibleOnward
<1> PICK s : s = Append(b, d)
  OBVIOUS
<1>4. s = [i \in 1..(n + 1) |-> IF i = n + 1 THEN d ELSE b[i]]
  BY <1>1
<1>5. /\ DOMAIN s = 1..n + 1 /\ Len(s) = n + 1 /\ s[n + 1] = d /\ \A i \in 1..n : s[i] = b[i]
      /\ s = [i \in 1..n + 1 |-> s[i]]
  BY <1>1, <1>4
<1>6. baselines' = s /\ contract' = contract
  BY DEF ReleaseDocument
<1>7. ASSUME NEW i \in 1..n + 1 PROVE DocumentOK(s[i]) /\ Compatible(s[i], s[n + 1])
  BY <1>1, <1>3, <1>5, CompatibleSame
<1>8. DocumentsOK'
  BY <1>1, <1>5, <1>6, <1>7 DEF DocumentsOK
<1>9. ServedByLast'
  BY <1>1, <1>5, <1>6, <1>7 DEF ServedByLast, Last
<1> QED BY <1>6, <1>8, <1>9 DEF ContractInv

LEMMA ContractStarts == ContractInit => ContractInv
<1> SUFFICES ASSUME ContractInit PROVE ContractInv
  OBVIOUS
<1>1. DocumentOK(Document) /\ contract.document = Document /\ DOMAIN contract = {"document", "edits"}
  BY DocumentBegins DEF ContractInit
<1>2. baselines = <<Document>> /\ Len(baselines) = 1 /\ DOMAIN baselines = 1..1 /\ baselines[1] = Document
  BY DEF ContractInit
<1>3. DocumentsOK /\ ServedByLast
  BY <1>1, <1>2, CompatibleSame DEF DocumentsOK, ServedByLast, Last
<1> QED BY <1>1, <1>3 DEF ContractInv

LEMMA ContractServes == ASSUME ContractInv PROVE ReleasedContractsServeOldClients
<1> SUFFICES ASSUME NEW i \in DOMAIN baselines
             PROVE  /\ AcceptsCredentials(baselines[i].security, Last(baselines).security)
                    /\ AcceptsParameter(baselines[i].parameter, Last(baselines).parameter)
                    /\ AcceptsBody(baselines[i].body, Last(baselines).body)
                    /\ ReadsResponse(baselines[i].responses, Last(baselines).responses)
  BY DEF ReleasedContractsServeOldClients
<1>1. DocumentOK(baselines[i]) /\ DocumentOK(Last(baselines)) /\ Compatible(baselines[i], Last(baselines))
  BY DEF ContractInv, DocumentsOK, ServedByLast, Last
<1> QED BY <1>1, CompatibleServes

\* A client written against any released document is served by every later one,
\* for any number of edits and releases: the comparison of a document with its
\* baseline alone (findOpenAPIBreakingChanges) says enough about all before it.
THEOREM ContractTheorem == ContractSpec => []ReleasedContractsServeOldClients
<1>1. ContractInv /\ [ContractNext]_contractVars => ContractInv'
  <2> SUFFICES ASSUME ContractInv, [ContractNext]_contractVars PROVE ContractInv'
    OBVIOUS
  <2>1. CASE EditDocument
    BY <2>1, EditDocumentKeeps
  <2>2. CASE ReleaseDocument
    BY <2>2, ReleaseDocumentKeeps
  <2>3. CASE UNCHANGED contractVars
    <3>1. contract' = contract /\ baselines' = baselines
      BY <2>3 DEF contractVars
    <3> QED BY <3>1 DEF ContractInv, DocumentsOK, ServedByLast
  <2> QED BY <2>1, <2>2, <2>3 DEF ContractNext
<1>2. ContractInv => ReleasedContractsServeOldClients
  BY ContractServes
<1> QED BY <1>1, <1>2, ContractStarts, PTL DEF ContractSpec

=============================================================================
