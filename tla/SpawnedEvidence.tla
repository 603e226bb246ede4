-------------------------- MODULE SpawnedEvidence --------------------------
(***************************************************************************)
(* The evidence of six contracts whose runner starts the test itself:      *)
(* audit chain, authorization policy, OIDC browser sessions, SDK consumer, *)
(* SDK consumer matrix and SDK release.  Each has a build, which makes a   *)
(* report of the directory d after execution x in the repository w or      *)
(* refuses (the empty set), and a verification of a directory against a    *)
(* repository.  A runner is the list of the steps it takes.                *)
(***************************************************************************)
EXTENDS EvidenceFiles

Outputs == {"out", "err", "status"}
Generated == <<"out", "err", "status", "report", "SHA256SUMS">>

\* clearGeneratedArtifacts, the test, its three outputs, then the report.
SpawnRun ==
    Each("unlink", Generated) \o <<Do("test", "")>> \o Each("write", <<"out", "err", "status">>)
        \o <<Do("report", "report"), Do("sums", "SHA256SUMS"), Do("verify", "")>>

\* What the runner writes into each output.
SpawnedOutput(x, name) ==
    CASE name = "out" -> IF x.marks THEN "passed" ELSE "other"
      [] name = "err" -> IF x.quiet THEN "empty" ELSE "text"
      [] name = "status" -> x.exit

\* A report of the directory after execution x: the sources and the commit are
\* the ones that are there when it is made.
Report(d, run, x, w, source, go) ==
    [run |-> run, cut |-> FALSE, status |-> StatusOf(x), execution |-> x, commit |-> w.head,
     go |-> go, source |-> source, artifacts |-> Records(d, Outputs)]

\* Each of the three outputs is there with the recorded digest.
RecordsMatch(d, r) == DOMAIN r.artifacts = Outputs /\ Recorded(d, r.artifacts)

\* The installed Go release, if it is the pinned one, and the commit.
CurrentGo(w, r) == r.go = w.go /\ r.go = w.pinned /\ r.commit = w.head

\* The status file and, after a pass, the output agree with the execution.
OutputAgrees(d, x) == Says(d, "status") = {x.exit} /\ (x.exit = "zero" => Says(d, "out") = {"passed"})
QuietPass(d, x) == x.exit = "zero" => Says(d, "err") = {"empty"}

\* SHA256SUMS lists what is there, and nothing else is there.
DirectoryExact(d) == Exactly(d, Range(Generated)) /\ ChecksumsHold(d, Range(Generated) \ {"SHA256SUMS"})

\* The report can be read and its status is that of its execution.
Consistent(r) == ~r.cut /\ r.status = StatusOf(r.execution)

(***************************************************************************)
(* Audit chain                                                             *)
(***************************************************************************)
AuditChain == [groups |-> Groups, timeout |-> 120, budget |-> 120]
AuditChainRecords(d, r) == RecordsMatch(d, r)
AuditChainToolchain(w, r) == CurrentGo(w, r)
AuditChainSource(w) == Sources(w, AuditChain.groups)
AuditChainExecution(x) == Elapsed(x, AuditChain.timeout) <= AuditChain.budget
AuditChainOutput(d, x) == OutputAgrees(d, x)
AuditChainDirectory(d) == DirectoryExact(d)
AuditChainBuild(d, run, x, w) ==
    IF AuditChainExecution(x) /\ AuditChainOutput(d, x)
    THEN {Report(d, run, x, w, AuditChainSource(w), w.go)}
    ELSE {}

\* Fault: believes a report whatever became of the files it describes.
AuditChainTrusted(d, w) ==
    "report" \in DOMAIN d /\ Consistent(d["report"]) /\ d["report"].source = AuditChainSource(w)

\* Fault: does not compare the sources with the ones in the report.
AuditChainUnbound(d, w) ==
    /\ AuditChainDirectory(d)
    /\ Consistent(d["report"])
    /\ AuditChainRecords(d, d["report"])
    /\ AuditChainOutput(d, d["report"].execution)

AuditChainVerify(d, w) ==
    /\ AuditChainDirectory(d)
    /\ LET r == d["report"]
       IN  /\ Consistent(r)
           /\ AuditChainExecution(r.execution)
           /\ AuditChainToolchain(w, r)
           /\ r.source = AuditChainSource(w)
           /\ AuditChainRecords(d, r)
           /\ AuditChainOutput(d, r.execution)
AuditChainRun == SpawnRun

(***************************************************************************)
(* Authorization policy                                                    *)
(***************************************************************************)
Authorization == [groups |-> Groups \ {"docs"}, timeout |-> 90, budget |-> 90]
AuthorizationRecords(d, r) == RecordsMatch(d, r)
AuthorizationToolchain(w, r) == CurrentGo(w, r)
AuthorizationSource(w) == Sources(w, Authorization.groups)
AuthorizationExecution(x) == Elapsed(x, Authorization.timeout) <= Authorization.budget
AuthorizationOutput(d, x) == OutputAgrees(d, x)
AuthorizationDirectory(d) == DirectoryExact(d)
AuthorizationBuild(d, run, x, w) ==
    IF AuthorizationExecution(x) /\ AuthorizationOutput(d, x)
    THEN {Report(d, run, x, w, AuthorizationSource(w), w.go)}
    ELSE {}
AuthorizationVerify(d, w) ==
    /\ AuthorizationDirectory(d)
    /\ LET r == d["report"]
       IN  /\ Consistent(r)
           /\ AuthorizationExecution(r.execution)
           /\ AuthorizationToolchain(w, r)
           /\ r.source = AuthorizationSource(w)
           /\ AuthorizationRecords(d, r)
           /\ AuthorizationOutput(d, r.execution)
AuthorizationRun == SpawnRun

(***************************************************************************)
(* OIDC browser sessions                                                   *)
(***************************************************************************)
OIDCBrowser == [groups |-> Groups \ {"docs"}, timeout |-> 90, budget |-> 90]
OIDCBrowserRecords(d, r) == RecordsMatch(d, r)
OIDCBrowserToolchain(w, r) == CurrentGo(w, r)
OIDCBrowserSource(w) == Sources(w, OIDCBrowser.groups)
OIDCBrowserExecution(x) == Elapsed(x, OIDCBrowser.timeout) <= OIDCBrowser.budget
OIDCBrowserOutput(d, x) == OutputAgrees(d, x)
OIDCBrowserDirectory(d) == DirectoryExact(d)
OIDCBrowserBuild(d, run, x, w) ==
    IF OIDCBrowserExecution(x) /\ OIDCBrowserOutput(d, x)
    THEN {Report(d, run, x, w, OIDCBrowserSource(w), w.go)}
    ELSE {}
OIDCBrowserVerify(d, w) ==
    /\ OIDCBrowserDirectory(d)
    /\ LET r == d["report"]
       IN  /\ Consistent(r)
           /\ OIDCBrowserExecution(r.execution)
           /\ OIDCBrowserToolchain(w, r)
           /\ r.source = OIDCBrowserSource(w)
           /\ OIDCBrowserRecords(d, r)
           /\ OIDCBrowserOutput(d, r.execution)
OIDCBrowserRun == SpawnRun

(***************************************************************************)
(* SDK consumer.  The budget is longer than the process timeout, and only  *)
(* the verifier asks for an empty standard error.                          *)
(***************************************************************************)
SDKConsumer == [groups |-> Groups, timeout |-> 120, budget |-> 150]
SDKConsumerRecords(d, r) == RecordsMatch(d, r)
SDKConsumerToolchain(w, r) == CurrentGo(w, r)
SDKConsumerSource(w) == Sources(w, SDKConsumer.groups)
SDKConsumerExecution(x) == Elapsed(x, SDKConsumer.timeout) <= SDKConsumer.budget
SDKConsumerOutput(d, x) == OutputAgrees(d, x) /\ QuietPass(d, x)
SDKConsumerDirectory(d) == DirectoryExact(d)
SDKConsumerBuild(d, run, x, w) ==
    IF SDKConsumerExecution(x) /\ OutputAgrees(d, x)
    THEN {Report(d, run, x, w, SDKConsumerSource(w), w.go)}
    ELSE {}
SDKConsumerVerify(d, w) ==
    /\ SDKConsumerDirectory(d)
    /\ LET r == d["report"]
       IN  /\ Consistent(r)
           /\ SDKConsumerExecution(r.execution)
           /\ SDKConsumerToolchain(w, r)
           /\ r.source = SDKConsumerSource(w)
           /\ SDKConsumerRecords(d, r)
           /\ SDKConsumerOutput(d, r.execution)
SDKConsumerRun == SpawnRun

(***************************************************************************)
(* SDK consumer matrix.  The test is a Node script and the report names no *)
(* Go release; the build repeats the script's own check of the repository, *)
(* that the matrix names the versions of the generated SDKs.               *)
(***************************************************************************)
SDKConsumerMatrix == [groups |-> Groups \ {"tests"}, timeout |-> 30, budget |-> 60]
ReadSDKConsumerMatrix(w) == w.src["docs"]
VerifySDKConsumerMatrix(w) == ReadSDKConsumerMatrix(w) = w.src["program"]
SDKConsumerMatrixRecords(d, r) == RecordsMatch(d, r)
SDKConsumerMatrixToolchain(w, r) == r.commit = w.head
SDKConsumerMatrixSource(w) == Sources(w, SDKConsumerMatrix.groups)
SDKConsumerMatrixExecution(x) == Elapsed(x, SDKConsumerMatrix.timeout) <= SDKConsumerMatrix.budget
SDKConsumerMatrixOutput(d, x) == OutputAgrees(d, x) /\ QuietPass(d, x)
SDKConsumerMatrixDirectory(d) == DirectoryExact(d)
SDKConsumerMatrixBuild(d, run, x, w) ==
    IF SDKConsumerMatrixExecution(x) /\ SDKConsumerMatrixOutput(d, x) /\ VerifySDKConsumerMatrix(w)
    THEN {Report(d, run, x, w, SDKConsumerMatrixSource(w), 0)}
    ELSE {}
SDKConsumerMatrixVerify(d, w) ==
    /\ SDKConsumerMatrixDirectory(d)
    /\ LET r == d["report"]
       IN  /\ Consistent(r)
           /\ SDKConsumerMatrixExecution(r.execution)
           /\ SDKConsumerMatrixToolchain(w, r)
           /\ r.source = SDKConsumerMatrixSource(w)
           /\ SDKConsumerMatrixRecords(d, r)
           /\ SDKConsumerMatrixOutput(d, r.execution)
SDKConsumerMatrixRun == SpawnRun

(***************************************************************************)
(* SDK release.  A passing report needs release manifests that a rebuild   *)
(* from the sources reproduces, when it is made and when it is verified.   *)
(***************************************************************************)
SDKRelease == [groups |-> Groups, timeout |-> 120, budget |-> 150]
ProjectSummaries(w, status) == status = "passed" => w.src["docs"] = w.src["program"]
SDKReleaseRecords(d, r) == RecordsMatch(d, r)
SDKReleaseToolchain(w, r) == CurrentGo(w, r)
SDKReleaseSource(w) == Sources(w, SDKRelease.groups)
SDKReleaseExecution(x) == Elapsed(x, SDKRelease.timeout) <= SDKRelease.budget
SDKReleaseOutput(d, x) == OutputAgrees(d, x) /\ QuietPass(d, x)
SDKReleaseDirectory(d) == DirectoryExact(d)
SDKReleaseBuild(d, run, x, w) ==
    IF SDKReleaseExecution(x) /\ SDKReleaseOutput(d, x) /\ ProjectSummaries(w, StatusOf(x))
    THEN {Report(d, run, x, w, SDKReleaseSource(w), w.go)}
    ELSE {}
SDKReleaseVerify(d, w) ==
    /\ SDKReleaseDirectory(d)
    /\ LET r == d["report"]
       IN  /\ Consistent(r)
           /\ SDKReleaseExecution(r.execution)
           /\ SDKReleaseToolchain(w, r)
           /\ r.source = SDKReleaseSource(w)
           /\ SDKReleaseRecords(d, r)
           /\ SDKReleaseOutput(d, r.execution)
           /\ ProjectSummaries(w, r.status)
SDKReleaseRun == SpawnRun
=============================================================================
