------------------------- MODULE CollectedEvidence -------------------------
(***************************************************************************)
(* The evidence of eleven contracts that a container, a child process or   *)
(* the workflow produces.  The NATS, PostgreSQL, Redis, Nginx and server   *)
(* recovery verifiers also accept the evidence of a failed run; the        *)
(* Kubernetes, workflow and Prometheus verifiers accept a pass only.       *)
(*                                                                         *)
(* left tells how far a run got: which of its optional files, containers   *)
(* or stages it left behind ("none", "some", "all").  holds: the inner     *)
(* report and the logs satisfy the contract.  late: the run took longer    *)
(* than the verifier allows.                                               *)
(***************************************************************************)
EXTENDS EvidenceFiles

Extents == {"none", "some", "all"}
Left(contract, x) ==
    CASE x.left = "all" -> contract.optional
      [] x.left = "some" -> contract.optional \ {"inner"}
      [] x.left = "none" -> {}

\* The base files are recorded, and the optional ones exactly if they are there.
RecordsOptional(d, r, base, optional) ==
    /\ DOMAIN r.artifacts = base \cup (optional \cap DOMAIN d)
    /\ Recorded(d, r.artifacts)
SumsOptional(d, base, optional) == ChecksumsHold(d, base \cup {"report"} \cup (optional \cap DOMAIN d))
ReportReadable(d) == "report" \in DOMAIN d /\ ~d["report"].cut

(***************************************************************************)
(* NATS.  The workflow runs the Go contract once, writes the five base     *)
(* files and copies the optional ones that the test made; the script then  *)
(* reports on the directory as it finds it.                                *)
(***************************************************************************)
NatsBase == {"environment", "output", "status", "server", "serverHash"}
NatsExecutions ==
    {x \in [exit : {"zero", "nonzero"}, marks : BOOLEAN, left : Extents, holds : BOOLEAN, late : BOOLEAN] :
        x.holds => x.left = "all"}
NatsFile(x, w, name) ==
    CASE name = "environment" -> [commit |-> w.head, go |-> w.go, late |-> x.late]
      [] name = "output" -> IF x.marks THEN "passed" ELSE "other"
      [] name = "status" -> x.exit
      [] name \in {"server", "serverHash"} -> "binary"
      [] OTHER -> x.holds
\* The workflow's part happens in a fresh checkout.
NatsRun ==
    <<Do("wipe", ""), Do("test", "")>>
        \o Each("write", <<"environment", "output", "status", "server", "serverHash">>)
        \o <<Do("copy", ""), Do("report", "report"), Do("sums", "SHA256SUMS"), Do("verify", "")>>

NatsParsed(d) == \A n \in NatsBase : Says(d, n) # {}
NatsReport(d, run, contract, source) ==
    LET environment == d["environment"].says
        complete == Has(d, contract.optional)
    IN  [run |-> run, cut |-> FALSE, commit |-> environment.commit, go |-> environment.go,
         late |-> environment.late, exit |-> d["status"].says, marks |-> Says(d, "output") = {"passed"},
         status |-> IF d["status"].says = "zero" /\ complete THEN "passed" ELSE "failed",
         source |-> source, artifacts |-> Records(d, NatsBase \cup contract.optional)]
\* The runtime, the sources and the execution of the report.
NatsReportHolds(d, w, source) ==
    /\ ReportReadable(d)
    /\ d["report"].go = w.pinned
    /\ d["report"].source = source
    /\ ~d["report"].late
NatsEnvironment(d, r) ==
    /\ Says(d, "environment") = {[commit |-> r.commit, go |-> r.go, late |-> r.late]}
    /\ Says(d, "status") = {r.exit}
    /\ r.marks = (Says(d, "output") = {"passed"})
    /\ Says(d, "server") = Says(d, "serverHash")
NatsArtifacts(d, contract) == \A n \in contract.optional : Says(d, n) = {TRUE}
NatsFilesHold(d, contract) ==
    LET r == d["report"]
        complete == Has(d, contract.optional)
    IN  /\ r.status = IF r.exit = "zero" /\ complete THEN "passed" ELSE "failed"
        /\ r.status = "passed" => r.marks

NatsDelivery == [groups |-> Groups, optional |-> {"log", "inner"}]
NatsDeliveryRecords(d, r) == RecordsOptional(d, r, NatsBase, NatsDelivery.optional)
NatsDeliverySource(w) == Sources(w, NatsDelivery.groups)
NatsDeliveryEnvironment(d, r) == NatsEnvironment(d, r)
NatsDeliverySums(d) == SumsOptional(d, NatsBase, NatsDelivery.optional)
NatsDeliveryArtifacts(d) == Has(d, NatsDelivery.optional) => NatsArtifacts(d, NatsDelivery)
NatsDeliveryBuild(d, run, w) ==
    IF NatsParsed(d) THEN {NatsReport(d, run, NatsDelivery, NatsDeliverySource(w))} ELSE {}
NatsDeliveryReportHolds(d, w) == NatsReportHolds(d, w, NatsDeliverySource(w))
NatsDeliveryVerify(d, w) ==
    /\ NatsDeliveryReportHolds(d, w)
    /\ NatsDeliveryRecords(d, d["report"])
    /\ NatsFilesHold(d, NatsDelivery)
    /\ NatsDeliveryEnvironment(d, d["report"])
    /\ NatsDeliveryArtifacts(d)
    /\ NatsDeliverySums(d)
NatsDeliveryRun == NatsRun

NatsRestart == [groups |-> Groups, optional |-> {"before", "after", "inner"}]
NatsRestartRecords(d, r) == RecordsOptional(d, r, NatsBase, NatsRestart.optional)
NatsRestartSource(w) == Sources(w, NatsRestart.groups)
NatsRestartEnvironment(d, r) == NatsEnvironment(d, r)
NatsRestartSums(d) == SumsOptional(d, NatsBase, NatsRestart.optional)
NatsRestartArtifacts(d) == Has(d, NatsRestart.optional) => NatsArtifacts(d, NatsRestart)
NatsRestartBuild(d, run, w) ==
    IF NatsParsed(d) THEN {NatsReport(d, run, NatsRestart, NatsRestartSource(w))} ELSE {}
NatsRestartReportHolds(d, w) == NatsReportHolds(d, w, NatsRestartSource(w))
NatsRestartVerify(d, w) ==
    /\ NatsRestartReportHolds(d, w)
    /\ NatsRestartRecords(d, d["report"])
    /\ NatsFilesHold(d, NatsRestart)
    /\ NatsRestartEnvironment(d, d["report"])
    /\ NatsRestartArtifacts(d)
    /\ NatsRestartSums(d)
NatsRestartRun == NatsRun

NatsSnapshot == [groups |-> Groups, optional |-> {"log", "snapshot", "inner"}]
NatsSnapshotRecords(d, r) == RecordsOptional(d, r, NatsBase, NatsSnapshot.optional)
NatsSnapshotSource(w) == Sources(w, NatsSnapshot.groups)
NatsSnapshotEnvironment(d, r) == NatsEnvironment(d, r)
NatsSnapshotSums(d) == SumsOptional(d, NatsBase, NatsSnapshot.optional)
NatsSnapshotArtifacts(d) == Has(d, NatsSnapshot.optional) => NatsArtifacts(d, NatsSnapshot)
NatsSnapshotBuild(d, run, w) ==
    IF NatsParsed(d) THEN {NatsReport(d, run, NatsSnapshot, NatsSnapshotSource(w))} ELSE {}
NatsSnapshotReportHolds(d, w) == NatsReportHolds(d, w, NatsSnapshotSource(w))
NatsSnapshotVerify(d, w) ==
    /\ NatsSnapshotReportHolds(d, w)
    /\ NatsSnapshotRecords(d, d["report"])
    /\ NatsFilesHold(d, NatsSnapshot)
    /\ NatsSnapshotEnvironment(d, d["report"])
    /\ NatsSnapshotArtifacts(d)
    /\ NatsSnapshotSums(d)
NatsSnapshotRun == NatsRun

NatsCluster == [groups |-> Groups, optional |-> {"node1", "node2", "node3", "inner"}]
NatsClusterRecords(d, r) == RecordsOptional(d, r, NatsBase, NatsCluster.optional)
NatsClusterSource(w) == Sources(w, NatsCluster.groups)
NatsClusterEnvironment(d, r) == NatsEnvironment(d, r)
NatsClusterSums(d) == SumsOptional(d, NatsBase, NatsCluster.optional)
NatsClusterArtifacts(d) == Has(d, NatsCluster.optional) => NatsArtifacts(d, NatsCluster)
NatsClusterBuild(d, run, w) ==
    IF NatsParsed(d) THEN {NatsReport(d, run, NatsCluster, NatsClusterSource(w))} ELSE {}
NatsClusterReportHolds(d, w) == NatsReportHolds(d, w, NatsClusterSource(w))
NatsClusterVerify(d, w) ==
    /\ NatsClusterReportHolds(d, w)
    /\ NatsClusterRecords(d, d["report"])
    /\ NatsFilesHold(d, NatsCluster)
    /\ NatsClusterEnvironment(d, d["report"])
    /\ NatsClusterArtifacts(d)
    /\ NatsClusterSums(d)
NatsClusterRun == NatsRun

(***************************************************************************)
(* PostgreSQL recovery.  The Go tests and the backup and restore of the    *)
(* same container end separately; every ending is archived.                *)
(***************************************************************************)
PostgresBase == <<"environment", "contract", "output", "status", "recoveryOutput", "recoveryStatus", "log">>
PostgresRecovery == [groups |-> Groups, optional |-> {"raw", "inner", "backup"}]
\* The recovery succeeds only when the report script has written its report.
PostgresExecutions ==
    {x \in [exit : {"zero", "nonzero"}, second : {"zero", "nonzero"}, marks : BOOLEAN,
            left : Extents, late : BOOLEAN, known : BOOLEAN] :
        /\ x.second = "zero" => x.left = "all"
        /\ ~x.known => x.exit = "nonzero" /\ x.left = "none" /\ ~x.marks}
PostgresFile(x, w, name) ==
    CASE name = "environment" -> IF x.known THEN [commit |-> w.head, go |-> w.go] ELSE [commit |-> 0, go |-> 0]
      [] name = "contract" -> [failed |-> x.exit = "nonzero" \/ x.second = "nonzero"]
      [] name = "output" -> IF x.marks THEN "passed" ELSE "other"
      [] name = "status" -> x.exit
      [] name = "recoveryOutput" -> x.left = "all"
      [] name = "recoveryStatus" -> x.second
      [] OTHER -> TRUE
PostgresRecoveryRun ==
    <<Do("wipe", ""), Do("test", ""), Do("copy", "")>> \o Each("write", PostgresBase)
        \o <<Do("report", "report"), Do("sums", "SHA256SUMS")>>
PostgresStatus(x, complete) ==
    IF x.exit = "zero" /\ x.second = "zero" /\ complete THEN "passed" ELSE "failed"

PostgresRecoveryRecords(d, r) == RecordsOptional(d, r, Range(PostgresBase), PostgresRecovery.optional)
PostgresRecoverySource(w) == Sources(w, PostgresRecovery.groups)
PostgresRecoveryEnvironment(d, r) ==
    /\ Says(d, "environment") = {[commit |-> r.commit, go |-> r.go]}
    /\ Says(d, "status") = {r.execution.exit}
    /\ Says(d, "recoveryStatus") = {r.execution.second}
    /\ r.marks = (Says(d, "output") = {"passed"})
PostgresRecoverySums(d) == SumsOptional(d, Range(PostgresBase), PostgresRecovery.optional)
PostgresRecoveryBuild(d, run, x, w) ==
    {[run |-> run, cut |-> FALSE, execution |-> x, commit |-> IF x.known THEN w.head ELSE 0,
      go |-> IF x.known THEN w.go ELSE 0, source |-> PostgresRecoverySource(w), marks |-> x.marks,
      status |-> PostgresStatus(x, Has(d, PostgresRecovery.optional)),
      artifacts |-> Records(d, Range(PostgresBase) \cup PostgresRecovery.optional)]}
\* The rows at the checkpoint are the ones that the restore brought back.
VerifyRecoverySemantics(d) ==
    Has(d, PostgresRecovery.optional) => \A n \in PostgresRecovery.optional : Says(d, n) = {TRUE}
PostgresRecoveryReportHolds(d, w) ==
    /\ ReportReadable(d)
    /\ LET r == d["report"]
       IN  /\ r.go = w.pinned \/ (r.go = 0 /\ r.status = "failed")
           /\ r.source = PostgresRecoverySource(w)
           /\ ~r.execution.late
           /\ r.status = "passed" => r.marks
PostgresRecoveryVerify(d, w) ==
    /\ PostgresRecoveryReportHolds(d, w)
    /\ LET r == d["report"]
       IN  /\ PostgresRecoveryRecords(d, r)
           /\ r.execution.second = "zero" => Has(d, PostgresRecovery.optional)
           /\ r.status = PostgresStatus(r.execution, Has(d, PostgresRecovery.optional))
           /\ PostgresRecoveryEnvironment(d, r)
           /\ Says(d, "contract") = {[failed |-> r.status = "failed"]}
           /\ r.status = "passed" => Says(d, "recoveryOutput") = {TRUE}
    /\ VerifyRecoverySemantics(d)
    /\ PostgresRecoverySums(d)

(***************************************************************************)
(* Redis Sentinel.  Five containers start in order; a log is archived for  *)
(* each one that did.  The message of a container that never becomes ready *)
(* quotes its output, which may have several lines; the verifier looks for *)
(* the message as one line.                                                *)
(***************************************************************************)
RedisNodes == <<"log1", "log2">>                \* of master, replica and three sentinels
RedisBase == <<"environment", "contract", "output", "status">>
RedisSentinel == [groups |-> Groups, optional |-> Range(RedisNodes)]
RedisExecutions ==
    {x \in [exit : {"zero", "nonzero"}, marks : BOOLEAN, left : Extents, lines : 1..2, late : BOOLEAN] :
        /\ x.exit = "zero" => x.left = "all" /\ x.lines = 1
        /\ x.marks => x.left = "all"}
RedisLeft(x) == CASE x.left = "all" -> Range(RedisNodes) [] x.left = "some" -> {"log1"} [] x.left = "none" -> {}
RedisFile(x, w, name) ==
    CASE name = "environment" -> [commit |-> w.head, go |-> w.go]
      [] name = "contract" -> [started |-> x.left, failed |-> x.exit = "nonzero", lines |-> x.lines]
      [] name = "output" -> IF x.marks THEN "passed" ELSE "other"
      [] name = "status" -> x.exit
      [] OTHER -> TRUE
RedisSentinelRun ==
    <<Do("wipe", ""), Do("test", ""), Do("copy", "")>> \o Each("write", RedisBase)
        \o <<Do("report", "report"), Do("sums", "SHA256SUMS")>>

RedisSentinelRecords(d, r) ==
    DOMAIN r.artifacts = Range(RedisBase) \cup RedisLeft(r.execution) /\ Recorded(d, r.artifacts)
RedisSentinelSource(w) == Sources(w, RedisSentinel.groups)
RedisSentinelEnvironment(d, r) ==
    /\ Says(d, "environment") = {[commit |-> r.commit, go |-> r.go]}
    /\ Says(d, "status") = {r.execution.exit}
RedisSentinelSums(d, r) == ChecksumsHold(d, Range(RedisBase) \cup {"report"} \cup RedisLeft(r.execution))
RedisSentinelBuild(d, run, x, w) ==
    {[run |-> run, cut |-> FALSE, execution |-> x, status |-> StatusOf(x), commit |-> w.head, go |-> w.go,
      source |-> RedisSentinelSource(w), marks |-> x.marks,
      artifacts |-> Records(d, Range(RedisBase) \cup RedisLeft(x))]}
RedisSentinelReportHolds(d, w) ==
    /\ ReportReadable(d)
    /\ LET r == d["report"]
       IN  /\ r.go = w.pinned
           /\ r.source = RedisSentinelSource(w)
           /\ ~r.execution.late
           /\ r.status = StatusOf(r.execution)
           /\ r.status = "passed" => r.execution.left = "all"
RedisSentinelVerify(d, w) ==
    /\ RedisSentinelReportHolds(d, w)
    /\ LET r == d["report"]
       IN  /\ RedisSentinelRecords(d, r)
           /\ RedisSentinelEnvironment(d, r)
           /\ Says(d, "contract") = {[started |-> r.execution.left, failed |-> r.status = "failed", lines |-> 1]}
           /\ (r.status = "passed") = (Says(d, "output") = {"passed"})
           /\ RedisSentinelSums(d, r)

(***************************************************************************)
(* Nginx edge.  The events happen in one order; a failed run reports the   *)
(* ones that did.  The script does not verify what it wrote.               *)
(***************************************************************************)
NginxBase == <<"environment", "output", "log", "status">>
NginxEdge == [groups |-> Groups \ {"tests"}]
NginxExecutions == {x \in [exit : {"zero", "nonzero"}, left : Extents, late : BOOLEAN] : x.exit = "zero" => x.left = "all"}
NginxFile(x, w, name) ==
    CASE name = "environment" -> [commit |-> w.head]
      [] name = "output" -> [status |-> StatusOf(x), events |-> x.left]
      [] name = "log" -> TRUE
      [] name = "status" -> x.exit
\* The directory is emptied only when the run is over, before the files are written.
NginxEdgeRun ==
    <<Do("test", ""), Do("wipe", "")>> \o Each("write", NginxBase)
        \o <<Do("report", "report"), Do("sums", "SHA256SUMS")>>

NginxEdgeRecords(d, r) == DOMAIN r.artifacts = Range(NginxBase) /\ Recorded(d, r.artifacts)
NginxEdgeSource(w) == Sources(w, NginxEdge.groups)
ValidateEvents(r) == r.status = "passed" => r.execution.left = "all"
NginxEdgeEnvironment(d, r) ==
    /\ Says(d, "environment") = {[commit |-> r.commit]}
    /\ Says(d, "output") = {[status |-> r.status, events |-> r.execution.left]}
    /\ Says(d, "status") = {r.execution.exit}
NginxEdgeSums(d) == ChecksumsHold(d, Range(NginxBase) \cup {"report"})
NginxEdgeBuild(d, run, x, w) ==
    {[run |-> run, cut |-> FALSE, execution |-> x, status |-> StatusOf(x), commit |-> w.head,
      source |-> NginxEdgeSource(w), artifacts |-> Records(d, Range(NginxBase))]}
NginxEdgeVerify(d, w) ==
    /\ ReportReadable(d)
    /\ LET r == d["report"]
       IN  /\ r.source = NginxEdgeSource(w)
           /\ ~r.execution.late
           /\ r.status = StatusOf(r.execution)
           /\ ValidateEvents(r)
           /\ NginxEdgeRecords(d, r)
           /\ NginxEdgeEnvironment(d, r)
    /\ NginxEdgeSums(d)

(***************************************************************************)
(* Kubernetes manifest.  The template is checked, then rendered; what was  *)
(* rendered must still be what the template renders to.  There are no sums. *)
(***************************************************************************)
Kubernetes == [groups |-> Groups \ {"tests"}]
StagedExecutions == {x \in [exit : {"zero", "nonzero"}, left : Extents, late : BOOLEAN] : (x.exit = "zero") = (x.left = "all")}
RenderManifest(w) == w.src["program"]
KubernetesFile(x, w, name) ==
    CASE name = "check" -> x.left # "none"
      [] name = "render" -> x.left = "all"
      [] name = "manifest" -> RenderManifest(w)
KubernetesRun ==
    <<Do("wipe", ""), Do("test", ""), Do("write", "check"), Do("copy", ""), Do("write", "render"),
      Do("report", "report"), Do("verify", "")>>
KubernetesRecords(d, r) == DOMAIN r.artifacts = {"check", "render", "manifest"} /\ Recorded(d, r.artifacts)
KubernetesSource(w) == Sources(w, Kubernetes.groups)
KubernetesBuild(d, run, x, w) ==
    {[run |-> run, cut |-> FALSE, execution |-> x, status |-> StatusOf(x), source |-> KubernetesSource(w),
      artifacts |-> Records(d, {"check", "render", "manifest"})]}
KubernetesVerify(d, w) ==
    /\ ReportReadable(d)
    /\ LET r == d["report"]
       IN  /\ r.status = "passed" /\ ~r.execution.late
           /\ r.source = KubernetesSource(w)
           /\ KubernetesRecords(d, r)
    /\ Says(d, "check") = {TRUE} /\ Says(d, "render") = {TRUE}
    /\ Says(d, "manifest") = {RenderManifest(w)}

(***************************************************************************)
(* Workflow lint and Prometheus rules.  A pinned tool is built and run in  *)
(* stages, each only after the one before succeeded.  There are no sums.   *)
(***************************************************************************)
WorkflowLint == [groups |-> {"tooling"}]
LintFile(x, w, name) ==
    CASE name = "build" -> x.left # "none"
      [] name = "binary" -> "tool"
      [] name = "version" -> IF x.left = "none" THEN 0 ELSE w.go
      [] OTHER -> x.left = "all"
WorkflowLintRun ==
    <<Do("pin", ""), Do("wipe", ""), Do("test", ""), Do("copy", "")>> \o Each("write", <<"build", "version", "lint">>)
        \o <<Do("report", "report"), Do("verify", "")>>
WorkflowLintRecords(d, r) == DOMAIN r.artifacts = {"binary", "build", "version", "lint"} /\ Recorded(d, r.artifacts)
WorkflowLintPin(w) == w.go = w.pinned          \* findGo accepts no other release
WorkflowLintSource(w) == Sources(w, WorkflowLint.groups)
WorkflowLintBuild(d, run, x, w) ==
    {[run |-> run, cut |-> FALSE, execution |-> x, status |-> StatusOf(x), go |-> w.pinned,
      source |-> WorkflowLintSource(w), artifacts |-> Records(d, {"binary", "build", "version", "lint"})]}
WorkflowLintVerify(d, w) ==
    /\ ReportReadable(d)
    /\ LET r == d["report"]
       IN  /\ r.go = w.pinned
           /\ r.source = WorkflowLintSource(w)
           /\ r.execution.exit = "zero" /\ ~r.execution.late
           /\ WorkflowLintRecords(d, r)
    /\ Says(d, "version") = {w.pinned}

PrometheusRules == [groups |-> {"program", "tests", "tooling"}]
PrometheusOutputs == {"binary", "build", "version", "config", "rules", "tests"}
\* The config check writes a credential for itself and refuses to run over one.
PrometheusRulesRun ==
    <<Do("pin", ""), Do("wipe", ""), Do("test", ""), Do("copy", ""), Do("write", "build"), Do("write", "version"),
      Do("credential", ""), Do("remove", "")>> \o Each("write", <<"config", "rules", "tests">>)
        \o <<Do("report", "report"), Do("verify", "")>>
PrometheusRulesRecords(d, r) == DOMAIN r.artifacts = PrometheusOutputs /\ Recorded(d, r.artifacts)
PrometheusRulesPin(w) == w.go = w.pinned
PrometheusRulesSource(w) == Sources(w, PrometheusRules.groups)
PrometheusRulesBuild(d, run, x, w) ==
    {[run |-> run, cut |-> FALSE, execution |-> x, status |-> StatusOf(x), go |-> w.pinned,
      source |-> PrometheusRulesSource(w), artifacts |-> Records(d, PrometheusOutputs)]}
PrometheusRulesVerify(d, w) ==
    /\ ReportReadable(d)
    /\ LET r == d["report"]
       IN  /\ r.status = "passed"
           /\ r.go = w.pinned
           /\ r.source = PrometheusRulesSource(w)
           /\ PrometheusRulesRecords(d, r)
    /\ Says(d, "version") = {w.pinned}
    /\ \A n \in {"config", "rules", "tests"} : Says(d, n) = {TRUE}

(***************************************************************************)
(* Server recovery.  A child process runs the scenarios: it empties the    *)
(* directory, writes the outputs of each scenario and at last a summary that *)
(* describes them.  It may not start (none) or be stopped half way (some); *)
(* the parent reports in any case.                                         *)
(***************************************************************************)
Scenarios == <<"first", "second">>               \* of four
ServerRecovery == [groups |-> {"tests", "docs", "tooling"}]
DrillExecutions ==
    {x \in [exit : {"zero", "nonzero"}, passed : BOOLEAN, marks : BOOLEAN, left : Extents] :
        /\ x.exit = "zero" => x.left = "all" /\ x.passed
        /\ x.marks => x.passed}
DrillSummary(d, run, x, w) ==
    [run |-> run, cut |-> FALSE, status |-> IF x.passed THEN "passed" ELSE "failed", commit |-> w.head,
     go |-> w.go, artifacts |-> Records(d, Range(Scenarios))]
\* What the child leaves of the directory.
Drill(d, run, x, w) ==
    LET outputs == [n \in Range(Scenarios) |-> File(run, IF x.marks THEN "passed" ELSE "other")]
    IN  CASE x.left = "none" -> d
          [] x.left = "some" -> [n \in {"first"} |-> outputs[n]]
          [] x.left = "all" -> Put(outputs, "summary", DrillSummary(outputs, run, x, w))
ServerRecoveryRun ==
    <<Do("drill", ""), Do("report", "report"), Do("sums", "SHA256SUMS"), Do("verify", "")>>

ServerRecoveryRecords(d, records) == DOMAIN records = Range(Scenarios) /\ Recorded(d, records)
ServerRecoverySource(w) == Sources(w, ServerRecovery.groups)
VerifyScenarioOutput(d, name, status) == status = "passed" => Says(d, name) = {"passed"}
\* The summary is of this commit and this Go release, and describes the outputs.
VerifySummary(d, w) ==
    /\ "summary" \in DOMAIN d
    /\ LET summary == d["summary"]
       IN  /\ ~summary.cut
           /\ summary.commit = w.head
           /\ summary.go = w.pinned
           /\ ServerRecoveryRecords(d, summary.artifacts)
           /\ \A n \in Range(Scenarios) : VerifyScenarioOutput(d, n, summary.status)
\* The scenarios started inside the window of the outer execution.
ServerRecoveryExecution(summary, run, x) == summary.run = run /\ summary.status = StatusOf(x)

ServerRecoverySums(d) == ChecksumsHold(d, Range(Scenarios) \cup {"summary", "report"})
ServerRecoveryBuild(d, run, x, w) ==
    IF VerifySummary(d, w) /\ ServerRecoveryExecution(d["summary"], run, x)
    THEN {[run |-> run, cut |-> FALSE, execution |-> x, status |-> d["summary"].status,
           commit |-> d["summary"].commit, go |-> d["summary"].go, source |-> ServerRecoverySource(w),
           artifacts |-> Records(d, Range(Scenarios) \cup {"summary"})]}
    ELSE {}
ServerRecoveryVerify(d, w) ==
    /\ ReportReadable(d)
    /\ VerifySummary(d, w)
    /\ LET r == d["report"]
       IN  /\ ServerRecoveryExecution(d["summary"], r.run, r.execution)
           /\ r.status = d["summary"].status
           /\ r.commit = d["summary"].commit
           /\ r.go = d["summary"].go
           /\ r.source = ServerRecoverySource(w)
           /\ Recorded(d, r.artifacts)
    /\ ServerRecoverySums(d)
=============================================================================
