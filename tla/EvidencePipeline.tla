-------------------------- MODULE EvidencePipeline --------------------------
(***************************************************************************)
(* The life of one evidence directory: runs of the script that fills it,   *)
(* stopped anywhere, in a repository that is edited meanwhile, and the     *)
(* manifest that vouches for it.  The behaviour is about one kind of       *)
(* evidence, chosen at the start.                                          *)
(***************************************************************************)
EXTENDS SpawnedEvidence, CollectedEvidence

CONSTANTS Kinds,      \* the kinds of evidence to consider
          MaxRuns,    \* bound: how often the script is started
          MaxEdits    \* bound: changes of the repository or of the toolchain

ASSUME BoundsAreNaturals == MaxRuns \in Nat /\ MaxEdits \in Nat

VARIABLES
  kind,         \* the kind of evidence that this behaviour is about
  repo,         \* the repository: commit, sources, committed sources, pinned and installed Go
  dir,          \* the evidence directory
  runner,       \* the script: its run, the step it is at (0: not running), how its test ended
  tested,       \* of each run that reached its test and left files: how it ended, in which repository
  outcome,      \* how the last run that was not stopped ended
  credential,   \* the credential file of the Prometheus configuration check is there
  manifest      \* the evidence manifest, a set of at most one

vars == <<kind, repo, dir, runner, tested, outcome, credential, manifest>>

Spawned == {"audit-chain", "authorization", "oidc-browser", "sdk-consumer", "sdk-consumer-matrix", "sdk-release"}
Nats == {"nats-delivery", "nats-restart", "nats-snapshot", "nats-cluster"}
Staged == {"kubernetes", "workflow-lint", "prometheus-rules"}
AllKinds == Spawned \cup Nats \cup Staged
    \cup {"postgres-recovery", "redis-sentinel", "nginx-edge", "server-recovery"}

\* Only evidence that has a script is considered.
ASSUME KindsAreKnown == Kinds \subseteq AllKinds

\* The steps of the script.
Script ==
    CASE kind = "audit-chain" -> AuditChainRun
      [] kind = "authorization" -> AuthorizationRun
      [] kind = "oidc-browser" -> OIDCBrowserRun
      [] kind = "sdk-consumer" -> SDKConsumerRun
      [] kind = "sdk-consumer-matrix" -> SDKConsumerMatrixRun
      [] kind = "sdk-release" -> SDKReleaseRun
      [] kind = "nats-delivery" -> NatsDeliveryRun
      [] kind = "nats-restart" -> NatsRestartRun
      [] kind = "nats-snapshot" -> NatsSnapshotRun
      [] kind = "nats-cluster" -> NatsClusterRun
      [] kind = "postgres-recovery" -> PostgresRecoveryRun
      [] kind = "redis-sentinel" -> RedisSentinelRun
      [] kind = "nginx-edge" -> NginxEdgeRun
      [] kind = "kubernetes" -> KubernetesRun
      [] kind = "workflow-lint" -> WorkflowLintRun
      [] kind = "prometheus-rules" -> PrometheusRulesRun
      [] kind = "server-recovery" -> ServerRecoveryRun

\* The ends that a run may have; two tests are functions of the repository.
Ends ==
    CASE kind = "sdk-consumer-matrix" -> {x \in Executions : x.exit = "zero" => VerifySDKConsumerMatrix(repo)}
      [] kind = "sdk-release" -> {x \in Executions : x.exit = "zero" => ProjectSummaries(repo, "passed")}
      [] kind \in Spawned \ {"sdk-consumer-matrix", "sdk-release"} -> Executions
      [] kind \in Nats -> NatsExecutions
      [] kind = "postgres-recovery" -> PostgresExecutions
      [] kind = "redis-sentinel" -> RedisExecutions
      [] kind = "nginx-edge" -> NginxExecutions
      [] kind \in Staged -> StagedExecutions
      [] kind = "server-recovery" -> DrillExecutions

\* What the script writes into a file.
Content(x, name) ==
    CASE kind \in Spawned -> SpawnedOutput(x, name)
      [] kind \in Nats -> NatsFile(x, repo, name)
      [] kind = "postgres-recovery" -> PostgresFile(x, repo, name)
      [] kind = "redis-sentinel" -> RedisFile(x, repo, name)
      [] kind = "nginx-edge" -> NginxFile(x, repo, name)
      [] kind = "kubernetes" -> KubernetesFile(x, repo, name)
      [] kind \in {"workflow-lint", "prometheus-rules"} -> LintFile(x, repo, name)

\* The files that the test itself leaves.
Leavings(x) ==
    CASE kind = "nats-delivery" -> Left(NatsDelivery, x)
      [] kind = "nats-restart" -> Left(NatsRestart, x)
      [] kind = "nats-snapshot" -> Left(NatsSnapshot, x)
      [] kind = "nats-cluster" -> Left(NatsCluster, x)
      [] kind = "postgres-recovery" -> Left(PostgresRecovery, x)
      [] kind = "redis-sentinel" -> RedisLeft(x)
      [] kind = "kubernetes" -> IF x.left = "all" THEN {"manifest"} ELSE {}
      [] kind \in {"workflow-lint", "prometheus-rules"} -> IF x.left = "none" THEN {} ELSE {"binary"}

Build(d, run, x) ==
    CASE kind = "audit-chain" -> AuditChainBuild(d, run, x, repo)
      [] kind = "authorization" -> AuthorizationBuild(d, run, x, repo)
      [] kind = "oidc-browser" -> OIDCBrowserBuild(d, run, x, repo)
      [] kind = "sdk-consumer" -> SDKConsumerBuild(d, run, x, repo)
      [] kind = "sdk-consumer-matrix" -> SDKConsumerMatrixBuild(d, run, x, repo)
      [] kind = "sdk-release" -> SDKReleaseBuild(d, run, x, repo)
      [] kind = "nats-delivery" -> NatsDeliveryBuild(d, run, repo)
      [] kind = "nats-restart" -> NatsRestartBuild(d, run, repo)
      [] kind = "nats-snapshot" -> NatsSnapshotBuild(d, run, repo)
      [] kind = "nats-cluster" -> NatsClusterBuild(d, run, repo)
      [] kind = "postgres-recovery" -> PostgresRecoveryBuild(d, run, x, repo)
      [] kind = "redis-sentinel" -> RedisSentinelBuild(d, run, x, repo)
      [] kind = "nginx-edge" -> NginxEdgeBuild(d, run, x, repo)
      [] kind = "kubernetes" -> KubernetesBuild(d, run, x, repo)
      [] kind = "workflow-lint" -> WorkflowLintBuild(d, run, x, repo)
      [] kind = "prometheus-rules" -> PrometheusRulesBuild(d, run, x, repo)
      [] kind = "server-recovery" -> ServerRecoveryBuild(d, run, x, repo)

\* Whether the verifier of this kind accepts the directory.
SpawnedVerified ==
    CASE kind = "audit-chain" -> AuditChainVerify(dir, repo)
      [] kind = "authorization" -> AuthorizationVerify(dir, repo)
      [] kind = "oidc-browser" -> OIDCBrowserVerify(dir, repo)
      [] kind = "sdk-release" -> SDKReleaseVerify(dir, repo)
      [] kind = "sdk-consumer" -> SDKConsumerVerify(dir, repo)
      [] kind = "sdk-consumer-matrix" -> SDKConsumerMatrixVerify(dir, repo)
NatsVerified ==
    CASE kind = "nats-delivery" -> NatsDeliveryVerify(dir, repo)
      [] kind = "nats-restart" -> NatsRestartVerify(dir, repo)
      [] kind = "nats-snapshot" -> NatsSnapshotVerify(dir, repo)
      [] kind = "nats-cluster" -> NatsClusterVerify(dir, repo)
CollectedVerified ==
    CASE kind = "server-recovery" -> ServerRecoveryVerify(dir, repo)
      [] kind = "workflow-lint" -> WorkflowLintVerify(dir, repo)
      [] kind = "prometheus-rules" -> PrometheusRulesVerify(dir, repo)
      [] kind = "kubernetes" -> KubernetesVerify(dir, repo)
      [] kind = "nginx-edge" -> NginxEdgeVerify(dir, repo)
      [] kind = "redis-sentinel" -> RedisSentinelVerify(dir, repo)
      [] kind = "postgres-recovery" -> PostgresRecoveryVerify(dir, repo)
Verified ==
    CASE kind \in Spawned -> SpawnedVerified
      [] kind \in Nats -> NatsVerified
      [] OTHER -> CollectedVerified

Scope ==
    CASE kind = "audit-chain" -> AuditChain.groups
      [] kind = "authorization" -> Authorization.groups
      [] kind = "oidc-browser" -> OIDCBrowser.groups
      [] kind = "sdk-consumer" -> SDKConsumer.groups
      [] kind = "sdk-consumer-matrix" -> SDKConsumerMatrix.groups
      [] kind = "sdk-release" -> SDKRelease.groups
      [] kind \in Nats \cup {"postgres-recovery", "redis-sentinel"} -> Groups
      [] kind = "nginx-edge" -> NginxEdge.groups
      [] kind = "kubernetes" -> Kubernetes.groups
      [] kind = "workflow-lint" -> WorkflowLint.groups
      [] kind = "prometheus-rules" -> PrometheusRules.groups
      [] kind = "server-recovery" -> ServerRecovery.groups
(***************************************************************************)
(* The script                                                              *)
(***************************************************************************)
NoEnd == [exit |-> "none"]
Running(step) == runner.pc > 0 /\ Script[runner.pc].do = step
Name == Script[runner.pc].name

Init ==
    /\ kind \in Kinds
    /\ repo = [head |-> 1, src |-> [g \in Groups |-> 1], committed |-> [g \in Groups |-> 1], pinned |-> 1, go |-> 1]
    /\ dir = Nothing
    /\ runner = [run |-> 0, pc |-> 0, x |-> NoEnd]
    /\ tested = Nothing
    /\ outcome = "none"
    /\ credential = FALSE
    /\ manifest = {}

Continue == runner' = [runner EXCEPT !.pc = IF @ = Len(Script) THEN 0 ELSE @ + 1]
End(how) == runner' = [runner EXCEPT !.pc = 0] /\ outcome' = how

Start ==
    /\ runner.pc = 0 /\ runner.run < MaxRuns
    /\ runner' = [run |-> runner.run + 1, pc |-> 1, x |-> NoEnd]
    /\ outcome' = "none"
    /\ UNCHANGED <<kind, repo, dir, tested, credential, manifest>>

\* An installed Go release other than the pinned one ends the run at once.
Pin ==
    /\ Running("pin")
    /\ IF WorkflowLintPin(repo) THEN Continue /\ UNCHANGED outcome ELSE End("unpinned")
    /\ UNCHANGED <<kind, repo, dir, tested, credential, manifest>>

Unlink ==
    /\ Running("unlink")
    /\ dir' = Without(dir, {Name})
    /\ Continue
    /\ UNCHANGED <<kind, repo, tested, outcome, credential, manifest>>

Wipe ==
    /\ Running("wipe")
    /\ dir' = Nothing
    /\ Continue
    /\ UNCHANGED <<kind, repo, tested, outcome, credential, manifest>>

\* The test of a run, in the repository of that moment; runs that left no file
\* are forgotten.
Observe(x) ==
    /\ runner' = [runner EXCEPT !.pc = @ + 1, !.x = x]
    /\ tested' = Put(Without(tested, DOMAIN tested \ {dir[n].run : n \in DOMAIN dir}), runner.run,
                     [x |-> x, repo |-> repo, edited |-> FALSE])

Test ==
    /\ Running("test")
    /\ \E x \in Ends : Observe(x)
    /\ UNCHANGED <<kind, repo, dir, outcome, credential, manifest>>

\* The drill is a test that fills the directory itself.
RunDrill ==
    /\ Running("drill")
    /\ \E x \in Ends : Observe(x) /\ dir' = Drill(dir, runner.run, x, repo)
    /\ UNCHANGED <<kind, repo, outcome, credential, manifest>>

Write ==
    /\ Running("write")
    /\ dir' = Put(dir, Name, File(runner.run, Content(runner.x, Name)))
    /\ Continue
    /\ UNCHANGED <<kind, repo, tested, outcome, credential, manifest>>

Copy ==
    /\ Running("copy")
    /\ LET names == Leavings(runner.x)
       IN  dir' = [n \in DOMAIN dir \cup names |->
                     IF n \in names THEN File(runner.run, Content(runner.x, n)) ELSE dir[n]]
    /\ Continue
    /\ UNCHANGED <<kind, repo, tested, outcome, credential, manifest>>

\* The check of the configuration fails when a credential is there already.
WriteCredential ==
    /\ Running("credential")
    /\ runner.x.left = "none" \/ ~credential
    /\ credential' = (credential \/ runner.x.left # "none")
    /\ Continue
    /\ UNCHANGED <<kind, repo, dir, tested, outcome, manifest>>

RefuseCredential ==
    /\ Running("credential")
    /\ runner.x.left # "none" /\ credential
    /\ runner' = [runner EXCEPT !.pc = @ + 2, !.x.exit = "nonzero", !.x.left = "some"]
    /\ UNCHANGED <<kind, repo, dir, tested, outcome, credential, manifest>>

RemoveCredential ==
    /\ Running("remove")
    /\ credential' = (credential /\ runner.x.left = "none")
    /\ Continue
    /\ UNCHANGED <<kind, repo, dir, tested, outcome, manifest>>

MakeReport ==
    /\ Running("report")
    /\ LET reports == Build(dir, runner.run, runner.x)
       IN  IF reports = {}
           THEN End("refused") /\ UNCHANGED dir
           ELSE Continue /\ UNCHANGED outcome /\ \E r \in reports : dir' = Put(dir, "report", r)
    /\ UNCHANGED <<kind, repo, tested, credential, manifest>>

WriteSums ==
    /\ Running("sums")
    /\ dir' = Put(dir, "SHA256SUMS", Checksums(dir, runner.run, DOMAIN dir \ {"SHA256SUMS"}))
    /\ Continue
    /\ UNCHANGED <<kind, repo, tested, outcome, credential, manifest>>

Verify ==
    /\ Running("verify")
    /\ End(IF Verified THEN "verified" ELSE "refused")
    /\ UNCHANGED <<kind, repo, dir, tested, credential, manifest>>

\* The process is stopped between two steps, or within one that writes or deletes.
Crash ==
    /\ runner.pc > 0
    /\ runner' = [runner EXCEPT !.pc = 0]
    /\ \/ UNCHANGED dir
       \/ Running("write") /\ dir' = Put(dir, Name, Cut(File(runner.run, Content(runner.x, Name))))
       \/ /\ Running("report")
          /\ \E r \in Build(dir, runner.run, runner.x) : dir' = Put(dir, "report", Cut(r))
       \/ /\ Running("sums")
          /\ dir' = Put(dir, "SHA256SUMS", Cut(Checksums(dir, runner.run, DOMAIN dir)))
       \/ Running("wipe") /\ \E n \in DOMAIN dir : dir' = Without(dir, {n})
       \/ Running("drill") /\ dir' = [n \in {"first"} |-> File(runner.run, "other")]
    /\ UNCHANGED <<kind, repo, tested, outcome, credential, manifest>>

(***************************************************************************)
(* The repository                                                          *)
(***************************************************************************)
Edits == repo.head + Cardinality({g \in Groups : repo.src[g] > 1}) + repo.go - 2
EditedDuring ==
    tested' = [n \in DOMAIN tested |->
                 [tested[n] EXCEPT !.edited = @ \/ (n = runner.run /\ runner.pc > 0)]]

EditSource(g) ==
    /\ Edits < MaxEdits /\ repo.src[g] = 1
    /\ repo' = [repo EXCEPT !.src[g] = 2]
    /\ EditedDuring
    /\ UNCHANGED <<kind, dir, runner, outcome, credential, manifest>>

Commit ==
    /\ Edits < MaxEdits
    /\ repo' = [repo EXCEPT !.head = @ + 1, !.committed = repo.src]
    /\ EditedDuring
    /\ UNCHANGED <<kind, dir, runner, outcome, credential, manifest>>

ChangeToolchain ==
    /\ Edits < MaxEdits /\ repo.go = 1
    /\ repo' = [repo EXCEPT !.go = 2]
    /\ EditedDuring
    /\ UNCHANGED <<kind, dir, runner, outcome, credential, manifest>>

(***************************************************************************)
(* The manifest                                                            *)
(***************************************************************************)
GitStatus(w) == {g \in Groups : w.src[g] # w.committed[g]}
DescribeInputs(w) == Sources(w, Groups)

\* The evidence that makes a boundary more than a definition: PostgreSQL recovery
\* on a GitHub runner, and three of the local NATS contracts.  (Those read the
\* directory that the test wrote, of which the evidence holds copies.)
PostgresFiles == Range(PostgresBase) \cup PostgresRecovery.optional \cup {"report", "SHA256SUMS"}

PostgresBoundary(ci) ==
    /\ ci
    /\ Has(dir, PostgresFiles)
    /\ Says(dir, "status") = {"zero"} /\ Says(dir, "recoveryStatus") = {"zero"}
    /\ Says(dir, "inner") = {TRUE}
NatsBoundary(contract) == Has(dir, contract.optional) /\ NatsArtifacts(dir, contract)
Boundary(ci) ==
    CASE kind = "postgres-recovery" -> PostgresBoundary(ci)
      [] kind = "nats-restart" -> NatsBoundary(NatsRestart)
      [] kind = "nats-snapshot" -> NatsBoundary(NatsSnapshot)
      [] kind = "nats-cluster" -> NatsBoundary(NatsCluster)
      [] OTHER -> FALSE

Manifest(ci) ==
    [head |-> repo.head, status |-> GitStatus(repo), go |-> repo.go, pinned |-> repo.pinned,
     inputs |-> DescribeInputs(repo), evidence |-> dir, recorded |-> Boundary(ci)]

\* Evidence that is there but does not verify ends the generation.
SpawnedReady == kind \in Spawned /\ dir # Nothing => SpawnedVerified
NatsReady == kind \in Nats /\ dir # Nothing => NatsVerified
CollectedReady == kind \notin Spawned \cup Nats /\ dir # Nothing => CollectedVerified

GenerateManifest ==
    /\ runner.pc = 0
    /\ SpawnedReady /\ CollectedReady /\ NatsReady
    /\ \E ci \in BOOLEAN : manifest' = {Manifest(ci)}
    /\ UNCHANGED <<kind, repo, dir, runner, tested, outcome, credential>>

\* What the verifier compares with the repository and with the directory.
VerifyRepository(m) == m.head = repo.head /\ m.status = GitStatus(repo)
VerifyToolchain(m) == m.go = repo.go /\ m.pinned = repo.pinned
VerifyInputs(m) == m.inputs = DescribeInputs(repo)
VerifyEvidence(m) == m.evidence = dir

VerifyNatsBoundaries(m) ==
    m.recorded =>
        CASE kind = "nats-restart" -> NatsBoundary(NatsRestart)
          [] kind = "nats-snapshot" -> NatsBoundary(NatsSnapshot)
          [] kind = "nats-cluster" -> NatsBoundary(NatsCluster)
          [] OTHER -> TRUE
VerifyPostgresBoundary(m) ==
    m.recorded /\ kind = "postgres-recovery" =>
        PostgresBoundary(TRUE) /\ VerifyRecoverySemantics(dir) /\ PostgresRecoverySums(dir)

ManifestVerified ==
    \E m \in manifest :
        /\ VerifyRepository(m)
        /\ VerifyToolchain(m)
        /\ VerifyInputs(m)
        /\ VerifyEvidence(m)
        /\ dir # Nothing => Verified
        /\ VerifyNatsBoundaries(m)
        /\ VerifyPostgresBoundary(m)

(***************************************************************************)
(* Specification                                                           *)
(***************************************************************************)
Next ==
    \/ Start \/ Pin \/ Unlink \/ Wipe \/ Test \/ RunDrill \/ Write \/ Copy
    \/ WriteCredential \/ RefuseCredential \/ RemoveCredential
    \/ MakeReport \/ WriteSums \/ Verify \/ Crash
    \/ (\E g \in Groups : EditSource(g)) \/ Commit \/ ChangeToolchain
    \/ GenerateManifest

Spec == Init /\ [][Next]_vars

(***************************************************************************)
(* Properties                                                              *)
(***************************************************************************)
TestPassed(x) == x.exit = "zero" /\ (kind = "postgres-recovery" => x.second = "zero")
SaysPassed == "report" \in DOMAIN dir /\ ~dir["report"].cut /\ dir["report"].status = "passed"

\* A report of a pass that a verifier accepts is about one run: every file in
\* the directory was written whole by the run that the report is of, and the
\* test of that run did pass.  A run that was stopped, or one that wrote over
\* the files of an earlier one, never lends its files to another report.
AcceptedPassIsOneRun ==
    Verified /\ SaysPassed =>
        LET run == dir["report"].run
        IN  /\ \A n \in DOMAIN dir : dir[n].run = run /\ ~dir[n].cut
            /\ run \in DOMAIN tested /\ TestPassed(tested[run].x)

PassIsCurrent ==
    Verified /\ SaysPassed =>
        LET test == tested[dir["report"].run]
        IN  ~test.edited => Sources(test.repo, Scope) = Sources(repo, Scope)
RecordedRecoveryHappened ==
    kind = "postgres-recovery" /\ ManifestVerified /\ (\E m \in manifest : m.recorded) =>
        LET test == tested[dir["report"].run]
        IN  TestPassed(test.x) /\ (~test.edited => test.repo.src = repo.src)

\* Accepted evidence speaks of the sources as they are now.  The test of a
\* reported pass ran on the same version of every file in the scope of the
\* evidence, unless the sources were edited while the run was going on; and a
\* manifest that is accepted and records the PostgreSQL recovery means that the
\* tests and the recovery both passed in the run whose files are there now.
AcceptedEvidenceIsCurrent == PassIsCurrent /\ RecordedRecoveryHappened
=============================================================================
