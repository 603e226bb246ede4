--------------------------- MODULE ServerRelease ----------------------------
(***************************************************************************)
(* The release of the server: the build of its Linux binary, the check of  *)
(* what was built, the two witness builds that show it reproducible, and   *)
(* the attestation that the release workflow attaches to it, in a working  *)
(* tree that is edited and committed to meanwhile.                         *)
(*                                                                         *)
(* Every task is a list of steps, of one process or of the processes that  *)
(* it starts and waits for.  The sources are the files that go list names, *)
(* with the version in package.json; what was written under them is told   *)
(* by a number, and a digest identifies a content, so it is the content.   *)
(* A binary is the sources it was compiled from, the version, commit and   *)
(* time that were linked in, and what else went into it: the same inputs   *)
(* need not give the same binary.                                          *)
(***************************************************************************)
EXTENDS EvidenceFiles

CONSTANTS MaxTasks,        \* bound: tasks started
          MaxTreeEdits,    \* bound: edits of the sources
          MaxCommits       \* bound: commits

ASSUME ReleaseBounds == {MaxTasks, MaxTreeEdits, MaxCommits} \subseteq Nat

VARIABLES
  tree,      \* the working tree, HEAD, and the sources of every commit
  roots,     \* the release directory and those of the two witnesses
  job,       \* the task: its steps, where it is, and what its processes remember
  builds,    \* every binary that a witness build wrote: task, directory, binary
  verdict    \* the last directory that a check accepted, with the tree of that moment

releaseVars == <<tree, roots, job, builds, verdict>>

Sources0 == [code |-> 1, version |-> 1]
Places == {"canonical", "first", "second"}
Subjects == <<"artifact", "release-manifest", "source-manifest", "reproducibility-report">>

(***************************************************************************)
(* Tasks                                                                   *)
(***************************************************************************)
BuildSteps(root) ==
    [i \in 1..11 |-> Do(<<"load", "collect", "commit", "time", "status", "clear", "compile",
                          "recollect", "sources", "manifest", "sums">>[i], root)]
CheckSteps(root) == <<Do("load", root), Do("check", root)>>
WitnessSteps(root) == <<Do("prepare", root)>> \o BuildSteps(root) \o CheckSteps(root)
ReproducibleSteps ==
    CheckSteps("canonical") \o <<Do("snapshot", "canonical")>>
    \o WitnessSteps("first") \o WitnessSteps("second")
    \o <<Do("compare", "canonical"), Do("report", "canonical"), Do("sums", "canonical"),
         Do("check", "canonical"), Do("cleanup", "canonical")>>
WorkflowSteps ==
    BuildSteps("canonical") \o CheckSteps("canonical") \o ReproducibleSteps
    \o <<Do("attest", "canonical"), Do("gh", "canonical"), Do("record", "canonical"), Do("accept", "canonical")>>

TaskSteps(task) ==
    CASE task = "build" -> BuildSteps("canonical")
      [] task = "verify" -> CheckSteps("canonical")
      [] task = "reproducible" -> ReproducibleSteps
      [] task = "workflow" -> WorkflowSteps
Tasks == {"build", "verify", "reproducible", "workflow"}

None == [none |-> TRUE]
Idle(n) == [n |-> n, task |-> "none", pc |-> 0, clean |-> FALSE, sha |-> 0, of |-> None, version |-> None,
            commit |-> 0, time |-> 0, dirty |-> FALSE, binary |-> None, canonical |-> Nothing, witness |-> Nothing,
            attested |-> None, record |-> None]

At(step) == job.pc > 0 /\ TaskSteps(job.task)[job.pc].do = step
Root == TaskSteps(job.task)[job.pc].name
Dir == roots[Root]

Advance(j) == IF j.pc = Len(TaskSteps(j.task)) THEN Idle(j.n) ELSE [j EXCEPT !.pc = @ + 1]

\* A task that fails ends, wherever it is; in the workflow the steps that check
\* the attestation and make the evidence manifest follow all the same.
GhStep == Len(WorkflowSteps) - 2
Failed(j) == IF j.task = "workflow" /\ j.pc < GhStep THEN [j EXCEPT !.pc = GhStep] ELSE Idle(j.n)

Pass(j) == job' = Advance(j)
Fail == job' = Failed(job)
Keep == UNCHANGED <<tree, builds, verdict>>

PutFile(name, content) == roots' = [roots EXCEPT ![Root] = Put(@, name, content)]

(***************************************************************************)
(* The build                                                               *)
(***************************************************************************)
\* The directories of the witnesses are named after the process: a task has its
\* own, and those that a failed task leaves behind are read by none.
StartTask ==
    /\ job.pc = 0 /\ job.n < MaxTasks
    /\ \E task \in Tasks, clean \in BOOLEAN :
         /\ task = "workflow" => clean
         /\ task = "verify" => ~clean
         /\ job' = [Idle(job.n + 1) EXCEPT !.task = task, !.pc = 1, !.clean = clean, !.sha = tree.head,
                                           !.version = [r \in Places |-> 0]]
    /\ roots' = [roots EXCEPT !["first"] = Nothing, !["second"] = Nothing]
    /\ UNCHANGED <<tree, builds, verdict>>

\* A process reads the version in package.json once, when it starts.
Load ==
    /\ At("load")
    /\ Pass([job EXCEPT !.version[Root] = tree.src.version])
    /\ Keep /\ UNCHANGED roots

CollectSourceManifest == tree.src

Collect ==
    /\ At("collect")
    /\ Pass([job EXCEPT !.of = CollectSourceManifest])
    /\ Keep /\ UNCHANGED roots

ResolveCommit ==
    /\ At("commit")
    /\ Pass([job EXCEPT !.commit = tree.head])
    /\ Keep /\ UNCHANGED roots

ResolveTime ==
    /\ At("time")
    /\ Pass([job EXCEPT !.time = tree.head])
    /\ Keep /\ UNCHANGED roots

\* A task hands its environment on to the witnesses; the workflow sets the
\* variable for its first build only.
RequireClean == job.clean /\ (job.task = "workflow" => Root = "canonical")
SourceDirty == tree.src # tree.contents[tree.head]

InspectStatus ==
    /\ At("status")
    /\ IF RequireClean /\ SourceDirty THEN Fail ELSE Pass([job EXCEPT !.dirty = SourceDirty])
    /\ Keep /\ UNCHANGED roots

ClearRoot ==
    /\ At("clear")
    /\ roots' = [roots EXCEPT ![Root] = Nothing]
    /\ Pass(job)
    /\ Keep

\* The compiler reads the tree as it is; salt is what differs between two
\* compilations of the same inputs.
Binary(salt) == [of |-> tree.src.code, version |-> job.version[Root], commit |-> job.commit,
                 time |-> job.time, salt |-> salt]

Compile ==
    /\ At("compile")
    /\ \E salt \in {0, 1} :
         /\ PutFile("artifact", File(job.n, Binary(salt)))
         /\ builds' = IF Root = "canonical" THEN builds ELSE builds \cup {<<job.n, Root, Binary(salt)>>}
         /\ Pass([job EXCEPT !.binary = Binary(salt)])
    /\ UNCHANGED <<tree, verdict>>

Recollect ==
    /\ At("recollect")
    /\ IF job.of = CollectSourceManifest THEN Pass(job) ELSE Fail
    /\ Keep /\ UNCHANGED roots

WriteSourceManifest ==
    /\ At("sources")
    /\ PutFile("source-manifest", File(job.n, job.of))
    /\ Pass(job)
    /\ Keep

ReleaseManifest(d) ==
    [subject |-> job.binary, version |-> job.version[Root], commit |-> job.commit, time |-> job.time,
     dirty |-> job.dirty, sources |-> d["source-manifest"].says]

WriteManifest ==
    /\ At("manifest")
    /\ PutFile("release-manifest", File(job.n, ReleaseManifest(Dir)))
    /\ Pass(job)
    /\ Keep

\* Digests of the three core files and, when it is there, of the report.
ExpectedChecksums(d) ==
    [n \in {"artifact", "release-manifest", "source-manifest"} \cup (DOMAIN d \cap {"reproducibility-report"}) |->
        IF n = "artifact" THEN d["release-manifest"].says.subject ELSE d[n].says]

WriteReleaseSums ==
    /\ At("sums")
    /\ PutFile("SHA256SUMS", File(job.n, ExpectedChecksums(Dir)))
    /\ Pass(job)
    /\ Keep

(***************************************************************************)
(* The check                                                               *)
(***************************************************************************)
Readable(d, names) == Has(d, names) /\ \A n \in names : ~d[n].cut

ManifestSchemaHolds(m, version) == m.version = version

VerifySourceManifest(d) ==
    /\ Readable(d, {"source-manifest"})
    /\ d["source-manifest"].says = d["release-manifest"].says.sources
    /\ d["source-manifest"].says = CollectSourceManifest

\* A report has to be of this release; there need not be one.
VerifyReproducibilityReport(d) ==
    "reproducibility-report" \in DOMAIN d =>
        /\ Readable(d, {"reproducibility-report"})
        /\ LET r == d["reproducibility-report"].says
               m == d["release-manifest"].says
           IN  /\ r.subject = m.subject /\ r.sources = m.sources /\ r.commit = m.commit
               /\ r.runs = [w \in {"first", "second"} |-> [artifact |-> m.subject, manifest |-> m, sources |-> m.sources]]

ReleaseVerified(d, version) ==
    /\ Readable(d, {"release-manifest", "SHA256SUMS"})
    /\ ManifestSchemaHolds(d["release-manifest"].says, version)
    /\ VerifySourceManifest(d)
    /\ Readable(d, {"artifact"})
    /\ d["artifact"].says = d["release-manifest"].says.subject
    /\ VerifyReproducibilityReport(d)
    /\ d["SHA256SUMS"].says = ExpectedChecksums(d)

CheckRelease ==
    /\ At("check")
    /\ IF ReleaseVerified(Dir, job.version[Root])
       THEN Pass(job) /\ verdict' = [by |-> "check", dir |-> Dir, tree |-> tree]
       ELSE Fail /\ UNCHANGED verdict
    /\ UNCHANGED <<tree, roots, builds>>

(***************************************************************************)
(* The witnesses                                                           *)
(***************************************************************************)
ReadSnapshot(d) == [n \in {"release-manifest", "source-manifest", "artifact", "SHA256SUMS"} |-> d[n].says]
CoreChecksums(s) == [n \in {"artifact", "release-manifest", "source-manifest"} |-> s[n]]

Snapshot ==
    /\ At("snapshot")
    /\ Pass([job EXCEPT !.canonical = ReadSnapshot(Dir)])
    /\ Keep /\ UNCHANGED roots

\* A witness is built in directories of its own that are empty at first.
Prepare ==
    /\ At("prepare")
    /\ roots' = [roots EXCEPT ![Root] = Nothing]
    /\ Pass(job)
    /\ Keep

SameRelease(witness, canonical) ==
    /\ \A n \in {"release-manifest", "source-manifest", "artifact"} : witness[n] = canonical[n]
    /\ witness["SHA256SUMS"] = CoreChecksums(canonical)

WitnessSnapshots == [w \in {"first", "second"} |-> ReadSnapshot(roots[w])]

Compare ==
    /\ At("compare")
    /\ IF \A w \in {"first", "second"} : SameRelease(WitnessSnapshots[w], job.canonical)
       THEN Pass([job EXCEPT !.witness = WitnessSnapshots]) ELSE Fail
    /\ Keep /\ UNCHANGED roots

RunOf(s) == [artifact |-> s["artifact"], manifest |-> s["release-manifest"], sources |-> s["source-manifest"]]
Reproducibility ==
    [subject |-> job.canonical["artifact"], sources |-> job.canonical["release-manifest"].sources,
     commit |-> job.canonical["release-manifest"].commit, runs |-> [w \in {"first", "second"} |-> RunOf(job.witness[w])]]

WriteReproducibility ==
    /\ At("report")
    /\ PutFile("reproducibility-report", File(job.n, Reproducibility))
    /\ Pass(job)
    /\ Keep

\* Only a task that gets here removes the directories of its witnesses: the
\* others end their process where they fail.
Cleanup ==
    /\ At("cleanup")
    /\ roots' = [roots EXCEPT !["first"] = Nothing, !["second"] = Nothing]
    /\ Pass(job)
    /\ Keep

(***************************************************************************)
(* The attestation                                                         *)
(***************************************************************************)
\* GitHub signs the digests in SHA256SUMS for the commit that the workflow is
\* of; it may fail to.
Attest ==
    /\ At("attest")
    /\ \/ Fail
       \/ /\ ~Dir["SHA256SUMS"].cut
          /\ Pass([job EXCEPT !.attested = [subjects |-> Dir["SHA256SUMS"].says, commit |-> job.sha]])
    /\ Keep /\ UNCHANGED roots

\* gh attestation verify, of each subject: whether its digest is attested.
Verified4(d) ==
    [n \in ToSet(Subjects) |->
        /\ job.attested # None /\ n \in DOMAIN d /\ n \in DOMAIN job.attested.subjects
        /\ d[n].says = job.attested.subjects[n]]

CheckAttestation ==
    /\ At("gh")
    /\ LET seen == Verified4(Dir)
           ok   == \A n \in ToSet(Subjects) : seen[n]
           d    == Put(Put(Dir, "verification", File(job.n, seen)), "status", File(job.n, IF ok THEN 0 ELSE 1))
       IN  roots' = [roots EXCEPT ![Root] =
                       IF job.attested = None THEN d ELSE Put(d, "bundle", File(job.n, job.attested))]
    /\ Pass(job)
    /\ Keep

\* Fault: the commit of the workflow is not compared with the manifest's.
AnyWorkflow(bundle, commit) == bundle.commit \in Nat

VerifyGitHubWorkflowPredicate(bundle, commit) == bundle.commit = commit

\* The statement is of the manifest's commit, and names exactly the four
\* subjects with these digests.
VerifyReleaseProvenanceBundleSubjects(bundle, subjects, commit) ==
    VerifyGitHubWorkflowPredicate(bundle, commit) /\ bundle.subjects = subjects
VerifyReleaseAttestationVerification(seen) == \A n \in ToSet(Subjects) : seen[n]

AttestedFiles == ToSet(Subjects) \cup {"SHA256SUMS", "bundle", "verification", "status"}

ManifestPassed(d) ==
    /\ Readable(d, AttestedFiles \ {"artifact"})
    /\ d["release-manifest"].says.sources = d["source-manifest"].says
    /\ d["reproducibility-report"].says.subject = d["release-manifest"].says.subject
    /\ d["reproducibility-report"].says.sources = d["release-manifest"].says.sources
ChecksumsPassed(d) == d["SHA256SUMS"].says = ExpectedChecksums(d)
ProvenancePassed(d) ==
    /\ VerifyReleaseProvenanceBundleSubjects(d["bundle"].says, ExpectedChecksums(d), d["release-manifest"].says.commit)
    /\ VerifyReleaseAttestationVerification(d["verification"].says)

SignedRelease(d) ==
    IF /\ Has(d, AttestedFiles) /\ d["status"].says = 0
       /\ ManifestPassed(d) /\ ChecksumsPassed(d) /\ ProvenancePassed(d)
    THEN "recorded" ELSE "failed"

RecordEvidence ==
    /\ At("record")
    /\ Pass([job EXCEPT !.record = [dir |-> Dir, signed |-> SignedRelease(Dir), head |-> tree.head, dirty |-> SourceDirty]])
    /\ Keep /\ UNCHANGED roots

\* The verifier reads the files again, and compares the binary with its manifest.
SignedReleaseHolds(d) ==
    /\ SignedRelease(d) = "recorded"
    /\ Readable(d, {"artifact"})
    /\ d["artifact"].says = d["release-manifest"].says.subject
    /\ d["reproducibility-report"].says.commit = d["release-manifest"].says.commit

EvidenceHolds == job.record.dir = Dir /\ job.record.head = tree.head /\ job.record.dirty = SourceDirty

AcceptEvidence ==
    /\ At("accept")
    /\ IF EvidenceHolds /\ job.record.signed = "recorded" /\ SignedReleaseHolds(Dir)
       THEN verdict' = [by |-> "accept", dir |-> Dir, tree |-> tree]
       ELSE UNCHANGED verdict
    /\ Pass(job)
    /\ UNCHANGED <<tree, roots, builds>>

(***************************************************************************)
(* The environment                                                         *)
(***************************************************************************)
\* A command fails or times out, or a process is killed, a file of the release
\* that it was writing cut short.
Torn ==
    CASE At("compile") -> {<<"artifact", File(job.n, Binary(0))>>}
      [] At("sources") -> {<<"source-manifest", File(job.n, job.of)>>}
      [] At("manifest") -> {<<"release-manifest", File(job.n, ReleaseManifest(Dir))>>}
      [] At("sums") -> {<<"SHA256SUMS", File(job.n, ExpectedChecksums(Dir))>>}
      [] At("report") -> {<<"reproducibility-report", File(job.n, Reproducibility)>>}
      [] OTHER -> {}

StopTask ==
    /\ job.pc > 0
    /\ job.pc < GhStep \/ job.task # "workflow"
    /\ job' \in {Failed(job), Idle(job.n)}
    /\ \/ UNCHANGED roots
       \/ Root = "canonical" /\ \E t \in Torn : PutFile(t[1], Cut(t[2]))
       \/ At("clear") /\ \E n \in DOMAIN Dir : roots' = [roots EXCEPT ![Root] = Without(@, {n})]
    /\ Keep

\* An edit gives the sources a content that they did not have before.
EditTree(part) ==
    /\ tree.edits < MaxTreeEdits
    /\ tree' = [tree EXCEPT !.src[part] = tree.edits + 2, !.edits = @ + 1]
    /\ UNCHANGED <<roots, job, builds, verdict>>

CommitTree ==
    /\ tree.head < MaxCommits /\ SourceDirty
    /\ tree' = [tree EXCEPT !.head = @ + 1, !.contents = Append(@, tree.src)]
    /\ UNCHANGED <<roots, job, builds, verdict>>

\* The tree goes back to the content of HEAD, but not while a task runs: an edit
\* that is undone between the two collections of a build is not seen by it.
RestoreTree ==
    /\ job.pc = 0 /\ SourceDirty
    /\ tree' = [tree EXCEPT !.src = tree.contents[tree.head]]
    /\ UNCHANGED <<roots, job, builds, verdict>>

(***************************************************************************)
(* Specification                                                           *)
(***************************************************************************)
ReleaseInit ==
    /\ tree = [src |-> Sources0, edits |-> 0, head |-> 1, contents |-> <<Sources0>>]
    /\ roots = [r \in Places |-> Nothing]
    /\ job = Idle(0)
    /\ builds = {}
    /\ verdict = None

ReleaseNext ==
    \/ StartTask \/ Load \/ Collect \/ ResolveCommit \/ ResolveTime \/ InspectStatus \/ ClearRoot \/ Compile
    \/ Recollect \/ WriteSourceManifest \/ WriteManifest \/ WriteReleaseSums \/ CheckRelease
    \/ Snapshot \/ Prepare \/ Compare \/ WriteReproducibility \/ Cleanup
    \/ Attest \/ CheckAttestation \/ RecordEvidence \/ AcceptEvidence
    \/ StopTask \/ (\E part \in {"code", "version"} : EditTree(part)) \/ CommitTree \/ RestoreTree

ReleaseSpec == ReleaseInit /\ [][ReleaseNext]_releaseVars

(***************************************************************************)
(* Properties                                                              *)
(***************************************************************************)
Accepted(by) == verdict # None /\ verdict.by = by
Released == verdict.dir["artifact"].says

Reproduced == \E n \in 1..MaxTasks : \A w \in {"first", "second"} : <<n, w, Released>> \in builds

\* A release that verify accepts was compiled from the sources that are in the
\* tree at that moment, with their version and the manifest's commit linked in,
\* whatever was edited or stopped before; and if a reproducibility report is
\* with it, it was compiled twice more in one task, each time to that binary.
VerifiedOfItsSources ==
    Accepted("check") =>
        /\ Released.of = verdict.tree.src.code /\ Released.version = verdict.tree.src.version
        /\ Released.commit = verdict.dir["release-manifest"].says.commit
        /\ "reproducibility-report" \in DOMAIN verdict.dir => Reproduced

\* A signed release that the evidence verifier accepts was compiled from the
\* sources of the commit that the attestation names, with that commit linked in.
SignedOfItsCommit ==
    Accepted("accept") =>
        LET commit == verdict.dir["bundle"].says.commit
        IN  /\ Released.commit = commit
            /\ Released.of = verdict.tree.contents[commit].code
            /\ Released.version = verdict.tree.contents[commit].version

\* What either verifier accepts as a release was compiled from what it is a
\* release of: the sources present, or those of the attested commit.
AcceptedReleaseIsOfItsSources == VerifiedOfItsSources /\ SignedOfItsCommit
=============================================================================
