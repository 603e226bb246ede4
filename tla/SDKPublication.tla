-------------------------- MODULE SDKPublication ---------------------------
(***************************************************************************)
(* A project's OpenAPI document, the Go client generated from it and the   *)
(* release manifest of that client, while the document, the pin and HEAD   *)
(* are edited, writes fail and processes are stopped.                      *)
(*                                                                         *)
(* The document is a file of the workspace or, for an external contract,   *)
(* that of a pinned commit of another repository, whose objects a bare     *)
(* repository caches.  Every process reads contracts/projects.json once,   *)
(* when it starts.  A digest identifies a content, so it is the content.   *)
(* The two processes are not both generating: no lock keeps two generators *)
(* apart.                                                                  *)
(***************************************************************************)
EXTENDS Naturals, FiniteSets, SequencesExt

CONSTANTS MaxProjectEdits,  \* bound: edits of the document, the pin, HEAD and moves of the remote ref
          MaxSDKTasks,      \* bound: tasks started
          MaxWriteFailures  \* bound: writes that fail

ASSUME PublicationBounds == {MaxProjectEdits, MaxSDKTasks, MaxWriteFailures} \subseteq Nat

VARIABLES
  project,       \* where the document lives, the workspace document, the pin, the remote ref, HEAD
  gitCache,      \* the bare repository: whether it exists, the commits it holds
  materialised,  \* the documents under .temp/contracts, by commit
  sdk,           \* client.gen.go, VERSION and release-manifest.json
  process,       \* what each process is doing
  publication,   \* how the last publication ended, and the files it found
  spent          \* edits, tasks and failures so far

sdkVars == <<project, gitCache, materialised, sdk, process, publication, spent>>

NoFile == [missing |-> TRUE]
NoVersion == 0
\* Three documents: an edit may keep the version, change it, or use what the
\* generator does not support.
Documents == 1..3
VersionOf(d) == IF d = 1 THEN 1 ELSE 2
AssertOpenAPIDocument(d) == d \in Documents
GenerateSource(d) == [source |-> d, version |-> VersionOf(d)]
Supported(d) == d # 3

(***************************************************************************)
(* Tasks                                                                   *)
(***************************************************************************)
ResolveProjectDocument(fetch) ==
    IF project.external THEN (IF fetch THEN <<"ls-remote", "init", "fetch">> ELSE <<>>) \o <<"cat-file", "show">>
    ELSE <<"read">>
CheckSDK(fetch) == ResolveProjectDocument(fetch) \o <<"format", "compare">>
BuildSDKReleaseManifest == ResolveProjectDocument(FALSE) \o <<"version", "client">>

TaskOf(kind, fetch) ==
    CASE kind = "materialize" -> ResolveProjectDocument(fetch)
      [] kind = "generate" -> ResolveProjectDocument(fetch) \o <<"format", "snapshot", "publishClient", "publishVersion">>
      [] kind = "check" -> CheckSDK(fetch)
      [] kind = "prepare" -> <<"commit", "fork">> \o CheckSDK(FALSE) \o <<"join">> \o BuildSDKReleaseManifest \o <<"writeManifest">>
      [] kind = "verify" -> <<"fork">> \o CheckSDK(FALSE) \o <<"join", "recorded">> \o BuildSDKReleaseManifest \o <<"verifyManifest">>
SDKTasks == {"materialize", "generate", "check", "prepare", "verify"}

Processes == 1..2
AtRest == [kind |-> "none", fetch |-> FALSE, pc |-> 0, pin |-> 0, parent |-> 0, document |-> 0, source |-> NoFile, found |-> NoFile,
           commit |-> 0, manifest |-> NoFile]
Unpublished == [end |-> "none", found |-> NoFile]
StepAt(p, step) == process[p].pc > 0 /\ TaskOf(process[p].kind, process[p].fetch)[process[p].pc] = step
Done(q) == IF q.pc = Len(TaskOf(q.kind, q.fetch)) THEN AtRest ELSE [q EXCEPT !.pc = @ + 1]
Proceed(p, q) == process' = [process EXCEPT ![p] = Done(q)]
Abort(p) == process' = [process EXCEPT ![p] = AtRest]
KeepFiles == UNCHANGED <<project, gitCache, materialised, sdk, publication, spent>>

StartSDKTask(p) ==
    /\ process[p].pc = 0 /\ spent.tasks < MaxSDKTasks
    /\ \E kind \in SDKTasks, fetch \in BOOLEAN :
          /\ fetch => project.external /\ kind \in {"materialize", "generate", "check"}
          /\ kind = "generate" => \A o \in Processes : process[o].kind # "generate"
          /\ process' = [process EXCEPT ![p] = [AtRest EXCEPT !.kind = kind, !.fetch = fetch, !.pc = 1, !.pin = project.pin]]
          /\ publication' = IF kind = "generate" THEN Unpublished ELSE publication
    /\ spent' = [spent EXCEPT !.tasks = @ + 1]
    /\ UNCHANGED <<project, gitCache, materialised, sdk>>

(***************************************************************************)
(* The document.  Git runs against one deadline: any of its commands fails *)
(* when the time is spent or the remote does not answer.                   *)
(***************************************************************************)
ReadWorkspaceDocument(p) ==
    /\ StepAt(p, "read")
    /\ Proceed(p, [process[p] EXCEPT !.document = project.document])
    /\ KeepFiles

ResolveRef(p) ==
    /\ StepAt(p, "ls-remote")
    /\ IF project.ref = process[p].pin THEN Proceed(p, process[p]) ELSE Abort(p)
    /\ KeepFiles

InitCache(p) ==
    /\ StepAt(p, "init")
    /\ gitCache' = [gitCache EXCEPT !.exists = TRUE]
    /\ Proceed(p, process[p])
    /\ UNCHANGED <<project, materialised, sdk, publication, spent>>

\* The pinned commit is not looked for: what the ref names by now is fetched.
Fetch(p) ==
    /\ StepAt(p, "fetch")
    /\ gitCache' = IF process[p].pin \in gitCache.commits THEN gitCache
                   ELSE [gitCache EXCEPT !.commits = @ \cup {project.ref}]
    /\ Proceed(p, process[p])
    /\ UNCHANGED <<project, materialised, sdk, publication, spent>>

\* ensureCommit ends here, with or without --fetch.
CommitAvailable(p) ==
    /\ StepAt(p, "cat-file")
    /\ IF gitCache.exists /\ process[p].pin \in gitCache.commits THEN Proceed(p, process[p]) ELSE Abort(p)
    /\ KeepFiles

\* The document of the pinned commit, written below .temp unless it is there.
ShowDocument(p) == LET pin == process[p].pin IN
    /\ StepAt(p, "show")
    /\ materialised' = {m \in materialised : m.commit # pin} \cup {[commit |-> pin, document |-> pin]}
    /\ Proceed(p, [process[p] EXCEPT !.document = pin])
    /\ UNCHANGED <<project, gitCache, sdk, publication, spent>>

GitFails(p) ==
    /\ \E step \in {"ls-remote", "init", "fetch", "show"} : StepAt(p, step)
    /\ Abort(p)
    /\ KeepFiles

(***************************************************************************)
(* The client                                                              *)
(***************************************************************************)
\* Generated and formatted in a directory of its own.
FormatGeneratedGoSDKSource(p) == LET d == process[p].document IN
    /\ StepAt(p, "format")
    /\ \/ /\ AssertOpenAPIDocument(d) /\ Supported(d)
          /\ Proceed(p, [process[p] EXCEPT !.source = GenerateSource(d)])
       \/ Abort(p)     \* the document is refused, or no gofmt runs
    /\ KeepFiles

SnapshotFiles(p) ==
    /\ StepAt(p, "snapshot")
    /\ Proceed(p, [process[p] EXCEPT !.found = [client |-> sdk.client, version |-> sdk.version]])
    /\ KeepFiles

\* A file is written beside its target and renamed: it changes whole or not at all.
PublishClient(p) ==
    /\ StepAt(p, "publishClient")
    /\ sdk' = [sdk EXCEPT !.client = process[p].source]
    /\ Proceed(p, process[p])
    /\ UNCHANGED <<project, gitCache, materialised, publication, spent>>

PublishVersion(p) ==
    /\ StepAt(p, "publishVersion")
    /\ sdk' = [sdk EXCEPT !.version = process[p].source.version]
    /\ publication' = [end |-> "published", found |-> process[p].found]
    /\ Proceed(p, process[p])
    /\ UNCHANGED <<project, gitCache, materialised, spent>>

\* Fault: only what was found is written back, a file that was not there stays.
RollbackExisting(found) == [sdk EXCEPT !.client = IF found.client = NoFile THEN @ ELSE found.client]

\* The files published before the one that failed are put back, latest first.
RestorePublished(found) == [sdk EXCEPT !.client = found.client]

\* The first write fails: nothing was published.  The second: the client is put
\* back, or that fails too and the error says so.
PublishFails(p) ==
    /\ spent.failures < MaxWriteFailures
    /\ \/ /\ StepAt(p, "publishClient")
          /\ publication' = [end |-> "failed", found |-> process[p].found]
          /\ UNCHANGED sdk
          /\ spent' = [spent EXCEPT !.failures = @ + 1]
       \/ /\ StepAt(p, "publishVersion")
          /\ \/ /\ sdk' = RestorePublished(process[p].found)
                /\ publication' = [end |-> "failed", found |-> process[p].found]
                /\ spent' = [spent EXCEPT !.failures = @ + 1]
             \/ /\ spent.failures + 2 <= MaxWriteFailures
                /\ publication' = [end |-> "incomplete", found |-> process[p].found]
                /\ UNCHANGED sdk
                /\ spent' = [spent EXCEPT !.failures = @ + 2]
    /\ Abort(p)
    /\ UNCHANGED <<project, gitCache, materialised>>

\* go-sdk check
CompareSDK(p) ==
    /\ StepAt(p, "compare")
    /\ IF sdk.client = process[p].source /\ sdk.version = process[p].source.version
       THEN Proceed(p, process[p]) ELSE Abort(p)
    /\ KeepFiles

(***************************************************************************)
(* The release manifest                                                    *)
(***************************************************************************)
SourceCommit(p) ==
    /\ StepAt(p, "commit")
    /\ Proceed(p, [process[p] EXCEPT !.commit = project.head])
    /\ KeepFiles

\* The check is a process of its own, which reads the project manifest again and
\* may run out of what is left of the time of all checks.
SpawnCheck(p) ==
    /\ StepAt(p, "fork")
    /\ \/ Proceed(p, [process[p] EXCEPT !.pin = project.pin, !.parent = process[p].pin])
       \/ Abort(p)
    /\ KeepFiles

CheckEnds(p) ==
    /\ StepAt(p, "join")
    /\ Proceed(p, [process[p] EXCEPT !.pin = process[p].parent])
    /\ KeepFiles

RecordedSourceCommit(p) ==
    /\ StepAt(p, "recorded")
    /\ IF sdk.manifest = NoFile THEN Abort(p) ELSE Proceed(p, [process[p] EXCEPT !.commit = sdk.manifest.commit])
    /\ KeepFiles

\* The manifest's document is the one resolved by this process, after the check.
ReadVersion(p) ==
    /\ StepAt(p, "version")
    /\ IF sdk.version = VersionOf(process[p].document) THEN Proceed(p, process[p]) ELSE Abort(p)
    /\ KeepFiles

ValidateGeneratedClient(client, d) == client # NoFile /\ client.source = d /\ client.version = VersionOf(d)

ReadClient(p) == LET d == process[p].document IN
    /\ StepAt(p, "client")
    /\ IF ValidateGeneratedClient(sdk.client, d)
       THEN Proceed(p, [process[p] EXCEPT !.manifest = [document |-> d, version |-> VersionOf(d), client |-> sdk.client,
                                                        commit |-> process[p].commit]])
       ELSE Abort(p)
    /\ KeepFiles

WriteSDKReleaseManifest(p) ==
    /\ StepAt(p, "writeManifest")
    /\ \/ /\ sdk' = [sdk EXCEPT !.manifest = process[p].manifest]
          /\ Proceed(p, process[p]) /\ UNCHANGED spent
       \/ /\ spent.failures < MaxWriteFailures
          /\ spent' = [spent EXCEPT !.failures = @ + 1]
          /\ Abort(p) /\ UNCHANGED sdk
    /\ UNCHANGED <<project, gitCache, materialised, publication>>

VerifySDKReleaseManifest(p) ==
    /\ StepAt(p, "verifyManifest")
    /\ publication' = IF sdk.manifest = process[p].manifest
                      THEN [end |-> "verified", found |-> sdk.manifest] ELSE publication
    /\ Abort(p)
    /\ UNCHANGED <<project, gitCache, materialised, sdk, spent>>

(***************************************************************************)
(* The surroundings                                                        *)
(***************************************************************************)
\* A developer edits the document or the pin, or commits; the remote ref moves.
EditProject ==
    /\ spent.edits < MaxProjectEdits
    /\ \/ \E d \in Documents \ {project.document} : ~project.external /\ project' = [project EXCEPT !.document = d]
       \/ \E d \in Documents \ {project.pin} : project.external /\ project' = [project EXCEPT !.pin = d]
       \/ \E d \in Documents \ {project.ref} : project.external /\ project' = [project EXCEPT !.ref = d]
       \/ project' = [project EXCEPT !.head = @ + 1]
    /\ spent' = [spent EXCEPT !.edits = @ + 1]
    /\ UNCHANGED <<gitCache, materialised, sdk, process, publication>>

\* A process is stopped between two steps.
StopProcess(p) ==
    /\ process[p].pc > 0
    /\ Abort(p)
    /\ KeepFiles

PublicationInit ==
    /\ \E external \in BOOLEAN : project = [external |-> external, document |-> 1, pin |-> 1, ref |-> 1, head |-> 1]
    /\ gitCache = [exists |-> FALSE, commits |-> {}]
    /\ materialised = {}
    /\ sdk \in {[client |-> NoFile, version |-> NoVersion, manifest |-> NoFile],
                [client |-> GenerateSource(1), version |-> VersionOf(1), manifest |-> NoFile]}
    /\ process = [p \in Processes |-> AtRest]
    /\ publication = Unpublished
    /\ spent = [edits |-> 0, tasks |-> 0, failures |-> 0]

PublicationNext ==
    \/ EditProject
    \/ \E p \in Processes :
        \/ StartSDKTask(p) \/ StopProcess(p)
        \/ ReadWorkspaceDocument(p) \/ ResolveRef(p) \/ InitCache(p) \/ Fetch(p) \/ CommitAvailable(p) \/ ShowDocument(p)
        \/ GitFails(p) \/ FormatGeneratedGoSDKSource(p) \/ SnapshotFiles(p) \/ PublishClient(p) \/ PublishVersion(p)
        \/ PublishFails(p) \/ CompareSDK(p) \/ SourceCommit(p) \/ SpawnCheck(p) \/ CheckEnds(p) \/ RecordedSourceCommit(p)
        \/ ReadVersion(p) \/ ReadClient(p) \/ WriteSDKReleaseManifest(p) \/ VerifySDKReleaseManifest(p)

PublicationSpec == PublicationInit /\ [][PublicationNext]_sdkVars

(***************************************************************************)
(* A generate that reports a plain failure has changed neither file, be it *)
(* the first or the second write that failed and were the files there      *)
(* before or not.                                                          *)
(***************************************************************************)
FailureLeavesNothing ==
    publication.end = "failed" => sdk.client = publication.found.client /\ sdk.version = publication.found.version

(***************************************************************************)
(* A release manifest names one document: its client was generated from    *)
(* that document, at the version it names, although the document may have  *)
(* been edited or pinned anew, and the client generated anew, between the  *)
(* check, the reads and the write.                                         *)
(***************************************************************************)
ManifestOfOneDocument ==
    sdk.manifest # NoFile => sdk.manifest.client = GenerateSource(sdk.manifest.document)
                             /\ sdk.manifest.version = VersionOf(sdk.manifest.document)

\* What the SDK tasks leave is whole: no half of a publication that failed, and
\* no manifest of one document for the client of another.
SDKIsWhole == FailureLeavesNothing /\ ManifestOfOneDocument
=============================================================================
