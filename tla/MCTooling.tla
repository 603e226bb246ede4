----------------------------- MODULE MCTooling ------------------------------
(***************************************************************************)
(* The repository's tooling in one run.  The parts share no state, so one  *)
(* of them is explored at a time, the others at rest: two runs of any      *)
(* evidence script with one change of the repository; two tasks of the     *)
(* server release with an edit and a commit; three edits of the contract   *)
(* and two releases of it; two tasks of the SDK with two edits and two     *)
(* failing writes.                                                         *)
(***************************************************************************)
EXTENDS EvidencePipeline, ServerRelease, OpenAPICompat, SDKPublication

VARIABLE focus

toolingVars == <<vars, releaseVars, contractVars, sdkVars, focus>>

ToolingInit ==
    /\ focus \in {"evidence", "release", "contract", "sdk"}
    /\ Init /\ ReleaseInit /\ PublicationInit
    /\ IF focus = "contract" THEN ContractInit ELSE contract = Absent /\ baselines = <<>>
    /\ focus # "evidence" => kind = "audit-chain"
    /\ focus # "sdk" => ~project.external /\ sdk.client = NoFile

ToolingNext ==
    \/ focus = "evidence" /\ Next /\ UNCHANGED <<releaseVars, contractVars, sdkVars, focus>>
    \/ focus = "release" /\ ReleaseNext /\ UNCHANGED <<vars, contractVars, sdkVars, focus>>
    \/ focus = "contract" /\ ContractNext /\ UNCHANGED <<vars, releaseVars, sdkVars, focus>>
    \/ focus = "sdk" /\ PublicationNext /\ UNCHANGED <<vars, releaseVars, contractVars, focus>>

ToolingSpec == ToolingInit /\ [][ToolingNext]_toolingVars
=============================================================================
