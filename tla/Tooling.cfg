SPECIFICATION ToolingSpec
CONSTANTS
  Kinds <- AllKinds
  MaxRuns = 2
  MaxEdits = 1
  MaxTasks = 2
  MaxTreeEdits = 1
  MaxCommits = 2
  MaxContractEdits = 3
  MaxReleases = 3
  MaxProjectEdits = 2
  MaxSDKTasks = 2
  MaxWriteFailures = 2
INVARIANTS AcceptedPassIsOneRun AcceptedEvidenceIsCurrent
INVARIANTS AcceptedReleaseIsOfItsSources
INVARIANTS ReleasedContractsServeOldClients SDKIsWhole
CHECK_DEADLOCK FALSE
