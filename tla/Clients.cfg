SPECIFICATION ClientsSpec
CONSTANTS
    Requests = {r1, r2, r3}
    FailureThreshold = 2
    OpenTimeout = 2
    MaxGeneration = 6
    good = good
    bad = bad
    NoMessage = NoMessage
    NoWorker = NoWorker
    Workers = {w1, w2}
    Messages <- MCMessages
    Malformed <- MCMalformed
    MaxAttempts = 2
    DeliveryLimits <- MCDeliveryLimits
    MaxFaults = 3
    Configs <- SufficientConfigs
    MaxDuration = 100
INVARIANT OneProbeOnTheWire
INVARIANT OneDeadLetterCopy
INVARIANT NoSettlementWithoutLease
INVARIANT LeaseOutlivesDelivery
INVARIANT GivenUpOnlyByFaults
PROPERTY ImplementsContract
PROPERTY EventuallyCloses
PROPERTY ImplementsAtLeastOnce
PROPERTY EverythingSettles
