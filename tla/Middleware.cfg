SPECIFICATION MiddlewareSpec
CONSTANTS
    a1 = a1
    a2 = a2
    b1 = b1
    digestA = digestA
    digestB = digestB
    NoRequest = NoRequest
    NoFingerprint = NoFingerprint
    Requests <- MCRequests
    Fingerprint <- MCFingerprint
    Lifetime = 3
    Overlap = 2
    RequestTimeout = 2
    LockWaitTimeout = 1
    LockTTL = 3
    Writers = {r1, r2, r3}
    Invalid = {r3}
    Keys = {k1, k2}
    Unreadable = Unreadable
    MaxLines = 3
SYMMETRY MCSymmetry
INVARIANTS
    ExecutionExclusive
    OwnBindingOutlivesResponse
    LogTellsAcknowledged
