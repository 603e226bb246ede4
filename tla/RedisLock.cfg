SPECIFICATION Spec
CONSTANTS
    a1 = a1
    a2 = a2
    b1 = b1
    pA = pA
    pB = pB
    g1 = g1
    g2 = g2
    g3 = g3
    NoGate = NoGate
    NoToken = NoToken
    Callers <- MCCallers
    Processes <- MCProcesses
    Home <- MCHome
    Gates <- MCGates
    MaxCalls = 1
SYMMETRY MCSymmetry
CHECK_DEADLOCK FALSE
INVARIANTS
    HolderOwnsLease
    GatesReclaimed
PROPERTY
    ImplementsLease
