SPECIFICATION ServingSpec
CONSTANTS
    w1 = w1
    w2 = w2
    s1 = s1
    s2 = s2
    t1 = t1
    t2 = t2
    u1 = u1
    e1 = e1
    e2 = e2
    NoError = NoError
    Workers <- MCWorkers
    Failures <- MCFailures
    Starters <- TwoStarters
    Stoppers <- TwoStoppers
    Waiters <- OneWaiter
    Callers = {c1, c2}
    Checks = {redis}
    Drainers = {d1}
    NoReport = NoReport
    Free = Free
    Refresher = Refresher
    MaxDrains = 2
CHECK_DEADLOCK FALSE
INVARIANT VerdictIsFinal
INVARIANT ReadyMeansCurrent
PROPERTY GroupStops
PROPERTY CallsAreAnswered
