SPECIFICATION ServingSpec
CONSTANTS
    w1 = w1
    w2 = w2
    s1 = s1
    s2 = s2
    t1 = t1
    t2 = t2
    u1 = u1
    e1 = e1
    e2 = e2
    NoError = NoError
    Workers <- MCWorkers
    Failures <- MCFailures
    Starters <- OneStarter
    Stoppers <- OneStopper
    Waiters <- OneWaiter
    Callers = {c1}
    Checks = {redis}
    Drainers = {}
    NoReport = NoReport
    Free = Free
    Refresher = Refresher
    MaxDrains = 1
CHECK_DEADLOCK FALSE
PROPERTY
    EveryShutdownStopsGroup
