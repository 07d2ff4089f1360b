SPECIFICATION Spec
CONSTANTS
    r1 = r1
    r2 = r2
    h1 = h1
    h2 = h2
    w1 = w1
    w2 = w2
    Repro <- MCRepro
    Hash <- MCHash
    Worker <- MCWorker
    Worlds <- MCSharedWorlds
    MaxSessions = 1
INVARIANT
    ReportedIsWhole
CHECK_DEADLOCK FALSE
