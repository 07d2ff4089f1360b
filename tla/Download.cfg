SPECIFICATION FairSpec
CONSTANTS
    r1 = r1
    r2 = r2
    h1 = h1
    h2 = h2
    w1 = w1
    w2 = w2
    Repro <- MCRepro
    Hash <- MCHash
    Worker <- MCWorker
    Worlds <- MCWorlds
    MaxSessions = 2
INVARIANTS
    TypeOK
    OneWriter
    Provenance
    FixtureCount
    ReportedIsThereUnlessWriteFails
    ReportedIsWholeUndisturbed
    EveryItemAnswered
PROPERTIES
    NeverRewritten
    SessionEnds
\* the last session may end
CHECK_DEADLOCK FALSE
