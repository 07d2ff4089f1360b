SPECIFICATION Spec
CONSTANTS
    t1 = t1
    t2 = t2
    Thread <- MCThread
    Commands <- MCCommands
    Replies <- MCReplies
    Errors <- MCErrors
    Drivers <- MCDrivers
    MaxRetries = 3
    MaxRuns = 2
INVARIANTS
    NoEarlyFailure
    CrashContent
    ReportedCrashIsThere
PROPERTY
    CommandEnds
\* the last run is over
CHECK_DEADLOCK FALSE
