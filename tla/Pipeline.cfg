SPECIFICATION Spec
CONSTANTS
    h1 = h1
    h2 = h2
    h3 = h3
    p1 = p1
    p2 = p2
    Hash <- MCHash
    Payload <- MCPayload
    Worlds <- MCWorlds
INVARIANTS
    TypeOK
    TestedIsCreated
    TestedIsWhatWasFound
    TestedOnce
    NoInputIsLost
\* the last session may end
CHECK_DEADLOCK FALSE
