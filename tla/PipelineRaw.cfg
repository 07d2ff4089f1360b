SPECIFICATION Spec
CONSTANTS
    h1 = h1
    h2 = h2
    h3 = h3
    p1 = p1
    p2 = p2
    Hash <- MCHash
    Payload <- MCPayload
    Worlds <- MCRawWorlds
INVARIANT
    RawIsConverted
\* the last session may end
CHECK_DEADLOCK FALSE
