SPECIFICATION Spec
CONSTANTS
    Worlds <- MCWorlds
    FixtureNames = {"fixtures", "fixtures_v2"}
    FlatbuffersAvailable = TRUE
    Gap = 2
    KeyLength = 2
    Width = 2
INVARIANTS
    OutputIsRight
    NothingIsLost
    EffectsBelong
    DecodedReadsBack
\* the command is over
CHECK_DEADLOCK FALSE
