SPECIFICATION Spec
CONSTANTS
    p1 = p1
    p2 = p2
    Process <- MCProcess
    Symbol <- MCSymbol
    Recognised <- MCRecognised
    Worlds <- MCWorlds
    Compiler <- MCCompiler
    MaxKills = 2
INVARIANTS
    LoadsUndisturbed
    BuiltOnce
PROPERTY
    EveryLoadEnds
\* every process has loaded its library or raised
CHECK_DEADLOCK FALSE
