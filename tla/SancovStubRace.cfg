SPECIFICATION Spec
CONSTANTS
    p1 = p1
    p2 = p2
    Process <- MCProcess
    Symbol <- MCSymbol
    Recognised <- MCRecognised
    Worlds <- MCTwoCommands
    Compiler <- MCCompiler
    MaxKills = 0
INVARIANT
    StubProvides
CHECK_DEADLOCK FALSE
