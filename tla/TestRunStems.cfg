SPECIFICATION EnvSpec
CONSTANTS
    f1 = f1
    f2 = f2
    f3 = f3
    File <- MCFile
    Stem <- MCStem
    Extension <- MCExtension
    Effect <- MCEffect
    Targets <- MCTargets
    Lists <- MCLists
    Directory <- MCDirectory
    Vectors <- MCVectors
    Creatable <- MCCreatable
    Worlds <- MCSameStems
INVARIANT
    FailuresAreSaved
CHECK_DEADLOCK FALSE
