SPECIFICATION EnvSpec
CONSTANTS
    f1 = f1
    f2 = f2
    f3 = f3
    File <- MCFile
    Stem <- MCStem
    Extension <- MCExtension
    Effect <- MCEffect
    Targets <- MCTargets
    Lists <- MCLists
    Directory <- MCDirectory
    Vectors <- MCVectors
    Creatable <- MCCreatable
    Worlds <- MCWorlds
INVARIANTS
    TypeOK
    VerdictIsRight
    CountsAreRight
    LogIsCompleteWithDistinctStems
    FailuresAreSavedWithDistinctStems
    ModesAreSound
    ListedIsCopied
PROPERTY
    CommandEnds
\* a command that is done or aborted is over
CHECK_DEADLOCK FALSE
