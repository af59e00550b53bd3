\* Every stage by itself, and a mission that is meshed, georeferenced and listed twice;
\* two machines, one or two faults anywhere.
CONSTANTS
    Machines = {1, 2}
    Scenes <- MCScenes
    MaxRuns = 2
    MaxFaults = 2
    MinKeyframes = 2
    CheckpointEvery = 2
    CheckpointSteps = 2
    ModelSize = 1
    Levels = 2
SPECIFICATION FairSpec
INVARIANTS
    TypeOK
    KeyframesMatch
    MasksMatch
    DepthComplete
    MapOfItsMatches
    WarmStartComplete
    StuckOnlyAtTheEnd
    LodsAgree
    CatalogFresh
    ListedTwiceByLostAnswer
PROPERTIES
    ImplementsContract
    DepthKept
    LatestAdvances
    StageCompletes
\* A stage that has completed stops.
CHECK_DEADLOCK FALSE
