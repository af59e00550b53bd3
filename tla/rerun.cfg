\* A mission that is reconstructed twice from the same footage; nothing fails.
CONSTANTS
    Machines = {1, 2}
    Scenes <- MCRerun
    MaxRuns = 2
    MaxFaults = 0
    MinKeyframes = 2
    CheckpointEvery = 2
    CheckpointSteps = 2
    ModelSize = 1
    Levels = 2
SPECIFICATION Spec
INVARIANT RerunKeepsMesh
\* The mission that was reconstructed for the last time stops.
CHECK_DEADLOCK FALSE
