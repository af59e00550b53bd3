\* No faults: poor footage alone.
CONSTANTS
    Preset = "colab-gpu"
    Polled = {"CV_TASK_QUEUE_COLAB"}
    Slots = 2
    MaxAttempts = 2
    MaxFaults = 0
SPECIFICATION Spec
INVARIANTS
    GateFailsOnce
CHECK_DEADLOCK FALSE
