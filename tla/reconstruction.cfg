\* Three faults, two attempts for every stage: crashes of either worker, stalls, late reports.
CONSTANTS
    Preset = "colab-gpu"
    Polled = {"CV_TASK_QUEUE_COLAB"}
    Slots = 2
    MaxAttempts = 2
    MaxFaults = 3
SPECIFICATION FairSpec
INVARIANTS
    TypeOK
    ReplayAgrees
    InputsThere
    RecordedIsWritten
PROPERTIES
    ImplementsContract
    RunCloses
\* A closed run is the end.
CHECK_DEADLOCK FALSE
