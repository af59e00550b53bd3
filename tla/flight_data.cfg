\* Recordings of up to six frames in ten ticks, telemetry of seven, pictures of up to twenty rows.
CONSTANTS
    Campaigns <- MCCampaigns
    Speed = 1
    Error = 5
    Window = 2
    Target = 3
    MaxGap = 1
    ExhaustiveMax = 3
    Overlap = 1
    MaxNeighbors = 2
    MaxDistance = 2
    CLASS_TABLE = {"vehicle", "person"}
    Margin = 1
    Tile = 5
    TileOverlap = 2
SPECIFICATION Spec
INVARIANTS
    KeyframesRepresent
    PriorsNearTrack
    MatchingConnected
    MaskCoversObjects
    EveryRowInferred
\* A flight whose data were processed is done.
CHECK_DEADLOCK FALSE
