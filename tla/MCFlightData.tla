----------------------------- MODULE MCFlightData -----------------------------
EXTENDS FlightData

Times == 0 .. 9

\* Where the aircraft was: it stays, it leaves, it turns around.
Tracks == {<<0, 0, 0, 0, 0, 0, 0>>, <<0, 1, 2, 3, 4, 5, 6>>, <<0, 1, 2, 3, 2, 1, 0>>}

\* A log of the times of S that has a fix in those of F and is off by 5 otherwise.
Log(S, F, track) ==
    SelectSeq([n \in DOMAIN track |->
                  [t |-> n - 1, fixed |-> n - 1 \in F,
                   v |-> track[n] + IF n - 1 \in F THEN 0 ELSE 5]],
              LAMBDA record : record.t \in S)

\* Frames at the times of S; those at the times of B are the better ones.
Filmed(S, B) ==
    SelectSeq([n \in 1 .. 10 |-> [t |-> n - 1, at |-> n - 1, q |-> IF n - 1 \in B THEN 1 ELSE 0]],
              LAMBDA frame : frame.t \in S)

Straight == <<0, 1, 2, 3, 4, 5, 6>>
Still == [n \in 1 .. 10 |-> 0]

Plain == [frames |-> {Filmed({0, 2, 4, 6}, {})}, gps |-> {<<>>}, ppk |-> {<<>>},
          track |-> {Straight}, objects |-> {<<>>}, width |-> {4}, height |-> {1}]

\* Footage: up to six frames of two qualities.
MCFootage ==
    {[Plain EXCEPT !.frames = {Filmed(S, B) : B \in SUBSET S}, !.track = {Still}] :
        S \in {T \in SUBSET Times : Cardinality(T) \in 1 .. 6}}

\* Telemetry: any set of GPS records, fixed always, never, at first or in the end; a few PPK
\* records, fixed always or at first.
MCTelemetry ==
    {[Plain EXCEPT !.track = {track}, !.frames = {Filmed({0, 2, 4, 6}, {}), Filmed({1, 3, 5}, {})},
                   !.gps = {Log(S, F, track) : S \in SUBSET (0 .. 6), F \in {{}, 0 .. 3, 4 .. 6, Times}},
                   !.ppk = {Log(S, F, track) : S \in {{}, {0, 6}, {0, 1, 5, 6}},
                                               F \in {0 .. 2, Times}}] : track \in Tracks}

\* Two segments of three frames, filmed one after the other: both count from 0.
TwoSegments ==
    [n \in 1 .. 6 |-> [t |-> (n - 1) \div 2, at |-> (n - 1) \div 2 + IF n % 2 = 1 THEN 0 ELSE 3, q |-> 0]]

\* One segment of a flight that begins at tick 3 of the clock.
Late == [n \in 1 .. 4 |-> [t |-> n - 1, at |-> n + 2, q |-> 0]]

\* Timestamps that are off: the logs begin with the flight, or were already running.
MCClocks ==
    {[Plain EXCEPT !.track = {track}, !.frames = {TwoSegments, Late},
                   !.gps = {Log(S, F, track) : S \in SUBSET (0 .. 3) \cup {3 .. 6, 0 .. 6}, F \in {{}, 0 .. 2, Times}}] :
        track \in Tracks}

\* Two objects; the last label is a phrase of the detector that is no class.
MCObjects ==
    [Plain EXCEPT !.objects =
        [1 .. 2 -> [label : {"vehicle", "person", "vehicle person"}, pixels : SUBSET (1 .. 4)]]]

MCPictures == [Plain EXCEPT !.height = 1 .. 20]

\* It hovers twice: every keyframe has its two neighbours at its own place.
Hovering == <<0, 0, 0, 0, 0, 1, 2, 2, 2, 2, 2, 2>>

MCHover == [Plain EXCEPT !.track = {Hovering},
                         !.frames = {[n \in 1 .. 6 |-> [t |-> 2 * n - 2, at |-> 2 * n - 2, q |-> 0]]},
                         !.gps = {Log(0 .. 11, 0 .. 11, Hovering)}]

MCCampaigns == MCFootage \cup MCTelemetry \cup MCClocks \cup {MCObjects, MCPictures, MCHover}

===============================================================================
