------------------------------ MODULE FlightData ------------------------------
(***************************************************************************)
(* The data of one flight on its way through the numerical code of the     *)
(* stages: keyframes, priors, the pairs to match, masks, and the rows that *)
(* depth is inferred for.  What each stage hands on is an input of the     *)
(* next.  How stages store, repeat and resume is in CVStages.              *)
(***************************************************************************)
EXTENDS Keyframes, Priors, Matching, Rasters

CONSTANTS
    Campaigns,  \* what cameras and receivers can record: a set per instrument in each
    Speed,      \* how far an aircraft flies in a tick
    Error       \* how far off a receiver without a fix may be

\* frames, gps and ppk are recorded; track is where the aircraft was at tick 0, 1 and so on;
\* objects is what the models detect in a keyframe of a given width and height.
FlightsOf(c) ==
    [frames : c.frames, gps : c.gps, ppk : c.ppk, track : c.track,
     objects : c.objects, width : c.width, height : c.height]

\* A frame was taken at tick at of the clock that the logs show, but this is not kept: t, its
\* timestamp_utc, is its position in its own segment, counted from tick 0 in every segment.
Frames == [t : Nat, at : Nat, q : Int]
Records == [t : Nat, v : Int, fixed : BOOLEAN]

\* Frames are in the order of their timestamps, whatever segments they are from.
InOrder(frames) == \A k \in 1 .. Len(frames) - 1 : frames[k].t <= frames[k + 1].t

\* A receiver with a fix is right about where it is.
ErrorOf(record) == IF record.fixed THEN 0 ELSE Error

\* The aircraft is not faster than Speed, and is on its track whenever something is recorded.
ASSUME CampaignsOK ==
    /\ Speed \in Nat /\ Error \in Nat
    /\ \A c \in Campaigns :
           /\ c.width \subseteq Nat /\ c.height \subseteq Nat
           /\ \A objects \in c.objects : \A o \in DOMAIN objects : objects[o].pixels \subseteq Nat
           /\ \A frames \in c.frames : frames \in Seq(Frames) /\ InOrder(frames)
           /\ c.gps \cup c.ppk \subseteq Seq(Records)
           /\ \A track \in c.track :
                  /\ track \in Seq(Int)
                  /\ \A t \in 1 .. Len(track) - 1 : Distance(track[t + 1] - track[t]) <= Speed
                  /\ \A frames \in c.frames : \A f \in DOMAIN frames :
                         frames[f].at + 1 \in DOMAIN track
                  /\ \A log \in c.gps \cup c.ppk : \A r \in DOMAIN log :
                         /\ log[r].t + 1 \in DOMAIN track
                         /\ Distance(log[r].v - track[log[r].t + 1]) <= ErrorOf(log[r])

VARIABLES
    flight,      \* what was recorded
    stage,       \* the stage whose code is executed next
    keyframes,   \* the frames that are kept, by their number
    priors,      \* by keyframe, its fix or nothing
    strategy, pairs,    \* what is matched
    code,        \* the stored mask
    mask,        \* the pixels that depth leaves out
    unread,      \* depth found no mask that it could read
    tiles        \* by row of a picture, the tiles it is inferred in

maskVars == <<code, mask, unread>>
vars == <<flight, stage, keyframes, priors, strategy, pairs, maskVars, tiles>>

Init ==
    /\ \E c \in Campaigns : flight \in FlightsOf(c)
    /\ stage = "curation"
    /\ keyframes = <<>> /\ priors = <<>> /\ strategy = "" /\ pairs = {}
    /\ code = <<>> /\ mask = {} /\ unread = FALSE /\ tiles = <<>>

Curate ==
    /\ stage = "curation" /\ stage' = "vio_parse"
    /\ keyframes' = select_keyframes(flight.frames, adaptive_window_s(flight.frames))
    /\ UNCHANGED <<flight, priors, strategy, pairs, maskVars, tiles>>

\* The logs are searched for the timestamps of the keyframes.
ParsePriors ==
    /\ stage = "vio_parse" /\ stage' = "matching"
    /\ priors' = build_priors_manifest([k \in DOMAIN keyframes |-> flight.frames[keyframes[k]].t],
                                       flight.gps, flight.ppk)
    /\ UNCHANGED <<flight, keyframes, strategy, pairs, maskVars, tiles>>

\* run_learned_feature_pipeline, with the strategy that extract_and_match_features chose.
MatchFeatures ==
    /\ stage = "matching" /\ stage' = "masking"
    /\ strategy' = choose_matching_strategy(priors)
    /\ pairs' = generate_pairs(strategy', priors)
    /\ UNCHANGED <<flight, keyframes, priors, maskVars, tiles>>

\* A label without a code is an exception: the stage fails before this mask is stored.
MaskObjects ==
    /\ stage = "masking"
    /\ LET masks == merge_and_dilate(flight.objects, flight.width)
       IN  \/ /\ Encodable(masks)
              /\ stage' = "depth" /\ code' = encode_mask_paq(masks, flight.width)
           \/ ~Encodable(masks) /\ stage' = "failed" /\ UNCHANGED code
    /\ UNCHANGED <<flight, keyframes, priors, strategy, pairs, mask, unread, tiles>>

\* The store may fail to answer, or answer with something else than was stored.
InferDepth ==
    /\ stage = "depth" /\ stage' = "done"
    /\ \E readable \in BOOLEAN : mask' = get_mask(code, readable) /\ unread' = ~readable
    /\ tiles' = infer_tiled(flight.height)
    /\ UNCHANGED <<flight, keyframes, priors, strategy, pairs, code>>

Next == Curate \/ ParsePriors \/ MatchFeatures \/ MaskObjects \/ InferDepth

Spec == Init /\ [][Next]_vars

-------------------------------------------------------------------------------

\* The keyframes stand for the footage (curation.py:140-161), as far as timestamps tell: every
\* frame that passed has a keyframe that is at least as good less than a window away, and
\* footage with a frame in every window yields at least half of the target.  Half, because a
\* window ends with the first frame beyond it: a frame just short of the end makes it nearly
\* twice as long.  Frames of different segments share the windows of their positions, and a
\* frame may be stood for by one of another segment.
KeyframesRepresent ==
    stage # "curation" =>
    LET frames == flight.frames
        window == adaptive_window_s(frames)
        within(f, k) == Target * Distance(frames[f].t - frames[k].t) < window
    IN  /\ \A f \in DOMAIN frames : \E n \in DOMAIN keyframes :
               within(f, keyframes[n]) /\ frames[keyframes[n]].q >= frames[f].q
        /\ (frames # <<>> /\ \A f \in DOMAIN frames \ {1} :
                Target * (frames[f].t - frames[f - 1].t) <= window) =>
               Target * Span(frames) <= 2 * Len(keyframes) * window

\* How far a prior may be from where its keyframe was taken (vio_parse.py:34-76).  The aircraft
\* flies on for twice the gap allowed, although only one of the two records has to be near; and
\* for as long as the keyframe's timestamp is off, which nothing corrects.  If one of the two
\* records has no fix, its error is added, whatever the prior's source says: a prior has the
\* quality of the earlier record.
PriorsNearTrack ==
    \A k \in DOMAIN priors : \A p \in priors[k] :
        LET frame == flight.frames[keyframes[k]]
            log == IF p.source = "ppk" THEN flight.ppk ELSE flight.gps
            fixed == \A r \in _bisect_by_time(log, frame.t) : log[r].fixed /\ log[r + 1].fixed
        IN  Distance(p.num - p.den * flight.track[frame.at + 1]) <=
                (2 * MaxGap * Speed
                 + (Speed * Distance(frame.at - frame.t) + IF fixed THEN 0 ELSE Error)) * p.den

\* Whoever is matched with a member of S is a member of S.
ClosedUnderMatches(S) ==
    \A j \in S : \A k \in DOMAIN priors : InOrderOfTime(j, k) \in pairs => k \in S

\* The keyframes that are matched with keyframe 1, directly or over others.
Reached ==
    {k \in DOMAIN priors :
        \A S \in SUBSET DOMAIN priors : (1 \in S /\ ClosedUnderMatches(S)) => k \in S}

\* Two groups of keyframes that are further apart than the distance of spatial neighbours.
Separated(S) ==
    \A j \in S : \A k \in WithPrior(priors) \ S : k \notin Near(priors, j)

\* The matches join all keyframes into one map (sfm.py:79-85, learned_features.py:79-121)
\* unless the strategy is "spatial": then a keyframe without a prior is left out, groups
\* that lie apart stay apart, and so may groups whose members have enough neighbours in it.
MatchingConnected ==
    (stage \notin {"curation", "vio_parse", "matching"} /\ Reached # DOMAIN priors) =>
        /\ strategy = "spatial"
        /\ \/ WithPrior(priors) # DOMAIN priors
           \/ Separated(Reached)
           \/ \E k \in DOMAIN priors : Cardinality(Near(priors, k)) > MaxNeighbors

\* Depth leaves out the pixels near an object and no others (mask_codec.py:17-51,
\* minio_io.py:20-32, depth.py:68-90), whatever classes share a picture, wherever a run begins;
\* but it leaves out nothing if the mask could not be read (minio_io.py:33-35).
MaskCoversObjects ==
    stage = "done" =>
    mask = IF unread THEN {}
           ELSE {p \in Pixels(flight.width) :
                    \E o \in DOMAIN flight.objects : \E q \in flight.objects[o].pixels :
                        Distance(p - q) <= Margin}

\* Tiles are whole, unless the picture is smaller than one, and no row is left without
\* depth (depth_models.py:39-63), whatever is left over after the last stride.
EveryRowInferred ==
    \A r \in DOMAIN tiles :
        /\ tiles[r] # {}
        /\ \A y0 \in tiles[r] : y0 >= 0 /\ (flight.height >= Tile => y0 + Tile <= flight.height)

===============================================================================
