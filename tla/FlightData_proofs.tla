--------------------------- MODULE FlightData_proofs ---------------------------
(***************************************************************************)
(* Proofs about the data of a flight, for every footage, log, track and    *)
(* detection that can be recorded and every size of tiles and pictures.    *)
(* What the code computes in a loop is a function of how often the loop    *)
(* has run; what holds after every round is shown with InductionUpTo.      *)
(***************************************************************************)
EXTENDS FlightData, FiniteSetTheorems, SequenceTheorems, TLAPS

-------------------------------------------------------------------------------
(* Tiles.                                                                  *)

Stride == Tile - TileOverlap

LEMMA TileSizes ==
    /\ Tile \in Nat \ {0} /\ TileOverlap \in Nat /\ Stride \in Nat \ {0}
    /\ TileOverlap < Tile /\ Stride <= Tile /\ Stride = Tile - TileOverlap
BY RastersConstantsOK DEF RastersConstantsOK, Stride

\* The multiple of d that a is at or behind.
LEMMA OnlyZeroIsSmallMultiple ==
    ASSUME NEW d \in Nat \ {0}, NEW x \in Int, NEW m \in 0 .. d - 1, d * x = m
    PROVE  m = 0
<1>1. CASE x = 0
  BY <1>1
<1>2. CASE x >= 1
  <2>1. d * x >= d
    BY <1>2
  <2> QED BY <2>1
<1>3. CASE x <= -1
  <2>1. d * x <= -d
    BY <1>3
  <2> QED BY <2>1
<1> QED BY <1>1, <1>2, <1>3

LEMMA MultipleHasNoRest ==
    ASSUME NEW d \in Nat \ {0}, NEW q \in Nat
    PROVE  (d * q) % d = 0
<1>1. PICK n \in Nat : n = d * q
  OBVIOUS
<1>2. n % d \in 0 .. d - 1 /\ n \div d \in Nat
  OBVIOUS
<1>3. d * (n \div d) + (n % d) = n
  BY Z3T(30)
<1>4. PICK p \in Nat : p = n \div d
  BY <1>2
<1>5. PICK m \in 0 .. d - 1 : m = n % d
  BY <1>2
<1>6. d * p + m = d * q
  BY <1>1, <1>3, <1>4, <1>5, Zenon
<1>7. d * (q - p) = m /\ q - p \in Int
  BY <1>6
<1>8. m = 0
  BY <1>7, OnlyZeroIsSmallMultiple
<1> QED BY <1>1, <1>5, <1>8, Zenon

LEMMA RestIsSmall ==
    ASSUME NEW a \in Nat, NEW d \in Nat \ {0}, NEW m \in 0 .. d - 1, NEW q \in Nat, q + m = a
    PROVE  a - m \in 0 .. a /\ a - (a - m) < d
OBVIOUS

LEMMA MultipleBelow ==
    ASSUME NEW a \in Nat, NEW d \in Nat \ {0}
    PROVE  \E s \in 0 .. a : s % d = 0 /\ a - s < d
<1>1. a % d \in 0 .. d - 1
  OBVIOUS
<1>2. d * (a \div d) + (a % d) = a
  BY Z3T(30)
<1>3. d * (a \div d) \in Nat
  BY a \div d \in Nat
<1> DEFINE m == a % d
           q == a \div d
<1>4. m \in 0 .. d - 1 /\ q \in Nat /\ d * q \in Nat /\ d * q + m = a
  BY <1>1, <1>2, <1>3
<1> HIDE DEF m, q
<1>5. a - m \in 0 .. a /\ a - (a - m) < d
  BY <1>4, RestIsSmall
<1>6. a - m = d * q
  BY <1>4
<1>7. (d * q) % d = 0
  BY <1>4, MultipleHasNoRest
<1> QED BY <1>5, <1>6, <1>7, Zenon

\* Where a tile is placed that begins at the stride s.
Placed(s, height) ==
    IF height - Tile < 0 THEN 0 ELSE IF s < height - Tile THEN s ELSE height - Tile

LEMMA OriginOf ==
    ASSUME NEW height \in Nat, NEW s \in 0 .. height, s % Stride = 0,
           s = 0 \/ s < height - TileOverlap
    PROVE  Placed(s, height) \in TileOrigins(height)
BY DEF TileOrigins, Placed, Stride

LEMMA OriginsInside ==
    ASSUME NEW height \in Nat, NEW y0 \in TileOrigins(height)
    PROVE  y0 \in Nat /\ (height >= Tile => y0 + Tile <= height)
<1>1. PICK s \in 0 .. height : y0 = Placed(s, height)
  BY DEF TileOrigins, Placed
<1> QED BY <1>1, TileSizes DEF Placed

\* The last tile ends with the picture.
LEMMA LastTile ==
    ASSUME NEW height \in Nat, height >= Tile
    PROVE  height - Tile \in TileOrigins(height)
<1> DEFINE rest == height - Tile
<1>1. rest \in Nat
  BY TileSizes
<1>2. CASE rest = 0
  <2>1. 0 % Stride = 0
    BY TileSizes
  <2>2. Placed(0, height) = rest
    BY <1>1, <1>2 DEF Placed
  <2> QED BY <2>1, <2>2, OriginOf
<1>3. CASE rest > 0
  <2> DEFINE top == rest + Stride - 1
  <2>0. top \in Nat
    BY <1>1, TileSizes
  <2>1. PICK s \in 0 .. top : s % Stride = 0 /\ top - s < Stride
    <3> HIDE DEF top
    <3> QED BY <2>0, TileSizes, MultipleBelow
  <2>2. s >= rest /\ s < rest + Stride
    BY <1>1, <2>1, TileSizes
  <2>3. s \in 0 .. height /\ s < height - TileOverlap
    BY <1>1, <2>1, <2>2, TileSizes
  <2>4. Placed(s, height) = rest
    BY <1>1, <2>2, <2>3 DEF Placed
  <2> QED BY <2>1, <2>3, <2>4, OriginOf
<1> QED BY <1>1, <1>2, <1>3

LEMMA RowCovered ==
    ASSUME NEW height \in Nat, NEW r \in 0 .. height - 1
    PROVE  \E y0 \in TileOrigins(height) : r \in TileRows(y0, height)
<1>1. CASE height < Tile
  <2>1. 0 % Stride = 0
    BY TileSizes
  <2>2. Placed(0, height) = 0
    BY <1>1, TileSizes DEF Placed
  <2>3. 0 \in TileOrigins(height)
    BY <2>1, <2>2, OriginOf
  <2>4. r \in TileRows(0, height)
    BY <1>1, TileSizes DEF TileRows
  <2> QED BY <2>3, <2>4
<1>2. CASE height >= Tile /\ r >= height - Tile
  <2>1. r \in TileRows(height - Tile, height)
    BY <1>2, TileSizes DEF TileRows
  <2> QED BY <1>2, <2>1, LastTile
<1>3. CASE height >= Tile /\ r < height - Tile
  <2>1. PICK s \in 0 .. r : s % Stride = 0 /\ r - s < Stride
    <3>1. r \in Nat
      OBVIOUS
    <3> QED BY <3>1, TileSizes, MultipleBelow
  <2>2. s \in 0 .. height /\ s < height - Tile /\ s < height - TileOverlap
    BY <1>3, <2>1, TileSizes
  <2>3. Placed(s, height) = s
    BY <1>3, <2>2, TileSizes DEF Placed
  <2>4. r \in TileRows(s, height)
    BY <2>1, TileSizes DEF TileRows
  <2> QED BY <2>1, <2>2, <2>3, <2>4, OriginOf
<1> QED BY <1>1, <1>2, <1>3, TileSizes

\* What InferDepth leaves behind.
TilesInv == flight.height \in Nat /\ (tiles = <<>> \/ tiles = infer_tiled(flight.height))

\* Tiles of any size and overlap leave no row of any picture out and stay inside it
\* (depth_models.py:39-63).
THEOREM EveryRowInferredHolds == Spec => []EveryRowInferred
<1>1. Init => TilesInv
  BY CampaignsOK DEF CampaignsOK, Init, FlightsOf, TilesInv
<1>2. TilesInv /\ [Next]_vars => TilesInv'
  BY DEF TilesInv, Next, vars, maskVars, Curate, ParsePriors, MatchFeatures, MaskObjects, InferDepth,
         infer_tiled
<1>3. TilesInv => EveryRowInferred
  <2> SUFFICES ASSUME TilesInv, NEW r \in DOMAIN tiles
               PROVE  /\ tiles[r] # {}
                      /\ \A y0 \in tiles[r] :
                             y0 >= 0 /\ (flight.height >= Tile => y0 + Tile <= flight.height)
    BY DEF EveryRowInferred
  <2>1. flight.height \in Nat /\ tiles = infer_tiled(flight.height)
    BY DEF TilesInv
  <2>2. /\ r \in 0 .. flight.height - 1
        /\ tiles[r] = {y0 \in TileOrigins(flight.height) : r \in TileRows(y0, flight.height)}
    BY <2>1 DEF infer_tiled
  <2> QED BY <2>1, <2>2, RowCovered, OriginsInside
<1> QED BY <1>1, <1>2, <1>3, PTL DEF Spec

-------------------------------------------------------------------------------
(* Induction, and functions that are given step by step.                   *)

LEMMA SmallestNumber ==
    ASSUME NEW B, B \subseteq Nat, B # {}
    PROVE  \E m \in B : \A k \in B : m <= k
<1> DEFINE R == OpToRel(<, Nat)
<1>1. IsWellFoundedOn(R, Nat)
  BY NatLessThanWellFounded
<1>2. \A k, m \in Nat : k < m => <<k, m>> \in R
  BY DEF OpToRel
<1> HIDE DEF R
<1>3. PICK m \in B : \A k \in B : ~(<<k, m>> \in R)
  BY <1>1, WFMin
<1>4. ASSUME NEW k \in B PROVE m <= k
  <2>1. k \in Nat /\ m \in Nat
    OBVIOUS
  <2>2. ~(k < m)
    BY <1>2, <1>3, <2>1
  <2> QED BY <2>1, <2>2
<1> QED BY <1>4

LEMMA InductionUpTo ==
    ASSUME NEW N \in Nat, NEW P, 0 \in P, \A k \in 0 .. N - 1 : k \in P => k + 1 \in P
    PROVE  \A k \in 0 .. N : k \in P
<1> SUFFICES ASSUME NEW n \in 0 .. N, n \notin P PROVE FALSE
  OBVIOUS
<1> DEFINE Outside == {k \in 0 .. N : k \notin P}
<1>1. PICK m \in Outside : \A k \in Outside : m <= k
  <2>1. Outside \subseteq Nat /\ Outside # {}
    OBVIOUS
  <2> HIDE DEF Outside
  <2> QED BY <2>1, SmallestNumber
<1>2. m \in 0 .. N /\ m \notin P /\ m # 0
  OBVIOUS
<1>3. m - 1 \in 0 .. N - 1 /\ (m - 1) + 1 = m /\ ~(m <= m - 1) /\ m - 1 \in 0 .. N
  BY <1>2
<1>4. m - 1 \in P
  BY <1>1, <1>3
<1> QED BY <1>2, <1>3, <1>4

\* Each value of g follows from the one before; the values are in S.
Follows(g, N, S, base, step) ==
    /\ g \in [0 .. N -> S]
    /\ g[0] = base
    /\ \A k \in 1 .. N : g[k] = step[g[k - 1]][k]

\* A function on 0 .. N can be given by its first value and its steps.
LEMMA StepByStep ==
    ASSUME NEW N \in Nat, NEW S, NEW base \in S, NEW step \in [S -> [1 .. N -> S]]
    PROVE  \E g : Follows(g, N, S, base, step)
<1> DEFINE P == {n \in 0 .. N : \E g : Follows(g, n, S, base, step)}
<1> USE DEF Follows
<1>1. 0 \in P
  <2> DEFINE g == [k \in 0 .. 0 |-> base]
  <2>1. g \in [0 .. 0 -> S] /\ g[0] = base /\ 1 .. 0 = {}
    OBVIOUS
  <2> HIDE DEF g
  <2>2. Follows(g, 0, S, base, step)
    BY <2>1
  <2> QED BY <2>2
<1>2. ASSUME NEW n \in 0 .. N - 1, n \in P
      PROVE  n + 1 \in P
  <2>1. PICK g : Follows(g, n, S, base, step)
    BY <1>2
  <2>2. n \in Nat /\ n + 1 \in 1 .. N /\ g[n] \in S
    BY <2>1
  <2> DEFINE v == step[g[n]][n + 1]
             h == [k \in 0 .. n + 1 |-> IF k = n + 1 THEN v ELSE g[k]]
  <2>3. v \in S
    BY <2>2
  <2> HIDE DEF v
  <2>4. \A k \in 0 .. n : h[k] = g[k] /\ k # n + 1 /\ g[k] \in S
    BY <2>1, <2>2
  <2>5. h[n + 1] = v
    BY <2>2
  <2>6. h \in [0 .. n + 1 -> S]
    <3>1. ASSUME NEW k \in 0 .. n + 1 PROVE h[k] \in S
      <4>1. k = n + 1 \/ k \in 0 .. n
        BY <2>2
      <4> QED BY <2>3, <2>4, <2>5, <4>1
    <3> QED BY <3>1
  <2>7. h[0] = base
    BY <2>1, <2>2, <2>4
  <2> HIDE DEF h
  <2>8. ASSUME NEW k \in 1 .. n + 1
        PROVE  h[k] = step[h[k - 1]][k]
    <3>1. k - 1 \in 0 .. n /\ h[k - 1] = g[k - 1]
      BY <2>2, <2>4
    <3>2. CASE k = n + 1
      <4>1. k - 1 = n
        BY <2>2, <3>2
      <4> QED BY <2>5, <3>1, <3>2, <4>1 DEF v
    <3>3. CASE k # n + 1
      <4>1. k \in 1 .. n /\ k \in 0 .. n
        BY <2>2, <3>3
      <4> QED BY <2>1, <2>4, <3>1, <4>1
    <3> QED BY <3>2, <3>3
  <2>9. Follows(h, n + 1, S, base, step)
    BY <2>6, <2>7, <2>8
  <2>10. n + 1 \in 0 .. N
    BY <2>2
  <2> QED BY <2>9, <2>10
<1>3. N \in P
  <2>1. N \in 0 .. N
    OBVIOUS
  <2> HIDE DEF P
  <2> QED BY <1>1, <1>2, <2>1, InductionUpTo
<1> QED BY <1>3

-------------------------------------------------------------------------------
(* What each stage has handed on.                                          *)

Stages == {"curation", "vio_parse", "matching", "masking", "depth", "done", "failed"}

DataInv ==
    /\ \E c \in Campaigns : flight \in FlightsOf(c)
    /\ stage \in Stages
    /\ stage = "curation" => keyframes = <<>>
    /\ stage # "curation" =>
           keyframes = select_keyframes(flight.frames, adaptive_window_s(flight.frames))
    /\ stage \in {"curation", "vio_parse"} => priors = <<>>
    /\ stage \notin {"curation", "vio_parse"} =>
           priors = build_priors_manifest([k \in DOMAIN keyframes |-> flight.frames[keyframes[k]].t],
                                          flight.gps, flight.ppk)
    /\ stage \in {"masking", "depth", "done", "failed"} =>
           strategy = choose_matching_strategy(priors) /\ pairs = generate_pairs(strategy, priors)
    /\ stage \in {"depth", "done"} =>
           code = encode_mask_paq(merge_and_dilate(flight.objects, flight.width), flight.width)
    /\ stage = "done" =>
           \E readable \in BOOLEAN : mask = get_mask(code, readable) /\ unread = ~readable

\* What is handed on is not changed afterwards: the results may be read off the last state.
LEMMA DataInvariant == Spec => []DataInv
<1>1. Init => DataInv
  BY DEF Init, DataInv, Stages
<1>2. ASSUME DataInv, [Next]_vars PROVE DataInv'
  <2> USE <1>2 DEF DataInv, Stages
  <2>1. CASE Curate
    BY <2>1 DEF Curate, maskVars
  <2>2. CASE ParsePriors
    BY <2>2 DEF ParsePriors, maskVars
  <2>3. CASE MatchFeatures
    BY <2>3 DEF MatchFeatures, maskVars
  <2>4. CASE MaskObjects
    BY <2>4 DEF MaskObjects
  <2>5. CASE InferDepth
    BY <2>5 DEF InferDepth
  <2>6. CASE UNCHANGED vars
    BY <2>6 DEF vars, maskVars
  <2> QED BY <2>1, <2>2, <2>3, <2>4, <2>5, <2>6 DEF Next
<1> QED BY <1>1, <1>2, PTL DEF Spec

\* The receiver was on the track, and as far off as its fix lets it be.
Logged(log, track) ==
    \A r \in DOMAIN log :
        /\ log[r].t + 1 \in DOMAIN track
        /\ Distance(log[r].v - track[log[r].t + 1]) <= ErrorOf(log[r])

\* What was recorded.
LEMMA Recorded ==
    ASSUME NEW c \in Campaigns, NEW f \in FlightsOf(c)
    PROVE  /\ f.width \in Nat /\ f.height \in Nat
           /\ \A o \in DOMAIN f.objects : f.objects[o].pixels \subseteq Nat
           /\ f.frames \in Seq(Frames) /\ InOrder(f.frames)
           /\ f.gps \in Seq(Records) /\ f.ppk \in Seq(Records)
           /\ f.track \in Seq(Int)
           /\ \A t \in 1 .. Len(f.track) - 1 : Distance(f.track[t + 1] - f.track[t]) <= Speed
           /\ \A k \in DOMAIN f.frames : f.frames[k].at + 1 \in DOMAIN f.track
           /\ \A log \in {f.gps, f.ppk} : Logged(log, f.track)
<1>1. /\ f.frames \in c.frames /\ f.gps \in c.gps /\ f.ppk \in c.ppk /\ f.track \in c.track
      /\ f.objects \in c.objects /\ f.width \in c.width /\ f.height \in c.height
  BY DEF FlightsOf
<1>2. f.gps \in c.gps \cup c.ppk /\ f.ppk \in c.gps \cup c.ppk
  BY <1>1
<1>3. /\ c.width \subseteq Nat /\ c.height \subseteq Nat
      /\ \A objects \in c.objects : \A o \in DOMAIN objects : objects[o].pixels \subseteq Nat
      /\ \A frames \in c.frames : frames \in Seq(Frames) /\ InOrder(frames)
      /\ c.gps \cup c.ppk \subseteq Seq(Records)
      /\ \A track \in c.track :
             /\ track \in Seq(Int)
             /\ \A t \in 1 .. Len(track) - 1 : Distance(track[t + 1] - track[t]) <= Speed
             /\ \A frames \in c.frames : \A k \in DOMAIN frames :
                    frames[k].at + 1 \in DOMAIN track
             /\ \A log \in c.gps \cup c.ppk : Logged(log, track)
  BY CampaignsOK DEF CampaignsOK, Logged
<1> QED BY <1>1, <1>2, <1>3

-------------------------------------------------------------------------------
(* Keyframes.                                                              *)

Windows(frames) == [kept : Seq(1 .. Len(frames)), start : Int, best : 0 .. Len(frames)]

LEMMA FrameTyped ==
    ASSUME NEW frames \in Seq(Frames), NEW f \in 1 .. Len(frames)
    PROVE  frames[f].t \in Nat /\ frames[f].at \in Nat /\ frames[f].q \in Int
<1>1. frames[f] \in Frames
  BY ElementOfSeq
<1> QED BY <1>1 DEF Frames

LEMMA ClosedTyped ==
    ASSUME NEW N \in Nat, NEW w, w.kept \in Seq(1 .. N), w.best \in 0 .. N
    PROVE  /\ Closed(w) \in Seq(1 .. N)
           /\ w.best # 0 => /\ Len(Closed(w)) = Len(w.kept) + 1
                            /\ Closed(w)[Len(w.kept) + 1] = w.best
                            /\ \A n \in 1 .. Len(w.kept) : Closed(w)[n] = w.kept[n]
<1>1. CASE w.best = 0
  BY <1>1 DEF Closed
<1>2. CASE w.best # 0
  <2>1. w.best \in 1 .. N
    BY <1>2
  <2> QED BY <1>2, <2>1, AppendProperties DEF Closed
<1> QED BY <1>1, <1>2

LEMMA SeeTyped ==
    ASSUME NEW frames \in Seq(Frames), NEW window, NEW w \in Windows(frames),
           NEW f \in 1 .. Len(frames)
    PROVE  See(frames, window, w, f) \in Windows(frames)
<1>1. /\ w.kept \in Seq(1 .. Len(frames)) /\ w.start \in Int /\ w.best \in 0 .. Len(frames)
      /\ Len(frames) \in Nat
  BY LenProperties DEF Windows
<1>2. [kept |-> Closed(w), start |-> frames[f].t, best |-> f] \in Windows(frames)
  <2>1. Closed(w) \in Seq(1 .. Len(frames))
    BY <1>1, ClosedTyped
  <2> QED BY <1>1, <2>1, FrameTyped DEF Windows
<1>3. [w EXCEPT !.best = f] \in Windows(frames)
  BY <1>1 DEF Windows
<1> QED BY <1>2, <1>3 DEF See

LEMMA SeenSteps ==
    ASSUME NEW frames \in Seq(Frames), NEW window
    PROVE  /\ Seen(frames, window) \in [0 .. Len(frames) -> Windows(frames)]
           /\ Seen(frames, window)[0] = Nothing
           /\ \A f \in 1 .. Len(frames) :
                  Seen(frames, window)[f] = See(frames, window, Seen(frames, window)[f - 1], f)
<1> DEFINE N == Len(frames)
           S == Windows(frames)
           step == [w \in S |-> [f \in 1 .. N |-> See(frames, window, w, f)]]
           Is(h) == h = [f \in 0 .. N |-> IF f = 0 THEN Nothing
                                          ELSE See(frames, window, h[f - 1], f)]
           seen == CHOOSE h : Is(h)
<1>1. N \in Nat
  BY LenProperties
<1>2. Nothing \in S
  BY <1>1 DEF Nothing, Windows
<1>3. step \in [S -> [1 .. N -> S]]
  BY SeeTyped
<1>4. PICK g \in [0 .. N -> S] :
          /\ g[0] = Nothing
          /\ \A k \in 1 .. N : g[k] = step[g[k - 1]][k]
  <2> DEFINE base == Nothing
  <2>1. base \in S
    BY <1>2
  <2> HIDE DEF N, S, step, base
  <2>2. \E g : Follows(g, N, S, base, step)
    BY <1>1, <1>3, <2>1, StepByStep
  <2> QED BY <2>2 DEF base, Follows
<1>5. \A k \in 1 .. N : g[k] = See(frames, window, g[k - 1], k)
  <2> SUFFICES ASSUME NEW k \in 1 .. N PROVE g[k] = See(frames, window, g[k - 1], k)
    OBVIOUS
  <2>1. k - 1 \in 0 .. N
    BY <1>1
  <2>2. g[k - 1] \in S
    BY <2>1
  <2> HIDE DEF S, N
  <2>3. step[g[k - 1]][k] = See(frames, window, g[k - 1], k)
    BY <2>2
  <2> HIDE DEF step
  <2> QED BY <1>4, <2>3
<1>6. Is(g)
  <2> HIDE DEF S, N, step
  <2>1. \A k \in 0 .. N : k = 0 \/ k \in 1 .. N
    BY <1>1
  <2>2. g = [k \in 0 .. N |-> g[k]]
    OBVIOUS
  <2>3. \A k \in 0 .. N : g[k] = IF k = 0 THEN Nothing ELSE See(frames, window, g[k - 1], k)
    BY <1>4, <1>5, <2>1
  <2> QED BY <2>2, <2>3
<1>7. Is(seen) /\ Seen(frames, window) = seen
  BY <1>6 DEF Seen
<1>8. seen[0] = Nothing /\ \A k \in 1 .. N : seen[k] = See(frames, window, seen[k - 1], k)
  <2>1. \A k \in 1 .. N : k \in 0 .. N /\ k # 0
    BY <1>1
  <2>2. 0 \in 0 .. N
    BY <1>1
  <2> HIDE DEF seen, N
  <2> QED BY <1>7, <2>1, <2>2
<1>9. \A k \in 0 .. N : k \in {f \in 0 .. N : seen[f] = g[f]}
  <2> DEFINE P == {f \in 0 .. N : seen[f] = g[f]}
  <2>1. 0 \in P
    BY <1>1, <1>4, <1>8
  <2>2. ASSUME NEW k \in 0 .. N - 1, k \in P PROVE k + 1 \in P
    <3>1. k + 1 \in 1 .. N /\ k + 1 \in 0 .. N /\ (k + 1) - 1 = k
      BY <1>1
    <3> HIDE DEF seen, N
    <3>2. seen[k + 1] = See(frames, window, seen[k], k + 1)
      BY <1>8, <3>1
    <3>3. g[k + 1] = See(frames, window, g[k], k + 1)
      BY <1>5, <3>1
    <3> QED BY <2>2, <3>1, <3>2, <3>3
  <2> HIDE DEF P, N, seen
  <2>3. \A k \in 0 .. N : k \in P
    BY <1>1, <2>1, <2>2, InductionUpTo
  <2> QED BY <2>3 DEF P
<1>10. seen \in [0 .. N -> S]
  <2> HIDE DEF S, N
  <2>1. DOMAIN seen = 0 .. N
    BY <1>7
  <2> HIDE DEF seen
  <2>2. \A k \in 0 .. N : seen[k] \in S
    BY <1>9
  <2>3. seen = [k \in 0 .. N |-> seen[k]]
    BY <1>7, <2>1
  <2> QED BY <2>2, <2>3
<1> QED BY <1>7, <1>8, <1>10

LEMMA BothBetween ==
    ASSUME NEW a \in Int, NEW b \in Int, NEW s \in Int, NEW t \in Int,
           s <= a, a <= t, s <= b, b <= t
    PROVE  Distance(a - b) \in Int /\ Distance(a - b) <= t - s
BY DEF Distance

LEMMA LaterIsNotBefore ==
    ASSUME NEW frames \in Seq(Frames), InOrder(frames),
           NEW g \in 1 .. Len(frames), NEW f \in 1 .. Len(frames), g <= f
    PROVE  frames[g].t <= frames[f].t
<1> DEFINE N == Len(frames) - g
           P == {k \in 0 .. N : frames[g].t <= frames[g + k].t}
<1>1. Len(frames) \in Nat /\ N \in Nat /\ g \in Nat /\ f \in Nat /\ f - g \in 0 .. N /\ g + (f - g) = f
  <2>1. Len(frames) \in Nat
    BY LenProperties
  <2> QED BY <2>1
<1>2. \A k \in 0 .. N : frames[g + k].t \in Nat
  BY <1>1, FrameTyped
<1>3. 0 \in P
  <2>1. 0 \in 0 .. N /\ g + 0 = g
    BY <1>1
  <2> HIDE DEF N
  <2> QED BY <2>1, <1>2
<1>4. ASSUME NEW k \in 0 .. N - 1, k \in P PROVE k + 1 \in P
  <2>1. g + k \in 1 .. Len(frames) - 1 /\ k + 1 \in 0 .. N /\ g + (k + 1) = (g + k) + 1 /\ k \in 0 .. N
    BY <1>1
  <2>2. frames[g + k].t <= frames[g + (k + 1)].t
    BY <2>1 DEF InOrder
  <2>3. frames[g].t <= frames[g + k].t
    BY <1>4
  <2>4. frames[g].t \in Nat /\ frames[g + k].t \in Nat /\ frames[g + (k + 1)].t \in Nat
    <3> HIDE DEF N
    <3> QED BY <1>2, <2>1, FrameTyped
  <2>5. frames[g].t <= frames[g + (k + 1)].t
    <3> DEFINE a == frames[g].t
               b == frames[g + k].t
               c == frames[g + (k + 1)].t
    <3>1. a \in Nat /\ b \in Nat /\ c \in Nat /\ a <= b /\ b <= c
      BY <2>2, <2>3, <2>4
    <3> HIDE DEF a, b, c
    <3>2. a <= c
      BY <3>1
    <3> QED BY <3>2 DEF a, c
  <2> HIDE DEF N
  <2> QED BY <2>1, <2>5
<1>5. \A k \in 0 .. N : k \in P
  <2> HIDE DEF P, N
  <2> QED BY <1>1, <1>3, <1>4, InductionUpTo
<1>6. f - g \in P
  <2> HIDE DEF P, N
  <2> QED BY <1>1, <1>5
<1> QED BY <1>1, <1>6

LEMMA Times ==
    ASSUME NEW k \in Nat, NEW n \in Nat, NEW m \in Nat, n <= m
    PROVE  k * n <= k * m
OBVIOUS

LEMMA WindowPositive ==
    ASSUME NEW frames \in Seq(Frames), InOrder(frames)
    PROVE  adaptive_window_s(frames) \in Nat \ {0}
<1>1. Window \in Nat \ {0} /\ Target \in Nat \ {0}
  BY KeyframesConstantsOK DEF KeyframesConstantsOK
<1>2. Window * Target \in Nat \ {0}
  <2>1. Window * Target \in Nat
    BY <1>1
  <2>2. Window * Target >= Window * 1
    BY <1>1, Times
  <2> QED BY <1>1, <2>1, <2>2
<1>3. CASE Len(frames) < 2
  BY <1>2, <1>3 DEF adaptive_window_s
<1>4. CASE ~(Len(frames) < 2)
  <2>1. Len(frames) \in Nat
    BY LenProperties
  <2>2. 1 \in 1 .. Len(frames) /\ Len(frames) \in 1 .. Len(frames) /\ 1 <= Len(frames) /\ frames # <<>>
    BY <1>4, <2>1
  <2>3. frames[1].t <= frames[Len(frames)].t
    BY <2>2, LaterIsNotBefore
  <2>4. frames[1].t \in Nat /\ frames[Len(frames)].t \in Nat
    BY <2>2, FrameTyped
  <2>5. Span(frames) = frames[Len(frames)].t - frames[1].t
    BY <2>2, HeadTailProperties DEF Span, Last
  <2>6. Span(frames) \in Nat
    BY <2>3, <2>4, <2>5
  <2> QED BY <1>2, <2>6 DEF adaptive_window_s
<1> QED BY <1>3, <1>4

\* A keyframe at least as good as frame g is less than a window away.
Represented(frames, window, kept, g) ==
    \E n \in DOMAIN kept :
        /\ Target * Distance(frames[g].t - frames[kept[n]].t) < window
        /\ frames[kept[n]].q >= frames[g].q

\* The first n frames have a keyframe, or the window w has a candidate for them.
WindowInv(frames, window, w, n) ==
    /\ w.best \in 1 .. n
    /\ w.start <= frames[n].t /\ w.start <= frames[w.best].t
    /\ Target * (frames[n].t - w.start) < window
    /\ \A g \in 1 .. n : \/ w.start <= frames[g].t /\ frames[w.best].q >= frames[g].q
                         \/ Represented(frames, window, w.kept, g)

LEMMA SmallerScaled ==
    ASSUME NEW k \in Nat, NEW a \in Int, NEW b \in Int, NEW m \in Int, a <= b, k * b < m
    PROVE  k * a < m
<1>1. k * (b - a) >= 0
  <2>1. b - a \in Nat
    OBVIOUS
  <2> QED BY <2>1
<1>2. k * (b - a) = k * b - k * a
  OBVIOUS
<1> QED BY <1>1, <1>2

\* Whoever is in the window is less than a window from its candidate.
LEMMA CandidateIsNear ==
    ASSUME NEW frames \in Seq(Frames), InOrder(frames), NEW window \in Nat \ {0},
           NEW w \in Windows(frames), NEW n \in 1 .. Len(frames),
           WindowInv(frames, window, w, n), NEW g \in 1 .. n, w.start <= frames[g].t
    PROVE  Target * Distance(frames[g].t - frames[w.best].t) < window
<1>1. /\ n \in 1 .. Len(frames) /\ g \in 1 .. Len(frames) /\ w.best \in 1 .. Len(frames)
      /\ g <= n /\ w.best <= n /\ Len(frames) \in Nat
  BY LenProperties DEF WindowInv
<1>2. frames[g].t \in Nat /\ frames[n].t \in Nat /\ frames[w.best].t \in Nat /\ w.start \in Int
  BY <1>1, FrameTyped DEF Windows
<1>3. frames[g].t <= frames[n].t /\ frames[w.best].t <= frames[n].t
  BY <1>1, LaterIsNotBefore
<1>4. w.start <= frames[w.best].t /\ Target * (frames[n].t - w.start) < window /\ Target \in Nat
  BY KeyframesConstantsOK DEF WindowInv, KeyframesConstantsOK
<1> DEFINE a == Distance(frames[g].t - frames[w.best].t)
           b == frames[n].t - w.start
<1>5. a \in Int /\ b \in Int /\ a <= b
  <2> DEFINE x == frames[g].t
             y == frames[w.best].t
             z == frames[n].t
             v == w.start
  <2>1. x \in Int /\ y \in Int /\ z \in Int /\ v \in Int
    BY <1>2
  <2>2. v <= x /\ x <= z /\ v <= y /\ y <= z
    BY <1>3, <1>4
  <2> HIDE DEF x, y, z, v
  <2>3. Distance(x - y) \in Int /\ Distance(x - y) <= z - v
    BY <2>1, <2>2, BothBetween, Zenon
  <2>4. z - v \in Int
    BY <2>1
  <2> QED BY <2>3, <2>4 DEF x, y, z, v
<1>6. Target * b < window
  BY <1>4
<1> HIDE DEF a, b
<1>7. Target * a < window
  BY <1>4, <1>5, <1>6, SmallerScaled
<1> QED BY <1>7 DEF a

\* When the window is closed its frames have a keyframe.
LEMMA ClosedRepresents ==
    ASSUME NEW frames \in Seq(Frames), InOrder(frames), NEW window \in Nat \ {0},
           NEW w \in Windows(frames), NEW n \in 1 .. Len(frames),
           WindowInv(frames, window, w, n), NEW g \in 1 .. n
    PROVE  Represented(frames, window, Closed(w), g)
<1>1. /\ w.kept \in Seq(1 .. Len(frames)) /\ w.best \in 0 .. Len(frames) /\ w.best # 0
      /\ Len(frames) \in Nat
  BY LenProperties DEF Windows, WindowInv
<1>2. /\ Closed(w) \in Seq(1 .. Len(frames))
      /\ Len(Closed(w)) = Len(w.kept) + 1
      /\ Closed(w)[Len(w.kept) + 1] = w.best
      /\ \A m \in 1 .. Len(w.kept) : Closed(w)[m] = w.kept[m]
  BY <1>1, ClosedTyped
<1>3. /\ Len(w.kept) \in Nat /\ DOMAIN Closed(w) = 1 .. Len(w.kept) + 1
      /\ DOMAIN w.kept = 1 .. Len(w.kept)
  BY <1>1, <1>2, LenProperties
<1>4. CASE w.start <= frames[g].t /\ frames[w.best].q >= frames[g].q
  <2>1. Target * Distance(frames[g].t - frames[w.best].t) < window
    BY <1>4, CandidateIsNear
  <2>2. Len(w.kept) + 1 \in DOMAIN Closed(w)
    BY <1>3
  <2> QED BY <1>2, <1>4, <2>1, <2>2 DEF Represented
<1>5. CASE Represented(frames, window, w.kept, g)
  <2>1. PICK m \in 1 .. Len(w.kept) :
            /\ Target * Distance(frames[g].t - frames[w.kept[m]].t) < window
            /\ frames[w.kept[m]].q >= frames[g].q
    BY <1>3, <1>5 DEF Represented
  <2>2. m \in DOMAIN Closed(w) /\ Closed(w)[m] = w.kept[m]
    BY <1>2, <1>3
  <2> QED BY <2>1, <2>2 DEF Represented
<1> QED BY <1>4, <1>5 DEF WindowInv

\* The window that begins with frame f.
LEMMA NextWindow ==
    ASSUME NEW frames \in Seq(Frames), NEW window \in Nat \ {0}, NEW kept,
           NEW f \in 1 .. Len(frames),
           \A g \in 1 .. f - 1 : Represented(frames, window, kept, g)
    PROVE  WindowInv(frames, window, [kept |-> kept, start |-> frames[f].t, best |-> f], f)
<1> DEFINE w == [kept |-> kept, start |-> frames[f].t, best |-> f]
<1>1. w.kept = kept /\ w.start = frames[f].t /\ w.best = f
  OBVIOUS
<1>2. frames[f].t \in Nat /\ frames[f].q \in Int /\ f \in 1 .. f
  BY FrameTyped, LenProperties
<1>3. Target * (frames[f].t - frames[f].t) = 0
  <2>1. frames[f].t - frames[f].t = 0 /\ Target \in Nat
    BY <1>2, KeyframesConstantsOK DEF KeyframesConstantsOK
  <2>2. Target * 0 = 0
    BY <2>1
  <2> QED BY <2>1, <2>2, Zenon
<1>4. \A g \in 1 .. f : g = f \/ g \in 1 .. f - 1
  BY LenProperties
<1> HIDE DEF w
<1>5. WindowInv(frames, window, w, f)
  <2>1. Target * (frames[f].t - w.start) < window
    BY <1>1, <1>3
  <2>2. w.best \in 1 .. f /\ w.start <= frames[f].t /\ w.start <= frames[w.best].t
    BY <1>1, <1>2
  <2>3. ASSUME NEW g \in 1 .. f
        PROVE  \/ w.start <= frames[g].t /\ frames[w.best].q >= frames[g].q
               \/ Represented(frames, window, w.kept, g)
    <3>1. CASE g = f
      BY <1>1, <1>2, <3>1
    <3>2. CASE g \in 1 .. f - 1
      BY <1>1, <3>2
    <3> QED BY <1>4, <3>1, <3>2
  <2> QED BY <2>1, <2>2, <2>3 DEF WindowInv
<1> QED BY <1>5 DEF w

LEMMA FirstSeen ==
    ASSUME NEW frames \in Seq(Frames), NEW window \in Nat \ {0}, 1 \in 1 .. Len(frames)
    PROVE  /\ WindowInv(frames, window, See(frames, window, Nothing, 1), 1)
           /\ See(frames, window, Nothing, 1).kept = <<>>
           /\ See(frames, window, Nothing, 1).start = frames[1].t
<1>1. See(frames, window, Nothing, 1) = [kept |-> <<>>, start |-> frames[1].t, best |-> 1]
  BY DEF See, Nothing, Closed
<1>2. \A g \in 1 .. 1 - 1 : Represented(frames, window, <<>>, g)
  OBVIOUS
<1>3. WindowInv(frames, window, [kept |-> <<>>, start |-> frames[1].t, best |-> 1], 1)
  BY <1>2, NextWindow
<1> QED BY <1>1, <1>3

LEMMA NextSeen ==
    ASSUME NEW frames \in Seq(Frames), InOrder(frames), NEW window \in Nat \ {0},
           NEW w \in Windows(frames), NEW n \in 1 .. Len(frames) - 1,
           WindowInv(frames, window, w, n)
    PROVE  WindowInv(frames, window, See(frames, window, w, n + 1), n + 1)
<1> DEFINE f == n + 1
<1>1. /\ f \in 1 .. Len(frames) /\ n \in 1 .. Len(frames) /\ f - 1 = n /\ n <= f
      /\ w.best \in 1 .. n /\ w.best # 0 /\ w.best \in 1 .. Len(frames)
  BY LenProperties DEF WindowInv
<1>2. /\ frames[n].t \in Nat /\ frames[f].t \in Nat /\ w.start \in Int /\ frames[f].q \in Int
      /\ frames[w.best].q \in Int /\ frames[w.best].t \in Nat /\ frames[n].t <= frames[f].t
  BY <1>1, FrameTyped, LaterIsNotBefore DEF Windows
<1>3. CASE Target * (frames[f].t - w.start) >= window
  <2>1. See(frames, window, w, f) = [kept |-> Closed(w), start |-> frames[f].t, best |-> f]
    BY <1>3 DEF See
  <2>2. \A g \in 1 .. f - 1 : Represented(frames, window, Closed(w), g)
    BY <1>1, ClosedRepresents
  <2>3. WindowInv(frames, window, [kept |-> Closed(w), start |-> frames[f].t, best |-> f], f)
    <3> HIDE DEF f
    <3> QED BY <1>1, <2>2, NextWindow
  <2> QED BY <2>1, <2>3
<1>4. CASE ~(Target * (frames[f].t - w.start) >= window)
  <2> DEFINE u == See(frames, window, w, f)
  <2>1. u = IF frames[f].q > frames[w.best].q THEN [w EXCEPT !.best = f] ELSE w
    BY <1>1, <1>4 DEF See
  <2>2. /\ u.kept = w.kept /\ u.start = w.start /\ u.best \in {w.best, f}
        /\ u.best = f <=> frames[f].q > frames[w.best].q
    <3>1. w.best # f
      BY <1>1
    <3>2. [w EXCEPT !.best = f].kept = w.kept /\ [w EXCEPT !.best = f].start = w.start
          /\ [w EXCEPT !.best = f].best = f
      BY DEF Windows
    <3> HIDE DEF u, f
    <3> QED BY <2>1, <3>1, <3>2
  <2>3. frames[u.best].q >= frames[f].q /\ frames[u.best].q >= frames[w.best].q
    <3> HIDE DEF u, f
    <3> QED BY <2>2, <1>2
  <2>4. Target * (frames[f].t - w.start) < window
    <3>1. Target * (frames[f].t - w.start) \in Int
      <4> DEFINE e == frames[f].t - w.start
      <4>1. e \in Int /\ Target \in Int
        BY <1>2, KeyframesConstantsOK DEF KeyframesConstantsOK
      <4> HIDE DEF e
      <4>2. Target * e \in Int
        BY <4>1
      <4> QED BY <4>2 DEF e
    <3> QED BY <1>4, <3>1
  <2>5. w.start <= frames[n].t /\ w.start <= frames[w.best].t /\ w.start <= frames[f].t
    <3>1. w.start <= frames[n].t /\ w.start <= frames[w.best].t
      BY DEF WindowInv
    <3> HIDE DEF f
    <3> QED BY <1>2, <3>1
  <2>6. u.best \in 1 .. f
    <3> HIDE DEF u
    <3> QED BY <1>1, <2>2
  <2>7. ASSUME NEW g \in 1 .. f
        PROVE  \/ u.start <= frames[g].t /\ frames[u.best].q >= frames[g].q
               \/ Represented(frames, window, u.kept, g)
    <3>1. CASE g = f
      <4> HIDE DEF u, f
      <4> QED BY <2>2, <2>3, <2>5, <3>1
    <3>2. CASE g \in 1 .. n
      <4>1. frames[g].q \in Int
        BY <1>1, <3>2, FrameTyped
      <4>2. frames[u.best].q \in Int
        <5> HIDE DEF u, f
        <5> QED BY <2>2, <1>2
      <4>3. \/ w.start <= frames[g].t /\ frames[w.best].q >= frames[g].q
            \/ Represented(frames, window, w.kept, g)
        BY <3>2 DEF WindowInv
      <4> HIDE DEF u, f
      <4>4. CASE w.start <= frames[g].t /\ frames[w.best].q >= frames[g].q
        <5> DEFINE a == frames[g].q
                   b == frames[w.best].q
                   c == frames[u.best].q
        <5>1. a \in Int /\ b \in Int /\ c \in Int /\ b >= a /\ c >= b
          BY <1>2, <2>3, <4>1, <4>2, <4>4
        <5> HIDE DEF a, b, c
        <5>2. c >= a
          BY <5>1
        <5> QED BY <2>2, <4>4, <5>2 DEF a, c
      <4>5. CASE Represented(frames, window, w.kept, g)
        BY <2>2, <4>5
      <4> QED BY <4>3, <4>4, <4>5
    <3> QED BY <1>1, <3>1, <3>2
  <2> HIDE DEF u, f
  <2>8. WindowInv(frames, window, u, f)
    <3>1. u.start <= frames[f].t /\ u.start <= frames[u.best].t
      BY <2>2, <2>5
    <3>2. Target * (frames[f].t - u.start) < window
      BY <2>2, <2>4
    <3> QED BY <2>6, <2>7, <3>1, <3>2 DEF WindowInv
  <2> QED BY <2>8 DEF u, f
<1> QED BY <1>3, <1>4

-------------------------------------------------------------------------------
(* Footage with a frame in every window.                                   *)

NoGaps(frames, window) ==
    \A f \in DOMAIN frames \ {1} : Target * (frames[f].t - frames[f - 1].t) <= window

\* The windows that were closed are at most twice as long as they should be.
LengthInv(frames, window, w) ==
    Target * (w.start - frames[1].t) <= 2 * Len(w.kept) * window

LEMMA ThreeParts ==
    ASSUME NEW k \in Nat, NEW a \in Int, NEW b \in Int, NEW c \in Int, NEW d \in Int
    PROVE  k * (d - a) = k * (d - c) + (k * (c - b) + k * (b - a))
OBVIOUS

LEMMA OneMore ==
    ASSUME NEW n \in Nat, NEW m \in Nat
    PROVE  2 * (n + 1) * m = 2 * n * m + (m + m)
OBVIOUS

LEMMA AddThree ==
    ASSUME NEW x \in Int, NEW y \in Int, NEW z \in Int, NEW m \in Int, NEW l \in Int,
           x <= m, y < m, z <= l
    PROVE  x + (y + z) <= l + (m + m)
OBVIOUS

LEMMA NextLength ==
    ASSUME NEW frames \in Seq(Frames), InOrder(frames), NEW window \in Nat \ {0},
           NoGaps(frames, window),
           NEW w \in Windows(frames), NEW n \in 1 .. Len(frames) - 1,
           WindowInv(frames, window, w, n), LengthInv(frames, window, w)
    PROVE  LengthInv(frames, window, See(frames, window, w, n + 1))
<1> DEFINE f == n + 1
           k == Target
           a == frames[1].t
           b == w.start
           c == frames[n].t
           d == frames[f].t
           m == Len(w.kept)
<1>1. /\ f \in 1 .. Len(frames) /\ n \in 1 .. Len(frames) /\ 1 \in 1 .. Len(frames) /\ f - 1 = n
      /\ w.best # 0 /\ f \in DOMAIN frames \ {1}
  BY LenProperties DEF WindowInv
<1>2. a \in Int /\ b \in Int /\ c \in Int /\ d \in Int /\ k \in Nat
  BY <1>1, FrameTyped, KeyframesConstantsOK DEF Windows, KeyframesConstantsOK
<1>3. m \in Nat
  BY LenProperties DEF Windows
<1>4. k * (c - b) < window
  BY DEF WindowInv
<1>5. k * (d - c) <= window
  BY <1>1 DEF NoGaps
<1>6. k * (b - a) <= 2 * m * window
  BY DEF LengthInv
<1>7. CASE Target * (frames[f].t - w.start) >= window
  <2>1. See(frames, window, w, f) = [kept |-> Closed(w), start |-> d, best |-> f]
    BY <1>7 DEF See
  <2>2. Len(Closed(w)) = m + 1
    BY <1>1, ClosedTyped, LenProperties DEF Windows
  <2> HIDE DEF f, k, a, b, c, d, m
  <2>3. k * (d - a) = k * (d - c) + (k * (c - b) + k * (b - a))
    BY <1>2, ThreeParts
  <2>4. 2 * (m + 1) * window = 2 * m * window + (window + window)
    BY <1>3, OneMore
  <2>5. /\ k * (d - c) \in Int /\ k * (c - b) \in Int /\ k * (b - a) \in Int
        /\ 2 * m * window \in Int
    BY <1>2, <1>3
  <2>6. k * (d - c) + (k * (c - b) + k * (b - a)) <= 2 * m * window + (window + window)
    <3> DEFINE x == k * (d - c)
               y == k * (c - b)
               z == k * (b - a)
               l == 2 * m * window
    <3>1. x \in Int /\ y \in Int /\ z \in Int /\ l \in Int /\ x <= window /\ y < window /\ z <= l
      BY <1>4, <1>5, <1>6, <2>5
    <3> HIDE DEF x, y, z, l
    <3>2. x + (y + z) <= l + (window + window)
      BY <3>1, AddThree
    <3> QED BY <3>2 DEF x, y, z, l
  <2>7. k * (d - a) <= 2 * (m + 1) * window
    BY <2>3, <2>4, <2>6, Zenon
  <2>8. LengthInv(frames, window, [kept |-> Closed(w), start |-> d, best |-> f])
    BY <2>2, <2>7 DEF LengthInv, k, a
  <2> QED BY <2>1, <2>8 DEF f
<1>8. CASE ~(Target * (frames[f].t - w.start) >= window)
  <2>1. See(frames, window, w, f) \in {[w EXCEPT !.best = f], w}
    BY <1>1, <1>8 DEF See
  <2>2. [w EXCEPT !.best = f].kept = w.kept /\ [w EXCEPT !.best = f].start = w.start
    BY DEF Windows
  <2> HIDE DEF f
  <2>3. LengthInv(frames, window, [w EXCEPT !.best = f])
    BY <2>2 DEF LengthInv
  <2> QED BY <2>1, <2>3 DEF f
<1> QED BY <1>7, <1>8

\* What select_keyframes has seen of footage that is in order.
LEMMA SeenWindows ==
    ASSUME NEW frames \in Seq(Frames), InOrder(frames), NEW window \in Nat \ {0},
           1 \in 1 .. Len(frames)
    PROVE  LET w == Seen(frames, window)[Len(frames)]
           IN  /\ w \in Windows(frames)
               /\ WindowInv(frames, window, w, Len(frames))
               /\ NoGaps(frames, window) => LengthInv(frames, window, w)
<1> DEFINE N == Len(frames) - 1
           seen == Seen(frames, window)
           P == {k \in 0 .. N : /\ WindowInv(frames, window, seen[k + 1], k + 1)
                                /\ NoGaps(frames, window) => LengthInv(frames, window, seen[k + 1])}
<1>1. N \in Nat /\ N + 1 = Len(frames) /\ Len(frames) \in Nat
  BY LenProperties
<1>2. /\ seen \in [0 .. Len(frames) -> Windows(frames)]
      /\ seen[0] = Nothing
      /\ \A f \in 1 .. Len(frames) : seen[f] = See(frames, window, seen[f - 1], f)
  BY SeenSteps
<1> HIDE DEF seen
<1>3. 0 \in P
  <2>1. seen[0 + 1] = See(frames, window, Nothing, 1)
    <3>1. seen[1] = See(frames, window, seen[1 - 1], 1) /\ 1 - 1 = 0 /\ 0 + 1 = 1
      BY <1>2
    <3> QED BY <1>2, <3>1
  <2>2. LengthInv(frames, window, seen[0 + 1])
    <3>1. Target * (frames[1].t - frames[1].t) <= 2 * Len(<<>>) * window
      <4>1. frames[1].t - frames[1].t = 0
        BY FrameTyped
      <4>2. Target * 0 = 0 /\ 2 * 0 * window = 0 /\ Len(<<>>) = 0 /\ 0 <= 0
        BY KeyframesConstantsOK DEF KeyframesConstantsOK
      <4> QED BY <4>1, <4>2, Zenon
    <3> QED BY <2>1, <3>1, FirstSeen DEF LengthInv
  <2>3. WindowInv(frames, window, seen[0 + 1], 0 + 1)
    <3>1. 0 + 1 = 1
      OBVIOUS
    <3> QED BY <2>1, <3>1, FirstSeen
  <2>4. 0 \in 0 .. N
    BY <1>1
  <2> HIDE DEF N
  <2> QED BY <2>2, <2>3, <2>4
<1>4. ASSUME NEW k \in 0 .. N - 1, k \in P PROVE k + 1 \in P
  <2> DEFINE n == k + 1
  <2>1. /\ n \in 1 .. Len(frames) - 1 /\ n \in 0 .. Len(frames) /\ n + 1 \in 1 .. Len(frames)
        /\ (n + 1) - 1 = n /\ n \in 0 .. N
    BY <1>1
  <2>2. WindowInv(frames, window, seen[n], n)
        /\ (NoGaps(frames, window) => LengthInv(frames, window, seen[n]))
    BY <1>4
  <2> HIDE DEF n, N
  <2>3. seen[n + 1] = See(frames, window, seen[n], n + 1) /\ seen[n] \in Windows(frames)
    BY <1>2, <2>1
  <2>4. WindowInv(frames, window, seen[n + 1], n + 1)
    BY <2>1, <2>2, <2>3, NextSeen
  <2>5. NoGaps(frames, window) => LengthInv(frames, window, seen[n + 1])
    BY <2>1, <2>2, <2>3, NextLength
  <2>6. n \in P
    BY <2>1, <2>4, <2>5
  <2> QED BY <2>6 DEF n
<1>5. N \in P
  <2>1. N \in 0 .. N
    BY <1>1
  <2> HIDE DEF P, N
  <2> QED BY <1>1, <1>3, <1>4, <2>1, InductionUpTo
<1>6. Len(frames) \in 0 .. Len(frames)
  BY <1>1
<1> HIDE DEF N
<1> QED BY <1>1, <1>2, <1>5, <1>6 DEF seen

\* The keyframes of footage that is in order.
LEMMA SelectedRepresent ==
    ASSUME NEW frames \in Seq(Frames), InOrder(frames), NEW window \in Nat \ {0}
    PROVE  LET kept == select_keyframes(frames, window)
           IN  /\ kept \in Seq(1 .. Len(frames))
               /\ \A g \in 1 .. Len(frames) : Represented(frames, window, kept, g)
               /\ (frames # <<>> /\ NoGaps(frames, window)) =>
                      Target * Span(frames) <= 2 * Len(kept) * window
<1> DEFINE w == Seen(frames, window)[Len(frames)]
<1>1. Len(frames) \in Nat /\ Len(frames) \in 0 .. Len(frames)
  BY LenProperties
<1>2. w \in Windows(frames)
  BY <1>1, SeenSteps
<1>3. w.kept \in Seq(1 .. Len(frames)) /\ w.best \in 0 .. Len(frames) /\ w.start \in Int
  BY <1>2 DEF Windows
<1>4. select_keyframes(frames, window) = Closed(w)
  BY DEF select_keyframes
<1>5. Closed(w) \in Seq(1 .. Len(frames))
  <2> HIDE DEF w
  <2> QED BY <1>1, <1>3, ClosedTyped
<1>6. CASE Len(frames) = 0
  <2>1. frames = <<>> /\ 1 .. Len(frames) = {}
    BY <1>6, EmptySeq
  <2> QED BY <1>4, <1>5, <2>1
<1>7. CASE Len(frames) # 0
  <2>1. 1 \in 1 .. Len(frames) /\ Len(frames) \in 1 .. Len(frames)
    BY <1>1, <1>7
  <2>2. WindowInv(frames, window, w, Len(frames))
        /\ (NoGaps(frames, window) => LengthInv(frames, window, w))
    BY <2>1, SeenWindows
  <2> HIDE DEF w
  <2>3. \A g \in 1 .. Len(frames) : Represented(frames, window, Closed(w), g)
    BY <1>2, <2>1, <2>2, ClosedRepresents
  <2>4. ASSUME frames # <<>>, NoGaps(frames, window)
        PROVE  Target * Span(frames) <= 2 * Len(Closed(w)) * window
    <3> DEFINE k == Target
               a == frames[1].t
               b == w.start
               c == frames[Len(frames)].t
               m == Len(w.kept)
    <3>1. a \in Int /\ b \in Int /\ c \in Int /\ k \in Nat /\ m \in Nat
      BY <1>3, <2>1, FrameTyped, LenProperties, KeyframesConstantsOK DEF KeyframesConstantsOK
    <3>2. Span(frames) = c - a
      BY <2>1, <2>4, HeadTailProperties DEF Span, Last
    <3>3. Len(Closed(w)) = m + 1
      BY <1>1, <1>3, <2>2, ClosedTyped DEF WindowInv
    <3>4. k * (c - b) < window
      BY <2>2 DEF WindowInv
    <3>5. k * (b - a) <= 2 * m * window
      BY <2>2, <2>4 DEF LengthInv
    <3> HIDE DEF k, a, b, c, m
    <3>6. k * (c - a) = k * (c - b) + k * (b - a)
      BY <3>1
    <3>7. 2 * (m + 1) * window = 2 * m * window + (window + window)
      BY <3>1, OneMore
    <3>8. k * (c - b) + k * (b - a) <= 2 * m * window + (window + window)
      <4> DEFINE y == k * (c - b)
                 z == k * (b - a)
                 l == 2 * m * window
      <4>1. y \in Int /\ z \in Int /\ l \in Int /\ y < window /\ z <= l
        BY <3>1, <3>4, <3>5
      <4> HIDE DEF y, z, l
      <4>2. y + z <= l + (window + window)
        BY <4>1
      <4> QED BY <4>2 DEF y, z, l
    <3>9. k * (c - a) <= 2 * (m + 1) * window
      BY <3>6, <3>7, <3>8, Zenon
    <3> QED BY <3>2, <3>3, <3>9 DEF k
  <2> QED BY <1>4, <1>5, <2>3, <2>4
<1> QED BY <1>6, <1>7

\* The frames of the flight, and what curation keeps of them.
LEMMA FlightInOrder ==
    ASSUME NEW c \in Campaigns, NEW f \in FlightsOf(c)
    PROVE  /\ f.frames \in Seq(Frames) /\ InOrder(f.frames)
           /\ adaptive_window_s(f.frames) \in Nat \ {0}
           /\ DOMAIN f.frames = 1 .. Len(f.frames)
<1>1. f.frames \in Seq(Frames) /\ InOrder(f.frames)
  BY Recorded
<1> QED BY <1>1, WindowPositive, LenProperties

\* Whatever was recorded, every frame that passed the gates has a keyframe at least as good
\* less than a window away, and footage without gaps keeps half of the target
\* (curation.py:140-161).
THEOREM KeyframesRepresentHolds == Spec => []KeyframesRepresent
<1>1. DataInv => KeyframesRepresent
  <2> SUFFICES ASSUME DataInv, stage # "curation"
               PROVE  KeyframesRepresent
    BY DEF KeyframesRepresent
  <2> DEFINE frames == flight.frames
             window == adaptive_window_s(frames)
             kept == select_keyframes(frames, window)
  <2>1. frames \in Seq(Frames) /\ InOrder(frames) /\ window \in Nat \ {0}
        /\ DOMAIN frames = 1 .. Len(frames)
    BY FlightInOrder DEF DataInv
  <2>2. keyframes = kept
    BY DEF DataInv
  <2> HIDE DEF frames, window
  <2>3. /\ \A g \in 1 .. Len(frames) : Represented(frames, window, kept, g)
        /\ (frames # <<>> /\ NoGaps(frames, window)) =>
               Target * Span(frames) <= 2 * Len(kept) * window
    BY <2>1, SelectedRepresent
  <2> HIDE DEF kept
  <2>4. \A g \in DOMAIN frames : \E n \in DOMAIN keyframes :
            /\ Target * Distance(frames[g].t - frames[keyframes[n]].t) < window
            /\ frames[keyframes[n]].q >= frames[g].q
    BY <2>1, <2>2, <2>3 DEF Represented
  <2>5. (frames # <<>> /\ \A f \in DOMAIN frames \ {1} :
            Target * (frames[f].t - frames[f - 1].t) <= window) =>
               Target * Span(frames) <= 2 * Len(keyframes) * window
    BY <2>2, <2>3 DEF NoGaps
  <2> QED BY <2>4, <2>5 DEF KeyframesRepresent, frames, window
<1> QED BY <1>1, DataInvariant, PTL

-------------------------------------------------------------------------------
(* Priors.                                                                 *)

LEMMA Scaled ==
    ASSUME NEW k \in Nat, NEW n \in Int, NEW m \in Nat, Distance(n) <= m
    PROVE  Distance(k * n) <= k * m
BY DEF Distance

LEMMA Triangle ==
    ASSUME NEW m \in Int, NEW n \in Int
    PROVE  Distance(m + n) <= Distance(m) + Distance(n)
BY DEF Distance

\* One of two factors is small: so is their product, measured by their sum.
LEMMA OneIsNear ==
    ASSUME NEW g \in Nat, NEW e \in Nat, NEW l \in Nat, e <= g \/ l <= g
    PROVE  e * l <= g * (e + l)
<1>1. CASE e <= g
  <2>1. l * e <= l * g
    BY <1>1, Times
  <2>2. g * (e + l) = l * g + g * e
    OBVIOUS
  <2>3. g * e \in Nat /\ l * g \in Nat
    OBVIOUS
  <2>4. e * l = l * e
    OBVIOUS
  <2> QED BY <2>1, <2>2, <2>3, <2>4
<1>2. CASE l <= g
  <2>1. e * l <= e * g
    BY <1>2, Times
  <2>2. g * (e + l) = e * g + g * l
    OBVIOUS
  <2>3. g * l \in Nat /\ e * g \in Nat
    OBVIOUS
  <2> QED BY <2>1, <2>2, <2>3
<1> QED BY <1>1, <1>2

\* The interpolation between v, e ticks earlier, and w, l ticks later, of a track that is
\* at x and moves by s in a tick, if v and w are off by up to d.
LEMMA BetweenRecords ==
    ASSUME NEW g \in Nat, NEW s \in Nat, NEW e \in Nat, NEW l \in Nat, NEW d \in Nat,
           NEW v \in Int, NEW w \in Int, NEW x \in Int,
           Distance(v - x) <= s * e + d, Distance(w - x) <= s * l + d, e <= g \/ l <= g
    PROVE  Distance((v * (e + l) + e * (w - v)) - (e + l) * x) <= (2 * g * s + d) * (e + l)
<1> DEFINE b == v - x
           a == w - x
<1>1. (v * (e + l) + e * (w - v)) - (e + l) * x = l * b + e * a
  OBVIOUS
<1>2. b \in Int /\ a \in Int /\ s * e + d \in Nat /\ s * l + d \in Nat
  OBVIOUS
<1> HIDE DEF a, b
<1>3. Distance(l * b) <= l * (s * e + d) /\ Distance(e * a) <= e * (s * l + d)
  <2>1. Distance(b) <= s * e + d /\ Distance(a) <= s * l + d
    BY DEF a, b
  <2> QED BY <1>2, <2>1, Scaled
<1>4. Distance(l * b + e * a) <= Distance(l * b) + Distance(e * a)
  <2>1. l * b \in Int /\ e * a \in Int
    BY <1>2
  <2> HIDE DEF Distance
  <2> QED BY <2>1, Triangle
<1>5. l * (s * e + d) = s * (e * l) + l * d /\ e * (s * l + d) = s * (e * l) + e * d
  OBVIOUS
<1>6. s * (e * l) <= s * (g * (e + l))
  <2>1. e * l \in Nat /\ g * (e + l) \in Nat
    OBVIOUS
  <2>2. e * l <= g * (e + l)
    BY OneIsNear
  <2> QED BY <2>1, <2>2, Times
<1>7. (2 * g * s + d) * (e + l) = s * (g * (e + l)) + s * (g * (e + l)) + (l * d + e * d)
  OBVIOUS
<1>8. /\ s * (e * l) \in Nat /\ s * (g * (e + l)) \in Nat /\ l * d \in Nat /\ e * d \in Nat
      /\ Distance(l * b) \in Int /\ Distance(e * a) \in Int /\ Distance(l * b + e * a) \in Int
  BY <1>2 DEF Distance
<1>9. Distance(l * b + e * a) <= s * (g * (e + l)) + s * (g * (e + l)) + (l * d + e * d)
  BY <1>3, <1>4, <1>5, <1>6, <1>8
<1> QED BY <1>1, <1>7, <1>9

LEMMA DistanceSymmetric ==
    ASSUME NEW a \in Int, NEW b \in Int
    PROVE  Distance(a - b) = Distance(b - a)
BY DEF Distance

LEMMA OneTickFurther ==
    ASSUME NEW speed \in Nat, NEW x \in Int, NEW y \in Int, NEW z \in Int, NEW k \in Nat,
           Distance(y - x) <= speed * k, Distance(z - y) <= speed
    PROVE  Distance(z - x) <= speed * (k + 1)
<1>1. speed * (k + 1) = speed * k + speed /\ speed * k \in Nat
  OBVIOUS
<1>2. PICK m \in Nat : m = speed * k
  BY <1>1
<1>3. Distance(z - x) <= m + speed
  BY <1>2 DEF Distance
<1> QED BY <1>1, <1>2, <1>3

\* The aircraft is not faster than speed, over whatever time.
LEMMA NotFaster ==
    ASSUME NEW speed \in Nat, NEW track \in Seq(Int),
           \A t \in 1 .. Len(track) - 1 : Distance(track[t + 1] - track[t]) <= speed,
           NEW a \in 1 .. Len(track), NEW b \in 1 .. Len(track), a <= b
    PROVE  Distance(track[b] - track[a]) <= speed * (b - a)
<1> DEFINE N == Len(track) - a
           P == {k \in 0 .. N : Distance(track[a + k] - track[a]) <= speed * k}
<1>1. /\ Len(track) \in Nat /\ N \in Nat /\ b - a \in 0 .. N /\ a + (b - a) = b
      /\ 0 \in 0 .. N /\ a + 0 = a
  <2>1. Len(track) \in Nat
    BY LenProperties
  <2> QED BY <2>1
<1>2. \A n \in 1 .. Len(track) : track[n] \in Int
  BY ElementOfSeq
<1>3. 0 \in P
  <2>1. track[a] - track[a] = 0 /\ Distance(0) = 0 /\ speed * 0 = 0
    BY <1>2 DEF Distance
  <2> HIDE DEF N
  <2> QED BY <1>1, <2>1
<1>4. ASSUME NEW k \in 0 .. N - 1, k \in P PROVE k + 1 \in P
  <2>1. /\ a + k \in 1 .. Len(track) - 1 /\ a + k \in 1 .. Len(track)
        /\ (a + k) + 1 \in 1 .. Len(track)
        /\ a + (k + 1) = (a + k) + 1 /\ k + 1 \in 0 .. N /\ k \in Nat
    BY <1>1
  <2> HIDE DEF N
  <2> DEFINE x == track[a]
             y == track[a + k]
             z == track[(a + k) + 1]
  <2>2. x \in Int /\ y \in Int /\ z \in Int
    BY <1>2, <2>1
  <2>3. Distance(y - x) <= speed * k /\ Distance(z - y) <= speed
    BY <1>4, <2>1
  <2> HIDE DEF x, y, z
  <2>4. Distance(z - x) <= speed * (k + 1)
    BY <2>1, <2>2, <2>3, OneTickFurther, Zenon
  <2> QED BY <2>1, <2>4 DEF x, z
<1>5. b - a \in P
  <2> HIDE DEF P, N
  <2> QED BY <1>1, <1>3, <1>4, InductionUpTo
<1> QED BY <1>1, <1>5

LEMMA NotFasterEitherWay ==
    ASSUME NEW speed \in Nat, NEW track \in Seq(Int),
           \A t \in 1 .. Len(track) - 1 : Distance(track[t + 1] - track[t]) <= speed,
           NEW a \in Nat, NEW b \in Nat, a + 1 \in DOMAIN track, b + 1 \in DOMAIN track
    PROVE  Distance(track[b + 1] - track[a + 1]) <= speed * Distance(b - a)
<1>1. DOMAIN track = 1 .. Len(track) /\ Len(track) \in Nat
  BY LenProperties
<1>2. track[a + 1] \in Int /\ track[b + 1] \in Int
  BY <1>1, ElementOfSeq
<1>3. CASE a <= b
  <2>1. (b + 1) - (a + 1) = Distance(b - a) /\ a + 1 <= b + 1
    BY <1>3 DEF Distance
  <2> QED BY <1>1, <2>1, NotFaster
<1>4. CASE b <= a
  <2>1. (a + 1) - (b + 1) = Distance(b - a) /\ b + 1 <= a + 1
    BY <1>4 DEF Distance
  <2>2. Distance(track[a + 1] - track[b + 1]) <= speed * Distance(b - a)
    BY <1>1, <2>1, NotFaster
  <2>3. Distance(track[b + 1] - track[a + 1]) = Distance(track[a + 1] - track[b + 1])
    BY <1>2, DistanceSymmetric, Zenon
  <2> QED BY <2>2, <2>3
<1> QED BY <1>3, <1>4

LEMMA ProductOfNats ==
    ASSUME NEW m \in Nat, NEW n \in Nat
    PROVE  m * n \in Nat
OBVIOUS

\* What a record that is off by up to error says of the place where the aircraft was at another
\* time, when it is looked up for a third.
LEMMA OneRecord ==
    ASSUME Speed \in Nat, NEW track \in Seq(Int),
           \A t \in 1 .. Len(track) - 1 : Distance(track[t + 1] - track[t]) <= Speed,
           NEW r \in Nat, NEW ts \in Nat, NEW at \in Nat,
           r + 1 \in DOMAIN track, ts + 1 \in DOMAIN track, at + 1 \in DOMAIN track,
           NEW v \in Int, NEW error \in Nat, Distance(v - track[r + 1]) <= error
    PROVE  Distance(v - track[at + 1])
               <= Speed * Distance(ts - r) + (Speed * Distance(at - ts) + error)
<1>1. Distance(track[ts + 1] - track[r + 1]) <= Speed * Distance(ts - r)
  BY NotFasterEitherWay
<1>2. Distance(track[at + 1] - track[ts + 1]) <= Speed * Distance(at - ts)
  BY NotFasterEitherWay
<1> DEFINE x == track[r + 1]
           y == track[ts + 1]
           z == track[at + 1]
           m == Speed * Distance(ts - r)
           n == Speed * Distance(at - ts)
<1>3. x \in Int /\ y \in Int /\ z \in Int
  BY ElementOfSeq, LenProperties
<1>4. m \in Nat /\ n \in Nat
  <2>1. Distance(ts - r) \in Nat /\ Distance(at - ts) \in Nat
    BY DEF Distance
  <2> QED BY <2>1, ProductOfNats, Zenon
<1>5. Distance(y - x) <= m /\ Distance(z - y) <= n /\ Distance(v - x) <= error
  BY <1>1, <1>2
<1> HIDE DEF x, y, z, m, n
<1>6. Distance(v - z) <= m + (n + error)
  BY <1>3, <1>4, <1>5 DEF Distance
<1> QED BY <1>6 DEF z, m, n

\* Between two records a prior is not further from the place where the aircraft was at another
\* time than it flies in twice the gap and until then, and the records are off, although only
\* one of them has to be near.
LEMMA InterpolationNearTrack ==
    ASSUME Speed \in Nat, NEW track \in Seq(Int),
           \A t \in 1 .. Len(track) - 1 : Distance(track[t + 1] - track[t]) <= Speed,
           NEW ts \in Nat, NEW before, NEW after, NEW at \in Nat, NEW error \in Nat,
           before.t \in 0 .. ts, after.t \in Nat, ts < after.t,
           before.v \in Int, after.v \in Int,
           before.t + 1 \in DOMAIN track, after.t + 1 \in DOMAIN track, at + 1 \in DOMAIN track,
           Distance(before.v - track[before.t + 1]) <= error,
           Distance(after.v - track[after.t + 1]) <= error,
           Usable(before, after, ts)
    PROVE  LET p == Interpolated(before, after, ts)
           IN  Distance(p.num - p.den * track[at + 1])
                   <= (2 * MaxGap * Speed + (Speed * Distance(at - ts) + error)) * p.den
<1>1. /\ before.t \in Nat /\ before.t <= ts /\ ts <= after.t /\ MaxGap \in Nat
      /\ DOMAIN track = 1 .. Len(track) /\ Len(track) \in Nat
  BY LenProperties, PriorsConstantsOK DEF PriorsConstantsOK
<1>2. ts + 1 \in DOMAIN track
  BY <1>1
<1>3. track[at + 1] \in Int
  BY <1>1, ElementOfSeq
<1> DEFINE x == before.t
           z == after.t
<1>4. PICK e \in Nat : e = ts - before.t
  BY <1>1
<1>5. PICK l \in Nat : l = after.t - ts
  BY <1>1
<1>6. /\ after.t - before.t = e + l
      /\ Distance(ts - before.t) = e /\ Distance(ts - after.t) = l
  <2>1. x \in Nat /\ z \in Nat /\ ts < z /\ e = ts - x /\ l = z - ts
    BY <1>1, <1>4, <1>5
  <2> HIDE DEF x, z
  <2>2. z - x = e + l /\ Distance(ts - x) = e /\ Distance(ts - z) = l
    BY <2>1 DEF Distance
  <2> QED BY <2>2 DEF x, z
<1> DEFINE d == Speed * Distance(at - ts) + error
<1>7. Distance(before.v - track[at + 1]) <= Speed * e + d
  BY <1>1, <1>2, <1>6, OneRecord
<1>8. Distance(after.v - track[at + 1]) <= Speed * l + d
  BY <1>1, <1>2, <1>6, OneRecord
<1>9. Distance(at - ts) \in Nat
  BY DEF Distance
<1>10. d \in Nat
  <2>1. Speed * Distance(at - ts) \in Nat
    BY <1>9, ProductOfNats, Zenon
  <2>2. PICK k \in Nat : k = Speed * Distance(at - ts)
    BY <2>1
  <2>3. k + error \in Nat
    OBVIOUS
  <2> QED BY <2>2, <2>3, Zenon
<1> HIDE DEF d
<1>11. e <= MaxGap \/ l <= MaxGap
  BY <1>4, <1>5 DEF Usable
<1>12. /\ Interpolated(before, after, ts).den = e + l
       /\ Interpolated(before, after, ts).num = before.v * (e + l) + e * (after.v - before.v)
  BY <1>4, <1>6 DEF Interpolated
<1>13. Distance((before.v * (e + l) + e * (after.v - before.v)) - (e + l) * track[at + 1])
          <= (2 * MaxGap * Speed + d) * (e + l)
  BY <1>1, <1>3, <1>7, <1>8, <1>10, <1>11, BetweenRecords
<1> QED BY <1>12, <1>13 DEF d

\* The sources of a fix.
LEMMA FixFrom ==
    ASSUME NEW gps, NEW ppk, NEW p \in build_fix(gps, ppk)
    PROVE  \/ p.source = "ppk" /\ \E r \in ppk : r.fixed /\ p.num = r.num /\ p.den = r.den
           \/ p.source = "rtk_fixed" /\ \E r \in gps : r.fixed /\ p.num = r.num /\ p.den = r.den
           \/ p.source = "gnss_only" /\ \E r \in gps : p.num = r.num /\ p.den = r.den
BY DEF build_fix, Fix

LEMMA DifferenceOfInts ==
    ASSUME NEW m \in Int, NEW n \in Int
    PROVE  m - n \in Int
OBVIOUS

\* What a log says of a time, measured by where the aircraft was at another.
LEMMA LogNearTrack ==
    ASSUME Speed \in Nat, Error \in Nat, NEW track \in Seq(Int),
           \A t \in 1 .. Len(track) - 1 : Distance(track[t + 1] - track[t]) <= Speed,
           NEW log \in Seq(Records), Logged(log, track),
           NEW ts \in Nat, NEW at \in Nat, at + 1 \in DOMAIN track,
           NEW p \in nearest_or_interpolate(log, ts)
    PROVE  LET fixed == \A r \in _bisect_by_time(log, ts) : log[r].fixed /\ log[r + 1].fixed
           IN  Distance(p.num - p.den * track[at + 1])
                   <= (2 * MaxGap * Speed
                       + (Speed * Distance(at - ts) + IF fixed THEN 0 ELSE Error)) * p.den
<1>1. PICK b \in _bisect_by_time(log, ts) :
          Usable(log[b], log[b + 1], ts) /\ p = Interpolated(log[b], log[b + 1], ts)
  BY DEF nearest_or_interpolate
<1>2. b \in 1 .. Len(log) - 1 /\ log[b].t <= ts /\ ts < log[b + 1].t
  BY DEF _bisect_by_time
<1>3. b \in DOMAIN log /\ b + 1 \in DOMAIN log /\ DOMAIN log = 1 .. Len(log)
  BY <1>2, LenProperties
<1>4. log[b] \in Records /\ log[b + 1] \in Records
  BY <1>3, ElementOfSeq
<1>5. log[b].t \in Nat /\ log[b + 1].t \in Nat /\ log[b].v \in Int /\ log[b + 1].v \in Int
  BY <1>4 DEF Records
<1> DEFINE fixed == \A r \in _bisect_by_time(log, ts) : log[r].fixed /\ log[r + 1].fixed
           error == IF fixed THEN 0 ELSE Error
           before == log[b]
           after == log[b + 1]
<1>6. ErrorOf(before) \in {0, Error} /\ ErrorOf(after) \in {0, Error}
      /\ (fixed => ErrorOf(before) = 0 /\ ErrorOf(after) = 0)
  BY <1>1 DEF ErrorOf
<1>7. /\ before.t + 1 \in DOMAIN track /\ after.t + 1 \in DOMAIN track
      /\ Distance(before.v - track[before.t + 1]) <= ErrorOf(before)
      /\ Distance(after.v - track[after.t + 1]) <= ErrorOf(after)
  BY <1>3 DEF Logged
<1>8. /\ before.t \in 0 .. ts /\ after.t \in Nat /\ ts < after.t
      /\ before.v \in Int /\ after.v \in Int
  BY <1>2, <1>5
<1>9. Usable(before, after, ts) /\ p = Interpolated(before, after, ts)
  BY <1>1
<1> HIDE DEF before, after, fixed
<1>10. DOMAIN track = 1 .. Len(track)
  BY LenProperties
<1>11. track[before.t + 1] \in Int /\ track[after.t + 1] \in Int
  BY <1>7, <1>10, ElementOfSeq
<1>12. error \in Nat /\ ErrorOf(before) <= error /\ ErrorOf(after) <= error
  BY <1>6
<1>13. /\ Distance(before.v - track[before.t + 1]) <= error
       /\ Distance(after.v - track[after.t + 1]) <= error
  <2> DEFINE m == before.v - track[before.t + 1]
             n == after.v - track[after.t + 1]
  <2>1. m \in Int /\ n \in Int
    BY <1>8, <1>11, DifferenceOfInts, Zenon
  <2>2. Distance(m) <= ErrorOf(before) /\ Distance(n) <= ErrorOf(after)
    BY <1>7
  <2> HIDE DEF m, n
  <2>3. Distance(m) \in Nat /\ Distance(n) \in Nat
    BY <2>1 DEF Distance
  <2> HIDE DEF error
  <2>4. Distance(m) <= error /\ Distance(n) <= error
    BY <1>6, <1>12, <2>2, <2>3
  <2> QED BY <2>4 DEF m, n
<1> HIDE DEF error
<1>14. Distance(p.num - p.den * track[at + 1])
           <= (2 * MaxGap * Speed + (Speed * Distance(at - ts) + error)) * p.den
  BY <1>7, <1>8, <1>9, <1>12, <1>13, InterpolationNearTrack
<1> QED BY <1>14 DEF error, fixed

\* By keyframe, what the logs say of its time.
LEMMA PriorOf ==
    ASSUME DataInv, NEW k \in DOMAIN priors
    PROVE  /\ k \in DOMAIN keyframes
           /\ flight.frames[keyframes[k]].t \in Nat
           /\ flight.frames[keyframes[k]].at \in Nat
           /\ keyframes[k] \in DOMAIN flight.frames
           /\ priors[k] = build_fix(nearest_or_interpolate(flight.gps, flight.frames[keyframes[k]].t),
                                    nearest_or_interpolate(flight.ppk, flight.frames[keyframes[k]].t))
<1>1. /\ stage \notin {"curation", "vio_parse"}
      /\ priors = build_priors_manifest([n \in DOMAIN keyframes |-> flight.frames[keyframes[n]].t],
                                        flight.gps, flight.ppk)
      /\ keyframes = select_keyframes(flight.frames, adaptive_window_s(flight.frames))
  <2>1. stage \notin {"curation", "vio_parse"}
    BY DEF DataInv
  <2> QED BY <2>1 DEF DataInv
<1>2. /\ k \in DOMAIN keyframes
      /\ priors[k] = build_fix(nearest_or_interpolate(flight.gps, flight.frames[keyframes[k]].t),
                               nearest_or_interpolate(flight.ppk, flight.frames[keyframes[k]].t))
  BY <1>1 DEF build_priors_manifest
<1>3. /\ flight.frames \in Seq(Frames) /\ InOrder(flight.frames)
      /\ adaptive_window_s(flight.frames) \in Nat \ {0}
  BY FlightInOrder DEF DataInv
<1>4. keyframes \in Seq(1 .. Len(flight.frames))
  BY <1>1, <1>3, SelectedRepresent
<1>5. keyframes[k] \in 1 .. Len(flight.frames)
  BY <1>2, <1>4, ElementOfSeq, LenProperties
<1>6. flight.frames[keyframes[k]].t \in Nat /\ flight.frames[keyframes[k]].at \in Nat
  BY <1>3, <1>5, FrameTyped
<1>7. keyframes[k] \in DOMAIN flight.frames
  BY <1>3, <1>5, LenProperties
<1> QED BY <1>2, <1>6, <1>7

\* Whatever was recorded, with or without a fix, and whatever the clocks said, no prior is
\* further from where its keyframe was taken than the aircraft flies in twice the gap that is
\* allowed and in the time by which the timestamp is off, and a receiver without a fix may be
\* wrong (vio_parse.py:34-76).
THEOREM PriorsNearTrackHolds == Spec => []PriorsNearTrack
<1>1. DataInv => PriorsNearTrack
  <2> SUFFICES ASSUME DataInv, NEW k \in DOMAIN priors, NEW p \in priors[k]
               PROVE  LET frame == flight.frames[keyframes[k]]
                          log == IF p.source = "ppk" THEN flight.ppk ELSE flight.gps
                          fixed == \A r \in _bisect_by_time(log, frame.t) :
                                       log[r].fixed /\ log[r + 1].fixed
                      IN  Distance(p.num - p.den * flight.track[frame.at + 1])
                              <= (2 * MaxGap * Speed
                                  + (Speed * Distance(frame.at - frame.t)
                                     + IF fixed THEN 0 ELSE Error)) * p.den
    BY DEF PriorsNearTrack
  <2> DEFINE t == flight.frames[keyframes[k]].t
             at == flight.frames[keyframes[k]].at
             gps == nearest_or_interpolate(flight.gps, t)
             ppk == nearest_or_interpolate(flight.ppk, t)
             log == IF p.source = "ppk" THEN flight.ppk ELSE flight.gps
             fixed == \A r \in _bisect_by_time(log, t) : log[r].fixed /\ log[r + 1].fixed
  <2>1. t \in Nat /\ at \in Nat /\ p \in build_fix(gps, ppk)
        /\ keyframes[k] \in DOMAIN flight.frames
    BY PriorOf
  <2>2. /\ flight.track \in Seq(Int)
        /\ \A n \in 1 .. Len(flight.track) - 1 :
               Distance(flight.track[n + 1] - flight.track[n]) <= Speed
        /\ \A n \in DOMAIN flight.frames : flight.frames[n].at + 1 \in DOMAIN flight.track
        /\ \A l \in {flight.gps, flight.ppk} : l \in Seq(Records) /\ Logged(l, flight.track)
        /\ Speed \in Nat /\ Error \in Nat
    BY Recorded, CampaignsOK DEF DataInv, CampaignsOK
  <2>3. at + 1 \in DOMAIN flight.track
    BY <2>1, <2>2
  <2> HIDE DEF t, at
  <2>4. PICK r \in nearest_or_interpolate(log, t) : p.num = r.num /\ p.den = r.den
    <3> HIDE DEF gps, ppk
    <3>1. \/ p.source = "ppk" /\ \E r \in ppk : p.num = r.num /\ p.den = r.den
          \/ p.source = "rtk_fixed" /\ \E r \in gps : p.num = r.num /\ p.den = r.den
          \/ p.source = "gnss_only" /\ \E r \in gps : p.num = r.num /\ p.den = r.den
      BY <2>1, FixFrom
    <3> QED BY <3>1 DEF gps, ppk
  <2>5. log \in Seq(Records) /\ Logged(log, flight.track)
    BY <2>2
  <2> HIDE DEF log
  <2>6. Distance(r.num - r.den * flight.track[at + 1])
            <= (2 * MaxGap * Speed
                + (Speed * Distance(at - t) + IF fixed THEN 0 ELSE Error)) * r.den
    BY <2>1, <2>2, <2>3, <2>4, <2>5, LogNearTrack
  <2>7. Distance(p.num - p.den * flight.track[at + 1])
            <= (2 * MaxGap * Speed
                + (Speed * Distance(at - t) + IF fixed THEN 0 ELSE Error)) * p.den
    BY <2>4, <2>6
  <2> QED BY <2>7 DEF t, at, log
<1> QED BY <1>1, DataInvariant, PTL

-------------------------------------------------------------------------------
(* Matches.                                                                *)

LEMMA LogTyped ==
    ASSUME NEW log \in Seq(Records), NEW ts \in Nat, NEW p \in nearest_or_interpolate(log, ts)
    PROVE  p.num \in Int /\ p.den \in Int
<1>1. PICK b \in _bisect_by_time(log, ts) : p = Interpolated(log[b], log[b + 1], ts)
  BY DEF nearest_or_interpolate
<1>2. b \in DOMAIN log /\ b + 1 \in DOMAIN log
  BY LenProperties DEF _bisect_by_time
<1>3. log[b] \in Records /\ log[b + 1] \in Records
  BY <1>2, ElementOfSeq, LenProperties
<1> DEFINE x == log[b]
           y == log[b + 1]
<1>4. x.t \in Int /\ x.v \in Int /\ y.t \in Int /\ y.v \in Int
  BY <1>3 DEF Records
<1> HIDE DEF x, y
<1>5. p = Interpolated(x, y, ts)
  BY <1>1 DEF x, y
<1> QED BY <1>4, <1>5 DEF Interpolated

\* Every prior is a fraction.
LEMMA PriorTyped ==
    ASSUME DataInv, NEW k \in DOMAIN priors, NEW p \in priors[k]
    PROVE  p.num \in Int /\ p.den \in Int
<1> DEFINE t == flight.frames[keyframes[k]].t
           gps == nearest_or_interpolate(flight.gps, t)
           ppk == nearest_or_interpolate(flight.ppk, t)
<1>1. t \in Nat /\ p \in build_fix(gps, ppk)
  BY PriorOf
<1>2. flight.gps \in Seq(Records) /\ flight.ppk \in Seq(Records)
  BY Recorded DEF DataInv
<1> HIDE DEF t
<1>3. PICK r \in gps \cup ppk : p.num = r.num /\ p.den = r.den
  <2> HIDE DEF gps, ppk
  <2> QED BY <1>1, FixFrom
<1> QED BY <1>1, <1>2, <1>3, LogTyped

\* Keyframes are numbered.
LEMMA PriorDomain ==
    ASSUME DataInv
    PROVE  \E N \in Nat : DOMAIN priors = 1 .. N
<1>1. CASE stage \in {"curation", "vio_parse"}
  <2>1. priors = <<>>
    BY <1>1 DEF DataInv
  <2>2. DOMAIN <<>> = 1 .. 0
    OBVIOUS
  <2> QED BY <2>1, <2>2
<1>2. CASE stage \notin {"curation", "vio_parse"}
  <2>1. /\ priors = build_priors_manifest([n \in DOMAIN keyframes |-> flight.frames[keyframes[n]].t],
                                          flight.gps, flight.ppk)
        /\ keyframes = select_keyframes(flight.frames, adaptive_window_s(flight.frames))
    BY <1>2 DEF DataInv
  <2>2. DOMAIN priors = DOMAIN keyframes
    BY <2>1 DEF build_priors_manifest
  <2>3. /\ flight.frames \in Seq(Frames) /\ InOrder(flight.frames)
        /\ adaptive_window_s(flight.frames) \in Nat \ {0}
    BY FlightInOrder DEF DataInv
  <2>4. keyframes \in Seq(1 .. Len(flight.frames))
    BY <2>1, <2>3, SelectedRepresent
  <2> QED BY <2>2, <2>4, LenProperties
<1> QED BY <1>1, <1>2

LEMMA NearerIrreflexive ==
    ASSUME DataInv, NEW j \in WithPrior(priors), NEW k \in WithPrior(priors)
    PROVE  ~Nearer(priors, j, k, k)
<1> DEFINE a == CHOOSE p \in priors[j] : TRUE
           b == CHOOSE p \in priors[k] : TRUE
<1>1. a \in priors[j] /\ b \in priors[k] /\ j \in DOMAIN priors /\ k \in DOMAIN priors
  BY DEF WithPrior
<1>2. a.num \in Int /\ a.den \in Int /\ b.num \in Int /\ b.den \in Int
  <2> HIDE DEF a, b
  <2> QED BY <1>1, PriorTyped
<1>3. Apart(priors, j, k) = [num |-> Distance(a.num * b.den - b.num * a.den), den |-> a.den * b.den]
  BY DEF Apart
<1> DEFINE d == Apart(priors, j, k)
<1>4. d.num \in Int /\ d.den \in Int
  <2> HIDE DEF a, b
  <2>1. a.num * b.den - b.num * a.den \in Int /\ a.den * b.den \in Int
    BY <1>2
  <2>2. Distance(a.num * b.den - b.num * a.den) \in Int
    BY <2>1 DEF Distance
  <2> QED BY <1>3, <2>1, <2>2
<1> HIDE DEF d
<1>5. d.num * d.den \in Int
  BY <1>4
<1>6. PICK n \in Int : n = d.num * d.den
  BY <1>5
<1>7. ~(d.num * d.den < d.num * d.den)
  BY <1>6
<1>8. k \in Int
  BY <1>1, PriorDomain
<1> QED BY <1>7, <1>8 DEF Nearer, d

\* Who is reached passes on to whom it is matched with.
LEMMA ReachedClosed ==
    ASSUME 1 \in DOMAIN priors
    PROVE  /\ 1 \in Reached
           /\ \A j \in Reached : \A k \in DOMAIN priors :
                  InOrderOfTime(j, k) \in pairs => k \in Reached
BY DEF Reached, ClosedUnderMatches

LEMMA ExhaustiveReaches ==
    ASSUME NEW N \in Nat, DOMAIN priors = 1 .. N, pairs = generate_pairs("exhaustive", priors)
    PROVE  Reached = DOMAIN priors
<1> SUFFICES ASSUME NEW k \in 1 .. N PROVE k \in Reached
  BY DEF Reached
<1>1. 1 \in 1 .. N /\ 1 \in DOMAIN priors
  OBVIOUS
<1>2. CASE k = 1
  BY <1>1, <1>2, ReachedClosed
<1>3. CASE k # 1
  <2>1. 1 < k
    BY <1>3
  <2>2. pairs = {p \in (1 .. N) \X (1 .. N) : p[1] < p[2]}
    BY DEF generate_pairs
  <2>3. <<1, k>> \in pairs /\ InOrderOfTime(1, k) = <<1, k>>
    BY <1>1, <2>1, <2>2 DEF InOrderOfTime
  <2> QED BY <1>1, <2>3, ReachedClosed
<1> QED BY <1>2, <1>3

LEMMA SequentialReaches ==
    ASSUME NEW N \in Nat, DOMAIN priors = 1 .. N, pairs = generate_pairs("sequential", priors)
    PROVE  Reached = DOMAIN priors
<1> SUFFICES ASSUME NEW k \in 1 .. N PROVE k \in Reached
  BY DEF Reached
<1> DEFINE M == N - 1
           P == {n \in 0 .. M : n + 1 \in Reached}
<1>1. 1 \in DOMAIN priors /\ M \in Nat /\ k - 1 \in 0 .. M /\ (k - 1) + 1 = k /\ 0 + 1 = 1
  OBVIOUS
<1>2. 0 \in P
  BY <1>1, ReachedClosed
<1>3. ASSUME NEW n \in 0 .. M - 1, n \in P PROVE n + 1 \in P
  <2> DEFINE j == n + 1
             i == n + 2
  <2>1. j \in 1 .. N /\ i \in 1 .. N /\ j < i /\ i = j + 1 /\ n + 1 \in 0 .. M
    OBVIOUS
  <2>2. j \in Reached
    BY <1>3
  <2>3. pairs = {p \in (1 .. N) \X (1 .. N) : p[1] < p[2] /\ p[2] <= p[1] + Overlap}
    BY DEF generate_pairs
  <2>4. i <= j + Overlap
    BY MatchingConstantsOK DEF MatchingConstantsOK
  <2>5. (n + 1) + 1 = i
    OBVIOUS
  <2> HIDE DEF j, i, M
  <2>6. <<j, i>> \in pairs /\ InOrderOfTime(j, i) = <<j, i>>
    BY <2>1, <2>3, <2>4 DEF InOrderOfTime
  <2>7. i \in Reached
    BY <1>1, <2>1, <2>2, <2>6, ReachedClosed
  <2> QED BY <2>1, <2>5, <2>7
<1>4. k - 1 \in P
  <2> HIDE DEF P, M
  <2> QED BY <1>1, <1>2, <1>3, InductionUpTo
<1> QED BY <1>1, <1>4

\* Who has few keyframes near has them all for neighbours.
LEMMA AllNeighbors ==
    ASSUME DataInv, NEW j \in WithPrior(priors), NEW k \in Near(priors, j),
           ~(Cardinality(Near(priors, j)) > MaxNeighbors)
    PROVE  k \in Neighbors(priors, j)
<1> DEFINE S == Near(priors, j)
           T == {i \in S : Nearer(priors, j, i, k)}
<1>1. k \in WithPrior(priors) /\ k \in S /\ S \subseteq DOMAIN priors
  BY DEF Near, WithPrior
<1>2. IsFiniteSet(S)
  <2>1. PICK N \in Nat : DOMAIN priors = 1 .. N
    BY PriorDomain
  <2>2. IsFiniteSet(1 .. N)
    BY FS_Interval
  <2> HIDE DEF S
  <2> QED BY <1>1, <2>1, <2>2, FS_Subset
<1>3. T \subseteq S /\ k \notin T
  BY NearerIrreflexive, <1>1
<1>4. Cardinality(T) < Cardinality(S)
  <2> HIDE DEF T, S
  <2>1. T # S
    BY <1>1, <1>3
  <2>2. IsFiniteSet(T) /\ Cardinality(T) <= Cardinality(S) /\ (Cardinality(S) = Cardinality(T) => S = T)
    BY <1>2, <1>3, FS_Subset
  <2>3. Cardinality(S) \in Nat /\ Cardinality(T) \in Nat
    BY <1>2, <2>2, FS_CardinalityType
  <2> QED BY <2>1, <2>2, <2>3
<1>5. Cardinality(T) < MaxNeighbors
  <2> HIDE DEF T
  <2>1. Cardinality(S) \in Nat /\ IsFiniteSet(T)
    BY <1>2, <1>3, FS_CardinalityType, FS_Subset
  <2>2. Cardinality(T) \in Nat
    BY <2>1, FS_CardinalityType
  <2> HIDE DEF S
  <2>3. ~(Cardinality(S) > MaxNeighbors)
    BY DEF S
  <2> QED BY <1>4, <2>1, <2>2, <2>3, MatchingConstantsOK DEF MatchingConstantsOK
<1> QED BY <1>1, <1>5 DEF Neighbors

LEMMA SpatialReaches ==
    ASSUME DataInv, pairs = generate_pairs("spatial", priors),
           WithPrior(priors) = DOMAIN priors, 1 \in DOMAIN priors,
           \A k \in DOMAIN priors : ~(Cardinality(Near(priors, k)) > MaxNeighbors)
    PROVE  Separated(Reached)
<1> SUFFICES ASSUME NEW j \in Reached, NEW k \in WithPrior(priors) \ Reached, k \in Near(priors, j)
             PROVE  FALSE
  BY DEF Separated
<1>1. j \in DOMAIN priors /\ j \in WithPrior(priors) /\ k \in DOMAIN priors
  BY DEF Reached
<1>2. k \in Neighbors(priors, j)
  BY <1>1, AllNeighbors
<1>3. InOrderOfTime(j, k) \in pairs
  <2>1. pairs = UNION {{InOrderOfTime(i, n) : n \in Neighbors(priors, i)} : i \in WithPrior(priors)}
    BY DEF generate_pairs
  <2> HIDE DEF Neighbors, InOrderOfTime
  <2> QED BY <1>1, <1>2, <2>1
<1> QED BY <1>1, <1>3, ReachedClosed

\* Whatever was recorded, only the spatial strategy leaves a keyframe out, and then because
\* it has no prior, lies apart, or keyframes have more near them than are matched
\* (sfm.py:79-85, learned_features.py:79-121).
THEOREM MatchingConnectedHolds == Spec => []MatchingConnected
<1>1. DataInv => MatchingConnected
  <2> SUFFICES ASSUME DataInv, stage \notin {"curation", "vio_parse", "matching"},
                      Reached # DOMAIN priors
               PROVE  /\ strategy = "spatial"
                      /\ \/ WithPrior(priors) # DOMAIN priors
                         \/ Separated(Reached)
                         \/ \E k \in DOMAIN priors : Cardinality(Near(priors, k)) > MaxNeighbors
    BY DEF MatchingConnected
  <2>1. /\ strategy = choose_matching_strategy(priors)
        /\ pairs = generate_pairs(strategy, priors)
    BY DEF DataInv, Stages
  <2>2. strategy \in {"spatial", "exhaustive", "sequential"}
    BY <2>1 DEF choose_matching_strategy
  <2>3. PICK N \in Nat : DOMAIN priors = 1 .. N
    BY PriorDomain
  <2>4. strategy = "spatial"
    BY <2>1, <2>2, <2>3, ExhaustiveReaches, SequentialReaches
  <2>5. 1 \in DOMAIN priors
    <3>1. CASE N = 0
      <4>1. DOMAIN priors = {}
        BY <2>3, <3>1
      <4> QED BY <4>1 DEF Reached
    <3> QED BY <2>3, <3>1
  <2> QED BY <2>1, <2>4, <2>5, SpatialReaches
<1> QED BY <1>1, DataInvariant, PTL

-------------------------------------------------------------------------------
(* Masks.                                                                  *)

Counts == [runs : Seq(Nat), current : BOOLEAN, count : Nat]

LEMMA FirstTyped ==
    ASSUME NEW marked
    PROVE  FirstRun(marked) \in Counts
BY EmptySeq DEF FirstRun, Counts

LEMMA CountTyped ==
    ASSUME NEW marked, NEW r \in Counts, NEW p
    PROVE  Count(marked, r, p) \in Counts
<1>1. r.runs \in Seq(Nat) /\ r.current \in BOOLEAN /\ r.count \in Nat
  BY DEF Counts
<1>2. [r EXCEPT !.count = r.count + 1] \in Counts
  BY <1>1 DEF Counts
<1>3. [runs |-> Append(r.runs, r.count), current |-> p \in marked, count |-> 1] \in Counts
  <2>1. Append(r.runs, r.count) \in Seq(Nat)
    BY <1>1, AppendProperties
  <2>2. (p \in marked) \in BOOLEAN
    OBVIOUS
  <2> QED BY <2>1, <2>2 DEF Counts
<1> QED BY <1>2, <1>3 DEF Count

\* The runs that have been counted before each pixel.
LEMMA CountedSteps ==
    ASSUME NEW marked, NEW width \in Nat
    PROVE  /\ Counted(marked, width) \in [0 .. width -> Counts]
           /\ Counted(marked, width)[0] = FirstRun(marked)
           /\ \A p \in 1 .. width :
                  Counted(marked, width)[p] = Count(marked, Counted(marked, width)[p - 1], p)
<1> DEFINE N == width
           S == Counts
           step == [w \in S |-> [f \in 1 .. N |-> Count(marked, w, f)]]
           Is(h) == h = [f \in 0 .. N |-> IF f = 0 THEN FirstRun(marked)
                                          ELSE Count(marked, h[f - 1], f)]
           counted == CHOOSE h : Is(h)
<1>1. N \in Nat
  OBVIOUS
<1>2. FirstRun(marked) \in S
  BY FirstTyped
<1>3. step \in [S -> [1 .. N -> S]]
  BY CountTyped
<1>4. PICK g \in [0 .. N -> S] :
          /\ g[0] = FirstRun(marked)
          /\ \A k \in 1 .. N : g[k] = step[g[k - 1]][k]
  <2> DEFINE base == FirstRun(marked)
  <2>1. base \in S
    BY <1>2
  <2> HIDE DEF N, S, step, base
  <2>2. \E g : Follows(g, N, S, base, step)
    BY <1>1, <1>3, <2>1, StepByStep
  <2> QED BY <2>2 DEF base, Follows
<1>5. \A k \in 1 .. N : g[k] = Count(marked, g[k - 1], k)
  <2> SUFFICES ASSUME NEW k \in 1 .. N PROVE g[k] = Count(marked, g[k - 1], k)
    OBVIOUS
  <2>1. k - 1 \in 0 .. N
    BY <1>1
  <2>2. g[k - 1] \in S
    BY <2>1
  <2> HIDE DEF S, N
  <2>3. step[g[k - 1]][k] = Count(marked, g[k - 1], k)
    BY <2>2
  <2> HIDE DEF step
  <2> QED BY <1>4, <2>3
<1>6. Is(g)
  <2> HIDE DEF S, N, step
  <2>1. \A k \in 0 .. N : k = 0 \/ k \in 1 .. N
    BY <1>1
  <2>2. g = [k \in 0 .. N |-> g[k]]
    OBVIOUS
  <2>3. \A k \in 0 .. N : g[k] = IF k = 0 THEN FirstRun(marked) ELSE Count(marked, g[k - 1], k)
    BY <1>4, <1>5, <2>1
  <2> QED BY <2>2, <2>3
<1>7. Is(counted) /\ Counted(marked, width) = counted
  BY <1>6 DEF Counted
<1>8. counted[0] = FirstRun(marked) /\ \A k \in 1 .. N : counted[k] = Count(marked, counted[k - 1], k)
  <2>1. \A k \in 1 .. N : k \in 0 .. N /\ k # 0
    BY <1>1
  <2>2. 0 \in 0 .. N
    BY <1>1
  <2> HIDE DEF counted, N
  <2> QED BY <1>7, <2>1, <2>2
<1>9. \A k \in 0 .. N : k \in {f \in 0 .. N : counted[f] = g[f]}
  <2> DEFINE P == {f \in 0 .. N : counted[f] = g[f]}
  <2>1. 0 \in P
    BY <1>1, <1>4, <1>8
  <2>2. ASSUME NEW k \in 0 .. N - 1, k \in P PROVE k + 1 \in P
    <3>1. k + 1 \in 1 .. N /\ k + 1 \in 0 .. N /\ (k + 1) - 1 = k
      BY <1>1
    <3> HIDE DEF counted, N
    <3>2. counted[k + 1] = Count(marked, counted[k], k + 1)
      BY <1>8, <3>1
    <3>3. g[k + 1] = Count(marked, g[k], k + 1)
      BY <1>5, <3>1
    <3> QED BY <2>2, <3>1, <3>2, <3>3
  <2> HIDE DEF P, N, counted
  <2>3. \A k \in 0 .. N : k \in P
    BY <1>1, <2>1, <2>2, InductionUpTo
  <2> QED BY <2>3 DEF P
<1>10. counted \in [0 .. N -> S]
  <2> HIDE DEF S, N
  <2>1. DOMAIN counted = 0 .. N
    BY <1>7
  <2> HIDE DEF counted
  <2>2. \A k \in 0 .. N : counted[k] \in S
    BY <1>9
  <2>3. counted = [k \in 0 .. N |-> counted[k]]
    BY <1>7, <2>1
  <2> QED BY <2>2, <2>3
<1> QED BY <1>7, <1>8, <1>10

Painters == [pixels : SUBSET Nat, idx : Nat, val : BOOLEAN]

Unpainted == [pixels |-> {}, idx |-> 0, val |-> FALSE]

LEMMA PaintTyped ==
    ASSUME NEW m \in Painters, NEW run \in Nat
    PROVE  Paint(m, run) \in Painters
<1>1. m.pixels \in SUBSET Nat /\ m.idx \in Nat /\ m.val \in BOOLEAN
  BY DEF Painters
<1>2. (IF m.val THEN m.pixels \cup (m.idx + 1 .. m.idx + run) ELSE m.pixels) \in SUBSET Nat
  BY <1>1
<1>3. m.idx + run \in Nat
  BY <1>1
<1>4. (~m.val) \in BOOLEAN
  OBVIOUS
<1> QED BY <1>2, <1>3, <1>4 DEF Paint, Painters

\* What has been painted after each run.
LEMMA PaintingSteps ==
    ASSUME NEW runs \in Seq(Nat)
    PROVE  /\ Painting(runs) \in [0 .. Len(runs) -> Painters]
           /\ Painting(runs)[0] = Unpainted
           /\ \A r \in 1 .. Len(runs) :
                  Painting(runs)[r] = Paint(Painting(runs)[r - 1], runs[r])
<1> DEFINE N == Len(runs)
           S == Painters
           step == [w \in S |-> [f \in 1 .. N |-> Paint(w, runs[f])]]
           Is(h) == h = [f \in 0 .. N |-> IF f = 0 THEN Unpainted
                                          ELSE Paint(h[f - 1], runs[f])]
           painting == CHOOSE h : Is(h)
<1>1. N \in Nat
  BY LenProperties
<1>2. Unpainted \in S
  BY DEF Unpainted, Painters
<1>3. step \in [S -> [1 .. N -> S]]
  BY PaintTyped
<1>4. PICK g \in [0 .. N -> S] :
          /\ g[0] = Unpainted
          /\ \A k \in 1 .. N : g[k] = step[g[k - 1]][k]
  <2> DEFINE base == Unpainted
  <2>1. base \in S
    BY <1>2
  <2> HIDE DEF N, S, step, base
  <2>2. \E g : Follows(g, N, S, base, step)
    BY <1>1, <1>3, <2>1, StepByStep
  <2> QED BY <2>2 DEF base, Follows
<1>5. \A k \in 1 .. N : g[k] = Paint(g[k - 1], runs[k])
  <2> SUFFICES ASSUME NEW k \in 1 .. N PROVE g[k] = Paint(g[k - 1], runs[k])
    OBVIOUS
  <2>1. k - 1 \in 0 .. N
    BY <1>1
  <2>2. g[k - 1] \in S
    BY <2>1
  <2> HIDE DEF S, N
  <2>3. step[g[k - 1]][k] = Paint(g[k - 1], runs[k])
    BY <2>2
  <2> HIDE DEF step
  <2> QED BY <1>4, <2>3
<1>6. Is(g)
  <2> HIDE DEF S, N, step
  <2>1. \A k \in 0 .. N : k = 0 \/ k \in 1 .. N
    BY <1>1
  <2>2. g = [k \in 0 .. N |-> g[k]]
    OBVIOUS
  <2>3. \A k \in 0 .. N : g[k] = IF k = 0 THEN Unpainted ELSE Paint(g[k - 1], runs[k])
    BY <1>4, <1>5, <2>1
  <2> QED BY <2>2, <2>3
<1>7. Is(painting) /\ Painting(runs) = painting
  BY <1>6 DEF Painting, Unpainted
<1>8. painting[0] = Unpainted /\ \A k \in 1 .. N : painting[k] = Paint(painting[k - 1], runs[k])
  <2>1. \A k \in 1 .. N : k \in 0 .. N /\ k # 0
    BY <1>1
  <2>2. 0 \in 0 .. N
    BY <1>1
  <2> HIDE DEF painting, N
  <2> QED BY <1>7, <2>1, <2>2
<1>9. \A k \in 0 .. N : k \in {f \in 0 .. N : painting[f] = g[f]}
  <2> DEFINE P == {f \in 0 .. N : painting[f] = g[f]}
  <2>1. 0 \in P
    BY <1>1, <1>4, <1>8
  <2>2. ASSUME NEW k \in 0 .. N - 1, k \in P PROVE k + 1 \in P
    <3>1. k + 1 \in 1 .. N /\ k + 1 \in 0 .. N /\ (k + 1) - 1 = k
      BY <1>1
    <3> HIDE DEF painting, N
    <3>2. painting[k + 1] = Paint(painting[k], runs[k + 1])
      BY <1>8, <3>1
    <3>3. g[k + 1] = Paint(g[k], runs[k + 1])
      BY <1>5, <3>1
    <3> QED BY <2>2, <3>1, <3>2, <3>3
  <2> HIDE DEF P, N, painting
  <2>3. \A k \in 0 .. N : k \in P
    BY <1>1, <2>1, <2>2, InductionUpTo
  <2> QED BY <2>3 DEF P
<1>10. painting \in [0 .. N -> S]
  <2> HIDE DEF S, N
  <2>1. DOMAIN painting = 0 .. N
    BY <1>7
  <2> HIDE DEF painting
  <2>2. \A k \in 0 .. N : painting[k] \in S
    BY <1>9
  <2>3. painting = [k \in 0 .. N |-> painting[k]]
    BY <1>7, <2>1
  <2> QED BY <2>2, <2>3
<1> QED BY <1>7, <1>8, <1>10

LEMMA AppendAgrees ==
    ASSUME NEW runs \in Seq(Nat), NEW c \in Nat
    PROVE  /\ Append(runs, c) \in Seq(Nat) /\ Len(Append(runs, c)) = Len(runs) + 1
           /\ Append(runs, c)[Len(runs) + 1] = c
           /\ \A r \in 1 .. Len(runs) : Append(runs, c)[r] = runs[r]
           /\ Len(runs) \in Nat
BY AppendProperties, LenProperties

\* One run more is painted after the others.
LEMMA OneRunMore ==
    ASSUME NEW runs \in Seq(Nat), NEW c \in Nat
    PROVE  Painting(Append(runs, c))[Len(runs) + 1] = Paint(Painting(runs)[Len(runs)], c)
<1> DEFINE more == Append(runs, c)
           L == Len(runs)
           old == Painting(runs)
           new == Painting(more)
           P == {r \in 0 .. L : new[r] = old[r]}
<1>1. /\ more \in Seq(Nat) /\ Len(more) = L + 1 /\ more[L + 1] = c /\ L \in Nat
      /\ \A r \in 1 .. L : more[r] = runs[r]
  BY AppendAgrees
<1>2. old[0] = Unpainted /\ \A r \in 1 .. L : old[r] = Paint(old[r - 1], runs[r])
  BY PaintingSteps
<1>3. new[0] = Unpainted /\ \A r \in 1 .. L + 1 : new[r] = Paint(new[r - 1], more[r])
  <2> HIDE DEF more, L
  <2> QED BY <1>1, PaintingSteps
<1> HIDE DEF more, L, old, new
<1>4. 0 \in P
  BY <1>1, <1>2, <1>3
<1>5. ASSUME NEW k \in 0 .. L - 1, k \in P PROVE k + 1 \in P
  <2>1. k + 1 \in 1 .. L /\ k + 1 \in 1 .. L + 1 /\ (k + 1) - 1 = k /\ k + 1 \in 0 .. L
    BY <1>1
  <2>2. new[k + 1] = Paint(new[k], more[k + 1])
    BY <1>3, <2>1
  <2>3. old[k + 1] = Paint(old[k], runs[k + 1])
    BY <1>2, <2>1
  <2>4. more[k + 1] = runs[k + 1]
    BY <1>1, <2>1
  <2> QED BY <1>5, <2>1, <2>2, <2>3, <2>4
<1>6. L \in P
  <2>1. L \in 0 .. L
    BY <1>1
  <2> HIDE DEF P
  <2> QED BY <1>1, <1>4, <1>5, <2>1, InductionUpTo
<1>7. new[L + 1] = Paint(new[L], c)
  <2>1. L + 1 \in 1 .. L + 1 /\ (L + 1) - 1 = L
    BY <1>1
  <2> QED BY <1>1, <1>3, <2>1
<1> QED BY <1>6, <1>7 DEF more, L, old, new

\* The runs of r, painted, are the first p pixels without the run that is counted.
CountInv(marked, r, p) ==
    LET m == Painting(r.runs)[Len(r.runs)]
    IN  /\ m.idx + r.count = p
        /\ m.val = r.current
        /\ m.pixels = marked \cap (1 .. m.idx)
        /\ \A q \in m.idx + 1 .. p : (q \in marked) = r.current

\* With the run that is counted the first p pixels are complete.
LEMMA PaintedSoFar ==
    ASSUME NEW marked, NEW r \in Counts, NEW p \in Nat, CountInv(marked, r, p)
    PROVE  LET m == Painting(Append(r.runs, r.count))[Len(r.runs) + 1]
           IN  m.idx = p /\ m.val = ~r.current /\ m.pixels = marked \cap (1 .. p)
<1> DEFINE old == Painting(r.runs)[Len(r.runs)]
           new == Painting(Append(r.runs, r.count))[Len(r.runs) + 1]
<1>1. r.runs \in Seq(Nat) /\ r.count \in Nat /\ r.current \in BOOLEAN
  BY DEF Counts
<1>2. new = Paint(old, r.count)
  BY <1>1, OneRunMore
<1>3. old \in Painters
  <2>1. Len(r.runs) \in 0 .. Len(r.runs)
    BY <1>1, LenProperties
  <2> QED BY <1>1, <2>1, PaintingSteps
<1>4. /\ old.idx + r.count = p /\ old.val = r.current
      /\ old.pixels = marked \cap (1 .. old.idx)
      /\ \A q \in old.idx + 1 .. p : (q \in marked) = r.current
  BY DEF CountInv
<1>5. old.idx \in Nat /\ old.val \in BOOLEAN
  BY <1>3 DEF Painters
<1> HIDE DEF old, new
<1>6. new.idx = p /\ new.val = ~old.val
  BY <1>2, <1>4 DEF Paint
<1>7. new.pixels = IF old.val THEN old.pixels \cup (old.idx + 1 .. old.idx + r.count) ELSE old.pixels
  BY <1>2 DEF Paint
<1>8. ASSUME NEW i \in Nat, NEW b \in BOOLEAN, NEW X, i <= p,
             X = marked \cap (1 .. i), \A q \in i + 1 .. p : (q \in marked) = b
      PROVE  (IF b THEN X \cup (i + 1 .. p) ELSE X) = marked \cap (1 .. p)
  <2>1. \A q : q \in 1 .. p <=> (q \in 1 .. i \/ q \in i + 1 .. p)
    BY <1>8
  <2>2. CASE b
    <3>1. \A q \in i + 1 .. p : q \in marked
      BY <1>8, <2>2
    <3> QED BY <1>8, <2>1, <2>2, <3>1
  <2>3. CASE ~b
    <3>1. \A q \in i + 1 .. p : q \notin marked
      BY <1>8, <2>3
    <3> QED BY <1>8, <2>1, <2>3, <3>1
  <2> QED BY <2>2, <2>3
<1>9. old.idx <= p
  BY <1>1, <1>4, <1>5
<1>10. (IF old.val THEN old.pixels \cup (old.idx + 1 .. p) ELSE old.pixels) = marked \cap (1 .. p)
  BY <1>4, <1>5, <1>8, <1>9
<1>11. new.pixels = marked \cap (1 .. p)
  BY <1>4, <1>7, <1>10
<1> QED BY <1>4, <1>6, <1>11 DEF new

LEMMA NextCounted ==
    ASSUME NEW marked, NEW r \in Counts, NEW p \in Nat, CountInv(marked, r, p)
    PROVE  CountInv(marked, Count(marked, r, p + 1), p + 1)
<1>1. r.runs \in Seq(Nat) /\ r.count \in Nat /\ r.current \in BOOLEAN
  BY DEF Counts
<1>2. CASE (p + 1 \in marked) = r.current
  <2> DEFINE s == Count(marked, r, p + 1)
             m == Painting(r.runs)[Len(r.runs)]
  <2>1. s = [r EXCEPT !.count = r.count + 1]
    BY <1>2 DEF Count
  <2>2. s.runs = r.runs /\ s.current = r.current /\ s.count = r.count + 1
    BY <2>1 DEF Counts
  <2>3. /\ m.idx + r.count = p /\ m.val = r.current
        /\ m.pixels = marked \cap (1 .. m.idx)
        /\ \A q \in m.idx + 1 .. p : (q \in marked) = r.current
    BY DEF CountInv
  <2>4. m \in Painters
    <3>1. Len(r.runs) \in 0 .. Len(r.runs)
      BY <1>1, LenProperties
    <3> QED BY <1>1, <3>1, PaintingSteps
  <2>5. m.idx \in Nat
    BY <2>4 DEF Painters
  <2>6. m = Painting(s.runs)[Len(s.runs)]
    BY <2>2
  <2> HIDE DEF m, s
  <2>7. m.idx + (r.count + 1) = p + 1
    BY <1>1, <2>3, <2>5
  <2>8. \A q \in m.idx + 1 .. p + 1 : q = p + 1 \/ q \in m.idx + 1 .. p
    BY <2>5
  <2>9. \A q \in m.idx + 1 .. p + 1 : (q \in marked) = r.current
    BY <1>2, <2>3, <2>8
  <2>10. CountInv(marked, s, p + 1)
    BY <2>2, <2>3, <2>6, <2>7, <2>9 DEF CountInv
  <2> QED BY <2>10 DEF s
<1>3. CASE (p + 1 \in marked) # r.current
  <2> DEFINE s == Count(marked, r, p + 1)
             runs == Append(r.runs, r.count)
             m == Painting(runs)[Len(r.runs) + 1]
  <2>1. s = [runs |-> runs, current |-> p + 1 \in marked, count |-> 1]
    BY <1>3 DEF Count
  <2>2. s.runs = runs /\ s.count = 1 /\ s.current = (p + 1 \in marked)
    BY <2>1
  <2>3. Len(runs) = Len(r.runs) + 1
    BY <1>1, AppendAgrees
  <2>4. m.idx = p /\ m.val = ~r.current /\ m.pixels = marked \cap (1 .. p)
    BY PaintedSoFar
  <2>5. m = Painting(s.runs)[Len(s.runs)]
    BY <2>2, <2>3
  <2> HIDE DEF m, s, runs
  <2>6. m.val = s.current
    BY <1>1, <1>3, <2>2, <2>4
  <2>7. \A q \in p + 1 .. p + 1 : q = p + 1
    OBVIOUS
  <2>8. CountInv(marked, s, p + 1)
    <3>1. \A q \in m.idx + 1 .. p + 1 : (q \in marked) = s.current
      BY <2>2, <2>4, <2>7
    <3>2. m.idx + s.count = p + 1
      BY <2>2, <2>4
    <3>3. m.pixels = marked \cap (1 .. m.idx)
      BY <2>4
    <3> QED BY <2>5, <2>6, <3>1, <3>2, <3>3 DEF CountInv
  <2> QED BY <2>8 DEF s
<1> QED BY <1>2, <1>3

\* A marked is painted as it was before it was coded.
LEMMA CodePaints ==
    ASSUME NEW marked, NEW width \in Nat
    PROVE  Painted(_binary_rle(marked, width)) = marked \cap (1 .. width)
<1> DEFINE counted == Counted(marked, width)
           P == {p \in 0 .. width : CountInv(marked, counted[p], p)}
<1>1. /\ counted \in [0 .. width -> Counts] /\ counted[0] = FirstRun(marked)
      /\ \A p \in 1 .. width : counted[p] = Count(marked, counted[p - 1], p)
  BY CountedSteps
<1> HIDE DEF counted
<1>2. 0 \in P
  <2> DEFINE r == FirstRun(marked)
             m == Painting(r.runs)[Len(r.runs)]
  <2>1. r.runs = <<>> /\ r.current = FALSE /\ r.count = 0 /\ Len(<<>>) = 0
    BY DEF FirstRun
  <2>2. <<>> \in Seq(Nat)
    BY EmptySeq
  <2>3. m = Unpainted
    <3>1. Painting(<<>>)[0] = Unpainted
      BY <2>2, PaintingSteps
    <3> HIDE DEF r
    <3> QED BY <2>1, <3>1
  <2>4. m.idx = 0 /\ m.val = FALSE /\ m.pixels = {}
    <3> HIDE DEF m
    <3> QED BY <2>3 DEF Unpainted
  <2>5. m.idx + r.count = 0 /\ m.val = r.current /\ m.pixels = marked \cap (1 .. m.idx)
        /\ \A q \in m.idx + 1 .. 0 : (q \in marked) = r.current
    <3> HIDE DEF m, r
    <3>1. m.idx + r.count = 0
      BY <2>1, <2>4
    <3>3. m.val = r.current
      BY <2>1, <2>4, Zenon
    <3>2. 1 .. m.idx = {} /\ m.idx + 1 .. 0 = {}
      BY <2>4
    <3> QED BY <2>4, <3>1, <3>2, <3>3
  <2>6. CountInv(marked, r, 0)
    <3> HIDE DEF r
    <3> QED BY <2>5 DEF CountInv
  <2> HIDE DEF r
  <2> QED BY <1>1, <2>6 DEF r
<1>3. ASSUME NEW k \in 0 .. width - 1, k \in P PROVE k + 1 \in P
  <2>1. k \in Nat /\ k \in 0 .. width /\ k + 1 \in 1 .. width /\ k + 1 \in 0 .. width /\ (k + 1) - 1 = k
    OBVIOUS
  <2>2. counted[k + 1] = Count(marked, counted[k], k + 1) /\ counted[k] \in Counts
    BY <1>1, <2>1
  <2>3. CountInv(marked, counted[k], k)
    BY <1>3
  <2>4. CountInv(marked, counted[k + 1], k + 1)
    BY <2>1, <2>2, <2>3, NextCounted
  <2> QED BY <2>1, <2>4
<1>4. width \in P
  <2>1. width \in 0 .. width
    OBVIOUS
  <2> HIDE DEF P
  <2> QED BY <1>2, <1>3, <2>1, InductionUpTo
<1> DEFINE end == counted[width]
           rle == Append(end.runs, end.count)
<1>5. CountInv(marked, end, width) /\ end \in Counts
  BY <1>1, <1>4
<1> HIDE DEF end
<1>6. end.runs \in Seq(Nat) /\ end.count \in Nat
  BY <1>5 DEF Counts
<1>7. Painting(rle)[Len(end.runs) + 1].pixels = marked \cap (1 .. width)
  BY <1>5, PaintedSoFar
<1>8. Len(rle) = Len(end.runs) + 1
  BY <1>6, AppendAgrees
<1>9. _binary_rle(marked, width) = rle
  BY DEF _binary_rle, end, counted
<1> HIDE DEF rle
<1> QED BY <1>7, <1>8, <1>9 DEF Painted

LEMMA NearEither ==
    ASSUME NEW p \in Nat, NEW q \in Nat
    PROVE  (p - q <= Margin /\ q - p <= Margin) <=> Distance(p - q) <= Margin
BY RastersConstantsOK DEF RastersConstantsOK, Distance

\* What is left out by who can read the mask.
LEMMA MaskRead ==
    ASSUME NEW objects, NEW width \in Nat,
           \A o \in DOMAIN objects : objects[o].pixels \subseteq Nat
    PROVE  get_mask(encode_mask_paq(merge_and_dilate(objects, width), width), TRUE) =
               {p \in Pixels(width) :
                   \E o \in DOMAIN objects : \E q \in objects[o].pixels : Distance(p - q) <= Margin}
<1> DEFINE masks == merge_and_dilate(objects, width)
           labels == {objects[o].label : o \in DOMAIN objects}
           coded == encode_mask_paq(masks, width)
<1>1. /\ DOMAIN masks = labels
      /\ \A l \in labels : masks[l] = UNION {Dilated(objects[o].pixels, width) :
                                             o \in {x \in DOMAIN objects : objects[x].label = l}}
  BY DEF merge_and_dilate
<1>2. DOMAIN coded = labels /\ \A l \in labels : coded[l] = _binary_rle(masks[l], width)
  <2> HIDE DEF masks, labels
  <2> QED BY <1>1 DEF encode_mask_paq
<1> HIDE DEF masks
<1>3. \A l \in labels : Painted(coded[l]) = masks[l] \cap (1 .. width)
  <2> HIDE DEF coded, labels
  <2> QED BY <1>2, CodePaints
<1>4. \A p : p \in get_mask(coded, TRUE) <=> \E l \in labels : p \in masks[l] /\ p \in 1 .. width
  <2> HIDE DEF coded, labels
  <2> QED BY <1>2, <1>3 DEF get_mask
<1>5. \A l \in labels : \A p : p \in masks[l] <=>
          \E o \in DOMAIN objects : objects[o].label = l /\ p \in Dilated(objects[o].pixels, width)
  BY <1>1
<1>6. \A o \in DOMAIN objects : \A p : p \in Dilated(objects[o].pixels, width) <=>
          (p \in 1 .. width /\ \E q \in objects[o].pixels : Distance(p - q) <= Margin)
  <2> SUFFICES ASSUME NEW o \in DOMAIN objects, NEW p
               PROVE  p \in Dilated(objects[o].pixels, width) <=>
                      (p \in 1 .. width /\ \E q \in objects[o].pixels : Distance(p - q) <= Margin)
    OBVIOUS
  <2>1. p \in 1 .. width => \A q \in objects[o].pixels :
            (p - q <= Margin /\ q - p <= Margin) <=> Distance(p - q) <= Margin
    <3> SUFFICES ASSUME p \in 1 .. width, NEW q \in objects[o].pixels
                 PROVE  (p - q <= Margin /\ q - p <= Margin) <=> Distance(p - q) <= Margin
      OBVIOUS
    <3>1. p \in Nat /\ q \in Nat
      OBVIOUS
    <3> QED BY <3>1, NearEither, Zenon
  <2> HIDE DEF Distance
  <2> QED BY <2>1 DEF Dilated, Pixels
<1> HIDE DEF coded
<1>7. \A p : p \in get_mask(coded, TRUE) <=>
          (p \in 1 .. width /\ \E o \in DOMAIN objects : \E q \in objects[o].pixels :
                                  Distance(p - q) <= Margin)
  <2>1. ASSUME NEW p, p \in get_mask(coded, TRUE)
        PROVE  p \in 1 .. width /\ \E o \in DOMAIN objects : \E q \in objects[o].pixels :
                                       Distance(p - q) <= Margin
    <3>1. PICK l \in labels : p \in masks[l]
      BY <1>4, <2>1
    <3>2. PICK o \in DOMAIN objects : p \in Dilated(objects[o].pixels, width)
      BY <1>5, <3>1
    <3> HIDE DEF labels
    <3> QED BY <1>6, <3>2
  <2>2. ASSUME NEW p \in 1 .. width, NEW o \in DOMAIN objects, NEW q \in objects[o].pixels,
               Distance(p - q) <= Margin
        PROVE  p \in get_mask(coded, TRUE)
    <3>1. p \in Dilated(objects[o].pixels, width)
      BY <1>6, <2>2
    <3>2. objects[o].label \in labels
      OBVIOUS
    <3> HIDE DEF labels
    <3>3. p \in masks[objects[o].label]
      BY <1>5, <3>1, <3>2
    <3> QED BY <1>4, <3>2, <3>3
  <2> QED BY <2>1, <2>2
<1>8. get_mask(coded, TRUE) = {p \in 1 .. width : \E o \in DOMAIN objects : \E q \in objects[o].pixels :
                                               Distance(p - q) <= Margin}
  BY <1>7
<1> QED BY <1>8 DEF coded, masks, Pixels

\* Whatever was detected, depth leaves out the pixels near an object and no others, however many
\* classes share the picture and wherever a run begins (mask_codec.py:17-51,
\* minio_io.py:20-32); and nothing, if it cannot read the mask (minio_io.py:33-35).
THEOREM MaskCoversObjectsHolds == Spec => []MaskCoversObjects
<1>1. DataInv => MaskCoversObjects
  <2> DEFINE near == {p \in Pixels(flight.width) :
                         \E o \in DOMAIN flight.objects : \E q \in flight.objects[o].pixels :
                             Distance(p - q) <= Margin}
  <2> SUFFICES ASSUME DataInv, stage = "done"
               PROVE  mask = IF unread THEN {} ELSE near
    BY DEF MaskCoversObjects
  <2>1. code = encode_mask_paq(merge_and_dilate(flight.objects, flight.width), flight.width)
    BY DEF DataInv
  <2>2. /\ flight.width \in Nat
        /\ \A o \in DOMAIN flight.objects : flight.objects[o].pixels \subseteq Nat
    BY Recorded DEF DataInv
  <2>3. get_mask(code, TRUE) = near
    BY <2>1, <2>2, MaskRead
  <2>4. get_mask(code, FALSE) = {}
    BY DEF get_mask
  <2>5. PICK readable \in BOOLEAN : mask = get_mask(code, readable) /\ unread = ~readable
    BY DEF DataInv
  <2> HIDE DEF near
  <2>6. CASE readable
    BY <2>3, <2>5, <2>6
  <2>7. CASE ~readable
    BY <2>4, <2>5, <2>7
  <2> QED BY <2>6, <2>7
<1> QED BY <1>1, DataInvariant, PTL

===============================================================================
