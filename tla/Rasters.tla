------------------------------- MODULE Rasters --------------------------------
(***************************************************************************)
(* Masks of dynamic objects and their run-length code, and the tiles depth *)
(* is inferred on.  Pictures have one row: what is said of the pixels of a *)
(* row holds of the flattened picture, and tiles are cut independently in  *)
(* both directions.                                                        *)
(***************************************************************************)
EXTENDS Integers, Sequences

CONSTANTS
    CLASS_TABLE,    \* the labels that have a code
    Margin,         \* DILATION_MARGIN_PX
    Tile,           \* how many pixels a tile has; the code says 896
    TileOverlap     \* how many it shares with the next; the code says 128

ASSUME RastersConstantsOK ==
    Margin \in Nat /\ Tile \in Nat \ {0} /\ TileOverlap \in 0 .. Tile - 1

-------------------------------------------------------------------------------
(* Masks.  objects: by object id, its label and its pixels.                *)

Pixels(width) == 1 .. width

Dilated(pixels, width) ==
    {p \in Pixels(width) : \E q \in pixels : p - q <= Margin /\ q - p <= Margin}

merge_and_dilate(objects, width) ==
    [l \in {objects[o].label : o \in DOMAIN objects} |->
        UNION {Dilated(objects[o].pixels, width) :
                  o \in {x \in DOMAIN objects : objects[x].label = l}}]

\* Mutant of FirstRun: the first run is of whatever comes first.
WhateverComesFirst(mask) == [runs |-> <<>>, current |-> 1 \in mask, count |-> 0]

\* The first run is of pixels that are not in the mask.
FirstRun(mask) == [runs |-> <<>>, current |-> FALSE, count |-> 0]

\* Pixel p goes on with the run, or begins the next one.
Count(mask, r, p) ==
    IF (p \in mask) = r.current
    THEN [r EXCEPT !.count = @ + 1]
    ELSE [runs |-> Append(r.runs, r.count), current |-> p \in mask, count |-> 1]

Counted(mask, width) ==
    LET counted[p \in 0 .. width] ==
            IF p = 0 THEN FirstRun(mask) ELSE Count(mask, counted[p - 1], p)
    IN  counted

\* The lengths of the runs.
_binary_rle(mask, width) ==
    LET end == Counted(mask, width)[width] IN Append(end.runs, end.count)

\* The prompt names the classes, but the detector may answer with a phrase that is none of them.
Encodable(masks) == DOMAIN masks \subseteq CLASS_TABLE

\* Of masks that are encodable; of others it is a KeyError.
encode_mask_paq(masks, width) == [l \in DOMAIN masks |-> _binary_rle(masks[l], width)]

\* Every other run is painted.
Paint(m, run) ==
    [pixels |-> IF m.val THEN m.pixels \cup (m.idx + 1 .. m.idx + run) ELSE m.pixels,
     idx |-> m.idx + run, val |-> ~m.val]

Painting(runs) ==
    LET painting[r \in 0 .. Len(runs)] ==
            IF r = 0 THEN [pixels |-> {}, idx |-> 0, val |-> FALSE]
            ELSE Paint(painting[r - 1], runs[r])
    IN  painting

Painted(runs) == Painting(runs)[Len(runs)].pixels

\* The classes are painted over each other.  What cannot be fetched or decoded is no mask:
\* nothing is left out.
get_mask(code, readable) ==
    IF readable THEN UNION {Painted(code[l]) : l \in DOMAIN code} ELSE {}

-------------------------------------------------------------------------------
(* Tiles.                                                                  *)

\* Mutant of TileOrigins: the last start of a tile is left out.
WholeTiles(height) ==
    {IF height - Tile < 0 THEN 0 ELSE IF y < height - Tile THEN y ELSE height - Tile :
        y \in {s \in 0 .. height : s % (Tile - TileOverlap) = 0 /\ s < height - Tile} \cup {0}}

\* Where tiles begin: at every stride, but not beyond the last whole tile.
TileOrigins(height) ==
    {IF height - Tile < 0 THEN 0 ELSE IF y < height - Tile THEN y ELSE height - Tile :
        y \in {s \in 0 .. height :
                  s % (Tile - TileOverlap) = 0 /\ (s = 0 \/ s < height - TileOverlap)}}

TileRows(y0, height) == {r \in y0 .. y0 + Tile - 1 : r < height}

\* How many tiles contribute to a row.
infer_tiled(height) ==
    [r \in 0 .. height - 1 |-> {y0 \in TileOrigins(height) : r \in TileRows(y0, height)}]

===============================================================================
