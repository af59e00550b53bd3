------------------------------- MODULE Matching -------------------------------
(***************************************************************************)
(* Which pairs of keyframes are matched by the learned backend.  priors is *)
(* a sequence, by keyframe, of sets of at most one fix (see Priors).       *)
(***************************************************************************)
EXTENDS Integers, Sequences, FiniteSets

CONSTANTS
    ExhaustiveMax,   \* how many images are matched with each other; the code says 200
    Overlap,         \* SEQUENTIAL_OVERLAP; the code says 10
    MaxNeighbors,    \* SPATIAL_MAX_NEIGHBORS; the code says 20
    MaxDistance      \* SPATIAL_MAX_DISTANCE_M; the code says 150

ASSUME MatchingConstantsOK ==
    /\ ExhaustiveMax \in Nat /\ Overlap \in Nat \ {0}
    /\ MaxNeighbors \in Nat \ {0} /\ MaxDistance \in Nat

Distance(n) == IF n < 0 THEN -n ELSE n

WithPrior(priors) == {k \in DOMAIN priors : priors[k] # {}}

Good(priors) ==
    {k \in DOMAIN priors : \E p \in priors[k] : p.source \in {"ppk", "rtk_fixed"}}

\* Four fifths of the priors, not of the images, make it "spatial".  There is a manifest of
\* priors, be it empty: what the code chooses without one is not reached from run_sfm_stage.
choose_matching_strategy(priors) ==
    IF WithPrior(priors) # {} /\ 5 * Cardinality(Good(priors)) >= 4 * Cardinality(WithPrior(priors))
    THEN "spatial"
    ELSE IF Len(priors) <= ExhaustiveMax THEN "exhaustive" ELSE "sequential"

\* The distance between two keyframes with priors, as a fraction.
Apart(priors, i, j) ==
    LET a == CHOOSE p \in priors[i] : TRUE
        b == CHOOSE p \in priors[j] : TRUE
    IN  [num |-> Distance(a.num * b.den - b.num * a.den), den |-> a.den * b.den]

Near(priors, i) ==
    {j \in WithPrior(priors) \ {i} :
        LET d == Apart(priors, i, j) IN d.num <= MaxDistance * d.den}

\* j comes before k among the neighbours of i.
Nearer(priors, i, j, k) ==
    LET d == Apart(priors, i, j)
        e == Apart(priors, i, k)
    IN  \/ d.num * e.den < e.num * d.den
        \/ d.num * e.den = e.num * d.den /\ j < k

Neighbors(priors, i) ==
    {j \in Near(priors, i) :
        Cardinality({k \in Near(priors, i) : Nearer(priors, i, k, j)}) < MaxNeighbors}

InOrderOfTime(i, j) == IF i < j THEN <<i, j>> ELSE <<j, i>>

\* Mutant of generate_pairs: the sequence ends one image early.
LastLeftOut(strategy, priors) ==
    LET images == DOMAIN priors
    IN  CASE strategy = "exhaustive" -> {p \in images \X images : p[1] < p[2]}
          [] strategy = "sequential" ->
                 {p \in images \X images : p[1] < p[2] /\ p[2] <= p[1] + Overlap /\ p[2] < Len(priors)}
          [] strategy = "spatial" ->
                 UNION {{InOrderOfTime(i, j) : j \in Neighbors(priors, i)} : i \in WithPrior(priors)}

generate_pairs(strategy, priors) ==
    LET images == DOMAIN priors
    IN  CASE strategy = "exhaustive" -> {p \in images \X images : p[1] < p[2]}
          [] strategy = "sequential" ->
                 {p \in images \X images : p[1] < p[2] /\ p[2] <= p[1] + Overlap}
          [] strategy = "spatial" ->
                 UNION {{InOrderOfTime(i, j) : j \in Neighbors(priors, i)} : i \in WithPrior(priors)}

===============================================================================
