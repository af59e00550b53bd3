------------------------------ MODULE Keyframes -------------------------------
(***************************************************************************)
(* Which frames curation keeps of those that passed the quality gates.     *)
(*                                                                         *)
(* A frame is [t, q]: its time in ticks and its quality.  The frames are   *)
(* in the order of time.                                                   *)
(***************************************************************************)
EXTENDS Integers, Sequences, SequencesExt

CONSTANTS
    Window,    \* WINDOW_S in ticks; the code says 1/5 s
    Target     \* MIN_TOTAL_KEYFRAMES_TARGET; the code says 150

ASSUME KeyframesConstantsOK == Window \in Nat \ {0} /\ Target \in Nat \ {0}

Span(frames) == Last(frames).t - Head(frames).t

\* A window is given times Target: the adaptive one is a fraction of a tick.
adaptive_window_s(frames) ==
    IF Len(frames) < 2 \/ Span(frames) = 0 \/ Span(frames) > Window * Target
    THEN Window * Target
    ELSE Span(frames)

Closed(w) == IF w.best = 0 THEN w.kept ELSE Append(w.kept, w.best)

Nothing == [kept |-> <<>>, start |-> 0, best |-> 0]

\* Mutant of See: a frame exactly one window later is in the same window.
SeeClosedWindow(frames, window, w, f) ==
    IF w.best = 0 \/ Target * (frames[f].t - w.start) > window
    THEN [kept |-> Closed(w), start |-> frames[f].t, best |-> f]
    ELSE IF frames[f].q > frames[w.best].q THEN [w EXCEPT !.best = f] ELSE w

\* The window w when frame f has been seen: it goes on, or f begins the next one.
See(frames, window, w, f) ==
    IF w.best = 0 \/ Target * (frames[f].t - w.start) >= window
    THEN [kept |-> Closed(w), start |-> frames[f].t, best |-> f]
    ELSE IF frames[f].q > frames[w.best].q THEN [w EXCEPT !.best = f] ELSE w

Seen(frames, window) ==
    LET seen[f \in 0 .. Len(frames)] ==
            IF f = 0 THEN Nothing ELSE See(frames, window, seen[f - 1], f)
    IN  seen

\* The first of the best frames of every window; a window begins with the first frame that
\* is past the window before it.
select_keyframes(frames, window) == Closed(Seen(frames, window)[Len(frames)])

===============================================================================
