-------------------------------- MODULE Priors --------------------------------
(***************************************************************************)
(* The position a keyframe gets from the telemetry logs.                   *)
(*                                                                         *)
(* A log is a sequence of [t, v, fixed] in the order of time, v being the  *)
(* position along the track.  Altitude and barometer are left out.  What   *)
(* may be missing is a set of at most one element.                         *)
(***************************************************************************)
EXTENDS Integers, Sequences

CONSTANT MaxGap     \* max_gap_s in ticks; the code says 2 s

ASSUME PriorsConstantsOK == MaxGap \in Nat

\* The records around ts.  The last record is never the earlier one, not even at its own time.
_bisect_by_time(log, ts) == {r \in 1 .. Len(log) - 1 : log[r].t <= ts /\ ts < log[r + 1].t}

\* Mutant of Usable: nothing is too far away.
AnyDistance(before, after, ts) == TRUE

\* One record that is near enough will do, however far the other one is.
Usable(before, after, ts) == ts - before.t <= MaxGap \/ after.t - ts <= MaxGap

\* The position is the fraction num / den; the quality is the earlier record's.
Interpolated(before, after, ts) ==
    LET den == after.t - before.t
    IN  [num |-> before.v * den + (ts - before.t) * (after.v - before.v),
         den |-> den, fixed |-> before.fixed]

nearest_or_interpolate(log, ts) ==
    {Interpolated(log[r], log[r + 1], ts) :
        r \in {b \in _bisect_by_time(log, ts) : Usable(log[b], log[b + 1], ts)}}

Fix(record, source) == [num |-> record.num, den |-> record.den, source |-> source]

\* PPK before RTK before whatever the receiver said.
build_fix(gps, ppk) ==
    LET ppkFixed == {r \in ppk : r.fixed}
        rtkFixed == {r \in gps : r.fixed}
    IN  IF ppkFixed # {} THEN {Fix(r, "ppk") : r \in ppkFixed}
        ELSE IF rtkFixed # {} THEN {Fix(r, "rtk_fixed") : r \in rtkFixed}
        ELSE {Fix(r, "gnss_only") : r \in gps}

\* By keyframe; a keyframe without a fix gets no prior.
build_priors_manifest(times, gps_log, ppk_log) ==
    [k \in DOMAIN times |-> build_fix(nearest_or_interpolate(gps_log, times[k]),
                                      nearest_or_interpolate(ppk_log, times[k]))]

===============================================================================
