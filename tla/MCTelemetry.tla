------------------------------ MODULE MCTelemetry ------------------------------
(* Readings r1 and r2 have one key, r3 another; m1 and m2 carry the same reading, *)
(* as an edge kit that replays its queue sends it; m3 has no timestamp; m5 is not *)
(* a telemetry message.                                                           *)
EXTENDS TelemetryWorker

CONSTANTS m1, m2, m3, m4, m5, r1, r2, r3, k1, k2

MCReadingOf == [m \in Messages |-> CASE m \in {m1, m2} -> r1 [] m = m3 -> r2 [] OTHER -> r3]
MCKeyOf == [r \in Readings |-> IF r = r3 THEN k2 ELSE k1]
===============================================================================
