------------------------------- MODULE MCIngest -------------------------------
(* Mission m1 has two segments: s1 is uploaded by two clients at once, of which *)
(* one resumes and both may deliver altered bytes; s2 by one client.  Mission    *)
(* m2 comes through the web UI.  Each run takes the segments it needs.           *)
EXTENDS Ingest

CONSTANTS s1, s2, s3, a, b, u1, u2, u3, h1, m1, m2, f1

MCSeg == [u \in Uploads |-> CASE u \in {u1, u2} -> s1 [] u = u3 -> s2 [] OTHER -> s3]
MCSha == [u \in Uploads |-> IF u = u3 THEN b ELSE a]

\* Two recordings uploaded under one segment index.
MCConflictingSha == [u \in Uploads |-> IF u = u1 THEN a ELSE b]

MCMissionOf == [s \in Segments |-> IF s = s3 THEN m2 ELSE m1]
MCWants == [f \in Finalizes |-> {s1, s2} \cap Segments]
===============================================================================
