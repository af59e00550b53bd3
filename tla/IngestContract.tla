---------------------------- MODULE IngestContract ----------------------------
(***************************************************************************)
(* What ingest-svc promises, without its storage protocol: a segment is a  *)
(* register that is written once, a client is acknowledged only when the   *)
(* register holds what it uploaded, and a reconstruction starts only on    *)
(* segments that are written.                                              *)
(***************************************************************************)
CONSTANTS Segments, Contents, Absent, Streams, Uploads, Seg, Sha

VARIABLES
    committed,  \* what every segment holds
    acked,      \* the requests that were acknowledged
    launched    \* the segments some reconstruction was started on

vars == <<committed, acked, launched>>

Init ==
    /\ committed = [s \in Segments |-> Absent]
    /\ acked = {}
    /\ launched = {}

Commit(u) ==
    /\ committed[Seg[u]] = Absent
    /\ committed' = [committed EXCEPT ![Seg[u]] = Sha[u]]
    /\ UNCHANGED <<acked, launched>>

Acknowledge(u) ==
    /\ committed[Seg[u]] = Sha[u]
    /\ acked' = acked \cup {u}
    /\ UNCHANGED <<committed, launched>>

Launch(S) ==
    /\ \A s \in S : committed[s] # Absent
    /\ launched' = launched \cup S
    /\ UNCHANGED <<committed, acked>>

Next ==
    \/ \E u \in Uploads : Commit(u)
    \/ \E u \in Streams : Acknowledge(u)
    \/ \E S \in SUBSET Segments : Launch(S)

Spec == Init /\ [][Next]_vars
===============================================================================
