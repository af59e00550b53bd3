-------------------------------- MODULE Ingest --------------------------------
(***************************************************************************)
(* ingest-svc as a whole: the video store, the FinalizeIngest RPC, the end *)
(* of HandleHTTPUpload (mission row and launch) and the Temporal execution *)
(* that LaunchReconstruction starts under the id "recon-<mission>".        *)
(***************************************************************************)
EXTENDS VideoStore, FiniteSets

CONSTANTS
    Missions,
    MissionOf,   \* the mission of every segment
    Finalizes,   \* FinalizeIngest requests, repeated by the client until answered
    Wants        \* the segment_indices of every request, as segments

ASSUME IngestConstantsOK ==
    /\ MissionOf \in [Segments -> Missions]
    /\ Wants \in [Finalizes -> (SUBSET Segments) \ {{}}]
    /\ \A f \in Finalizes : \A s, t \in Wants[f] : MissionOf[s] = MissionOf[t]

VARIABLES
    fpc,     \* where the handler of a FinalizeIngest request stands
    left,    \* the segments that handler has still to check
    reply,   \* the run_id every answered request was given, 0 for none
    exec,    \* what Temporal knows under the workflow id of a mission
    started, \* history: the segments some execution was started on
    runIds,  \* how many run ids (uuids) have been drawn
    rows     \* the missions for which HandleHTTPUpload inserted a row

temporal == <<exec, started, runIds>>
ingestVars == <<fpc, left, reply, temporal, rows>>
vars == <<storeVars, ingestVars>>

TypeOK ==
    /\ StoreTypeOK
    /\ fpc \in [Finalizes -> {"idle", "check", "launch"}]
    /\ left \in [Finalizes -> SUBSET Segments]
    /\ reply \in [Finalizes -> Nat]
    /\ exec \in [Missions -> {"none", "running", "closed"}]
    /\ started \subseteq Segments
    /\ runIds \in Nat
    /\ rows \subseteq Missions

Init ==
    /\ StoreInit
    /\ fpc = [f \in Finalizes |-> "idle"]
    /\ left = [f \in Finalizes |-> {}]
    /\ reply = [f \in Finalizes |-> 0]
    /\ exec = [m \in Missions |-> "none"]
    /\ started = {}
    /\ runIds = 0
    /\ rows = {}

Requested(f) == MissionOf[CHOOSE s \in Wants[f] : TRUE]

FGoto(f, step) == fpc' = [fpc EXCEPT ![f] = step]

-------------------------------------------------------------------------------
(* LaunchReconstruction.                                                    *)

\* A run id is drawn for the call.  ExecuteWorkflow under a workflow id that is
\* running gives a handle of that execution and no error; otherwise it starts one.
LaunchReconstruction(m, S) ==
    /\ runIds' = runIds + 1
    /\ IF exec[m] = "running"
       THEN UNCHANGED <<exec, started>>
       ELSE /\ exec' = [exec EXCEPT ![m] = "running"]
            /\ started' = started \cup S

-------------------------------------------------------------------------------
(* FinalizeIngest.                                                          *)

BeginFinalize(f) ==
    /\ fpc[f] = "idle"
    /\ reply[f] = 0
    /\ FGoto(f, "check")
    /\ left' = [left EXCEPT ![f] = Wants[f]]
    /\ UNCHANGED <<storeVars, reply, temporal, rows>>

\* One round of the loop over segment_indices: FailedPrecondition when a segment
\* has no marker.
CheckSegment(f) ==
    /\ fpc[f] = "check"
    /\ \E s \in left[f] :
        IF IsSegmentCommitted(s)
        THEN /\ left' = [left EXCEPT ![f] = @ \ {s}]
             /\ UNCHANGED fpc
        ELSE /\ left' = [left EXCEPT ![f] = {}]
             /\ FGoto(f, "idle")
    /\ UNCHANGED <<storeVars, reply, temporal, rows>>

AllChecked(f) ==
    /\ fpc[f] = "check"
    /\ left[f] = {}
    /\ FGoto(f, "launch")
    /\ UNCHANGED <<storeVars, left, reply, temporal, rows>>

\* The run id in the answer is the one drawn here, even when ExecuteWorkflow
\* attached to an execution that was started with another.
LaunchFinalized(f) ==
    /\ fpc[f] = "launch"
    /\ LaunchReconstruction(Requested(f), Wants[f])
    /\ reply' = [reply EXCEPT ![f] = runIds + 1]
    /\ FGoto(f, "idle")
    /\ UNCHANGED <<storeVars, left, rows>>

\* A marker that cannot be read, or a launch that returns an error (started or
\* not): the request fails and the client repeats it.
FinalizeFails(f) ==
    /\ fpc[f] # "idle"
    /\ Fault
    /\ FGoto(f, "idle")
    /\ left' = [left EXCEPT ![f] = {}]
    /\ \/ UNCHANGED temporal
       \/ fpc[f] = "launch" /\ LaunchReconstruction(Requested(f), Wants[f])
    /\ UNCHANGED <<objects, pc, body, acked, reply, rows>>

-------------------------------------------------------------------------------
(* The end of HandleHTTPUpload.                                             *)

\* The INSERT of the mission row; its error is logged and ignored.
RecordMission(u) ==
    /\ pc[u] = "stored"
    /\ Goto(u, "recorded")
    /\ \/ rows' = rows \cup {MissionOf[Seg[u]]} /\ UNCHANGED faults
       \/ Fault /\ UNCHANGED rows
    /\ UNCHANGED <<objects, body, acked, fpc, left, reply, temporal>>

\* Answer "started", or "uploaded_workflow_pending" when the launch failed: no one
\* tries again.
LaunchUploaded(u) ==
    /\ pc[u] = "recorded"
    /\ Goto(u, "closed")
    /\ \/ LaunchReconstruction(MissionOf[Seg[u]], {Seg[u]}) /\ UNCHANGED faults
       \/ Fault /\ UNCHANGED temporal
    /\ UNCHANGED <<objects, body, acked, fpc, left, reply, rows>>

-------------------------------------------------------------------------------

\* ReconstructionWorkflow ends, completed or failed.
ExecutionEnds(m) ==
    /\ exec[m] = "running"
    /\ exec' = [exec EXCEPT ![m] = "closed"]
    /\ UNCHANGED <<storeVars, fpc, left, reply, started, runIds, rows>>

\* The process dies with the handlers of both kinds.
Crash ==
    /\ StoreCrash
    /\ fpc' = [f \in Finalizes |-> "idle"]
    /\ left' = [f \in Finalizes |-> {}]
    /\ UNCHANGED <<reply, temporal, rows>>

FinalizeStep(f) == BeginFinalize(f) \/ CheckSegment(f) \/ AllChecked(f) \/ LaunchFinalized(f)

Next ==
    \/ \E u \in Uploads : UploadStep(u) /\ UNCHANGED ingestVars
    \/ \E u \in HttpUploads : RecordMission(u) \/ LaunchUploaded(u)
    \/ \E f \in Finalizes : FinalizeStep(f) \/ FinalizeFails(f)
    \/ \E m \in Missions : ExecutionEnds(m)
    \/ Crash

\* Handlers are goroutines, which the Go scheduler runs; the edge kit repeats its
\* calls until they succeed.  No fault is ever obliged to happen, and neither is
\* the end of a workflow or an upload through the web UI.
Fairness ==
    /\ \A u \in Streams :
        WF_vars((OpenStream(u) \/ Handler(u)) /\ UNCHANGED ingestVars)
    /\ \A f \in Finalizes : WF_vars(FinalizeStep(f))

Spec == Init /\ [][Next]_vars
FairSpec == Spec /\ Fairness

-------------------------------------------------------------------------------
(* Properties.                                                              *)

\* Whatever an execution was started on is committed, and stays so: the check of
\* FinalizeIngest still holds at the launch and after it, although uploads for the
\* same segments go on (upload.go:197-204).  The bytes are those of the marker, with
\* the one exception CommittedContent makes.
LaunchedInputsCommitted ==
    \A s \in started : marker[s] # Absent /\ (s \in replaced \/ final[s] = marker[s])

\* What a segment holds counts as committed once it has a marker.  Where altered
\* bytes were copied, all that is left of the register is the hash in the marker.
Contract == INSTANCE IngestContract WITH
    committed <- [s \in Segments |->
                    IF marker[s] = Absent \/ s \in replaced THEN marker[s] ELSE final[s]],
    launched <- started

\* The service implements the write-once register with acknowledgements after the
\* write and launches after that (store.go:119-121, upload.go:192-213).
ImplementsContract == Contract!Spec

\* A FinalizeIngest request that is repeated until it is answered is answered, once
\* the uploads it waits for are being retried too.
EveryFinalizeAnswered == \A f \in Finalizes : <>(reply[f] # 0)

-------------------------------------------------------------------------------
(* The strengthening of LaunchedInputsCommitted (proved in Ingest_proofs).  *)

\* What was checked before a launch stays committed until and after it.
CheckedInputs ==
    /\ \A f \in Finalizes :
        /\ fpc[f] = "check" => \A s \in Wants[f] \ left[f] : IsSegmentCommitted(s)
        /\ fpc[f] = "launch" => \A s \in Wants[f] : IsSegmentCommitted(s)
    /\ \A u \in HttpUploads :
        pc[u] \in {"stored", "recorded"} => IsSegmentCommitted(Seg[u])
    /\ \A s \in started : IsSegmentCommitted(s)

IngestInv == TypeOK /\ StoreInv /\ CheckedInputs
===============================================================================
