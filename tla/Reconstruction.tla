---------------------------- MODULE Reconstruction ----------------------------
(***************************************************************************)
(* ReconstructionWorkflow with what it runs on: the Temporal server, which *)
(* keeps the history of the run and the current attempt of its activity,   *)
(* the Go worker that executes the workflow and replays the history after  *)
(* every restart, and the Python workers that execute the stages.          *)
(*                                                                         *)
(* A stage is what the workflow sees of it: it writes the object behind    *)
(* its output URI and then reports, or it raises.  URIs are named after    *)
(* the stage that wrote them.  An attempt the server gave up on may still  *)
(* be executing: nothing stops its thread.                                 *)
(***************************************************************************)
EXTENDS Naturals, Sequences, FiniteSets, Functions

CONSTANTS
    Preset,        \* of ReconstructionWorkflowInput
    Polled,        \* the task queues that Python workers poll
    Slots,         \* how many activities they execute at a time
    MaxAttempts,   \* of every stage; the code says 5
    MaxFaults      \* bound on transient errors, stalls and crashes

ASSUME ConstantsOK ==
    Slots \in Nat \ {0} /\ MaxAttempts \in Nat \ {0} /\ MaxFaults \in Nat

\* Mutant of pipelineStages: Depth before the masks it needs.
DepthFirst ==
    <<"Curation", "SfM", "Depth", "Masking", "Dense3DGS", "Meshing", "Georef", "ProductGen">>

pipelineStages ==
    <<"Curation", "SfM", "Masking", "Depth", "Dense3DGS", "Meshing", "Georef", "ProductGen">>

StageNames == Range(pipelineStages)

stageDeps == [s \in StageNames |->
    CASE s = "Curation" -> <<>>
      [] s = "SfM" -> <<"Curation">>
      [] s = "Masking" -> <<"Curation">>
      [] s = "Depth" -> <<"Curation", "SfM", "Masking">>
      [] s = "Dense3DGS" -> <<"Curation", "SfM", "Depth", "Masking">>
      [] s = "Meshing" -> <<"Dense3DGS">>
      [] s = "Georef" -> <<"Meshing">>
      [] s = "ProductGen" -> <<"Meshing", "Georef">>]

memoryHint == [s \in StageNames |->
    CASE s \in {"Curation", "Georef"} -> "cpu-standard"
      [] s = "Dense3DGS" -> "gpu-high-vram"
      [] OTHER -> "gpu-standard"]

NonRetryableErrorTypes == {"QualityGateFailure"}

\* The stages that refuse poor footage, and the type of the error they raise.
QualityGates == {"Curation", "SfM", "Dense3DGS"}

GateError(s) == IF s = "SfM" THEN "SfmCatastrophicFailureError" ELSE "ValueError"

\* What the Python side takes from StageInput: the input whose URI must come first,
\* because it is read as the keyframe manifest, and the keys of Params.
ReadFirst == [s \in {"SfM", "Masking"} |-> "Curation"]

ReadParams == [s \in StageNames |->
    CASE s \in {"Depth", "Dense3DGS"} -> {"set_id", "attempt_id"}
      [] s \in {"Meshing", "Georef", "ProductGen"} -> {"attempt_id"}
      [] OTHER -> {}]

VARIABLES
    poor,       \* the gates that this footage does not pass
    history,    \* server: what was scheduled and what came out of it
    attempt,    \* server: number of the current attempt, 0 when nothing is scheduled
    queued,     \* server: that attempt waits in the task queue
    lastError,  \* server: why the previous attempt failed
    result,     \* server: how the run was closed
    mode,       \* Go worker: about to issue a stage, or waiting for its result
    at,         \* Go worker: index of that stage
    outputs,    \* Go worker: the outputs map
    shared,     \* Go worker: sharedParams
    seen,       \* Go worker: how many events of the history it has gone through
    running,    \* Python workers: the attempts being executed
    written,    \* the URIs behind which there is an object
    faults      \* how many faults the environment has injected

server == <<history, attempt, queued, lastError, result>>
goWorker == <<mode, at, outputs, shared, seen>>
vars == <<poor, server, goWorker, running, written, faults>>

Keys == {"preset", "memory_hint", "set_id", "attempt_id"}

\* The alphabetical order of the keys.
Rank == [k \in Keys |->
    CASE k = "attempt_id" -> 1 [] k = "memory_hint" -> 2 [] k = "preset" -> 3 [] OTHER -> 4]

NoOutput == [uri |-> "", hash |-> ""]

TaskQueue == IF Preset = "colab-gpu" THEN "CV_TASK_QUEUE_COLAB" ELSE "CV_TASK_QUEUE"

Init ==
    /\ poor \in SUBSET QualityGates
    /\ history = <<>> /\ attempt = 0 /\ queued = FALSE /\ lastError = "" /\ result = "open"
    /\ mode = "issue" /\ at = 1 /\ outputs = [s \in StageNames |-> NoOutput] /\ shared = [k \in {} |-> ""] /\ seen = 0
    /\ running = {} /\ written = {"video"} /\ faults = 0

-------------------------------------------------------------------------------
(* The Go worker.  It goes through the history of the run from its first event *)
(* and issues its commands anew; the server takes those it does not have yet.  *)

Replaying == seen < Len(history)

\* The orders in which Go may go through a map with these keys.
IterationOrders(keys) == Bijection(1 .. Cardinality(keys), keys)

Sorted(keys) == CHOOSE f \in IterationOrders(keys) :
    \A i, j \in DOMAIN f : i < j => Rank[f[i]] < Rank[f[j]]

\* Mutant of ComputeInputHash: the keys are not sorted.
HashUnsorted(uris, params, order) ==
    [uris |-> Range(uris), pairs |-> [n \in DOMAIN order |-> <<order[n], params[order[n]]>>]]

\* A hash is the text it is made from: the sorted URIs, which differ, are their set.
ComputeInputHash(uris, params, order) ==
    LET keys == Sorted(Range(order))
    IN  [uris |-> Range(uris), pairs |-> [n \in DOMAIN keys |-> <<keys[n], params[keys[n]]>>]]

StageInputURIs(s) ==
    IF stageDeps[s] = <<>> THEN <<"video">>
    ELSE [n \in DOMAIN stageDeps[s] |-> outputs[stageDeps[s][n]].uri]

StageParams(s) ==
    [k \in {"preset", "memory_hint"} \cup DOMAIN shared |->
        CASE k = "preset" -> Preset [] k = "memory_hint" -> memoryHint[s] [] OTHER -> shared[k]]

\* The command for stage s, with its parameters hashed in that order.
Scheduled(s, order) ==
    [type |-> "scheduled", stage |-> s, uris |-> StageInputURIs(s), params |-> StageParams(s),
     hash |-> ComputeInputHash(StageInputURIs(s), StageParams(s), order)]

Issue ==
    /\ result = "open" /\ mode = "issue" /\ at <= Len(pipelineStages) /\ ~Replaying
    /\ \E order \in IterationOrders(DOMAIN StageParams(pipelineStages[at])) :
           history' = Append(history, Scheduled(pipelineStages[at], order))
    /\ seen' = seen + 1
    /\ attempt' = 1 /\ queued' = TRUE /\ lastError' = ""
    /\ mode' = "wait"
    /\ UNCHANGED <<poor, result, at, outputs, shared, running, written, faults>>

Reissue ==
    /\ result = "open" /\ mode = "issue" /\ at <= Len(pipelineStages) /\ Replaying
    /\ seen' = seen + 1
    /\ mode' = "wait"
    /\ UNCHANGED <<poor, server, at, outputs, shared, running, written, faults>>

\* Mutant of Share: only the hash of Curation is passed on.
ShareSetIdOnly(s, out) == IF s = "Curation" THEN [k \in {"set_id"} |-> out.hash] ELSE shared

\* sharedParams once stage s has this output.
Share(s, out) ==
    CASE s = "Curation" -> [k \in DOMAIN shared \cup {"set_id"} |-> IF k = "set_id" THEN out.hash ELSE shared[k]]
      [] s = "SfM" -> [k \in DOMAIN shared \cup {"attempt_id"} |-> IF k = "attempt_id" THEN out.hash ELSE shared[k]]
      [] OTHER -> shared

TakeOutput ==
    /\ result = "open" /\ mode = "wait" /\ Replaying
    /\ history[seen + 1].type = "completed"
    /\ LET out == [uri |-> history[seen + 1].uri, hash |-> history[seen + 1].hash]
       IN  /\ outputs' = [outputs EXCEPT ![pipelineStages[at]] = out]
           /\ shared' = Share(pipelineStages[at], out)
    /\ seen' = seen + 1 /\ at' = at + 1 /\ mode' = "issue"
    /\ UNCHANGED <<poor, server, running, written, faults>>

\* The run is closed with the error of its stage.
TakeFailure ==
    /\ result = "open" /\ mode = "wait" /\ Replaying
    /\ history[seen + 1].type = "failed"
    /\ seen' = seen + 1 /\ mode' = "issue"
    /\ result' = "failed"
    /\ UNCHANGED <<poor, history, attempt, queued, lastError, at, outputs, shared, running, written, faults>>

ReturnCompleted ==
    /\ result = "open" /\ mode = "issue" /\ at > Len(pipelineStages)
    /\ result' = "completed"
    /\ UNCHANGED <<poor, history, attempt, queued, lastError, goWorker, running, written, faults>>

\* Its process ends, or the run is evicted from its cache.
GoWorkerRestarts ==
    /\ faults < MaxFaults /\ faults' = faults + 1
    /\ result = "open"
    /\ mode' = "issue" /\ at' = 1 /\ outputs' = [s \in StageNames |-> NoOutput] /\ shared' = [k \in {} |-> ""] /\ seen' = 0
    /\ UNCHANGED <<poor, server, running, written>>

-------------------------------------------------------------------------------
(* The server and the Python workers. *)

Scheduling == attempt > 0

Input == history[Len(history)]

\* The attempt the server waits for.
IsCurrent(r) == Scheduling /\ ~queued /\ r.no = attempt /\ r.input.stage = Input.stage

\* Mutant of SlotFree: the limit on concurrent activities is not kept.
NoLimit == TRUE

SlotFree == Cardinality(running) < Slots

StartAttempt ==
    /\ Scheduling /\ queued
    /\ TaskQueue \in Polled /\ SlotFree
    /\ queued' = FALSE
    /\ running' = running \cup {[no |-> attempt, input |-> Input, phase |-> "works"]}
    /\ UNCHANGED <<poor, history, attempt, lastError, result, goWorker, written, faults>>

\* Mutant of AttemptFails: no MaximumAttempts.
RetryForever(error) ==
    /\ attempt' = IF attempt < MaxAttempts THEN attempt + 1 ELSE attempt
    /\ queued' = TRUE /\ lastError' = error
    /\ UNCHANGED history

\* The server has an error for the current attempt.
AttemptFails(error) ==
    IF error \in NonRetryableErrorTypes \/ attempt = MaxAttempts
    THEN /\ history' = Append(history, [type |-> "failed", stage |-> Input.stage, error |-> error])
         /\ attempt' = 0
         /\ UNCHANGED <<queued, lastError>>
    ELSE /\ attempt' = attempt + 1 /\ queued' = TRUE /\ lastError' = error
         /\ UNCHANGED history

\* The execution ends with an error, which counts if the server still waits for it.
Raise(r, error) ==
    /\ running' = running \ {r}
    /\ IF IsCurrent(r) THEN AttemptFails(error) ELSE UNCHANGED <<history, attempt, queued, lastError>>
    /\ UNCHANGED <<poor, result, goWorker, written>>

RefuseFootage(r) ==
    /\ r.phase = "works" /\ r.input.stage \in poor
    /\ Raise(r, GateError(r.input.stage))
    /\ UNCHANGED faults

Stumble(r) ==
    /\ faults < MaxFaults /\ faults' = faults + 1
    /\ Raise(r, "Exception")

\* The stage's last object, the one behind its output URI, is written.
WriteOutput(r) ==
    /\ r.phase = "works" /\ r.input.stage \notin poor
    /\ running' = (running \ {r}) \cup {[r EXCEPT !.phase = "wrote"]}
    /\ written' = written \cup {r.input.stage}
    /\ UNCHANGED <<poor, server, goWorker, faults>>

OutputHash(input) ==
    CASE input.stage \in {"Curation", "Masking"} -> "set"
      [] input.stage = "SfM" -> "attempt"
      [] OTHER -> input.params["attempt_id"]

\* Mutant of Persisted: the stage answers without waiting for its upload.
AnsweredAtOnce(r) == r.input.stage \notin poor

Persisted(r) == r.phase = "wrote"

Report(r) ==
    /\ Persisted(r)
    /\ running' = running \ {r}
    /\ IF IsCurrent(r)
       THEN /\ history' = Append(history, [type |-> "completed", stage |-> Input.stage,
                                          uri |-> r.input.stage, hash |-> OutputHash(r.input)])
            /\ attempt' = 0
       ELSE UNCHANGED <<history, attempt>>
    /\ UNCHANGED <<poor, queued, lastError, result, goWorker, written, faults>>

\* No heartbeat for two minutes, or the stage takes too long, while it is still being
\* executed.  The execution goes on.
StalledAttemptTimesOut ==
    /\ faults < MaxFaults /\ faults' = faults + 1
    /\ \E r \in running : IsCurrent(r)
    /\ AttemptFails("timeout")
    /\ UNCHANGED <<poor, result, goWorker, running, written>>

\* The same, after its execution was lost.
LostAttemptTimesOut ==
    /\ Scheduling /\ ~queued
    /\ \A r \in running : ~IsCurrent(r)
    /\ AttemptFails("timeout")
    /\ UNCHANGED <<poor, result, goWorker, running, written, faults>>

\* Python workers are killed with what they execute.
PythonWorkerDies ==
    /\ faults < MaxFaults /\ faults' = faults + 1
    /\ \E lost \in SUBSET running \ {{}} : running' = running \ lost
    /\ UNCHANGED <<poor, server, goWorker, written>>

GoWorker == Issue \/ Reissue \/ TakeOutput \/ TakeFailure \/ ReturnCompleted

Execution(r) == RefuseFootage(r) \/ WriteOutput(r) \/ Report(r)

Next ==
    \/ GoWorker
    \/ GoWorkerRestarts
    \/ StartAttempt
    \/ \E r \in running : Execution(r) \/ Stumble(r)
    \/ StalledAttemptTimesOut
    \/ LostAttemptTimesOut
    \/ PythonWorkerDies

Spec == Init /\ [][Next]_vars

\* Temporal hands every task to a worker that polls, the workers execute what they
\* were handed, and attempts that are not heard of time out.
FairSpec ==
    /\ Spec
    /\ WF_vars(GoWorker) /\ WF_vars(StartAttempt) /\ WF_vars(LostAttemptTimesOut)
    /\ WF_vars(\E r \in running : Execution(r))

-------------------------------------------------------------------------------
(* Properties *)

ParamsMap == UNION {[ks -> {"set", "attempt", Preset} \cup Range(memoryHint)] : ks \in SUBSET Keys}

URIs == StageNames \cup {"video", ""}

TypeOK ==
    /\ poor \subseteq QualityGates
    /\ attempt \in 0 .. MaxAttempts
    /\ queued \in BOOLEAN
    /\ lastError \in {"", "Exception", "timeout"} \cup {GateError(s) : s \in QualityGates}
    /\ result \in {"open", "completed", "failed"}
    /\ mode \in {"issue", "wait"}
    /\ at \in 1 .. Len(pipelineStages) + 1
    /\ outputs \in [StageNames -> [uri : URIs, hash : {"set", "attempt", ""}]]
    /\ shared \in ParamsMap
    /\ seen \in 0 .. Len(history)
    /\ \A n \in DOMAIN history : history[n].stage \in StageNames
    /\ \A r \in running : r.no \in 1 .. MaxAttempts /\ r.input \in Range(history) /\ r.phase \in {"works", "wrote"}
    /\ Cardinality(running) <= Slots
    /\ written \subseteq URIs
    /\ faults \in 0 .. MaxFaults

\* Workflow code must be deterministic (the comment on ComputeInputHash): a command
\* that is issued again, whatever the order Go goes through its maps in, is the one
\* in the history, input hash included.
ReplayAgrees ==
    mode = "issue" /\ Replaying =>
        /\ at <= Len(pipelineStages)
        /\ \A order \in IterationOrders(DOMAIN StageParams(pipelineStages[at])) :
              history[seen + 1] = Scheduled(pipelineStages[at], order)

\* An attempt is executed on inputs that exist, with the keyframe manifest where the
\* stage looks for it and the parameters it reads (set_id, attempt_id).
InputsThere == \A r \in running :
    LET s == r.input.stage IN
    /\ Range(r.input.uris) \subseteq written
    /\ s \in DOMAIN ReadFirst => r.input.uris[1] = ReadFirst[s]
    /\ ReadParams[s] \subseteq DOMAIN r.input.params

\* A result in the history is one its own stage wrote before it reported, not the
\* late answer of an attempt that was given up.
RecordedIsWritten == \A n \in DOMAIN history :
    history[n].type = "completed" => history[n].uri = history[n].stage /\ history[n].uri \in written

\* The run is the promised pipeline: stages are completed once and in the order of
\* their dependencies, through retries, late reports and replays.
Done == {history[n].stage : n \in {m \in DOMAIN history : history[m].type = "completed"}}

Contract == INSTANCE PipelineContract WITH
    done <- Done, outcome <- result, DepsOf <- [s \in StageNames |-> Range(stageDeps[s])]

ImplementsContract == Contract!Spec

\* If anybody polls its task queue, a run is closed: after every fault either an
\* attempt is left or the stage has failed.
RunCloses == TaskQueue \in Polled => <>(result # "open")

\* The retry policy's comment: a stage that fails a hard quality gate is not retried.
GateFailsOnce == attempt > 1 => lastError \notin {GateError(s) : s \in QualityGates}

-------------------------------------------------------------------------------
(* What makes these properties inductive (proved in Reconstruction_proofs): a  *)
(* run has one possible history, up to the stage at which it may fail, and the *)
(* memory of the Go worker is a function of how far it has gone through it.    *)

Last == Len(pipelineStages)

\* The content id that stage s reports.
HashOf(s) == IF s \in {"Curation", "Masking"} THEN "set" ELSE "attempt"

\* sharedParams after the first i stages, and the outputs map.
SharedAt(i) ==
    [k \in {l \in {"set_id", "attempt_id"} : IF l = "set_id" THEN i >= 1 ELSE i >= 2} |->
        IF k = "set_id" THEN "set" ELSE "attempt"]

OutputsAt(i) == [s \in StageNames |->
    IF \E j \in 1 .. i : s = pipelineStages[j] THEN [uri |-> s, hash |-> HashOf(s)] ELSE NoOutput]

\* The i-th command and the event of its success.
ParamsAt(i) ==
    [k \in {"preset", "memory_hint"} \cup DOMAIN SharedAt(i - 1) |->
        CASE k = "preset" -> Preset
          [] k = "memory_hint" -> memoryHint[pipelineStages[i]]
          [] OTHER -> SharedAt(i - 1)[k]]

URIsAt(i) == IF i = 1 THEN <<"video">> ELSE stageDeps[pipelineStages[i]]

HashAt(i) ==
    LET keys == Sorted(DOMAIN ParamsAt(i))
    IN  [uris |-> Range(URIsAt(i)), pairs |-> [n \in DOMAIN keys |-> <<keys[n], ParamsAt(i)[keys[n]]>>]]

CommandAt(i) ==
    [type |-> "scheduled", stage |-> pipelineStages[i], uris |-> URIsAt(i), params |-> ParamsAt(i),
     hash |-> HashAt(i)]

Success(i) ==
    [type |-> "completed", stage |-> pipelineStages[i], uri |-> pipelineStages[i],
     hash |-> HashOf(pipelineStages[i])]

Failed(n, i) == history[n].type = "failed" /\ history[n].stage = pipelineStages[i]

\* Commands and results in turn; only the last result can be a failure.
HistoryShape ==
    /\ history \in Seq(Range(history))
    /\ Len(history) <= 2 * Last
    /\ \A i \in 1 .. Last :
        /\ 2 * i - 1 <= Len(history) => history[2 * i - 1] = CommandAt(i)
        /\ 2 * i < Len(history) => history[2 * i] = Success(i)
        /\ 2 * i = Len(history) => history[2 * i] = Success(i) \/ Failed(2 * i, i)

\* A command without a result is being attempted, and a closed run has none.
ServerShape ==
    /\ attempt \in 0 .. MaxAttempts
    /\ \E i \in 1 .. Last + 1 : Len(history) = IF attempt = 0 THEN 2 * (i - 1) ELSE 2 * i - 1
    /\ result \in {"open", "completed", "failed"}
    /\ result # "open" => attempt = 0 /\ seen = Len(history)

WorkerShape ==
    /\ at \in 1 .. Last + 1
    /\ mode \in {"issue", "wait"}
    /\ seen \in 0 .. Len(history)
    /\ outputs = OutputsAt(at - 1)
    /\ shared = SharedAt(at - 1)
    /\ \A i \in 1 .. at - 1 : 2 * i <= Len(history) /\ history[2 * i] = Success(i)
    /\ result = "open" => seen = IF mode = "issue" THEN 2 * (at - 1) ELSE 2 * at - 1

\* What executes was commanded, and what succeeded has written its output.
ExecutionShape ==
    /\ \A r \in running :
        /\ r.no \in 1 .. MaxAttempts
        /\ \E i \in 1 .. Last : 2 * i - 1 <= Len(history) /\ r.input = CommandAt(i)
        /\ r.phase = "wrote" => r.input.stage \in written
    /\ "video" \in written
    /\ \A i \in 1 .. Last :
        2 * i <= Len(history) /\ history[2 * i] = Success(i) => pipelineStages[i] \in written

RunInv == HistoryShape /\ ServerShape /\ WorkerShape /\ ExecutionShape
===============================================================================
