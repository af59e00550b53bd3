# Verification of the single-pass drone video reconstruction system

TLA+ models of this repository, the TLC instances that check them and the TLAPS
proofs about them. The repository takes drone video and telemetry from the field,
stores both durably, and turns every mission into georeferenced 3D products. The
part of it that is hard to test is not the computer vision but what holds it
together: retried uploads on shared object keys, a consumer that buffers in
memory, and a durable workflow whose stages are repeated by workers that may still
be busy with the previous attempt, over objects that several attempts share. This
project models that part in full, and of the computer vision the discrete algorithms
that decide what is kept, matched, masked and covered.

## 1. Inventory

### Components

| component | source | state it keeps | operations | status |
|---|---|---|---|---|
| ingest-svc video store | `services/ingest-svc/server/store.go` | three MinIO objects per segment: staging, final, marker | `Committed`, `IsSegmentCommitted`, `GetCommittedBytes`, `StageAndCommit` | modelled, proved |
| ingest-svc handlers | `services/ingest-svc/server/upload.go`, `http_upload.go` | handlers in progress; executions in Temporal; mission rows | `UploadVideoStream`, `GetUploadOffset`, `FinalizeIngest`, `HandleHTTPUpload`, launchers | modelled, proved |
| telemetry-worker | `services/telemetry-worker/{cmd,pkg}` | `WindowBuffer`, `SeenSet`, window objects, markers, manifests | receive loop, `RunFlushLoop`, `FlushOnce`, `CommitWindow`, `updateManifest` | modelled, proved |
| reconstruction workflow | `workflows/reconstruction`, `workflows/cmd/worker` | `outputs`, `sharedParams`; the history in Temporal | `ReconstructionWorkflow`, `ComputeInputHash` | modelled, proved |
| cv-python worker process | `workers/cv-python/worker.py` | the activities in execution | polling, execution, heartbeat | modelled |
| CV pipeline stages | `workers/cv-python/activities` | manifests, markers, checkpoints, models and meshes in MinIO; scratch directories | eight activities, call by call | modelled, proved |
| product catalog writer | `common/postgres_store.py` | `products` rows | `publish_products` | modelled, proved |
| CV numerical code | `workers/cv-python/cv_common`, and in the activities | none | selection, priors, pairs, masks, tiles; numerics | discrete part modelled, proved |
| object store helpers, codecs, schemas | `workers/cv-python/common`, `cv_common/mask_codec.py` | none | MinIO calls, content ids, mask codec | partly |
| deployment and scripts | `scripts`, `infra` | what the direct runner hands from stage to stage | `direct_pipeline_runner.py` | direct runner modelled |
| web client | `frontend/web/src` | live feed socket, polled status, upload | `connectLiveFeed`, hooks, `VideoDropzone` | upload, as a client of ingest |
| mission-svc | `services/mission-svc` | none between requests | create, status, list, runs, presigned URLs | not modelled |
| database schema, openmvs sidecar, generated code | | | | not modelled |

### How they interact

- The edge kit streams segments to ingest-svc over gRPC and repeats calls that
  fail; the web page posts a whole file. Both paths end in `StageAndCommit`, whose
  object keys depend on mission and segment index alone, so concurrent requests
  for a segment share them.
- `FinalizeIngest` and the end of `HandleHTTPUpload` start `ReconstructionWorkflow`
  in Temporal under the id `recon-<mission>`.
- JetStream delivers telemetry to the telemetry-worker at least once. One goroutine
  adds readings to the buffer and acknowledges, another drains it at every tick.
- The Go worker executes the workflow and replays its history after each restart.
  The Temporal server schedules activities on a task queue polled by the Python
  workers, times attempts out and retries them. Nothing stops the thread of an
  attempt that was given up.
- Stages hand their results to each other through MinIO: the output URI and two
  content ids (`set_id`, `attempt_id`) travel through the workflow.
- Some of these objects are named after a hash of what the stage got (`poses/<id>`),
  the others after the mission only: attempts of one run, and the runs of one mission,
  meet there. Scratch directories are named after the run, on each machine.
- `direct_pipeline_runner.py` executes the eight activities in its own process, without
  a Temporal server, and checks the products at the end.
- mission-svc and the web page read what the stages published in Postgres.

### What is hard, and what makes each component correct

| component | hard behaviour | correctness |
|---|---|---|
| video store | overlapping retries on shared keys, a crash or a lost reply between copy, marker and removal, altered or short bodies | a marker never vouches for bytes that are not there; a removed staging object never costs a client its upload |
| handlers | check of the segments, then launch, with uploads going on; repeated requests | what a reconstruction is started on is committed; clients that keep calling are answered |
| telemetry-worker | two goroutines and a mutex, errors between marking and committing, redelivery, SIGTERM without a last flush | windows are whole, listed windows committed, stored readings stay, duplicates are bounded, nothing falls between the goroutines, acknowledged means stored |
| workflow | replay after a crash, late reports of attempts that were given up, two hand-kept lists that must agree, retries that must end | replay agrees with the history; results are recorded once and in the order of dependencies; inputs exist; the run is closed; quality failures are not retried |
| CV stages | calls that fail or die halfway, `object_exists` that takes an error for an absence, two attempts at once, stale scratch files, keys that several runs share | what is named is there; a resumed stage ends with what one execution gives; a checkpoint is never set back; a retried stage completes |
| catalog | repeated inserts, rows of an earlier attempt or run | one row per product and run, with the checksum of what is stored |
| numerical code | windows and tiles at their boundaries, gaps in the telemetry, clocks that disagree, fixes that are lost, masks that cannot be read, fallbacks from one strategy to another | keyframes stand for the footage, priors are no further off than gaps, clocks and fixes explain, the matches join the keyframes, masks and depth cover the picture |

The full list with source lines is under "hazards" in `PROJECT.json`. A note says where the
code does go wrong, with what a property then tells (it bounds the damage, or says in which
case alone it happens), and why six hazards have no property: because the condition of every
property that holds excludes them, or because nobody promises what they would break.

## 2. Modules

| module | what it models |
|---|---|
| `VideoStore` | store.go and UploadVideoStream, one step per MinIO call |
| `Ingest` | composes VideoStore (EXTENDS) with FinalizeIngest, HandleHTTPUpload, the launcher and the executions in Temporal |
| `IngestContract` | abstract: a segment is a write-once register, acknowledged after the write, launched after the write |
| `MCIngest` | instances of Ingest |
| `Ingest_proofs` | theorems about Ingest |
| `TelemetryWorker` | consumer, both goroutines, SeenSet, CommitWindow |
| `MCTelemetry`, `Telemetry_proofs` | instances and theorems |
| `Reconstruction` | the workflow, the Temporal server's history and attempts, Go worker, Python workers |
| `PipelineContract` | abstract: stages are completed once and after what they need; a run is completed with all of them or fails at one that was due |
| `MCReconstruction` | instance of Reconstruction |
| `Reconstruction_proofs` | theorems about Reconstruction and its refinement of PipelineContract |
| `StageRuntime` | what the activities run on: object store, scratch directories, attempts of the server or of the direct runner, faults |
| `VideoStages` | curation, masking, depth |
| `PoseStage` | SfM: warm start, matching, bundle adjustment |
| `SceneStages` | training, meshing, georeferencing, products and the catalog writer |
| `CVStages` | composes the three (EXTENDS); next-state relation, fairness, refinement, the invariants that are proved |
| `ArtifactContract` | abstract: objects that name others are written after them, and nothing is removed |
| `MCStages` | the scenes the stages are checked in |
| `Stages_proofs` | theorems about CVStages and its refinement of ArtifactContract |
| `Keyframes`, `Priors`, `Matching`, `Rasters` | the algorithms, as functions |
| `FlightData` | composes the four: one flight on its way through them |
| `MCFlightData` | what can be filmed and logged, in small |
| `VideoResults_proofs` | theorems about what curation, masking and depth leave behind |
| `SceneResults_proofs` | theorems about pose, training, meshing, georeferencing, products and the catalog |
| `FlightData_proofs` | theorems about the data of a flight |
| `TelemetryMemory_proofs` | theorems about what the telemetry-worker holds in memory |

Definitions whose comment begins with "Mutant of" are plausible bugs. They are used
by no action: the list "mutants" in `PROJECT.json` puts each in the place of the
definition after it and requires TLC to refute a property.

### VideoStore and Ingest

`temp`, `final` and `marker` give the content under the three keys of every segment
(a content stands for its own SHA-256). `pc[u]` is the point between two MinIO calls
where the handler of request `u` stands, so all interleavings of calls are there:

| step | code |
|---|---|
| `OpenStream`, `AnswerDuplicate`, `AcceptBody`, `BodyReceived`, `BodyTruncated` | header, marker lookup, receive loop and length check of `UploadVideoStream` |
| `Stage`, `RejectHash`, `CommitCopy`, `CopySourceGone`, `WriteMarker`, `Finish` | the calls of `StageAndCommit` |
| `CallFails`, `MarkerUnreadable`, `StoreCrash` | an error after or without effect; a marker that cannot be read counts as absent; death of the process |
| `BeginFinalize`, `CheckSegment`, `AllChecked`, `LaunchFinalized`, `FinalizeFails` | `FinalizeIngest`, segment by segment |
| `RecordMission`, `LaunchUploaded` | the end of `HandleHTTPUpload` |
| `LaunchReconstruction` | a new run id for every call, although Temporal attaches to an execution that is running |

The hash is computed by the reader while the body is staged, so a body that does
not have the declared hash is noticed after `Stage`, and streams of one segment share the
staging key meanwhile. Two history variables record what follows from that and nothing
else in the model depends on them: `replaced` holds the segments where altered bytes came
under the key while another handler had checked its own and was about to copy, `dropped`
those where a handler that rejected its bytes removed what another was about to copy.
`Resuming` clients send what
`GetUploadOffset` left out. Presigned downloads and sizes are left out.

### TelemetryWorker

`inbox` and `status` are the consumer's side, `buf` is the `WindowBuffer`, `batch`,
`key`, `rest` and `kept` are the local variables of `FlushOnce`, `fpc` the point
where it stands; `seen` is the `SeenSet`; `object`, `marker` and `manifest` are the
MinIO objects, one per key and second. `clock` is the second in the name of a
window: it moves with every flush because the interval is at least one second.
`marked` is a history variable of the readings a process marked. A cancelled
context denies every later call, while the receive loop goes on until the process
is killed, as in the code. The staging object is left out, as the module says.

### Reconstruction

`history` is the event history in Temporal, `attempt`, `queued` and `lastError` are its
pending activity. `at`, `outputs`, `shared`, `mode` and `seen` are the memory of the Go
worker; `GoWorkerRestarts` forgets them, after which `Reissue` and `TakeOutput` go
through the history again. `running` are the attempts Python threads execute,
including those the server gave up on (`StalledAttemptTimesOut` leaves them there);
only the current attempt's report counts (`IsCurrent`, the task token). A stage
writes the object behind its URI and then reports, or refuses the footage with the
error type its Python code raises. The stages, their dependencies and their memory
hints are those of workflow.go, all eight of them. The hash of a command is the text
it is computed from; the order in which Go iterates over a map is any bijection.

### StageRuntime, VideoStages, PoseStage, SceneStages and CVStages

`store` maps the keys in use to their objects, `disk` the files of each machine's
scratch directories, `att[i]` is the i-th attempt: its stage, run and machine, the call
`pc` it is at, the loop position `n` and the partial result `out`. `rows` is the table
`products`. Every action is one call on the store, the disk or the catalog with what
the activity does up to the next one, so attempts interleave at every call.

| step | code |
|---|---|
| `FirstAttempt`, `NextStage`, `Retry`, `Rerun` | the server schedules what is due |
| `TimeOut` | the server gives an attempt up; its thread goes on, a *rival* of the next |
| `CallRaises`, `Crash`, `LoseAnswer` | an uncaught error at any call; death of a machine, with or without its scratch directory; an answer that is lost |
| `NotFound` | `object_exists` answers no because of an error: the attempt is *blind* from then on |
| `DirectStage`, `CheckProducts` | the direct runner: next stage, required products |
| `Curation`, `Masking`, `Depth` | activities/curation.py, masking.py, depth.py |
| `Pose` | sfm.py and vio_parse.py: `ParseWarmStart` to `PutImagesText`, `BuildDatabase` to `PutMarker`, `OpenDatabase` to `PutResult` |
| `Dense3DGS`, `Meshing`, `Georef`, `ProductGen` | dense_3dgs.py with gs_train.py, meshing.py, georef.py, productgen.py with postgres_store.py |

A *scene* chooses what no stage decides: the verdicts of curation, which hosts have SAM
and gsplat, which images have too few points, whether the mapper finds a good map, what
an earlier run has stored. A picture is its number, a mesh the number of times
it was transformed, a training state its step, a map the database it was made from.
What the stages promise each other is in the names: `NamesOf` says which objects an
object refers to, and `ImplementsContract` that these are always there.
The properties about values carry the condition the code needs and does not check
(`Alone`, `NoSharedMachine`, `Sighted`, `CutWhileMatching`); each
condition is needed: TLC refutes the property without it, in the instance of the run, and
with a third fault in the case of `Sighted` in `MapOfItsMatches`.

### Keyframes, Priors, Matching, Rasters and FlightData

`adaptive_window_s`, `select_keyframes`, `nearest_or_interpolate`, `build_fix`,
`choose_matching_strategy`, `generate_pairs`, `merge_and_dilate`, `_binary_rle`, `get_mask`
and `infer_tiled` are functions of their arguments, with integers for times, positions
and scores: quotients are kept as numerator and denominator. Positions lie
on a line, pictures have one row. A loop of the code (`select_keyframes`, `_binary_rle`,
`get_mask`) is a function of how often it has run (`Seen`, `Counted`, `Painting`). A frame has
two times: `t` is the `timestamp_utc` of the code, its position in its own segment counted from
1970 (curation.py:209, 234), by which frames are sorted and logs searched; `at`, which the code
does not have, is the time it was taken on the clock of the logs. A label outside `CLASS_TABLE` ends
`MaskObjects` in the stage `failed`; `InferDepth` may find a mask that it cannot read, which
`get_mask` answers with an empty one and the history variable `unread` records. `FlightData` hands the result of each on to the next, as the
stages do, for every flight of a campaign: footage, two receivers, the track flown, objects.

## 3. Runs

| run | question | instance |
|---|---|---|
| `ingest_retries` | are markers true, staged uploads safe, launches covered, and is the contract implemented? | 2 missions, 2 segments, 2 streams of one segment that may carry altered bytes, 1 web upload, 1 finalize, 3 faults; 966 thousand states |
| `ingest_progress` | are clients that keep calling answered? | 1 mission, 2 segments, the same 2 streams and 1 more, no web upload, 2 faults; 238 thousand states |
| `ingest_conflict` (violation) | two recordings under one index | 2 streams, 1 fault |
| `ingest_resume` (violation) | a client that resumes at the offset it is given | 1 stream, 1 fault |
| `telemetry_faults` | whole windows, committed manifests, nothing stored is lost, duplicates far apart | 4 messages, 2 readings, 2 keys, SeenSet of 1, 1 redelivery, 3 flushes, 1 fault; 1 million states |
| `telemetry_progress` | nothing forgotten between the goroutines, everything stored in the end | the same with 4 flushes, no fault |
| `telemetry_ack` (violation) | acknowledged before it is stored | no fault |
| `reconstruction` | replay, inputs, late reports, contract, closure | 8 stages, 2 attempts each, 2 slots, 3 faults, every set of refusing gates; 37 thousand states |
| `quality_gate` (violation) | retry of a stage that refused the footage | no fault |
| `stages` | does every stage leave what one execution leaves, with whatever faults, and does it complete? | each stage by itself, mesh to products once and twice, and all eight in the direct runner; 2 machines, up to 2 faults; 306 thousand states |
| `rerun` (violation) | a second reconstruction from the same footage | no fault |
| `flight_data` | keyframes, priors, pairs, masks, tiles | footage of up to 6 frames in 10 ticks, telemetry of 7 ticks with and without fixes, clocks that are 3 ticks off, two segments, labels with and without a code, masks that can and cannot be read, pictures up to 20 rows; 295 thousand states |

**Why the bounds are enough.** Two concurrent uploads of one segment are what the
store's races need, since a handler meets others only through three keys; a second segment and mission show
what must stay apart. Three faults are altered bytes twice, or once and a failure of
the retry after a crash, with both streams under way. A SeenSet of one evicts with every
new reading, and three flushes give one before, during and after a fault. In
`reconstruction` two attempts are the least with a retry and a last attempt, and
three faults allow a stall, a crash of either worker and one more during a replay;
two slots let a given-up attempt run beside its successor. `MaxFaults`,
`MaxRedeliveries`, `MaxFlushes` and `MaxRuns` bound the environment, not the code; the code's
own limits are `Capacity`, `MaxAckPending`, `Slots` and `MaxAttempts` (5 in
workflow.go). In `stages` two faults give a fault and one during the retry, or a rival
that goes on while the next attempt fails; two machines are a stale scratch directory and
a clean one, two runs the least that meet. `MinKeyframes`, `CheckpointEvery`,
`CheckpointSteps`, `ModelSize` and `Levels` scale the code's 20, 10, 5000, 4 and 3 so
that footage below the floor, a checkpoint between two others and a partly uploaded
model occur; `MaxAttempts` of StageRuntime is computed from the bounds and never reached
(`StagesTypeCorrect`). In `flight_data` `Window`, `Target`, `MaxGap`, `ExhaustiveMax`, `Overlap`,
`MaxNeighbors`, `MaxDistance`, `Margin`, `Tile` and `TileOverlap` are scaled likewise:
gaps on either side of `MaxGap`, each of the three strategies, a keyframe with more
neighbours than are matched, timestamps that are right, off by a little and outside the log, and pictures below, at and between multiples of the stride
all occur; without any one of their exceptions TLC refutes the properties. Where theorems
exist, they hold for every value of all of these.

**Fairness.** Ingest: the Go runtime runs every handler, and the edge kit repeats calls
until they succeed (`WF` per stream and per finalize request); web uploads, the end
of executions and faults are never obliged to happen. Telemetry: delivery of each
message, the receiving goroutine, and the flushing goroutine with its ticker.
Reconstruction: the Go worker takes tasks, the server dispatches to a queue that is
polled, executions end, and an attempt whose execution is lost times out
(heartbeat timeout of two minutes). Fairness of executions is an assumption about
the stages: a thread that hangs for ever would keep its slot, and with one slot the
run would hang with it. Stages: `WF(Server)`, because Temporal schedules what is due,
and `WF(Step(i))`, because a thread that was started runs; faults are never obliged to
happen, nor is a time-out. `FlightData` has no liveness. `RunCloses` says nothing of a queue nobody polls: no
ScheduleToStart timeout is set.

**Deadlock** is checked in the ingest runs (their cfgs do not switch it off); the
other runs really stop: with a finite stream, a closed run, the last stage completed, the
flight processed.

## 4. Disagreements between the code and its comments

The violation runs show five; `PROJECT.json` quotes both sides.

1. A second recording under a committed index overwrites the final object before
   its marker: the marker of the first recording then vouches for the second.
2. A client that resumes at the offset it was given is refused for ever once
   something was staged, because streams are always measured against the full size.
3. Telemetry is acknowledged when it is in memory, not when it is committed.
4. Quality failures are retried: no Python stage raises the one error type the
   retry policy excludes.
5. A mission that is reconstructed again transforms the meshes of the first run a second
   time: georef.py writes them back under the keys it read, and meshing.py keeps levels
   that exist. `test_full_pipeline.py:131` expects the same mesh.

Read while modelling, and visible in the definitions:

- The copy to the final key takes whatever lies under the staging key by then, the hash is that
  of the handler's own stream (store.go:126-143). When two streams of one segment overlap and
  one carries altered bytes, these can be copied between the other's check and its copy, and
  the good marker is written for them. Every property of the store excepts exactly these
  segments (`replaced`); without the exception TLC refutes `CommittedContent`. Likewise the handler that rejects its
  bytes removes the object of the other (store.go:137, `dropped`), whose call then fails and
  is repeated.
- A keyframe's `timestamp_utc` is its position in its segment file counted from 1970, and the
  logs carry absolute UTC, as those of scripts/generate_sample_telemetry.py do. Such logs
  have no record around any keyframe: there is no prior at all, hence never the strategy
  "spatial", no Helmert alignment (`helmert_alignment_skipped`) and a reference origin of
  (0, 0, 0). Logs that count from the start of the recording fit the first segment; keyframes
  of a later one get the position of the same time in the first. `PriorsNearTrack` says how far
  that is, and is all that holds. Windows mix the segments for the same reason: keyframes
  "stand for the footage" in terms of these timestamps (`KeyframesRepresent`).
- A prior has the quality of the earlier of its two records: where the fix is lost in between,
  it is called ppk or rtk_fixed and may be off by the error of a receiver without a fix.
- A mask that cannot be fetched or decoded is no mask ("assume no dynamic objects",
  minio_io.py:33-35), for depth.py:68 and gs_dataset.py:37 alike: moving objects get depth and
  are trained, and the stage succeeds.
- The detector may answer with a phrase ("vehicle person") that is not in `CLASS_TABLE`: masking
  of the mission then fails with a KeyError on every attempt (mask_codec.py:19).
- One call that fails while a telemetry manifest is read makes it count as empty; the next
  write forgets the windows it listed (telemetry store.go:121). `ManifestComplete` holds without faults only.
- An attempt at depth that was given up may put its older manifest over the one of its retry
  (depth.py:98), and frames of two GOP shards share a path of scratch (curation.py:255). The
  properties have conditions that exclude both (`Alone`, a path for every frame).
- depth.py:63 takes COLMAP's image ids, from 1, for keyframe numbers, from 0: depth is
  aligned one picture off, and the last image never (`CheckImage`).
- gs_dataset.py:21 looks for the depth manifest under a key without the mission id, so
  that no depth prior is ever used in training. meshing.py:16 writes the dense cloud under
  a key without the mission id, which every later mission then takes for its own.
- The manifest of the warm start comes before its renderings (vio_parse.py:207-217): an
  attempt cut short between the two leaves them out for good (`WarmStartComplete`).
- The remains of a database in the scratch directory are taken for a finished one
  (sfm.py:359, `CutWhileMatching`).
- A training run whose last checkpoint is its last step cannot be resumed
  (gs_train.py:171 returns `losses` that no loop bound, `StuckOnlyAtTheEnd`).
- "We floor the total keyframe count" (curation.py:37): the window guarantees half of
  the target, because a window ends with the first frame beyond it (`KeyframesRepresent`).
- One PPK prior in many images selects "spatial", and all others stay unmatched
  (sfm.py:79-85, `MatchingConnected`).
- The last record of a log is never used, even at its own time (`_bisect_by_time`).
- The direct runner's check is satisfied by products of an earlier run of the mission.

## 5. Proofs

Checked by TLAPS for every value of the constants.

**Ingest_proofs.** `IngestTypeCorrect` holds in every environment. Everything else
is under `OneRecording`: all uploads of a segment are of one recording. `ingest_conflict`
shows that without it the invariants fail. Streams may overlap and carry altered bytes
anywhere. The inductive invariant `IngestInv` joins the types to what is true between the
calls: a stream carries the declared bytes before it is opened and once it is accepted
(`OwnBytes`), a marker, and a final object outside `replaced`, holds only what some request
declares (`DeclaredOnly`), under a handler that verified its bytes the staging key holds
those or nothing, or the segment is in `replaced` (`VerifiedBytes`), a handler past the copy
finds its content under the final key, outside `replaced`, and one past the marker its hash in it
(`StepsDone`), and segments checked by `FinalizeIngest` stay committed (`CheckedInputs`).
`CommittedContent` alone is not inductive: the marker is written two calls after the check
it rests on. `IngestImplementsContract` maps every step to a step of IngestContract or a
stutter, with a segment's register read as its final object once there is a marker, or as
the hash in the marker where altered bytes were copied.

**Telemetry_proofs.** No environment assumption. `WindowInv` adds to the types that
nothing is written in seconds to come (`FutureEmpty`), that every key is taken once
per flush (`OnceEach`), and how far the window in progress got at each point of
`CommitWindow` (`CommitInOrder`). From it follow `WholeWindows`, `ListedAreCommitted`
and, as an action property, `StoredForGood`.

**TelemetryMemory_proofs.** What a process holds in memory. `SeenIsRecent`: the `SeenSet`
holds the last `Capacity` readings that were marked, in their order, from which
`DuplicatesFarApart` follows for any capacity. `ManifestInHand` says, without
faults, which windows the manifest in the flushing goroutine's hands lists at each of its
calls, and `NothingDropped` where each acknowledged reading is; these are `ManifestComplete` and
`NothingForgotten` made inductive.

**Reconstruction_proofs.** For any number of attempts, slots and faults; the pipeline is
the one in the code. None of the properties is inductive: that a replay agrees
with the history needs to know what the outputs map holds after so many events, and that
a late report does no harm needs to know which event the history is waiting for.
`RunInv` says it: commands and results alternate in the order of the stages, each of
them the only one possible (`HistoryShape`); the server has an attempt out exactly when
the last event is a command (`ServerShape`); `outputs` and `sharedParams` are functions of
`at`, and `seen` of `at` and `mode` (`WorkerShape`); what executes is a command of the
history, and whatever succeeded has written its output (`ExecutionShape`).
`CommandIssued` is the lemma behind `ReplaysAgree`: a command does not depend on the
order in which Go goes through its maps. From `RunInv` follow `ReplaysAgree`,
`InputsAreThere`, `ResultsAreWritten` and, step by step, `RunImplementsContract`;
`TypesAndSlots` needs the bounds in `Bounded` besides.

**Stages_proofs.** For any machines, runs, faults and scenes that satisfy the named
assumptions. That nothing dangles is not inductive: an attempt writes a manifest after the last
of many puts, and must still be sure of them. `Prepared` says for every stage and point
what the attempt has put already; with it `CompleteInv` is preserved by every call,
because no call removes an object, and `StoreInv` adds the types it needs.
`StagesImplementContract` is then one simple argument per action. `AttemptInv` counts: every attempt
but the first of a stage took a fault (`AttemptsCounted`), hence `StagesTypeCorrect`; without
rivals the product stage that has completed is the last of its run (`LastOfItsRun`), hence
`ListedTwiceHolds`.

**VideoResults_proofs and SceneResults_proofs.** What the stages leave behind is right, for any
scene that satisfies `ScenesOK`: any number of frames, levels, steps, machines, attempts and
faults, and anything an earlier run may have stored, as long as it is not the result this run
is going to put. Each property is a state of the store at the end of a stage, so none
is inductive; each has an invariant that says how far an attempt got at each of its calls.
Four facts carry all of them: a step puts objects and touches files of its own stage and
machine only (`KindStays`); a swallowed error marks its attempt for good (`Sighted`);
two attempts are at work at once only after a time-out (`RivalsKnown`, the meaning of `Alone`);
and a stage comes after those that feed it (`OrderInv`).

| property | invariant | why it is needed |
|---|---|---|
| `KeyframesMatch` | `KeysInv` | of the selected frames the first n are uploaded and the files of the others are still on the disk of this machine (`Uploading`) |
| `MasksMatch` | `MaskInv` | between two uploads no manifest is there, and what is uploaded came from the models of this host (`Masked`) |
| `DepthKept`, `DepthComplete` | `DepthInv` | the manifest in memory holds every image that the loop is past, though the stored one is written only at checkpoints |
| `WarmStartComplete` | `WarmInv` | the first text is stored before the second |
| `MapOfItsMatches` | `MapInv` | every database on a disk is matched, or an attempt at work is matching it (`DbsKnown`) |
| `LatestAdvances`, `StuckOnlyAtTheEnd` | `TrainInv` | the step that is trained is past the one `latest` names, and the training was entered behind a step that `latest` has named (`Entered`) |
| `LodsAgree` | `LodsInv` | while georeferencing loops over the levels, those it is past were transformed once more than the others (`InFrame`) |
| `CatalogFresh` | `CatalogInv` | the checksums in memory are those of the store, the list has exactly the products of the calls made, and what is copied is there: every level (`LodsPut`), every result (`ResultsPut`) |

**FlightData_proofs.** For every campaign that satisfies `CampaignsOK`: frames in the order
of their timestamps, an aircraft not faster than `Speed`, a receiver that is right with a fix and off by at
most `Error` without. `DataInv` is a lemma, no result: it reads what was computed off the last
state, so that the theorems are about functions. Their loops
are unrolled once and for all by `StepByStep` (such a function exists and is typed) and what holds after each
round is shown with `InductionUpTo`, a form of induction over a set in place of
an operator.

- `KeyframesRepresentHolds`: after each frame, every frame seen has its keyframe or is in the window
  and not better than its candidate (`WindowInv`); closed windows are at most twice as long as
  they should be (`LengthInv`).
- `PriorsNearTrackHolds`: the interpolation is a mean weighted by the distance in time, so the
  far record counts little when the other is near (`OneIsNear`), and an error of either by less
  than itself (`BetweenRecords`); how far the aircraft was at the time it is looked up from
  where the frame was taken is `NotFasterEitherWay`.
- `MatchingConnectedHolds`: whoever has no more keyframes near than are matched has them all as
  neighbours (`AllNeighbors`: fewer than all can be nearer, because nobody is nearer than itself).
- `MaskCoversObjectsHolds`: the runs of the encoder, painted by the reader, are the mask up to
  the run that is counted (`CountInv`), for encoder and reader in step, if the mask is read at all.
- `EveryRowInferredHolds`: the heart is the multiple of the stride at most a stride before a
  row (`MultipleBelow`).

**Only model-checked.** Of the properties of the passing runs, the liveness properties:
`EveryUploadAcked`, `EveryFinalizeAnswered`, `EveryReadingStored`, `RunCloses` and `StageCompletes`. They
rest on fairness, that is on ENABLED, which the prover does not handle. All others are theorems.
The five disagreements of section 4 are counterexamples of TLC.

## 6. Plan

Done: ingest, telemetry, reconstruction, the stages and the data of a flight, each with its
contract or its inductive invariants proved; every safety property of the passing runs is a
theorem. Left, in order of importance:

1. A composition of Reconstruction with CVStages for several runs of a mission at once: at
   present runs of a mission follow one another.
2. The two small state machines outside: the fallback of `CreateRun` in mission-svc and
   the reconnection of the live feed.
3. Stages before meshing that find their own results of an earlier run of the mission:
   `ScenesOK` excludes them, only meshing and what follows are repeated (`Rerun`).
4. The progress of the stages without fairness: that each call brings an attempt closer to
   its end (a measure that decreases), the part of `StageCompletes` that a prover can reach.

## 7. Not modelled, and why

- *Numerical code*: quality scores, robust fits (Umeyama, depth alignment), training, Poisson
  meshing, texturing and rasterisation compute with real numbers on images and meshes.
  Altitude and the barometer are left out of `Priors` with them.
- *The Colab notebook* starts the same worker on another host, which is a machine in
  CVStages; the session around it (mounting, installing, downloading weights) is I/O.
- *mission-svc*: one SQL statement or one call to Temporal per request, nothing kept in
  between. The one write that ingest makes to its table is `RecordMission`.
- *Web client*: live feed, polling and presentation affect no other part.
- *Database schema, generated code, manifests, the openmvs sidecar*: declarations, or a wrapper
  around a program (the call to it is `Densify`). The other scripts only call the services.
- Authentication, presigned URLs, logging, and the signal `roi_reprocess`, which is declared
  and handled nowhere.

Durations are abstracted: a timeout may come whenever an attempt is out.
