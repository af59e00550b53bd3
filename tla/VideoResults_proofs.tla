------------------------- MODULE VideoResults_proofs --------------------------
(***************************************************************************)
(* What curation, masking and depth leave in the object store, whatever is *)
(* cut short, for every footage and any number of machines, attempts and   *)
(* faults.  First what these proofs and those of SceneResults_proofs share:*)
(* who puts which objects and touches which files, which errors were       *)
(* swallowed, who works at the same time and which stages follow.          *)
(***************************************************************************)
EXTENDS Stages_proofs, FiniteSetTheorems

-------------------------------------------------------------------------------
(* What the results of the stages rest on: who puts which objects, which   *)
(* errors were swallowed, and who works at the same time.                  *)

\* The objects that the attempts of a stage put, by the first part of their keys.
KindsOf ==
    [curation |-> {"keyframe", "keyframes"}, masking |-> {"mask", "masks"},
     depth |-> {"exr", "depth"},
     sfm |-> {"priors", "cameras", "images", "snapshot", "matched", "model", "centers", "sfm"},
     train |-> {"step", "latest", "scene", "splat", "metrics"},
     mesh |-> {"cloud", "audit", "lod"}, georef |-> {"georef", "lod", "qa"},
     products |-> {"O-1", "O-2", "O-5", "O-6", "O-9"}, check |-> {}]

Stages == DOMAIN KindsOf

\* The step of an attempt puts nothing, or an object of its stage.
PutsOf(i) == UNCHANGED store \/ \E k, v : Put(k, v) /\ k[1] \in KindsOf[att[i].stage]

LEMMA VideoPuts ==
    ASSUME NEW i \in Attempts, Curation(i) \/ Masking(i) \/ Depth(i)
    PROVE  PutsOf(i)
<1>1. CASE Curation(i)
  <2>1. KindsOf[att[i].stage] = {"keyframe", "keyframes"}
    BY <1>1, OwnStage DEF KindsOf
  <2>2. \/ UNCHANGED store
        \/ \E n, v : Put(<<"keyframe", n>>, v) \/ Put(<<"keyframes", n>>, v)
    BY <1>1 DEF Curation, CurationBegin, curate_segment_shard, SelectKeyframes,
                UploadKeyframe, CurationEnd
  <2>3. \A n : <<"keyframe", n>>[1] = "keyframe" /\ <<"keyframes", n>>[1] = "keyframes"
    OBVIOUS
  <2> QED BY <2>1, <2>2, <2>3 DEF PutsOf
<1>2. CASE Masking(i)
  <2>1. KindsOf[att[i].stage] = {"mask", "masks"}
    BY <1>2, OwnStage DEF KindsOf
  <2>2. \/ UNCHANGED store
        \/ \E n, v : Put(<<"mask", n>>, v) \/ Put(<<"masks", n>>, v)
    BY <1>2 DEF Masking, MaskingBegin, UploadMask, MaskingEnd
  <2>3. \A n : <<"mask", n>>[1] = "mask" /\ <<"masks", n>>[1] = "masks"
    OBVIOUS
  <2> QED BY <2>1, <2>2, <2>3 DEF PutsOf
<1>3. CASE Depth(i)
  <2>1. KindsOf[att[i].stage] = {"exr", "depth"}
    BY <1>3, OwnStage DEF KindsOf
  <2>2. \/ UNCHANGED store
        \/ \E n, v : Put(<<"exr", n>>, v) \/ Put(<<"depth", n>>, v)
    BY <1>3 DEF Depth, LoadSparseModel, ResumeManifest, CheckImage, LeaveUnaligned,
                AlignImage, PutManifest, DepthEnd
  <2>3. \A n : <<"exr", n>>[1] = "exr" /\ <<"depth", n>>[1] = "depth"
    OBVIOUS
  <2> QED BY <2>1, <2>2, <2>3 DEF PutsOf
<1> QED BY <1>1, <1>2, <1>3

LEMMA PosePuts ==
    ASSUME NEW i \in Attempts, Pose(i)
    PROVE  PutsOf(i)
<1> DEFINE kinds == {"priors", "cameras", "images", "snapshot", "matched", "model", "centers",
                     "sfm"}
<1>1. KindsOf[att[i].stage] = kinds
  BY OwnStage DEF KindsOf
<1>2. \A s, n : <<s, n>>[1] = s
  OBVIOUS
<1>3. ASSUME NEW s \in kinds, NEW n, NEW v, Put(<<s, n>>, v)
      PROVE  PutsOf(i)
  BY <1>1, <1>2, <1>3 DEF PutsOf
<1>4. CASE ParseWarmStart(i) \/ PutCamerasText(i) \/ PutImagesText(i)
  BY <1>3, <1>4 DEF ParseWarmStart, PutPriors, KeepPriors, PutCamerasText, PutImagesText, PutsOf
<1>5. CASE BuildDatabase(i) \/ RunMatching(i) \/ OpenDatabase(i) \/ CheckResult(i)
           \/ IncrementalMapping(i)
  BY <1>5 DEF BuildDatabase, RunMatching, OpenDatabase, CheckResult, IncrementalMapping, PutsOf
<1>6. CASE PackAndUpload(i) \/ PutMarker(i) \/ UploadModel(i) \/ PutCenters(i) \/ PutResult(i)
  BY <1>3, <1>6 DEF PackAndUpload, PutMarker, UploadModel, PutCenters, PutResult
<1> QED BY <1>4, <1>5, <1>6 DEF Pose

LEMMA ScenePuts ==
    ASSUME NEW i \in Attempts, Dense3DGS(i) \/ Meshing(i) \/ Georef(i)
    PROVE  PutsOf(i)
<1>1. \A s, n : <<s, n>>[1] = s
  OBVIOUS
<1>2. ASSUME NEW s, s \in KindsOf[att[i].stage], NEW n, NEW v, Put(<<s, n>>, v)
      PROVE  PutsOf(i)
  BY <1>1, <1>2 DEF PutsOf
<1>3. CASE Dense3DGS(i)
  <2>1. KindsOf[att[i].stage] = {"step", "latest", "scene", "splat", "metrics"}
    BY <1>3, OwnStage DEF KindsOf
  <2> QED BY <1>2, <1>3, <2>1
          DEF Dense3DGS, LoadCheckpoint, SkipTraining, Train, SaveCheckpoint, SaveLatest,
              TrainingEnd, UploadScene, UploadSplat, PutMetrics, PutsOf
<1>4. CASE Meshing(i)
  <2>1. KindsOf[att[i].stage] = {"cloud", "audit", "lod"}
    BY <1>4, OwnStage DEF KindsOf
  <2> QED BY <1>2, <1>4, <2>1
          DEF Meshing, Densify, Audit, CheckLods, BakeLod, MeshingEnd, PutsOf
<1>5. CASE Georef(i)
  <2>1. KindsOf[att[i].stage] = {"georef", "lod", "qa"}
    BY <1>5, OwnStage DEF KindsOf
  <2> QED BY <1>2, <1>5, <2>1
          DEF Georef, GeorefScene, GetLod, PutLod, PutReport, PutsOf
<1> QED BY <1>3, <1>4, <1>5

LEMMA ProductPuts ==
    ASSUME NEW i \in Attempts, ProductGen(i) \/ CheckProducts(i)
    PROVE  PutsOf(i)
<1>1. \A s, n : <<s, n>>[1] = s
  OBVIOUS
<1>2. CASE ProductGen(i)
  <2>1. att[i].stage = "products"
    BY <1>2 DEF ProductGen, At, CopyMesh, CopyTrajectory, FindReport, AssemblePoints,
                AssembleRaster, AssembleProvenance, ComputeChecksums, publish_products,
                ProductsEnd, PutProduct
  <2>2. KindsOf[att[i].stage] = {"O-1", "O-2", "O-5", "O-6", "O-9"}
    BY <2>1 DEF KindsOf
  <2>3. ASSUME NEW s \in {"O-1", "O-2", "O-5", "O-6", "O-9"}, NEW v, Put(<<s, 0>>, v)
        PROVE  PutsOf(i)
    BY <1>1, <2>2, <2>3 DEF PutsOf
  <2>4. CASE CopyMesh(i) \/ CopyTrajectory(i)
    BY <2>3, <2>4 DEF CopyMesh, CopyTrajectory, CopyIfExists, PutsOf
  <2>5. CASE AssemblePoints(i) \/ AssembleRaster(i) \/ AssembleProvenance(i)
    BY <2>3, <2>5 DEF AssemblePoints, PutPoints, AssembleRaster, AssembleProvenance, PutProduct
  <2>6. CASE FindReport(i) \/ ComputeChecksums(i) \/ publish_products(i) \/ ProductsEnd(i)
    BY <2>6 DEF FindReport, ComputeChecksums, publish_products, ProductsEnd, PutsOf
  <2> QED BY <1>2, <2>4, <2>5, <2>6 DEF ProductGen
<1>3. CASE CheckProducts(i)
  BY <1>3 DEF CheckProducts, PutsOf
<1> QED BY <1>2, <1>3

LEMMA StepPuts ==
    ASSUME NEW i \in Attempts, Step(i)
    PROVE  PutsOf(i)
BY VideoPuts, PosePuts, ScenePuts, ProductPuts DEF Step

\* The objects of a kind stay as they are.
KindStays(s) ==
    \A n : /\ Has(<<s, n>>)' <=> Has(<<s, n>>)
           /\ Has(<<s, n>>) => store'[<<s, n>>] = store[<<s, n>>]

LEMMA SameStays ==
    ASSUME UNCHANGED store, NEW s
    PROVE  KindStays(s)
BY DEF KindStays, Has

LEMMA PutStays ==
    ASSUME NEW k, NEW v, Put(k, v), NEW s, k[1] # s
    PROVE  KindStays(s)
<1>1. \A n : <<s, n>>[1] = s
  OBVIOUS
<1>2. \A n : k # <<s, n>>
  BY <1>1
<1> QED BY <1>2 DEF KindStays, Put, With, Has

LEMMA KindKept ==
    ASSUME NEW i \in Attempts, Step(i), NEW s, s \notin KindsOf[att[i].stage]
    PROVE  KindStays(s)
<1> HIDE DEF KindsOf
<1> QED BY StepPuts, SameStays, PutStays DEF PutsOf

\* An attempt executes the calls of its stage.
LEMMA StageOfStep ==
    ASSUME NEW i \in Attempts, Step(i)
    PROVE  /\ att[i].stage \in Stages
           /\ att[i].stage = "curation" => Curation(i)
           /\ att[i].stage = "masking" => Masking(i)
           /\ att[i].stage = "depth" => Depth(i)
           /\ att[i].stage = "sfm" => Pose(i)
           /\ att[i].stage = "train" => Dense3DGS(i)
           /\ att[i].stage = "mesh" => Meshing(i)
           /\ att[i].stage = "georef" => Georef(i)
           /\ att[i].stage = "products" => ProductGen(i)
           /\ att[i].stage = "check" => CheckProducts(i)
<1>1. ProductGen(i) => att[i].stage = "products"
  BY DEF ProductGen, At, CopyMesh, CopyTrajectory, FindReport, AssemblePoints,
         AssembleRaster, AssembleProvenance, ComputeChecksums, publish_products,
         ProductsEnd, PutProduct
<1> QED BY <1>1, OwnStage DEF Step, KindsOf, Stages

\* The mark that a swallowed error leaves.
LEMMA StepBlind ==
    ASSUME AttemptsTyped, NEW i \in Attempts, Step(i)
    PROVE  /\ att[i].blind => att'[i].blind
           /\ (att'[i].status = "running" /\ faults' # faults) => att'[i].blind
<1>1. ASSUME NEW pc, NEW n, NEW out, Continue(i, pc, n, out)
      PROVE  (att[i].blind \/ faults' # faults) => att'[i].blind
  BY <1>1 DEF AttemptsTyped, Fields, Continue
<1>2. ASSUME NEW s \in {"done", "failed"}, End(i, s)
      PROVE  att'[i].blind = att[i].blind /\ att'[i].status # "running"
  BY <1>2 DEF AttemptsTyped, Fields, End
<1> QED BY <1>1, <1>2, StepShape DEF Shape

LEMMA OuterBlind ==
    ASSUME AttemptInv, Outer
    PROVE  \A j \in Attempts : att[j].blind => att'[j].blind
<1> USE DEF AttemptsTyped, Fields
<1>1. CASE \E stage, run : Launch(stage, run)
  <2>1. PICK stage, run : Launch(stage, run)
    BY <1>1
  <2>2. \A j \in Attempts : j # last + 1 => att'[j] = att[j]
    BY <2>1, Launched DEF AttemptInv
  <2>3. ASSUME NEW j \in Attempts, j = last + 1
        PROVE  ~att[j].blind
    <3>1. j > last
      BY <2>3, Bounds
    <3>2. att[j] = Idle
      BY <3>1 DEF AttemptInv
    <3>3. Idle.blind = FALSE
      BY DEF Idle
    <3> QED BY <3>2, <3>3
  <2> QED BY <2>2, <2>3
<1>2. CASE \E i \in Attempts : Running(i) /\ End(i, "raised")
  BY <1>2 DEF End, AttemptInv
<1>3. CASE LoseAnswer
  BY <1>3 DEF LoseAnswer, AttemptInv
<1>4. CASE \E m \in Machines : Crash(m)
  BY <1>4 DEF Crash, AttemptInv
<1> QED BY <1>1, <1>2, <1>3, <1>4, OuterShape

\* Who overlapped, shared a machine or swallowed an error has done so for good.
LEMMA Before ==
    ASSUME AttemptInv, [Next]_vars
    PROVE  /\ Alone' => Alone
           /\ Sighted' => Sighted
           /\ NoSharedMachine' => NoSharedMachine
<1>1. CASE UNCHANGED vars
  BY <1>1 DEF vars, Alone, Sighted, NoSharedMachine
<1>2. ASSUME NEW i \in Attempts, Step(i)
      PROVE  /\ \A j \in Attempts : att'[j].rivals = att[j].rivals /\ att'[j].on = att[j].on
             /\ \A j \in Attempts : att[j].blind => att'[j].blind
  <2>1. \A j \in Attempts : att'[j].rivals = att[j].rivals /\ att'[j].on = att[j].on
    BY <1>2, StepFrame DEF AttemptInv
  <2>2. \A j \in Attempts : att[j].blind => att'[j].blind
    BY <1>2, StepFrame, StepBlind DEF AttemptInv
  <2> QED BY <2>1, <2>2
<1>3. ASSUME Outer
      PROVE  \A j \in Attempts : \/ att[j].rivals = {}
                                 \/ /\ att'[j].rivals = att[j].rivals
                                    /\ \A k \in 1 .. j : att'[k].on = att[k].on
  <2> SUFFICES ASSUME NEW j \in Attempts, att[j].rivals # {}
               PROVE  /\ att'[j].rivals = att[j].rivals
                      /\ \A k \in 1 .. j : att'[k].on = att[k].on
    OBVIOUS
  <2>1. ~(j > last)
    BY IdleFields DEF AttemptInv
  <2>2. last \in Nat /\ j \in Nat /\ MaxAttempts \in Nat /\ j <= MaxAttempts
    BY Bounds DEF Attempts
  <2>3. \A k \in 1 .. j : k \in Attempts /\ k # last + 1
    BY <2>1, <2>2 DEF Attempts
  <2>4. j \in 1 .. j
    BY <2>2 DEF Attempts
  <2> QED BY <1>3, <2>3, <2>4, OuterFrame DEF AttemptInv
<1>4. CASE Outer
  <2>1. Alone' => Alone
    BY <1>3, <1>4 DEF Alone
  <2>2. Sighted' => Sighted
    BY <1>4, OuterBlind DEF Sighted
  <2>3. NoSharedMachine' => NoSharedMachine
    <3> SUFFICES ASSUME NoSharedMachine', NEW j \in Attempts, NEW k \in att[j].rivals
                 PROVE  att[k].on # att[j].on
      BY DEF NoSharedMachine
    <3>1. att'[j].rivals = att[j].rivals /\ \A l \in 1 .. j : att'[l].on = att[l].on
      BY <1>3, <1>4
    <3>2. k \in 1 .. j /\ j \in 1 .. j
      <4>1. att[j].rivals \subseteq 1 .. j - 1 /\ j \in Nat \ {0}
        BY Bounds DEF AttemptInv, TypeOK, Attempts
      <4> QED BY <4>1
    <3> QED BY <3>1, <3>2 DEF NoSharedMachine
  <2> QED BY <2>1, <2>2, <2>3
<1>5. CASE \E i \in Attempts : Step(i)
  <2>1. Alone' => Alone
    BY <1>2, <1>5 DEF Alone
  <2>2. Sighted' => Sighted
    BY <1>2, <1>5 DEF Sighted
  <2>3. NoSharedMachine' => NoSharedMachine
    <3>1. \A j \in Attempts : att'[j].rivals = att[j].rivals /\ att'[j].on = att[j].on
      BY <1>2, <1>5
    <3>2. \A j \in Attempts : \A k \in att[j].rivals : k \in Attempts
      <4>1. \A j \in Attempts : att[j].rivals \subseteq 1 .. j - 1 /\ j \in Nat
        BY Bounds DEF AttemptInv, TypeOK, Attempts
      <4>2. MaxAttempts \in Nat
        BY Bounds
      <4> QED BY <4>1, <4>2 DEF Attempts
    <3> QED BY <3>1, <3>2 DEF NoSharedMachine
  <2> QED BY <2>1, <2>2, <2>3
<1> QED BY <1>1, <1>4, <1>5, NextCases

\* An attempt that has swallowed no error met none, or has ended by it.
LEMMA SightedStep ==
    ASSUME AttemptsTyped, NEW i \in Attempts, Step(i), Sighted', faults' # faults
    PROVE  att'[i].status # "running"
BY StepBlind DEF Sighted

\* Who works alone is the last attempt.
LEMMA OnlyRunner ==
    ASSUME AttemptInv, Alone, NEW i \in Attempts, Running(i)
    PROVE  i = last /\ last > 0
<1>1. last \in Nat /\ i \in Nat \ {0} /\ ~(i > last)
  BY Bounds DEF AttemptInv, TypeOK, Attempts, Running
<1>2. i \notin 1 .. last - 1
  BY DEF AttemptInv, LastOfItsRun
<1> QED BY <1>1, <1>2

\* An attempt is started, or ends; when none overlaps another, it starts with nobody at work.
LEMMA OuterAlone ==
    ASSUME AttemptInv, Outer
    PROVE  /\ \A j \in Attempts : att'[j].status = "running" =>
                  \/ att'[j] = att[j]
                  \/ /\ att'[j].pc = "begin" /\ att'[j].out = Empty
                     /\ j = last + 1 /\ last' = last + 1
           /\ \A j \in Attempts : att'[j].status = "done" => att'[j] = att[j]
           /\ (Alone' /\ last' # last) => \A j \in Attempts : ~Running(j)
<1>1. (Alone' /\ last' # last) => \A j \in Attempts : ~Running(j)
  <2> SUFFICES ASSUME Alone', last' # last PROVE \A j \in Attempts : ~Running(j)
    OBVIOUS
  <2>1. PICK s, u : Launch(s, u)
    BY OuterShape
  <2>2. last + 1 \in Attempts
    BY <2>1, Room
  <2>3. att'[last + 1].rivals = {j \in Attempts : Running(j)}
    BY <2>1, <2>2, Launched DEF AttemptInv
  <2> QED BY <2>2, <2>3 DEF Alone
<1> QED BY <1>1, OuterFrame DEF AttemptInv

LEMMA IdleStage == Idle.stage \notin Stages
BY DEF Idle, Stages, KindsOf

\* What was started keeps its record but for its status and its result.
LEMMA OuterKeeps ==
    ASSUME AttemptInv, Outer, NEW j \in Attempts, att[j].stage \in Stages
    PROVE  /\ att'[j].stage = att[j].stage /\ att'[j].pc = att[j].pc /\ att'[j].n = att[j].n
           /\ att'[j].run = att[j].run /\ att'[j].on = att[j].on
           /\ att'[j].rivals = att[j].rivals
           /\ att'[j].status = "running" => att[j].status = "running"
           /\ att'[j].status # att[j].status => att'[j].status \in {"raised", "lost"}
<1>1. j # last + 1
  <2> SUFFICES ASSUME j = last + 1 PROVE FALSE
    OBVIOUS
  <2>1. last \in Nat
    BY Bounds
  <2>2. att[j] = Idle
    BY <2>1 DEF AttemptInv
  <2> QED BY <2>2, IdleStage
<1> QED BY <1>1, OuterFrame DEF AttemptInv

\* The results of the stages are not stored to begin with, and nobody has started.
LEMMA InitResults ==
    ASSUME Init
    PROVE  /\ \A s \in Results : \A n : ~Has(<<s, n>>)
           /\ \A i \in Attempts : ~Running(i) /\ att[i].status = "idle"
                                  /\ att[i].stage \notin Stages
<1>1. \A s \in Results : \A n : ~Has(<<s, n>>)
  <2> SUFFICES ASSUME NEW s \in Results, NEW n, Has(<<s, n>>) PROVE FALSE
    OBVIOUS
  <2>1. <<s, n>> \in DOMAIN scene.stored /\ scene \in Scenes
    BY DEF Init, Has
  <2>2. <<s, n>>[1] \notin Results
    BY <2>1, ScenesOK DEF ScenesOK
  <2> QED BY <2>2
<1>2. \A i \in Attempts : att[i] = Idle
  BY DEF Init
<1>3. Idle.status = "idle"
  BY DEF Idle
<1> QED BY <1>1, <1>2, <1>3, IdleStage DEF Running

-------------------------------------------------------------------------------
(* Which stages the attempts of a mission execute, and after which.        *)

\* What is started: the stage a mission enters at, the stage of the last attempt again, or
\* the stage behind one that is done.
LEMMA NewStage ==
    ASSUME AttemptInv, Outer, last' # last
    PROVE  /\ last' = last + 1 /\ last + 1 \in Attempts
           /\ \A j \in Attempts : j # last + 1 => att'[j] = att[j]
           /\ att'[last + 1].status = "running" /\ att'[last + 1].pc = "begin"
           /\ \/ Served /\ last = 0 /\ att'[last + 1].stage = scene.stage
              \/ Served /\ last > 0 /\ att'[last + 1].stage = att[last].stage
              \/ /\ Served /\ last > 0 /\ att[last].status = "done"
                 /\ <<att[last].stage, att'[last + 1].stage>> \in
                        {<<"mesh", "georef">>, <<"georef", "products">>, <<"products", "mesh">>}
              \/ /\ ~Served /\ last < 9 /\ att'[last + 1].stage = DirectStages[last + 1]
                 /\ last > 0 => /\ att[last].status = "done"
                                /\ att[last].stage = DirectStages[last]
<1>1. last \in Nat /\ last + 1 # last
  BY Bounds
<1>2. ASSUME NEW s, NEW u, Launch(s, u)
      PROVE  /\ last' = last + 1 /\ last + 1 \in Attempts
             /\ \A j \in Attempts : j # last + 1 => att'[j] = att[j]
             /\ att'[last + 1].status = "running" /\ att'[last + 1].pc = "begin"
             /\ att'[last + 1].stage = s
  <2>1. last + 1 \in Attempts
    BY <1>2, Room
  <2>2. AttemptsTyped
    BY DEF AttemptInv
  <2>3. last' = last + 1
    BY <1>2 DEF Launch
  <2> QED BY <1>2, <2>1, <2>2, <2>3, Launched
<1>3. CASE FirstAttempt
  BY <1>2, <1>3 DEF FirstAttempt
<1>4. CASE Retry \/ TimeOut
  BY <1>2, <1>4 DEF Retry, TimeOut
<1>5. CASE NextStage
  <2>1. att[last].stage \in {"mesh", "georef"} /\ Served /\ last > 0 /\ att[last].status = "done"
    BY <1>5 DEF NextStage, After
  <2>2. Launch(After[att[last].stage], att[last].run)
    BY <1>5 DEF NextStage
  <2>3. att'[last + 1].stage = After[att[last].stage]
    BY <1>2, <2>2
  <2> QED BY <1>2, <2>1, <2>2, <2>3 DEF After
<1>6. CASE Rerun
  BY <1>2, <1>6 DEF Rerun
<1>7. CASE DirectStage
  <2>1. ~Served /\ last < 9 /\ (last > 0 => att[last].status = "done")
    BY <1>7, DirectLength DEF DirectStage
  <2>2. last > 0 => att[last].stage = DirectStages[last]
    <3>1. last > 0 => last \in 1 .. last
      BY <1>1
    <3> QED BY <2>1, <3>1 DEF AttemptInv, AttemptsCounted
  <2>3. Launch(DirectStages[last + 1], 1)
    BY <1>7 DEF DirectStage
  <2> QED BY <1>2, <2>1, <2>2, <2>3
<1>8. CASE LoseAnswer \/ (\E i \in Attempts : CallRaises(i)) \/ (\E m \in Machines : Crash(m))
  BY <1>8 DEF LoseAnswer, CallRaises, Crash, Keep
<1> QED BY <1>3, <1>4, <1>5, <1>6, <1>7, <1>8 DEF Outer, Server, Environment

\* A mission that enters before georeferencing stays in its stage; a direct run executes
\* one stage after the other.
OrderInv ==
    /\ Served => \A i \in 1 .. last :
           \/ att[i].stage = scene.stage
           \/ scene.stage = "mesh" /\ att[i].stage \in {"georef", "products"}
    /\ ~Served => \A i \in 1 .. last - 1 : att[i].status = "done"

LEMMA OrderInvInit ==
    ASSUME Init
    PROVE  OrderInv
<1>1. last = 0
  BY DEF Init
<1> QED BY <1>1 DEF OrderInv

\* Answers are only lost on the way to the server.
LEMMA DirectDone ==
    ASSUME AttemptInv, Outer, ~Served, NEW j \in Attempts, att[j].status = "done",
           j # last + 1
    PROVE  att'[j].status = "done"
<1>1. CASE \E stage, run : Launch(stage, run)
  BY <1>1, Launched DEF AttemptInv
<1>2. CASE \E i \in Attempts : Running(i) /\ End(i, "raised")
  <2>1. PICK i \in Attempts : Running(i) /\ End(i, "raised")
    BY <1>2
  <2>2. i # j
    BY <2>1 DEF Running
  <2> QED BY <2>1, <2>2, Closed DEF AttemptInv
<1>3. CASE LoseAnswer
  BY <1>3 DEF LoseAnswer
<1>4. CASE \E m \in Machines : Crash(m)
  BY <1>4 DEF Crash, Busy, Running
<1> QED BY <1>1, <1>2, <1>3, <1>4, OuterShape

LEMMA OrderInvStep ==
    ASSUME OrderInv, AttemptInv, [Next]_vars
    PROVE  OrderInv'
<1>0. last \in Nat /\ \A j \in 1 .. last : j \in Attempts
  BY Bounds, Counted
<1>1. ASSUME UNCHANGED <<scene, last>>,
             \A j \in Attempts : att'[j].stage = att[j].stage,
             ~Served => \A j \in Attempts : att[j].status = "done" => att'[j].status = "done"
      PROVE  OrderInv'
  <2>1. Served' <=> Served
    BY <1>1 DEF Served
  <2>2. \A j \in 1 .. last - 1 : j \in Attempts
    BY <1>0
  <2> QED BY <1>0, <1>1, <2>1, <2>2 DEF OrderInv
<1>2. CASE UNCHANGED vars
  BY <1>1, <1>2 DEF vars
<1>3. ASSUME NEW i \in Attempts, Step(i)
      PROVE  OrderInv'
  <2>1. UNCHANGED <<scene, last>>
    BY <1>3, StepShape DEF Shape
  <2>2. \A j \in Attempts : att'[j].stage = att[j].stage
                            /\ (att[j].status = "done" => att'[j].status = "done")
    BY <1>3, StepFrame DEF AttemptInv
  <2> QED BY <1>1, <2>1, <2>2
<1>4. CASE Outer /\ last' = last
  <2>1. scene' = scene
    BY <1>4, OuterShape
  <2>2. \A j \in Attempts : j # last + 1 => att'[j].stage = att[j].stage
    BY <1>4, OuterFrame DEF AttemptInv
  <2>3. last + 1 \in Attempts => att'[last + 1].stage = att[last + 1].stage
    <3>1. last' # last + 1
      BY <1>0, <1>4
    <3> QED BY <1>4, <3>1, OuterFrame DEF AttemptInv
  <2>4. \A j \in Attempts : att[j].status = "done" => j # last + 1
    <3>1. ~(last + 1 <= last) /\ last + 1 > last
      BY <1>0
    <3>2. ASSUME last + 1 \in Attempts PROVE att[last + 1].status = "idle"
      BY <3>1, <3>2, IdleFields DEF AttemptInv
    <3> QED BY <3>2
  <2>5. ~Served => \A j \in Attempts : att[j].status = "done" => att'[j].status = "done"
    BY <1>4, <2>4, DirectDone
  <2> QED BY <1>1, <1>4, <2>1, <2>2, <2>3, <2>5
<1>5. CASE Outer /\ last' # last
  <2>1. scene' = scene /\ (Served' <=> Served)
    BY <1>5, OuterShape DEF Served
  <2>2. last' = last + 1 /\ \A j \in Attempts : j # last + 1 => att'[j] = att[j]
    BY <1>5, NewStage
  <2>3. \A j \in 1 .. last : att'[j] = att[j]
    <3>1. \A j \in 1 .. last : j # last + 1
      BY <1>0
    <3> QED BY <1>0, <2>2, <3>1
  <2>4. ASSUME Served
        PROVE  \/ att'[last + 1].stage = scene.stage
               \/ scene.stage = "mesh" /\ att'[last + 1].stage \in {"georef", "products"}
    <3>1. last > 0 => last \in 1 .. last
      BY <1>0
    <3>2. last > 0 => \/ att[last].stage = scene.stage
                      \/ scene.stage = "mesh" /\ att[last].stage \in {"georef", "products"}
      BY <2>4, <3>1 DEF OrderInv
    <3>3. scene.stage \notin {"georef", "products"}
      BY ScenesOK DEF ScenesOK, AttemptInv, TypeOK
    <3> QED BY <1>5, <2>4, <3>2, <3>3, NewStage
  <2>5. ASSUME ~Served, NEW j \in 1 .. (last + 1) - 1
        PROVE  att'[j].status = "done"
    <3>1. j \in 1 .. last /\ (j = last \/ j \in 1 .. last - 1) /\ (j = last => last > 0)
      BY <1>0
    <3>2. last > 0 => att[last].status = "done"
      BY <1>5, <2>5, NewStage
    <3> QED BY <2>3, <2>5, <3>1, <3>2 DEF OrderInv
  <2>6. ASSUME Served, NEW j \in 1 .. last + 1
        PROVE  \/ att'[j].stage = scene.stage
               \/ scene.stage = "mesh" /\ att'[j].stage \in {"georef", "products"}
    <3>1. j = last + 1 \/ j \in 1 .. last
      BY <1>0
    <3> QED BY <2>3, <2>4, <2>6, <3>1 DEF OrderInv
  <2> QED BY <2>1, <2>2, <2>5, <2>6 DEF OrderInv
<1> QED BY <1>2, <1>3, <1>4, <1>5, NextCases

\* What a mission goes through is in the order of its stages: an attempt of one stage comes
\* after those of the stages that feed it, served (workflow.go) or in a direct run
\* (direct_pipeline_runner.py).
THEOREM OrderInvariant == Spec => []OrderInv
<1>1. OrderInv /\ AttemptInv /\ [Next]_vars => OrderInv'
  BY OrderInvStep
<1> QED BY <1>1, OrderInvInit, AttemptInvariant, PTL DEF Spec

\* What has a stage has been started.
LEMMA Started ==
    ASSUME AttemptInv, NEW i \in Attempts, att[i].stage \in Stages
    PROVE  i \in 1 .. last
<1>1. last \in Nat /\ i \in Nat \ {0}
  BY Bounds DEF Attempts
<1>2. ~(i > last)
  BY IdleStage DEF AttemptInv
<1> QED BY <1>1, <1>2

\* Two stages of one mission: those behind the mesh, or those of a direct run, where the
\* first has completed when the second starts.
LEMMA TwoStages ==
    ASSUME AttemptInv, OrderInv, NEW i \in Attempts, NEW j \in Attempts,
           att[i].stage \in Stages, att[j].stage \in Stages, att[i].stage # att[j].stage
    PROVE  \/ /\ Served /\ att[i].stage \in {"mesh", "georef", "products"}
              /\ att[j].stage \in {"mesh", "georef", "products"}
           \/ /\ ~Served /\ i < j /\ att[i].status = "done"
              /\ att[i].stage = DirectStages[i] /\ att[j].stage = DirectStages[j]
           \/ /\ ~Served /\ j < i /\ att[j].status = "done"
              /\ att[i].stage = DirectStages[i] /\ att[j].stage = DirectStages[j]
<1>1. i \in 1 .. last /\ j \in 1 .. last /\ last \in Nat /\ i # j
  BY Started, Bounds
<1>2. CASE Served
  BY <1>1, <1>2 DEF OrderInv
<1>3. CASE ~Served
  <2>1. att[i].stage = DirectStages[i] /\ att[j].stage = DirectStages[j]
    BY <1>1, <1>3 DEF AttemptInv, AttemptsCounted
  <2>2. (i < j /\ i \in 1 .. last - 1) \/ (j < i /\ j \in 1 .. last - 1)
    BY <1>1
  <2> QED BY <1>3, <2>1, <2>2 DEF OrderInv
<1> QED BY <1>2, <1>3

-------------------------------------------------------------------------------
(* Depth.                                                                  *)

\* The images that can be aligned: they have a keyframe and enough points.
Good == {f \in 1 .. scene.frames : Has(<<"keyframe", f>>) /\ f \notin scene.thin}

\* An attempt goes on from the manifest that is stored, and has looked at the images below
\* the one it is at.
Resumed(i) ==
    /\ att[i].n \in Nat \ {0}
    /\ Aligned(att[i].out) \subseteq Good
    /\ \A f \in Good : f < att[i].n => f \in Aligned(att[i].out)
    /\ Has(<<"depth", 0>>) => Aligned(store[<<"depth", 0>>]) \subseteq Aligned(att[i].out)
    /\ att[i].pc # "frame" => att[i].n <= scene.frames
    /\ att[i].pc = "image" => att[i].n \notin Aligned(att[i].out)
    /\ att[i].pc = "checkpoint" => att[i].n \in Aligned(att[i].out)

InDepth(i) ==
    /\ att[i].pc \in {"begin", "manifest", "frame", "image", "checkpoint"}
    /\ att[i].pc = "manifest" => att[i].n = 1 /\ att[i].out = Empty
    /\ att[i].pc \notin {"begin", "manifest"} => Resumed(i)

AtDepth(i) == Running(i) /\ att[i].stage = "depth"

ManifestGood == Has(<<"depth", 0>>) => Aligned(store[<<"depth", 0>>]) \subseteq Good

AllGood == Has(<<"depth", 0>>) /\ Aligned(store[<<"depth", 0>>]) = Good

DepthInv ==
    (Alone /\ Sighted) =>
        /\ ManifestGood
        /\ \A i \in Attempts : AtDepth(i) => InDepth(i)
        /\ \A i \in Attempts : Done(i, "depth") => AllGood

LEMMA DepthInvInit ==
    ASSUME Init
    PROVE  DepthInv
<1>1. ~Has(<<"depth", 0>>)
  BY InitResults DEF Results
<1>2. \A i \in Attempts : ~Running(i) /\ att[i].status # "done"
  BY InitResults
<1> QED BY <1>1, <1>2 DEF DepthInv, ManifestGood, AtDepth, Done

\* The keyframes are complete when depth begins.
LEMMA DepthInvKept ==
    ASSUME DepthInv, AttemptInv, [Next]_vars, KindStays("depth"), scene' = scene,
           Good \subseteq Good',
           \A i \in Attempts : AtDepth(i)' =>
               \/ att'[i].pc = "begin"
               \/ AtDepth(i) /\ Good' = Good /\ att'[i] = att[i],
           \A i \in Attempts : Done(i, "depth")' => Done(i, "depth") /\ Good' = Good
    PROVE  DepthInv'
<1> SUFFICES ASSUME Alone', Sighted'
             PROVE  /\ ManifestGood'
                    /\ \A i \in Attempts : AtDepth(i)' => InDepth(i)'
                    /\ \A i \in Attempts : Done(i, "depth")' => AllGood'
  BY DEF DepthInv
<1>1. Alone /\ Sighted
  BY Before
<1>2. /\ Has(<<"depth", 0>>)' <=> Has(<<"depth", 0>>)
      /\ Has(<<"depth", 0>>) => store'[<<"depth", 0>>] = store[<<"depth", 0>>]
  BY DEF KindStays
<1>3. ManifestGood'
  <2>1. ManifestGood
    BY <1>1 DEF DepthInv
  <2> QED BY <1>2, <2>1 DEF ManifestGood
<1>4. ASSUME NEW i \in Attempts, AtDepth(i)'
      PROVE  InDepth(i)'
  <2>1. CASE att'[i].pc = "begin"
    BY <2>1 DEF InDepth
  <2>2. CASE AtDepth(i) /\ Good' = Good /\ att'[i] = att[i]
    <3>1. InDepth(i)
      BY <1>1, <2>2 DEF DepthInv
    <3> QED BY <1>2, <2>2, <3>1 DEF InDepth, Resumed
  <2> QED BY <1>4, <2>1, <2>2
<1>5. ASSUME NEW i \in Attempts, Done(i, "depth")'
      PROVE  AllGood'
  <2>1. AllGood /\ Good' = Good
    BY <1>1, <1>5 DEF DepthInv
  <2> QED BY <1>2, <2>1 DEF AllGood
<1> QED BY <1>3, <1>4, <1>5

\* A step that puts no keyframe and no manifest, and one that puts the manifest.
LEMMA GoodStays ==
    ASSUME scene' = scene, KindStays("keyframe")
    PROVE  Good' = Good
BY DEF Good, KindStays

LEMMA DepthInvDepth ==
    ASSUME DepthInv, StoreInv, AttemptInv, [Next]_vars, NEW i \in Attempts, Step(i),
           att[i].stage = "depth", Alone', Sighted'
    PROVE  /\ DepthInv'
           /\ Has(<<"depth", 0>>) =>
                  Aligned(store[<<"depth", 0>>]) \subseteq Aligned(store'[<<"depth", 0>>])
<1> DEFINE AlignedStay == Has(<<"depth", 0>>) =>
                              Aligned(store[<<"depth", 0>>]) \subseteq Aligned(store'[<<"depth", 0>>])
<1>0. scene.frames \in Nat
  BY ScenesOK DEF ScenesOK, AttemptInv, TypeOK
<1>1. Alone /\ Sighted
  BY Before
<1>2. /\ AttemptsTyped /\ scene' = scene
      /\ \A j \in Attempts : j # i => att'[j] = att[j]
      /\ \A j \in Attempts : Running(j) => j = i
      /\ AtDepth(i) /\ InDepth(i) /\ ManifestGood
      /\ att'[i].stage = "depth"
  <2>1. AtDepth(i)
    BY DEF AtDepth, Step
  <2> QED BY <1>1, <2>1, StepFrame, StepShape, OnlyRunner DEF AttemptInv, Step, Shape, DepthInv
<1>3. Good' = Good
  <2>1. "keyframe" \notin KindsOf[att[i].stage]
    BY DEF KindsOf
  <2> QED BY <1>2, <2>1, KindKept, GoodStays
<1>4. \A j \in Attempts : AtDepth(j)' => j = i
  BY <1>2 DEF AtDepth, Running
<1>5. \A j \in Attempts : (j # i /\ Done(j, "depth")') => AllGood
  BY <1>1, <1>2 DEF Done, DepthInv
\* goes on, the manifest as it was
<1>6. ASSUME KindStays("depth"), NEW pc, NEW n, NEW out, Continue(i, pc, n, out), InDepth(i)'
      PROVE  DepthInv' /\ AlignedStay
  <2>1. /\ Has(<<"depth", 0>>)' <=> Has(<<"depth", 0>>)
        /\ Has(<<"depth", 0>>) => store'[<<"depth", 0>>] = store[<<"depth", 0>>]
    BY <1>6 DEF KindStays
  <2>2. ManifestGood'
    BY <1>2, <1>3, <2>1 DEF ManifestGood
  <2>3. att'[i].status = "running"
    BY <1>2, <1>6, Continued DEF AtDepth, Running
  <2>4. \A j \in Attempts : Done(j, "depth")' => AllGood'
    BY <1>3, <1>5, <2>1, <2>3 DEF AllGood, Done
  <2> QED BY <1>4, <1>6, <2>1, <2>2, <2>4 DEF DepthInv
\* an error that an attempt goes on from is seen
<1>7. ASSUME NEW pc, NEW n, NEW out, Continue(i, pc, n, out)
      PROVE  /\ faults' = faults /\ ~Fails
             /\ att'[i].pc = pc /\ att'[i].n = n /\ att'[i].out = out
  <2>1. att'[i].status = "running" /\ att'[i].pc = pc /\ att'[i].n = n /\ att'[i].out = out
    BY <1>2, <1>7, Continued DEF AtDepth, Running
  <2>2. faults' = faults
    BY <1>2, <2>1, SightedStep
  <2>3. faults \in Nat
    BY DEF AttemptInv
  <2> QED BY <2>1, <2>2, <2>3 DEF Fails
<1>8. CASE LoadSparseModel(i)
  <2>1. KindStays("depth")
    BY <1>8, SameStays DEF LoadSparseModel
  <2>2. \E n : Continue(i, "manifest", n, Empty)
    BY <1>8 DEF LoadSparseModel
  <2>3. ~Fails
    BY <1>7, <2>2
  <2>4. Continue(i, "manifest", 1, Empty)
    BY <1>8, <2>3 DEF LoadSparseModel
  <2>5. InDepth(i)'
    BY <1>7, <2>4 DEF InDepth
  <2> QED BY <1>6, <2>1, <2>4, <2>5
<1>9. CASE ResumeManifest(i)
  <2>1. KindStays("depth") /\ UNCHANGED store /\ att[i].pc = "manifest"
    BY <1>9, SameStays DEF ResumeManifest, At
  <2>2. att[i].n = 1 /\ att[i].out = Empty
    BY <1>2, <2>1 DEF InDepth
  <2>3. \A f \in Good : ~(f < 1)
    BY <1>0 DEF Good
  <2>4. ASSUME NEW out, Continue(i, "frame", 1, out), Aligned(out) \subseteq Good,
               Has(<<"depth", 0>>) => Aligned(store[<<"depth", 0>>]) \subseteq Aligned(out)
        PROVE  DepthInv' /\ AlignedStay
    <3>1. att'[i].pc = "frame" /\ att'[i].n = 1 /\ att'[i].out = out
      BY <1>7, <2>4
    <3>2. Resumed(i)'
      BY <1>3, <2>1, <2>3, <2>4, <3>1 DEF Resumed, Has
    <3>3. InDepth(i)'
      BY <3>1, <3>2 DEF InDepth
    <3> QED BY <1>6, <2>1, <2>4, <3>3
  <2>5. CASE Found(<<"depth", 0>>) /\ Continue(i, "frame", att[i].n, store[<<"depth", 0>>])
    BY <1>2, <2>2, <2>4, <2>5 DEF Found, ManifestGood
  <2>6. CASE NotFound(<<"depth", 0>>) /\ Goto(i, "frame")
    <3>1. Continue(i, "frame", 1, Empty)
      BY <2>2, <2>6 DEF Goto
    <3>2. ~Has(<<"depth", 0>>)
      BY <1>7, <2>6, <3>1 DEF NotFound
    <3>3. Aligned(Empty) = {}
      BY DEF Aligned, Empty
    <3> QED BY <2>4, <3>1, <3>2, <3>3
  <2> QED BY <1>9, <2>5, <2>6 DEF ResumeManifest
\* the images
<1>10. ASSUME att[i].pc \in {"frame", "image", "checkpoint"} PROVE Resumed(i)
  BY <1>2, <1>10 DEF InDepth
<1>11. ASSUME NEW pc \in {"frame", "image", "checkpoint"}, NEW n, NEW out, Continue(i, pc, n, out),
              KindStays("depth"), Resumed(i)'
       PROVE  DepthInv' /\ AlignedStay
  <2>1. InDepth(i)'
    BY <1>7, <1>11 DEF InDepth
  <2> QED BY <1>6, <1>11, <2>1
<1> DEFINE m == att[i].n
           o == att[i].out
\* past an image
<1>12. ASSUME NEW out, DepthNext(i, out), Resumed(i), KindStays("depth"),
              Aligned(o) \subseteq Aligned(out), Aligned(out) \subseteq Good,
              m \in Good => m \in Aligned(out)
       PROVE  DepthInv' /\ AlignedStay
  <2>1. Continue(i, "frame", m + 1, out)
    BY <1>12 DEF DepthNext
  <2>2. att'[i].pc = "frame" /\ att'[i].n = m + 1 /\ att'[i].out = out
    BY <1>7, <2>1
  <2>3. /\ m \in Nat \ {0} /\ \A f \in Good : f < m => f \in Aligned(o)
        /\ Has(<<"depth", 0>>) => Aligned(store[<<"depth", 0>>]) \subseteq Aligned(o)
    BY <1>12 DEF Resumed
  <2>4. /\ Has(<<"depth", 0>>)' <=> Has(<<"depth", 0>>)
        /\ Has(<<"depth", 0>>) => store'[<<"depth", 0>>] = store[<<"depth", 0>>]
    BY <1>12 DEF KindStays
  <2>5. ASSUME NEW f \in Good, f < m + 1 PROVE f \in Aligned(out)
    <3>1. f \in Nat
      BY <1>0 DEF Good
    <3>2. f = m \/ f < m
      BY <2>3, <2>5, <3>1
    <3> QED BY <1>12, <2>3, <3>2
  <2>6. m + 1 \in Nat \ {0}
    BY <2>3
  <2>7. Resumed(i)'
    BY <1>3, <1>12, <2>2, <2>3, <2>4, <2>5, <2>6 DEF Resumed
  <2> QED BY <1>11, <1>12, <2>1, <2>7
<1>13. CASE CheckImage(i)
  <2>1. Resumed(i) /\ KindStays("depth") /\ m <= scene.frames /\ UNCHANGED store
    BY <1>10, <1>13, SameStays DEF CheckImage, At
  <2>2. CASE DepthNext(i, o) /\ m \in Aligned(o)
    BY <1>12, <2>1, <2>2 DEF Resumed
  <2>3. CASE Goto(i, "image") /\ (m \in Aligned(o) => NotFound(<<"exr", m>>))
    <3>1. Continue(i, "image", m, o)
      BY <2>3 DEF Goto
    <3>2. m \in Aligned(o) => Has(<<"exr", m>>)
      <4>1. Running(i) /\ att[i].pc # "begin"
        BY <1>13 DEF CheckImage, At
      <4> QED BY <4>1 DEF StoreInv, CompleteInv, Prepared, Has
    <3>3. m \notin Aligned(o)
      BY <1>7, <2>3, <3>1, <3>2 DEF NotFound
    <3>4. att'[i].pc = "image" /\ att'[i].n = m /\ att'[i].out = o
      BY <1>7, <3>1
    <3>5. Resumed(i)'
      BY <1>2, <1>3, <2>1, <3>3, <3>4 DEF Resumed, Has
    <3> QED BY <1>11, <2>1, <3>1, <3>5
  <2> QED BY <1>13, <2>2, <2>3 DEF CheckImage
<1>14. CASE LeaveUnaligned(i)
  <2> DEFINE out == With(o, m, "unaligned")
  <2>1. Resumed(i) /\ KindStays("depth") /\ m \notin Aligned(o)
    BY <1>10, <1>14, SameStays DEF LeaveUnaligned, At, Resumed
  <2>2. DepthNext(i, out) /\ Continue(i, "frame", m + 1, out)
    BY <1>14 DEF LeaveUnaligned, DepthNext
  <2>3. m \notin Good
    BY <1>7, <1>14, <2>2 DEF LeaveUnaligned, NotFound, Good
  <2>4. Aligned(out) = Aligned(o)
    BY <2>1 DEF Aligned, With
  <2> HIDE DEF out
  <2> QED BY <1>12, <2>1, <2>2, <2>3, <2>4 DEF Resumed
<1>15. CASE AlignImage(i)
  <2> DEFINE out == With(o, m, "aligned")
  <2>1. Resumed(i) /\ m <= scene.frames /\ m \in Nat \ {0}
    BY <1>10, <1>15 DEF AlignImage, At, Resumed
  <2>2. KindStays("depth")
    <3>1. <<"exr", m>>[1] # "depth"
      OBVIOUS
    <3> QED BY <1>15, <3>1, PutStays DEF AlignImage
  <2>3. m \in Good
    BY <1>0, <1>15, <2>1 DEF AlignImage, Found, Good
  <2>4. Aligned(out) = Aligned(o) \cup {m}
    BY DEF Aligned, With
  <2>5. DepthNext(i, out) \/ Continue(i, "checkpoint", m, out)
    BY <1>15 DEF AlignImage
  <2> HIDE DEF out
  <2>6. CASE DepthNext(i, out)
    BY <1>12, <2>1, <2>2, <2>3, <2>4, <2>6 DEF Resumed
  <2>7. CASE Continue(i, "checkpoint", m, out)
    <3>1. att'[i].pc = "checkpoint" /\ att'[i].n = m /\ att'[i].out = out
      BY <1>7, <2>7
    <3>2. /\ Has(<<"depth", 0>>)' <=> Has(<<"depth", 0>>)
          /\ Has(<<"depth", 0>>) => store'[<<"depth", 0>>] = store[<<"depth", 0>>]
      BY <2>2 DEF KindStays
    <3>3. Resumed(i)'
      BY <1>2, <1>3, <2>1, <2>3, <2>4, <3>1, <3>2 DEF Resumed
    <3> QED BY <1>11, <2>2, <2>7, <3>3
  <2> QED BY <2>5, <2>6, <2>7
\* the manifest is put
<1>16. ASSUME Resumed(i), Put(<<"depth", 0>>, o)
       PROVE  /\ AlignedStay /\ ManifestGood'
              /\ Has(<<"depth", 0>>)' /\ store'[<<"depth", 0>>] = o
              /\ AllGood => AllGood'
  <2>1. Has(<<"depth", 0>>)' /\ store'[<<"depth", 0>>] = o
    BY <1>16 DEF Put, With, Has
  <2>2. AlignedStay
    BY <1>16, <2>1 DEF Resumed
  <2>3. Aligned(o) \subseteq Good
    BY <1>16 DEF Resumed
  <2>4. AllGood => AllGood'
    <3> SUFFICES ASSUME AllGood PROVE Aligned(o) = Good
      BY <1>3, <2>1 DEF AllGood
    <3> QED BY <1>16, <2>3 DEF AllGood, Resumed
  <2> QED BY <1>3, <2>1, <2>2, <2>3, <2>4 DEF ManifestGood
<1>17. CASE PutManifest(i)
  <2>1. Resumed(i) /\ m \in Aligned(o) /\ m \in Nat \ {0}
    BY <1>10, <1>17 DEF PutManifest, At, Resumed
  <2>2. Put(<<"depth", 0>>, o) /\ Continue(i, "frame", m + 1, o)
    BY <1>17 DEF PutManifest, DepthNext
  <2>3. att'[i].pc = "frame" /\ att'[i].n = m + 1 /\ att'[i].out = o
        /\ att'[i].status = "running"
    BY <1>2, <1>7, <2>2, Continued DEF AtDepth, Running
  <2>4. AlignedStay /\ ManifestGood' /\ Has(<<"depth", 0>>)' /\ store'[<<"depth", 0>>] = o
        /\ (AllGood => AllGood')
    BY <1>16, <2>1, <2>2
  <2>5. Aligned(o) \subseteq Good /\ \A f \in Good : f < m => f \in Aligned(o)
    BY <2>1 DEF Resumed
  <2>6. ASSUME NEW f \in Good, f < m + 1 PROVE f \in Aligned(o)
    <3>1. f \in Nat
      BY <1>0 DEF Good
    <3>2. f = m \/ f < m
      BY <2>1, <2>6, <3>1
    <3> QED BY <2>1, <2>5, <3>2
  <2>7. m + 1 \in Nat \ {0}
    BY <2>1
  <2>8. Resumed(i)'
    BY <1>3, <2>3, <2>4, <2>5, <2>6, <2>7 DEF Resumed
  <2>9. InDepth(i)'
    BY <2>3, <2>8 DEF InDepth
  <2>10. \A j \in Attempts : Done(j, "depth")' => AllGood'
    BY <1>5, <2>3, <2>4 DEF Done
  <2> QED BY <1>4, <2>4, <2>9, <2>10 DEF DepthInv
<1>18. CASE DepthEnd(i)
  <2>1. Resumed(i) /\ m > scene.frames /\ m \in Nat \ {0}
    BY <1>10, <1>18 DEF DepthEnd, At, Resumed
  <2>2. Put(<<"depth", 0>>, o) /\ End(i, "done")
    BY <1>18 DEF DepthEnd
  <2>3. ~AtDepth(i)'
    BY <1>2, <2>2, Closed DEF AtDepth, Running
  <2>4. AlignedStay /\ ManifestGood' /\ Has(<<"depth", 0>>)' /\ store'[<<"depth", 0>>] = o
    BY <1>16, <2>1, <2>2
  <2>5. \A f \in Good : f < m
    BY <1>0, <2>1 DEF Good
  <2>6. Aligned(o) = Good
    BY <2>1, <2>5 DEF Resumed
  <2>7. AllGood'
    BY <1>3, <2>4, <2>6 DEF AllGood
  <2> QED BY <1>4, <2>3, <2>4, <2>7 DEF DepthInv
<1> QED BY <1>8, <1>9, <1>13, <1>14, <1>15, <1>17, <1>18, StageOfStep DEF Depth

LEMMA DepthInvStep ==
    ASSUME DepthInv, OrderInv, StoreInv, AttemptInv, [Next]_vars
    PROVE  /\ DepthInv'
           /\ (Alone' /\ Sighted' /\ Has(<<"depth", 0>>)) =>
                  Aligned(store[<<"depth", 0>>]) \subseteq Aligned(store'[<<"depth", 0>>])
<1>0. ASSUME KindStays("depth")
      PROVE  Has(<<"depth", 0>>) =>
                 Aligned(store[<<"depth", 0>>]) \subseteq Aligned(store'[<<"depth", 0>>])
  BY <1>0 DEF KindStays
<1>1. CASE UNCHANGED vars
  <2>1. KindStays("depth") /\ Good' = Good
    BY <1>1, SameStays, GoodStays DEF vars
  <2> QED BY <1>0, <1>1, <2>1, DepthInvKept DEF vars, AtDepth, Done, Running
<1>2. CASE Outer
  <2>1. UNCHANGED store /\ scene' = scene
    BY <1>2, OuterShape
  <2>2. KindStays("depth") /\ Good' = Good
    BY <2>1, SameStays, GoodStays
  <2>3. \A j \in Attempts : /\ AtDepth(j)' => att'[j].pc = "begin" \/ att'[j] = att[j]
                            /\ Done(j, "depth")' => att'[j] = att[j]
    BY <1>2, OuterAlone DEF AtDepth, Done, Running
  <2>4. \A j \in Attempts : /\ att'[j] = att[j] /\ AtDepth(j)' => AtDepth(j)
                            /\ att'[j] = att[j] /\ Done(j, "depth")' => Done(j, "depth")
    BY DEF AtDepth, Done, Running
  <2>5. \A j \in Attempts : AtDepth(j)' =>
            \/ att'[j].pc = "begin"
            \/ AtDepth(j) /\ Good' = Good /\ att'[j] = att[j]
    <3> SUFFICES ASSUME NEW j \in Attempts, AtDepth(j)'
                 PROVE  \/ att'[j].pc = "begin"
                        \/ AtDepth(j) /\ Good' = Good /\ att'[j] = att[j]
      OBVIOUS
    <3>1. att'[j].pc = "begin" \/ att'[j] = att[j]
      BY <2>3
    <3>2. att'[j] = att[j] => AtDepth(j)
      BY <2>4
    <3> QED BY <2>2, <3>1, <3>2
  <2>6. \A j \in Attempts : Done(j, "depth")' => Done(j, "depth") /\ Good' = Good
    BY <2>2, <2>3, <2>4 DEF AtDepth, Done, Running
  <2>7. DepthInv'
    BY <2>1, <2>2, <2>5, <2>6, DepthInvKept
  <2> QED BY <1>0, <2>2, <2>7
<1>3. ASSUME NEW i \in Attempts, Step(i), att[i].stage # "depth"
      PROVE  DepthInv' /\ KindStays("depth")
  <2>1. "depth" \notin KindsOf[att[i].stage]
    BY <1>3, StageOfStep DEF KindsOf, Stages
  <2>2. KindStays("depth") /\ scene' = scene
    BY <1>3, <2>1, KindKept, StepShape DEF Shape
  <2>3. (\A j \in Attempts : j # i => att'[j] = att[j]) /\ att'[i].stage = att[i].stage
    BY <1>3, StepFrame DEF AttemptInv
  <2>4. Good \subseteq Good' /\ (att[i].stage # "curation" => Good' = Good)
    <3>1. CASE att[i].stage # "curation"
      <4>1. "keyframe" \notin KindsOf[att[i].stage]
        BY <1>3, <3>1, StageOfStep DEF KindsOf, Stages
      <4> QED BY <1>3, <2>2, <4>1, KindKept, GoodStays
    <3>2. DOMAIN store \subseteq DOMAIN store'
      BY <1>3, StepPuts DEF PutsOf, Put, With
    <3> QED BY <2>2, <3>1, <3>2 DEF Good, Has
  <2>5. ASSUME NEW j \in Attempts, att[j].stage = "depth"
        PROVE  att[i].stage # "curation"
    <3> SUFFICES ASSUME att[i].stage = "curation" PROVE FALSE
      OBVIOUS
    <3>1. att[i].stage \in Stages /\ att[j].stage \in Stages
      BY <2>5 DEF Stages, KindsOf
    <3>2. att[i].status # "done"
      BY <1>3 DEF Step, Running
    <3>3. /\ ~Served /\ j < i /\ DirectStages[i] = "curation" /\ DirectStages[j] = "depth"
      BY <2>5, <3>1, <3>2, TwoStages
    <3>4. i \in 1 .. 9 /\ j \in 1 .. 9
      <4>1. i \in 1 .. last /\ j \in 1 .. last /\ last \in Nat /\ last <= 9
        BY <3>1, <3>3, Started, Bounds, DirectLength DEF AttemptInv, AttemptsCounted
      <4> QED BY <4>1
    <3>5. i = 1 /\ j = 5
      BY <3>3, <3>4 DEF DirectStages
    <3> QED BY <3>3, <3>5
  <2>6. \A j \in Attempts : /\ AtDepth(j)' => AtDepth(j) /\ att'[j] = att[j]
                            /\ Done(j, "depth")' => Done(j, "depth")
    BY <1>3, <2>3 DEF AtDepth, Done, Running
  <2>7. \A j \in Attempts : (AtDepth(j) \/ Done(j, "depth")) => Good' = Good
    BY <2>4, <2>5 DEF AtDepth, Done
  <2>8. \A j \in Attempts : AtDepth(j)' =>
            \/ att'[j].pc = "begin"
            \/ AtDepth(j) /\ Good' = Good /\ att'[j] = att[j]
    <3> SUFFICES ASSUME NEW j \in Attempts, AtDepth(j)'
                 PROVE  \/ att'[j].pc = "begin"
                        \/ AtDepth(j) /\ Good' = Good /\ att'[j] = att[j]
      OBVIOUS
    <3>1. AtDepth(j) /\ att'[j] = att[j]
      BY <2>6
    <3>2. Good' = Good
      BY <2>7, <3>1
    <3> QED BY <3>1, <3>2
  <2>9. \A j \in Attempts : Done(j, "depth")' => Done(j, "depth") /\ Good' = Good
    BY <2>6, <2>7 DEF AtDepth, Done, Running
  <2> QED BY <2>2, <2>4, <2>8, <2>9, DepthInvKept
<1>4. ASSUME NEW i \in Attempts, Step(i), att[i].stage = "depth"
      PROVE  /\ DepthInv'
             /\ (Alone' /\ Sighted' /\ Has(<<"depth", 0>>)) =>
                    Aligned(store[<<"depth", 0>>]) \subseteq Aligned(store'[<<"depth", 0>>])
  <2>1. CASE Alone' /\ Sighted'
    BY <1>4, <2>1, DepthInvDepth
  <2>2. CASE ~(Alone' /\ Sighted')
    BY <2>2 DEF DepthInv
  <2> QED BY <2>1, <2>2
<1> QED BY <1>0, <1>1, <1>2, <1>3, <1>4, NextCases

\* Between two calls of the depth stage, the manifest in memory and the stored one name
\* images that can be aligned, and the one in memory every such image the loop is past
\* (depth.py:43-104).
THEOREM DepthInvariant == Spec => []DepthInv
<1>1. DepthInv /\ OrderInv /\ StoreInv /\ AttemptInv /\ [Next]_vars => DepthInv'
  BY DepthInvStep
<1> QED BY <1>1, DepthInvInit, OrderInvariant, StoreInvariant, AttemptInvariant, PTL DEF Spec

\* A retry resumes from the manifest of the attempt before it (depth.py:43-60): what was
\* aligned stays aligned, unless attempts overlap or one could not read what was there.
THEOREM DepthKeptHolds == Spec => DepthKept
<1>1. DepthInv /\ OrderInv /\ StoreInv /\ AttemptInv /\ [Next]_vars =>
          [(Alone' /\ Sighted' /\ Has(<<"depth", 0>>)) =>
               Aligned(store[<<"depth", 0>>]) \subseteq Aligned(store'[<<"depth", 0>>])]_vars
  BY DepthInvStep
<1> QED BY <1>1, DepthInvariant, OrderInvariant, StoreInvariant, AttemptInvariant, PTL
        DEF Spec, DepthKept

\* However often it was resumed, a stage that completes has aligned exactly the images that
\* have a keyframe and enough points (depth.py:54-104).
THEOREM DepthCompletes == Spec => []DepthComplete
<1>1. DepthInv => DepthComplete
  BY DEF DepthInv, DepthComplete, AllGood, Good
<1> QED BY <1>1, DepthInvariant, PTL

-------------------------------------------------------------------------------
(* The files in the scratch directories.                                   *)

\* The file y of machine m stays as it is.
FileStays(m, y) ==
    /\ y \in DOMAIN disk'[m] <=> y \in DOMAIN disk[m]
    /\ y \in DOMAIN disk[m] => disk'[m][y] = disk[m][y]

\* The files that an attempt writes or removes, by the first part of their paths.
FilesOf(stage) ==
    CASE stage = "curation" -> "shot" [] stage = "depth" -> "model"
      [] stage = "sfm" -> "db" [] stage = "georef" -> "lod" [] OTHER -> "none"

LEMMA WriteStays ==
    ASSUME NEW i \in Attempts, NEW name, NEW n, NEW v, Write(i, name, n, v),
           NEW m \in Machines, NEW y, DOMAIN disk = Machines,
           m # att[i].on \/ y # Path(i, name, n)
    PROVE  FileStays(m, y)
BY DEF Write, With, FileStays

\* An attempt touches its own files on its own machine.
LEMMA StepFiles ==
    ASSUME AttemptInv, NEW i \in Attempts, Step(i), NEW m \in Machines, NEW y,
           m # att[i].on \/ y[1] # FilesOf(att[i].stage) \/ y[3] # att[i].run
    PROVE  FileStays(m, y)
<1>0. DOMAIN disk = Machines
  BY DEF AttemptInv, TypeOK
<1>1. UNCHANGED disk => FileStays(m, y)
  BY DEF FileStays
<1>2. ASSUME NEW n, NEW v, Write(i, FilesOf(att[i].stage), n, v)
      PROVE  FileStays(m, y)
  <2>1. /\ Path(i, FilesOf(att[i].stage), n)[1] = FilesOf(att[i].stage)
        /\ Path(i, FilesOf(att[i].stage), n)[3] = att[i].run
    BY DEF Path
  <2>2. m # att[i].on \/ y # Path(i, FilesOf(att[i].stage), n)
    BY <2>1
  <2> QED BY <1>0, <1>2, <2>2, WriteStays
<1>3. CASE att[i].stage = "curation"
  <2>1. Curation(i) /\ FilesOf(att[i].stage) = "shot"
    BY <1>3, StageOfStep DEF FilesOf
  <2>2. \A n : Path(i, "shot", n)[1] = "shot" /\ Path(i, "shot", n)[3] = att[i].run
    BY DEF Path
  <2>3. m # att[i].on \/ \A n : y # Path(i, "shot", n)
    BY <2>1, <2>2
  <2>4. CASE curate_segment_shard(i)
    BY <1>0, <2>3, <2>4 DEF curate_segment_shard, FileStays
  <2>5. CASE SelectKeyframes(i)
    <3> DEFINE gone == PathsOf(Candidates \ Kept) \cup PathsOf(Kept \ Selected)
    <3>1. disk' = [disk EXCEPT ![att[i].on] = Without(@, {Path(i, "shot", p) : p \in gone})]
      BY <2>5 DEF SelectKeyframes
    <3> HIDE DEF gone
    <3> QED BY <1>0, <2>3, <3>1 DEF Without, FileStays
  <2>6. CASE UploadKeyframe(i)
    <3>1. \/ UNCHANGED disk
          \/ \E p : disk' = [disk EXCEPT ![att[i].on] = Without(@, {Path(i, "shot", p)})]
      BY <2>6 DEF UploadKeyframe
    <3>2. ASSUME NEW p, disk' = [disk EXCEPT ![att[i].on] = Without(@, {Path(i, "shot", p)})]
          PROVE  FileStays(m, y)
      BY <1>0, <2>3, <3>2 DEF Without, FileStays
    <3> QED BY <1>1, <3>1, <3>2
  <2>7. CASE CurationBegin(i) \/ CurationEnd(i)
    BY <1>1, <2>7 DEF CurationBegin, CurationEnd
  <2> QED BY <2>1, <2>4, <2>5, <2>6, <2>7 DEF Curation
<1>4. CASE att[i].stage = "masking"
  BY <1>1, <1>4, StageOfStep DEF Masking, MaskingBegin, UploadMask, MaskingEnd
<1>5. CASE att[i].stage = "depth"
  <2>1. Depth(i) /\ FilesOf(att[i].stage) = "model"
    BY <1>5, StageOfStep DEF FilesOf
  <2>2. UNCHANGED disk \/ Write(i, "model", 0, "model")
    BY <2>1 DEF Depth, LoadSparseModel, ResumeManifest, CheckImage, LeaveUnaligned,
                AlignImage, PutManifest, DepthEnd
  <2> QED BY <1>1, <1>2, <2>1, <2>2
<1>6. CASE att[i].stage = "sfm"
  <2>1. Pose(i) /\ FilesOf(att[i].stage) = "db"
    BY <1>6, StageOfStep DEF FilesOf
  <2>2. UNCHANGED disk \/ \E v : Write(i, "db", 0, v)
    <3>1. CASE ParseWarmStart(i) \/ PutCamerasText(i) \/ PutImagesText(i) \/ PackAndUpload(i)
               \/ PutMarker(i) \/ CheckResult(i) \/ IncrementalMapping(i) \/ UploadModel(i)
               \/ PutCenters(i) \/ PutResult(i)
      BY <3>1 DEF ParseWarmStart, PutCamerasText, PutImagesText, PackAndUpload,
                  PutMarker, CheckResult, IncrementalMapping, UploadModel, PutCenters, PutResult
    <3>2. CASE BuildDatabase(i)
      BY <3>2 DEF BuildDatabase, Database
    <3>3. CASE RunMatching(i)
      BY <3>3 DEF RunMatching, Database
    <3>4. CASE OpenDatabase(i)
      BY <3>4 DEF OpenDatabase
    <3> QED BY <2>1, <3>1, <3>2, <3>3, <3>4 DEF Pose
  <2> QED BY <1>1, <1>2, <2>1, <2>2
<1>7. CASE att[i].stage = "train"
  BY <1>1, <1>7, StageOfStep
     DEF Dense3DGS, LoadCheckpoint, SkipTraining, Train, SaveCheckpoint, SaveLatest,
         TrainingEnd, UploadScene, UploadSplat, PutMetrics
<1>8. CASE att[i].stage = "mesh"
  BY <1>1, <1>8, StageOfStep DEF Meshing, Densify, Audit, CheckLods, BakeLod, MeshingEnd
<1>9. CASE att[i].stage = "georef"
  <2>1. Georef(i) /\ FilesOf(att[i].stage) = "lod"
    BY <1>9, StageOfStep DEF FilesOf
  <2>2. UNCHANGED disk \/ \E n, v : Write(i, "lod", n, v)
    BY <2>1 DEF Georef, GeorefScene, GetLod, PutLod, PutReport
  <2> QED BY <1>1, <1>2, <2>1, <2>2
<1>10. CASE att[i].stage \in {"products", "check"}
  <2>1. ProductGen(i) \/ CheckProducts(i)
    BY <1>10, StageOfStep
  <2>2. UNCHANGED disk
    BY <2>1 DEF ProductGen, CopyMesh, CopyTrajectory, CopyIfExists, FindReport, AssemblePoints,
                PutPoints, PutProduct, AssembleRaster, AssembleProvenance, ComputeChecksums,
                publish_products, ProductsEnd, CheckProducts
  <2> QED BY <1>1, <2>2
<1>11. att[i].stage \in {"curation", "masking", "depth", "sfm", "train", "mesh", "georef",
                         "products", "check"}
  BY StageOfStep DEF Stages, KindsOf
<1> QED BY <1>3, <1>4, <1>5, <1>6, <1>7, <1>8, <1>9, <1>10, <1>11

\* A machine that restarts may lose its files, and takes every attempt on it with it.
LEMMA OuterFiles ==
    ASSUME AttemptInv, Outer
    PROVE  /\ \A m \in Machines : \A y :
                  y \in DOMAIN disk'[m] => y \in DOMAIN disk[m] /\ disk'[m][y] = disk[m][y]
           /\ \A j \in Attempts : (Running(j) /\ att'[j].status = "running") =>
                  disk'[att[j].on] = disk[att[j].on]
<1>0. DOMAIN disk = Machines
  BY DEF AttemptInv, TypeOK
<1>1. ASSUME NEW m \in Machines, Crash(m)
      PROVE  /\ \A k \in Machines : \A y :
                  y \in DOMAIN disk'[k] => y \in DOMAIN disk[k] /\ disk'[k][y] = disk[k][y]
             /\ \A j \in Attempts : (Running(j) /\ att'[j].status = "running") =>
                    disk'[att[j].on] = disk[att[j].on]
  <2>1. disk' = disk \/ disk' = [disk EXCEPT ![m] = Empty]
    BY <1>1 DEF Crash
  <2>2. \A k \in Machines : disk'[k] = disk[k] \/ (k = m /\ disk'[k] = Empty)
    BY <1>0, <2>1
  <2>3. DOMAIN Empty = {}
    BY DEF Empty
  <2>4. ASSUME NEW j \in Attempts, Running(j), att'[j].status = "running"
        PROVE  att[j].on # m
    <3>1. j \in Busy(m) => att'[j].status = "lost"
      BY <1>1 DEF Crash, AttemptInv, AttemptsTyped, Fields
    <3> QED BY <2>4, <3>1 DEF Busy
  <2>5. \A j \in Attempts : Running(j) => att[j].on \in Machines
    <3>1. last \in Nat /\ \A j \in Attempts : j \in Nat
      BY Bounds DEF Attempts
    <3>2. \A j \in Attempts : j > last => att[j].status = "idle"
      BY IdleFields DEF AttemptInv
    <3>3. \A j \in Attempts : j <= last => att[j].on \in Machines
      BY DEF AttemptInv, TypeOK
    <3> QED BY <3>1, <3>2, <3>3 DEF Running
  <2> QED BY <2>2, <2>3, <2>4, <2>5
<1>2. UNCHANGED disk \/ \E m \in Machines : Crash(m)
  BY DEF Outer, Server, Environment, FirstAttempt, Retry, NextStage, Rerun, DirectStage,
         TimeOut, Launch, LoseAnswer, CallRaises
<1> QED BY <1>1, <1>2

-------------------------------------------------------------------------------
(* Machines.                                                               *)

\* An attempt knows which ones were at work when it was started.
RivalsKnown ==
    \A i, j \in Attempts : (Running(i) /\ Running(j) /\ i < j) => i \in att[j].rivals

LEMMA RivalsKnownStep ==
    ASSUME RivalsKnown, AttemptInv, [Next]_vars
    PROVE  RivalsKnown'
<1>1. ASSUME \A j \in Attempts : Running(j)' => Running(j) /\ att'[j].rivals = att[j].rivals
      PROVE  RivalsKnown'
  BY <1>1 DEF RivalsKnown
<1>2. CASE UNCHANGED vars
  BY <1>1, <1>2 DEF vars, Running
<1>3. ASSUME NEW i \in Attempts, Step(i)
      PROVE  RivalsKnown'
  <2>1. /\ \A j \in Attempts : j # i => att'[j] = att[j]
        /\ att'[i].rivals = att[i].rivals /\ Running(i)
    BY <1>3, StepFrame DEF AttemptInv, Step
  <2> QED BY <1>1, <2>1 DEF Running
<1>4. CASE Outer
  <2>1. ASSUME NEW i \in Attempts, NEW j \in Attempts, Running(i)', Running(j)', i < j
        PROVE  i \in att'[j].rivals
    <3>1. i \in Nat /\ j \in Nat /\ last \in Nat /\ ~(i > last /\ j = last + 1)
      <4>1. i \in Nat /\ j \in Nat /\ last \in Nat
        BY Bounds DEF Attempts
      <4> QED BY <2>1, <4>1
    <3>2. CASE att'[j] = att[j]
      <4>1. Running(j)
        BY <2>1, <3>2 DEF Running
      <4>2. j <= last
        BY <3>1, <4>1, IdleFields DEF AttemptInv, Running
      <4>3. i # last + 1
        BY <2>1, <3>1, <4>2
      <4>4. Running(i)
        BY <1>4, <2>1, <4>3, OuterAlone DEF Running
      <4> QED BY <2>1, <3>2, <4>1, <4>4 DEF RivalsKnown
    <3>3. CASE att'[j] # att[j]
      <4>1. j = last + 1 /\ att'[j].rivals = {k \in Attempts : Running(k)}
        BY <1>4, <2>1, <3>3, OuterFrame DEF AttemptInv, Running
      <4>2. i # last + 1
        BY <2>1, <3>1, <4>1
      <4>3. Running(i)
        BY <1>4, <2>1, <4>2, OuterAlone DEF Running
      <4> QED BY <4>1, <4>3
    <3> QED BY <3>2, <3>3
  <2> QED BY <2>1 DEF RivalsKnown
<1> QED BY <1>2, <1>3, <1>4, NextCases

\* Of two attempts at work the later one was started while the earlier one was at work: a
\* time-out is the only way to two attempts at a time.
THEOREM RivalsInvariant == Spec => []RivalsKnown
<1>1. Init => RivalsKnown
  BY InitResults DEF RivalsKnown
<1>2. RivalsKnown /\ AttemptInv /\ [Next]_vars => RivalsKnown'
  BY RivalsKnownStep
<1> QED BY <1>1, <1>2, AttemptInvariant, PTL DEF Spec

\* Two attempts at work are on two machines.
LEMMA OwnMachine ==
    ASSUME RivalsKnown, NoSharedMachine, NEW i \in Attempts, NEW j \in Attempts,
           Running(i), Running(j), att[i].on = att[j].on
    PROVE  i = j
<1>1. i \in Nat /\ j \in Nat
  BY ConstantsOK DEF ConstantsOK, Attempts, MaxAttempts
<1>2. i < j \/ j < i \/ i = j
  BY <1>1
<1> QED BY <1>2 DEF RivalsKnown, NoSharedMachine

\* Whoever was started is on a machine.
LEMMA OnMachine ==
    ASSUME AttemptInv, NEW i \in Attempts, att[i].stage \in Stages
    PROVE  att[i].on \in Machines
<1>1. i \in 1 .. last /\ last \in Nat
  BY Started, Bounds
<1> QED BY <1>1 DEF AttemptInv, TypeOK

-------------------------------------------------------------------------------
(* Masks.                                                                  *)

MaskStored(f, v) == Has(<<"mask", f>>) /\ store[<<"mask", f>>] = v

\* Between two uploads the masks show what the attempt would describe, and nothing does yet.
Masked(i) ==
    /\ ~Has(<<"masks", 0>>)
    /\ att[i].n \in Nat
    /\ \A f \in 0 .. att[i].n - 2 : MaskStored(f, att[i].out)

MaskInv ==
    (Alone /\ Sighted) =>
        /\ Has(<<"masks", 0>>) =>
               \A f \in DOMAIN store[<<"masks", 0>>] : MaskStored(f, store[<<"masks", 0>>][f])
        /\ \A i \in Attempts : At(i, "masking", "upload") => Masked(i)

LEMMA MaskInvInit ==
    ASSUME Init
    PROVE  MaskInv
<1>1. ~Has(<<"masks", 0>>)
  BY InitResults DEF Results
<1> QED BY <1>1, InitResults DEF MaskInv, At

\* Whoever is not at the masks leaves them alone.
LEMMA MaskInvKept ==
    ASSUME MaskInv, AttemptInv, [Next]_vars, KindStays("mask"), KindStays("masks"),
           \A i \in Attempts : At(i, "masking", "upload")' =>
               /\ At(i, "masking", "upload")
               /\ att'[i].n = att[i].n /\ att'[i].out = att[i].out
    PROVE  MaskInv'
<1> SUFFICES ASSUME Alone', Sighted'
             PROVE  /\ Has(<<"masks", 0>>)' =>
                           \A f \in DOMAIN store'[<<"masks", 0>>] :
                               MaskStored(f, store[<<"masks", 0>>][f])'
                    /\ \A i \in Attempts : At(i, "masking", "upload")' => Masked(i)'
  BY DEF MaskInv
<1>1. Alone /\ Sighted
  BY Before
<1>2. \A f, v : MaskStored(f, v) => (Has(<<"mask", f>>)' /\ store'[<<"mask", f>>] = v)
  BY DEF MaskStored, KindStays
<1>3. Has(<<"masks", 0>>)' <=> Has(<<"masks", 0>>)
  BY DEF KindStays
<1>4. ASSUME Has(<<"masks", 0>>)', NEW f \in DOMAIN store'[<<"masks", 0>>]
      PROVE  MaskStored(f, store[<<"masks", 0>>][f])'
  <2>1. store'[<<"masks", 0>>] = store[<<"masks", 0>>]
    BY <1>3, <1>4 DEF KindStays
  <2>2. MaskStored(f, store[<<"masks", 0>>][f])
    BY <1>1, <1>3, <1>4, <2>1 DEF MaskInv
  <2> QED BY <1>2, <2>1, <2>2 DEF MaskStored
<1>5. ASSUME NEW i \in Attempts, At(i, "masking", "upload")'
      PROVE  Masked(i)'
  <2>1. Masked(i) /\ att'[i].n = att[i].n /\ att'[i].out = att[i].out
    BY <1>1, <1>5 DEF MaskInv
  <2> QED BY <1>2, <1>3, <2>1 DEF Masked, MaskStored
<1> QED BY <1>4, <1>5

LEMMA MaskInvMasking ==
    ASSUME MaskInv, AttemptInv, [Next]_vars, NEW i \in Attempts, Step(i),
           att[i].stage = "masking"
    PROVE  MaskInv'
<1> SUFFICES ASSUME Alone', Sighted'
             PROVE  /\ Has(<<"masks", 0>>)' =>
                           \A f \in DOMAIN store'[<<"masks", 0>>] :
                               MaskStored(f, store[<<"masks", 0>>][f])'
                    /\ \A j \in Attempts : At(j, "masking", "upload")' => Masked(j)'
  BY DEF MaskInv
<1>0. scene.frames \in Nat
  BY ScenesOK DEF ScenesOK, AttemptInv, TypeOK
<1>1. Alone /\ Sighted
  BY Before
<1>2. /\ AttemptsTyped /\ \A j \in Attempts : j # i => att'[j] = att[j]
      /\ \A j \in Attempts : Running(j) => j = i
  BY <1>1, StepFrame, OnlyRunner DEF AttemptInv, Step
<1>3. \A j \in Attempts : At(j, "masking", "upload")' => j = i
  BY <1>2 DEF At, Running
<1>4. CASE MaskingBegin(i)
  <2>1. CASE End(i, "done")
    <3>1. ~At(i, "masking", "upload")'
      BY <1>2, <2>1, Closed DEF At, Running
    <3>2. UNCHANGED store
      BY <1>4 DEF MaskingBegin
    <3>3. MaskInv'
      BY <1>2, <1>3, <3>1, <3>2, MaskInvKept, SameStays
    <3> QED BY <3>3 DEF MaskInv
  <2>2. CASE NotFound(<<"masks", 0>>) /\ Continue(i, "upload", 1, Show(att[i].on \in scene.sam))
    <3> DEFINE out == Show(att[i].on \in scene.sam)
    <3> HIDE DEF out
    <3>1. att'[i].status = "running" /\ att'[i].n = 1
      BY <1>2, <2>2, Continued DEF out, Step, Running
    <3>2. faults' = faults
      BY <1>2, <3>1, SightedStep
    <3>3. faults \in Nat
      BY DEF AttemptInv
    <3>4. ~Has(<<"masks", 0>>)
      BY <2>2, <3>2, <3>3 DEF NotFound, Fails
    <3>5. UNCHANGED store
      BY <1>4 DEF MaskingBegin
    <3>6. Masked(i)'
      BY <3>1, <3>4, <3>5 DEF Masked, Has
    <3> QED BY <1>3, <3>4, <3>5, <3>6 DEF Has
  <2> QED BY <1>4, <2>1, <2>2 DEF MaskingBegin
<1>5. CASE UploadMask(i)
  <2> DEFINE m == att[i].n
             v == att[i].out
             k == <<"mask", m - 1>>
  <2>1. /\ Masked(i) /\ Put(k, v) /\ Continue(i, "upload", m + 1, v)
    BY <1>1, <1>5 DEF UploadMask, MaskInv
  <2>2. att'[i].n = m + 1 /\ att'[i].out = v
    BY <1>2, <2>1, Continued
  <2>3. /\ DOMAIN store' = DOMAIN store \cup {k} /\ store'[k] = v
        /\ \A y \in DOMAIN store : y # k => store'[y] = store[y]
    BY <2>1 DEF Put, With
  <2>4. ~Has(<<"masks", 0>>)'
    BY <2>1, <2>3 DEF Masked, Has
  <2>5. m \in Nat /\ \A f \in 0 .. m - 2 : MaskStored(f, v)
    BY <2>1 DEF Masked
  <2> HIDE DEF m, v
  <2>6. ASSUME NEW f \in 0 .. (m + 1) - 2
        PROVE  Has(<<"mask", f>>)' /\ store'[<<"mask", f>>] = v
    <3>1. CASE f = m - 1
      BY <2>3, <3>1 DEF Has
    <3>2. CASE f # m - 1
      <4>1. f \in 0 .. m - 2
        BY <2>5, <2>6, <3>2
      <4>2. MaskStored(f, v)
        BY <2>5, <4>1
      <4> QED BY <2>3, <3>2, <4>2 DEF MaskStored, Has
    <3> QED BY <3>1, <3>2
  <2>7. m + 1 \in Nat
    BY <2>5
  <2>8. Masked(i)'
    BY <2>2, <2>4, <2>6, <2>7 DEF Masked, MaskStored
  <2> QED BY <1>3, <2>4, <2>8
<1>6. CASE MaskingEnd(i)
  <2> DEFINE m == att[i].n
             v == att[i].out
             w == [f \in 0 .. scene.frames - 1 |-> v]
  <2>1. At(i, "masking", "upload") /\ m > scene.frames /\ Put(<<"masks", 0>>, w) /\ End(i, "done")
    BY <1>6 DEF MaskingEnd
  <2>2. Masked(i)
    BY <1>1, <2>1 DEF MaskInv
  <2>3. ~At(i, "masking", "upload")'
    BY <1>2, <2>1, Closed DEF At, Running
  <2>4. /\ store'[<<"masks", 0>>] = w
        /\ \A f : MaskStored(f, v) => Has(<<"mask", f>>)' /\ store'[<<"mask", f>>] = v
    BY <2>1 DEF Put, With, MaskStored, Has
  <2>5. m \in Nat /\ \A f \in 0 .. m - 2 : MaskStored(f, v)
    BY <2>2 DEF Masked
  <2> HIDE DEF m, v
  <2>6. \A f \in 0 .. scene.frames - 1 : w[f] = v /\ f \in 0 .. m - 2
    BY <1>0, <2>1, <2>5
  <2>7. DOMAIN w = 0 .. scene.frames - 1
    OBVIOUS
  <2> HIDE DEF w
  <2>8. \A f \in DOMAIN w : Has(<<"mask", f>>)' /\ store'[<<"mask", f>>] = w[f]
    BY <2>4, <2>5, <2>6, <2>7
  <2> QED BY <1>3, <2>3, <2>4, <2>8 DEF MaskStored
<1> QED BY <1>4, <1>5, <1>6, StageOfStep DEF Masking

LEMMA MaskInvStep ==
    ASSUME MaskInv, AttemptInv, [Next]_vars
    PROVE  MaskInv'
<1>1. CASE UNCHANGED vars
  BY <1>1, MaskInvKept, SameStays DEF vars, At, Running
<1>2. CASE Outer
  <2>1. UNCHANGED store
    BY <1>2, OuterShape
  <2>2. \A j \in Attempts : At(j, "masking", "upload")' => att'[j] = att[j]
    BY <1>2, OuterAlone DEF At, Running
  <2> QED BY <2>1, <2>2, MaskInvKept, SameStays DEF At, Running
<1>3. ASSUME NEW i \in Attempts, Step(i), att[i].stage # "masking"
      PROVE  MaskInv'
  <2>1. "mask" \notin KindsOf[att[i].stage] /\ "masks" \notin KindsOf[att[i].stage]
    BY <1>3, StageOfStep DEF KindsOf, Stages
  <2>2. KindStays("mask") /\ KindStays("masks")
    BY <1>3, <2>1, KindKept
  <2>3. (\A j \in Attempts : j # i => att'[j] = att[j]) /\ att'[i].stage = att[i].stage
    BY <1>3, StepFrame DEF AttemptInv
  <2> QED BY <1>3, <2>2, <2>3, MaskInvKept DEF At, Running
<1> QED BY <1>1, <1>2, <1>3, MaskInvMasking, NextCases

\* The manifest describes the masks it lists (masking.py:168-176), whichever of the hosts
\* with and without the models took turns, unless attempts overlap or one was told that
\* there is no manifest.
THEOREM MasksHold == Spec => []MasksMatch
<1>1. MaskInv /\ AttemptInv /\ [Next]_vars => MaskInv'
  BY MaskInvStep
<1>2. Spec => []MaskInv
  BY <1>1, MaskInvInit, AttemptInvariant, PTL DEF Spec
<1>3. MaskInv => MasksMatch
  BY DEF MaskInv, MasksMatch, MaskStored
<1> QED BY <1>2, <1>3, PTL

-------------------------------------------------------------------------------
(* Keyframes in order.                                                     *)

LEMMA SmallestNumber ==
    ASSUME NEW B, B \subseteq Nat, B # {}
    PROVE  \E m \in B : \A k \in B : m <= k
<1> DEFINE R == OpToRel(<, Nat)
<1>1. IsWellFoundedOn(R, Nat)
  BY NatLessThanWellFounded
<1>2. \A k, m \in Nat : k < m => <<k, m>> \in R
  BY DEF OpToRel
<1> HIDE DEF R
<1>3. PICK m \in B : \A k \in B : ~(<<k, m>> \in R)
  BY <1>1, WFMin
<1>4. ASSUME NEW k \in B PROVE m <= k
  <2>1. k \in Nat /\ m \in Nat
    OBVIOUS
  <2>2. ~(k < m)
    BY <1>2, <1>3, <2>1
  <2> QED BY <2>1, <2>2
<1> QED BY <1>4

LEMMA UpTo ==
    ASSUME NEW m \in Nat, NEW S, S \subseteq 1 .. m
    PROVE  IsFiniteSet(S)
<1>1. 1 \in Int /\ m \in Int
  OBVIOUS
<1>2. IsFiniteSet(1 .. m)
  BY <1>1, FS_Interval
<1>3. S \in SUBSET (1 .. m)
  OBVIOUS
<1> QED BY <1>2, <1>3, FS_Subset

\* The function q lists the elements of S in their order.
Lists(q, S) ==
    /\ q \in [1 .. Cardinality(S) -> S]
    /\ \A a, b \in 1 .. Cardinality(S) : a < b => q[a] < q[b]

\* Every set of numbers up to m can be listed in order.
LEMMA ListExists ==
    ASSUME NEW m \in Nat, NEW S, S \subseteq 1 .. m
    PROVE  \E q : Lists(q, S)
<1> DEFINE Unlisted == {k \in Nat : \E T \in SUBSET (1 .. k) : \A q : ~Lists(q, T)}
<1> SUFFICES ASSUME \A q : ~Lists(q, S) PROVE FALSE
  OBVIOUS
<1>1. m \in Unlisted
  OBVIOUS
<1>2. PICK k \in Unlisted : \A l \in Unlisted : k <= l
  <2>1. Unlisted \subseteq Nat /\ Unlisted # {}
    BY <1>1
  <2> HIDE DEF Unlisted
  <2> QED BY <2>1, SmallestNumber
<1>3. k \in Nat /\ \E T \in SUBSET (1 .. k) : \A q : ~Lists(q, T)
  OBVIOUS
<1>4. PICK T \in SUBSET (1 .. k) : \A q : ~Lists(q, T)
  BY <1>3
<1>5. IsFiniteSet(T)
  BY <1>3, <1>4, UpTo
<1>6. ASSUME k = 0 PROVE FALSE
  <2>1. T = {}
    BY <1>4, <1>6
  <2>2. Cardinality(T) = 0
    BY <2>1, FS_EmptySet
  <2>3. Lists([a \in {} |-> 0], T)
    BY <2>1, <2>2 DEF Lists
  <2> QED BY <1>4, <2>3
<1>7. ASSUME NEW U \in SUBSET (1 .. (k - 1)), k > 0
      PROVE  \E q : Lists(q, U)
  <2> SUFFICES ASSUME \A q : ~Lists(q, U) PROVE FALSE
    OBVIOUS
  <2>1. k - 1 \in Nat
    BY <1>3, <1>7
  <2>2. k - 1 \in Unlisted
    BY <1>7, <2>1
  <2>3. k <= k - 1
    BY <1>2, <2>2
  <2> QED BY <1>3, <2>3
<1>8. ASSUME k > 0, k \notin T PROVE FALSE
  <2>1. T \in SUBSET (1 .. (k - 1))
    BY <1>3, <1>4, <1>8
  <2> QED BY <1>4, <1>7, <1>8, <2>1
<1>9. ASSUME k > 0, k \in T PROVE FALSE
  <2> DEFINE U == T \ {k}
             c == Cardinality(U)
  <2>1. U \in SUBSET (1 .. (k - 1))
    BY <1>3, <1>4, <1>9
  <2>2. PICK q : Lists(q, U)
    BY <1>7, <1>9, <2>1
  <2>3. Cardinality(T) = c + 1 /\ c \in Nat
    <3>1. c = Cardinality(T) - 1 /\ IsFiniteSet(U)
      BY <1>5, <1>9, FS_RemoveElement
    <3>2. Cardinality(T) \in Nat /\ c \in Nat
      BY <1>5, <3>1, FS_CardinalityType
    <3> QED BY <3>1, <3>2
  <2> DEFINE r == [a \in 1 .. (c + 1) |-> IF a = c + 1 THEN k ELSE q[a]]
  <2>4. q \in [1 .. c -> U] /\ \A a, b \in 1 .. c : a < b => q[a] < q[b]
    BY <2>2 DEF Lists
  <2>5. \A u \in U : u \in T /\ u \in Nat /\ u < k
    BY <1>3, <2>1
  <2> HIDE DEF U, c
  <2>6. ASSUME NEW a \in 1 .. (c + 1)
        PROVE  r[a] \in T
    <3>1. a # c + 1 => a \in 1 .. c
      BY <2>3
    <3> QED BY <1>9, <2>4, <2>5, <3>1
  <2>7. ASSUME NEW a \in 1 .. (c + 1), NEW b \in 1 .. (c + 1), a < b
        PROVE  r[a] < r[b]
    <3>1. a \in 1 .. c /\ a # c + 1 /\ (b # c + 1 => b \in 1 .. c)
      BY <2>3, <2>7
    <3>2. r[a] = q[a] /\ q[a] \in U
      BY <2>4, <3>1
    <3>3. CASE b = c + 1
      <4>1. r[b] = k
        BY <3>3
      <4> QED BY <2>5, <3>2, <4>1
    <3>4. CASE b # c + 1
      <4>1. r[b] = q[b]
        BY <3>4
      <4> QED BY <2>4, <2>7, <3>1, <3>2, <3>4, <4>1
    <3> QED BY <3>3, <3>4
  <2>8. r \in [1 .. (c + 1) -> T]
    BY <2>6
  <2> HIDE DEF r
  <2>9. Lists(r, T)
    BY <2>3, <2>7, <2>8 DEF Lists
  <2> QED BY <1>4, <2>9
<1> QED BY <1>3, <1>6, <1>8, <1>9

Distinct == \A f, g \in Candidates : shotPath(f) = shotPath(g) => f = g

Order == InOrder(Selected)
Length == Cardinality(Selected)

LEMMA ShotsFinite ==
    ASSUME scene \in Scenes
    PROVE  Len(scene.video) \in Nat /\ IsFiniteSet(Candidates)
<1>1. Len(scene.video) \in Nat
  BY ScenesOK, LenProperties DEF ScenesOK
<1>2. Candidates \subseteq 1 .. Len(scene.video)
  BY DEF Candidates, Shots
<1> QED BY <1>1, <1>2, UpTo

\* As many paths as frames: no two frames share one.
LEMMA DistinctPaths ==
    ASSUME scene \in Scenes, Cardinality(PathsOf(Candidates)) = Cardinality(Candidates)
    PROVE  Distinct
<1> DEFINE S == Candidates
           T == PathsOf(Candidates)
           path == [f \in S |-> shotPath(f)]
<1>1. IsFiniteSet(S)
  BY ShotsFinite
<1>2. path \in Surjection(S, T)
  BY DEF Surjection, PathsOf
<1>3. path \in Injection(S, T)
  <2> HIDE DEF path, S, T
  <2>1. Cardinality(S) = Cardinality(T)
    BY DEF S, T
  <2> QED BY <1>1, <1>2, <2>1, FS_SurjSameCardinalityImpliesInj
<1>4. \A f, g \in S : path[f] = path[g] => f = g
  BY <1>3 DEF Injection, IsInjective
<1> QED BY <1>4 DEF Distinct

\* The order of the selected frames lists each of them once.
LEMMA OrderLists ==
    ASSUME scene \in Scenes
    PROVE  /\ Length \in Nat
           /\ \A j \in 1 .. Length : Order[j] \in Selected /\ Order[j] \in Candidates
           /\ \A j, k \in 1 .. Length : j # k => Order[j] # Order[k]
           /\ DOMAIN Order = 1 .. Length /\ Order \in Seq(Selected)
<1>1. Len(scene.video) \in Nat /\ Selected \subseteq 1 .. Len(scene.video)
  BY ShotsFinite DEF Selected, Kept, Shots
<1>2. PICK q : Lists(q, Selected)
  BY <1>1, ListExists
<1>3. Length \in Nat
  <2>1. IsFiniteSet(Selected)
    BY <1>1, UpTo
  <2> QED BY <2>1, FS_CardinalityType DEF Length
<1>4. Lists(Order, Selected)
  BY <1>2 DEF Lists, Order, InOrder
<1>5. /\ Order \in [1 .. Length -> Selected]
      /\ \A a, b \in 1 .. Length : a < b => Order[a] < Order[b]
  BY <1>4 DEF Lists, Length
<1>6. Selected \subseteq Candidates
  BY DEF Selected, Kept, Candidates
<1>7. \A j, k \in 1 .. Length : j # k => Order[j] # Order[k]
  <2> SUFFICES ASSUME NEW j \in 1 .. Length, NEW k \in 1 .. Length, j # k
               PROVE  Order[j] # Order[k]
    OBVIOUS
  <2>1. j < k \/ k < j
    BY <1>3
  <2>2. Order[j] \in Nat /\ Order[k] \in Nat
    <3>1. Order[j] \in Selected /\ Order[k] \in Selected
      BY <1>5
    <3>2. \A f \in Selected : f \in Nat
      BY <1>1
    <3> QED BY <3>1, <3>2
  <2> QED BY <1>5, <2>1, <2>2
<1>8. Order \in Seq(Selected)
  BY <1>3, <1>5, SeqDef
<1> QED BY <1>3, <1>5, <1>6, <1>7, <1>8

\* The file of frame f shows it.
Shot(i, f) == OnDisk(i, "shot", shotPath(f)) /\ Read(i, "shot", shotPath(f)) = f

\* The j-th keyframe object is the j-th of the selected frames.
Written(j) == Has(<<"keyframe", j - 1>>) /\ store[<<"keyframe", j - 1>>] = Order[j]

StoredList ==
    Has(<<"keyframes", 0>>) =>
        \A j \in DOMAIN store[<<"keyframes", 0>>] :
            j \in 1 .. Length /\ store[<<"keyframes", 0>>][j] = Order[j] /\ Written(j)

\* Of the selected frames the first n are uploaded, and the files of the others are there.
Uploading(i) ==
    /\ att[i].n \in 0 .. Length
    /\ att[i].out.todo \in Seq(Selected) /\ Len(att[i].out.todo) = Length - att[i].n
    /\ \A j \in 1 .. Length - att[i].n : att[i].out.todo[j] = Order[att[i].n + j]
    /\ att[i].out.kept \in Seq(Selected) /\ Len(att[i].out.kept) = att[i].n
    /\ \A j \in 1 .. att[i].n : att[i].out.kept[j] = Order[j] /\ Written(j)
    /\ \A j \in att[i].n + 1 .. Length : Shot(i, Order[j])

Curating(i) ==
    /\ At(i, "curation", "select") => \A f \in Candidates : Shot(i, f)
    /\ At(i, "curation", "upload") => Uploading(i)

KeysInv ==
    (NoSharedMachine /\ Distinct) => StoredList /\ \A i \in Attempts : Curating(i)

LEMMA KeysInvInit ==
    ASSUME Init
    PROVE  KeysInv
<1>1. ~Has(<<"keyframes", 0>>)
  BY InitResults DEF Results
<1> QED BY <1>1, InitResults DEF KeysInv, StoredList, Curating, At

LEMMA SameScene ==
    ASSUME UNCHANGED scene
    PROVE  /\ Candidates' = Candidates /\ Kept' = Kept /\ Selected' = Selected
           /\ Order' = Order /\ Length' = Length
           /\ \A f : shotPath(f)' = shotPath(f)
           /\ Distinct' <=> Distinct
<1>1. Candidates' = Candidates /\ Kept' = Kept /\ Chosen' = Chosen
  BY DEF Candidates, Kept, Chosen, Shots, verdict
<1>2. \A f : shotPath(f)' = shotPath(f)
  BY DEF shotPath
<1>3. PathsOf(Chosen)' = PathsOf(Chosen)
  BY <1>1, <1>2 DEF PathsOf
<1>4. Selected' = Selected
  BY <1>1, <1>2, <1>3 DEF Selected
<1>5. Order' = Order /\ Length' = Length
  BY <1>4 DEF Order, Length
<1> QED BY <1>1, <1>2, <1>4, <1>5 DEF Distinct

LEMMA SceneStays == ASSUME [Next]_vars PROVE UNCHANGED scene
<1>1. ASSUME NEW i \in Attempts, Step(i) PROVE UNCHANGED scene
  BY <1>1, StepShape DEF Shape
<1> QED BY <1>1, OuterShape, NextCases DEF vars

\* An attempt that goes on where it is, with its files.
LEMMA CuratingKept ==
    ASSUME UNCHANGED scene, NEW i \in Attempts, Curating(i),
           At(i, "curation", "select")' \/ At(i, "curation", "upload")' => att'[i] = att[i],
           \A f : Shot(i, f) => Shot(i, f)',
           \A j \in 1 .. Length : Written(j) => Written(j)',
           Length \in Nat
    PROVE  Curating(i)'
<1>1. ASSUME At(i, "curation", "select")'
      PROVE  \A f \in Candidates' : Shot(i, f)'
  <2>1. At(i, "curation", "select")
    BY <1>1 DEF At, Running
  <2> QED BY <2>1, SameScene DEF Curating
<1>2. ASSUME At(i, "curation", "upload")'
      PROVE  Uploading(i)'
  <2>1. At(i, "curation", "upload") /\ att'[i] = att[i]
    BY <1>2 DEF At, Running
  <2>2. Uploading(i)
    BY <2>1 DEF Curating
  <2>3. Length' = Length /\ Order' = Order /\ Selected' = Selected
    BY SameScene
  <2>4. \A j \in 1 .. att[i].n : j \in 1 .. Length
    BY <2>2 DEF Uploading
  <2>5. \A j \in 1 .. att[i].n : att[i].out.kept[j] = Order[j] /\ Written(j)'
    BY <2>2, <2>4 DEF Uploading
  <2>6. \A j \in att[i].n + 1 .. Length : Shot(i, Order[j])'
    <3>1. \A f : Shot(i, f) => Shot(i, f)'
      OBVIOUS
    <3>2. \A j \in att[i].n + 1 .. Length : Shot(i, Order[j])
      BY <2>2 DEF Uploading
    <3> QED BY <2>3, <3>1, <3>2
  <2> QED BY <2>1, <2>2, <2>3, <2>5, <2>6 DEF Uploading
<1> QED BY <1>1, <1>2 DEF Curating

\* Whoever curates elsewhere, or does something else, keeps his files.
LEMMA OtherShots ==
    ASSUME AttemptInv, RivalsKnown, NoSharedMachine, NEW i \in Attempts, Step(i),
           NEW k \in Attempts, att[k].stage = "curation", Running(k),
           k # i \/ att[i].stage # "curation"
    PROVE  \A f : Shot(k, f) => Shot(k, f)'
<1>1. att'[k].on = att[k].on /\ att'[k].run = att[k].run /\ UNCHANGED scene /\ Running(i)
  BY StepFrame, StepShape DEF AttemptInv, Shape, Step
<1>2. att[k].on \in Machines
  BY OnMachine DEF Stages, KindsOf
<1>3. att[k].on # att[i].on \/ FilesOf(att[i].stage) # "shot"
  <2>1. CASE att[i].stage = "curation"
    BY <1>1, <2>1, OwnMachine
  <2>2. CASE att[i].stage # "curation"
    BY <2>2 DEF FilesOf
  <2> QED BY <2>1, <2>2
<1>4. \A p : Path(k, "shot", p)[1] = "shot" /\ Path(k, "shot", p)' = Path(k, "shot", p)
  BY <1>1 DEF Path
<1>5. \A p : FileStays(att[k].on, Path(k, "shot", p))
  BY <1>2, <1>3, <1>4, StepFiles
<1>6. \A p : /\ OnDisk(k, "shot", p) => OnDisk(k, "shot", p)'
             /\ OnDisk(k, "shot", p) => Read(k, "shot", p)' = Read(k, "shot", p)
  BY <1>1, <1>4, <1>5 DEF FileStays, OnDisk, Read
<1> QED BY <1>1, <1>6, SameScene DEF Shot

\* Only the upload of a frame changes a keyframe object.
LEMMA WrittenStays ==
    ASSUME UNCHANGED scene, KindStays("keyframe")
    PROVE  \A j : Written(j) => Written(j)'
BY SameScene DEF KindStays, Written

LEMMA StoredListStays ==
    ASSUME UNCHANGED scene, KindStays("keyframes"), StoredList,
           \A j \in 1 .. Length : Written(j) => Written(j)'
    PROVE  StoredList'
<1> SUFFICES ASSUME Has(<<"keyframes", 0>>)', NEW j \in DOMAIN store'[<<"keyframes", 0>>]
             PROVE  j \in 1 .. Length' /\ store'[<<"keyframes", 0>>][j] = Order'[j] /\ Written(j)'
  BY DEF StoredList
<1>1. Has(<<"keyframes", 0>>) /\ store'[<<"keyframes", 0>>] = store[<<"keyframes", 0>>]
  BY DEF KindStays
<1> QED BY <1>1, SameScene DEF StoredList

\* The calls that decode and select.
LEMMA KeysDecode ==
    ASSUME AttemptsTyped, Distinct, NEW i \in Attempts, curate_segment_shard(i), Running(i),
           att[i].on \in Machines, DOMAIN disk = Machines
    PROVE  Curating(i)'
<1> DEFINE m == att[i].on
<1>1. /\ att'[i].pc = "select" /\ att'[i].on = m /\ att'[i].run = att[i].run /\ UNCHANGED scene
  BY Continued DEF curate_segment_shard, Goto, Keep
<1>2. PICK picture \in [PathsOf(Candidates) -> Candidates] :
           /\ \A p \in PathsOf(Candidates) : shotPath(picture[p]) = p
           /\ disk' = [disk EXCEPT ![m] =
                  [y \in DOMAIN @ \cup {Path(i, "shot", p) : p \in PathsOf(Candidates)} |->
                      IF \E p \in PathsOf(Candidates) : y = Path(i, "shot", p)
                      THEN picture[y[2]] ELSE @[y]]]
  BY DEF curate_segment_shard
<1>3. \A p \in PathsOf(Candidates) :
           /\ Path(i, "shot", p) \in DOMAIN disk'[m]
           /\ disk'[m][Path(i, "shot", p)] = picture[p]
  <2>1. \A p : Path(i, "shot", p)[2] = p
    BY DEF Path
  <2> QED BY <1>2, <2>1
<1>4. ASSUME NEW f \in Candidates
      PROVE  Shot(i, f)'
  <2> DEFINE p == shotPath(f)
  <2>1. p \in PathsOf(Candidates)
    BY DEF PathsOf
  <2>2. picture[p] \in Candidates /\ shotPath(picture[p]) = shotPath(f)
    BY <1>2, <2>1
  <2>3. picture[p] = f
    BY <2>2 DEF Distinct
  <2> DEFINE y == Path(i, "shot", p)
  <2>4. y = Path(i, "shot", shotPath(f))'
    BY <1>1, SameScene DEF Path
  <2>5. y \in DOMAIN disk'[m] /\ disk'[m][y] = f
    BY <1>3, <2>1, <2>3
  <2> HIDE DEF p, y
  <2> QED BY <1>1, <2>4, <2>5 DEF Shot, OnDisk, Read
<1>5. Candidates' = Candidates
  BY <1>1, SameScene
<1> QED BY <1>1, <1>4, <1>5 DEF Curating, At

LEMMA KeysSelect ==
    ASSUME AttemptsTyped, Distinct, NEW i \in Attempts, SelectKeyframes(i), Running(i),
           att[i].on \in Machines, DOMAIN disk = Machines, Curating(i), scene \in Scenes
    PROVE  Curating(i)'
<1> DEFINE m == att[i].on
           gone == PathsOf(Candidates \ Kept) \cup PathsOf(Kept \ Selected)
<1>1. /\ att'[i].pc = "upload" /\ att'[i].on = m /\ att'[i].run = att[i].run /\ UNCHANGED scene
      /\ att'[i].n = 0 /\ att'[i].out = [todo |-> Order, kept |-> <<>>]
  BY Continued DEF SelectKeyframes, Keep, Order
<1>2. disk' = [disk EXCEPT ![m] = Without(@, {Path(i, "shot", p) : p \in gone})]
  BY DEF SelectKeyframes
<1>3. \A f \in Candidates : Shot(i, f)
  BY DEF SelectKeyframes, Curating
<1>4. \A f \in Selected : f \in Candidates /\ shotPath(f) \notin gone
  <2>1. Selected \subseteq Kept /\ Kept \subseteq Candidates
    BY DEF Selected, Kept, Candidates
  <2> QED BY <2>1 DEF PathsOf, Distinct
<1> HIDE DEF gone
<1>5. ASSUME NEW f \in Selected
      PROVE  Shot(i, f)'
  <2> DEFINE y == Path(i, "shot", shotPath(f))
  <2>1. y \in DOMAIN disk[m] /\ disk[m][y] = f
    BY <1>3, <1>4, <1>5 DEF Shot, OnDisk, Read
  <2>2. y \notin {Path(i, "shot", p) : p \in gone}
    BY <1>4, <1>5 DEF Path
  <2>3. shotPath(f)' = shotPath(f) /\ y = Path(i, "shot", shotPath(f))'
    BY <1>1, SameScene DEF Path
  <2> HIDE DEF y
  <2>4. y \in DOMAIN disk'[m] /\ disk'[m][y] = f
    BY <1>2, <2>1, <2>2 DEF Without
  <2> QED BY <1>1, <2>3, <2>4 DEF Shot, OnDisk, Read
<1>6. /\ Length \in Nat /\ Order \in Seq(Selected) /\ Len(Order) = Length
      /\ \A j \in 1 .. Length : Order[j] \in Selected
  <2>1. /\ Length \in Nat /\ Order \in Seq(Selected) /\ DOMAIN Order = 1 .. Length
        /\ \A j \in 1 .. Length : Order[j] \in Selected
    BY OrderLists
  <2>2. Len(Order) = Length
    BY <2>1, LenProperties
  <2> QED BY <2>1, <2>2
<1>7. Length' = Length /\ Order' = Order /\ Selected' = Selected
  BY <1>1, SameScene
<1>8. <<>> \in Seq(Selected) /\ Len(<<>>) = 0
  OBVIOUS
<1>9. Uploading(i)'
  <2>1. att'[i].out.todo = Order /\ att'[i].out.kept = <<>>
    BY <1>1
  <2>2. \A j \in 1 .. Length : Shot(i, Order[j])'
    <3>1. \A f \in Selected : Shot(i, f)'
      BY <1>5
    <3> QED BY <1>6, <1>7, <3>1
  <2> QED BY <1>1, <1>6, <1>7, <1>8, <2>1, <2>2 DEF Uploading
<1> QED BY <1>1, <1>9 DEF Curating, At

\* One frame is uploaded, or dropped when its file is gone, which does not happen here.
LEMMA KeysUpload ==
    ASSUME AttemptsTyped, Distinct, NEW i \in Attempts, UploadKeyframe(i), Running(i),
           att[i].on \in Machines, DOMAIN disk = Machines, Curating(i), scene \in Scenes
    PROVE  /\ Curating(i)'
           /\ \A j \in 1 .. Length : Written(j) => Written(j)'
           /\ KindStays("keyframes")
<1> DEFINE m == att[i].on
           n == att[i].n
           f == Head(att[i].out.todo)
           p == shotPath(f)
           y == Path(i, "shot", p)
           rest == Tail(att[i].out.todo)
           kept == Append(att[i].out.kept, f)
<1>0. /\ Length \in Nat
      /\ \A j \in 1 .. Length : Order[j] \in Selected /\ Order[j] \in Candidates
      /\ \A j, k \in 1 .. Length : j # k => Order[j] # Order[k]
  BY OrderLists
<1>1. Uploading(i) /\ att[i].out.todo # <<>> /\ UNCHANGED scene
  BY DEF UploadKeyframe, Curating, Keep
<1>2. /\ n \in Nat /\ n + 1 \in 1 .. Length
      /\ f = Order[n + 1] /\ f \in Selected
      /\ rest \in Seq(Selected) /\ Len(rest) = Length - (n + 1)
      /\ \A j \in 1 .. Length - (n + 1) : rest[j] = Order[(n + 1) + j]
  <2> DEFINE todo == att[i].out.todo
  <2>1. /\ todo \in Seq(Selected) /\ todo # <<>> /\ Len(todo) = Length - n /\ n \in 0 .. Length
        /\ \A j \in 1 .. Length - n : todo[j] = Order[n + j]
    BY <1>1 DEF Uploading
  <2> HIDE DEF todo, n
  <2>2. Len(todo) > 0
    BY <2>1
  <2>3. n \in Nat /\ n + 1 \in 1 .. Length
    BY <1>0, <2>1, <2>2
  <2>4. f = todo[1] /\ todo[1] \in Selected
    BY <2>1, <2>2 DEF todo
  <2>5. 1 \in 1 .. Length - n
    BY <1>0, <2>3
  <2>6. todo[1] = Order[n + 1]
    BY <2>1, <2>5
  <2>7. /\ rest \in Seq(Selected) /\ Len(rest) = Len(todo) - 1
        /\ \A j \in 1 .. Len(todo) - 1 : rest[j] = todo[j + 1]
    BY <2>1, <2>2, HeadTailProperties DEF todo
  <2> HIDE DEF rest
  <2>8. Len(rest) = Length - (n + 1) /\ Len(todo) - 1 = Length - (n + 1)
    BY <1>0, <2>1, <2>3, <2>7
  <2>9. ASSUME NEW j \in 1 .. Length - (n + 1)
        PROVE  rest[j] = Order[(n + 1) + j]
    <3>1. j + 1 \in 1 .. Length - n /\ n + (j + 1) = (n + 1) + j
      BY <1>0, <2>3
    <3> QED BY <2>1, <2>7, <2>8, <3>1
  <2> QED BY <2>3, <2>4, <2>6, <2>7, <2>8, <2>9
<1>3. Shot(i, f)
  <2>1. n + 1 \in n + 1 .. Length
    BY <1>0, <1>2
  <2> QED BY <1>1, <1>2, <2>1 DEF Uploading
<1>4. /\ Put(<<"keyframe", n>>, f)
      /\ disk' = [disk EXCEPT ![m] = Without(@, {y})]
      /\ Continue(i, "upload", n + 1, [todo |-> rest, kept |-> kept])
  <2>1. OnDisk(i, "shot", p) /\ Read(i, "shot", p) = f
    BY <1>3 DEF Shot
  <2> QED BY <2>1 DEF UploadKeyframe
<1>5. /\ att'[i].pc = "upload" /\ att'[i].on = m /\ att'[i].run = att[i].run
      /\ att'[i].n = n + 1 /\ att'[i].out.todo = rest /\ att'[i].out.kept = kept
  <2> DEFINE out == [todo |-> rest, kept |-> kept]
  <2>1. Continue(i, "upload", n + 1, out)
    BY <1>4
  <2>2. out.todo = rest /\ out.kept = kept
    OBVIOUS
  <2> HIDE DEF out
  <2>3. att'[i].out = out /\ att'[i].pc = "upload" /\ att'[i].on = m /\ att'[i].run = att[i].run
        /\ att'[i].n = n + 1
    BY <2>1, Continued
  <2> QED BY <2>2, <2>3
<1>6. Length' = Length /\ Order' = Order /\ Selected' = Selected
  BY <1>1, SameScene
<1>7. KindStays("keyframes")
  <2>1. <<"keyframe", n>>[1] # "keyframes"
    OBVIOUS
  <2> QED BY <1>4, <2>1, PutStays
<1>8. ASSUME NEW j \in 1 .. Length, j = n + 1 \/ Written(j)
      PROVE  Written(j)'
  <2>1. CASE j = n + 1
    <3>1. <<"keyframe", j - 1>> = <<"keyframe", n>>
      BY <1>2, <2>1
    <3>2. Has(<<"keyframe", j - 1>>)' /\ store'[<<"keyframe", j - 1>>] = f
      BY <1>4, <3>1 DEF Put, With, Has
    <3> QED BY <1>2, <1>6, <2>1, <3>2 DEF Written
  <2>2. CASE j # n + 1
    <3>1. <<"keyframe", j - 1>> # <<"keyframe", n>>
      <4>1. j - 1 # n
        BY <1>0, <1>2, <2>2
      <4> QED BY <4>1
    <3>2. Has(<<"keyframe", j - 1>>)' /\ store'[<<"keyframe", j - 1>>] = store[<<"keyframe", j - 1>>]
      BY <1>4, <1>8, <2>2, <3>1 DEF Put, With, Has, Written
    <3> QED BY <1>6, <1>8, <2>2, <3>2 DEF Written
  <2> QED BY <2>1, <2>2
<1>9. ASSUME NEW j \in (n + 1) + 1 .. Length
      PROVE  Shot(i, Order[j])'
  <2> DEFINE g == Order[j]
             z == Path(i, "shot", shotPath(g))
  <2>1. j \in n + 1 .. Length /\ j \in 1 .. Length /\ j # n + 1
    BY <1>0, <1>2
  <2>2. Shot(i, g)
    BY <1>1, <2>1 DEF Uploading
  <2>3. g # f /\ g \in Candidates /\ f \in Candidates
    BY <1>0, <1>2, <2>1
  <2>4. shotPath(g) # p
    BY <2>3 DEF Distinct
  <2>5. z # y
    BY <2>4 DEF Path
  <2>6. z \in DOMAIN disk[m] /\ disk[m][z] = g
    BY <2>2 DEF Shot, OnDisk, Read
  <2>7. z = Path(i, "shot", shotPath(g))' /\ g = Order'[j]
    BY <1>1, <1>5, <1>6, SameScene DEF Path
  <2> HIDE DEF z, y
  <2>8. z \in DOMAIN disk'[m] /\ disk'[m][z] = g
    BY <1>4, <2>5, <2>6 DEF Without
  <2> QED BY <1>5, <2>7, <2>8 DEF Shot, OnDisk, Read
<1>10. /\ kept \in Seq(Selected) /\ Len(kept) = n + 1
       /\ \A j \in 1 .. n + 1 : kept[j] = Order[j]
  <2> DEFINE old == att[i].out.kept
  <2>1. old \in Seq(Selected) /\ Len(old) = n /\ \A j \in 1 .. n : old[j] = Order[j]
    BY <1>1 DEF Uploading
  <2>2. kept = Append(old, f)
    OBVIOUS
  <2>3. n \in Nat /\ f \in Selected /\ f = Order[n + 1]
    BY <1>2
  <2> HIDE DEF old, kept, n, f
  <2>4. kept \in Seq(Selected) /\ Len(kept) = n + 1 /\ kept[n + 1] = f
        /\ \A j \in 1 .. n : kept[j] = old[j]
    BY <2>1, <2>2, <2>3, AppendProperties
  <2>5. \A j \in 1 .. n + 1 : j = n + 1 \/ j \in 1 .. n
    BY <2>3
  <2> QED BY <2>1, <2>3, <2>4, <2>5
<1>11. \A j \in 1 .. n + 1 : Written(j)'
  <2>1. ASSUME NEW j \in 1 .. n + 1 PROVE Written(j)'
    <3>1. j \in 1 .. Length /\ (j = n + 1 \/ j \in 1 .. n)
      BY <1>0, <1>2
    <3>2. j \in 1 .. n => Written(j)
      BY <1>1 DEF Uploading
    <3> QED BY <1>8, <3>1, <3>2
  <2> QED BY <2>1
<1>12. n + 1 \in 0 .. Length
  BY <1>0, <1>2
<1> HIDE DEF n, f, p, y, rest, kept
<1>13. Uploading(i)'
  BY <1>2, <1>5, <1>6, <1>9, <1>10, <1>11, <1>12 DEF Uploading
<1> QED BY <1>5, <1>7, <1>8, <1>13 DEF Curating, At

\* The manifest lists what was uploaded.
LEMMA KeysEnd ==
    ASSUME AttemptsTyped, NEW i \in Attempts, CurationEnd(i), Running(i), Curating(i),
           scene \in Scenes, StoredList
    PROVE  StoredList' /\ KindStays("keyframe") /\ ~Running(i)'
<1> DEFINE kept == att[i].out.kept
<1>1. Uploading(i) /\ att[i].out.todo = <<>> /\ UNCHANGED scene
  BY DEF CurationEnd, Curating, Keep
<1>2. CASE Put(<<"keyframes", 0>>, kept) /\ End(i, "done")
  <2>1. <<"keyframes", 0>>[1] # "keyframe"
    OBVIOUS
  <2>2. KindStays("keyframe")
    BY <1>2, <2>1, PutStays
  <2>3. \A j : Written(j) => Written(j)'
    BY <1>1, <2>2, WrittenStays
  <2>4. \A j \in DOMAIN kept : j \in 1 .. Length /\ kept[j] = Order[j] /\ Written(j)
    <3>1. /\ kept \in Seq(Selected) /\ Len(kept) = att[i].n /\ att[i].n \in 0 .. Length
          /\ \A j \in 1 .. att[i].n : kept[j] = Order[j] /\ Written(j)
      BY <1>1 DEF Uploading
    <3>2. DOMAIN kept = 1 .. att[i].n
      BY <3>1, LenProperties
    <3>3. Length \in Nat
      BY OrderLists
    <3> HIDE DEF kept
    <3>4. \A j \in 1 .. att[i].n : j \in 1 .. Length
      BY <3>1, <3>3
    <3> QED BY <3>1, <3>2, <3>4
  <2>5. store'[<<"keyframes", 0>>] = kept
    BY <1>2 DEF Put, With
  <2>6. Length' = Length /\ Order' = Order
    BY <1>1, SameScene
  <2> HIDE DEF kept
  <2>7. StoredList'
    BY <2>3, <2>4, <2>5, <2>6 DEF StoredList
  <2>8. ~Running(i)'
    BY <1>2, Closed DEF Running
  <2> QED BY <2>2, <2>7, <2>8
<1>3. CASE End(i, "failed") /\ UNCHANGED store
  <2>1. KindStays("keyframe") /\ KindStays("keyframes")
    BY <1>3, SameStays
  <2>2. \A j : Written(j) => Written(j)'
    BY <1>1, <2>1, WrittenStays
  <2>3. ~Running(i)'
    BY <1>3, Closed DEF Running
  <2> QED BY <1>1, <2>1, <2>2, <2>3, StoredListStays
<1> QED BY <1>2, <1>3 DEF CurationEnd

\* A step of the stage: what it does to its own attempt and to the objects.
LEMMA KeysCuration ==
    ASSUME AttemptInv, Distinct, NEW i \in Attempts, Step(i), att[i].stage = "curation",
           Curating(i), StoredList
    PROVE  Curating(i)' /\ StoredList' /\ \A j \in 1 .. Length : Written(j) => Written(j)'
<1>1. /\ AttemptsTyped /\ Running(i) /\ Curation(i) /\ scene \in Scenes /\ UNCHANGED scene
      /\ att[i].on \in Machines /\ DOMAIN disk = Machines
  BY StageOfStep, StepShape, OnMachine DEF AttemptInv, TypeOK, Step, Stages, KindsOf, Shape
<1>2. CASE UNCHANGED store
  <2>1. KindStays("keyframe") /\ KindStays("keyframes")
    BY <1>2, SameStays
  <2>2. \A j : Written(j) => Written(j)'
    BY <1>1, <2>1, WrittenStays
  <2>3. StoredList'
    BY <1>1, <2>1, <2>2, StoredListStays
  <2>4. Curating(i)'
    <3>1. CASE CurationBegin(i)
      <4>1. End(i, "done") \/ End(i, "failed") \/ Goto(i, "decode")
        BY <3>1 DEF CurationBegin
      <4>2. ~Running(i)' \/ att'[i].pc = "decode"
        BY <1>1, <4>1, Closed, Continued DEF Running, Goto
      <4> QED BY <4>2 DEF Curating, At
    <3>2. CASE curate_segment_shard(i)
      BY <1>1, <3>2, KeysDecode
    <3>3. CASE SelectKeyframes(i)
      BY <1>1, <3>3, KeysSelect
    <3>4. CASE UploadKeyframe(i)
      BY <1>1, <3>4, KeysUpload
    <3>5. CASE CurationEnd(i)
      <4>1. ~Running(i)'
        BY <1>1, <3>5, KeysEnd
      <4> QED BY <4>1 DEF Curating, At
    <3> QED BY <1>1, <3>1, <3>2, <3>3, <3>4, <3>5 DEF Curation
  <2> QED BY <2>2, <2>3, <2>4
<1>3. CASE UploadKeyframe(i)
  <2>1. /\ Curating(i)' /\ KindStays("keyframes")
        /\ \A j \in 1 .. Length : Written(j) => Written(j)'
    BY <1>1, <1>3, KeysUpload
  <2> QED BY <1>1, <2>1, StoredListStays
<1>4. CASE CurationEnd(i)
  <2>1. StoredList' /\ KindStays("keyframe") /\ ~Running(i)'
    BY <1>1, <1>4, KeysEnd
  <2> QED BY <1>1, <2>1, WrittenStays DEF Curating, At
<1> QED BY <1>1, <1>2, <1>3, <1>4
        DEF Curation, CurationBegin, curate_segment_shard, SelectKeyframes

LEMMA KeysInvStep ==
    ASSUME KeysInv, RivalsKnown, AttemptInv, [Next]_vars
    PROVE  KeysInv'
<1> SUFFICES ASSUME NoSharedMachine', Distinct'
             PROVE  StoredList' /\ \A k \in Attempts : Curating(k)'
  BY DEF KeysInv
<1>1. /\ UNCHANGED scene /\ NoSharedMachine /\ Distinct
      /\ StoredList /\ \A k \in Attempts : Curating(k)
  BY SceneStays, SameScene, Before DEF KeysInv
<1>2. Length \in Nat
  BY OrderLists DEF AttemptInv, TypeOK
<1>3. CASE UNCHANGED <<store, disk, att>>
  <2>1. KindStays("keyframe") /\ KindStays("keyframes")
    BY <1>3, SameStays
  <2>2. \A j : Written(j) => Written(j)'
    BY <1>1, <2>1, WrittenStays
  <2>3. StoredList'
    BY <1>1, <2>1, <2>2, StoredListStays
  <2>4. ASSUME NEW k \in Attempts PROVE Curating(k)'
    <3>1. \A f : Shot(k, f) => Shot(k, f)'
      BY <1>1, <1>3, SameScene DEF Shot, OnDisk, Read, Path
    <3> QED BY <1>1, <1>2, <1>3, <2>2, <3>1, CuratingKept
  <2> QED BY <2>3, <2>4
<1>4. CASE Outer
  <2>1. UNCHANGED store
    BY <1>4, OuterShape
  <2>2. KindStays("keyframe") /\ KindStays("keyframes")
    BY <2>1, SameStays
  <2>3. \A j : Written(j) => Written(j)'
    BY <1>1, <2>2, WrittenStays
  <2>4. StoredList'
    BY <1>1, <2>2, <2>3, StoredListStays
  <2>5. ASSUME NEW k \in Attempts PROVE Curating(k)'
    <3>1. CASE Running(k)' /\ att'[k] = att[k]
      <4>1. disk'[att[k].on] = disk[att[k].on]
        BY <1>4, <3>1, OuterFiles DEF Running
      <4>2. \A f : Shot(k, f) => Shot(k, f)'
        BY <1>1, <3>1, <4>1, SameScene DEF Shot, OnDisk, Read, Path
      <4> QED BY <1>1, <1>2, <2>3, <3>1, <4>2, CuratingKept
    <3>2. CASE ~(Running(k)' /\ att'[k] = att[k])
      <4>1. ~Running(k)' \/ att'[k].pc = "begin"
        BY <1>4, <3>2, OuterAlone DEF Running
      <4> QED BY <4>1 DEF Curating, At
    <3> QED BY <3>1, <3>2
  <2> QED BY <2>4, <2>5
<1>5. ASSUME NEW i \in Attempts, Step(i)
      PROVE  StoredList' /\ \A k \in Attempts : Curating(k)'
  <2>1. /\ \A j \in Attempts : j # i => att'[j] = att[j]
        /\ att'[i].stage = att[i].stage
    BY <1>5, StepFrame DEF AttemptInv
  <2>2. /\ StoredList' /\ \A j \in 1 .. Length : Written(j) => Written(j)'
        /\ att[i].stage = "curation" => Curating(i)'
    <3>1. CASE att[i].stage = "curation"
      BY <1>1, <1>5, <3>1, KeysCuration
    <3>2. CASE att[i].stage # "curation"
      <4>1. "keyframe" \notin KindsOf[att[i].stage] /\ "keyframes" \notin KindsOf[att[i].stage]
        BY <1>5, <3>2, StageOfStep DEF KindsOf, Stages
      <4>2. KindStays("keyframe") /\ KindStays("keyframes")
        BY <1>5, <4>1, KindKept
      <4>3. \A j : Written(j) => Written(j)'
        BY <1>1, <4>2, WrittenStays
      <4> QED BY <1>1, <3>2, <4>2, <4>3, StoredListStays
    <3> QED BY <3>1, <3>2
  <2>3. ASSUME NEW k \in Attempts PROVE Curating(k)'
    <3>1. CASE k = i
      BY <2>1, <2>2, <3>1 DEF Curating, At
    <3>2. CASE k # i /\ Running(k) /\ att[k].stage = "curation"
      <4>1. \A f : Shot(k, f) => Shot(k, f)'
        BY <1>1, <1>5, <3>2, OtherShots
      <4>2. att'[k] = att[k]
        BY <2>1, <3>2
      <4> QED BY <1>1, <1>2, <2>2, <4>1, <4>2, CuratingKept
    <3>3. CASE k # i /\ ~(Running(k) /\ att[k].stage = "curation")
      BY <2>1, <3>3 DEF Curating, At, Running
    <3> QED BY <3>1, <3>2, <3>3
  <2> QED BY <2>2, <2>3
<1> QED BY <1>3, <1>4, <1>5, NextCases DEF vars

\* With one picture per path and no two attempts on one machine, every keyframe object is
\* the picture the manifest lists under its number (curation.py:404-446), however many
\* attempts were cut short, and whatever footage, floor and number of machines.
THEOREM KeyframesHold == Spec => []KeyframesMatch
<1>1. KeysInv /\ RivalsKnown /\ AttemptInv /\ [Next]_vars => KeysInv'
  BY KeysInvStep
<1>2. Spec => []KeysInv
  BY <1>1, KeysInvInit, RivalsInvariant, AttemptInvariant, PTL DEF Spec
<1>3. KeysInv /\ AttemptInv => KeyframesMatch
  <2> SUFFICES ASSUME KeysInv, AttemptInv, Has(<<"keyframes", 0>>), NoSharedMachine,
                      Cardinality(PathsOf(Candidates)) = Cardinality(Candidates),
                      NEW j \in DOMAIN store[<<"keyframes", 0>>]
               PROVE  /\ Has(<<"keyframe", j - 1>>)
                      /\ store[<<"keyframe", j - 1>>] = store[<<"keyframes", 0>>][j]
    BY DEF KeyframesMatch
  <2>1. Distinct
    BY DistinctPaths DEF AttemptInv, TypeOK
  <2> QED BY <2>1 DEF KeysInv, StoredList, Written
<1> QED BY <1>2, <1>3, AttemptInvariant, PTL

===============================================================================
