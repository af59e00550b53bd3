------------------------- MODULE SceneResults_proofs --------------------------
(***************************************************************************)
(* What pose estimation, training, meshing, georeferencing and product     *)
(* generation leave in the object store and in the catalog, whatever is cut*)
(* short, for every scene and any number of machines, attempts, runs and   *)
(* faults.                                                                 *)
(***************************************************************************)
EXTENDS VideoResults_proofs

-------------------------------------------------------------------------------
(* The warm start.                                                         *)

\* The attempt that stored the manifest of the priors is between it and the second text.
InWarmStart(i, h) ==
    att[i].stage = "sfm" /\ att[i].n = h /\ att[i].pc \in {"cameras", "images"}

\* The first text is stored before the second.
WarmInv ==
    /\ WarmStartComplete
    /\ \A i \in Attempts : \A h \in {0, 1} :
           (InWarmStart(i, h) /\ att[i].pc = "images") => Has(<<"cameras", h>>)

LEMMA WarmInvInit ==
    ASSUME Init
    PROVE  WarmInv
BY InitResults DEF WarmInv, WarmStartComplete, InWarmStart, Results, Stages, KindsOf

\* Whoever is not in the warm start leaves it alone.
LEMMA WarmInvKept ==
    ASSUME WarmInv,
           \A s \in {"priors", "cameras", "images"}, h \in {0, 1} :
               Has(<<s, h>>)' <=> Has(<<s, h>>),
           \A i \in Attempts, h \in {0, 1} :
               /\ InWarmStart(i, h) => InWarmStart(i, h)'
               /\ InWarmStart(i, h)' /\ att'[i].pc = "images" => InWarmStart(i, h) /\ att[i].pc = "images"
    PROVE  WarmInv'
BY DEF WarmInv, WarmStartComplete, InWarmStart

LEMMA WarmInvPose ==
    ASSUME WarmInv, AttemptsTyped, NEW i \in Attempts, Step(i), att[i].stage = "sfm"
    PROVE  WarmInv'
<1>0. Pose(i)
  BY StageOfStep
<1>1. /\ \A j \in Attempts : j # i => att'[j] = att[j]
      /\ att'[i].stage = "sfm"
  BY StepFrame
<1> DEFINE NoneAppears == \A s \in {"priors", "cameras", "images"}, h \in {0, 1} :
                              Has(<<s, h>>)' <=> Has(<<s, h>>)
\* a call before or after the warm start
<1>2. ASSUME NoneAppears, att[i].pc \notin {"cameras", "images"},
             att'[i].pc \notin {"cameras", "images"}
      PROVE  WarmInv'
  BY <1>1, <1>2 DEF WarmInv, WarmStartComplete, InWarmStart
<1>3. CASE ParseWarmStart(i)
  <2>1. ASSUME NEW h, KeepPriors(i, h) PROVE WarmInv'
    <3>1. att'[i].pc = "features" /\ NoneAppears
      BY <2>1, Continued DEF KeepPriors, Has
    <3>2. att[i].pc = "begin"
      BY <1>3 DEF ParseWarmStart, InPose, At
    <3> QED BY <1>2, <3>1, <3>2
  <2>2. ASSUME NEW h \in {0, 1}, PutPriors(i, h) PROVE WarmInv'
    <3>1. att'[i].pc = "cameras" /\ att'[i].n = h
      BY <2>2, Continued DEF PutPriors
    <3>2. att[i].pc = "begin"
      BY <1>3 DEF ParseWarmStart, InPose, At
    <3>3. DOMAIN store' = DOMAIN store \cup {<<"priors", h>>}
      BY <2>2 DEF PutPriors, Put, With
    <3> QED BY <1>1, <3>1, <3>2, <3>3 DEF WarmInv, WarmStartComplete, InWarmStart, Has
  <2> QED BY <1>3, <2>1, <2>2 DEF ParseWarmStart
<1>4. CASE PutCamerasText(i)
  <2>1. att[i].pc = "cameras" /\ att'[i].pc = "images" /\ att'[i].n = att[i].n
    BY <1>4, Continued DEF PutCamerasText, InPose, At, Goto
  <2>2. DOMAIN store' = DOMAIN store \cup {<<"cameras", att[i].n>>}
    BY <1>4 DEF PutCamerasText, Put, With
  <2> QED BY <1>1, <2>1, <2>2 DEF WarmInv, WarmStartComplete, InWarmStart, Has
<1>5. CASE PutImagesText(i)
  <2>1. att[i].pc = "images" /\ att'[i].pc = "features" /\ att'[i].n = att[i].n
    BY <1>5, Continued DEF PutImagesText, InPose, At, Goto
  <2>2. DOMAIN store' = DOMAIN store \cup {<<"images", att[i].n>>}
    BY <1>5 DEF PutImagesText, Put, With
  <2> QED BY <1>1, <2>1, <2>2 DEF WarmInv, WarmStartComplete, InWarmStart, Has
<1>6. CASE BuildDatabase(i) \/ RunMatching(i) \/ OpenDatabase(i) \/ CheckResult(i)
           \/ IncrementalMapping(i) \/ PackAndUpload(i) \/ PutMarker(i) \/ UploadModel(i)
           \/ PutCenters(i) \/ PutResult(i)
  <2>1. att[i].pc \notin {"cameras", "images"}
    BY <1>6 DEF InPose, At, BuildDatabase, RunMatching, OpenDatabase, CheckResult,
                IncrementalMapping, PackAndUpload, PutMarker, UploadModel, PutCenters, PutResult
  <2>2. \/ \E s : End(i, s)
        \/ \E pc, n, out : pc \notin {"cameras", "images"} /\ Continue(i, pc, n, out)
    BY <1>6 DEF Goto, BuildDatabase, RunMatching, OpenDatabase, CheckResult,
                IncrementalMapping, PackAndUpload, PutMarker, UploadModel, PutCenters, PutResult
  <2>3. att'[i].pc \notin {"cameras", "images"}
    BY <2>1, <2>2, Continued, Closed
  <2>4. \/ UNCHANGED store
        \/ \E s, n, v : s \notin {"priors", "cameras", "images"} /\ Put(<<s, n>>, v)
    BY <1>6 DEF BuildDatabase, RunMatching, OpenDatabase, CheckResult,
                IncrementalMapping, PackAndUpload, PutMarker, UploadModel, PutCenters, PutResult
  <2>5. NoneAppears
    BY <2>4 DEF Put, With, Has
  <2> QED BY <1>2, <2>1, <2>3, <2>5
<1> QED BY <1>0, <1>3, <1>4, <1>5, <1>6 DEF Pose

LEMMA WarmInvStep ==
    ASSUME WarmInv, AttemptInv, [Next]_vars
    PROVE  WarmInv'
<1>1. CASE UNCHANGED vars
  BY <1>1 DEF vars, WarmInv, WarmStartComplete, InWarmStart, Has
<1>2. CASE Outer
  <2>1. UNCHANGED store
    BY <1>2, OuterShape
  <2>2. ASSUME NEW j \in Attempts, NEW h \in {0, 1}
        PROVE  /\ InWarmStart(j, h) => InWarmStart(j, h)' /\ att'[j].pc = att[j].pc
               /\ (InWarmStart(j, h)' /\ att'[j].pc = "images") =>
                      InWarmStart(j, h) /\ att[j].pc = "images"
    BY <1>2, OuterFrame, OuterKeeps DEF InWarmStart, AttemptInv, Stages, KindsOf
  <2> QED BY <2>1, <2>2, WarmInvKept DEF Has
<1>3. ASSUME NEW i \in Attempts, Step(i), att[i].stage # "sfm"
      PROVE  WarmInv'
  <2>1. \A s \in {"priors", "cameras", "images"} : s \notin KindsOf[att[i].stage]
    BY <1>3, StageOfStep DEF KindsOf, Stages
  <2>2. \A s \in {"priors", "cameras", "images"}, h \in {0, 1} :
            Has(<<s, h>>)' <=> Has(<<s, h>>)
    BY <1>3, <2>1, KindKept DEF KindStays
  <2>3. (\A j \in Attempts : j # i => att'[j] = att[j]) /\ att'[i].stage = att[i].stage
    BY <1>3, StepFrame DEF AttemptInv
  <2> QED BY <1>3, <2>2, <2>3, WarmInvKept DEF InWarmStart
<1> QED BY <1>1, <1>2, <1>3, WarmInvPose, NextCases DEF AttemptInv

\* The renderings of the warm start are missing only while the attempt that stored its
\* manifest is between the two, or because it ended there (vio_parse.py:207-217), with any
\* number of attempts at the same time.
THEOREM WarmStartHolds == Spec => []WarmStartComplete
<1>1. WarmInv /\ AttemptInv /\ [Next]_vars => WarmInv'
  BY WarmInvStep
<1>2. Spec => []WarmInv
  BY <1>1, WarmInvInit, AttemptInvariant, PTL DEF Spec
<1>3. WarmInv => WarmStartComplete
  BY DEF WarmInv
<1> QED BY <1>2, <1>3, PTL

-------------------------------------------------------------------------------
(* Training.                                                               *)

Latest == store[<<"latest", 0>>]
Trains(i) == Running(i) /\ att[i].stage = "train" /\ att[i].pc # "begin"
StuckAt(i) == att[i].stage = "train" /\ att[i].status = "failed"

\* A training is past the step that latest.json names; it was entered from the start or
\* behind a step that latest.json has named.
Entered(i) ==
    /\ att[i].n \in Nat /\ att[i].out.from \in Nat
    /\ att[i].out.from > 0 => Has(<<"latest", 0>>)
    /\ (Alone /\ Sighted /\ Has(<<"latest", 0>>)) =>
           Latest < att[i].n /\ att[i].out.from <= Latest + 1

NothingLeft ==
    Has(<<"latest", 0>>) /\ ((Alone /\ Sighted) => Latest + 1 >= scene.total)

TrainInv ==
    /\ Has(<<"latest", 0>>) => Latest \in Nat
    /\ \A i \in Attempts : Trains(i) => Entered(i)
    /\ \A i \in Attempts : StuckAt(i) => NothingLeft

LEMMA TrainInvInit ==
    ASSUME Init
    PROVE  TrainInv
<1>1. Has(<<"latest", 0>>) => Latest \in Nat
  <2> SUFFICES ASSUME Has(<<"latest", 0>>) PROVE Latest \in Nat
    OBVIOUS
  <2>1. <<"latest", 0>> \in DOMAIN scene.stored /\ scene \in Scenes /\ store = scene.stored
    BY DEF Init, Has
  <2>2. <<"latest", 0>>[1] = "latest"
    OBVIOUS
  <2> QED BY <2>1, <2>2, ScenesOK DEF ScenesOK, Latest
<1> QED BY <1>1, InitResults DEF TrainInv, Trains, StuckAt

\* One attempt moves, and latest.json moves on or stays.
LEMMA TrainInvMoves ==
    ASSUME TrainInv, AttemptInv, [Next]_vars, scene' = scene,
           Has(<<"latest", 0>>)' => Latest' \in Nat,
           Has(<<"latest", 0>>) => Has(<<"latest", 0>>)' /\ Latest' >= Latest,
           \A j \in Attempts :
               Trains(j)' => \/ Entered(j)'
                             \/ Trains(j) /\ KindStays("latest")
                                /\ att'[j].n = att[j].n /\ att'[j].out = att[j].out,
           \A j \in Attempts : StuckAt(j)' => StuckAt(j) \/ NothingLeft'
    PROVE  TrainInv'
<1>1. (Alone' /\ Sighted') => (Alone /\ Sighted)
  BY Before
<1>2. ASSUME NEW j \in Attempts, Trains(j), KindStays("latest"),
             att'[j].n = att[j].n, att'[j].out = att[j].out
      PROVE  Entered(j)'
  <2>1. Entered(j)
    BY <1>2 DEF TrainInv
  <2>2. Has(<<"latest", 0>>)' <=> Has(<<"latest", 0>>)
    BY <1>2 DEF KindStays
  <2>3. Has(<<"latest", 0>>) => Latest' = Latest
    BY <1>2 DEF KindStays, Latest
  <2> QED BY <1>1, <1>2, <2>1, <2>2, <2>3 DEF Entered
<1>3. NothingLeft => NothingLeft'
  <2> SUFFICES ASSUME NothingLeft PROVE NothingLeft'
    OBVIOUS
  <2>1. Has(<<"latest", 0>>)' /\ Latest' \in Nat /\ Latest \in Nat /\ Latest' >= Latest
    BY DEF NothingLeft, TrainInv
  <2>2. scene.total \in Nat
    BY ScenesOK DEF ScenesOK, AttemptInv, TypeOK
  <2>3. (Alone' /\ Sighted') => Latest + 1 >= scene.total
    BY <1>1 DEF NothingLeft
  <2>4. (Alone' /\ Sighted') => Latest' + 1 >= scene.total
    BY <2>1, <2>2, <2>3
  <2> QED BY <2>1, <2>4 DEF NothingLeft
<1>4. \A j \in Attempts : StuckAt(j)' => NothingLeft'
  BY <1>3 DEF TrainInv
<1>5. \A j \in Attempts : Trains(j)' => Entered(j)'
  BY <1>2
<1> QED BY <1>4, <1>5 DEF TrainInv

LEMMA TrainInvTraining ==
    ASSUME TrainInv, StoreInv, AttemptInv, [Next]_vars, NEW i \in Attempts, Step(i),
           att[i].stage = "train"
    PROVE  /\ TrainInv'
           /\ (Alone' /\ Sighted' /\ Has(<<"latest", 0>>)) => Latest' >= Latest
<1> DEFINE Advances == (Alone' /\ Sighted' /\ Has(<<"latest", 0>>)) => Latest' >= Latest
<1>1. /\ AttemptsTyped /\ \A j \in Attempts : j # i => att'[j] = att[j]
      /\ att'[i].stage = "train" /\ att[i].status = "running"
      /\ scene' = scene
  BY StepFrame, StepShape DEF AttemptInv, Shape
<1>2. (Alone' /\ Sighted') => (Alone /\ Sighted)
  BY Before
<1>3. Has(<<"latest", 0>>) => Latest \in Nat
  BY DEF TrainInv
<1>4. ASSUME NEW j \in Attempts, j # i
      PROVE  /\ Trains(j)' => /\ Trains(j)
                              /\ att'[j].n = att[j].n /\ att'[j].out = att[j].out
             /\ StuckAt(j)' => StuckAt(j)
  BY <1>1, <1>4 DEF Trains, StuckAt, Running
\* a step that leaves latest.json alone
<1>5. ASSUME KindStays("latest"), Trains(i)' => Entered(i)', StuckAt(i)' => NothingLeft'
      PROVE  TrainInv' /\ Advances
  <2>1. /\ Has(<<"latest", 0>>)' <=> Has(<<"latest", 0>>)
        /\ Has(<<"latest", 0>>) => Latest' = Latest
    BY <1>5 DEF KindStays, Latest
  <2>2. Has(<<"latest", 0>>) => Latest' >= Latest
    BY <1>3, <2>1
  <2> QED BY <1>1, <1>3, <1>4, <1>5, <2>1, <2>2, TrainInvMoves
\* one that goes on where it was, or a step further
<1>6. ASSUME KindStays("latest"), att[i].pc # "begin",
             NEW pc, NEW n, Continue(i, pc, n, att[i].out), n \in {att[i].n, att[i].n + 1}
      PROVE  TrainInv' /\ Advances
  <2>1. Trains(i) /\ Entered(i)
    BY <1>1, <1>6 DEF Trains, Running, TrainInv
  <2>2. att'[i].n = n /\ att'[i].out = att[i].out /\ att'[i].status = "running"
    BY <1>1, <1>6, Continued
  <2>3. /\ Has(<<"latest", 0>>)' <=> Has(<<"latest", 0>>)
        /\ Has(<<"latest", 0>>) => Latest' = Latest
    BY <1>6 DEF KindStays, Latest
  <2>4. /\ att[i].n \in Nat /\ att[i].out.from \in Nat
        /\ att[i].out.from > 0 => Has(<<"latest", 0>>)
        /\ (Alone' /\ Sighted' /\ Has(<<"latest", 0>>)) =>
               Latest < att[i].n /\ att[i].out.from <= Latest + 1
    BY <1>2, <2>1 DEF Entered
  <2>5. n \in Nat /\ (Has(<<"latest", 0>>) /\ Latest < att[i].n => Latest < n)
    BY <1>3, <1>6, <2>4
  <2>6. Entered(i)'
    BY <2>2, <2>3, <2>4, <2>5 DEF Entered
  <2>7. ~StuckAt(i)'
    BY <2>2 DEF StuckAt
  <2> QED BY <1>5, <1>6, <2>6, <2>7
<1>7. CASE LoadCheckpoint(i)
  <2>0. UNCHANGED store /\ KindStays("latest")
    BY <1>7, SameStays DEF LoadCheckpoint
  <2>1. ASSUME NEW s, s \in Nat, Continue(i, "step", s, [from |-> s]),
               s > 0 => Has(<<"latest", 0>>),
               (Alone' /\ Sighted' /\ Has(<<"latest", 0>>)) => s = Latest + 1
        PROVE  TrainInv' /\ Advances
    <3>1. att'[i].n = s /\ att'[i].out = [from |-> s] /\ att'[i].status = "running"
      BY <1>1, <2>1, Continued
    <3>2. att'[i].out.from = s
      BY <3>1
    <3>3. /\ Has(<<"latest", 0>>)' <=> Has(<<"latest", 0>>)
          /\ Latest' = Latest
      BY <2>0 DEF Has, Latest
    <3>4. (Alone' /\ Sighted' /\ Has(<<"latest", 0>>)) => Latest < s /\ s <= Latest + 1
      BY <1>3, <2>1
    <3>5. Entered(i)'
      BY <2>1, <3>1, <3>2, <3>3, <3>4 DEF Entered
    <3>6. ~StuckAt(i)'
      BY <3>1 DEF StuckAt
    <3> QED BY <1>5, <2>0, <3>5, <3>6
  <2>2. CASE Resumable /\ LET s == Latest + 1 IN Continue(i, "step", s, [from |-> s])
    <3>1. Latest \in Nat /\ Has(<<"latest", 0>>)
      BY <1>3, <2>2 DEF Resumable
    <3>2. Latest + 1 \in Nat
      BY <3>1
    <3> QED BY <2>1, <2>2, <3>1, <3>2
  <2>3. CASE (IF Resumable THEN Fails ELSE Works) /\ Continue(i, "step", 0, [from |-> 0])
    <3>1. att'[i].status = "running"
      BY <1>1, <2>3, Continued
    <3>2. Sighted' => faults' = faults
      BY <1>1, <3>1, SightedStep
    <3>3. faults \in Nat
      BY DEF AttemptInv
    <3>4. Sighted' => ~Resumable
      BY <2>3, <3>2, <3>3 DEF Fails
    <3>5. Has(<<"latest", 0>>) => Resumable
      <4> SUFFICES ASSUME Has(<<"latest", 0>>) PROVE Has(<<"step", Latest>>)
        BY DEF Resumable, Latest
      <4>1. NamesOf(<<"latest", 0>>, Latest) \subseteq DOMAIN store
        BY DEF StoreInv, CompleteInv, Has, Latest
      <4>2. NamesOf(<<"latest", 0>>, Latest) = {<<"step", Latest>>}
        BY DEF NamesOf
      <4> QED BY <4>1, <4>2 DEF Has
    <3>6. (Alone' /\ Sighted' /\ Has(<<"latest", 0>>)) => 0 = Latest + 1
      BY <3>4, <3>5
    <3> QED BY <2>1, <2>3, <3>6
  <2> QED BY <1>7, <2>2, <2>3 DEF LoadCheckpoint, Latest
<1>8. CASE SkipTraining(i) \/ Train(i)
  <2>1. UNCHANGED store /\ att[i].pc = "step"
    BY <1>8 DEF SkipTraining, Train, At
  <2>2. \E pc, n : Continue(i, pc, n, att[i].out) /\ n \in {att[i].n, att[i].n + 1}
    BY <1>8 DEF SkipTraining, Train, Goto
  <2> QED BY <1>6, <2>1, <2>2, SameStays
<1>9. CASE SaveCheckpoint(i) \/ UploadScene(i) \/ UploadSplat(i)
  <2>1. ASSUME NEW s, s # "latest", NEW n, NEW v, Put(<<s, n>>, v)
        PROVE  KindStays("latest")
    <3>1. <<s, n>>[1] # "latest"
      BY <2>1
    <3> QED BY <2>1, <3>1, PutStays
  <2>3. KindStays("latest")
    <3>1. CASE SaveCheckpoint(i)
      BY <2>1, <3>1 DEF SaveCheckpoint
    <3>2. CASE UploadScene(i)
      BY <2>1, <3>2 DEF UploadScene
    <3>3. CASE UploadSplat(i)
      BY <2>1, <3>3 DEF UploadSplat
    <3> QED BY <1>9, <3>1, <3>2, <3>3
  <2>4. att[i].pc # "begin" /\ \E pc : Continue(i, pc, att[i].n, att[i].out)
    BY <1>9 DEF SaveCheckpoint, UploadScene, UploadSplat, Goto, At
  <2> QED BY <1>6, <2>3, <2>4
<1>10. CASE SaveLatest(i)
  <2> DEFINE m == att[i].n
             f == att[i].out.from
  <2>1. Put(<<"latest", 0>>, m) /\ Continue(i, "step", m + 1, att[i].out) /\ att[i].pc = "latest"
    BY <1>10 DEF SaveLatest, At
  <2>2. Entered(i)
    BY <1>1, <2>1 DEF TrainInv, Trains, Running
  <2>3. Has(<<"latest", 0>>)' /\ Latest' = m
    BY <2>1 DEF Put, With, Has, Latest
  <2>4. att'[i].n = m + 1 /\ att'[i].out.from = f /\ att'[i].status = "running"
    BY <1>1, <2>1, Continued
  <2>5. /\ m \in Nat /\ f \in Nat
        /\ f > 0 => Has(<<"latest", 0>>)
        /\ (Alone' /\ Sighted' /\ Has(<<"latest", 0>>)) => Latest < m /\ f <= Latest + 1
    BY <1>2, <2>2 DEF Entered
  <2> HIDE DEF m, f
  <2>6. (Alone' /\ Sighted') => f <= m + 1
    <3>1. ASSUME f > 0, Alone', Sighted' PROVE f <= m + 1
      <4>1. Latest \in Nat /\ Latest < m /\ f <= Latest + 1
        BY <1>3, <2>5, <3>1
      <4> QED BY <2>5, <4>1
    <3>2. ~(f > 0) => f <= m + 1
      BY <2>5
    <3> QED BY <3>1, <3>2
  <2>7. m + 1 \in Nat /\ m < m + 1
    BY <2>5
  <2>8. Entered(i)'
    BY <2>3, <2>4, <2>5, <2>6, <2>7 DEF Entered
  <2>9. Advances
    BY <1>3, <2>3, <2>5
  <2>10. ASSUME NEW j \in Attempts, Trains(j)' PROVE Entered(j)'
    <3>1. CASE j = i
      BY <2>8, <3>1
    <3>2. CASE j # i
      <4>1. Trains(j) /\ Entered(j) /\ att'[j] = att[j]
        BY <1>1, <1>4, <2>10, <3>2 DEF TrainInv
      <4>2. ~Alone
        <5>1. Running(i) /\ Running(j)
          BY <1>1, <4>1 DEF Trains, Running
        <5> QED BY <3>2, <5>1, OnlyRunner
      <4>3. ~(Alone' /\ Sighted')
        BY <1>2, <4>2
      <4> QED BY <2>3, <4>1, <4>3 DEF Entered
    <3> QED BY <3>1, <3>2
  <2>11. NothingLeft => NothingLeft'
    <3> SUFFICES ASSUME NothingLeft PROVE NothingLeft'
      OBVIOUS
    <3>1. Has(<<"latest", 0>>) /\ Latest \in Nat
      BY <1>3 DEF NothingLeft
    <3>2. scene.total \in Nat
      BY ScenesOK DEF ScenesOK, AttemptInv, TypeOK
    <3>3. (Alone' /\ Sighted') => Latest + 1 >= scene.total /\ Latest < m
      BY <1>2, <2>5, <3>1 DEF NothingLeft
    <3>4. (Alone' /\ Sighted') => m + 1 >= scene.total
      BY <2>5, <3>1, <3>2, <3>3
    <3> QED BY <1>1, <2>3, <3>4 DEF NothingLeft
  <2>12. \A j \in Attempts : StuckAt(j)' => StuckAt(j)
    BY <1>4, <2>4 DEF StuckAt
  <2> QED BY <2>3, <2>5, <2>9, <2>10, <2>11, <2>12 DEF TrainInv
<1>11. CASE TrainingEnd(i)
  <2>1. UNCHANGED store /\ KindStays("latest") /\ att[i].pc = "step" /\ att[i].on \in scene.gsplat
    BY <1>11, SameStays DEF TrainingEnd, At
  <2>2. CASE Goto(i, "scene")
    BY <1>6, <2>1, <2>2 DEF Goto
  <2>3. CASE att[i].out.from >= scene.total /\ End(i, "failed")
    <3>1. ~Trains(i)'
      BY <1>1, <2>3, Closed DEF Trains, Running
    <3>2. Entered(i)
      BY <1>1, <2>1 DEF TrainInv, Trains, Running
    <3>3. scene.total \in Nat /\ scene.total > 0
      BY <2>1, ScenesOK DEF ScenesOK, AttemptInv, TypeOK
    <3>4. Has(<<"latest", 0>>)
      BY <2>3, <3>2, <3>3 DEF Entered
    <3>5. (Alone' /\ Sighted') => Latest + 1 >= scene.total
      BY <1>2, <1>3, <2>3, <3>2, <3>3, <3>4 DEF Entered
    <3>6. NothingLeft'
      BY <1>1, <2>1, <3>4, <3>5 DEF NothingLeft, Has, Latest
    <3> QED BY <1>5, <2>1, <3>1, <3>6
  <2> QED BY <1>11, <2>2, <2>3 DEF TrainingEnd
<1>12. CASE PutMetrics(i)
  <2>1. Put(<<"metrics", 0>>, 0) /\ End(i, "done")
    BY <1>12 DEF PutMetrics
  <2>2. <<"metrics", 0>>[1] = "metrics"
    OBVIOUS
  <2>3. KindStays("latest")
    BY <2>1, <2>2, PutStays
  <2>4. ~Trains(i)' /\ ~StuckAt(i)'
    BY <1>1, <2>1, Closed DEF Trains, StuckAt, Running
  <2> QED BY <1>5, <2>3, <2>4
<1> QED BY <1>7, <1>8, <1>9, <1>10, <1>11, <1>12, StageOfStep DEF Dense3DGS

LEMMA TrainInvStep ==
    ASSUME TrainInv, StoreInv, AttemptInv, [Next]_vars
    PROVE  /\ TrainInv'
           /\ (Alone' /\ Sighted' /\ Has(<<"latest", 0>>)) => Latest' >= Latest
<1>0. Has(<<"latest", 0>>) => Latest \in Nat
  BY DEF TrainInv
<1>1. ASSUME KindStays("latest"), scene' = scene,
             \A j \in Attempts :
                 Trains(j)' => Trains(j) /\ att'[j].n = att[j].n /\ att'[j].out = att[j].out,
             \A j \in Attempts : StuckAt(j)' => StuckAt(j)
      PROVE  TrainInv' /\ (Has(<<"latest", 0>>) => Latest' >= Latest)
  <2>1. /\ Has(<<"latest", 0>>)' <=> Has(<<"latest", 0>>)
        /\ Has(<<"latest", 0>>) => Latest' = Latest
    BY <1>1 DEF KindStays, Latest
  <2>2. Has(<<"latest", 0>>) => Latest' >= Latest
    BY <1>0, <2>1
  <2> QED BY <1>0, <1>1, <2>1, <2>2, TrainInvMoves
<1>2. CASE UNCHANGED vars
  BY <1>1, <1>2, SameStays DEF vars, Trains, StuckAt, Running
<1>3. CASE Outer
  <2>1. UNCHANGED <<store, scene>>
    BY <1>3, OuterShape
  <2>2. ASSUME NEW j \in Attempts
        PROVE  /\ Trains(j)' => Trains(j) /\ att'[j].n = att[j].n /\ att'[j].out = att[j].out
               /\ StuckAt(j)' => StuckAt(j)
    BY <1>3, OuterAlone, OuterFrame DEF Trains, StuckAt, Running, AttemptInv
  <2> QED BY <1>1, <2>1, <2>2, SameStays
<1>4. ASSUME NEW i \in Attempts, Step(i), att[i].stage # "train"
      PROVE  TrainInv' /\ (Has(<<"latest", 0>>) => Latest' >= Latest)
  <2>1. "latest" \notin KindsOf[att[i].stage]
    BY <1>4, StageOfStep DEF KindsOf, Stages
  <2>2. KindStays("latest") /\ scene' = scene
    BY <1>4, <2>1, KindKept, StepShape DEF Shape
  <2>3. (\A j \in Attempts : j # i => att'[j] = att[j]) /\ att'[i].stage = att[i].stage
    BY <1>4, StepFrame DEF AttemptInv
  <2> QED BY <1>1, <1>4, <2>2, <2>3 DEF Trains, StuckAt, Running
<1> QED BY <1>2, <1>3, <1>4, TrainInvTraining, NextCases

\* The step that latest.json names is behind the one training is at, and what training
\* began from is a checkpoint or nothing (dense_3dgs.py:39-58).
THEOREM TrainInvariant == Spec => []TrainInv
<1>1. TrainInv /\ StoreInv /\ AttemptInv /\ [Next]_vars => TrainInv'
  BY TrainInvStep
<1> QED BY <1>1, TrainInvInit, StoreInvariant, AttemptInvariant, PTL DEF Spec

\* Training is never set back (dense_3dgs.py:39-58): without overlapping attempts, and
\* without one that could not read what was there, latest.json only moves on.
THEOREM LatestAdvancesHolds == Spec => LatestAdvances
<1>1. TrainInv /\ StoreInv /\ AttemptInv /\ [Next]_vars =>
          [(Alone' /\ Sighted' /\ Has(<<"latest", 0>>)) =>
               store'[<<"latest", 0>>] >= store[<<"latest", 0>>]]_vars
  BY TrainInvStep DEF Latest
<1> QED BY <1>1, TrainInvariant, StoreInvariant, AttemptInvariant, PTL DEF Spec, LatestAdvances

\* A training attempt fails by itself only when the checkpoint it resumed leaves no step to
\* do (gs_train.py:110, :143, :171).
THEOREM StuckHolds == Spec => []StuckOnlyAtTheEnd
<1>1. TrainInv /\ StoreInv => StuckOnlyAtTheEnd
  <2> SUFFICES ASSUME TrainInv, StoreInv, NEW i \in Attempts, StuckAt(i)
               PROVE  Resumable /\ ((Alone /\ Sighted) => Latest + 1 >= scene.total)
    BY DEF StuckOnlyAtTheEnd, StuckAt, Latest
  <2>1. NothingLeft
    BY DEF TrainInv
  <2>2. NamesOf(<<"latest", 0>>, Latest) \subseteq DOMAIN store
    BY <2>1 DEF NothingLeft, StoreInv, CompleteInv, Has, Latest
  <2>3. NamesOf(<<"latest", 0>>, Latest) = {<<"step", Latest>>}
    BY DEF NamesOf
  <2> QED BY <2>1, <2>2, <2>3 DEF NothingLeft, Resumable, Has, Latest
<1> QED BY <1>1, TrainInvariant, StoreInvariant, PTL

-------------------------------------------------------------------------------
(* The levels of detail.                                                   *)

AllLods == \A l \in Lods : Has(<<"lod", l>>)

\* The levels below the one that is baked are stored, and all of them when it is done.
LodsPut ==
    /\ \A i \in Attempts : At(i, "mesh", "bake") =>
           att[i].n \in Nat /\ \A l \in Lods : l < att[i].n => Has(<<"lod", l>>)
    /\ \A i \in Attempts : Done(i, "mesh") => AllLods
    /\ \A i \in Attempts : att[i].stage \in {"georef", "products"} => AllLods

LEMMA LodsPutInit ==
    ASSUME Init
    PROVE  LodsPut
BY InitResults DEF LodsPut, At, Done, Stages, KindsOf

\* Objects stay.
LEMMA StoreGrows ==
    ASSUME [Next]_vars
    PROVE  DOMAIN store \subseteq DOMAIN store'
<1>1. CASE UNCHANGED vars
  BY <1>1 DEF vars
<1>2. CASE Outer
  BY <1>2, OuterShape
<1>3. ASSUME NEW i \in Attempts, Step(i)
      PROVE  DOMAIN store \subseteq DOMAIN store'
  BY <1>3, StepPuts DEF PutsOf, Put, With
<1> QED BY <1>1, <1>2, <1>3, NextCases

\* Only what completes the mesh, or its first level, has to be looked at.
LEMMA LodsPutKept ==
    ASSUME LodsPut, [Next]_vars,
           \A i \in Attempts : At(i, "mesh", "bake")' =>
               \/ At(i, "mesh", "bake") /\ att'[i].n = att[i].n
               \/ att'[i].n \in Nat /\ \A l \in Lods : l < att'[i].n => Has(<<"lod", l>>)',
           \A i \in Attempts : Done(i, "mesh")' => Done(i, "mesh") \/ AllLods',
           \A i \in Attempts : att'[i].stage \in {"georef", "products"} =>
               AllLods \/ att[i].stage \in {"georef", "products"}
    PROVE  LodsPut'
<1>1. /\ AllLods => AllLods'
      /\ \A l : Has(<<"lod", l>>) => Has(<<"lod", l>>)'
  BY StoreGrows DEF AllLods, Has
<1>2. ASSUME NEW i \in Attempts, At(i, "mesh", "bake")'
      PROVE  att'[i].n \in Nat /\ \A l \in Lods : l < att'[i].n => Has(<<"lod", l>>)'
  BY <1>1, <1>2 DEF LodsPut
<1>3. \A i \in Attempts : Done(i, "mesh")' => AllLods'
  BY <1>1 DEF LodsPut
<1>4. \A i \in Attempts : att'[i].stage \in {"georef", "products"} => AllLods'
  BY <1>1 DEF LodsPut
<1> QED BY <1>2, <1>3, <1>4 DEF LodsPut

LEMMA LodsPutMeshing ==
    ASSUME LodsPut, AttemptInv, [Next]_vars, NEW i \in Attempts, Step(i), att[i].stage = "mesh"
    PROVE  LodsPut'
<1>0. Meshing(i) /\ att[i].status = "running" /\ att'[i].stage = "mesh" /\ AttemptsTyped
      /\ \A j \in Attempts : j # i => att'[j] = att[j]
  BY StageOfStep, StepFrame DEF AttemptInv
<1>1. ASSUME NEW j \in Attempts, j # i
      PROVE  /\ At(j, "mesh", "bake")' => At(j, "mesh", "bake") /\ att'[j].n = att[j].n
             /\ Done(j, "mesh")' => Done(j, "mesh")
  BY <1>0, <1>1 DEF At, Done, Running
<1>2. \A j \in Attempts : att'[j].stage \in {"georef", "products"} =>
                              att[j].stage \in {"georef", "products"}
  BY <1>0
\* to another point than baking
<1>3. ASSUME ~At(i, "mesh", "bake")', Done(i, "mesh")' => AllLods'
      PROVE  LodsPut'
  BY <1>1, <1>2, <1>3, LodsPutKept
<1>4. ASSUME NEW n \in Nat, Continue(i, "bake", n, Empty),
             \A l \in Lods : l < n => Has(<<"lod", l>>)'
      PROVE  LodsPut'
  <2>1. att'[i].n = n /\ att'[i].status = "running"
    BY <1>0, <1>4, Continued
  <2> QED BY <1>1, <1>2, <1>4, <2>1, LodsPutKept DEF Done
<1>5. CASE Densify(i) \/ Audit(i)
  <2>1. \E pc : pc # "bake" /\ Continue(i, pc, att[i].n, att[i].out)
    BY <1>5 DEF Densify, Audit, Goto
  <2>2. att'[i].pc # "bake" /\ att'[i].status = "running"
    BY <1>0, <2>1, Continued
  <2> QED BY <1>3, <2>2 DEF At, Done
<1>6. CASE CheckLods(i)
  <2>1. CASE Continue(i, "bake", 0, Empty)
    <3>1. \A l \in Lods : ~(l < 0)
      BY SceneConstantsOK DEF SceneConstantsOK, Lods
    <3> QED BY <1>4, <2>1, <3>1
  <2>2. CASE AllLods /\ End(i, "done")
    <3>1. AllLods'
      BY <2>2, StoreGrows DEF AllLods, Has
    <3>2. att'[i].status = "done"
      BY <1>0, <2>2, Closed
    <3> QED BY <1>3, <3>1, <3>2 DEF At, Running
  <2> QED BY <1>6, <2>1, <2>2 DEF CheckLods, AllLods
<1>7. ASSUME att[i].pc = "bake"
      PROVE  att[i].n \in Nat /\ \A l \in Lods : l < att[i].n => Has(<<"lod", l>>)
  BY <1>0, <1>7 DEF LodsPut, At, Running
<1>8. CASE BakeLod(i)
  <2> DEFINE n == att[i].n
  <2>1. n \in Nat /\ \A l \in Lods : l < n => Has(<<"lod", l>>)
    BY <1>7, <1>8 DEF BakeLod, At
  <2>2. <<"lod", n>> \in DOMAIN store' /\ Continue(i, "bake", n + 1, Empty)
    <3>1. CASE Found(<<"lod", n>>)
      BY <1>8, <3>1, StoreGrows DEF BakeLod, Found, Has
    <3>2. CASE Put(<<"lod", n>>, 0)
      BY <1>8, <3>2 DEF BakeLod, Put, With, Has
    <3> QED BY <1>8, <3>1, <3>2 DEF BakeLod
  <2>4. \A l : Has(<<"lod", l>>) => Has(<<"lod", l>>)'
    BY StoreGrows DEF Has
  <2> HIDE DEF n
  <2>3. ASSUME NEW l \in Lods, l < n + 1 PROVE Has(<<"lod", l>>)'
    <3>1. l \in Nat
      BY SceneConstantsOK DEF SceneConstantsOK, Lods
    <3>2. l = n \/ l < n
      BY <2>1, <2>3, <3>1
    <3> QED BY <2>1, <2>2, <2>4, <3>2 DEF Has
  <2> QED BY <1>4, <2>1, <2>2, <2>3
<1>9. CASE MeshingEnd(i)
  <2>1. att[i].pc = "bake" /\ att[i].n \notin Lods /\ End(i, "done")
    BY <1>9 DEF MeshingEnd, At
  <2>2. \A l \in Lods : l < att[i].n
    BY <1>7, <2>1, SceneConstantsOK DEF SceneConstantsOK, Lods
  <2>3. AllLods'
    BY <1>7, <2>1, <2>2, StoreGrows DEF AllLods, Has
  <2>4. att'[i].status = "done"
    BY <1>0, <2>1, Closed
  <2> QED BY <1>3, <2>3, <2>4 DEF At, Running
<1> QED BY <1>0, <1>5, <1>6, <1>8, <1>9 DEF Meshing

\* Georeferencing starts behind a mesh, and the products behind georeferencing.
LEMMA BehindTheMesh ==
    ASSUME AttemptInv, Outer, last' # last,
           att'[last + 1].stage \in {"georef", "products"}
    PROVE  /\ last > 0 /\ last \in Attempts
           /\ \/ att[last].stage = att'[last + 1].stage
              \/ Done(last, "mesh") /\ att'[last + 1].stage = "georef"
              \/ Done(last, "georef") /\ att'[last + 1].stage = "products"
<1>1. last \in Nat /\ (last > 0 => last \in 1 .. last)
  BY Bounds
<1>2. last > 0 => last \in Attempts
  BY <1>1, Counted
<1>3. scene.stage \notin {"georef", "products"}
  BY ScenesOK DEF ScenesOK, AttemptInv, TypeOK
<1>4. CASE ~Served
  <2>1. /\ last < 9 /\ att'[last + 1].stage = DirectStages[last + 1]
        /\ last > 0 => att[last].status = "done" /\ att[last].stage = DirectStages[last]
    BY <1>4, NewStage
  <2>2. last \in 0 .. 8
    BY <1>1, <2>1
  <2>3. last \in {6, 7}
    BY <2>1, <2>2 DEF DirectStages
  <2> QED BY <1>2, <2>1, <2>3 DEF DirectStages, Done
<1>5. CASE Served
  BY <1>2, <1>3, <1>5, NewStage DEF Done
<1> QED BY <1>4, <1>5

LEMMA LodsPutStep ==
    ASSUME LodsPut, AttemptInv, [Next]_vars
    PROVE  LodsPut'
<1>1. CASE UNCHANGED vars
  BY <1>1, LodsPutKept DEF vars, At, Done, Running
<1>2. CASE Outer
  <2>1. \A j \in Attempts : /\ At(j, "mesh", "bake")' => att'[j] = att[j]
                            /\ Done(j, "mesh")' => att'[j] = att[j]
    BY <1>2, OuterAlone DEF At, Done, Running
  <2>2. \A j \in Attempts : /\ At(j, "mesh", "bake")' => At(j, "mesh", "bake") /\ att'[j].n = att[j].n
                            /\ Done(j, "mesh")' => Done(j, "mesh")
    BY <2>1 DEF At, Done, Running
  <2>3. ASSUME NEW j \in Attempts, att'[j].stage \in {"georef", "products"}
        PROVE  AllLods \/ att[j].stage \in {"georef", "products"}
    <3>1. CASE last' # last
      <4>1. CASE j = last + 1
        <5>1. \/ att[last].stage \in {"georef", "products"} /\ last \in Attempts
              \/ Done(last, "mesh") /\ last \in Attempts
          BY <1>2, <2>3, <3>1, <4>1, BehindTheMesh DEF Done
        <5> QED BY <5>1 DEF LodsPut
      <4>2. CASE j # last + 1
        BY <1>2, <2>3, <3>1, <4>2, NewStage
      <4> QED BY <4>1, <4>2
    <3>2. CASE last' = last
      <4>1. last' # last + 1
        BY <3>2, Bounds
      <4> QED BY <1>2, <2>3, <4>1, OuterFrame DEF AttemptInv
    <3> QED BY <3>1, <3>2
  <2> QED BY <2>2, <2>3, LodsPutKept
<1>3. ASSUME NEW i \in Attempts, Step(i), att[i].stage # "mesh"
      PROVE  LodsPut'
  <2>1. /\ \A j \in Attempts : j # i => att'[j] = att[j]
        /\ att'[i].stage = att[i].stage
    BY <1>3, StepFrame DEF AttemptInv
  <2> QED BY <1>3, <2>1, LodsPutKept DEF At, Done, Running
<1> QED BY <1>1, <1>2, <1>3, LodsPutMeshing, NextCases

\* Whoever comes after meshing finds every level of detail (meshing.py), however often it
\* was meshed, when no attempt took an error for an answer.
THEOREM LodsPutInvariant == Spec => []LodsPut
<1>1. LodsPut /\ AttemptInv /\ [Next]_vars => LodsPut'
  BY LodsPutStep
<1> QED BY <1>1, LodsPutInit, AttemptInvariant, PTL DEF Spec

\* No georeferencing attempt was cut short.
Untouched == \A i \in Attempts : att[i].stage = "georef" => att[i].status \in {"running", "done"}

Transforming(i) == At(i, "georef", "get") \/ At(i, "georef", "put")

\* The levels that the attempt at work has transformed already.
Ahead(l) == \E i \in Attempts : Transforming(i) /\ l < att[i].n

\* Every level was transformed c times, and those an attempt is past once more.
InFrame(c) ==
    /\ c > 0 => AllLods
    /\ \A l \in Lods : Has(<<"lod", l>>) => store[<<"lod", l>>] = IF Ahead(l) THEN c + 1 ELSE c
    /\ \A i \in Attempts : Transforming(i) => att[i].n \in Nat
    /\ \A i \in Attempts : At(i, "georef", "put") =>
           att[i].n \in Lods /\ OnDisk(i, "lod", att[i].n) /\ Read(i, "lod", att[i].n) = c + 1

LodsInv == (Alone /\ Sighted /\ Untouched) => \E c \in Nat : InFrame(c)

LEMMA LodsInvInit ==
    ASSUME Init
    PROVE  LodsInv
<1>1. InFrame(0)
  BY InitResults DEF InFrame, Transforming, At, Results
<1> QED BY <1>1 DEF LodsInv

\* A georeferencing attempt that was cut short stays so.
LEMMA UntouchedBefore ==
    ASSUME AttemptInv, [Next]_vars, Untouched'
    PROVE  Untouched
<1> SUFFICES ASSUME NEW j \in Attempts, att[j].stage = "georef"
             PROVE  att[j].status \in {"running", "done"}
  BY DEF Untouched
<1>0. att[j].stage \in Stages
  BY DEF Stages, KindsOf
<1>1. CASE UNCHANGED vars
  BY <1>1 DEF vars, Untouched
<1>2. CASE Outer
  BY <1>0, <1>2, OuterKeeps DEF Untouched
<1>3. ASSUME NEW i \in Attempts, Step(i)
      PROVE  att[j].status \in {"running", "done"}
  BY <1>3, StepFrame DEF Untouched, AttemptInv
<1> QED BY <1>1, <1>2, <1>3, NextCases

\* Whoever does not georeference leaves the levels in their frame.
LEMMA InFrameKept ==
    ASSUME NEW c \in Nat, InFrame(c), DOMAIN store \subseteq DOMAIN store',
           \A l \in Lods : Has(<<"lod", l>>)' =>
               \/ Has(<<"lod", l>>) /\ store'[<<"lod", l>>] = store[<<"lod", l>>]
               \/ ~Has(<<"lod", l>>) /\ ~Ahead(l) /\ store'[<<"lod", l>>] = 0,
           \A i \in Attempts : Transforming(i)' => Transforming(i) /\ att'[i] = att[i],
           \A i \in Attempts : Transforming(i) => Transforming(i)' /\ att'[i] = att[i],
           \A i \in Attempts : Transforming(i) => disk'[att[i].on] = disk[att[i].on]
    PROVE  InFrame(c)'
<1>1. AllLods => AllLods'
  BY DEF AllLods, Has
<1>2. \A l : Ahead(l)' <=> Ahead(l)
  BY DEF Ahead
<1>3. ASSUME NEW l \in Lods, Has(<<"lod", l>>)'
      PROVE  store'[<<"lod", l>>] = IF Ahead(l)' THEN c + 1 ELSE c
  <2>1. CASE Has(<<"lod", l>>)
    BY <1>2, <1>3, <2>1 DEF InFrame
  <2>2. CASE ~Has(<<"lod", l>>)
    <3>1. ~(c > 0)
      BY <2>2 DEF InFrame, AllLods
    <3>2. c = 0
      BY <3>1
    <3> QED BY <1>2, <1>3, <2>2, <3>2
  <2> QED BY <2>1, <2>2
<1>4. ASSUME NEW i \in Attempts, Transforming(i)'
      PROVE  att'[i].n \in Nat
  BY <1>4 DEF InFrame
<1>5. ASSUME NEW i \in Attempts, At(i, "georef", "put")'
      PROVE  att'[i].n \in Lods /\ OnDisk(i, "lod", att[i].n)' /\ Read(i, "lod", att[i].n)' = c + 1
  <2>1. Transforming(i) /\ att'[i] = att[i]
    BY <1>5 DEF Transforming
  <2>2. At(i, "georef", "put") /\ disk'[att[i].on] = disk[att[i].on]
    BY <1>5, <2>1 DEF At, Running
  <2> QED BY <2>1, <2>2 DEF InFrame, OnDisk, Read, Path
<1> QED BY <1>1, <1>3, <1>4, <1>5 DEF InFrame

LEMMA LodsInvGeoref ==
    ASSUME LodsInv, LodsPut, AttemptInv, [Next]_vars, NEW i \in Attempts, Step(i),
           att[i].stage = "georef"
    PROVE  LodsInv'
<1> SUFFICES ASSUME Alone', Sighted', Untouched' PROVE \E c \in Nat : InFrame(c)'
  BY DEF LodsInv
<1>1. Alone /\ Sighted /\ Untouched
  BY Before, UntouchedBefore
<1>2. PICK c \in Nat : InFrame(c)
  BY <1>1 DEF LodsInv
<1>3. /\ AttemptsTyped /\ AllLods /\ Georef(i)
      /\ \A j \in Attempts : j # i => att'[j] = att[j]
      /\ \A j \in Attempts : Running(j) => j = i
      /\ Running(i) /\ att'[i].stage = "georef"
      /\ att'[i].on = att[i].on /\ att'[i].run = att[i].run
  BY <1>1, StageOfStep, StepFrame, OnlyRunner DEF AttemptInv, Step, LodsPut
<1>4. AllLods' /\ \A l \in Lods : Has(<<"lod", l>>) /\ Has(<<"lod", l>>)'
  BY <1>3, StoreGrows DEF AllLods, Has
<1>5. Lods \subseteq Nat /\ \A n \in Nat : n \notin Lods => \A l \in Lods : l < n
  BY SceneConstantsOK DEF SceneConstantsOK, Lods
<1>6. \A j \in Attempts : Transforming(j)' => j = i
  BY <1>3 DEF Transforming, At, Running
<1>7. \A l \in Lods : Ahead(l) <=> Transforming(i) /\ l < att[i].n
  BY <1>3 DEF Ahead, Transforming, At
<1>8. \A l \in Lods : Ahead(l)' <=> Transforming(i)' /\ l < att'[i].n
  BY <1>6 DEF Ahead
<1>9. \A l \in Lods : store[<<"lod", l>>] = IF Ahead(l) THEN c + 1 ELSE c
  BY <1>2, <1>4 DEF InFrame
<1>10. ASSUME NEW pc, NEW n, NEW out, Continue(i, pc, n, out)
       PROVE  /\ faults' = faults /\ ~Fails
              /\ att'[i].pc = pc /\ att'[i].n = n /\ att'[i].out = out /\ Running(i)'
  <2>1. att'[i].status = "running" /\ att'[i].pc = pc /\ att'[i].n = n /\ att'[i].out = out
    BY <1>3, <1>10, Continued DEF Running
  <2>2. faults' = faults
    BY <1>3, <2>1, SightedStep
  <2>3. faults \in Nat
    BY DEF AttemptInv
  <2> QED BY <2>1, <2>2, <2>3 DEF Fails, Running
\* to the download of the level n: the levels below were put
<1>11. ASSUME NEW n \in Nat, NEW out, Continue(i, "get", n, out),
              \A l \in Lods : store'[<<"lod", l>>] = IF l < n THEN c + 1 ELSE c
       PROVE  InFrame(c)'
  <2>1. att'[i].n = n /\ att'[i].pc = "get" /\ Transforming(i)'
    BY <1>3, <1>10, <1>11 DEF Transforming, At
  <2>2. \A j \in Attempts : ~At(j, "georef", "put")'
    BY <1>6, <2>1 DEF Transforming, At
  <2> QED BY <1>4, <1>6, <1>8, <1>11, <2>1, <2>2 DEF InFrame
<1>12. CASE GeorefScene(i)
  <2>1. att[i].pc = "begin" /\ Continue(i, "get", 0, Empty)
    BY <1>12 DEF GeorefScene, At
  <2>2. \A l \in Lods : ~Ahead(l) /\ ~(l < 0)
    BY <1>5, <1>7, <2>1 DEF Transforming, At
  <2>3. UNCHANGED store \/ \E v : Put(<<"georef", 0>>, v)
    BY <1>12 DEF GeorefScene
  <2>4. \A l \in Lods : store'[<<"lod", l>>] = store[<<"lod", l>>]
    BY <1>4, <2>3 DEF Put, With, Has
  <2> QED BY <1>9, <1>11, <2>1, <2>2, <2>4
<1>13. CASE GetLod(i)
  <2> DEFINE n == att[i].n
  <2>1. Transforming(i) /\ n \in Lods /\ n \in Nat /\ UNCHANGED store
    BY <1>2, <1>5, <1>13 DEF GetLod, Transforming, InFrame
  <2>2. \A l \in Lods : store[<<"lod", l>>] = IF l < n THEN c + 1 ELSE c
    BY <1>7, <1>9, <2>1
  <2>3. CASE NotFound(<<"lod", n>>) /\ Continue(i, "get", n + 1, Empty)
    BY <1>4, <1>10, <2>1, <2>3 DEF NotFound
  <2>4. CASE Write(i, "lod", n, store[<<"lod", n>>] + 1) /\ Goto(i, "put")
    <3>1. Continue(i, "put", n, att[i].out)
      BY <2>4 DEF Goto
    <3>2. att'[i].n = n /\ att'[i].pc = "put" /\ Running(i)'
      BY <1>10, <3>1
    <3>3. Transforming(i)'
      BY <1>3, <3>2 DEF Transforming, At
    <3>4. store[<<"lod", n>>] = c
      <4>1. ~(n < n)
        BY <2>1
      <4> QED BY <2>1, <2>2, <4>1
    <3>5. att[i].on \in Machines /\ DOMAIN disk = Machines
      <4>1. i \in 1 .. last /\ last \in Nat
        BY <1>3, Started, Bounds DEF Stages, KindsOf
      <4> QED BY <4>1 DEF AttemptInv, TypeOK
    <3>6. OnDisk(i, "lod", att[i].n)' /\ Read(i, "lod", att[i].n)' = c + 1
      BY <1>3, <2>4, <3>2, <3>4, <3>5 DEF Write, With, OnDisk, Read, Path
    <3>7. \A j \in Attempts : At(j, "georef", "put")' => j = i
      BY <1>6 DEF Transforming
    <3>8. \A l \in Lods : store'[<<"lod", l>>] = IF Ahead(l)' THEN c + 1 ELSE c
      BY <1>8, <2>1, <2>2, <3>2, <3>3
    <3>9. InFrame(c)'
      BY <1>4, <1>6, <2>1, <3>2, <3>6, <3>7, <3>8 DEF InFrame
    <3> QED BY <3>9
  <2> QED BY <1>13, <2>3, <2>4 DEF GetLod
<1>14. CASE PutLod(i)
  <2> DEFINE n == att[i].n
  <2>1. /\ At(i, "georef", "put") /\ Transforming(i) /\ n \in Lods /\ n \in Nat
        /\ Read(i, "lod", n) = c + 1 /\ Continue(i, "get", n + 1, Empty)
    BY <1>2, <1>5, <1>14 DEF PutLod, Transforming, InFrame
  <2>2. Put(<<"lod", n>>, c + 1)
    BY <1>10, <1>14, <2>1 DEF PutLod
  <2>3. \A l \in Lods : store[<<"lod", l>>] = IF l < n THEN c + 1 ELSE c
    BY <1>7, <1>9, <2>1
  <2>4. \A l \in Lods : store'[<<"lod", l>>] = IF l = n THEN c + 1 ELSE store[<<"lod", l>>]
    BY <1>4, <2>2 DEF Put, With, Has
  <2> HIDE DEF n
  <2>5. ASSUME NEW l \in Lods
        PROVE  store'[<<"lod", l>>] = IF l < n + 1 THEN c + 1 ELSE c
    <3>1. l \in Nat
      BY <1>5
    <3>2. l < n + 1 <=> (l < n \/ l = n)
      BY <2>1, <3>1
    <3> QED BY <2>3, <2>4, <3>2
  <2>6. n + 1 \in Nat
    BY <2>1
  <2>7. InFrame(c)'
    BY <1>11, <2>1, <2>5, <2>6
  <2> QED BY <2>7
<1>15. CASE PutReport(i)
  <2>1. Transforming(i) /\ att[i].n \notin Lods /\ att[i].n \in Nat
    BY <1>2, <1>15 DEF PutReport, Transforming, InFrame
  <2>2. Put(<<"qa", 0>>, 0) /\ End(i, "done")
    BY <1>15 DEF PutReport
  <2>3. ~Transforming(i)'
    BY <1>3, <2>2, Closed DEF Transforming, At, Running
  <2>4. \A l \in Lods : store'[<<"lod", l>>] = store[<<"lod", l>>]
    BY <1>4, <2>2 DEF Put, With, Has
  <2>5. \A l \in Lods : store'[<<"lod", l>>] = c + 1 /\ ~Ahead(l)'
    BY <1>5, <1>7, <1>8, <1>9, <2>1, <2>3, <2>4
  <2>6. c + 1 \in Nat
    OBVIOUS
  <2>7. InFrame(c + 1)'
    BY <1>4, <1>6, <2>3, <2>5 DEF InFrame, Transforming
  <2> QED BY <2>6, <2>7
<1> QED BY <1>3, <1>11, <1>12, <1>13, <1>14, <1>15 DEF Georef

LEMMA LodsInvStep ==
    ASSUME LodsInv, LodsPut, AttemptInv, [Next]_vars
    PROVE  LodsInv'
<1> SUFFICES ASSUME Alone', Sighted', Untouched' PROVE \E c \in Nat : InFrame(c)'
  BY DEF LodsInv
<1>1. Alone /\ Sighted /\ Untouched
  BY Before, UntouchedBefore
<1>2. PICK c \in Nat : InFrame(c)
  BY <1>1 DEF LodsInv
<1>3. DOMAIN store \subseteq DOMAIN store'
  BY StoreGrows
<1>4. CASE UNCHANGED vars
  <2>1. InFrame(c)'
    BY <1>2, <1>3, <1>4, InFrameKept DEF vars, Transforming, At, Running, Has
  <2> QED BY <2>1
<1>5. CASE Outer
  <2>1. \A j \in Attempts : Transforming(j)' => att'[j] = att[j]
    BY <1>5, OuterAlone DEF Transforming, At, Running
  <2>2. ASSUME NEW j \in Attempts, Transforming(j)
        PROVE  att'[j] = att[j] /\ disk'[att[j].on] = disk[att[j].on]
    <3>1. att[j].stage = "georef" /\ Running(j) /\ att[j].pc \in {"get", "put"}
      BY <2>2 DEF Transforming, At
    <3>2. att[j].stage \in Stages
      BY <3>1 DEF Stages, KindsOf
    <3>3. att'[j].stage = "georef" /\ att'[j].pc = att[j].pc
      BY <1>5, <3>1, <3>2, OuterKeeps
    <3>4. att'[j].status = "running"
      <4>1. att'[j].status \in {"running", "done"}
        BY <3>3 DEF Untouched
      <4> QED BY <1>5, <3>1, <3>2, <4>1, OuterKeeps DEF Running
    <3>5. att'[j] = att[j]
      BY <1>5, <3>1, <3>3, <3>4, OuterAlone
    <3> QED BY <1>5, <3>1, <3>4, <3>5, OuterFiles
  <2>3. UNCHANGED store
    BY <1>5, OuterShape
  <2>4. InFrame(c)'
    BY <1>2, <1>3, <2>1, <2>2, <2>3, InFrameKept DEF Transforming, At, Running, Has
  <2> QED BY <2>4
<1>6. ASSUME NEW i \in Attempts, Step(i), att[i].stage # "georef"
      PROVE  InFrame(c)'
  <2>1. /\ \A j \in Attempts : j # i => att'[j] = att[j]
        /\ att'[i].stage = att[i].stage /\ AttemptsTyped
        /\ \A j \in Attempts : Running(j) => j = i
    BY <1>1, <1>6, StepFrame, OnlyRunner DEF AttemptInv, Step
  <2>2. \A j \in Attempts : ~Transforming(j) /\ ~Transforming(j)'
    BY <1>6, <2>1 DEF Transforming, At, Running
  <2>3. \A l : ~Ahead(l)
    BY <2>2 DEF Ahead
  <2>4. CASE att[i].stage # "mesh"
    <3>1. "lod" \notin KindsOf[att[i].stage]
      BY <1>6, <2>4, StageOfStep DEF KindsOf, Stages
    <3>2. KindStays("lod")
      BY <1>6, <3>1, KindKept
    <3> QED BY <1>2, <1>3, <2>2, <3>2, InFrameKept DEF KindStays
  <2>5. CASE att[i].stage = "mesh"
    <3>1. Meshing(i)
      BY <1>6, <2>5, StageOfStep
    <3>2. ASSUME NEW l \in Lods, Has(<<"lod", l>>)'
          PROVE  \/ Has(<<"lod", l>>) /\ store'[<<"lod", l>>] = store[<<"lod", l>>]
                 \/ ~Has(<<"lod", l>>) /\ ~Ahead(l) /\ store'[<<"lod", l>>] = 0
      <4>1. CASE KindStays("lod")
        BY <3>2, <4>1 DEF KindStays
      <4>2. CASE BakeLod(i) /\ ~UNCHANGED store
        <5>1. Put(<<"lod", att[i].n>>, 0) /\ NotFound(<<"lod", att[i].n>>)
              /\ Continue(i, "bake", att[i].n + 1, Empty)
          BY <4>2 DEF BakeLod
        <5>2. att'[i].status = "running"
          BY <1>6, <2>1, <5>1, Continued DEF Step, Running
        <5>3. faults' = faults /\ faults \in Nat
          BY <1>6, <2>1, <5>2, SightedStep DEF AttemptInv
        <5>4. ~Has(<<"lod", att[i].n>>)
          BY <5>1, <5>3 DEF NotFound, Fails
        <5> QED BY <2>3, <3>2, <5>1, <5>4 DEF Put, With, Has
      <4>3. CASE Densify(i) \/ Audit(i) \/ CheckLods(i) \/ MeshingEnd(i)
        <5>1. UNCHANGED store \/ Put(<<"cloud", 0>>, 0) \/ Put(<<"audit", 0>>, 0)
          BY <4>3 DEF Densify, Audit, CheckLods, MeshingEnd
        <5>2. <<"cloud", 0>>[1] # "lod" /\ <<"audit", 0>>[1] # "lod"
          OBVIOUS
        <5> QED BY <4>1, <5>1, <5>2, SameStays, PutStays
      <4> QED BY <3>1, <4>1, <4>2, <4>3, SameStays DEF Meshing
    <3> QED BY <1>2, <1>3, <2>2, <3>2, InFrameKept
  <2> QED BY <2>4, <2>5
<1>7. ASSUME NEW i \in Attempts, Step(i), att[i].stage = "georef"
      PROVE  \E d \in Nat : InFrame(d)'
  <2>1. LodsInv'
    BY <1>7, LodsInvGeoref
  <2> QED BY <2>1 DEF LodsInv
<1> QED BY <1>4, <1>5, <1>6, <1>7, NextCases

\* The levels of detail are in one frame of reference (georef.py:56-62) when no
\* georeferencing attempt was cut short, overlapped another or swallowed an error.
THEOREM LodsHold == Spec => []LodsAgree
<1>1. LodsInv /\ LodsPut /\ AttemptInv /\ [Next]_vars => LodsInv'
  BY LodsInvStep
<1>2. Spec => []LodsInv
  BY <1>1, LodsInvInit, LodsPutInvariant, AttemptInvariant, PTL DEF Spec
<1>3. LodsInv => LodsAgree
  <2> SUFFICES ASSUME LodsInv, Alone, Sighted,
                      \A i \in Attempts : att[i].stage = "georef" => Done(i, "georef"),
                      NEW k \in Lods, NEW l \in Lods, Has(<<"lod", k>>), Has(<<"lod", l>>)
               PROVE  store[<<"lod", k>>] = store[<<"lod", l>>]
    BY DEF LodsAgree
  <2>1. Untouched
    BY DEF Untouched, Done
  <2>2. PICK c \in Nat : InFrame(c)
    BY <2>1 DEF LodsInv
  <2>3. ~Ahead(k) /\ ~Ahead(l)
    BY DEF Ahead, Transforming, At, Running, Done
  <2> QED BY <2>2, <2>3 DEF InFrame
<1> QED BY <1>2, <1>3, PTL

-------------------------------------------------------------------------------
(* The catalog.                                                            *)

\* What the completed stages before the product stage have left behind.
ResultsPut ==
    /\ DOMAIN scene.stored \subseteq DOMAIN store
    /\ \A i \in Attempts : Done(i, "sfm") => Has(<<"sfm", att[i].n>>)
    /\ \A i \in Attempts : Done(i, "georef") => Has(<<"qa", 0>>)
    /\ \A i \in Attempts : att[i].stage = "products" => Has(<<"qa", 0>>)

LEMMA ResultsPutInit ==
    ASSUME Init
    PROVE  ResultsPut
<1>1. DOMAIN scene.stored \subseteq DOMAIN store
  BY DEF Init
<1> QED BY <1>1, InitResults DEF ResultsPut, Done, Stages, KindsOf

LEMMA ResultsPutStep ==
    ASSUME ResultsPut, AttemptInv, [Next]_vars
    PROVE  ResultsPut'
<1>1. \A k : Has(k) => Has(k)'
  BY StoreGrows DEF Has
<1>2. scene' = scene
  <2>1. CASE UNCHANGED vars
    BY <2>1 DEF vars
  <2>2. CASE Outer
    BY <2>2, OuterShape
  <2>3. CASE \E i \in Attempts : Step(i)
    BY <2>3, StepShape DEF Shape
  <2> QED BY <2>1, <2>2, <2>3, NextCases
<1>3. ASSUME \A j \in Attempts : /\ Done(j, "sfm")' => \/ Done(j, "sfm") /\ att'[j].n = att[j].n
                                                       \/ <<"sfm", att'[j].n>> \in DOMAIN store'
                                 /\ Done(j, "georef")' => Done(j, "georef") \/ Has(<<"qa", 0>>)'
                                 /\ att'[j].stage = "products" =>
                                        att[j].stage = "products" \/ Has(<<"qa", 0>>)
      PROVE  ResultsPut'
  <2>1. DOMAIN scene'.stored \subseteq DOMAIN store'
    BY <1>2, StoreGrows DEF ResultsPut
  <2> QED BY <1>1, <1>3, <2>1 DEF ResultsPut, Has
<1>4. CASE UNCHANGED vars
  BY <1>3, <1>4 DEF vars, Done
<1>5. CASE Outer
  <2>1. \A j \in Attempts : (Done(j, "sfm")' \/ Done(j, "georef")') => att'[j] = att[j]
    BY <1>5, OuterAlone DEF Done
  <2>2. ASSUME NEW j \in Attempts, att'[j].stage = "products"
        PROVE  att[j].stage = "products" \/ Has(<<"qa", 0>>)
    <3>1. CASE last' # last /\ j = last + 1
      <4>1. last \in Attempts /\ (att[last].stage = "products" \/ Done(last, "georef"))
        BY <1>5, <2>2, <3>1, BehindTheMesh
      <4> QED BY <4>1 DEF ResultsPut
    <3>2. CASE last' # last /\ j # last + 1
      BY <1>5, <2>2, <3>2, NewStage
    <3>3. CASE last' = last
      <4>1. last' # last + 1
        BY <3>3, Bounds
      <4> QED BY <1>5, <2>2, <4>1, OuterFrame DEF AttemptInv
    <3> QED BY <3>1, <3>2, <3>3
  <2> QED BY <1>3, <2>1, <2>2 DEF Done
<1>6. ASSUME NEW i \in Attempts, Step(i)
      PROVE  ResultsPut'
  <2>1. /\ AttemptsTyped /\ \A j \in Attempts : j # i => att'[j] = att[j]
        /\ att'[i].stage = att[i].stage /\ att[i].status = "running"
    BY <1>6, StepFrame DEF AttemptInv
  <2>2. ASSUME NEW pc, NEW n, NEW out, Continue(i, pc, n, out)
        PROVE  att'[i].status = "running"
    BY <2>1, <2>2, Continued
  <2>3. ASSUME Done(i, "sfm")'
        PROVE  <<"sfm", att'[i].n>> \in DOMAIN store'
    <3>1. Pose(i) /\ att'[i].status = "done"
      BY <1>6, <2>1, <2>3, StageOfStep DEF Done
    <3>2. CheckResult(i) \/ PutResult(i)
      <4>1. CASE ParseWarmStart(i)
        BY <2>2, <3>1, <4>1 DEF ParseWarmStart, KeepPriors, PutPriors
      <4>2. CASE PutCamerasText(i) \/ PutImagesText(i) \/ BuildDatabase(i) \/ RunMatching(i)
                 \/ PackAndUpload(i) \/ PutMarker(i) \/ OpenDatabase(i) \/ UploadModel(i)
                 \/ PutCenters(i)
        BY <2>2, <3>1, <4>2
           DEF PutCamerasText, PutImagesText, BuildDatabase, RunMatching,
               PackAndUpload, PutMarker, OpenDatabase, UploadModel, PutCenters, Goto
      <4>3. CASE IncrementalMapping(i)
        <5>1. End(i, "failed") \/ \E out : Continue(i, "model", att[i].n, out)
          BY <4>3 DEF IncrementalMapping
        <5> QED BY <2>1, <2>2, <3>1, <5>1, Closed
      <4> QED BY <3>1, <4>1, <4>2, <4>3 DEF Pose
    <3>3. End(i, "done") /\ <<"sfm", att[i].n>> \in DOMAIN store'
      BY <3>2 DEF CheckResult, PutResult, Found, Has, Put, With
    <3>4. att'[i].n = att[i].n
      BY <2>1, <3>3, Closed
    <3> QED BY <3>3, <3>4 DEF Has
  <2>4. ASSUME Done(i, "georef")'
        PROVE  Has(<<"qa", 0>>)'
    <3>1. Georef(i) /\ att'[i].status = "done"
      BY <1>6, <2>1, <2>4, StageOfStep DEF Done
    <3>2. PutReport(i)
      BY <2>2, <3>1 DEF Georef, GeorefScene, GetLod, PutLod, Goto
    <3> QED BY <3>2 DEF PutReport, Put, With, Has
  <2>5. \A j \in Attempts : j # i => (Done(j, "sfm")' => Done(j, "sfm") /\ att'[j].n = att[j].n)
                                     /\ (Done(j, "georef")' => Done(j, "georef"))
    BY <2>1 DEF Done
  <2> QED BY <1>3, <2>1, <2>3, <2>4, <2>5
<1> QED BY <1>4, <1>5, <1>6, NextCases

\* A stage that is done has put its result, and product generation finds what it copies: the
\* camera centers and the accuracy report.
THEOREM ResultsPutInvariant == Spec => []ResultsPut
<1>1. ResultsPut /\ AttemptInv /\ [Next]_vars => ResultsPut'
  BY ResultsPutStep
<1> QED BY <1>1, ResultsPutInit, AttemptInvariant, PTL DEF Spec

\* The product stage finds the mesh, the trajectory and the report.
LEMMA SourcesPut ==
    ASSUME AttemptInv, OrderInv, StoreInv, LodsPut, ResultsPut,
           NEW i \in Attempts, att[i].stage = "products"
    PROVE  Has(<<"lod", 0>>) /\ Has(<<"centers", PoseId>>) /\ Has(<<"qa", 0>>)
<1>1. Has(<<"lod", 0>>) /\ Has(<<"qa", 0>>)
  <2>1. 0 \in Lods
    BY SceneConstantsOK DEF SceneConstantsOK, Lods
  <2> QED BY <2>1 DEF LodsPut, AllLods, ResultsPut
<1>2. i \in 1 .. last /\ last \in Nat
  BY Started, Bounds DEF Stages, KindsOf
<1>3. CASE Served
  <2>1. scene.stage = "mesh"
    <3>1. scene.stage # "products"
      BY ScenesOK DEF ScenesOK, AttemptInv, TypeOK
    <3> QED BY <1>2, <1>3, <3>1 DEF OrderInv
  <2>2. \A j \in Attempts : att[j].stage # "sfm"
    <3> SUFFICES ASSUME NEW j \in Attempts, att[j].stage = "sfm" PROVE FALSE
      OBVIOUS
    <3>1. j \in 1 .. last
      BY Started DEF Stages, KindsOf
    <3> QED BY <1>3, <2>1, <3>1 DEF OrderInv
  <2>3. <<"centers", 1>> \in DOMAIN scene.stored
    BY <2>1, ScenesOK DEF ScenesOK, AttemptInv, TypeOK
  <2>4. PoseId = 1
    BY <2>2 DEF PoseId
  <2> QED BY <1>1, <2>3, <2>4 DEF ResultsPut, Has
<1>4. CASE ~Served
  <2>1. last <= 9 /\ \A j \in 1 .. last : att[j].stage = DirectStages[j]
    BY <1>4, DirectLength DEF AttemptInv, AttemptsCounted
  <2>2. i = 8
    <3>1. i \in 1 .. 9 /\ DirectStages[i] = "products"
      BY <1>2, <2>1
    <3> QED BY <3>1, DirectLength
  <2>3. 2 \in 1 .. last /\ 2 \in 1 .. last - 1 /\ 2 \in Attempts
    BY <1>2, <2>2, Counted
  <2>4. att[2].stage = "sfm" /\ att[2].status = "done"
    BY <1>4, <2>1, <2>3 DEF OrderInv, DirectStages
  <2>5. ASSUME NEW j \in Attempts, att[j].stage = "sfm" PROVE j = 2
    <3>1. j \in 1 .. last
      BY <2>5, Started DEF Stages, KindsOf
    <3>2. j \in 1 .. 9 /\ DirectStages[j] = "sfm"
      BY <1>2, <2>1, <2>5, <3>1
    <3> QED BY <3>2 DEF DirectStages
  <2>6. (CHOOSE j \in Attempts : att[j].stage = "sfm") = 2
    BY <2>3, <2>4, <2>5
  <2>7. PoseId = att[2].n
    BY <2>3, <2>4, <2>6 DEF PoseId
  <2>8. Has(<<"sfm", att[2].n>>)
    BY <2>3, <2>4 DEF ResultsPut, Done
  <2>9. NamesOf(<<"sfm", att[2].n>>, store[<<"sfm", att[2].n>>]) \subseteq DOMAIN store
    BY <2>8 DEF StoreInv, CompleteInv, Has
  <2>10. <<"centers", att[2].n>> \in NamesOf(<<"sfm", att[2].n>>, store[<<"sfm", att[2].n>>])
    BY DEF NamesOf
  <2> QED BY <1>1, <2>7, <2>9, <2>10 DEF Has
<1> QED BY <1>3, <1>4

\* The rows of the last attempt, and what it is about to list, are what is stored.
RowsFresh == \A r \in rows : r.by = last => Has(r.key) /\ r.checksum = store[r.key]

SumsFresh(i) == \A k \in DOMAIN att[i].out : Has(k) /\ att[i].out[k] = store[k]

FreshInv ==
    Alone => /\ RowsFresh
             /\ \A i \in Attempts : At(i, "products", "publish") => SumsFresh(i)

LEMMA FreshInvInit ==
    ASSUME Init
    PROVE  FreshInv
<1>1. rows = {}
  BY DEF Init
<1> QED BY <1>1, InitResults DEF FreshInv, RowsFresh, At

\* Whoever has listed its products puts nothing more.
LEMMA ListedPutsNothing ==
    ASSUME NEW i \in Attempts, Step(i), att[i].stage = "products", att[i].pc = "answer"
    PROVE  UNCHANGED <<store, rows>>
<1>1. ProductsEnd(i)
  BY StageOfStep DEF ProductGen, At, CopyMesh, CopyTrajectory, FindReport, AssemblePoints,
         AssembleRaster, AssembleProvenance, ComputeChecksums, publish_products
<1> QED BY <1>1 DEF ProductsEnd, Keep

LEMMA FreshInvStep ==
    ASSUME FreshInv, StoreInv, AttemptInv, [Next]_vars
    PROVE  FreshInv'
<1> SUFFICES ASSUME Alone'
             PROVE  RowsFresh' /\ \A i \in Attempts : At(i, "products", "publish")' => SumsFresh(i)'
  BY DEF FreshInv
<1>1. Alone
  BY Before
<1>2. \A r \in rows : r.by \in 1 .. last /\ r.by \in Attempts
  BY Counted DEF AttemptInv, TypeOK
<1>3. CASE UNCHANGED vars
  BY <1>1, <1>3 DEF vars, FreshInv, RowsFresh, SumsFresh, At, Running, Has
<1>4. CASE Outer
  <2>1. UNCHANGED <<store, rows>>
    BY <1>4, OuterShape
  <2>2. RowsFresh'
    <3>1. CASE last' = last
      BY <1>1, <2>1, <3>1 DEF FreshInv, RowsFresh, Has
    <3>2. CASE last' # last
      <4>1. last' = last + 1 /\ last \in Nat
        BY <1>4, <3>2, NewStage, Bounds
      <4>2. \A r \in rows : r.by # last'
        BY <1>2, <4>1
      <4> QED BY <2>1, <4>2 DEF RowsFresh
    <3> QED BY <3>1, <3>2
  <2>3. \A j \in Attempts : At(j, "products", "publish")' => att'[j] = att[j]
    BY <1>4, OuterAlone DEF At, Running
  <2> QED BY <1>1, <2>1, <2>2, <2>3 DEF FreshInv, SumsFresh, At, Running, Has
<1>5. ASSUME NEW i \in Attempts, Step(i)
      PROVE  RowsFresh' /\ \A j \in Attempts : At(j, "products", "publish")' => SumsFresh(j)'
  <2>1. /\ AttemptsTyped /\ \A j \in Attempts : j # i => att'[j] = att[j]
        /\ att'[i].stage = att[i].stage
        /\ \A j \in Attempts : Running(j) => j = i
        /\ i = last /\ last' = last
    BY <1>1, <1>5, StepFrame, StepShape, OnlyRunner DEF AttemptInv, Step, Shape
  <2>2. \A j \in Attempts : At(j, "products", "publish")' => j = i
    BY <2>1 DEF At, Running
  <2>3. \A k : Has(k) => Has(k)'
    BY StoreGrows DEF Has
  <2>4. ASSUME NEW r \in rows, r.by = last
        PROVE  UNCHANGED <<store, rows>>
    <3>1. att[i].stage = "products" /\ att[i].pc = "answer"
      BY <2>1, <2>4 DEF AttemptInv, RowsByProductGen
    <3> QED BY <1>5, <3>1, ListedPutsNothing
  <2>5. CASE publish_products(i)
    <3>1. At(i, "products", "publish") /\ UNCHANGED store
          /\ Continue(i, "answer", att[i].n, att[i].out)
          /\ rows' = rows \cup {[by |-> i, key |-> k, checksum |-> att[i].out[k]] :
                                    k \in DOMAIN att[i].out}
      BY <2>5 DEF publish_products, Goto
    <3>2. SumsFresh(i)
      BY <1>1, <3>1 DEF FreshInv
    <3>3. ASSUME NEW r \in rows', r.by = last'
          PROVE  Has(r.key)' /\ r.checksum = store'[r.key]
      <4>1. CASE r \in rows
        BY <1>1, <2>1, <3>1, <3>3, <4>1 DEF FreshInv, RowsFresh, Has
      <4>2. CASE r \notin rows
        <5>1. PICK k \in DOMAIN att[i].out : r = [by |-> i, key |-> k, checksum |-> att[i].out[k]]
          BY <3>1, <3>3, <4>2
        <5> QED BY <3>1, <3>2, <5>1 DEF SumsFresh, Has
      <4> QED BY <4>1, <4>2
    <3>4. ~At(i, "products", "publish")'
      BY <2>1, <3>1, Continued DEF At
    <3> QED BY <2>2, <3>3, <3>4 DEF RowsFresh
  <2>6. CASE ~publish_products(i)
    <3>1. UNCHANGED rows
      BY <1>5, <2>6, StepShape
    <3>2. RowsFresh'
      <4> SUFFICES ASSUME NEW r \in rows, r.by = last PROVE Has(r.key)' /\ r.checksum = store'[r.key]
        BY <2>1, <3>1 DEF RowsFresh
      <4>1. UNCHANGED store
        BY <2>4
      <4> QED BY <1>1, <4>1 DEF FreshInv, RowsFresh, Has
    <3>3. ASSUME At(i, "products", "publish")' PROVE SumsFresh(i)'
      <4>1. ProductGen(i)
        BY <1>5, <2>1, <3>3, StageOfStep DEF At
      <4>2. ComputeChecksums(i)
        <5>1. ASSUME NEW pc, NEW n, NEW out, Continue(i, pc, n, out), pc # "publish" PROVE FALSE
          BY <2>1, <3>3, <5>1, Continued DEF At
        <5>2. ASSUME NEW s \in {"done"}, End(i, s) PROVE FALSE
          BY <2>1, <3>3, <5>2, Closed DEF At, Running
        <5> QED BY <2>6, <4>1, <5>1, <5>2
               DEF ProductGen, CopyMesh, CopyTrajectory, CopyIfExists, FindReport,
                   AssemblePoints, PutPoints, PutProduct, AssembleRaster, AssembleProvenance,
                   ProductsEnd, Goto
      <4>3. Continue(i, "publish", 0, [k \in DOMAIN att[i].out |-> store[k]]) /\ UNCHANGED store
        BY <4>2 DEF ComputeChecksums
      <4>4. att'[i].out = [k \in DOMAIN att[i].out |-> store[k]]
        BY <2>1, <4>3, Continued
      <4>5. DOMAIN att[i].out \subseteq DOMAIN store
        BY <2>1, <4>2 DEF ComputeChecksums, At, StoreInv, CompleteInv, Prepared
      <4> QED BY <4>3, <4>4, <4>5 DEF SumsFresh, Has
    <3> QED BY <2>2, <3>2, <3>3
  <2> QED BY <2>5, <2>6
<1> QED BY <1>3, <1>4, <1>5, NextCases

\* The products that an attempt lists, by the call it is at.
ProductsBy ==
    [begin |-> {}, trajectory |-> {"O-1"}, report |-> {"O-1", "O-5"},
     points |-> {"O-1", "O-5", "qa"}, raster |-> {"O-1", "O-5", "qa", "O-2"},
     provenance |-> {"O-1", "O-5", "qa", "O-2", "O-6"},
     checksums |-> {"O-1", "O-5", "qa", "O-2", "O-6", "O-9"},
     publish |-> {"O-1", "O-5", "qa", "O-2", "O-6", "O-9"},
     answer |-> {"O-1", "O-5", "qa", "O-2", "O-6", "O-9"}]

Keys(names) == {<<o, 0>> : o \in names}

InProducts(i) == Running(i) /\ att[i].stage = "products"

ListsOf(i) == att[i].pc \in DOMAIN ProductsBy /\ DOMAIN att[i].out = Keys(ProductsBy[att[i].pc])

AllListed(i) == {r.key : r \in RowsOf(i)} = RequiredProducts

ListingInv ==
    Sighted =>
        \A i \in Attempts :
            /\ InProducts(i) => ListsOf(i)
            /\ (Done(i, "products") \/ At(i, "products", "answer")) => AllListed(i)

LEMMA ListingInvInit ==
    ASSUME Init
    PROVE  ListingInv
BY InitResults DEF ListingInv, InProducts, Done, At

\* A product more, at the next call.
LEMMA OneMore ==
    ASSUME NEW out, NEW S, NEW o, NEW v, DOMAIN out = Keys(S)
    PROVE  DOMAIN With(out, <<o, 0>>, v) = Keys(S \cup {o})
BY DEF With, Keys

LEMMA ListingInvProducts ==
    ASSUME Sighted', ListingInv, Sighted, OrderInv, StoreInv, LodsPut, ResultsPut, AttemptInv,
           [Next]_vars, NEW i \in Attempts, Step(i), att[i].stage = "products"
    PROVE  /\ InProducts(i)' => ListsOf(i)'
           /\ (Done(i, "products") \/ At(i, "products", "answer"))' => AllListed(i)'
<1> DEFINE Goal == /\ InProducts(i)' => ListsOf(i)'
                   /\ (Done(i, "products") \/ At(i, "products", "answer"))' => AllListed(i)'
<1>1. /\ AttemptsTyped /\ Running(i) /\ ProductGen(i) /\ att'[i].stage = "products"
      /\ ListsOf(i)
  BY StepFrame, StageOfStep DEF AttemptInv, Step, ListingInv, InProducts
<1>2. Has(<<"lod", 0>>) /\ Has(<<"centers", PoseId>>) /\ Has(<<"qa", 0>>)
  BY SourcesPut
<1>3. ASSUME NEW pc \in DOMAIN ProductsBy, NEW out, Continue(i, pc, 0, out)
             \/ Continue(i, pc, att[i].n, out)
      PROVE  /\ faults' = faults /\ ~Fails
             /\ att'[i].pc = pc /\ att'[i].out = out /\ Running(i)'
  <2>1. att'[i].status = "running" /\ att'[i].pc = pc /\ att'[i].out = out
    BY <1>1, <1>3, Continued DEF Running
  <2>2. faults' = faults
    BY <1>1, <2>1, SightedStep
  <2>3. faults \in Nat
    BY DEF AttemptInv
  <2> QED BY <2>1, <2>2, <2>3 DEF Fails, Running
<1>4. ASSUME NEW pc \in DOMAIN ProductsBy, NEW out, Continue(i, pc, 0, out),
             DOMAIN out = Keys(ProductsBy[pc]), pc # "answer"
      PROVE  Goal
  <2>1. att'[i].pc = pc /\ att'[i].out = out /\ Running(i)'
    BY <1>3, <1>4
  <2> QED BY <1>4, <2>1 DEF ListsOf, Done, At, Running
\* the product o is put, or found, and listed
<1>5. ASSUME NEW pc \in DOMAIN ProductsBy, NEW o, pc # "answer",
             Continue(i, pc, 0, Listed(i, <<o, 0>>)),
             ProductsBy[pc] = ProductsBy[att[i].pc] \cup {o}
      PROVE  Goal
  <2>1. DOMAIN Listed(i, <<o, 0>>) = Keys(ProductsBy[pc])
    BY <1>1, <1>5, OneMore DEF ListsOf, Listed
  <2> QED BY <1>4, <1>5, <2>1
<1>6. CASE CopyMesh(i)
  <2>1. att[i].pc = "begin"
    BY <1>6 DEF CopyMesh, At
  <2>2. ~(NotFound(<<"lod", 0>>) /\ Continue(i, "trajectory", 0, att[i].out))
    BY <1>2, <1>3 DEF NotFound, ProductsBy
  <2>3. Continue(i, "trajectory", 0, Listed(i, <<"O-1", 0>>))
    BY <1>6, <2>2 DEF CopyMesh, CopyIfExists
  <2>4. ProductsBy["trajectory"] = ProductsBy["begin"] \cup {"O-1"} /\ "trajectory" \in DOMAIN ProductsBy
    BY DEF ProductsBy
  <2> QED BY <1>5, <2>1, <2>3, <2>4
<1>7. CASE CopyTrajectory(i)
  <2>1. att[i].pc = "trajectory"
    BY <1>7 DEF CopyTrajectory, At
  <2>2. ~(NotFound(<<"centers", PoseId>>) /\ Continue(i, "report", 0, att[i].out))
    BY <1>2, <1>3 DEF NotFound, ProductsBy
  <2>3. Continue(i, "report", 0, Listed(i, <<"O-5", 0>>))
    BY <1>7, <2>2 DEF CopyTrajectory, CopyIfExists
  <2>4. ProductsBy["report"] = ProductsBy["trajectory"] \cup {"O-5"} /\ "report" \in DOMAIN ProductsBy
    BY DEF ProductsBy
  <2> QED BY <1>5, <2>1, <2>3, <2>4
<1>8. CASE FindReport(i)
  <2>1. att[i].pc = "report"
    BY <1>8 DEF FindReport, At
  <2>2. ~(NotFound(<<"qa", 0>>) /\ Goto(i, "points"))
    BY <1>2, <1>3 DEF NotFound, ProductsBy, Goto
  <2>3. Continue(i, "points", 0, Listed(i, <<"qa", 0>>))
    BY <1>8, <2>2 DEF FindReport
  <2>4. ProductsBy["points"] = ProductsBy["report"] \cup {"qa"} /\ "points" \in DOMAIN ProductsBy
    BY DEF ProductsBy
  <2> QED BY <1>5, <2>1, <2>3, <2>4
<1>9. CASE AssemblePoints(i)
  <2>1. att[i].pc = "points" /\ Continue(i, "raster", 0, Listed(i, <<"O-2", 0>>))
    BY <1>9 DEF AssemblePoints, PutPoints, PutProduct, At
  <2>2. ProductsBy["raster"] = ProductsBy["points"] \cup {"O-2"} /\ "raster" \in DOMAIN ProductsBy
    BY DEF ProductsBy
  <2> QED BY <1>5, <2>1, <2>2
<1>10. CASE AssembleRaster(i)
  <2>1. att[i].pc = "raster" /\ Continue(i, "provenance", 0, Listed(i, <<"O-6", 0>>))
    BY <1>10 DEF AssembleRaster, PutProduct, At
  <2>2. ProductsBy["provenance"] = ProductsBy["raster"] \cup {"O-6"}
        /\ "provenance" \in DOMAIN ProductsBy
    BY DEF ProductsBy
  <2> QED BY <1>5, <2>1, <2>2
<1>11. CASE AssembleProvenance(i)
  <2>1. att[i].pc = "provenance" /\ Continue(i, "checksums", 0, Listed(i, <<"O-9", 0>>))
    BY <1>11 DEF AssembleProvenance, PutProduct, At
  <2>2. ProductsBy["checksums"] = ProductsBy["provenance"] \cup {"O-9"}
        /\ "checksums" \in DOMAIN ProductsBy
    BY DEF ProductsBy
  <2> QED BY <1>5, <2>1, <2>2
<1>12. CASE ComputeChecksums(i)
  <2>1. att[i].pc = "checksums"
        /\ Continue(i, "publish", 0, [k \in DOMAIN att[i].out |-> store[k]])
    BY <1>12 DEF ComputeChecksums, At
  <2>2. ProductsBy["publish"] = ProductsBy["checksums"] /\ "publish" \in DOMAIN ProductsBy
    BY DEF ProductsBy
  <2>3. DOMAIN att[i].out = Keys(ProductsBy["checksums"])
    BY <1>1, <2>1 DEF ListsOf
  <2> QED BY <1>4, <2>1, <2>2, <2>3
<1>13. CASE publish_products(i)
  <2>1. att[i].pc = "publish" /\ Continue(i, "answer", att[i].n, att[i].out)
        /\ rows' = rows \cup {[by |-> i, key |-> k, checksum |-> att[i].out[k]] :
                                    k \in DOMAIN att[i].out}
    BY <1>13 DEF publish_products, Goto, At
  <2>2. ProductsBy["answer"] = ProductsBy["publish"] /\ "answer" \in DOMAIN ProductsBy
    BY DEF ProductsBy
  <2>3. att'[i].pc = "answer" /\ att'[i].out = att[i].out
    BY <1>3, <2>1, <2>2
  <2>4. DOMAIN att[i].out = Keys(ProductsBy["publish"])
    BY <1>1, <2>1 DEF ListsOf
  <2>5. Keys(ProductsBy["publish"]) = RequiredProducts
    BY DEF Keys, ProductsBy, RequiredProducts
  <2>6. \A r \in rows : r.by # i
    BY <2>1 DEF AttemptInv, RowsByProductGen
  <2> DEFINE new(k) == [by |-> i, key |-> k, checksum |-> att[i].out[k]]
  <2>7. {r.key : r \in {r \in rows' : r.by = i}} = DOMAIN att[i].out
    <3>1. {r \in rows' : r.by = i} = {new(k) : k \in DOMAIN att[i].out}
      BY <2>1, <2>6
    <3>2. \A k : new(k).key = k
      OBVIOUS
    <3> HIDE DEF new
    <3> QED BY <3>1, <3>2
  <2> QED BY <2>2, <2>3, <2>4, <2>5, <2>7 DEF ListsOf, AllListed, RowsOf
<1>14. CASE ProductsEnd(i)
  <2>1. At(i, "products", "answer") /\ End(i, "done") /\ UNCHANGED rows
    BY <1>14 DEF ProductsEnd, Keep
  <2>2. AllListed(i)
    BY <2>1 DEF ListingInv
  <2>3. ~Running(i)'
    BY <1>1, <2>1, Closed DEF Running
  <2> QED BY <2>1, <2>2, <2>3 DEF InProducts, AllListed, RowsOf
<1> QED BY <1>1, <1>6, <1>7, <1>8, <1>9, <1>10, <1>11, <1>12, <1>13, <1>14 DEF ProductGen

LEMMA ListingInvStep ==
    ASSUME ListingInv, OrderInv, StoreInv, LodsPut, ResultsPut, AttemptInv, [Next]_vars
    PROVE  ListingInv'
<1> SUFFICES ASSUME Sighted', NEW j \in Attempts
             PROVE  /\ InProducts(j)' => ListsOf(j)'
                    /\ (Done(j, "products") \/ At(j, "products", "answer"))' => AllListed(j)'
  BY DEF ListingInv
<1>1. Sighted
  BY Before
<1>2. /\ InProducts(j) => ListsOf(j)
      /\ (Done(j, "products") \/ At(j, "products", "answer")) => AllListed(j)
  BY <1>1 DEF ListingInv
<1>3. CASE UNCHANGED vars
  BY <1>2, <1>3 DEF vars, InProducts, ListsOf, Done, At, Running, AllListed, RowsOf
<1>4. CASE Outer
  <2>1. UNCHANGED rows
    BY <1>4, OuterShape
  <2>2. CASE att'[j] = att[j]
    BY <1>2, <2>1, <2>2 DEF InProducts, ListsOf, Done, At, Running, AllListed, RowsOf
  <2>3. CASE att'[j] # att[j]
    <3>1. ~Done(j, "products")'
      BY <1>4, <2>3, OuterAlone DEF Done
    <3>2. Running(j)' => att'[j].pc = "begin" /\ att'[j].out = Empty
      BY <1>4, <2>3, OuterAlone DEF Running
    <3>3. "begin" \in DOMAIN ProductsBy /\ Keys(ProductsBy["begin"]) = DOMAIN Empty
      BY DEF ProductsBy, Keys, Empty
    <3> QED BY <3>1, <3>2, <3>3 DEF InProducts, ListsOf, At
  <2> QED BY <2>2, <2>3
<1>5. ASSUME NEW i \in Attempts, Step(i), i # j
      PROVE  /\ InProducts(j)' => ListsOf(j)'
             /\ (Done(j, "products") \/ At(j, "products", "answer"))' => AllListed(j)'
  <2>1. att'[j] = att[j]
    BY <1>5, StepFrame DEF AttemptInv
  <2>2. RowsOf(j)' = RowsOf(j)
    <3>1. CASE UNCHANGED rows
      BY <3>1 DEF RowsOf
    <3>2. CASE publish_products(i)
      BY <1>5, <3>2 DEF publish_products, RowsOf
    <3> QED BY <1>5, <3>1, <3>2, StepShape
  <2> QED BY <1>2, <2>1, <2>2 DEF InProducts, ListsOf, Done, At, Running, AllListed
<1>6. ASSUME Step(j), att[j].stage # "products"
      PROVE  /\ InProducts(j)' => ListsOf(j)'
             /\ (Done(j, "products") \/ At(j, "products", "answer"))' => AllListed(j)'
  <2>1. att'[j].stage = att[j].stage
    BY <1>6, StepFrame DEF AttemptInv
  <2> QED BY <1>6, <2>1 DEF InProducts, Done, At
<1>7. ASSUME Step(j), att[j].stage = "products"
      PROVE  /\ InProducts(j)' => ListsOf(j)'
             /\ (Done(j, "products") \/ At(j, "products", "answer"))' => AllListed(j)'
  BY <1>1, <1>7, ListingInvProducts
<1> QED BY <1>3, <1>4, <1>5, <1>6, <1>7, NextCases

CatalogInv == OrderInv /\ LodsPut /\ ResultsPut /\ FreshInv /\ ListingInv

\* The parts of the catalog's invariant hold together: the order of the stages, their results,
\* the checksums of what is listed, and which products each call has listed.
THEOREM CatalogInvariant == Spec => []CatalogInv
<1>1. FreshInv /\ StoreInv /\ AttemptInv /\ [Next]_vars => FreshInv'
  BY FreshInvStep
<1>2. ListingInv /\ OrderInv /\ StoreInv /\ LodsPut /\ ResultsPut /\ AttemptInv /\ [Next]_vars
        => ListingInv'
  BY ListingInvStep
<1> QED BY <1>1, <1>2, FreshInvInit, ListingInvInit, OrderInvariant, LodsPutInvariant,
           ResultsPutInvariant, StoreInvariant, AttemptInvariant, PTL DEF Spec, CatalogInv

\* When the product stage completes, the catalog rows of its attempt show every product with
\* the checksum of the stored object (productgen.py:184-209), whatever earlier attempts had
\* uploaded or listed.
THEOREM CatalogHolds == Spec => []CatalogFresh
<1>1. CatalogInv /\ AttemptInv => CatalogFresh
  <2> SUFFICES ASSUME CatalogInv, AttemptInv, Alone, last > 0, Done(last, "products")
               PROVE  /\ \A r \in RowsOf(last) : Has(r.key) /\ r.checksum = store[r.key]
                      /\ Sighted => {r.key : r \in RowsOf(last)} = RequiredProducts
    BY DEF CatalogFresh
  <2>1. last \in Attempts
    <3>1. last \in 1 .. last
      BY Bounds
    <3> QED BY <3>1, Counted
  <2>2. RowsFresh
    BY DEF CatalogInv, FreshInv
  <2>3. Sighted => AllListed(last)
    BY <2>1 DEF CatalogInv, ListingInv
  <2> QED BY <2>2, <2>3 DEF RowsFresh, RowsOf, AllListed
<1> QED BY <1>1, CatalogInvariant, AttemptInvariant, PTL

-------------------------------------------------------------------------------
(* The map.                                                                *)

Db(by) == [id |-> 1, by |-> by]

InSfm(i) == Running(i) /\ att[i].stage = "sfm"

\* What an attempt knows of its database, by the call it is at.
Mapping(i) ==
    /\ att[i].pc # "begin" => att[i].n = 1
    /\ att[i].pc = "match" => OnDisk(i, "db", 0) /\ Read(i, "db", 0) = Db(i)
    /\ att[i].pc \in {"pack", "map"} => OnDisk(i, "db", 0) /\ Read(i, "db", 0) = Db(0)
    /\ att[i].pc = "adjust" => Has(<<"snapshot", 1>>)
    /\ att[i].pc \in {"model", "answer"} => att[i].out.db = Db(0)

\* A database is matched, or an attempt at work is matching it.
DbKnown(m, y) ==
    \/ disk[m][y] = Db(0)
    \/ \E i \in Attempts : At(i, "sfm", "match") /\ att[i].on = m /\ y = Path(i, "db", 0)

DbsKnown == \A m \in Machines : \A y \in DOMAIN disk[m] : y[1] = "db" => DbKnown(m, y)

StoredMaps ==
    /\ ~Has(<<"sfm", 0>>)
    /\ Has(<<"sfm", 1>>) => store[<<"sfm", 1>>] = Db(0)
    /\ Has(<<"snapshot", 1>>) => store[<<"snapshot", 1>>] = Db(0)

MapInv ==
    (NoSharedMachine /\ Sighted /\ ~CutWhileMatching) =>
        /\ StoredMaps /\ DbsKnown
        /\ \A i \in Attempts : InSfm(i) => Mapping(i)

LEMMA MapInvInit ==
    ASSUME Init
    PROVE  MapInv
<1>1. StoredMaps
  BY InitResults DEF StoredMaps, Results
<1>2. DbsKnown
  BY DEF Init, DbsKnown, Empty
<1> QED BY <1>1, <1>2, InitResults DEF MapInv, InSfm

\* An attempt that was cut short stays so.
LEMMA UncutBefore ==
    ASSUME AttemptInv, [Next]_vars, CutWhileMatching
    PROVE  CutWhileMatching'
<1>1. PICK j \in Attempts : att[j].stage = "sfm" /\ ~Running(j)
                            /\ att[j].pc \in {"match", "pack", "mark"}
  BY DEF CutWhileMatching
<1>2. att[j].stage \in Stages
  BY <1>1 DEF Stages, KindsOf
<1>3. CASE UNCHANGED vars
  BY <1>3 DEF vars, CutWhileMatching, Running
<1>4. CASE Outer
  BY <1>1, <1>2, <1>4, OuterKeeps DEF CutWhileMatching, Running
<1>5. ASSUME NEW i \in Attempts, Step(i)
      PROVE  CutWhileMatching'
  <2>1. i # j
    BY <1>1, <1>5 DEF Step
  <2>2. att'[j] = att[j]
    BY <1>5, <2>1, StepFrame DEF AttemptInv
  <2> QED BY <1>1, <2>2 DEF CutWhileMatching, Running
<1> QED BY <1>3, <1>4, <1>5, NextCases

LEMMA MapInvPose ==
    ASSUME MapInv, NoSharedMachine, Sighted, ~CutWhileMatching, Sighted',
           RivalsKnown, StoreInv, AttemptInv, [Next]_vars, NEW i \in Attempts, Step(i),
           att[i].stage = "sfm", ~CutWhileMatching'
    PROVE  StoredMaps' /\ DbsKnown' /\ (InSfm(i)' => Mapping(i)')
<1> DEFINE Goal == StoredMaps' /\ DbsKnown' /\ (InSfm(i)' => Mapping(i)')
           m == att[i].on
           y0 == Path(i, "db", 0)
<1>1. /\ AttemptsTyped /\ Running(i) /\ Pose(i) /\ Mapping(i) /\ StoredMaps /\ DbsKnown
      /\ att'[i].stage = "sfm" /\ att'[i].on = att[i].on /\ att'[i].run = att[i].run
      /\ \A j \in Attempts : j # i => att'[j] = att[j]
  BY StepFrame, StageOfStep DEF AttemptInv, Step, MapInv, InSfm
<1>2. m \in Machines /\ DOMAIN disk = Machines
  BY OnMachine DEF AttemptInv, TypeOK, Stages, KindsOf
<1>3. \A j \in Attempts : (Running(j) /\ att[j].on = m) => j = i
  BY <1>1, OwnMachine
<1>4. ASSUME NEW pc, NEW n, NEW out, Continue(i, pc, n, out)
      PROVE  /\ faults' = faults /\ ~Fails
             /\ att'[i].pc = pc /\ att'[i].n = n /\ att'[i].out = out /\ Running(i)'
  <2>1. att'[i].status = "running" /\ att'[i].pc = pc /\ att'[i].n = n /\ att'[i].out = out
    BY <1>1, <1>4, Continued DEF Running
  <2>2. faults' = faults
    BY <1>1, <2>1, SightedStep
  <2>3. faults \in Nat
    BY DEF AttemptInv
  <2> QED BY <2>1, <2>2, <2>3 DEF Fails, Running
\* databases that nobody touches
<1>5. ASSUME NEW k \in Machines, NEW y \in DOMAIN disk'[k], y[1] = "db", FileStays(k, y),
             k = m => (y # y0 \/ att[i].pc # "match")
      PROVE  DbKnown(k, y)'
  <2>1. DbKnown(k, y) /\ disk'[k][y] = disk[k][y]
    BY <1>1, <1>5 DEF FileStays, DbsKnown
  <2>2. ASSUME NEW j \in Attempts, At(j, "sfm", "match"), att[j].on = k, y = Path(j, "db", 0)
        PROVE  At(j, "sfm", "match")' /\ att'[j].on = k /\ y = Path(j, "db", 0)'
    <3>1. j # i
      <4>1. SUFFICES ASSUME j = i PROVE FALSE
        OBVIOUS
      <4> QED BY <1>5, <2>2, <4>1 DEF At
    <3> QED BY <1>1, <2>2, <3>1 DEF At, Running, Path
  <2> QED BY <2>1, <2>2 DEF DbKnown
<1>6. ASSUME UNCHANGED disk, att[i].pc # "match" PROVE DbsKnown'
  BY <1>5, <1>6 DEF DbsKnown, FileStays
<1>7. ASSUME NEW v, Write(i, "db", 0, v),
             v = Db(0) \/ (att'[i].pc = "match" /\ Running(i)')
      PROVE  DbsKnown'
  <2> SUFFICES ASSUME NEW k \in Machines, NEW y \in DOMAIN disk'[k], y[1] = "db"
               PROVE  DbKnown(k, y)'
    BY DEF DbsKnown
  <2>1. CASE k = m /\ y = y0
    <3>1. disk'[k][y] = v
      BY <1>2, <1>7, <2>1 DEF Write, With
    <3>2. y = Path(i, "db", 0)' /\ att'[i].on = k
      BY <1>1, <2>1 DEF Path
    <3> QED BY <1>1, <1>7, <3>1, <3>2 DEF DbKnown, At
  <2>2. CASE ~(k = m /\ y = y0)
    <3>1. FileStays(k, y)
      BY <1>2, <1>7, <2>2, WriteStays
    <3> QED BY <1>5, <2>2, <3>1
  <2> QED BY <2>1, <2>2
\* objects that have nothing to do with it
<1>8. ASSUME NEW s, s \notin {"sfm", "snapshot"}, NEW n, NEW v, Put(<<s, n>>, v)
      PROVE  StoredMaps'
  BY <1>1, <1>8 DEF StoredMaps, Put, With, Has
<1>9. ASSUME UNCHANGED store PROVE StoredMaps'
  BY <1>1, <1>9 DEF StoredMaps, Has
<1>10. CASE ParseWarmStart(i)
  <2>1. att[i].pc = "begin" /\ UNCHANGED disk
    BY <1>10 DEF ParseWarmStart, InPose, At
  <2>2. ASSUME NEW h, KeepPriors(i, h) \/ PutPriors(i, h)
        PROVE  /\ StoredMaps' /\ ~Fails /\ att'[i].n = h /\ att'[i].pc \in {"features", "cameras"}
    BY <1>4, <1>8, <1>9, <2>2 DEF KeepPriors, PutPriors
  <2>3. KeepPriors(i, 1) \/ PutPriors(i, 1)
    BY <1>10, <2>2 DEF ParseWarmStart
  <2>4. StoredMaps' /\ att'[i].n = 1 /\ att'[i].pc \in {"features", "cameras"}
    BY <2>2, <2>3
  <2> QED BY <1>6, <2>1, <2>4 DEF Mapping
<1>11. CASE PutCamerasText(i) \/ PutImagesText(i)
  <2>1. att[i].pc \in {"cameras", "images"} /\ UNCHANGED disk
    BY <1>11 DEF PutCamerasText, PutImagesText, InPose, At
  <2>2. StoredMaps'
    BY <1>8, <1>11 DEF PutCamerasText, PutImagesText
  <2>3. \E pc \in {"images", "features"} : Continue(i, pc, att[i].n, att[i].out)
    BY <1>11 DEF PutCamerasText, PutImagesText, Goto
  <2>4. att'[i].n = 1 /\ att'[i].pc \in {"images", "features"}
    BY <1>1, <1>4, <2>1, <2>3 DEF Mapping
  <2> QED BY <1>6, <2>1, <2>2, <2>4 DEF Mapping
<1>12. CASE BuildDatabase(i)
  <2>1. att[i].pc = "features" /\ att[i].n = 1 /\ UNCHANGED store
    BY <1>1, <1>12 DEF BuildDatabase, InPose, At, Mapping
  <2>2. CASE Found(<<"matched", att[i].n>>) /\ Goto(i, "adjust") /\ UNCHANGED disk
    <3>1. att'[i].pc = "adjust" /\ att'[i].n = 1
      BY <1>4, <2>1, <2>2 DEF Goto
    <3>2. NamesOf(<<"matched", 1>>, store[<<"matched", 1>>]) \subseteq DOMAIN store
      BY <2>1, <2>2 DEF Found, Has, StoreInv, CompleteInv
    <3>3. <<"snapshot", 1>> \in NamesOf(<<"matched", 1>>, store[<<"matched", 1>>])
      BY DEF NamesOf
    <3> QED BY <1>6, <1>9, <2>1, <2>2, <3>1, <3>2, <3>3 DEF Mapping, Has
  <2>3. CASE Database(i, i) /\ Goto(i, "match")
    <3>1. att'[i].pc = "match" /\ att'[i].n = 1 /\ Running(i)'
      BY <1>4, <2>1, <2>3 DEF Goto
    <3>2. Write(i, "db", 0, Db(i))
      BY <2>1, <2>3 DEF Database, Db
    <3>3. OnDisk(i, "db", 0)' /\ Read(i, "db", 0)' = Db(i)
      BY <1>1, <1>2, <3>2 DEF Write, With, OnDisk, Read, Path
    <3> QED BY <1>7, <1>9, <2>1, <3>1, <3>2, <3>3 DEF Mapping
  <2> QED BY <1>12, <2>2, <2>3 DEF BuildDatabase
<1>13. CASE RunMatching(i)
  <2>1. att[i].pc = "match" /\ att[i].n = 1 /\ UNCHANGED store /\ Read(i, "db", 0) = Db(i)
    BY <1>1, <1>13 DEF RunMatching, InPose, At, Mapping
  <2>2. Read(i, "db", 0).by = i
    BY <2>1 DEF Db
  <2>3. Write(i, "db", 0, Db(0))
    BY <1>13, <2>1, <2>2 DEF RunMatching, Database, Db
  <2>4. att'[i].pc = "pack" /\ att'[i].n = 1
    BY <1>4, <1>13, <2>1 DEF RunMatching, Goto
  <2>5. OnDisk(i, "db", 0)' /\ Read(i, "db", 0)' = Db(0)
    BY <1>1, <1>2, <2>3 DEF Write, With, OnDisk, Read, Path
  <2>6. DbsKnown'
    <3> DEFINE v == Db(0)
    <3>1. Write(i, "db", 0, v) /\ v = Db(0)
      BY <2>3
    <3> HIDE DEF v
    <3> QED BY <1>7, <3>1
  <2>7. StoredMaps'
    BY <1>9, <2>1
  <2>8. Mapping(i)'
    BY <2>4, <2>5 DEF Mapping
  <2> QED BY <2>6, <2>7, <2>8
<1>14. CASE PackAndUpload(i)
  <2>1. /\ att[i].pc = "pack" /\ att[i].n = 1 /\ UNCHANGED disk
        /\ Put(<<"snapshot", 1>>, Db(0))
    BY <1>1, <1>14 DEF PackAndUpload, InPose, At, Mapping
  <2>2. att'[i].pc = "mark" /\ att'[i].n = 1
    BY <1>4, <1>14, <2>1 DEF PackAndUpload, Goto
  <2>3. StoredMaps'
    BY <1>1, <2>1 DEF StoredMaps, Put, With, Has
  <2> QED BY <1>6, <2>1, <2>2, <2>3 DEF Mapping
<1>15. CASE PutMarker(i)
  <2>1. att[i].pc = "mark" /\ att[i].n = 1 /\ UNCHANGED disk /\ Put(<<"matched", 1>>, "marker")
    BY <1>1, <1>15 DEF PutMarker, InPose, At, Mapping
  <2>2. att'[i].pc = "adjust" /\ att'[i].n = 1
    BY <1>4, <1>15, <2>1 DEF PutMarker, Goto
  <2>3. <<"snapshot", 1>> \in DOMAIN store
    BY <1>1, <2>1 DEF StoreInv, CompleteInv, Prepared
  <2>4. Has(<<"snapshot", 1>>)'
    BY <2>3, StoreGrows DEF Has
  <2>5. StoredMaps'
    BY <1>8, <2>1
  <2> QED BY <1>6, <2>1, <2>2, <2>4, <2>5 DEF Mapping
<1>16. CASE OpenDatabase(i)
  <2>1. att[i].pc = "adjust" /\ att[i].n = 1 /\ UNCHANGED store /\ Has(<<"snapshot", 1>>)
    BY <1>1, <1>16 DEF OpenDatabase, InPose, At, Mapping
  <2>2. att'[i].pc = "map" /\ att'[i].n = 1
    BY <1>4, <1>16, <2>1 DEF OpenDatabase, Goto
  <2>3. CASE OnDisk(i, "db", 0) /\ UNCHANGED disk
    <3>1. DbKnown(m, y0) /\ y0[1] = "db"
      BY <1>1, <1>2, <2>3 DEF DbsKnown, OnDisk, Path
    <3>2. disk[m][y0] = Db(0)
      <4>1. ASSUME NEW j \in Attempts, At(j, "sfm", "match"), att[j].on = m PROVE FALSE
        BY <1>3, <2>1, <4>1 DEF At
      <4> QED BY <3>1, <4>1 DEF DbKnown
    <3>3. OnDisk(i, "db", 0)' /\ Read(i, "db", 0)' = Db(0)
      BY <1>1, <2>3, <3>2 DEF OnDisk, Read, Path
    <3> QED BY <1>6, <1>9, <2>1, <2>2, <2>3, <3>3 DEF Mapping
  <2>4. CASE Write(i, "db", 0, store[<<"snapshot", att[i].n>>])
    <3>1. Write(i, "db", 0, Db(0))
      BY <1>1, <2>1, <2>4 DEF StoredMaps
    <3>2. OnDisk(i, "db", 0)' /\ Read(i, "db", 0)' = Db(0)
      BY <1>1, <1>2, <3>1 DEF Write, With, OnDisk, Read, Path
    <3>3. DbsKnown'
      <4> DEFINE v == Db(0)
      <4>1. Write(i, "db", 0, v) /\ v = Db(0)
        BY <3>1
      <4> HIDE DEF v
      <4> QED BY <1>7, <4>1
    <3>4. StoredMaps'
      BY <1>9, <2>1
    <3>5. Mapping(i)'
      BY <2>2, <3>2 DEF Mapping
    <3> QED BY <3>3, <3>4, <3>5
  <2> QED BY <1>16, <2>3, <2>4 DEF OpenDatabase
<1>17. ASSUME NEW s, End(i, s), s # "running" PROVE ~InSfm(i)'
  BY <1>1, <1>17, Closed DEF InSfm, Running
<1>18. CASE CheckResult(i)
  <2>1. att[i].pc = "map" /\ UNCHANGED <<store, disk>> /\ End(i, "done")
    BY <1>18 DEF CheckResult, InPose, At
  <2> QED BY <1>6, <1>9, <1>17, <2>1
<1>19. CASE IncrementalMapping(i)
  <2>1. att[i].pc = "map" /\ UNCHANGED <<store, disk>> /\ att[i].n = 1 /\ Read(i, "db", 0) = Db(0)
    BY <1>1, <1>19 DEF IncrementalMapping, InPose, At, Mapping
  <2>2. \/ End(i, "failed")
        \/ Continue(i, "model", att[i].n, [db |-> Db(0), file |-> 1])
    BY <1>19, <2>1 DEF IncrementalMapping
  <2>3. CASE End(i, "failed")
    BY <1>6, <1>9, <1>17, <2>1, <2>3
  <2>4. CASE Continue(i, "model", att[i].n, [db |-> Db(0), file |-> 1])
    <3>1. att'[i].pc = "model" /\ att'[i].n = 1 /\ att'[i].out = [db |-> Db(0), file |-> 1]
      BY <1>4, <2>1, <2>4
    <3>2. att'[i].out.db = Db(0)
      BY <3>1
    <3> QED BY <1>6, <1>9, <2>1, <3>1, <3>2 DEF Mapping
  <2> QED BY <2>2, <2>3, <2>4
<1>20. CASE UploadModel(i)
  <2>1. /\ att[i].pc = "model" /\ att[i].n = 1 /\ UNCHANGED disk /\ att[i].out.db = Db(0)
        /\ DOMAIN att[i].out = {"db", "file"}
    BY <1>1, <1>20 DEF UploadModel, InPose, At, Mapping, StoreInv, CompleteInv, Prepared
  <2>2. Continue(i, "model", att[i].n, [att[i].out EXCEPT !.file = @ + 1])
    BY <1>20 DEF UploadModel
  <2>3. [att[i].out EXCEPT !.file = @ + 1].db = att[i].out.db
    BY <2>1
  <2>4. att'[i].pc = "model" /\ att'[i].n = 1 /\ att'[i].out.db = Db(0)
    BY <1>4, <2>1, <2>2, <2>3
  <2>5. StoredMaps'
    BY <1>8, <1>20 DEF UploadModel
  <2> QED BY <1>6, <2>1, <2>4, <2>5 DEF Mapping
<1>21. CASE PutCenters(i)
  <2>1. att[i].pc = "model" /\ att[i].n = 1 /\ UNCHANGED disk /\ att[i].out.db = Db(0)
    BY <1>1, <1>21 DEF PutCenters, InPose, At, Mapping
  <2>2. att'[i].pc = "answer" /\ att'[i].n = 1 /\ att'[i].out = att[i].out
    BY <1>4, <1>21, <2>1 DEF PutCenters, Goto
  <2>3. StoredMaps'
    BY <1>8, <1>21 DEF PutCenters
  <2> QED BY <1>6, <2>1, <2>2, <2>3 DEF Mapping
<1>22. CASE PutResult(i)
  <2>1. /\ att[i].pc = "answer" /\ UNCHANGED disk /\ End(i, "done")
        /\ Put(<<"sfm", 1>>, Db(0))
    BY <1>1, <1>22 DEF PutResult, InPose, At, Mapping
  <2>2. StoredMaps'
    BY <1>1, <2>1 DEF StoredMaps, Put, With, Has
  <2> QED BY <1>6, <1>17, <2>1, <2>2
<1> QED BY <1>1, <1>10, <1>11, <1>12, <1>13, <1>14, <1>15, <1>16, <1>18, <1>19, <1>20,
           <1>21, <1>22 DEF Pose

LEMMA MapInvStep ==
    ASSUME MapInv, RivalsKnown, StoreInv, AttemptInv, [Next]_vars
    PROVE  MapInv'
<1> SUFFICES ASSUME NoSharedMachine', Sighted', ~CutWhileMatching'
             PROVE  /\ StoredMaps' /\ DbsKnown'
                    /\ \A j \in Attempts : InSfm(j)' => Mapping(j)'
  BY DEF MapInv
<1>1. NoSharedMachine /\ Sighted /\ ~CutWhileMatching
  BY Before, UncutBefore
<1>2. StoredMaps /\ DbsKnown /\ \A j \in Attempts : InSfm(j) => Mapping(j)
  BY <1>1 DEF MapInv
<1>3. DOMAIN disk = Machines
  BY DEF AttemptInv, TypeOK
<1>4. \A j \in Attempts : InSfm(j) => att[j].on \in Machines
  BY OnMachine DEF InSfm, Stages, KindsOf
\* attempts that are not at their own calls
<1>5. ASSUME NEW j \in Attempts, InSfm(j), att'[j] = att[j],
             \A y : y[1] = "db" => FileStays(att[j].on, y)
      PROVE  Mapping(j)'
  <2>1. FileStays(att[j].on, Path(j, "db", 0))
    BY <1>5 DEF Path
  <2>2. /\ OnDisk(j, "db", 0) => OnDisk(j, "db", 0)' /\ Read(j, "db", 0)' = Read(j, "db", 0)
    BY <1>5, <2>1 DEF FileStays, OnDisk, Read, Path
  <2>3. Has(<<"snapshot", 1>>) => Has(<<"snapshot", 1>>)'
    BY StoreGrows DEF Has
  <2> QED BY <1>2, <1>5, <2>2, <2>3 DEF Mapping
<1>6. CASE UNCHANGED vars
  BY <1>2, <1>6 DEF vars, StoredMaps, DbsKnown, DbKnown, InSfm, Mapping, At, Running, OnDisk,
                    Read, Path, Has
<1>7. CASE Outer
  <2>1. StoredMaps'
    BY <1>2, <1>7, OuterShape DEF StoredMaps, Has
  <2>2. DbsKnown'
    <3> SUFFICES ASSUME NEW m \in Machines, NEW y \in DOMAIN disk'[m], y[1] = "db"
                 PROVE  DbKnown(m, y)'
      BY DEF DbsKnown
    <3>1. y \in DOMAIN disk[m] /\ disk'[m][y] = disk[m][y]
      BY <1>7, OuterFiles
    <3>2. ASSUME NEW j \in Attempts, At(j, "sfm", "match"), att[j].on = m, y = Path(j, "db", 0)
          PROVE  At(j, "sfm", "match")' /\ att'[j].on = m /\ y = Path(j, "db", 0)'
      <4>1. att[j].stage \in Stages
        BY <3>2 DEF At, Stages, KindsOf
      <4>2. /\ att'[j].stage = "sfm" /\ att'[j].pc = "match" /\ att'[j].run = att[j].run
            /\ att'[j].on = att[j].on
        BY <1>7, <3>2, <4>1, OuterKeeps DEF At
      <4>3. Running(j)'
        BY <4>2 DEF CutWhileMatching
      <4> QED BY <3>2, <4>2, <4>3 DEF At, Path
    <3> QED BY <1>2, <3>1, <3>2 DEF DbsKnown, DbKnown
  <2>3. ASSUME NEW j \in Attempts, InSfm(j)'
        PROVE  Mapping(j)'
    <3>1. CASE att'[j] = att[j]
      <4>1. InSfm(j)
        BY <2>3, <3>1 DEF InSfm, Running
      <4>2. disk'[att[j].on] = disk[att[j].on]
        BY <1>7, <2>3, <4>1, OuterFiles DEF InSfm, Running
      <4> QED BY <1>5, <3>1, <4>1, <4>2 DEF FileStays
    <3>2. CASE att'[j] # att[j]
      <4>1. att'[j].pc = "begin"
        BY <1>7, <2>3, <3>2, OuterAlone DEF InSfm, Running
      <4> QED BY <4>1 DEF Mapping
    <3> QED BY <3>1, <3>2
  <2> QED BY <2>1, <2>2, <2>3
<1>8. ASSUME NEW i \in Attempts, Step(i)
      PROVE  /\ StoredMaps' /\ DbsKnown'
             /\ \A j \in Attempts : InSfm(j)' => Mapping(j)'
  <2>1. /\ AttemptsTyped /\ Running(i) /\ att'[i].stage = att[i].stage
        /\ \A j \in Attempts : j # i => att'[j] = att[j]
    BY <1>8, StepFrame DEF AttemptInv, Step
  <2>2. ASSUME NEW j \in Attempts, j # i, InSfm(j)'
        PROVE  Mapping(j)'
    <3>1. InSfm(j) /\ att'[j] = att[j] /\ Running(j)
      BY <2>1, <2>2 DEF InSfm, Running
    <3>2. att[j].on # att[i].on
      BY <1>1, <2>1, <2>2, <3>1, OwnMachine
    <3>3. \A y : FileStays(att[j].on, y)
      BY <1>4, <1>8, <3>1, <3>2, StepFiles
    <3> QED BY <1>5, <3>1, <3>3
  <2>3. CASE att[i].stage = "sfm"
    <3>1. StoredMaps' /\ DbsKnown' /\ (InSfm(i)' => Mapping(i)')
      BY <1>1, <1>8, <2>3, MapInvPose
    <3> QED BY <2>2, <3>1
  <2>4. CASE att[i].stage # "sfm"
    <3>1. "sfm" \notin KindsOf[att[i].stage] /\ "snapshot" \notin KindsOf[att[i].stage]
      BY <1>8, <2>4, StageOfStep DEF KindsOf, Stages
    <3>2. KindStays("sfm") /\ KindStays("snapshot")
      BY <1>8, <3>1, KindKept
    <3>3. StoredMaps'
      BY <1>2, <3>2 DEF StoredMaps, KindStays
    <3>4. FilesOf(att[i].stage) # "db"
      BY <2>4 DEF FilesOf
    <3>5. DbsKnown'
      <4> SUFFICES ASSUME NEW m \in Machines, NEW y \in DOMAIN disk'[m], y[1] = "db"
                   PROVE  DbKnown(m, y)'
        BY DEF DbsKnown
      <4>1. FileStays(m, y)
        BY <1>8, <3>4, StepFiles
      <4>2. DbKnown(m, y) /\ disk'[m][y] = disk[m][y]
        BY <1>2, <4>1 DEF FileStays, DbsKnown
      <4>3. ASSUME NEW j \in Attempts, At(j, "sfm", "match"), att[j].on = m, y = Path(j, "db", 0)
            PROVE  At(j, "sfm", "match")' /\ att'[j].on = m /\ y = Path(j, "db", 0)'
        BY <2>1, <2>4, <4>3 DEF At, Running, Path
      <4> QED BY <4>2, <4>3 DEF DbKnown
    <3>6. ~InSfm(i)'
      BY <2>1, <2>4 DEF InSfm
    <3> QED BY <2>2, <3>3, <3>5, <3>6
  <2> QED BY <2>3, <2>4
<1> QED BY <1>6, <1>7, <1>8, NextCases

\* The map is made from the database that was matched for it (sfm.py:359, :380), when no
\* attempt left the remains of a database on a machine, none shared its scratch directory,
\* and all of them saw the same telemetry.
THEOREM MapHolds == Spec => []MapOfItsMatches
<1>1. MapInv /\ RivalsKnown /\ StoreInv /\ AttemptInv /\ [Next]_vars => MapInv'
  BY MapInvStep
<1>2. Spec => []MapInv
  BY <1>1, MapInvInit, RivalsInvariant, StoreInvariant, AttemptInvariant, PTL DEF Spec
<1>3. MapInv => MapOfItsMatches
  BY DEF MapInv, MapOfItsMatches, StoredMaps, Db, Matched
<1> QED BY <1>2, <1>3, PTL

===============================================================================
