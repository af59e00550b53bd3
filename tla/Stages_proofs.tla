---------------------------- MODULE Stages_proofs -----------------------------
(***************************************************************************)
(* Proofs about CVStages, for any number of machines, attempts, frames and *)
(* faults: types and the number of attempts, that no stored object names   *)
(* one that is not there, and when a product is listed twice.              *)
(***************************************************************************)
EXTENDS CVStages, SequenceTheorems, TLAPS

-------------------------------------------------------------------------------
(* What a step of an attempt may change.                                   *)

Fields == {"status", "stage", "run", "on", "pc", "n", "out", "blind", "rivals"}

AttemptsTyped == DOMAIN att = Attempts /\ \A i \in Attempts : DOMAIN att[i] = Fields

\* The attempt goes on or ends; one object, one machine; at most one fault.
Shape(i) ==
    /\ \/ \E pc, n, out : Continue(i, pc, n, out)
       \/ \E s \in {"done", "failed"} : End(i, s)
    /\ UNCHANGED <<scene, last>>
    /\ UNCHANGED disk \/ \E v : disk' = [disk EXCEPT ![att[i].on] = v]
    /\ UNCHANGED faults \/ Fails
    /\ UNCHANGED store \/ \E k, v : Put(k, v)

Quiet(i) == Shape(i) /\ UNCHANGED rows

LEMMA CurationShape ==
    ASSUME NEW i \in Attempts, Curation(i)
    PROVE  Quiet(i)
<1> USE DEF Quiet, Shape, Keep, Works, Goto, Found, NotFound
<1>1. CASE CurationBegin(i)
  BY <1>1 DEF CurationBegin
<1>2. CASE curate_segment_shard(i)
  BY <1>2 DEF curate_segment_shard
<1>3. CASE SelectKeyframes(i)
  BY <1>3 DEF SelectKeyframes
<1>4. CASE UploadKeyframe(i)
  BY <1>4 DEF UploadKeyframe
<1>5. CASE CurationEnd(i)
  BY <1>5 DEF CurationEnd
<1> QED BY <1>1, <1>2, <1>3, <1>4, <1>5 DEF Curation

LEMMA MaskingShape ==
    ASSUME NEW i \in Attempts, Masking(i)
    PROVE  Quiet(i)
<1> USE DEF Quiet, Shape, Keep, Works, Goto, Found, NotFound
<1>1. CASE MaskingBegin(i)
  BY <1>1 DEF MaskingBegin
<1>2. CASE UploadMask(i)
  BY <1>2 DEF UploadMask
<1>3. CASE MaskingEnd(i)
  BY <1>3 DEF MaskingEnd
<1> QED BY <1>1, <1>2, <1>3 DEF Masking

LEMMA DepthShape ==
    ASSUME NEW i \in Attempts, Depth(i)
    PROVE  Quiet(i)
<1> USE DEF Quiet, Shape, Keep, Works, Goto, Found, NotFound, DepthNext
<1>1. CASE LoadSparseModel(i)
  BY <1>1 DEF LoadSparseModel, Write
<1>2. CASE ResumeManifest(i)
  BY <1>2 DEF ResumeManifest
<1>3. CASE CheckImage(i)
  BY <1>3 DEF CheckImage
<1>4. CASE LeaveUnaligned(i)
  BY <1>4 DEF LeaveUnaligned
<1>5. CASE AlignImage(i)
  BY <1>5 DEF AlignImage
<1>6. CASE PutManifest(i) \/ DepthEnd(i)
  BY <1>6 DEF PutManifest, DepthEnd
<1> QED BY <1>1, <1>2, <1>3, <1>4, <1>5, <1>6 DEF Depth

LEMMA PoseShape ==
    ASSUME NEW i \in Attempts, Pose(i)
    PROVE  Quiet(i)
<1> USE DEF Quiet, Shape, Keep, Works, Goto, Found, NotFound, InPose
<1>1. CASE ParseWarmStart(i)
  BY <1>1 DEF ParseWarmStart, KeepPriors, PutPriors
<1>2. CASE PutCamerasText(i) \/ PutImagesText(i)
  BY <1>2 DEF PutCamerasText, PutImagesText
<1>3. CASE BuildDatabase(i)
  BY <1>3 DEF BuildDatabase, Database, Write
<1>4. CASE RunMatching(i)
  BY <1>4 DEF RunMatching, Database, Write
<1>5. CASE PackAndUpload(i) \/ PutMarker(i)
  BY <1>5 DEF PackAndUpload, PutMarker
<1>6. CASE OpenDatabase(i)
  BY <1>6 DEF OpenDatabase, Write
<1>7. CASE CheckResult(i) \/ IncrementalMapping(i)
  BY <1>7 DEF CheckResult, IncrementalMapping
<1>8. CASE UploadModel(i) \/ PutCenters(i) \/ PutResult(i)
  BY <1>8 DEF UploadModel, PutCenters, PutResult
<1> QED BY <1>1, <1>2, <1>3, <1>4, <1>5, <1>6, <1>7, <1>8 DEF Pose

LEMMA TrainingShape ==
    ASSUME NEW i \in Attempts, Dense3DGS(i)
    PROVE  Quiet(i)
<1> USE DEF Quiet, Shape, Keep, Works, Goto
<1>1. CASE LoadCheckpoint(i)
  BY <1>1 DEF LoadCheckpoint
<1>2. CASE SkipTraining(i) \/ Train(i) \/ TrainingEnd(i)
  BY <1>2 DEF SkipTraining, Train, TrainingEnd
<1>3. CASE SaveCheckpoint(i) \/ SaveLatest(i)
  BY <1>3 DEF SaveCheckpoint, SaveLatest
<1>4. CASE UploadScene(i) \/ UploadSplat(i) \/ PutMetrics(i)
  BY <1>4 DEF UploadScene, UploadSplat, PutMetrics
<1> QED BY <1>1, <1>2, <1>3, <1>4 DEF Dense3DGS

LEMMA MeshingShape ==
    ASSUME NEW i \in Attempts, Meshing(i)
    PROVE  Quiet(i)
<1> USE DEF Quiet, Shape, Keep, Works, Goto, Found, NotFound
<1>1. CASE Densify(i) \/ Audit(i)
  BY <1>1 DEF Densify, Audit
<1>2. CASE CheckLods(i)
  BY <1>2 DEF CheckLods
<1>3. CASE BakeLod(i) \/ MeshingEnd(i)
  BY <1>3 DEF BakeLod, MeshingEnd
<1> QED BY <1>1, <1>2, <1>3 DEF Meshing

LEMMA GeorefShape ==
    ASSUME NEW i \in Attempts, Georef(i)
    PROVE  Quiet(i)
<1> USE DEF Quiet, Shape, Keep, Works, Goto, Found, NotFound
<1>1. CASE GeorefScene(i) \/ PutReport(i)
  BY <1>1 DEF GeorefScene, PutReport
<1>2. CASE GetLod(i)
  BY <1>2 DEF GetLod, Write
<1>3. CASE PutLod(i)
  BY <1>3 DEF PutLod
<1> QED BY <1>1, <1>2, <1>3 DEF Georef

LEMMA ProductShape ==
    ASSUME NEW i \in Attempts, ProductGen(i) \/ CheckProducts(i)
    PROVE  Shape(i) /\ (UNCHANGED rows \/ publish_products(i))
<1> USE DEF Shape, Keep, Works, Goto, Found, NotFound
<1>1. CASE CopyMesh(i) \/ CopyTrajectory(i)
  BY <1>1 DEF CopyMesh, CopyTrajectory, CopyIfExists
<1>2. CASE FindReport(i)
  BY <1>2 DEF FindReport
<1>3. CASE AssemblePoints(i)
  BY <1>3 DEF AssemblePoints, PutPoints, PutProduct
<1>4. CASE AssembleRaster(i) \/ AssembleProvenance(i)
  BY <1>4 DEF AssembleRaster, AssembleProvenance, PutProduct
<1>5. CASE ComputeChecksums(i) \/ publish_products(i) \/ ProductsEnd(i)
  BY <1>5 DEF ComputeChecksums, publish_products, ProductsEnd
<1>6. CASE CheckProducts(i)
  BY <1>6 DEF CheckProducts
<1> QED BY <1>1, <1>2, <1>3, <1>4, <1>5, <1>6 DEF ProductGen

LEMMA StepShape ==
    ASSUME NEW i \in Attempts, Step(i)
    PROVE  Shape(i) /\ (UNCHANGED rows \/ publish_products(i))
BY CurationShape, MaskingShape, DepthShape, PoseShape, TrainingShape, MeshingShape,
   GeorefShape, ProductShape DEF Step, Quiet

\* What Continue and End do to the records.
LEMMA Continued ==
    ASSUME AttemptsTyped, NEW i \in Attempts, NEW pc, NEW n, NEW out, Continue(i, pc, n, out)
    PROVE  /\ AttemptsTyped'
           /\ \A j \in Attempts : j # i => att'[j] = att[j]
           /\ att'[i].pc = pc /\ att'[i].n = n /\ att'[i].out = out
           /\ att'[i].status = att[i].status /\ att'[i].stage = att[i].stage
           /\ att'[i].run = att[i].run /\ att'[i].on = att[i].on
           /\ att'[i].rivals = att[i].rivals
BY DEF AttemptsTyped, Continue, Fields

LEMMA Closed ==
    ASSUME AttemptsTyped, NEW i \in Attempts, NEW s, End(i, s)
    PROVE  /\ AttemptsTyped'
           /\ \A j \in Attempts : j # i => att'[j] = att[j]
           /\ att'[i].status = s /\ att'[i].pc = att[i].pc
           /\ att'[i].stage = att[i].stage /\ att'[i].n = att[i].n
           /\ att'[i].run = att[i].run /\ att'[i].on = att[i].on
           /\ att'[i].rivals = att[i].rivals
BY DEF AttemptsTyped, End, Fields

\* A step of an attempt changes one record: its status, its point and its results.
LEMMA StepFrame ==
    ASSUME AttemptsTyped, NEW i \in Attempts, Step(i)
    PROVE  /\ AttemptsTyped'
           /\ \A j \in Attempts : j # i => att'[j] = att[j]
           /\ att[i].status = "running" /\ att'[i].status \in {"running", "done", "failed"}
           /\ att'[i].stage = att[i].stage /\ att'[i].run = att[i].run
           /\ att'[i].on = att[i].on /\ att'[i].rivals = att[i].rivals
<1>1. Shape(i) /\ Running(i)
  BY StepShape DEF Step
<1>2. ASSUME NEW pc, NEW n, NEW out, Continue(i, pc, n, out)
      PROVE  /\ AttemptsTyped'
             /\ \A j \in Attempts : j # i => att'[j] = att[j]
             /\ att'[i].status = att[i].status
             /\ att'[i].stage = att[i].stage /\ att'[i].run = att[i].run
             /\ att'[i].on = att[i].on /\ att'[i].rivals = att[i].rivals
  BY <1>2, Continued
<1> QED BY <1>1, <1>2, Closed DEF Shape, Running

-------------------------------------------------------------------------------
(* No stored object names one that is not there.                           *)

StoreComplete == \A k \in DOMAIN store : NamesOf(k, store[k]) \subseteq DOMAIN store

\* What a step of attempt i has to leave behind.
Sound(i) ==
    /\ StoreComplete' /\ DOMAIN store \subseteq DOMAIN store'
    /\ Running(i)' => Prepared(att'[i], DOMAIN store')

LEMMA SameStore ==
    ASSUME StoreComplete, UNCHANGED store
    PROVE  StoreComplete' /\ DOMAIN store' = DOMAIN store
BY DEF StoreComplete, NamesOf, Aligned, ModelKeys

LEMMA PutComplete ==
    ASSUME StoreComplete, NEW k, NEW v, Put(k, v), NamesOf(k, v) \subseteq DOMAIN store \cup {k}
    PROVE  StoreComplete' /\ DOMAIN store' = DOMAIN store \cup {k}
<1>1. DOMAIN store' = DOMAIN store \cup {k}
  BY DEF Put, With
<1>2. \A y \in DOMAIN store' : store'[y] = IF y = k THEN v ELSE store[y]
  BY DEF Put, With
<1>3. ASSUME NEW y \in DOMAIN store'
      PROVE  NamesOf(y, store'[y]) \subseteq DOMAIN store'
  <2>1. CASE y = k
    BY <2>1, <1>1, <1>2
  <2>2. CASE y # k
    BY <2>2, <1>1, <1>2, <1>3 DEF StoreComplete
  <2> QED BY <2>1, <2>2
<1>4. StoreComplete' <=> \A y \in DOMAIN store' : NamesOf(y, store'[y]) \subseteq DOMAIN store'
  BY DEF StoreComplete, NamesOf, Aligned, ModelKeys
<1> QED BY <1>1, <1>3, <1>4

LEMMA PreparedGrows ==
    ASSUME NEW a, NEW K, NEW L, Prepared(a, K), K \subseteq L
    PROVE  Prepared(a, L)
BY DEF Prepared

\* q is a sequence of n elements.
Listing(q, n) == Len(q) = n /\ q \in Seq({q[j] : j \in 1 .. n})

LEMMA AppendMore ==
    ASSUME NEW q, NEW n \in Nat, NEW f, Listing(q, n)
    PROVE  Listing(Append(q, f), n + 1)
<1> DEFINE S == {q[j] : j \in 1 .. n}
           T == S \cup {f}
           r == Append(q, f)
<1>1. q \in Seq(T)
  BY SeqMonotonic, S \subseteq T DEF Listing
<1>2. /\ r \in Seq(T) /\ Len(r) = n + 1
      /\ \A j \in 1 .. n : r[j] = q[j]
      /\ r[n + 1] = f
  BY <1>1, AppendProperties, f \in T DEF Listing
<1>3. T \subseteq {r[j] : j \in 1 .. n + 1}
  <2>1. \A j \in 1 .. n : j \in 1 .. n + 1
    OBVIOUS
  <2>2. n + 1 \in 1 .. n + 1
    OBVIOUS
  <2> QED BY <2>1, <2>2, <1>2
<1> QED BY <1>2, <1>3, SeqMonotonic DEF Listing

\* An attempt that goes on without a new object, at a point where nothing is prepared.
LEMMA Onward ==
    ASSUME AttemptsTyped, StoreComplete, NEW i \in Attempts, UNCHANGED store,
           NEW pc, NEW n, NEW out, Continue(i, pc, n, out),
           Prepared(att'[i], DOMAIN store)
    PROVE  Sound(i)
BY SameStore DEF Sound

\* An attempt that ends has nothing left to name.
LEMMA Ending ==
    ASSUME AttemptsTyped, StoreComplete, NEW i \in Attempts, UNCHANGED store,
           NEW s, s # "running", End(i, s)
    PROVE  Sound(i)
<1>1. att'[i].status = s
  BY Closed
<1> QED BY <1>1, SameStore DEF Sound, Running

\* One that ends with an object, the names of which are stored.
LEMMA EndingPut ==
    ASSUME AttemptsTyped, StoreComplete, NEW i \in Attempts,
           NEW k, NEW v, Put(k, v), NamesOf(k, v) \subseteq DOMAIN store,
           NEW s, s # "running", End(i, s)
    PROVE  Sound(i)
<1>1. att'[i].status = s
  BY Closed
<1> QED BY <1>1, PutComplete DEF Sound, Running

\* One that goes on with an object more.
LEMMA OnwardPut ==
    ASSUME AttemptsTyped, StoreComplete, NEW i \in Attempts,
           NEW k, NEW v, Put(k, v), NamesOf(k, v) \subseteq DOMAIN store,
           NEW pc, NEW n, NEW out, Continue(i, pc, n, out),
           Prepared(att'[i], DOMAIN store \cup {k})
    PROVE  Sound(i)
BY PutComplete DEF Sound

LEMMA CurationSound ==
    ASSUME AttemptsTyped, StoreComplete, NEW i \in Attempts, Curation(i),
           Prepared(att[i], DOMAIN store)
    PROVE  Sound(i)
<1>1. CASE CurationBegin(i)
  <2>1. att[i].stage = "curation" /\ UNCHANGED store
    BY <1>1 DEF CurationBegin, At
  <2>2. CASE Goto(i, "decode")
    <3>1. att'[i].stage = "curation" /\ att'[i].pc = "decode"
      BY <2>1, <2>2, Continued DEF Goto
    <3>2. Prepared(att'[i], DOMAIN store)
      BY <3>1 DEF Prepared
    <3> QED BY <2>1, <2>2, <3>2, Onward DEF Goto
  <2>3. CASE \E s \in {"done", "failed"} : End(i, s)
    BY <2>1, <2>3, Ending
  <2> QED BY <1>1, <2>2, <2>3 DEF CurationBegin
<1>2. CASE curate_segment_shard(i)
  <2>1. att[i].stage = "curation" /\ UNCHANGED store /\ Goto(i, "select")
    BY <1>2 DEF curate_segment_shard, At
  <2>2. att'[i].stage = "curation" /\ att'[i].pc = "select"
    BY <2>1, Continued DEF Goto
  <2>3. Prepared(att'[i], DOMAIN store)
    BY <2>2 DEF Prepared
  <2> QED BY <2>1, <2>3, Onward DEF Goto
<1>3. CASE SelectKeyframes(i)
  <2> DEFINE out == [todo |-> InOrder(Selected), kept |-> <<>>]
  <2>1. att[i].stage = "curation" /\ UNCHANGED store /\ Continue(i, "upload", 0, out)
    BY <1>3 DEF SelectKeyframes, At
  <2>2. /\ att'[i].stage = "curation" /\ att'[i].pc = "upload"
        /\ att'[i].n = 0 /\ att'[i].out = out
    BY <2>1, Continued
  <2>3. DOMAIN out = {"todo", "kept"} /\ out.kept = <<>>
    OBVIOUS
  <2>4. <<>> \in Seq({<<>>[j] : j \in 1 .. 0}) /\ Len(<<>>) = 0
    OBVIOUS
  <2> HIDE DEF out
  <2>5. Prepared(att'[i], DOMAIN store)
    BY <2>2, <2>3, <2>4 DEF Prepared
  <2> QED BY <2>1, <2>5, Onward
<1>4. CASE UploadKeyframe(i)
  <2> DEFINE rest == Tail(att[i].out.todo)
             p == shotPath(Head(att[i].out.todo))
             q == att[i].out.kept
             m == att[i].n
             more == [todo |-> rest, kept |-> Append(q, Head(att[i].out.todo))]
  <2>1. /\ att[i].stage = "curation" /\ att[i].pc = "upload"
        /\ DOMAIN att[i].out = {"todo", "kept"} /\ m \in Nat /\ Len(q) = m
        /\ q \in Seq({q[j] : j \in 1 .. m})
        /\ \A j \in 1 .. m : <<"keyframe", j - 1>> \in DOMAIN store
    BY <1>4 DEF UploadKeyframe, At, Prepared
  <2>2. CASE Continue(i, "upload", m, [att[i].out EXCEPT !.todo = rest]) /\ UNCHANGED store
    <3>1. /\ att'[i].stage = "curation" /\ att'[i].pc = "upload" /\ att'[i].n = m
          /\ att'[i].out = [att[i].out EXCEPT !.todo = rest]
      BY <2>1, <2>2, Continued
    <3>2. att'[i].out.kept = q /\ DOMAIN att'[i].out = {"todo", "kept"}
      BY <2>1, <3>1
    <3> HIDE DEF q, m
    <3>3. Prepared(att'[i], DOMAIN store)
      BY <2>1, <3>1, <3>2 DEF Prepared
    <3> QED BY <2>2, <3>3, Onward
  <2>3. CASE /\ Put(<<"keyframe", m>>, Read(i, "shot", p))
             /\ Continue(i, "upload", m + 1, more)
    <3>1. /\ att'[i].stage = "curation" /\ att'[i].pc = "upload"
          /\ att'[i].n = m + 1 /\ att'[i].out = more
      BY <2>1, <2>3, Continued
    <3> DEFINE r == Append(q, Head(att[i].out.todo))
    <3>2. DOMAIN more = {"todo", "kept"} /\ more.kept = r
      OBVIOUS
    <3>3. Listing(r, m + 1)
      <4>1. Listing(q, m)
        BY <2>1 DEF Listing
      <4> QED BY <4>1, <2>1, AppendMore
    <3> HIDE DEF q, m, r, more
    <3>4. \A j \in 1 .. m + 1 : <<"keyframe", j - 1>> \in DOMAIN store \cup {<<"keyframe", m>>}
      <4> SUFFICES ASSUME NEW j \in 1 .. m + 1
                   PROVE  <<"keyframe", j - 1>> \in DOMAIN store \cup {<<"keyframe", m>>}
        OBVIOUS
      <4>1. CASE j \in 1 .. m
        BY <2>1, <4>1
      <4>2. CASE j \notin 1 .. m
        <5>1. j - 1 = m
          BY <2>1, <4>2
        <5> QED BY <5>1
      <4> QED BY <4>1, <4>2
    <3>5. Prepared(att'[i], DOMAIN store \cup {<<"keyframe", m>>})
      <4>1. m + 1 \in Nat
        BY <2>1
      <4> QED BY <3>1, <3>2, <3>3, <3>4, <4>1 DEF Prepared, Listing
    <3>6. NamesOf(<<"keyframe", m>>, Read(i, "shot", p)) = {}
      BY DEF NamesOf
    <3> QED BY <2>3, <3>5, <3>6, OnwardPut
  <2> QED BY <1>4, <2>2, <2>3 DEF UploadKeyframe
<1>5. CASE CurationEnd(i)
  <2> DEFINE q == att[i].out.kept
             m == att[i].n
  <2>1. /\ m \in Nat /\ Len(q) = m /\ q \in Seq({q[j] : j \in 1 .. m})
        /\ \A j \in 1 .. m : <<"keyframe", j - 1>> \in DOMAIN store
    BY <1>5 DEF CurationEnd, At, Prepared
  <2>2. DOMAIN q = 1 .. m
    <3> HIDE DEF q
    <3> QED BY <2>1
  <2>3. NamesOf(<<"keyframes", 0>>, q) \subseteq DOMAIN store
    <3> HIDE DEF q, m
    <3> QED BY <2>1, <2>2 DEF NamesOf
  <2> HIDE DEF m
  <2>4. CASE Put(<<"keyframes", 0>>, q) /\ End(i, "done")
    <3> HIDE DEF q
    <3> QED BY <2>3, <2>4, EndingPut
  <2>5. CASE End(i, "failed") /\ UNCHANGED store
    BY <2>5, Ending
  <2> QED BY <1>5, <2>4, <2>5 DEF CurationEnd
<1> QED BY <1>1, <1>2, <1>3, <1>4, <1>5 DEF Curation

LEMMA MaskingSound ==
    ASSUME scene.frames \in Nat, AttemptsTyped, StoreComplete, NEW i \in Attempts, Masking(i),
           Prepared(att[i], DOMAIN store)
    PROVE  Sound(i)
<1>1. CASE MaskingBegin(i)
  <2>1. att[i].stage = "masking" /\ UNCHANGED store
    BY <1>1 DEF MaskingBegin, At
  <2>2. CASE End(i, "done")
    BY <2>1, <2>2, Ending
  <2>3. ASSUME NEW out, Continue(i, "upload", 1, out)
        PROVE  Sound(i)
    <3>1. att'[i].stage = "masking" /\ att'[i].pc = "upload" /\ att'[i].n = 1
      BY <2>1, <2>3, Continued
    <3>2. Prepared(att'[i], DOMAIN store)
      BY <3>1 DEF Prepared
    <3> QED BY <2>1, <2>3, <3>2, Onward
  <2> QED BY <1>1, <2>2, <2>3 DEF MaskingBegin
<1>2. CASE UploadMask(i)
  <2> DEFINE m == att[i].n
             k == <<"mask", m - 1>>
  <2>1. /\ att[i].stage = "masking" /\ att[i].pc = "upload" /\ m \in Nat
        /\ \A f \in 0 .. m - 2 : <<"mask", f>> \in DOMAIN store
        /\ Put(k, att[i].out) /\ Continue(i, "upload", m + 1, att[i].out)
    BY <1>2 DEF UploadMask, At, Prepared
  <2>2. att'[i].stage = "masking" /\ att'[i].pc = "upload" /\ att'[i].n = m + 1
    BY <2>1, Continued
  <2> HIDE DEF m
  <2>3. ASSUME NEW f \in 0 .. (m + 1) - 2
        PROVE  <<"mask", f>> \in DOMAIN store \cup {k}
    <3>1. CASE f \in 0 .. m - 2
      BY <2>1, <3>1
    <3>2. CASE f \notin 0 .. m - 2
      <4>1. f = m - 1
        BY <2>1, <2>3, <3>2
      <4> QED BY <4>1
    <3> QED BY <3>1, <3>2
  <2>4. m + 1 \in Nat
    BY <2>1
  <2>5. Prepared(att'[i], DOMAIN store \cup {k})
    BY <2>2, <2>3, <2>4 DEF Prepared
  <2>6. NamesOf(k, att[i].out) = {}
    BY DEF NamesOf
  <2> HIDE DEF k
  <2> QED BY <2>1, <2>5, <2>6, OnwardPut
<1>3. CASE MaskingEnd(i)
  <2> DEFINE m == att[i].n
             v == [f \in 0 .. scene.frames - 1 |-> att[i].out]
  <2>1. /\ m \in Nat /\ m > scene.frames
        /\ \A f \in 0 .. m - 2 : <<"mask", f>> \in DOMAIN store
        /\ Put(<<"masks", 0>>, v) /\ End(i, "done")
    BY <1>3 DEF MaskingEnd, At, Prepared
  <2> HIDE DEF m
  <2>2. ASSUME NEW f \in 0 .. scene.frames - 1
        PROVE  f \in 0 .. m - 2
    BY <2>1, <2>2
  <2>3. NamesOf(<<"masks", 0>>, v) \subseteq DOMAIN store
    BY <2>1, <2>2 DEF NamesOf
  <2> HIDE DEF v
  <2> QED BY <2>1, <2>3, EndingPut
<1> QED BY <1>1, <1>2, <1>3 DEF Masking

\* The manifest in memory lists depth maps that are stored.
LEMMA DepthPrepared ==
    ASSUME NEW i \in Attempts, att'[i].stage = "depth", NEW K,
           \A f \in Aligned(att'[i].out) : <<"exr", f>> \in K
    PROVE  Prepared(att'[i], K)
BY DEF Prepared

LEMMA AlignedWith ==
    ASSUME NEW out, NEW f, NEW v
    PROVE  /\ v # "aligned" => Aligned(With(out, f, v)) \subseteq Aligned(out)
           /\ Aligned(With(out, f, v)) \subseteq Aligned(out) \cup {f}
BY DEF Aligned, With

LEMMA DepthSound ==
    ASSUME AttemptsTyped, StoreComplete, NEW i \in Attempts, Depth(i),
           Prepared(att[i], DOMAIN store)
    PROVE  Sound(i)
<1> DEFINE AllPut(out) == \A f \in Aligned(out) : <<"exr", f>> \in DOMAIN store
<1>0. /\ att[i].stage = "depth"
      /\ att[i].pc # "begin" => AllPut(att[i].out)
  <2>1. att[i].stage = "depth"
    BY DEF Depth, At, LoadSparseModel, ResumeManifest, CheckImage, LeaveUnaligned,
           AlignImage, PutManifest, DepthEnd
  <2> QED BY <2>1 DEF Prepared
\* without a new object
<1>1. ASSUME NEW pc, NEW n, NEW out, Continue(i, pc, n, out), UNCHANGED store, AllPut(out)
      PROVE  Sound(i)
  <2>1. att'[i].stage = "depth" /\ att'[i].out = out
    BY <1>0, <1>1, Continued
  <2>2. Prepared(att'[i], DOMAIN store)
    BY <2>1, <1>1, DepthPrepared
  <2> QED BY <1>1, <2>2, Onward
<1>2. CASE LoadSparseModel(i)
  <2>1. AllPut(Empty)
    BY DEF Aligned, Empty
  <2>2. /\ UNCHANGED store
        /\ \E n : Continue(i, "manifest", n, Empty) \/ Continue(i, "frame", n, Empty)
    BY <1>2 DEF LoadSparseModel
  <2> QED BY <2>1, <2>2, <1>1, <1>2 DEF LoadSparseModel
<1>3. CASE ResumeManifest(i)
  <2>1. UNCHANGED store /\ AllPut(att[i].out)
    BY <1>0, <1>3 DEF ResumeManifest, At
  <2>2. CASE Found(<<"depth", 0>>) /\ Continue(i, "frame", att[i].n, store[<<"depth", 0>>])
    <3>1. NamesOf(<<"depth", 0>>, store[<<"depth", 0>>]) \subseteq DOMAIN store
      BY <2>2 DEF StoreComplete, Found, Has
    <3>2. AllPut(store[<<"depth", 0>>])
      BY <3>1 DEF NamesOf
    <3> QED BY <2>1, <2>2, <3>2, <1>1
  <2>3. CASE Goto(i, "frame")
    BY <2>1, <2>3, <1>1 DEF Goto
  <2> QED BY <1>3, <2>2, <2>3 DEF ResumeManifest
<1>4. CASE CheckImage(i)
  <2>1. UNCHANGED store /\ AllPut(att[i].out)
    BY <1>0, <1>4 DEF CheckImage, At
  <2>2. CASE DepthNext(i, att[i].out)
    BY <2>1, <2>2, <1>1 DEF DepthNext
  <2>3. CASE Goto(i, "image")
    BY <2>1, <2>3, <1>1 DEF Goto
  <2> QED BY <1>4, <2>2, <2>3 DEF CheckImage
<1>5. CASE LeaveUnaligned(i)
  <2> DEFINE out == With(att[i].out, att[i].n, "unaligned")
  <2>1. UNCHANGED store /\ AllPut(att[i].out) /\ DepthNext(i, out)
    BY <1>0, <1>5 DEF LeaveUnaligned, At
  <2>2. AllPut(out)
    BY <2>1, AlignedWith
  <2> HIDE DEF out
  <2> QED BY <2>1, <2>2, <1>1 DEF DepthNext
<1>6. CASE AlignImage(i)
  <2> DEFINE k == <<"exr", att[i].n>>
             v == store[<<"keyframe", att[i].n>>]
             out == With(att[i].out, att[i].n, "aligned")
  <2>1. Put(k, v) /\ AllPut(att[i].out)
    BY <1>0, <1>6 DEF AlignImage, At
  <2>2. PICK pc, n : Continue(i, pc, n, out)
    BY <1>6 DEF AlignImage, DepthNext
  <2>3. \A f \in Aligned(out) : <<"exr", f>> \in DOMAIN store \cup {k}
    BY <2>1, AlignedWith
  <2>4. NamesOf(k, v) = {}
    BY DEF NamesOf
  <2> HIDE DEF k, v, out
  <2>5. att'[i].stage = "depth" /\ att'[i].out = out
    BY <1>0, <2>2, Continued
  <2>6. Prepared(att'[i], DOMAIN store \cup {k})
    BY <2>3, <2>5, DepthPrepared
  <2> QED BY <2>1, <2>2, <2>4, <2>6, OnwardPut
<1>7. CASE PutManifest(i) \/ DepthEnd(i)
  <2> DEFINE v == att[i].out
  <2>1. Put(<<"depth", 0>>, v) /\ AllPut(v)
    BY <1>0, <1>7 DEF PutManifest, DepthEnd, At
  <2>2. NamesOf(<<"depth", 0>>, v) \subseteq DOMAIN store
    BY <2>1 DEF NamesOf
  <2>3. CASE DepthNext(i, v)
    <3>1. att'[i].stage = "depth" /\ att'[i].out = v
      BY <1>0, <2>3, Continued DEF DepthNext
    <3>2. Prepared(att'[i], DOMAIN store \cup {<<"depth", 0>>})
      BY <2>1, <3>1, DepthPrepared
    <3> QED BY <2>1, <2>2, <2>3, <3>2, OnwardPut DEF DepthNext
  <2>4. CASE End(i, "done")
    BY <2>1, <2>2, <2>4, EndingPut
  <2> QED BY <1>7, <2>3, <2>4 DEF PutManifest, DepthEnd
<1> QED BY <1>2, <1>3, <1>4, <1>5, <1>6, <1>7 DEF Depth

LEMMA PoseSound ==
    ASSUME AttemptsTyped, StoreComplete, NEW i \in Attempts, Pose(i),
           Prepared(att[i], DOMAIN store)
    PROVE  Sound(i)
<1>0. att[i].stage = "sfm"
  BY DEF Pose, InPose, At, ParseWarmStart, PutCamerasText, PutImagesText, BuildDatabase,
         RunMatching, PackAndUpload, PutMarker, OpenDatabase, CheckResult,
         IncrementalMapping, UploadModel, PutCenters, PutResult
\* to a point where nothing is prepared, with or without an object that names nothing
<1>1. ASSUME NEW pc, NEW n, NEW out, Continue(i, pc, n, out), NEW K,
             pc \notin {"mark", "model", "answer"}
      PROVE  Prepared(att'[i], K)
  <2>1. att'[i].stage = "sfm" /\ att'[i].pc = pc
    BY <1>0, <1>1, Continued
  <2> QED BY <1>1, <2>1 DEF Prepared
<1>2. ASSUME NEW pc, NEW n, NEW out, Continue(i, pc, n, out),
             pc \notin {"mark", "model", "answer"}, UNCHANGED store
      PROVE  Sound(i)
  <2>1. Prepared(att'[i], DOMAIN store)
    BY <1>1, <1>2
  <2> QED BY <1>2, <2>1, Onward
<1>3. ASSUME NEW pc, NEW n, NEW out, Continue(i, pc, n, out),
             pc \notin {"mark", "model", "answer"},
             NEW k, NEW v, Put(k, v), NamesOf(k, v) \subseteq DOMAIN store
      PROVE  Sound(i)
  <2>1. Prepared(att'[i], DOMAIN store \cup {k})
    BY <1>1, <1>3
  <2> QED BY <1>3, <2>1, OnwardPut
<1>4. CASE ParseWarmStart(i)
  <2>1. ASSUME NEW h, KeepPriors(i, h) PROVE Sound(i)
    BY <2>1, <1>2 DEF KeepPriors
  <2>2. ASSUME NEW h, PutPriors(i, h) PROVE Sound(i)
    <3>1. NamesOf(<<"priors", h>>, "priors") = {}
      BY DEF NamesOf
    <3> QED BY <2>2, <3>1, <1>3 DEF PutPriors
  <2> QED BY <1>4, <2>1, <2>2 DEF ParseWarmStart
<1>5. CASE PutCamerasText(i)
  <2>1. NamesOf(<<"cameras", att[i].n>>, "text") = {}
    BY DEF NamesOf
  <2> QED BY <1>5, <2>1, <1>3 DEF PutCamerasText, Goto
<1>6. CASE PutImagesText(i)
  <2>1. NamesOf(<<"images", att[i].n>>, "text") = {}
    BY DEF NamesOf
  <2> QED BY <1>6, <2>1, <1>3 DEF PutImagesText, Goto
<1>7. CASE BuildDatabase(i) \/ RunMatching(i) \/ OpenDatabase(i)
  <2>1. UNCHANGED store /\ \E pc \in {"adjust", "match", "pack", "map"} : Goto(i, pc)
    BY <1>7 DEF BuildDatabase, RunMatching, OpenDatabase
  <2> QED BY <2>1, <1>2 DEF Goto
<1>8. CASE PackAndUpload(i)
  <2> DEFINE k == <<"snapshot", att[i].n>>
             v == Read(i, "db", 0)
  <2>1. Put(k, v) /\ Goto(i, "mark")
    BY <1>8 DEF PackAndUpload
  <2>2. NamesOf(k, v) = {}
    BY DEF NamesOf
  <2> HIDE DEF v
  <2>3. att'[i].stage = "sfm" /\ att'[i].pc = "mark" /\ att'[i].n = att[i].n
    BY <1>0, <2>1, Continued DEF Goto
  <2>4. Prepared(att'[i], DOMAIN store \cup {k})
    BY <2>3 DEF Prepared
  <2> HIDE DEF k
  <2> QED BY <2>1, <2>2, <2>4, OnwardPut DEF Goto
<1>9. CASE PutMarker(i)
  <2>1. <<"snapshot", att[i].n>> \in DOMAIN store
    BY <1>9 DEF PutMarker, InPose, At, Prepared
  <2>2. NamesOf(<<"matched", att[i].n>>, "marker") \subseteq DOMAIN store
    BY <2>1 DEF NamesOf
  <2> QED BY <1>9, <2>2, <1>3 DEF PutMarker, Goto
<1>10. CASE CheckResult(i)
  BY <1>10, Ending DEF CheckResult
<1>11. CASE IncrementalMapping(i)
  <2>1. CASE End(i, "failed")
    BY <1>11, <2>1, Ending DEF IncrementalMapping
  <2>2. CASE Continue(i, "model", att[i].n, [db |-> Read(i, "db", 0), file |-> 1])
    <3> DEFINE out == [db |-> Read(i, "db", 0), file |-> 1]
    <3>1. /\ att'[i].stage = "sfm" /\ att'[i].pc = "model"
          /\ att'[i].n = att[i].n /\ att'[i].out = out
      BY <1>0, <2>2, Continued
    <3>2. DOMAIN out = {"db", "file"} /\ out.file = 1
      OBVIOUS
    <3> HIDE DEF out
    <3>3. Prepared(att'[i], DOMAIN store)
      BY <3>1, <3>2 DEF Prepared
    <3> QED BY <1>11, <2>2, <3>3, Onward DEF IncrementalMapping
  <2> QED BY <1>11, <2>1, <2>2 DEF IncrementalMapping
<1>12. CASE UploadModel(i)
  <2> DEFINE c == att[i].out.file
             h == att[i].n
             k == <<"model", 2 * c + h>>
             v == att[i].out.db
             out == [att[i].out EXCEPT !.file = @ + 1]
  <2>1. /\ DOMAIN att[i].out = {"db", "file"} /\ c \in Nat \ {0}
        /\ \A f \in 1 .. c - 1 : <<"model", 2 * f + h>> \in DOMAIN store
        /\ Put(k, v) /\ Continue(i, "model", h, out)
    BY <1>0, <1>12 DEF UploadModel, InPose, At, Prepared
  <2>2. NamesOf(k, v) = {}
    BY DEF NamesOf
  <2>3. DOMAIN out = {"db", "file"} /\ out.file = c + 1
    BY <2>1
  <2> HIDE DEF out, v
  <2>4. /\ att'[i].stage = "sfm" /\ att'[i].pc = "model"
        /\ att'[i].n = h /\ att'[i].out = out
    BY <1>0, <2>1, Continued
  <2> HIDE DEF c, h
  <2>5. ASSUME NEW f \in 1 .. (c + 1) - 1
        PROVE  <<"model", 2 * f + h>> \in DOMAIN store \cup {k}
    <3>1. CASE f \in 1 .. c - 1
      BY <2>1, <3>1
    <3>2. CASE f \notin 1 .. c - 1
      <4>1. f = c
        BY <2>1, <2>5, <3>2
      <4> QED BY <4>1
    <3> QED BY <3>1, <3>2
  <2>6. c + 1 \in Nat \ {0}
    BY <2>1
  <2> HIDE DEF k
  <2>7. Prepared(att'[i], DOMAIN store \cup {k})
    BY <2>3, <2>4, <2>5, <2>6 DEF Prepared
  <2> QED BY <2>1, <2>2, <2>7, OnwardPut
<1>13. CASE PutCenters(i)
  <2> DEFINE c == att[i].out.file
             h == att[i].n
             k == <<"centers", h>>
  <2>1. /\ c \in Nat \ {0} /\ c > ModelSize
        /\ \A f \in 1 .. c - 1 : <<"model", 2 * f + h>> \in DOMAIN store
        /\ Put(k, h) /\ Goto(i, "answer")
    BY <1>0, <1>13 DEF PutCenters, InPose, At, Prepared
  <2>2. NamesOf(k, h) = {}
    BY DEF NamesOf
  <2>3. att'[i].stage = "sfm" /\ att'[i].pc = "answer" /\ att'[i].n = h
    BY <1>0, <2>1, Continued DEF Goto
  <2> HIDE DEF c, h
  <2>4. ModelKeys(h) \subseteq DOMAIN store
    <3>1. \A f \in 1 .. ModelSize : f \in 1 .. c - 1
      BY <2>1, PoseConstantsOK DEF PoseConstantsOK
    <3> QED BY <2>1, <3>1 DEF ModelKeys
  <2>5. Prepared(att'[i], DOMAIN store \cup {k})
    BY <2>3, <2>4 DEF Prepared
  <2> HIDE DEF k
  <2>6. Continue(i, "answer", att[i].n, att[i].out)
    BY <2>1 DEF Goto
  <2> QED BY <2>1, <2>2, <2>5, <2>6, OnwardPut
<1>14. CASE PutResult(i)
  <2> DEFINE v == att[i].out.db
  <2>1. {<<"centers", att[i].n>>} \cup ModelKeys(att[i].n) \subseteq DOMAIN store
    BY <1>14 DEF PutResult, InPose, At, Prepared
  <2>2. NamesOf(<<"sfm", att[i].n>>, v) \subseteq DOMAIN store
    BY <2>1 DEF NamesOf
  <2> QED BY <1>14, <2>2, EndingPut DEF PutResult
<1> QED
  BY <1>4, <1>5, <1>6, <1>7, <1>8, <1>9, <1>10, <1>11, <1>12, <1>13, <1>14 DEF Pose

\* Meshing, georeferencing and the check have nothing prepared.
LEMMA Unprepared ==
    ASSUME AttemptsTyped, NEW i \in Attempts, att[i].stage \in {"mesh", "georef", "check"},
           NEW pc, NEW n, NEW out, Continue(i, pc, n, out), NEW K
    PROVE  Prepared(att'[i], K)
<1>1. att'[i].stage = att[i].stage
  BY Continued
<1> QED BY <1>1 DEF Prepared

LEMMA TrainingSound ==
    ASSUME AttemptsTyped, StoreComplete, NEW i \in Attempts, Dense3DGS(i),
           Prepared(att[i], DOMAIN store)
    PROVE  Sound(i)
<1>0. att[i].stage = "train"
  BY DEF Dense3DGS, At, LoadCheckpoint, SkipTraining, Train, SaveCheckpoint, SaveLatest,
         TrainingEnd, UploadScene, UploadSplat, PutMetrics
<1>1. ASSUME NEW pc, NEW n, NEW out, Continue(i, pc, n, out), NEW K, pc # "latest"
      PROVE  Prepared(att'[i], K)
  <2>1. att'[i].stage = "train" /\ att'[i].pc = pc
    BY <1>0, <1>1, Continued
  <2> QED BY <1>1, <2>1 DEF Prepared
<1>2. ASSUME NEW pc, NEW n, NEW out, Continue(i, pc, n, out), pc # "latest", UNCHANGED store
      PROVE  Sound(i)
  <2>1. Prepared(att'[i], DOMAIN store)
    BY <1>1, <1>2
  <2> QED BY <1>2, <2>1, Onward
<1>3. CASE LoadCheckpoint(i) \/ SkipTraining(i) \/ Train(i) \/ TrainingEnd(i)
  <2>1. UNCHANGED store
    BY <1>3 DEF LoadCheckpoint, SkipTraining, Train, TrainingEnd
  <2>2. \/ End(i, "failed")
        \/ \E pc, n, out : pc # "latest" /\ Continue(i, pc, n, out)
    BY <1>3 DEF LoadCheckpoint, SkipTraining, Train, TrainingEnd, Goto
  <2> QED BY <2>1, <2>2, <1>2, Ending
<1>4. CASE SaveCheckpoint(i)
  <2> DEFINE k == <<"step", att[i].n>>
  <2>1. Put(k, att[i].n) /\ Goto(i, "latest")
    BY <1>4 DEF SaveCheckpoint
  <2>2. NamesOf(k, att[i].n) = {}
    BY DEF NamesOf
  <2>3. att'[i].stage = "train" /\ att'[i].pc = "latest" /\ att'[i].n = att[i].n
    BY <1>0, <2>1, Continued DEF Goto
  <2>4. Prepared(att'[i], DOMAIN store \cup {k})
    BY <2>3 DEF Prepared
  <2> HIDE DEF k
  <2> QED BY <2>1, <2>2, <2>4, OnwardPut DEF Goto
<1>5. ASSUME NEW k, NEW v, Put(k, v), NamesOf(k, v) \subseteq DOMAIN store,
             NEW pc, NEW n, NEW out, Continue(i, pc, n, out), pc # "latest"
      PROVE  Sound(i)
  <2>1. Prepared(att'[i], DOMAIN store \cup {k})
    BY <1>1, <1>5
  <2> QED BY <1>5, <2>1, OnwardPut
<1>6. CASE SaveLatest(i)
  <2>1. <<"step", att[i].n>> \in DOMAIN store
    BY <1>6 DEF SaveLatest, At, Prepared
  <2>2. NamesOf(<<"latest", 0>>, att[i].n) \subseteq DOMAIN store
    BY <2>1 DEF NamesOf
  <2> QED BY <1>6, <2>2, <1>5 DEF SaveLatest
<1>7. CASE UploadScene(i) \/ UploadSplat(i) \/ PutMetrics(i)
  <2>1. \A s \in {"scene", "splat", "metrics"} : NamesOf(<<s, 0>>, 0) = {}
    BY DEF NamesOf
  <2> QED BY <1>7, <2>1, <1>5, EndingPut DEF UploadScene, UploadSplat, PutMetrics, Goto
<1> QED BY <1>3, <1>4, <1>6, <1>7 DEF Dense3DGS

LEMMA MeshingSound ==
    ASSUME AttemptsTyped, StoreComplete, NEW i \in Attempts,
           Meshing(i) \/ Georef(i) \/ CheckProducts(i)
    PROVE  Sound(i)
<1>0. att[i].stage \in {"mesh", "georef", "check"}
  BY DEF Meshing, Georef, CheckProducts, At, Densify, Audit, CheckLods, BakeLod, MeshingEnd,
         GeorefScene, GetLod, PutLod, PutReport
<1>1. ASSUME NEW pc, NEW n, NEW out, Continue(i, pc, n, out), UNCHANGED store
      PROVE  Sound(i)
  <2>1. Prepared(att'[i], DOMAIN store)
    BY <1>0, <1>1, Unprepared
  <2> QED BY <1>1, <2>1, Onward
<1>2. ASSUME NEW pc, NEW n, NEW out, Continue(i, pc, n, out),
             NEW k, NEW v, Put(k, v), NamesOf(k, v) = {}
      PROVE  Sound(i)
  <2>1. Prepared(att'[i], DOMAIN store \cup {k})
    BY <1>0, <1>2, Unprepared
  <2> QED BY <1>2, <2>1, OnwardPut
<1>3. \A s \in {"cloud", "audit", "lod", "georef", "qa"} : \A l, v : NamesOf(<<s, l>>, v) = {}
  BY DEF NamesOf
<1>4. CASE Meshing(i)
  <2>1. CASE Densify(i)
    BY <2>1, <1>2, <1>3 DEF Densify, Goto
  <2>2. CASE Audit(i)
    BY <2>2, <1>1, <1>2, <1>3 DEF Audit, Goto
  <2>3. CASE CheckLods(i)
    BY <2>3, <1>1, Ending DEF CheckLods
  <2>4. CASE BakeLod(i)
    BY <2>4, <1>1, <1>2, <1>3 DEF BakeLod
  <2>5. CASE MeshingEnd(i)
    BY <2>5, Ending DEF MeshingEnd
  <2> QED BY <1>4, <2>1, <2>2, <2>3, <2>4, <2>5 DEF Meshing
<1>5. CASE Georef(i)
  <2>1. CASE GeorefScene(i)
    BY <2>1, <1>1, <1>2, <1>3 DEF GeorefScene
  <2>2. CASE GetLod(i)
    BY <2>2, <1>1 DEF GetLod, Goto
  <2>3. CASE PutLod(i)
    <3>1. CASE Put(<<"lod", att[i].n>>, Read(i, "lod", att[i].n))
      <4> DEFINE v == Read(i, "lod", att[i].n)
      <4>1. NamesOf(<<"lod", att[i].n>>, v) = {}
        BY <1>3
      <4> HIDE DEF v
      <4> QED BY <2>3, <3>1, <4>1, <1>2 DEF PutLod, v
    <3>2. CASE UNCHANGED store
      BY <2>3, <3>2, <1>1 DEF PutLod
    <3> QED BY <2>3, <3>1, <3>2 DEF PutLod
  <2>4. CASE PutReport(i)
    BY <2>4, <1>3, EndingPut DEF PutReport
  <2> QED BY <1>5, <2>1, <2>2, <2>3, <2>4 DEF Georef
<1>6. CASE CheckProducts(i)
  <2>1. UNCHANGED store /\ \E s \in {"done", "failed"} : End(i, s)
    BY <1>6 DEF CheckProducts
  <2> QED BY <2>1, Ending
<1> QED BY <1>4, <1>5, <1>6

\* What a product attempt has in hand is stored.
LEMMA ProductSound ==
    ASSUME AttemptsTyped, StoreComplete, NEW i \in Attempts, ProductGen(i),
           Prepared(att[i], DOMAIN store)
    PROVE  Sound(i)
<1>0. att[i].stage = "products" /\ DOMAIN att[i].out \subseteq DOMAIN store
  <2>1. att[i].stage = "products"
    BY DEF ProductGen, At, CopyMesh, CopyTrajectory, FindReport, AssemblePoints, AssembleRaster,
           AssembleProvenance, ComputeChecksums, publish_products, ProductsEnd, PutProduct
  <2> QED BY <2>1 DEF Prepared
<1>1. ASSUME NEW pc, NEW n, NEW out, Continue(i, pc, n, out), NEW K, DOMAIN out \subseteq K
      PROVE  Prepared(att'[i], K)
  <2>1. att'[i].stage = "products" /\ att'[i].out = out
    BY <1>0, <1>1, Continued
  <2> QED BY <1>1, <2>1 DEF Prepared
<1>2. ASSUME NEW pc, NEW n, NEW out, Continue(i, pc, n, out),
             DOMAIN out \subseteq DOMAIN store, UNCHANGED store
      PROVE  Sound(i)
  <2>1. Prepared(att'[i], DOMAIN store)
    BY <1>1, <1>2
  <2> QED BY <1>2, <2>1, Onward
<1>3. ASSUME NEW k, NEW v, Put(k, v), NamesOf(k, v) = {},
             NEW pc, Continue(i, pc, 0, Listed(i, k))
      PROVE  Sound(i)
  <2>1. DOMAIN Listed(i, k) \subseteq DOMAIN store \cup {k}
    BY <1>0 DEF Listed, With
  <2> HIDE DEF Listed
  <2>2. Prepared(att'[i], DOMAIN store \cup {k})
    BY <1>1, <1>3, <2>1
  <2> QED BY <1>3, <2>2, OnwardPut
<1>4. \A s \in {"O-1", "O-2", "O-5", "O-6", "O-9"} : \A v : NamesOf(<<s, 0>>, v) = {}
  BY DEF NamesOf
<1>5. ASSUME NEW from, NEW s \in {"O-1", "O-5"}, NEW next, CopyIfExists(i, from, <<s, 0>>, next)
      PROVE  Sound(i)
  <2>1. CASE Put(<<s, 0>>, store[from]) /\ Continue(i, next, 0, Listed(i, <<s, 0>>))
    BY <2>1, <1>3, <1>4
  <2>2. CASE Continue(i, next, 0, att[i].out) /\ UNCHANGED store
    BY <2>2, <1>0, <1>2
  <2> QED BY <1>5, <2>1, <2>2 DEF CopyIfExists
<1>6. ASSUME NEW s \in {"O-2", "O-6", "O-9"}, NEW v, NEW next, PutProduct(i, <<s, 0>>, v, next)
      PROVE  Sound(i)
  BY <1>6, <1>3, <1>4 DEF PutProduct
<1>7. CASE CopyMesh(i) \/ CopyTrajectory(i)
  BY <1>7, <1>5 DEF CopyMesh, CopyTrajectory
<1>8. CASE FindReport(i)
  <2>1. CASE Found(<<"qa", 0>>) /\ Continue(i, "points", 0, Listed(i, <<"qa", 0>>))
    <3>1. DOMAIN Listed(i, <<"qa", 0>>) \subseteq DOMAIN store
      BY <1>0, <2>1 DEF Listed, With, Found, Has
    <3> QED BY <1>8, <2>1, <3>1, <1>2 DEF FindReport
  <2>2. CASE Goto(i, "points")
    BY <1>8, <2>2, <1>0, <1>2 DEF FindReport, Goto
  <2> QED BY <1>8, <2>1, <2>2 DEF FindReport
<1>9. CASE AssemblePoints(i) \/ AssembleRaster(i) \/ AssembleProvenance(i)
  BY <1>9, <1>6 DEF AssemblePoints, PutPoints, AssembleRaster, AssembleProvenance
<1>10. CASE ComputeChecksums(i)
  <2> DEFINE out == [k \in DOMAIN att[i].out |-> store[k]]
  <2>1. DOMAIN out \subseteq DOMAIN store
    BY <1>0
  <2>2. Continue(i, "publish", 0, out) /\ UNCHANGED store
    BY <1>10 DEF ComputeChecksums
  <2> HIDE DEF out
  <2> QED BY <2>1, <2>2, <1>2
<1>11. CASE publish_products(i)
  BY <1>11, <1>0, <1>2 DEF publish_products, Goto
<1>12. CASE ProductsEnd(i)
  BY <1>12, Ending DEF ProductsEnd
<1> QED BY <1>7, <1>8, <1>9, <1>10, <1>11, <1>12 DEF ProductGen

\* What the start of an attempt does to the records.
LEMMA Launched ==
    ASSUME AttemptsTyped, NEW stage, NEW run, Launch(stage, run)
    PROVE  /\ AttemptsTyped'
           /\ \A j \in Attempts : j # last + 1 => att'[j] = att[j]
           /\ last + 1 \in Attempts =>
                  /\ att'[last + 1].status = "running" /\ att'[last + 1].stage = stage
                  /\ att'[last + 1].run = run /\ att'[last + 1].on \in Hosts
                  /\ att'[last + 1].pc = "begin" /\ att'[last + 1].out = Empty
                  /\ att'[last + 1].rivals = {i \in Attempts : Running(i)}
<1> DEFINE new(m) == [Idle EXCEPT !.status = "running", !.stage = stage, !.run = run, !.on = m,
                                  !.pc = "begin", !.rivals = {i \in Attempts : Running(i)}]
<1>1. PICK m \in Hosts : att' = [att EXCEPT ![last + 1] = new(m)]
  BY DEF Launch
<1>2. /\ DOMAIN new(m) = Fields
      /\ new(m).status = "running" /\ new(m).stage = stage /\ new(m).run = run
      /\ new(m).on = m /\ new(m).pc = "begin" /\ new(m).out = Empty
      /\ new(m).rivals = {i \in Attempts : Running(i)}
  BY DEF Idle, Fields
<1> HIDE DEF new
<1> QED BY <1>1, <1>2 DEF AttemptsTyped

\* The server and the environment.
Outer == Server \/ Environment

LEMMA OuterShape ==
    ASSUME Outer
    PROVE  /\ UNCHANGED <<scene, store, rows>>
           /\ \/ \E stage, run : Launch(stage, run)
              \/ UNCHANGED last /\ \/ \E i \in Attempts : Running(i) /\ End(i, "raised")
                                   \/ LoseAnswer
                                   \/ \E m \in Machines : Crash(m)
<1>1. CASE \E stage, run : Launch(stage, run)
  BY <1>1 DEF Launch
<1>2. CASE Server \/ TimeOut
  BY <1>1, <1>2 DEF Server, FirstAttempt, Retry, NextStage, Rerun, DirectStage, TimeOut
<1>3. CASE LoseAnswer
  BY <1>3 DEF LoseAnswer
<1>4. CASE \E i \in Attempts : CallRaises(i)
  BY <1>4 DEF CallRaises, Keep
<1>5. CASE \E m \in Machines : Crash(m)
  BY <1>5 DEF Crash
<1> QED BY <1>1, <1>2, <1>3, <1>4, <1>5 DEF Outer, Environment

\* Outside of the attempts a record changes by its start or by its end.
LEMMA OuterFrame ==
    ASSUME AttemptsTyped, Outer
    PROVE  /\ AttemptsTyped'
           /\ \A j \in Attempts :
                  \/ att'[j] = att[j]
                  \/ /\ att'[j].status \in {"raised", "lost"}
                     /\ att[j].status \in {"running", "done"}
                     /\ att'[j].stage = att[j].stage /\ att'[j].run = att[j].run
                     /\ att'[j].on = att[j].on /\ att'[j].pc = att[j].pc /\ att'[j].n = att[j].n
                     /\ att'[j].rivals = att[j].rivals
                     /\ UNCHANGED last
                  \/ /\ j = last + 1 /\ last' = last + 1
                     /\ att'[j].status = "running" /\ att'[j].pc = "begin"
                     /\ att'[j].out = Empty /\ att'[j].on \in Hosts
                     /\ att'[j].rivals = {i \in Attempts : Running(i)}
<1>1. ASSUME NEW stage, NEW run, Launch(stage, run)
      PROVE  /\ AttemptsTyped'
             /\ \A j \in Attempts :
                  \/ att'[j] = att[j]
                  \/ /\ j = last + 1 /\ last' = last + 1
                     /\ att'[j].status = "running" /\ att'[j].pc = "begin"
                     /\ att'[j].out = Empty /\ att'[j].on \in Hosts
                     /\ att'[j].rivals = {i \in Attempts : Running(i)}
  <2>1. last' = last + 1
    BY <1>1 DEF Launch
  <2> QED BY <1>1, <2>1, Launched
<1>2. CASE UNCHANGED last /\ \E i \in Attempts : Running(i) /\ End(i, "raised")
  <2>1. PICK i \in Attempts : Running(i) /\ End(i, "raised")
    BY <1>2
  <2>2. /\ AttemptsTyped'
        /\ \A j \in Attempts : j # i => att'[j] = att[j]
        /\ att'[i].status = "raised" /\ att'[i].pc = att[i].pc
        /\ att'[i].stage = att[i].stage /\ att'[i].n = att[i].n
        /\ att'[i].run = att[i].run /\ att'[i].on = att[i].on
        /\ att'[i].rivals = att[i].rivals
    BY <2>1, Closed
  <2> QED BY <1>2, <2>1, <2>2 DEF Running
<1>3. CASE UNCHANGED last /\ LoseAnswer
  BY <1>3 DEF LoseAnswer, AttemptsTyped, Fields
<1>4. CASE UNCHANGED last /\ \E m \in Machines : Crash(m)
  <2>1. PICK m \in Machines : Crash(m)
    BY <1>4
  <2>2. att' = [i \in Attempts |->
                   IF i \in Busy(m) THEN [att[i] EXCEPT !.status = "lost", !.out = Empty]
                   ELSE att[i]]
    BY <2>1 DEF Crash
  <2>3. \A j \in Busy(m) : att[j].status = "running"
    BY DEF Busy, Running
  <2> QED BY <1>4, <2>2, <2>3 DEF AttemptsTyped, Fields
<1> QED BY <1>1, <1>2, <1>3, <1>4, OuterShape

LEMMA NextCases ==
    ASSUME Next
    PROVE  Outer \/ \E i \in Attempts : Step(i)
BY DEF Next, Outer

\* The inductive invariant: what is stored, listed and prepared is complete.
StoreInv == scene \in Scenes /\ AttemptsTyped /\ CompleteInv

LEMMA StepSound ==
    ASSUME StoreInv, NEW i \in Attempts, Step(i)
    PROVE  Sound(i)
<1>1. AttemptsTyped /\ StoreComplete /\ Prepared(att[i], DOMAIN store)
  BY DEF StoreInv, CompleteInv, StoreComplete, Step
<1>2. scene.frames \in Nat
  BY ScenesOK DEF ScenesOK, StoreInv
<1> QED BY <1>1, <1>2, CurationSound, MaskingSound, DepthSound, PoseSound, TrainingSound,
           MeshingSound, ProductSound DEF Step

\* The rows of an attempt list what it has in hand.
LEMMA RowsStored ==
    ASSUME StoreInv, NEW i \in Attempts, Step(i)
    PROVE  /\ rows \subseteq rows'
           /\ \A r \in rows' : r \in rows \/ r.key \in DOMAIN store
<1>1. CASE UNCHANGED rows
  BY <1>1
<1>2. CASE publish_products(i)
  <2>1. DOMAIN att[i].out \subseteq DOMAIN store
    BY <1>2 DEF publish_products, At, Prepared, StoreInv, CompleteInv
  <2>2. rows' = rows \cup {[by |-> i, key |-> k, checksum |-> att[i].out[k]] :
                              k \in DOMAIN att[i].out}
    BY <1>2 DEF publish_products
  <2> QED BY <2>1, <2>2
<1> QED BY <1>1, <1>2, StepShape

LEMMA StoreInvInit ==
    ASSUME Init
    PROVE  StoreInv
<1>1. scene \in Scenes /\ store = scene.stored /\ rows = {}
  BY DEF Init
<1>2. \A k \in DOMAIN store : NamesOf(k, store[k]) \subseteq DOMAIN store
  BY <1>1, ScenesOK DEF ScenesOK
<1>3. AttemptsTyped
  BY DEF AttemptsTyped, Init, Idle, Fields
<1>4. \A i \in Attempts : ~Running(i)
  BY DEF Init, Idle, Running
<1> QED BY <1>1, <1>2, <1>3, <1>4 DEF StoreInv, CompleteInv

LEMMA StoreInvStep ==
    ASSUME StoreInv, [Next]_vars
    PROVE  StoreInv'
<1>1. CASE UNCHANGED vars
  BY <1>1 DEF vars, StoreInv, AttemptsTyped, CompleteInv, Running, Has, NamesOf, Aligned,
              ModelKeys
<1>2. ASSUME NEW i \in Attempts, Step(i)
      PROVE  StoreInv'
  <2>1. AttemptsTyped' /\ \A j \in Attempts : j # i => att'[j] = att[j]
    BY <1>2, StepFrame DEF StoreInv
  <2>2. Sound(i)
    BY <1>2, StepSound
  <2>3. \A r \in rows' : Has(r.key)'
    BY <1>2, <2>2, RowsStored DEF StoreInv, CompleteInv, Has, Sound
  <2>4. ASSUME NEW j \in Attempts, Running(j)'
        PROVE  Prepared(att'[j], DOMAIN store')
    <3>1. CASE j = i
      BY <2>2, <2>4, <3>1 DEF Sound
    <3>2. CASE j # i
      <4>1. att'[j] = att[j] /\ Prepared(att[j], DOMAIN store)
        BY <2>1, <2>4, <3>2 DEF StoreInv, CompleteInv, Running
      <4> QED BY <4>1, <2>2, PreparedGrows DEF Sound
    <3> QED BY <3>1, <3>2
  <2>5. scene' = scene
    BY <1>2, StepShape DEF Shape
  <2>6. CompleteInv'
    <3>1. (\A k \in DOMAIN store : NamesOf(k, store[k]) \subseteq DOMAIN store)'
      BY <2>2 DEF Sound, StoreComplete
    <3> QED BY <2>3, <2>4, <3>1 DEF CompleteInv
  <2> QED BY <2>1, <2>5, <2>6 DEF StoreInv
<1>3. CASE Outer
  <2>1. UNCHANGED <<scene, store, rows>>
    BY <1>3, OuterShape
  <2>2. AttemptsTyped'
    BY <1>3, OuterFrame DEF StoreInv
  <2>3. ASSUME NEW j \in Attempts, Running(j)'
        PROVE  Prepared(att'[j], DOMAIN store)
    <3>1. \/ att'[j] = att[j]
          \/ att'[j].pc = "begin" /\ att'[j].out = Empty
      BY <1>3, <2>3, OuterFrame DEF StoreInv, Running
    <3>2. CASE att'[j] = att[j]
      BY <2>3, <3>2 DEF StoreInv, CompleteInv, Running
    <3>3. CASE att'[j].pc = "begin" /\ att'[j].out = Empty
      BY <3>3 DEF Prepared, Empty
    <3> QED BY <3>1, <3>2, <3>3
  <2>4. CompleteInv'
    BY <2>1, <2>3 DEF StoreInv, CompleteInv, Has, NamesOf, Aligned, ModelKeys
  <2> QED BY <2>1, <2>2, <2>4 DEF StoreInv
<1> QED BY <1>1, <1>2, <1>3, NextCases

THEOREM StoreInvariant == Spec => []StoreInv
<1>1. StoreInv /\ [Next]_vars => StoreInv'
  BY StoreInvStep
<1> QED BY <1>1, StoreInvInit, PTL DEF Spec

-------------------------------------------------------------------------------
(* The stages implement the contract.                                      *)

LEMMA NamesComplete ==
    ASSUME StoreInv
    PROVE  Contract!Complete(Names)
<1>1. DOMAIN store \subseteq DOMAIN Names
  BY DEF Names
<1>2. ASSUME NEW k \in DOMAIN Names
      PROVE  Names[k] \subseteq DOMAIN store
  <2>1. CASE k \in DOMAIN store
    <3>1. Names[k] = NamesOf(k, store[k])
      BY <1>2, <2>1 DEF Names
    <3> QED BY <2>1, <3>1 DEF StoreInv, CompleteInv
  <2>2. CASE k \notin DOMAIN store
    <3>1. Names[k] = {r.key : r \in RowsOf(k[2])}
      BY <1>2, <2>2 DEF Names
    <3> QED BY <3>1 DEF StoreInv, CompleteInv, RowsOf, Has
  <2> QED BY <2>1, <2>2
<1> QED BY <1>1, <1>2 DEF Contract!Complete

LEMMA NamesGrow ==
    ASSUME StoreInv, [Next]_vars
    PROVE  DOMAIN Names \subseteq DOMAIN Names'
<1>1. DOMAIN store \subseteq DOMAIN store' /\ rows \subseteq rows'
  <2>1. CASE UNCHANGED vars
    BY <2>1 DEF vars
  <2>2. ASSUME NEW i \in Attempts, Step(i)
        PROVE  DOMAIN store \subseteq DOMAIN store' /\ rows \subseteq rows'
    BY <2>2, StepSound, RowsStored DEF Sound
  <2>3. CASE Outer
    BY <2>3, OuterShape
  <2> QED BY <2>1, <2>2, <2>3, NextCases
<1>2. DOMAIN Names = DOMAIN store \cup {Rows(r.by) : r \in rows}
  BY DEF Names
<1>3. (DOMAIN Names)' = DOMAIN store' \cup {Rows(r.by) : r \in rows'}
  BY DEF Names, Rows
<1> QED BY <1>1, <1>2, <1>3 DEF Rows

\* Completion objects come last: at every moment, whatever overlaps, fails or dies, no
\* stored object and no catalog row names an object that is not there.
THEOREM StagesImplementContract == Spec => ImplementsContract
<1>1. Init => Contract!Init
  BY StoreInvInit, NamesComplete DEF Contract!Init
<1>2. StoreInv /\ StoreInv' /\ [Next]_vars => [Contract!Next]_Names
  <2> SUFFICES ASSUME StoreInv, StoreInv', [Next]_vars PROVE Contract!PutObject
    BY DEF Contract!Next
  <2>1. Contract!Complete(Names)'
    BY NamesComplete, PTL
  <2> QED BY <2>1, NamesGrow DEF Contract!PutObject
<1> QED BY <1>1, <1>2, StoreInvariant, PTL DEF Spec, ImplementsContract, Contract!Spec

-------------------------------------------------------------------------------
(* Types, the number of attempts, and when a product is listed twice.      *)

\* The inductive invariant of the attempts.
AttemptInv ==
    /\ AttemptsTyped /\ TypeOK
    /\ faults \in Nat /\ faults <= scene.budget
    /\ \A i \in Attempts : i > last => att[i] = Idle
    /\ AttemptsCounted /\ LastOfItsRun /\ RowsByProductGen

\* How many attempts there can be when the last one executes a stage of a run.
Count(stage, run) == 3 * (run - 1) + StagesBefore(stage) + 1

LEMMA StagesBeforeNat ==
    ASSUME NEW s
    PROVE  StagesBefore(s) \in 0 .. 2
BY DEF StagesBefore

LEMMA DirectLength == Len(DirectStages) = 9 /\ DirectStages[8] = "products"
                      /\ \A k \in 1 .. 9 : DirectStages[k] = "products" => k = 8
BY DEF DirectStages

LEMMA Bounds ==
    ASSUME AttemptInv
    PROVE  /\ MaxFaults \in Nat /\ MaxRuns \in Nat \ {0}
           /\ scene.budget \in 0 .. MaxFaults /\ scene.runs \in 1 .. MaxRuns
           /\ last \in Nat /\ MaxAttempts = 3 * MaxRuns + 6 + MaxFaults
BY ConstantsOK DEF ConstantsOK, AttemptInv, TypeOK, MaxAttempts

\* What is launched: by the server when the attempt before it is over, or late.
LEMMA LaunchCases ==
    ASSUME AttemptInv, NEW s, NEW u, Launch(s, u), Outer
    PROVE  \E stage, run :
               /\ Launch(stage, run) /\ faults' \in {faults, faults + 1}
               /\ faults' <= scene.budget
               /\ \/ Served /\ last = 0 /\ run = 1
                  \/ /\ Served /\ last > 0 /\ att[last].status # "done"
                     /\ stage = att[last].stage /\ run = att[last].run
                     /\ att[last].status \notin {"raised", "lost"} => faults' = faults + 1
                  \/ /\ Served /\ last > 0 /\ att[last].status = "done"
                     /\ run = att[last].run /\ att[last].stage # "products"
                     /\ StagesBefore(stage) = StagesBefore(att[last].stage) + 1
                  \/ /\ Served /\ last > 0 /\ att[last].status = "done"
                     /\ att[last].stage = "products" /\ stage = "mesh"
                     /\ run = att[last].run + 1 /\ att[last].run < scene.runs
                  \/ /\ ~Served /\ last < 9 /\ stage = DirectStages[last + 1] /\ run = 1
<1> USE DEF Works, Fails
<1>0. faults \in Nat /\ faults <= scene.budget /\ scene.budget \in Nat
  BY Bounds DEF AttemptInv
<1>1. last' = last + 1 /\ last \in Nat
  BY Bounds DEF Launch
<1>2. CASE FirstAttempt
  BY <1>0, <1>2 DEF FirstAttempt
<1>3. CASE DirectStage
  BY <1>0, <1>3, DirectLength DEF DirectStage
<1>4. CASE Retry
  BY <1>0, <1>4 DEF Retry
<1>5. CASE TimeOut
  BY <1>0, <1>5 DEF TimeOut, Running
<1>6. CASE NextStage
  <2>1. att[last].stage \in {"mesh", "georef"}
    BY <1>6 DEF NextStage, After
  <2>2. StagesBefore(After[att[last].stage]) = StagesBefore(att[last].stage) + 1
    BY <2>1 DEF After, StagesBefore
  <2> QED BY <1>0, <1>6, <2>1, <2>2 DEF NextStage
<1>7. CASE Rerun
  BY <1>0, <1>7 DEF Rerun
<1>8. CASE LoseAnswer \/ (\E i \in Attempts : CallRaises(i)) \/ (\E m \in Machines : Crash(m))
  <2>1. last' = last
    BY <1>8 DEF LoseAnswer, CallRaises, Crash, Keep
  <2> QED BY <1>1, <2>1
<1> QED BY <1>2, <1>3, <1>4, <1>5, <1>6, <1>7, <1>8 DEF Outer, Server, Environment

LEMMA MoreRoom ==
    ASSUME NEW a \in Nat, NEW b \in Nat, NEW c \in Nat, NEW d \in Nat, b <= d, a <= c + b
    PROVE  a <= c + d
OBVIOUS

\* There is room for every attempt that is launched.
LEMMA Room ==
    ASSUME AttemptInv, NEW s, NEW u, Launch(s, u), Outer
    PROVE  /\ last + 1 \in Attempts
           /\ att'[last + 1].run \in 1 .. MaxRuns
           /\ Served => last + 1 <= Count(att'[last + 1].stage, att'[last + 1].run) + faults'
           /\ ~Served => last + 1 <= 9 /\ att'[last + 1].stage = DirectStages[last + 1]
<1>1. PICK stage, run :
               /\ Launch(stage, run) /\ faults' \in {faults, faults + 1}
               /\ faults' <= scene.budget
               /\ \/ Served /\ last = 0 /\ run = 1
                  \/ /\ Served /\ last > 0 /\ att[last].status # "done"
                     /\ stage = att[last].stage /\ run = att[last].run
                     /\ att[last].status \notin {"raised", "lost"} => faults' = faults + 1
                  \/ /\ Served /\ last > 0 /\ att[last].status = "done"
                     /\ run = att[last].run /\ att[last].stage # "products"
                     /\ StagesBefore(stage) = StagesBefore(att[last].stage) + 1
                  \/ /\ Served /\ last > 0 /\ att[last].status = "done"
                     /\ att[last].stage = "products" /\ stage = "mesh"
                     /\ run = att[last].run + 1 /\ att[last].run < scene.runs
                  \/ /\ ~Served /\ last < 9 /\ stage = DirectStages[last + 1] /\ run = 1
  BY LaunchCases
<1>2. /\ faults \in Nat /\ last \in Nat /\ faults <= scene.budget
      /\ scene.budget \in 0 .. MaxFaults /\ scene.runs \in 1 .. MaxRuns
      /\ MaxFaults \in Nat /\ MaxRuns \in Nat \ {0}
      /\ MaxAttempts = 3 * MaxRuns + 6 + MaxFaults
  BY Bounds DEF AttemptInv
<1>3. last > 0 => last \in Attempts /\ att[last].run \in 1 .. MaxRuns
  BY <1>2 DEF AttemptInv, TypeOK, Attempts
<1>4. /\ StagesBefore(stage) \in 0 .. 2 /\ StagesBefore(att[last].stage) \in 0 .. 2
      /\ StagesBefore("mesh") = 0 /\ StagesBefore("products") = 2
  BY StagesBeforeNat DEF StagesBefore
<1>5. ASSUME Served, last > 0
      PROVE  /\ last <= Count(att[last].stage, att[last].run) + faults
             /\ att[last].status \in {"raised", "lost"} =>
                    last + 1 <= Count(att[last].stage, att[last].run) + faults
  <2> DEFINE bonus == IF att[last].status \in {"raised", "lost"} THEN 1 ELSE 0
             c == Count(att[last].stage, att[last].run)
  <2>1. last + bonus <= c + faults
    BY <1>5 DEF AttemptInv, AttemptsCounted, Count
  <2>2. c \in Nat
    BY <1>3, <1>4, <1>5 DEF Count
  <2>3. CASE att[last].status \in {"raised", "lost"}
    <3>1. bonus = 1
      BY <2>3
    <3> HIDE DEF bonus, c
    <3> QED BY <1>2, <2>1, <2>2, <3>1 DEF c
  <2>4. CASE att[last].status \notin {"raised", "lost"}
    <3>1. bonus = 0
      BY <2>4
    <3> HIDE DEF bonus, c
    <3> QED BY <1>2, <2>1, <2>2, <2>4, <3>1 DEF c
  <2> QED BY <2>3, <2>4
<1>6. run \in 1 .. MaxRuns
  BY <1>1, <1>2, <1>3
<1>7. Served => last + 1 <= Count(stage, run) + faults'
  <2>1. SUFFICES ASSUME Served PROVE last + 1 <= Count(stage, run) + faults'
    OBVIOUS
  <2>2. CASE last = 0
    BY <1>1, <1>2, <1>4, <1>6, <2>2 DEF Count
  <2>3. CASE last > 0 /\ att[last].status # "done"
    <3> DEFINE c == Count(att[last].stage, att[last].run)
    <3>1. stage = att[last].stage /\ run = att[last].run
      BY <1>1, <1>2, <2>1, <2>3
    <3>2. att[last].status \notin {"raised", "lost"} => faults' = faults + 1
      BY <1>1, <1>2, <2>1, <2>3
    <3>3. c \in Nat
      BY <1>3, <1>4, <2>3 DEF Count
    <3>4. last <= c + faults
      BY <1>5, <2>1, <2>3
    <3>5. att[last].status \in {"raised", "lost"} => last + 1 <= c + faults
      BY <1>5, <2>1, <2>3
    <3>6. Count(stage, run) = c
      BY <3>1
    <3>7. faults' \in {faults, faults + 1}
      BY <1>1
    <3> HIDE DEF c
    <3>8. CASE att[last].status \in {"raised", "lost"}
      <4>1. last + 1 <= c + faults
        BY <3>5, <3>8
      <4>2. faults' \in Nat /\ faults <= faults'
        BY <1>2, <3>7
      <4>3. last \in Nat /\ faults \in Nat /\ c \in Nat
        BY <1>2, <3>3
      <4>4. last + 1 <= c + faults'
        <5>1. last + 1 \in Nat
          BY <4>3
        <5> QED BY <4>1, <4>2, <4>3, <5>1, MoreRoom
      <4> QED BY <3>6, <4>4
    <3>9. CASE att[last].status \notin {"raised", "lost"}
      <4>1. faults' = faults + 1
        BY <3>2, <3>9
      <4> QED BY <1>2, <3>3, <3>4, <3>6, <4>1
    <3> QED BY <3>8, <3>9
  <2>4. CASE last > 0 /\ att[last].status = "done"
    <3>1. last <= Count(att[last].stage, att[last].run) + faults
      BY <1>5, <2>1, <2>4
    <3>2. CASE att[last].stage = "products"
      BY <1>1, <1>2, <1>3, <1>4, <2>1, <2>4, <3>1, <3>2 DEF Count
    <3>3. CASE att[last].stage # "products"
      <4>1. run = att[last].run /\ StagesBefore(stage) = StagesBefore(att[last].stage) + 1
        BY <1>1, <2>1, <2>4, <3>3
      <4> QED BY <1>1, <1>2, <1>3, <1>4, <3>1, <4>1 DEF Count
    <3> QED BY <3>2, <3>3
  <2> QED BY <1>2, <2>2, <2>3, <2>4
<1>8. last + 1 \in Attempts
  <2>1. Served => last + 1 <= MaxAttempts
    BY <1>1, <1>2, <1>4, <1>6, <1>7 DEF Count
  <2>2. ~Served => last + 1 <= MaxAttempts
    BY <1>1, <1>2
  <2> QED BY <1>2, <2>1, <2>2 DEF Attempts
<1>9. att'[last + 1].stage = stage /\ att'[last + 1].run = run
  BY <1>1, <1>8, Launched DEF AttemptInv
<1> QED BY <1>1, <1>2, <1>6, <1>7, <1>8, <1>9

\* A stage executes its own calls.
LEMMA OwnStage ==
    ASSUME NEW i \in Attempts
    PROVE  /\ Curation(i) => att[i].stage = "curation"
           /\ Masking(i) => att[i].stage = "masking"
           /\ Depth(i) => att[i].stage = "depth"
           /\ Pose(i) => att[i].stage = "sfm"
           /\ Dense3DGS(i) => att[i].stage = "train"
           /\ Meshing(i) => att[i].stage = "mesh"
           /\ Georef(i) => att[i].stage = "georef"
           /\ CheckProducts(i) => att[i].stage = "check"
<1> USE DEF At
<1>1. Curation(i) => att[i].stage = "curation"
  BY DEF Curation, CurationBegin, curate_segment_shard, SelectKeyframes, UploadKeyframe,
         CurationEnd
<1>2. Masking(i) => att[i].stage = "masking"
  BY DEF Masking, MaskingBegin, UploadMask, MaskingEnd
<1>3. Depth(i) => att[i].stage = "depth"
  BY DEF Depth, LoadSparseModel, ResumeManifest, CheckImage, LeaveUnaligned,
         AlignImage, PutManifest, DepthEnd
<1>4. Pose(i) => att[i].stage = "sfm"
  BY DEF Pose, InPose, ParseWarmStart, PutCamerasText, PutImagesText, BuildDatabase,
         RunMatching, PackAndUpload, PutMarker, OpenDatabase, CheckResult,
         IncrementalMapping, UploadModel, PutCenters, PutResult
<1>5. Dense3DGS(i) => att[i].stage = "train"
  BY DEF Dense3DGS, LoadCheckpoint, SkipTraining, Train, SaveCheckpoint, SaveLatest,
         TrainingEnd, UploadScene, UploadSplat, PutMetrics
<1>6. Meshing(i) => att[i].stage = "mesh"
  BY DEF Meshing, Densify, Audit, CheckLods, BakeLod, MeshingEnd
<1>7. Georef(i) => att[i].stage = "georef"
  BY DEF Georef, GeorefScene, GetLod, PutLod, PutReport
<1>8. CheckProducts(i) => att[i].stage = "check"
  BY DEF CheckProducts
<1> QED BY <1>1, <1>2, <1>3, <1>4, <1>5, <1>6, <1>7, <1>8

\* Once its rows are inserted a product attempt only has its answer left.
LEMMA AnswerStays ==
    ASSUME AttemptsTyped, NEW i \in Attempts, Step(i),
           att[i].stage = "products", att[i].pc = "answer"
    PROVE  att'[i].pc = "answer" /\ UNCHANGED rows
<1>1. ProductGen(i)
  BY OwnStage DEF Step
<1>2. ProductsEnd(i)
  BY <1>1 DEF ProductGen, At, CopyMesh, CopyTrajectory, FindReport, AssemblePoints,
              AssembleRaster, AssembleProvenance, ComputeChecksums, publish_products
<1> QED BY <1>2, Closed DEF ProductsEnd, Keep

LEMMA RowsByProductGenStep ==
    ASSUME AttemptInv, NEW i \in Attempts, Step(i)
    PROVE  /\ RowsByProductGen'
           /\ \A r \in rows' : r.by \in 1 .. last
<1>1. AttemptsTyped /\ \A j \in Attempts : j # i => att'[j] = att[j]
  BY StepFrame DEF AttemptInv
<1>2. i \in 1 .. last
  BY Bounds DEF AttemptInv, TypeOK, Step, Running, Attempts
<1>3. \A r \in rows : r.by \in 1 .. last /\ r.by \in Attempts
  BY Bounds DEF AttemptInv, TypeOK, Attempts
<1>4. att'[i].stage = att[i].stage
  BY StepFrame DEF AttemptInv
<1>5. ASSUME NEW r \in rows
      PROVE  att'[r.by].stage = "products" /\ att'[r.by].pc = "answer"
  <2>1. att[r.by].stage = "products" /\ att[r.by].pc = "answer"
    BY DEF AttemptInv, RowsByProductGen
  <2>2. CASE r.by = i
    BY <1>1, <1>4, <2>1, <2>2, AnswerStays
  <2>3. CASE r.by # i
    BY <1>1, <1>3, <2>1, <2>3
  <2> QED BY <2>2, <2>3
<1>6. CASE UNCHANGED rows
  BY <1>3, <1>5, <1>6 DEF RowsByProductGen
<1>7. CASE publish_products(i)
  <2>1. att[i].stage = "products" /\ Goto(i, "answer")
    BY <1>7 DEF publish_products, At
  <2>2. att'[i].pc = "answer"
    BY <1>1, <2>1, Continued DEF Goto
  <2>3. rows' = rows \cup {[by |-> i, key |-> k, checksum |-> att[i].out[k]] :
                              k \in DOMAIN att[i].out}
    BY <1>7 DEF publish_products
  <2>4. \A r \in rows' : r \in rows \/ r.by = i
    BY <2>3
  <2> QED BY <1>2, <1>3, <1>4, <1>5, <2>1, <2>2, <2>4 DEF RowsByProductGen
<1> QED BY <1>6, <1>7, StepShape

\* The count allows for an attempt that raises, is lost or fails.
LEMMA StillCounted ==
    ASSUME AttemptInv, UNCHANGED <<scene, last>>,
           \A j \in Attempts : att'[j].stage = att[j].stage /\ att'[j].run = att[j].run,
           faults' \in Nat, faults <= faults',
           \/ faults' = faults + 1
           \/ last > 0 => (att'[last].status \in {"raised", "lost"} =>
                               att[last].status \in {"raised", "lost"})
    PROVE  AttemptsCounted'
<1>1. /\ faults \in Nat /\ last \in Nat /\ (last > 0 => last \in Attempts)
      /\ \A j \in 1 .. last : j \in Attempts
  BY Bounds DEF AttemptInv, TypeOK, Attempts
<1>2. Served' <=> Served
  BY DEF Served
<1>3. ASSUME Served, last > 0
      PROVE  last + (IF att'[last].status \in {"raised", "lost"} THEN 1 ELSE 0)
                 <= 3 * (att'[last].run - 1) + StagesBefore(att'[last].stage) + 1 + faults'
  <2> DEFINE old == IF att[last].status \in {"raised", "lost"} THEN 1 ELSE 0
             new == IF att'[last].status \in {"raised", "lost"} THEN 1 ELSE 0
             c == 3 * (att[last].run - 1) + StagesBefore(att[last].stage) + 1
  <2>1. last + old <= c + faults
    BY <1>3 DEF AttemptInv, AttemptsCounted
  <2>2. 3 * (att'[last].run - 1) + StagesBefore(att'[last].stage) + 1 = c
    BY <1>1, <1>3
  <2>3. c \in Nat
    <3>1. att[last].run \in Nat \ {0}
      BY <1>1, <1>3, Bounds DEF AttemptInv, TypeOK
    <3>2. StagesBefore(att[last].stage) \in Nat
      BY StagesBeforeNat
    <3> QED BY <3>1, <3>2
  <2>4. old \in 0 .. 1 /\ new \in 0 .. 1
    OBVIOUS
  <2>5. faults' = faults + 1 \/ new <= old
    BY <1>3
  <2>6. last + new <= c + faults'
    <3> HIDE DEF old, new, c
    <3>1. CASE faults' = faults + 1
      BY <1>1, <2>1, <2>3, <2>4, <3>1
    <3>2. CASE new <= old
      <4>1. last + new <= c + faults
        BY <1>1, <2>1, <2>3, <2>4, <3>2
      <4>2. last + new \in Nat
        BY <1>1, <2>4
      <4> QED BY <1>1, <2>3, <4>1, <4>2, MoreRoom
    <3> QED BY <2>5, <3>1, <3>2
  <2>7. last + new <= (3 * (att'[last].run - 1) + StagesBefore(att'[last].stage) + 1) + faults'
    <3> HIDE DEF old, new, c
    <3> QED BY <2>2, <2>6
  <2> HIDE DEF old, c
  <2> QED BY <2>7
<1>4. ASSUME ~Served
      PROVE  last <= Len(DirectStages) /\ \A i \in 1 .. last : att'[i].stage = DirectStages[i]
  BY <1>1, <1>4 DEF AttemptInv, AttemptsCounted
<1> QED BY <1>2, <1>3, <1>4 DEF AttemptsCounted

LEMMA IdleFields == Idle.status = "idle" /\ Idle.rivals = {}
BY DEF Idle

LEMMA Counted ==
    ASSUME AttemptInv
    PROVE  \A a \in 1 .. last : a \in Attempts
<1>1. last \in Nat /\ last <= MaxAttempts
  BY Bounds DEF AttemptInv, TypeOK
<1>2. MaxAttempts \in Nat
  BY Bounds
<1> QED BY <1>1, <1>2 DEF Attempts

LEMMA AttemptInvInit ==
    ASSUME Init
    PROVE  AttemptInv
<1>1. /\ scene \in Scenes /\ att = [i \in Attempts |-> Idle] /\ last = 0
      /\ rows = {} /\ faults = 0 /\ disk = [m \in Machines |-> Empty]
  BY DEF Init
<1>2. /\ MaxFaults \in Nat /\ MaxRuns \in Nat \ {0} /\ scene.budget \in 0 .. MaxFaults
      /\ MaxAttempts \in Nat
  BY <1>1, ConstantsOK DEF ConstantsOK, MaxAttempts
<1>3. AttemptsTyped
  BY <1>1 DEF AttemptsTyped, Idle, Fields
<1>4. \A i \in Attempts : att[i].status = "idle" /\ att[i].rivals = {} /\ i > last
  BY <1>1, <1>2, IdleFields DEF Attempts
<1>5. TypeOK
  BY <1>1, <1>2, <1>4 DEF TypeOK, Attempts
<1>6. AttemptsCounted
  BY <1>1, DirectLength DEF AttemptsCounted
<1>7. LastOfItsRun
  BY <1>1 DEF LastOfItsRun
<1>8. RowsByProductGen
  BY <1>1 DEF RowsByProductGen
<1> QED BY <1>1, <1>2, <1>3, <1>5, <1>6, <1>7, <1>8 DEF AttemptInv

LEMMA AttemptInvOfStep ==
    ASSUME AttemptInv, NEW i \in Attempts, Step(i)
    PROVE  AttemptInv'
<1>1. /\ AttemptsTyped'
      /\ \A j \in Attempts : j # i => att'[j] = att[j]
      /\ att[i].status = "running" /\ att'[i].status \in {"running", "done", "failed"}
      /\ att'[i].stage = att[i].stage /\ att'[i].run = att[i].run
      /\ att'[i].on = att[i].on /\ att'[i].rivals = att[i].rivals
  BY StepFrame DEF AttemptInv
<1>2. scene' = scene /\ last' = last
  BY StepShape DEF Shape
<1>3. /\ last \in Nat /\ faults \in Nat /\ scene.budget \in 0 .. MaxFaults /\ MaxFaults \in Nat
      /\ faults <= scene.budget
  BY Bounds DEF AttemptInv
<1>4. i \in 1 .. last /\ i <= last
  BY <1>1, <1>3 DEF AttemptInv, TypeOK, Attempts
<1>5. faults' \in Nat /\ faults <= faults' /\ faults' <= scene.budget
  <2>1. UNCHANGED faults \/ Fails
    BY StepShape DEF Shape
  <2> QED BY <2>1, <1>3 DEF Fails
<1>6. DOMAIN disk' = Machines
  <2>1. UNCHANGED disk \/ \E v : disk' = [disk EXCEPT ![att[i].on] = v]
    BY StepShape DEF Shape
  <2> QED BY <2>1 DEF AttemptInv, TypeOK
<1>7. \A j \in Attempts : /\ att'[j].stage = att[j].stage /\ att'[j].run = att[j].run
                          /\ att'[j].on = att[j].on /\ att'[j].rivals = att[j].rivals
  BY <1>1
<1>8. TypeOK'
  <2>1. \A r \in rows' : r.by \in 1 .. last
    BY RowsByProductGenStep
  <2>2. ASSUME NEW j \in Attempts
        PROVE  /\ att'[j].status \in {"idle", "running", "done", "failed", "raised", "lost"}
               /\ att'[j].status = "idle" <=> j > last
               /\ att'[j].rivals \subseteq 1 .. j - 1
               /\ j <= last => att'[j].on \in Machines /\ att'[j].run \in 1 .. MaxRuns
    <3>1. /\ att[j].status \in {"idle", "running", "done", "failed", "raised", "lost"}
          /\ att[j].status = "idle" <=> j > last
          /\ att[j].rivals \subseteq 1 .. j - 1
          /\ j <= last => att[j].on \in Machines /\ att[j].run \in 1 .. MaxRuns
      BY DEF AttemptInv, TypeOK
    <3>2. CASE j = i
      BY <1>1, <3>1, <3>2
    <3>3. CASE j # i
      BY <1>1, <3>1, <3>3
    <3> QED BY <3>2, <3>3
  <2>3. scene \in Scenes /\ last \in 0 .. MaxAttempts /\ faults' \in 0 .. MaxFaults
    BY <1>3, <1>5 DEF AttemptInv, TypeOK
  <2> QED BY <1>2, <1>6, <2>1, <2>2, <2>3 DEF TypeOK
<1>9. AttemptsCounted'
  <2>1. last > 0 => (att'[last].status \in {"raised", "lost"} =>
                         att[last].status \in {"raised", "lost"})
    <3> SUFFICES ASSUME last > 0, att'[last].status \in {"raised", "lost"}
                 PROVE  att[last].status \in {"raised", "lost"}
      OBVIOUS
    <3>1. last \in Attempts
      BY <1>3 DEF AttemptInv, TypeOK, Attempts
    <3> QED BY <1>1, <3>1
  <2> QED BY <1>2, <1>5, <1>7, <2>1, StillCounted
<1>10. LastOfItsRun'
  <2> SUFFICES ASSUME Alone'
               PROVE  /\ \A a \in 1 .. last - 1 : ~Running(a)'
                      /\ Served => \A a, b \in 1 .. last :
                             (a < b /\ Done(a, "products")') => att'[b].run > att'[a].run
    BY <1>2 DEF LastOfItsRun, Served
  <2>1. Alone
    BY <1>7 DEF Alone
  <2>2. /\ \A a \in 1 .. last - 1 : ~Running(a)
        /\ Served => \A a, b \in 1 .. last :
               (a < b /\ Done(a, "products")) => att[b].run > att[a].run
    BY <2>1 DEF AttemptInv, LastOfItsRun
  <2>3. i = last
    BY <1>1, <1>3, <1>4, <2>2 DEF Running
  <2>4. \A a \in 1 .. last - 1 : a \in Attempts /\ att'[a] = att[a]
    <3>1. \A a \in 1 .. last - 1 : a \in 1 .. last /\ a # i
      BY <1>3, <2>3
    <3> QED BY <1>1, <3>1, Counted
  <2>5. \A a \in 1 .. last - 1 : ~Running(a)'
    BY <2>2, <2>4 DEF Running
  <2>6. ASSUME Served, NEW a \in 1 .. last, NEW b \in 1 .. last, a < b, Done(a, "products")'
        PROVE  att'[b].run > att'[a].run
    <3>1. a \in 1 .. last - 1 /\ b \in Attempts /\ a \in Attempts
      BY <1>3, <2>6, Counted
    <3>2. Done(a, "products")
      BY <2>4, <2>6, <3>1 DEF Done
    <3> QED BY <1>7, <2>2, <2>6, <3>1, <3>2
  <2> QED BY <2>5, <2>6
<1>11. \A j \in Attempts : j > last => att'[j] = Idle
  BY <1>1, <1>3, <1>4 DEF AttemptInv, Attempts
<1>12. RowsByProductGen'
  BY RowsByProductGenStep
<1> QED BY <1>1, <1>2, <1>5, <1>8, <1>9, <1>10, <1>11, <1>12 DEF AttemptInv

\* What is left of the environment: an attempt ends, at the price of a fault.
LEMMA EndFaults ==
    ASSUME AttemptInv, Outer, UNCHANGED last
    PROVE  faults' = faults + 1 /\ faults' <= scene.budget
<1>1. ASSUME NEW stage, NEW run, Launch(stage, run)
      PROVE  FALSE
  BY <1>1, Bounds DEF Launch
<1>2. LoseAnswer \/ (\E i \in Attempts : CallRaises(i)) \/ (\E m \in Machines : Crash(m))
  BY <1>1 DEF Outer, Server, FirstAttempt, DirectStage, Retry, NextStage, Rerun,
              Environment, TimeOut
<1>3. Fails
  BY <1>2 DEF LoseAnswer, CallRaises, Crash
<1> QED BY <1>3, Bounds DEF Fails, AttemptInv

LEMMA AttemptInvOfEnd ==
    ASSUME AttemptInv, Outer, UNCHANGED last
    PROVE  AttemptInv'
<1>1. /\ last \in Nat /\ faults \in Nat /\ scene.budget \in 0 .. MaxFaults /\ MaxFaults \in Nat
  BY Bounds DEF AttemptInv
<1>2. UNCHANGED <<scene, rows>> /\ faults' = faults + 1 /\ faults' <= scene.budget
  BY OuterShape, EndFaults
<1>3. AttemptsTyped' /\ \A j \in Attempts :
          \/ att'[j] = att[j]
          \/ /\ att'[j].status \in {"raised", "lost"} /\ att[j].status \in {"running", "done"}
             /\ att'[j].stage = att[j].stage /\ att'[j].run = att[j].run
             /\ att'[j].on = att[j].on /\ att'[j].pc = att[j].pc
             /\ att'[j].rivals = att[j].rivals
  <2>1. last' # last + 1
    BY <1>1
  <2> QED BY <2>1, OuterFrame DEF AttemptInv
<1>4. \A j \in Attempts : /\ att'[j].stage = att[j].stage /\ att'[j].run = att[j].run
                          /\ att'[j].on = att[j].on /\ att'[j].rivals = att[j].rivals
                          /\ att'[j].pc = att[j].pc
  BY <1>3
<1>5. DOMAIN disk' = Machines
  <2>1. DOMAIN disk' = DOMAIN disk
    <3>1. CASE \E stage, run : Launch(stage, run)
      BY <3>1 DEF Launch
    <3>2. CASE \E m \in Machines : Crash(m)
      BY <3>2 DEF Crash
    <3>3. CASE LoseAnswer \/ \E i \in Attempts : CallRaises(i)
      BY <3>3 DEF LoseAnswer, CallRaises
    <3> QED BY <3>1, <3>2, <3>3 DEF Outer, Server, FirstAttempt, DirectStage, Retry, NextStage,
                                    Rerun, Environment, TimeOut
  <2> QED BY <2>1 DEF AttemptInv, TypeOK
<1>6. \A j \in Attempts : /\ att'[j].status = "running" => att[j].status = "running"
                          /\ att'[j].status = "done" => att[j].status = "done"
  BY <1>3
<1>7. TypeOK'
  <2>1. ASSUME NEW j \in Attempts
        PROVE  /\ att'[j].status \in {"idle", "running", "done", "failed", "raised", "lost"}
               /\ att'[j].status = "idle" <=> j > last
               /\ att'[j].rivals \subseteq 1 .. j - 1
               /\ j <= last => att'[j].on \in Machines /\ att'[j].run \in 1 .. MaxRuns
    <3>1. /\ att[j].status \in {"idle", "running", "done", "failed", "raised", "lost"}
          /\ att[j].status = "idle" <=> j > last
          /\ att[j].rivals \subseteq 1 .. j - 1
          /\ j <= last => att[j].on \in Machines /\ att[j].run \in 1 .. MaxRuns
      BY DEF AttemptInv, TypeOK
    <3>2. \/ att'[j] = att[j]
          \/ att'[j].status \in {"raised", "lost"} /\ att[j].status \in {"running", "done"}
      BY <1>3
    <3> QED BY <1>4, <3>1, <3>2
  <2>2. scene \in Scenes /\ last \in 0 .. MaxAttempts /\ faults' \in 0 .. MaxFaults
    BY <1>1, <1>2 DEF AttemptInv, TypeOK
  <2>3. \A r \in rows : r.by \in 1 .. last
    BY DEF AttemptInv, TypeOK
  <2> QED BY <1>2, <1>5, <2>1, <2>2, <2>3 DEF TypeOK
<1>8. AttemptsCounted'
  <2>1. faults' \in Nat /\ faults <= faults'
    BY <1>1, <1>2
  <2> QED BY <1>2, <1>4, <2>1, StillCounted
<1>9. LastOfItsRun'
  <2> SUFFICES ASSUME Alone'
               PROVE  /\ \A a \in 1 .. last - 1 : ~Running(a)'
                      /\ Served => \A a, b \in 1 .. last :
                             (a < b /\ Done(a, "products")') => att'[b].run > att'[a].run
    BY <1>2 DEF LastOfItsRun, Served
  <2>1. Alone
    BY <1>4 DEF Alone
  <2>2. /\ \A a \in 1 .. last - 1 : ~Running(a)
        /\ Served => \A a, b \in 1 .. last :
               (a < b /\ Done(a, "products")) => att[b].run > att[a].run
    BY <2>1 DEF AttemptInv, LastOfItsRun
  <2>3. \A a \in 1 .. last : a \in Attempts
    BY Counted
  <2>4. \A a \in 1 .. last - 1 : ~Running(a)'
    BY <1>1, <1>6, <2>2, <2>3 DEF Running
  <2>5. \A a \in 1 .. last : Done(a, "products")' => Done(a, "products")
    BY <1>4, <1>6, <2>3 DEF Done
  <2> QED BY <1>4, <2>2, <2>3, <2>4, <2>5
<1>10. \A j \in Attempts : j > last => att'[j] = Idle
  <2> SUFFICES ASSUME NEW j \in Attempts, j > last PROVE att'[j] = Idle
    OBVIOUS
  <2>1. att[j] = Idle
    BY DEF AttemptInv
  <2>2. att[j].status = "idle"
    BY <2>1, IdleFields
  <2> QED BY <1>3, <2>1, <2>2
<1>11. RowsByProductGen'
  <2>1. \A r \in rows : r.by \in Attempts
    BY Counted DEF AttemptInv, TypeOK
  <2> QED BY <1>2, <1>4, <2>1 DEF AttemptInv, RowsByProductGen
<1>12. faults' \in Nat /\ faults' <= scene'.budget
  BY <1>1, <1>2
<1> QED BY <1>2, <1>3, <1>7, <1>8, <1>9, <1>10, <1>11, <1>12 DEF AttemptInv

LEMMA AttemptInvOfLaunch ==
    ASSUME AttemptInv, Outer, NEW s, NEW u, Launch(s, u)
    PROVE  AttemptInv'
<1> DEFINE new == last + 1
<1>1. /\ last \in Nat /\ faults \in Nat /\ scene.budget \in 0 .. MaxFaults /\ MaxFaults \in Nat
      /\ MaxAttempts \in Nat
  BY Bounds DEF AttemptInv
<1>2. /\ new \in Attempts /\ att'[new].run \in 1 .. MaxRuns
      /\ Served => new <= Count(att'[new].stage, att'[new].run) + faults'
      /\ ~Served => new <= 9 /\ att'[new].stage = DirectStages[new]
  BY Room
<1>3. /\ AttemptsTyped'
      /\ \A j \in Attempts : j # new => att'[j] = att[j]
      /\ att'[new].status = "running" /\ att'[new].on \in Hosts
      /\ att'[new].rivals = {i \in Attempts : Running(i)}
  BY <1>2, Launched DEF AttemptInv
<1>4. last' = new /\ UNCHANGED <<scene, disk, rows>>
  BY DEF Launch
<1>5. PICK stage, run :
          /\ Launch(stage, run) /\ faults' \in {faults, faults + 1} /\ faults' <= scene.budget
          /\ \/ Served /\ last = 0
             \/ Served /\ last > 0 /\ att[last].status # "done" /\ run = att[last].run
             \/ Served /\ last > 0 /\ run = att[last].run /\ att[last].stage # "products"
             \/ Served /\ last > 0 /\ run = att[last].run + 1
             \/ ~Served
  BY LaunchCases
<1>6. att'[new].run = run
  BY <1>2, <1>5, Launched DEF AttemptInv
<1>7. faults' \in Nat /\ faults' <= scene.budget
  BY <1>1, <1>5
<1>8. \A a \in 1 .. last : a \in Attempts /\ a # new /\ att'[a] = att[a]
  BY <1>1, <1>3, Counted
<1>9. TypeOK'
  <2>1. ASSUME NEW j \in Attempts
        PROVE  /\ att'[j].status \in {"idle", "running", "done", "failed", "raised", "lost"}
               /\ att'[j].status = "idle" <=> j > new
               /\ att'[j].rivals \subseteq 1 .. j - 1
               /\ j <= new => att'[j].on \in Machines /\ att'[j].run \in 1 .. MaxRuns
    <3>0. j \in Nat \ {0}
      BY <1>1 DEF Attempts
    <3>1. \A k \in Attempts :
          /\ att[k].status \in {"idle", "running", "done", "failed", "raised", "lost"}
          /\ att[k].status = "idle" <=> k > last
          /\ att[k].rivals \subseteq 1 .. k - 1
          /\ k <= last => att[k].on \in Machines /\ att[k].run \in 1 .. MaxRuns
      BY DEF AttemptInv, TypeOK
    <3>2. CASE j = new
      <4>1. {i \in Attempts : Running(i)} \subseteq 1 .. new - 1
        <5> SUFFICES ASSUME NEW i \in Attempts, Running(i) PROVE i \in 1 .. new - 1
          OBVIOUS
        <5>1. ~(i > last)
          BY <3>1 DEF Running
        <5> QED BY <1>1, <5>1 DEF Attempts
      <4>2. att'[new].on \in Machines
        BY <1>3 DEF Hosts
      <4> HIDE DEF new
      <4> QED BY <1>1, <1>2, <1>3, <3>0, <3>2, <4>1, <4>2
    <3>3. CASE j # new
      <4>1. (j > last <=> j > new) /\ (j <= last <=> j <= new)
        BY <1>1, <3>0, <3>3
      <4> QED BY <1>3, <3>1, <3>3, <4>1
    <3> QED BY <3>2, <3>3
  <2>2. scene \in Scenes /\ new \in 0 .. MaxAttempts /\ faults' \in 0 .. MaxFaults
    BY <1>1, <1>2, <1>7 DEF AttemptInv, TypeOK, Attempts
  <2>3. \A r \in rows : r.by \in 1 .. new
    BY <1>1 DEF AttemptInv, TypeOK
  <2>4. DOMAIN disk = Machines
    BY DEF AttemptInv, TypeOK
  <2> HIDE DEF new
  <2> QED BY <1>4, <2>1, <2>2, <2>3, <2>4 DEF TypeOK
<1>10. AttemptsCounted'
  <2>1. Served' <=> Served
    BY <1>4 DEF Served
  <2>2. ASSUME Served
        PROVE  new + (IF att'[new].status \in {"raised", "lost"} THEN 1 ELSE 0)
                   <= 3 * (att'[new].run - 1) + StagesBefore(att'[new].stage) + 1 + faults'
    <3>1. (IF att'[new].status \in {"raised", "lost"} THEN 1 ELSE 0) = 0
      BY <1>3
    <3>2. new + 0 = new
      BY <1>1
    <3> HIDE DEF new
    <3> QED BY <1>2, <2>2, <3>1, <3>2 DEF Count
  <2>3. ASSUME ~Served
        PROVE  new <= Len(DirectStages) /\ \A a \in 1 .. new : att'[a].stage = DirectStages[a]
    <3>1. \A a \in 1 .. last : att[a].stage = DirectStages[a]
      BY <2>3 DEF AttemptInv, AttemptsCounted
    <3>2. \A a \in 1 .. new : a \in 1 .. last \/ a = new
      BY <1>1
    <3> HIDE DEF new
    <3> QED BY <1>2, <1>8, <2>3, <3>1, <3>2, DirectLength
  <2> HIDE DEF new
  <2> QED BY <1>4, <2>1, <2>2, <2>3 DEF AttemptsCounted
<1>11. LastOfItsRun'
  <2> SUFFICES ASSUME Alone'
               PROVE  /\ \A a \in 1 .. new - 1 : ~Running(a)'
                      /\ Served => \A a, b \in 1 .. new :
                             (a < b /\ Done(a, "products")') => att'[b].run > att'[a].run
    BY <1>4 DEF LastOfItsRun, Served
  <2>1. Alone
    <3> SUFFICES ASSUME NEW j \in Attempts PROVE att[j].rivals = {}
      BY DEF Alone
    <3>1. att'[j].rivals = {}
      BY DEF Alone
    <3>2. CASE j = new
      <4>1. att[j] = Idle
        BY <1>1, <3>2 DEF AttemptInv
      <4> QED BY <4>1, IdleFields
    <3>3. CASE j # new
      BY <1>3, <3>1, <3>3
    <3> QED BY <3>2, <3>3
  <2>2. Served => \A a, b \in 1 .. last :
               (a < b /\ Done(a, "products")) => att[b].run > att[a].run
    BY <2>1 DEF AttemptInv, LastOfItsRun
  <2>3. \A a \in Attempts : ~Running(a)
    <3>1. att'[new].rivals = {}
      BY <1>2 DEF Alone
    <3> QED BY <1>3, <3>1
  <2>4. \A a \in 1 .. new - 1 : ~Running(a)'
    <3>1. \A a \in 1 .. new - 1 : a \in 1 .. last
      BY <1>1
    <3> QED BY <1>8, <2>3, <3>1 DEF Running
  <2>5. ASSUME Served, NEW a \in 1 .. new, NEW b \in 1 .. new, a < b, Done(a, "products")'
        PROVE  att'[b].run > att'[a].run
    <3>1. a \in 1 .. last /\ a \in Nat /\ (b \in 1 .. last \/ b = new)
      BY <1>1, <2>5
    <3>2. att'[a] = att[a] /\ Done(a, "products")
      BY <1>8, <2>5, <3>1 DEF Done
    <3>3. CASE b \in 1 .. last
      <4>1. att'[b] = att[b]
        BY <1>8, <3>3
      <4> QED BY <2>2, <2>5, <3>1, <3>2, <3>3, <4>1
    <3>4. CASE b = new
      <4>1. last > 0 /\ last \in 1 .. last /\ last \in Attempts
        BY <1>1, <3>1, Counted
      <4>2. att[last].run \in Nat /\ att[a].run \in Nat
        BY <1>8, <3>1, <4>1, Bounds DEF AttemptInv, TypeOK
      <4>3. a # last => att[last].run > att[a].run
        <5> SUFFICES ASSUME a # last PROVE att[last].run > att[a].run
          OBVIOUS
        <5>1. a < last
          BY <1>1, <3>1
        <5> QED BY <2>2, <2>5, <3>1, <3>2, <4>1, <5>1
      <4>4. CASE att[last].status # "done" /\ run = att[last].run
        <5>1. a # last
          BY <3>2, <4>4 DEF Done
        <5> QED BY <1>6, <3>2, <3>4, <4>3, <4>4, <5>1
      <4>5. CASE run = att[last].run /\ att[last].stage # "products"
        <5>1. a # last
          BY <3>2, <4>5 DEF Done
        <5> QED BY <1>6, <3>2, <3>4, <4>3, <4>5, <5>1
      <4>6. CASE run = att[last].run + 1
        <5>1. run > att[a].run
          <6>1. CASE a = last
            BY <4>2, <4>6, <6>1
          <6>2. CASE a # last
            BY <4>2, <4>3, <4>6, <6>2
          <6> QED BY <6>1, <6>2
        <5> QED BY <1>6, <3>2, <3>4, <5>1
      <4> QED BY <1>1, <1>5, <2>5, <4>1, <4>4, <4>5, <4>6
    <3> QED BY <3>1, <3>3, <3>4
  <2> QED BY <2>4, <2>5
<1>12. \A j \in Attempts : j > new => att'[j] = Idle
  <2> SUFFICES ASSUME NEW j \in Attempts, j > new PROVE att'[j] = Idle
    OBVIOUS
  <2>1. j > last /\ j # new
    BY <1>1 DEF Attempts
  <2> QED BY <1>3, <2>1 DEF AttemptInv
<1>13. RowsByProductGen'
  <2>1. \A r \in rows : r.by \in 1 .. last
    BY DEF AttemptInv, TypeOK
  <2> QED BY <1>4, <1>8, <2>1 DEF AttemptInv, RowsByProductGen
<1> HIDE DEF new
<1> QED BY <1>3, <1>4, <1>7, <1>9, <1>10, <1>11, <1>12, <1>13 DEF AttemptInv

LEMMA AttemptInvStep ==
    ASSUME AttemptInv, [Next]_vars
    PROVE  AttemptInv'
<1>1. CASE UNCHANGED vars
  BY <1>1 DEF vars, AttemptInv, AttemptsTyped, TypeOK, AttemptsCounted, LastOfItsRun,
              RowsByProductGen, Served, Alone, Running, Done
<1>2. CASE Outer
  <2>1. CASE UNCHANGED last
    BY <1>2, <2>1, AttemptInvOfEnd
  <2>2. CASE last' # last
    <3>1. \E s, u : Launch(s, u)
      BY <1>2, <2>2, OuterShape
    <3> QED BY <1>2, <3>1, AttemptInvOfLaunch
  <2> QED BY <2>1, <2>2
<1>3. ASSUME NEW i \in Attempts, Step(i)
      PROVE  AttemptInv'
  BY <1>3, AttemptInvOfStep
<1> QED BY <1>1, <1>2, <1>3, NextCases

\* The inductive invariant of the attempts.
THEOREM AttemptInvariant == Spec => []AttemptInv
<1>1. AttemptInv /\ [Next]_vars => AttemptInv'
  BY AttemptInvStep
<1> QED BY <1>1, AttemptInvInit, PTL DEF Spec

\* Type correctness; there is room for every attempt that the server or the direct runner
\* can start, so that the bound on attempts never keeps it from one.
THEOREM StagesTypeCorrect == Spec => []TypeOK
<1>1. AttemptInv => TypeOK
  BY DEF AttemptInv
<1> QED BY <1>1, AttemptInvariant, PTL

\* Two attempts of a run list their products only when the answer of the first one was
\* lost after the insert, or when attempts overlapped (postgres_store.py:36).
THEOREM ListedTwiceHolds == Spec => []ListedTwiceByLostAnswer
<1>1. AttemptInv => ListedTwiceByLostAnswer
  <2> SUFFICES ASSUME AttemptInv, Alone, NEW i \in Attempts, NEW j \in Attempts,
                      RowsOf(i) # {}, RowsOf(j) # {}, i < j, att[i].run = att[j].run
               PROVE  Ended(i) /\ att[i].pc = "answer"
    BY DEF ListedTwiceByLostAnswer
  <2>1. /\ i \in 1 .. last /\ j \in 1 .. last
        /\ att[i].stage = "products" /\ att[j].stage = "products" /\ att[i].pc = "answer"
    BY DEF AttemptInv, TypeOK, RowsByProductGen, RowsOf
  <2>2. last \in Nat
    BY Bounds
  <2>3. ~Running(i)
    <3>1. i \in 1 .. last - 1
      BY <2>1, <2>2
    <3> QED BY <3>1 DEF AttemptInv, LastOfItsRun
  <2>4. Served
    <3> SUFFICES ASSUME ~Served PROVE FALSE
      OBVIOUS
    <3>1. i \in 1 .. 9 /\ j \in 1 .. 9
      BY <2>1, <2>2, DirectLength DEF AttemptInv, AttemptsCounted
    <3>2. DirectStages[i] = "products" /\ DirectStages[j] = "products"
      BY <2>1 DEF AttemptInv, AttemptsCounted
    <3>3. i = 8 /\ j = 8
      BY <3>1, <3>2, DirectLength
    <3> QED BY <3>3
  <2>5. att[i].status # "done"
    <3> SUFFICES ASSUME att[i].status = "done" PROVE FALSE
      OBVIOUS
    <3>1. att[j].run > att[i].run
      BY <2>1, <2>4 DEF AttemptInv, LastOfItsRun, Done
    <3>2. att[i].run \in Nat /\ att[j].run \in Nat
      BY <2>1, <2>2, Bounds DEF AttemptInv, TypeOK
    <3> QED BY <3>1, <3>2
  <2>6. att[i].status \in {"failed", "raised", "lost"}
    <3>1. /\ att[i].status \in {"idle", "running", "done", "failed", "raised", "lost"}
          /\ att[i].status = "idle" <=> i > last
      BY DEF AttemptInv, TypeOK
    <3>2. ~(i > last)
      BY <2>1, <2>2
    <3> QED BY <2>3, <2>5, <3>1, <3>2 DEF Running
  <2> QED BY <2>1, <2>6 DEF Ended
<1> QED BY <1>1, AttemptInvariant, PTL

===============================================================================
