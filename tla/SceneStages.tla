----------------------------- MODULE SceneStages ------------------------------
(***************************************************************************)
(* ActivityDense3DGS, ActivityMeshing, ActivityGeoref and                  *)
(* ActivityProductGen.  What the last three write is named after the       *)
(* mission: an attempt of a later run meets the objects of an earlier one. *)
(*                                                                         *)
(* A mesh is the number of times georeferencing has transformed it.        *)
(***************************************************************************)
EXTENDS StageRuntime

CONSTANTS
    CheckpointSteps,   \* every how many steps training saves; the code says 5000
    Levels             \* how many levels of detail; the code says 3

ASSUME SceneConstantsOK == CheckpointSteps \in Nat \ {0} /\ Levels \in Nat \ {0}

-------------------------------------------------------------------------------
(* Dense3DGS.  n: the step; out: where the training was entered.            *)

Resumable == Has(<<"latest", 0>>) /\ Has(<<"step", store[<<"latest", 0>>]>>)

\* Mutant of LoadCheckpoint: the parameters are restored, the step is not.
RestartSteps(i) ==
    /\ At(i, "train", "begin")
    /\ Works
    /\ Continue(i, "step", 0, [from |-> 0])
    /\ UNCHANGED <<store, disk>> /\ Keep(i)

\* The checkpoint that latest.json names; any error on the way starts from nothing.
LoadCheckpoint(i) ==
    /\ At(i, "train", "begin")
    /\ \/ /\ Resumable /\ Works
          /\ LET s == store[<<"latest", 0>>] + 1 IN Continue(i, "step", s, [from |-> s])
       \/ /\ IF Resumable THEN Fails ELSE Works
          /\ Continue(i, "step", 0, [from |-> 0])
    /\ UNCHANGED <<store, disk>> /\ Keep(i)

\* Without gsplat on the host there is nothing to train.
SkipTraining(i) ==
    /\ At(i, "train", "step") /\ att[i].on \notin scene.gsplat
    /\ Works
    /\ Goto(i, "scene")
    /\ UNCHANGED <<store, disk>> /\ Keep(i)

Train(i) ==
    /\ At(i, "train", "step") /\ att[i].on \in scene.gsplat /\ att[i].n < scene.total
    /\ Works
    /\ IF att[i].n > 0 /\ att[i].n % CheckpointSteps = 0
       THEN Goto(i, "save")
       ELSE Continue(i, "step", att[i].n + 1, att[i].out)
    /\ UNCHANGED <<store, disk>> /\ Keep(i)

\* on_checkpoint_saved: the checkpoint, then the name of it.
SaveCheckpoint(i) ==
    /\ At(i, "train", "save")
    /\ Works
    /\ Put(<<"step", att[i].n>>, att[i].n)
    /\ Goto(i, "latest")
    /\ UNCHANGED disk /\ Keep(i)

SaveLatest(i) ==
    /\ At(i, "train", "latest")
    /\ Works
    /\ Put(<<"latest", 0>>, att[i].n)
    /\ Continue(i, "step", att[i].n + 1, att[i].out)
    /\ UNCHANGED disk /\ Keep(i)

\* Mutant of TrainingEnd: losses are only kept by a training that began at the first step.
LossesOfFreshRuns(i) ==
    /\ At(i, "train", "step") /\ att[i].on \in scene.gsplat /\ att[i].n >= scene.total
    /\ Works
    /\ IF att[i].out.from > 0 THEN End(i, "failed") ELSE Goto(i, "scene")
    /\ UNCHANGED <<store, disk>> /\ Keep(i)

\* "losses" is unbound when the loop was never entered.
TrainingEnd(i) ==
    /\ At(i, "train", "step") /\ att[i].on \in scene.gsplat /\ att[i].n >= scene.total
    /\ Works
    /\ IF att[i].out.from >= scene.total THEN End(i, "failed") ELSE Goto(i, "scene")
    /\ UNCHANGED <<store, disk>> /\ Keep(i)

UploadScene(i) ==
    /\ At(i, "train", "scene")
    /\ Works
    /\ Put(<<"scene", 0>>, 0)
    /\ Goto(i, "splat")
    /\ UNCHANGED disk /\ Keep(i)

UploadSplat(i) ==
    /\ At(i, "train", "splat")
    /\ Works
    /\ Put(<<"splat", 0>>, 0)
    /\ Goto(i, "metrics")
    /\ UNCHANGED disk /\ Keep(i)

PutMetrics(i) ==
    /\ At(i, "train", "metrics")
    /\ Works
    /\ Put(<<"metrics", 0>>, 0)
    /\ End(i, "done")
    /\ UNCHANGED disk /\ Keep(i)

Dense3DGS(i) ==
    \/ LoadCheckpoint(i) \/ SkipTraining(i) \/ Train(i) \/ SaveCheckpoint(i) \/ SaveLatest(i)
    \/ TrainingEnd(i) \/ UploadScene(i) \/ UploadSplat(i) \/ PutMetrics(i)

-------------------------------------------------------------------------------
(* Meshing.  n: the level of detail.                                       *)

Lods == 0 .. Levels - 1

\* The dense cloud is put under a key without the mission, where its check does not look.
Densify(i) ==
    /\ At(i, "mesh", "begin")
    /\ Works
    /\ Put(<<"cloud", 0>>, 0)
    /\ Goto(i, "audit")
    /\ UNCHANGED disk /\ Keep(i)

\* The report of the flat-surface audit is kept for every later attempt.
Audit(i) ==
    /\ At(i, "mesh", "audit")
    /\ \/ Found(<<"audit", 0>>) /\ UNCHANGED store
       \/ NotFound(<<"audit", 0>>) /\ Put(<<"audit", 0>>, 0)
    /\ Goto(i, "lods")
    /\ UNCHANGED disk /\ Keep(i)

\* All levels are there: the stage is done, whoever wrote them.
CheckLods(i) ==
    /\ At(i, "mesh", "lods")
    /\ \/ (\A l \in Lods : Has(<<"lod", l>>)) /\ Works /\ End(i, "done")
       \/ (\E l \in Lods : NotFound(<<"lod", l>>)) /\ Continue(i, "bake", 0, Empty)
    /\ UNCHANGED <<store, disk>> /\ Keep(i)

BakeLod(i) ==
    /\ At(i, "mesh", "bake") /\ att[i].n \in Lods
    /\ \/ Found(<<"lod", att[i].n>>) /\ UNCHANGED store
       \/ NotFound(<<"lod", att[i].n>>) /\ Put(<<"lod", att[i].n>>, 0)
    /\ Continue(i, "bake", att[i].n + 1, Empty)
    /\ UNCHANGED disk /\ Keep(i)

MeshingEnd(i) ==
    /\ At(i, "mesh", "bake") /\ att[i].n \notin Lods
    /\ Works
    /\ End(i, "done")
    /\ UNCHANGED <<store, disk>> /\ Keep(i)

Meshing(i) == Densify(i) \/ Audit(i) \/ CheckLods(i) \/ BakeLod(i) \/ MeshingEnd(i)

-------------------------------------------------------------------------------
(* Georef.  n: the level of detail; out: the mesh in the scratch directory.*)

\* The splat scene gets a key of its own; an error only means that there is none.
GeorefScene(i) ==
    /\ At(i, "georef", "begin")
    /\ \/ Found(<<"scene", 0>>) /\ Put(<<"georef", 0>>, 1)
       \/ NotFound(<<"scene", 0>>) /\ UNCHANGED store
    /\ Continue(i, "get", 0, Empty)
    /\ UNCHANGED disk /\ Keep(i)

\* Download and transform; a level that cannot be downloaded is passed over.
GetLod(i) ==
    /\ At(i, "georef", "get") /\ att[i].n \in Lods
    /\ \/ /\ Found(<<"lod", att[i].n>>)
          /\ Write(i, "lod", att[i].n, store[<<"lod", att[i].n>>] + 1)
          /\ Goto(i, "put")
       \/ /\ NotFound(<<"lod", att[i].n>>)
          /\ Continue(i, "get", att[i].n + 1, Empty)
          /\ UNCHANGED disk
    /\ UNCHANGED store /\ Keep(i)

\* Mutant of PutLod: the finest level is left out.
CoarseOnly(i) ==
    /\ At(i, "georef", "put")
    /\ Works
    /\ IF att[i].n = 0 THEN UNCHANGED store
                       ELSE Put(<<"lod", att[i].n>>, Read(i, "lod", att[i].n))
    /\ Continue(i, "get", att[i].n + 1, Empty)
    /\ UNCHANGED disk /\ Keep(i)

\* Back under the same key, where the next attempt will find it.
PutLod(i) ==
    /\ At(i, "georef", "put")
    /\ \/ Works /\ Put(<<"lod", att[i].n>>, Read(i, "lod", att[i].n))
       \/ Fails /\ UNCHANGED store
    /\ Continue(i, "get", att[i].n + 1, Empty)
    /\ UNCHANGED disk /\ Keep(i)

PutReport(i) ==
    /\ At(i, "georef", "get") /\ att[i].n \notin Lods
    /\ Works
    /\ Put(<<"qa", 0>>, 0)
    /\ End(i, "done")
    /\ UNCHANGED disk /\ Keep(i)

Georef(i) == GeorefScene(i) \/ GetLod(i) \/ PutLod(i) \/ PutReport(i)

-------------------------------------------------------------------------------
(* ProductGen.  out: the products to list, and their checksums in the end.*)

Listed(i, key) == With(att[i].out, key, 0)

\* What a product is made of when its source seems not to be there.
Synthetic == 9

\* _copy_if_exists: from one key to the other, unless there seems to be nothing.
CopyIfExists(i, from, to, next) ==
    /\ \/ /\ Found(from)
          /\ Put(to, store[from])
          /\ Continue(i, next, 0, Listed(i, to))
       \/ NotFound(from) /\ Continue(i, next, 0, att[i].out) /\ UNCHANGED store
    /\ UNCHANGED disk /\ Keep(i)

CopyMesh(i) ==
    At(i, "products", "begin") /\ CopyIfExists(i, <<"lod", 0>>, <<"O-1", 0>>, "trajectory")

\* The id that the SfM stage answered with; 1 in a mission that is given its map.
PoseId == IF \E i \in Attempts : att[i].stage = "sfm"
          THEN att[CHOOSE i \in Attempts : att[i].stage = "sfm"].n ELSE 1

CopyTrajectory(i) ==
    At(i, "products", "trajectory")
        /\ CopyIfExists(i, <<"centers", PoseId>>, <<"O-5", 0>>, "report")

FindReport(i) ==
    /\ At(i, "products", "report")
    /\ \/ Found(<<"qa", 0>>) /\ Continue(i, "points", 0, Listed(i, <<"qa", 0>>))
       \/ NotFound(<<"qa", 0>>) /\ Goto(i, "points")
    /\ UNCHANGED <<store, disk>> /\ Keep(i)

PutProduct(i, key, v, next) ==
    /\ Put(key, v)
    /\ Continue(i, next, 0, Listed(i, key))
    /\ UNCHANGED disk /\ Keep(i)

PutPoints(i, points) == PutProduct(i, <<"O-2", 0>>, points, "raster")

\* The splats, as they were before georeferencing if need be; too few of them (fewer than
\* 1000) are replaced by points of the mesh, or by points drawn at random.
AssemblePoints(i) ==
    /\ At(i, "products", "points")
    /\ \/ scene.ample /\ Found(<<"georef", 0>>) /\ PutPoints(i, store[<<"georef", 0>>])
       \/ scene.ample /\ NotFound(<<"georef", 0>>) /\ PutPoints(i, store[<<"scene", 0>>])
       \/ ~scene.ample /\ Found(<<"lod", 0>>) /\ PutPoints(i, store[<<"lod", 0>>])
       \/ ~scene.ample /\ NotFound(<<"lod", 0>>) /\ PutPoints(i, Synthetic)

AssembleRaster(i) ==
    At(i, "products", "raster") /\ Works /\ PutProduct(i, <<"O-6", 0>>, 0, "provenance")

\* Mutant of AssembleProvenance: the products assembled so far are listed at once.
ListAtOnce(i) ==
    /\ At(i, "products", "provenance")
    /\ Works
    /\ Put(<<"O-9", 0>>, i)
    /\ rows' = rows \cup {[by |-> i, key |-> k, checksum |-> 0] : k \in DOMAIN att[i].out}
    /\ Continue(i, "checksums", 0, Listed(i, <<"O-9", 0>>))
    /\ UNCHANGED <<scene, disk, last>>

AssembleProvenance(i) ==
    At(i, "products", "provenance") /\ Works /\ PutProduct(i, <<"O-9", 0>>, i, "checksums")

\* Mutant of ComputeChecksums: a checksum that is in the catalog is not computed again.
ReuseChecksums(i) ==
    /\ At(i, "products", "checksums")
    /\ Works
    /\ Continue(i, "publish", 0,
           [k \in DOMAIN att[i].out |->
               IF \E r \in rows : r.key = k
               THEN (CHOOSE r \in rows : r.key = k).checksum ELSE store[k]])
    /\ UNCHANGED <<store, disk>> /\ Keep(i)

ComputeChecksums(i) ==
    /\ At(i, "products", "checksums")
    /\ Works
    /\ Continue(i, "publish", 0, [k \in DOMAIN att[i].out |-> store[k]])
    /\ UNCHANGED <<store, disk>> /\ Keep(i)

RowsOf(i) == {r \in rows : r.by = i}

\* Mutant of publish_products: a product can only be listed once.
UniqueRows(i) ==
    /\ At(i, "products", "publish")
    /\ Works
    /\ \/ /\ \A r \in rows : r.key \notin DOMAIN att[i].out
          /\ rows' = rows \cup {[by |-> i, key |-> k, checksum |-> att[i].out[k]] :
                                   k \in DOMAIN att[i].out}
          /\ Goto(i, "answer")
       \/ /\ \E r \in rows : r.key \in DOMAIN att[i].out
          /\ End(i, "failed")
          /\ UNCHANGED rows
    /\ UNCHANGED <<scene, store, disk, last>>

\* One executemany: the rows of an attempt appear together, next to those that are there.
publish_products(i) ==
    /\ At(i, "products", "publish")
    /\ Works
    /\ rows' = rows \cup {[by |-> i, key |-> k, checksum |-> att[i].out[k]] :
                             k \in DOMAIN att[i].out}
    /\ Goto(i, "answer")
    /\ UNCHANGED <<scene, store, disk, last>>

ProductsEnd(i) ==
    /\ At(i, "products", "answer")
    /\ Works
    /\ End(i, "done")
    /\ UNCHANGED <<store, disk>> /\ Keep(i)

ProductGen(i) ==
    \/ CopyMesh(i) \/ CopyTrajectory(i) \/ FindReport(i)
    \/ AssemblePoints(i) \/ AssembleRaster(i) \/ AssembleProvenance(i)
    \/ ComputeChecksums(i) \/ publish_products(i) \/ ProductsEnd(i)

-------------------------------------------------------------------------------
(* What the direct runner looks for when the last stage has returned.      *)

RequiredProducts == {<<o, 0>> : o \in {"O-1", "O-2", "O-5", "O-6", "qa", "O-9"}}

CheckProducts(i) ==
    /\ At(i, "check", "begin")
    /\ Works
    /\ End(i, IF \A k \in RequiredProducts : Has(k) THEN "done" ELSE "failed")
    /\ UNCHANGED <<store, disk>> /\ Keep(i)

-------------------------------------------------------------------------------

Ended(i) == att[i].status \in {"failed", "raised", "lost"}

\* Training is never set back (dense_3dgs.py:39-58): without overlapping attempts, and
\* without one that could not read what was there, latest.json only moves on.
LatestAdvances ==
    [][(Alone' /\ Sighted' /\ Has(<<"latest", 0>>)) =>
           store'[<<"latest", 0>>] >= store[<<"latest", 0>>]]_vars

\* A training attempt fails by itself only when the checkpoint it resumed leaves no step to
\* do (gs_train.py:110, :143, :171): the last step of this run, or one of an earlier and
\* longer run of the mission.  Every retry will then fail the same way.
StuckOnlyAtTheEnd ==
    \A i \in Attempts : (att[i].stage = "train" /\ att[i].status = "failed") =>
        Resumable /\ ((Alone /\ Sighted) => store[<<"latest", 0>>] + 1 >= scene.total)

\* The levels of detail are in one frame of reference (georef.py:56-62) when no
\* georeferencing attempt was cut short, overlapped another or swallowed an error: there
\* is nothing else to keep a level from being transformed twice, or not at all.
LodsAgree ==
    (Alone /\ Sighted /\ \A i \in Attempts : att[i].stage = "georef" => Done(i, "georef")) =>
    \A k, l \in Lods : (Has(<<"lod", k>>) /\ Has(<<"lod", l>>)) =>
        store[<<"lod", k>>] = store[<<"lod", l>>]

\* When the stage completes, the catalog rows of its attempt show every product with the
\* checksum of the stored object (productgen.py:184-209), whatever earlier attempts had
\* uploaded or listed.
CatalogFresh ==
    (Alone /\ last > 0 /\ Done(last, "products")) =>
    /\ \A r \in RowsOf(last) : Has(r.key) /\ r.checksum = store[r.key]
    /\ Sighted => {r.key : r \in RowsOf(last)} = RequiredProducts

\* A product of a run is listed twice only when an attempt had inserted its rows and its
\* answer was lost, or when attempts overlapped (postgres_store.py:36: no key tells a
\* repeated insert).
ListedTwiceByLostAnswer ==
    Alone =>
    \A i, j \in Attempts :
        (RowsOf(i) # {} /\ RowsOf(j) # {} /\ i < j /\ att[i].run = att[j].run) =>
        Ended(i) /\ att[i].pc = "answer"

\* test_full_pipeline.py:137: "rerun produced a byte-different O-1 mesh from identical
\* inputs" is a failure.  The rows hold the checksums of both runs.
RerunKeepsMesh ==
    \A r, s \in rows : (r.key = <<"O-1", 0>> /\ s.key = r.key) => r.checksum = s.checksum

===============================================================================
