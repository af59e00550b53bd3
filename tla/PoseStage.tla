------------------------------ MODULE PoseStage -------------------------------
(***************************************************************************)
(* ActivitySfM: the telemetry warm start, feature extraction and matching, *)
(* and bundle adjustment, one after the other in one attempt.              *)
(*                                                                         *)
(* Everything is stored below poses/<attempt_id>, a hash of the keyframes  *)
(* and of the telemetry logs that could be downloaded: id is 1 with all of *)
(* them and 0 without one.  The COLMAP database lies in the scratch        *)
(* directory of the run, whatever the id.                                  *)
(***************************************************************************)
EXTENDS StageRuntime

CONSTANT
    ModelSize     \* how many files a map has; the code says 4

ASSUME PoseConstantsOK == ModelSize \in Nat

\* The files of the map that belongs to an id.
ModelKeys(id) == {<<"model", 2 * f + id>> : f \in 1 .. ModelSize}

\* The database in the scratch directory: the id it is for, and the attempt that fills it
\* or 0 once it is matched.
Database(i, by) == Write(i, "db", 0, [id |-> att[i].n, by |-> by])
Matched(db) == db.by = 0

InPose(i, pc) == At(i, "sfm", pc)

-------------------------------------------------------------------------------
(* parse_vio_warm_start.  n: the id.                                       *)

PutPriors(i, id) == Put(<<"priors", id>>, "priors") /\ Continue(i, "cameras", id, Empty)
KeepPriors(i, id) == UNCHANGED store /\ Continue(i, "features", id, Empty)

\* safe_download takes any error for a log that was never recorded.  The manifest of the
\* priors ends every later warm start; it is put first.
ParseWarmStart(i) ==
    /\ InPose(i, "begin")
    /\ \/ Found(<<"priors", 1>>) /\ KeepPriors(i, 1)
       \/ NotFound(<<"priors", 1>>) /\ PutPriors(i, 1)
       \/ /\ Fails
          /\ IF Has(<<"priors", 0>>) THEN KeepPriors(i, 0) ELSE PutPriors(i, 0)
    /\ UNCHANGED disk /\ Keep(i)

PutCamerasText(i) ==
    /\ InPose(i, "cameras")
    /\ Works
    /\ Put(<<"cameras", att[i].n>>, "text")
    /\ Goto(i, "images")
    /\ UNCHANGED disk /\ Keep(i)

\* Mutant of PutImagesText: the second text is not uploaded.
ForgetImagesText(i) ==
    /\ InPose(i, "images")
    /\ Works
    /\ Goto(i, "features")
    /\ UNCHANGED <<store, disk>> /\ Keep(i)

PutImagesText(i) ==
    /\ InPose(i, "images")
    /\ Works
    /\ Put(<<"images", att[i].n>>, "text")
    /\ Goto(i, "features")
    /\ UNCHANGED disk /\ Keep(i)

-------------------------------------------------------------------------------
(* extract_and_match_features.                                             *)

\* Matched before: nothing is downloaded, and the local path is answered.  Otherwise the
\* database is unlinked and filled anew.
BuildDatabase(i) ==
    /\ InPose(i, "features")
    /\ \/ Found(<<"matched", att[i].n>>) /\ Goto(i, "adjust") /\ UNCHANGED disk
       \/ /\ NotFound(<<"matched", att[i].n>>)
          /\ Database(i, i)
          /\ Goto(i, "match")
    /\ UNCHANGED store /\ Keep(i)

\* Features, matches and priors.  The database is opened by its path: it may be another
\* attempt's by now.
RunMatching(i) ==
    /\ InPose(i, "match")
    /\ Works
    /\ IF Read(i, "db", 0).by = i THEN Database(i, 0) ELSE UNCHANGED disk
    /\ Goto(i, "pack")
    /\ UNCHANGED store /\ Keep(i)

PackAndUpload(i) ==
    /\ InPose(i, "pack")
    /\ Works
    /\ Put(<<"snapshot", att[i].n>>, Read(i, "db", 0))
    /\ Goto(i, "mark")
    /\ UNCHANGED disk /\ Keep(i)

PutMarker(i) ==
    /\ InPose(i, "mark")
    /\ Works
    /\ Put(<<"matched", att[i].n>>, "marker")
    /\ Goto(i, "adjust")
    /\ UNCHANGED disk /\ Keep(i)

-------------------------------------------------------------------------------
(* run_bundle_adjustment.  out: the database the map is made from, and the *)
(* model file that is uploaded next.                                       *)

\* Mutant of OpenDatabase: a path without a file is opened as a new, empty database.
OpenEmptyDatabase(i) ==
    /\ InPose(i, "adjust")
    /\ Works
    /\ IF OnDisk(i, "db", 0) THEN UNCHANGED disk ELSE Database(i, i)
    /\ Goto(i, "map")
    /\ UNCHANGED store /\ Keep(i)

\* The snapshot is only downloaded when there is no database on the machine at all.
OpenDatabase(i) ==
    /\ InPose(i, "adjust")
    /\ Works
    /\ IF OnDisk(i, "db", 0)
       THEN UNCHANGED disk
       ELSE Write(i, "db", 0, store[<<"snapshot", att[i].n>>])
    /\ Goto(i, "map")
    /\ UNCHANGED store /\ Keep(i)

CheckResult(i) ==
    /\ InPose(i, "map")
    /\ Found(<<"sfm", att[i].n>>)
    /\ End(i, "done")
    /\ UNCHANGED <<store, disk>> /\ Keep(i)

\* A map of most images ("good"), one that is still poor after the retry with relaxed
\* RANSAC ("sparse"), or one below the hard floor ("hopeless").  A database that was not
\* matched to the end may give either of the last two.
Outcomes(db) ==
    IF Matched(db) THEN {scene.fit} ELSE {"sparse", "hopeless"}

IncrementalMapping(i) ==
    /\ InPose(i, "map")
    /\ NotFound(<<"sfm", att[i].n>>)
    /\ \E fit \in Outcomes(Read(i, "db", 0)) :
           IF fit = "hopeless"
           THEN End(i, "failed")
           ELSE Continue(i, "model", att[i].n, [db |-> Read(i, "db", 0), file |-> 1])
    /\ UNCHANGED <<store, disk>> /\ Keep(i)

UploadModel(i) ==
    /\ InPose(i, "model") /\ att[i].out.file <= ModelSize
    /\ Works
    /\ Put(<<"model", 2 * att[i].out.file + att[i].n>>, att[i].out.db)
    /\ Continue(i, "model", att[i].n, [att[i].out EXCEPT !.file = @ + 1])
    /\ UNCHANGED disk /\ Keep(i)

PutCenters(i) ==
    /\ InPose(i, "model") /\ att[i].out.file > ModelSize
    /\ Works
    /\ Put(<<"centers", att[i].n>>, att[i].n)
    /\ Goto(i, "answer")
    /\ UNCHANGED disk /\ Keep(i)

PutResult(i) ==
    /\ InPose(i, "answer")
    /\ Works
    /\ Put(<<"sfm", att[i].n>>, att[i].out.db)
    /\ End(i, "done")
    /\ UNCHANGED disk /\ Keep(i)

Pose(i) ==
    \/ ParseWarmStart(i) \/ PutCamerasText(i) \/ PutImagesText(i)
    \/ BuildDatabase(i) \/ RunMatching(i) \/ PackAndUpload(i) \/ PutMarker(i)
    \/ OpenDatabase(i) \/ CheckResult(i) \/ IncrementalMapping(i)
    \/ UploadModel(i) \/ PutCenters(i) \/ PutResult(i)

-------------------------------------------------------------------------------

\* An attempt that ended between unlinking the database and uploading its snapshot.
CutWhileMatching ==
    \E i \in Attempts : att[i].stage = "sfm" /\ ~Running(i)
                          /\ att[i].pc \in {"match", "pack", "mark"}

\* The map is made from the database that was matched for it (sfm.py:359, :380).  This
\* needs what the code does not check: that no attempt left the remains of a database on a
\* machine, that none shared its scratch directory, and that all of them saw the same
\* telemetry.
MapOfItsMatches ==
    (NoSharedMachine /\ Sighted /\ ~CutWhileMatching) =>
    \A h \in {0, 1} : Has(<<"sfm", h>>) =>
        store[<<"sfm", h>>].id = h /\ Matched(store[<<"sfm", h>>])

\* The renderings of the warm start are missing only while the attempt that stored its
\* manifest is between the two, or because it ended there (vio_parse.py:207-217): every
\* later attempt finds the manifest and goes past them.
WarmStartComplete ==
    \A h \in {0, 1} :
        (Has(<<"priors", h>>) /\ ~(Has(<<"cameras", h>>) /\ Has(<<"images", h>>))) =>
        \E i \in Attempts : att[i].stage = "sfm" /\ att[i].n = h
                              /\ att[i].pc \in {"cameras", "images"}

===============================================================================
