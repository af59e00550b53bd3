----------------------------- MODULE VideoStages ------------------------------
(***************************************************************************)
(* ActivityCuration, ActivityMasking and ActivityDepth, call by call: what *)
(* each reads and writes in the scratch directory and the object store,    *)
(* and which errors it swallows.                                           *)
(*                                                                         *)
(* Pictures are numbers: the picture of the f-th frame is f.  What curation*)
(* decides about a frame is part of the scene: "duplicate", "poor" (blur or*)
(* exposure), "passed" (not the best of its window) or "chosen".           *)
(***************************************************************************)
EXTENDS StageRuntime

CONSTANTS
    MinKeyframes,     \* MIN_KEYFRAMES_FOR_SFM; the code says 20
    CheckpointEvery   \* how many frames between two depth manifests; the code says 10

ASSUME VideoConstantsOK == MinKeyframes \in Nat /\ CheckpointEvery \in Nat \ {0}

-------------------------------------------------------------------------------
(* Curation.  out: the frames still to upload and those the manifest lists.*)

Shots == 1 .. Len(scene.video)
shotPath(f) == scene.video[f].path
verdict(f) == scene.video[f].verdict

\* The paths that belong to frames of S.
PathsOf(S) == {shotPath(f) : f \in S}

Candidates == {f \in Shots : verdict(f) # "duplicate"}
Kept == {f \in Shots : verdict(f) \in {"passed", "chosen"}}
Chosen == {f \in Shots : verdict(f) = "chosen"}

\* "selected_keys" holds paths: a frame that was not chosen stays when a chosen one has
\* its path.
Selected == {f \in Kept : shotPath(f) \in PathsOf(Chosen)}

InOrder(S) == CHOOSE q \in [1 .. Cardinality(S) -> S] :
                  \A a, b \in 1 .. Cardinality(S) : a < b => q[a] < q[b]

Sufficient(n) == n > 0 /\ n >= MinKeyframes

\* A manifest that is there ends the attempt.
CurationBegin(i) ==
    /\ At(i, "curation", "begin")
    /\ \/ /\ Found(<<"keyframes", 0>>)
          /\ End(i, IF Sufficient(Len(store[<<"keyframes", 0>>])) THEN "done" ELSE "failed")
       \/ /\ NotFound(<<"keyframes", 0>>)
          /\ Goto(i, "decode")
    /\ UNCHANGED <<store, disk>> /\ Keep(i)

\* The shards are decoded in parallel processes; of the frames that share a path any one
\* may be written last.
curate_segment_shard(i) ==
    /\ At(i, "curation", "decode")
    /\ \E picture \in [PathsOf(Candidates) -> Candidates] :
           /\ \A p \in PathsOf(Candidates) : shotPath(picture[p]) = p
           /\ disk' = [disk EXCEPT ![att[i].on] =
                  [y \in DOMAIN @ \cup {Path(i, "shot", p) : p \in PathsOf(Candidates)} |->
                      IF \E p \in PathsOf(Candidates) : y = Path(i, "shot", p)
                      THEN picture[y[2]] ELSE @[y]]]
    /\ Works
    /\ Goto(i, "select")
    /\ UNCHANGED store /\ Keep(i)

\* The files of the frames that are dropped are unlinked: first the poor ones, whatever
\* else has their path, then those outside the selection.
SelectKeyframes(i) ==
    /\ At(i, "curation", "select")
    /\ LET gone == PathsOf(Candidates \ Kept) \cup PathsOf(Kept \ Selected)
       IN  disk' = [disk EXCEPT ![att[i].on] =
                        Without(@, {Path(i, "shot", p) : p \in gone})]
    /\ Works
    /\ Continue(i, "upload", 0, [todo |-> InOrder(Selected), kept |-> <<>>])
    /\ UNCHANGED store /\ Keep(i)

\* Mutant of UploadKeyframe: the objects keep the numbers the frames had in their shard.
KeepShardNumbers(i) ==
    /\ At(i, "curation", "upload") /\ att[i].out.todo # <<>>
    /\ LET f == Head(att[i].out.todo)
           p == shotPath(f)
       IN  /\ OnDisk(i, "shot", p)
           /\ Works
           /\ Put(<<"keyframe", p>>, Read(i, "shot", p))
           /\ disk' = [disk EXCEPT ![att[i].on] = Without(@, {Path(i, "shot", p)})]
           /\ Continue(i, "upload", att[i].n + 1,
                       [todo |-> Tail(att[i].out.todo), kept |-> Append(att[i].out.kept, f)])
    /\ Keep(i)

\* Mutant of UploadKeyframe: a frame whose file is gone is listed all the same.
ListMissing(i) ==
    /\ At(i, "curation", "upload") /\ att[i].out.todo # <<>>
    /\ LET f == Head(att[i].out.todo)
           p == shotPath(f)
       IN  /\ Works
           /\ Continue(i, "upload", att[i].n + 1,
                       [todo |-> Tail(att[i].out.todo), kept |-> Append(att[i].out.kept, f)])
           /\ IF OnDisk(i, "shot", p)
              THEN /\ Put(<<"keyframe", att[i].n>>, Read(i, "shot", p))
                   /\ disk' = [disk EXCEPT ![att[i].on] = Without(@, {Path(i, "shot", p)})]
              ELSE UNCHANGED <<store, disk>>
    /\ Keep(i)

\* One frame: a file that is gone drops it, and the numbers of the others stay dense.
UploadKeyframe(i) ==
    /\ At(i, "curation", "upload") /\ att[i].out.todo # <<>>
    /\ LET f == Head(att[i].out.todo)
           p == shotPath(f)
           rest == Tail(att[i].out.todo)
       IN  \/ /\ ~OnDisk(i, "shot", p)
              /\ Works
              /\ Continue(i, "upload", att[i].n, [att[i].out EXCEPT !.todo = rest])
              /\ UNCHANGED <<store, disk>>
           \/ /\ OnDisk(i, "shot", p)
              /\ Works
              /\ Put(<<"keyframe", att[i].n>>, Read(i, "shot", p))
              /\ disk' = [disk EXCEPT ![att[i].on] = Without(@, {Path(i, "shot", p)})]
              /\ Continue(i, "upload", att[i].n + 1,
                          [todo |-> rest, kept |-> Append(att[i].out.kept, f)])
    /\ Keep(i)

CurationEnd(i) ==
    /\ At(i, "curation", "upload") /\ att[i].out.todo = <<>>
    /\ Works
    /\ IF Sufficient(Len(att[i].out.kept))
       THEN Put(<<"keyframes", 0>>, att[i].out.kept) /\ End(i, "done")
       ELSE End(i, "failed") /\ UNCHANGED store
    /\ UNCHANGED disk /\ Keep(i)

Curation(i) ==
    \/ CurationBegin(i) \/ curate_segment_shard(i) \/ SelectKeyframes(i)
    \/ UploadKeyframe(i) \/ CurationEnd(i)

-------------------------------------------------------------------------------
(* Masking.  out: what the masks show.                                     *)

Show(objects) == [objects |-> objects]

\* The models are optional: a host without them marks every pixel as static.
MaskingBegin(i) ==
    /\ At(i, "masking", "begin")
    /\ \/ /\ Found(<<"masks", 0>>)
          /\ End(i, "done")
       \/ /\ NotFound(<<"masks", 0>>)
          /\ Continue(i, "upload", 1, Show(att[i].on \in scene.sam))
    /\ UNCHANGED <<store, disk>> /\ Keep(i)

\* Mutant of UploadMask: a mask that is there is not uploaded again.
KeepMask(i) ==
    /\ At(i, "masking", "upload") /\ att[i].n <= scene.frames
    /\ Works
    /\ IF Has(<<"mask", att[i].n - 1>>) THEN UNCHANGED store
                                        ELSE Put(<<"mask", att[i].n - 1>>, att[i].out)
    /\ Continue(i, "upload", att[i].n + 1, att[i].out)
    /\ UNCHANGED disk /\ Keep(i)

UploadMask(i) ==
    /\ At(i, "masking", "upload") /\ att[i].n <= scene.frames
    /\ Works
    /\ Put(<<"mask", att[i].n - 1>>, att[i].out)
    /\ Continue(i, "upload", att[i].n + 1, att[i].out)
    /\ UNCHANGED disk /\ Keep(i)

MaskingEnd(i) ==
    /\ At(i, "masking", "upload") /\ att[i].n > scene.frames
    /\ Works
    /\ Put(<<"masks", 0>>, [f \in 0 .. scene.frames - 1 |-> att[i].out])
    /\ End(i, "done")
    /\ UNCHANGED disk /\ Keep(i)

Masking(i) == MaskingBegin(i) \/ UploadMask(i) \/ MaskingEnd(i)

-------------------------------------------------------------------------------
(* Depth.  out: the manifest in memory; n: the image the loop is at.  Image*)
(* ids are COLMAP's, which count from 1.                                   *)

Aligned(manifest) == {f \in DOMAIN manifest : manifest[f] = "aligned"}

\* A sparse model that cannot be downloaded: an older copy on the machine will do, and
\* without one there are no images to go through.
LoadSparseModel(i) ==
    /\ At(i, "depth", "begin")
    /\ \/ /\ Works
          /\ Write(i, "model", 0, "model")
          /\ Continue(i, "manifest", 1, Empty)
       \/ /\ Fails
          /\ Continue(i, "manifest", IF OnDisk(i, "model", 0) THEN 1 ELSE scene.frames + 1, Empty)
          /\ UNCHANGED disk
    /\ UNCHANGED store /\ Keep(i)

\* Mutant of ResumeManifest: every attempt begins a manifest of its own.
ForgetManifest(i) ==
    /\ At(i, "depth", "manifest")
    /\ Works
    /\ Goto(i, "frame")
    /\ UNCHANGED <<store, disk>> /\ Keep(i)

\* A manifest that cannot be read is taken for an empty one.
ResumeManifest(i) ==
    /\ At(i, "depth", "manifest")
    /\ \/ Found(<<"depth", 0>>) /\ Continue(i, "frame", att[i].n, store[<<"depth", 0>>])
       \/ NotFound(<<"depth", 0>>) /\ Goto(i, "frame")
    /\ UNCHANGED <<store, disk>> /\ Keep(i)

DepthNext(i, out) == Continue(i, "frame", att[i].n + 1, out)

\* An image that was aligned before is skipped when its depth map is there.
CheckImage(i) ==
    /\ At(i, "depth", "frame") /\ att[i].n <= scene.frames
    /\ \/ /\ att[i].n \in Aligned(att[i].out)
          /\ \/ Found(<<"exr", att[i].n>>) /\ DepthNext(i, att[i].out)
             \/ NotFound(<<"exr", att[i].n>>) /\ Goto(i, "image")
       \/ /\ att[i].n \notin Aligned(att[i].out)
          /\ Works
          /\ Goto(i, "image")
    /\ UNCHANGED <<store, disk>> /\ Keep(i)

\* No picture, or too few sparse points for a fit.
LeaveUnaligned(i) ==
    /\ At(i, "depth", "image")
    /\ \/ NotFound(<<"keyframe", att[i].n>>)
       \/ Found(<<"keyframe", att[i].n>>) /\ att[i].n \in scene.thin
    /\ DepthNext(i, With(att[i].out, att[i].n, "unaligned"))
    /\ UNCHANGED <<store, disk>> /\ Keep(i)

\* The depth map is put first and then named by the manifest.
AlignImage(i) ==
    /\ At(i, "depth", "image")
    /\ Found(<<"keyframe", att[i].n>>) /\ att[i].n \notin scene.thin
    /\ Put(<<"exr", att[i].n>>, store[<<"keyframe", att[i].n>>])
    /\ LET out == With(att[i].out, att[i].n, "aligned")
       IN  IF (att[i].n - 1) % CheckpointEvery = 0
           THEN Continue(i, "checkpoint", att[i].n, out)
           ELSE DepthNext(i, out)
    /\ UNCHANGED disk /\ Keep(i)

PutManifest(i) ==
    /\ At(i, "depth", "checkpoint")
    /\ Works
    /\ Put(<<"depth", 0>>, att[i].out)
    /\ DepthNext(i, att[i].out)
    /\ UNCHANGED disk /\ Keep(i)

\* Mutant of DepthEnd: what was aligned since the last checkpoint is not saved.
NoFinalSave(i) ==
    /\ At(i, "depth", "frame") /\ att[i].n > scene.frames
    /\ Works
    /\ End(i, "done")
    /\ UNCHANGED <<store, disk>> /\ Keep(i)

DepthEnd(i) ==
    /\ At(i, "depth", "frame") /\ att[i].n > scene.frames
    /\ Works
    /\ Put(<<"depth", 0>>, att[i].out)
    /\ End(i, "done")
    /\ UNCHANGED disk /\ Keep(i)

Depth(i) ==
    \/ LoadSparseModel(i) \/ ResumeManifest(i) \/ CheckImage(i) \/ LeaveUnaligned(i)
    \/ AlignImage(i) \/ PutManifest(i) \/ DepthEnd(i)

-------------------------------------------------------------------------------

\* With one picture per path and no two attempts on one machine, every keyframe object is
\* the picture the manifest lists under its number (curation.py:404-446): attempts that
\* were cut short leave objects that the next one writes anew, and never renumber them.
KeyframesMatch ==
    (Has(<<"keyframes", 0>>) /\ NoSharedMachine
        /\ Cardinality(PathsOf(Candidates)) = Cardinality(Candidates)) =>
    LET manifest == store[<<"keyframes", 0>>]
    IN  \A j \in DOMAIN manifest :
            Has(<<"keyframe", j - 1>>) /\ store[<<"keyframe", j - 1>>] = manifest[j]

\* The manifest describes the masks it lists (masking.py:168-176), whichever of the hosts
\* with and without the models took turns, unless attempts overlap or one was told that
\* there is no manifest.
MasksMatch ==
    (Has(<<"masks", 0>>) /\ Alone /\ Sighted) =>
    \A f \in DOMAIN store[<<"masks", 0>>] :
        Has(<<"mask", f>>) /\ store[<<"mask", f>>] = store[<<"masks", 0>>][f]

\* A retry resumes from the manifest of the attempt before it (depth.py:43-60): what was
\* aligned stays aligned, unless attempts overlap or one could not read what was there.
DepthKept ==
    [][(Alone' /\ Sighted' /\ Has(<<"depth", 0>>)) =>
           Aligned(store[<<"depth", 0>>]) \subseteq Aligned(store'[<<"depth", 0>>])]_vars

\* However often it was resumed, a stage that completes has aligned exactly the images
\* that have a keyframe and enough points (depth.py:54-104).
DepthComplete ==
    (Alone /\ Sighted) =>
    \A i \in Attempts : Done(i, "depth") =>
        Has(<<"depth", 0>>) /\
        Aligned(store[<<"depth", 0>>]) =
            {f \in 1 .. scene.frames : Has(<<"keyframe", f>>) /\ f \notin scene.thin}

===============================================================================
