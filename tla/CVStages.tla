------------------------------- MODULE CVStages -------------------------------
(***************************************************************************)
(* The stages of the Python workers over one object store.                 *)
(***************************************************************************)
EXTENDS VideoStages, PoseStage, SceneStages

Step(i) ==
    /\ Running(i)
    /\ \/ Curation(i) \/ Masking(i) \/ Depth(i) \/ Pose(i)
       \/ Dense3DGS(i) \/ Meshing(i) \/ Georef(i) \/ ProductGen(i)
       \/ CheckProducts(i)

Next ==
    \/ Server
    \/ \E i \in Attempts : Step(i)
    \/ Environment

Spec == Init /\ [][Next]_vars

\* An attempt that runs is executed; the server schedules what is due.
FairSpec ==
    /\ Spec
    /\ WF_vars(Server)
    /\ \A i \in Attempts : WF_vars(Step(i))

-------------------------------------------------------------------------------

\* The attempts up to the last one have been started, the others have not.
TypeOK ==
    /\ scene \in Scenes
    /\ last \in 0 .. MaxAttempts
    /\ faults \in 0 .. MaxFaults
    /\ DOMAIN disk = Machines
    /\ \A i \in Attempts :
           /\ att[i].status \in {"idle", "running", "done", "failed", "raised", "lost"}
           /\ att[i].status = "idle" <=> i > last
           /\ att[i].rivals \subseteq 1 .. i - 1
           /\ i <= last => att[i].on \in Machines /\ att[i].run \in 1 .. MaxRuns
    /\ \A r \in rows : r.by \in 1 .. last

\* The objects that the object v behind a key refers to.
NamesOf(k, v) ==
    CASE k[1] = "keyframes" -> {<<"keyframe", j - 1>> : j \in DOMAIN v}
      [] k[1] = "masks" -> {<<"mask", f>> : f \in DOMAIN v}
      [] k[1] = "depth" -> {<<"exr", f>> : f \in Aligned(v)}
      [] k[1] = "matched" -> {<<"snapshot", k[2]>>}
      [] k[1] = "sfm" -> {<<"centers", k[2]>>} \cup ModelKeys(k[2])
      [] k[1] = "latest" -> {<<"step", v>>}
      [] OTHER -> {}

\* The result of each stage, which no scene begins with.
Results == {"keyframes", "masks", "depth", "priors", "snapshot", "sfm", "lod"}

\* A mission enters at a stage before georeferencing and finds what its stages need.  What
\* is stored already lacks nothing, and is no result of theirs: keyframes, the checkpoints
\* of an earlier training, a trained scene.  A host that can train has steps to do.
ASSUME ScenesOK ==
    \A s \in Scenes :
        /\ s.stage \in {"curation", "masking", "depth", "sfm", "train", "mesh", "direct"}
        /\ s.frames \in Nat /\ s.total \in Nat
        /\ s.video \in Seq([path : Nat, verdict : STRING])
        /\ s.gsplat # {} => s.total > 0
        /\ s.stage = "mesh" => <<"centers", 1>> \in DOMAIN s.stored
        /\ \A k \in DOMAIN s.stored :
               /\ k[1] \notin Results
               /\ k[1] = "latest" => s.stored[k] \in Nat
               /\ NamesOf(k, s.stored[k]) \subseteq DOMAIN s.stored

Rows(i) == <<"rows", i>>

\* The store and the catalog as the contract sees them.
Names ==
    [k \in DOMAIN store \cup {Rows(r.by) : r \in rows} |->
        IF k \in DOMAIN store THEN NamesOf(k, store[k]) ELSE {r.key : r \in RowsOf(k[2])}]

Contract == INSTANCE ArtifactContract WITH names <- Names

\* Completion objects come last in every stage: manifests, markers, results, latest.json
\* and catalog rows never name an object that is not stored, with any number of attempts
\* at the same time, failing calls and crashes.
ImplementsContract == Contract!Spec

\* The last stage there is to execute has completed.
Finished ==
    /\ last > 0 /\ att[last].status = "done"
    /\ IF Served THEN att[last].stage \notin DOMAIN After ELSE att[last].stage = "check"

\* A stage that is retried completes, whatever is cut short, unless the code itself fails
\* it: footage below a floor, or a checkpoint without a step left to do.  A direct run, which
\* retries nothing, completes when no call fails: every stage finds what it needs.
StageCompletes ==
    <>[](\/ Finished
         \/ \E i \in Attempts : att[i].status = "failed" /\ att[i].stage \in {"curation", "sfm", "train"}
         \/ ~Served /\ faults > 0)

-------------------------------------------------------------------------------
(* The strengthening that makes NoDangling inductive (proved in Stages_proofs). *)

\* What an attempt has put before it names it: between two calls of a stage, by the point
\* where the attempt a stands, keys being those in use.
Prepared(a, keys) ==
    /\ (a.stage = "curation" /\ a.pc = "upload") =>
           /\ DOMAIN a.out = {"todo", "kept"}
           /\ a.n \in Nat /\ Len(a.out.kept) = a.n
           /\ a.out.kept \in Seq({a.out.kept[j] : j \in 1 .. a.n})
           /\ \A j \in 1 .. a.n : <<"keyframe", j - 1>> \in keys
    /\ (a.stage = "masking" /\ a.pc = "upload") =>
           a.n \in Nat /\ \A f \in 0 .. a.n - 2 : <<"mask", f>> \in keys
    /\ (a.stage = "depth" /\ a.pc # "begin") => \A f \in Aligned(a.out) : <<"exr", f>> \in keys
    /\ (a.stage = "sfm" /\ a.pc = "mark") => <<"snapshot", a.n>> \in keys
    /\ (a.stage = "sfm" /\ a.pc = "model") =>
           /\ DOMAIN a.out = {"db", "file"} /\ a.out.file \in Nat \ {0}
           /\ \A f \in 1 .. a.out.file - 1 : <<"model", 2 * f + a.n>> \in keys
    /\ (a.stage = "sfm" /\ a.pc = "answer") =>
           {<<"centers", a.n>>} \cup ModelKeys(a.n) \subseteq keys
    /\ (a.stage = "train" /\ a.pc = "latest") => <<"step", a.n>> \in keys
    /\ a.stage = "products" => DOMAIN a.out \subseteq keys

CompleteInv ==
    /\ \A k \in DOMAIN store : NamesOf(k, store[k]) \subseteq DOMAIN store
    /\ \A r \in rows : Has(r.key)
    /\ \A i \in Attempts : Running(i) => Prepared(att[i], DOMAIN store)

\* The strengthening for the attempts (proved in Stages_proofs).

\* Every attempt but the first takes a fault, a stage or a run of its own.
StagesBefore(s) == CASE s = "georef" -> 1 [] s = "products" -> 2 [] OTHER -> 0

AttemptsCounted ==
    /\ (Served /\ last > 0) =>
           last + (IF att[last].status \in {"raised", "lost"} THEN 1 ELSE 0)
               <= 3 * (att[last].run - 1) + StagesBefore(att[last].stage) + 1 + faults
    /\ ~Served => last <= Len(DirectStages) /\ \A i \in 1 .. last : att[i].stage = DirectStages[i]

\* A product stage that has completed is the last of its run.
LastOfItsRun ==
    Alone =>
        /\ \A i \in 1 .. last - 1 : ~Running(i)
        /\ Served => \A i, j \in 1 .. last :
               (i < j /\ Done(i, "products")) => att[j].run > att[i].run

RowsByProductGen ==
    \A r \in rows : att[r.by].stage = "products" /\ att[r.by].pc = "answer"
===============================================================================
