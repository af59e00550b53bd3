----------------------------- MODULE StageRuntime -----------------------------
(***************************************************************************)
(* What the activities of the Python workers run on: the object store,     *)
(* the scratch directories of the worker machines and the attempts that    *)
(* the Temporal server starts one after the other.                         *)
(*                                                                         *)
(* An attempt executes its stage call by call.  It ends by answering, by   *)
(* raising, or with its machine; the server may also give it up while it   *)
(* goes on in its thread.  The object store never loses an object, and a   *)
(* machine that restarts finds its scratch directory again or an empty one.*)
(***************************************************************************)
EXTENDS Naturals, Sequences, FiniteSets

CONSTANTS
    Machines,      \* the hosts of cv-python workers, numbered as they come into use
    Scenes,        \* what the stages can meet: the footage, the hosts, what is stored
    MaxRuns,       \* how many times the mission is reconstructed
    MaxFaults      \* bound on failing calls, time-outs, crashes and failed attempts

ASSUME ConstantsOK ==
    /\ Machines \subseteq Nat \ {0}
    /\ MaxRuns \in Nat \ {0} /\ MaxFaults \in Nat
    /\ \A s \in Scenes : s.budget \in 0 .. MaxFaults /\ s.runs \in 1 .. MaxRuns

VARIABLES
    scene,    \* the footage and the hosts: chosen once
    store,    \* object store: the objects behind the keys in use
    disk,     \* per machine: the files below the scratch directory
    att,      \* the attempts, in the order they were started
    last,     \* how many were started: the one that counts is the last
    rows,     \* table products
    faults    \* how many faults the environment has injected

vars == <<scene, store, disk, att, last, rows, faults>>

\* Three stages may follow one another in every run, or nine in a direct one, and every
\* further attempt takes a fault.
MaxAttempts == 3 * MaxRuns + 6 + MaxFaults
Attempts == 1 .. MaxAttempts

Empty == [x \in {} |-> x]

With(f, x, v) == [y \in DOMAIN f \cup {x} |-> IF y = x THEN v ELSE f[y]]

Without(f, S) == [y \in DOMAIN f \ S |-> f[y]]

Idle == [status |-> "idle", stage |-> "", run |-> 0, on |-> 0, pc |-> "", n |-> 0,
         out |-> Empty, blind |-> FALSE, rivals |-> {}]

\* The stages that follow one another on the same objects.
After == [s \in {"mesh", "georef"} |-> IF s = "mesh" THEN "georef" ELSE "products"]

\* The attempts are scheduled by the Temporal server, or by the direct runner.
Served == scene.stage # "direct"

\* What scripts/direct_pipeline_runner.py executes in its own process, without retries.
DirectStages == <<"curation", "sfm", "masking", "depth", "train",
                  "mesh", "georef", "products", "check">>

Running(i) == att[i].status = "running"

At(i, stage, pc) == Running(i) /\ att[i].stage = stage /\ att[i].pc = pc

\* A call that fails is a fault, and a scene has a budget of them; every other step says Works.
Works == UNCHANGED faults
Fails == faults < scene.budget /\ faults' = faults + 1

Has(k) == k \in DOMAIN store

\* object_exists: any error reads as "there is no such object".
Found(k) == Has(k) /\ Works
NotFound(k) == (~Has(k) /\ Works) \/ (Has(k) /\ Fails)

Put(k, v) == store' = With(store, k, v)

\* A file of the attempt: scratch_dir / run_id / stage / name.
Path(i, name, n) == <<name, n, att[i].run>>
OnDisk(i, name, n) == Path(i, name, n) \in DOMAIN disk[att[i].on]
Read(i, name, n) == disk[att[i].on][Path(i, name, n)]
Write(i, name, n, v) == disk' = [disk EXCEPT ![att[i].on] = With(@, Path(i, name, n), v)]

\* The attempt goes on at pc with the loop position n and the partial result out.
\* A step that swallows an error leaves a mark: from then on the attempt is blind.
Continue(i, pc, n, out) ==
    att' = [att EXCEPT ![i] = [@ EXCEPT !.pc = pc, !.n = n, !.out = out,
                                        !.blind = att[i].blind \/ faults' # faults]]
Goto(i, pc) == Continue(i, pc, att[i].n, att[i].out)
End(i, status) == att' = [att EXCEPT ![i] = [@ EXCEPT !.status = status, !.out = Empty]]
Keep(i) == UNCHANGED <<scene, last, rows>>

-------------------------------------------------------------------------------

Init ==
    /\ scene \in Scenes
    /\ store = scene.stored
    /\ disk = [m \in Machines |-> Empty]
    /\ att = [i \in Attempts |-> Idle]
    /\ last = 0
    /\ rows = {}
    /\ faults = 0

\* The attempts that are executed on machine m.
Busy(m) == {i \in Attempts : Running(i) /\ att[i].on = m}

\* Hosts are alike: a new one gets the next number, but for what the scene says is installed.
InUse == {att[i].on : i \in 1 .. last}
Hosts == {m \in Machines :
              /\ \A k \in Machines : k < m => k \in InUse
              /\ Served \/ InUse \subseteq {m}}

\* Mutant of Launch: the new attempt is not counted.
LaunchUncounted(stage, run) ==
    /\ UNCHANGED last
    /\ \E m \in Hosts :
           att' = [att EXCEPT ![last + 1] =
               [Idle EXCEPT !.status = "running", !.stage = stage, !.run = run, !.on = m,
                            !.pc = "begin", !.rivals = {i \in Attempts : Running(i)}]]
    /\ UNCHANGED <<scene, store, disk, rows>>

Launch(stage, run) ==
    /\ last' = last + 1
    /\ \E m \in Hosts :
           att' = [att EXCEPT ![last + 1] =
               [Idle EXCEPT !.status = "running", !.stage = stage, !.run = run, !.on = m,
                            !.pc = "begin", !.rivals = {i \in Attempts : Running(i)}]]
    /\ UNCHANGED <<scene, store, disk, rows>>

FirstAttempt ==
    Served /\ last = 0 /\ Works /\ Launch(scene.stage, 1)

\* The next stage when the one before it has returned; the first exception ends the script.
DirectStage ==
    /\ ~Served /\ last < Len(DirectStages)
    /\ last > 0 => att[last].status = "done"
    /\ Works
    /\ Launch(DirectStages[last + 1], 1)

\* The server schedules the next attempt when the last one has failed or was lost.
Retry ==
    /\ Served /\ last > 0
    /\ \/ att[last].status \in {"raised", "lost"} /\ Works
       \/ att[last].status = "failed" /\ Fails
    /\ Launch(att[last].stage, att[last].run)

\* A heartbeat that is late: the attempt is given up, and nothing stops its thread.
TimeOut ==
    /\ Served /\ last > 0 /\ Running(last)
    /\ Fails
    /\ Launch(att[last].stage, att[last].run)

NextStage ==
    /\ Served /\ last > 0 /\ att[last].status = "done" /\ att[last].stage \in DOMAIN After
    /\ Works
    /\ Launch(After[att[last].stage], att[last].run)

\* The mission is reconstructed once more, from the same footage.
Rerun ==
    /\ Served /\ last > 0 /\ att[last].status = "done" /\ att[last].stage = "products"
    /\ att[last].run < scene.runs
    /\ Works
    /\ Launch("mesh", att[last].run + 1)

\* An uncaught error of the call the attempt is at.
CallRaises(i) ==
    /\ Running(i)
    /\ Fails
    /\ End(i, "raised")
    /\ UNCHANGED <<store, disk>> /\ Keep(i)

\* The attempt completes, and its answer does not reach the server.
LoseAnswer ==
    /\ Served /\ last > 0 /\ att[last].status = "done"
    /\ Fails
    /\ att' = [att EXCEPT ![last].status = "lost"]
    /\ UNCHANGED <<scene, store, disk, last, rows>>

Crash(m) ==
    /\ Busy(m) # {}
    /\ Fails
    /\ att' = [i \in Attempts |->
                  IF i \in Busy(m) THEN [att[i] EXCEPT !.status = "lost", !.out = Empty]
                  ELSE att[i]]
    /\ \/ UNCHANGED disk
       \/ disk' = [disk EXCEPT ![m] = Empty]
    /\ UNCHANGED <<scene, store, last, rows>>

Server == FirstAttempt \/ Retry \/ NextStage \/ Rerun \/ DirectStage

Environment ==
    \/ TimeOut \/ LoseAnswer
    \/ \E i \in Attempts : CallRaises(i)
    \/ \E m \in Machines : Crash(m)

-------------------------------------------------------------------------------

\* No two attempts ever worked at the same time; no two on one machine.
Alone == \A i \in Attempts : att[i].rivals = {}
NoSharedMachine == \A i \in Attempts : \A j \in att[i].rivals : att[j].on # att[i].on

\* No attempt took an error for an answer.
Sighted == \A i \in Attempts : ~att[i].blind

Done(i, stage) == att[i].status = "done" /\ att[i].stage = stage

=============================================================================
