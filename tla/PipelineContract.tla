---------------------------- MODULE PipelineContract ----------------------------
(***************************************************************************)
(* What a reconstruction run promises: its stages are completed one by     *)
(* one, each of them once and only after the stages it needs; a run is     *)
(* completed when all of them are, and it fails at a stage that was due.   *)
(***************************************************************************)
CONSTANTS
    StageNames,
    DepsOf       \* the stages each stage needs

VARIABLES
    done,        \* the stages that have a result
    outcome      \* "open", "completed" or "failed"

contractVars == <<done, outcome>>

Init == done = {} /\ outcome = "open"

Due(s) == s \in StageNames \ done /\ DepsOf[s] \subseteq done

CompleteStage ==
    /\ outcome = "open"
    /\ \E s \in StageNames : Due(s) /\ done' = done \cup {s}
    /\ UNCHANGED outcome

Complete ==
    /\ outcome = "open" /\ done = StageNames
    /\ outcome' = "completed"
    /\ UNCHANGED done

Fail ==
    /\ outcome = "open"
    /\ \E s \in StageNames : Due(s)
    /\ outcome' = "failed"
    /\ UNCHANGED done

Next == CompleteStage \/ Complete \/ Fail

Spec == Init /\ [][Next]_contractVars
===============================================================================
