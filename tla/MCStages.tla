------------------------------- MODULE MCStages -------------------------------
EXTENDS CVStages, TLC

\* What no stage looks at unless the scene is its own.
Plain == [stage |-> "", budget |-> 2, runs |-> 1, frames |-> 0, video |-> <<>>, sam |-> {}, thin |-> {},
          gsplat |-> {}, total |-> 0, ample |-> TRUE, fit |-> "", stored |-> Empty]

Shot(p, v) == [path |-> p, verdict |-> v]

\* A frame of every verdict in one shard; and two shards, whose frames share their paths.
MCVideos == {
    <<Shot(0, "chosen"), Shot(1, "passed"), Shot(2, "chosen")>>,
    <<Shot(0, "poor"), Shot(1, "duplicate"), Shot(2, "chosen"), Shot(3, "passed")>>,
    <<Shot(0, "chosen"), Shot(1, "poor"), Shot(2, "chosen"), Shot(0, "passed"), Shot(1, "chosen")>>}

MCCuration == {[Plain EXCEPT !.stage = "curation", !.video = v,
                             !.budget = IF Len(v) = 3 THEN 2 ELSE 1] : v \in MCVideos}

MCMasking == {[Plain EXCEPT !.stage = "masking", !.frames = 2, !.sam = s] :
                  s \in {{1}, {2}}}

\* Images 1 to n and keyframes 0 to n - 1: the last image has none.
Images(n, thin) ==
    [Plain EXCEPT !.stage = "depth", !.frames = n, !.thin = thin,
                  !.stored = [k \in {<<"keyframe", j>> : j \in 0 .. n - 1} |-> k[2] + 1]]

MCDepth == {[Images(4, {1}) EXCEPT !.budget = 1], Images(3, {})}

MCPose == {[Plain EXCEPT !.stage = "sfm", !.fit = "good"],
           [Plain EXCEPT !.stage = "sfm", !.fit = "hopeless", !.budget = 1]}

\* No earlier training; one that was cut short, or had more steps than this.  Of 5 steps
\* the last one is a checkpoint, of 6 it is not.
Training(old) ==
    [Plain EXCEPT !.stage = "train", !.total = IF old = 2 THEN 6 ELSE 5,
                  !.gsplat = {1}, !.budget = IF old = 2 THEN 1 ELSE 2,
                  !.stored = IF old = 0 THEN Empty
                             ELSE <<"latest", 0>> :> old @@ <<"step", old>> :> old]

MCTrain == {Training(old) : old \in {0, 2, 6}}

MCMission == {[Plain EXCEPT !.stage = "mesh", !.budget = 1, !.ample = a,
                            !.stored = (<<"scene", 0>> :> 0 @@ <<"centers", 1>> :> 0)] :
                  a \in BOOLEAN}

MCRerun == {[s EXCEPT !.budget = 0, !.runs = 2] : s \in MCMission}

\* All stages on one host, which has everything installed.
MCDirect == {[Plain EXCEPT !.stage = "direct", !.budget = 1,
                           !.video = <<Shot(0, "chosen"), Shot(1, "passed"), Shot(2, "chosen")>>,
                           !.fit = "good", !.frames = 2, !.sam = {1}, !.gsplat = {1},
                           !.total = 2]}

MCScenes == MCCuration \cup MCMasking \cup MCDepth \cup MCPose \cup MCTrain
                \cup MCMission \cup MCRerun \cup MCDirect

===============================================================================
