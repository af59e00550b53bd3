---------------------------- MODULE Ingest_proofs ----------------------------
(***************************************************************************)
(* Proofs about Ingest, for any number of segments, contents, requests,    *)
(* missions and faults.  Type correctness holds in every environment; the  *)
(* invariants and the refinement hold wherever every segment has one       *)
(* recording (OneRecording), however many streams of a segment overlap and *)
(* whatever bytes they deliver; ingest_conflict shows why they need that.  *)
(***************************************************************************)
EXTENDS Ingest, TLAPS

\* A counted fault stays within the bound.
LEMMA FaultCounted ==
    ASSUME StoreTypeOK, Fault \/ UNCHANGED faults
    PROVE  faults' \in 0 .. MaxFaults
BY ConstantsOK DEF ConstantsOK, StoreTypeOK, Fault

-------------------------------------------------------------------------------
(* Types: the bytes of every stream (OwnBytes) keep short bodies out of the *)
(* store, whatever the environment does.                                    *)

\* Every step of an upload preserves the types and what its stream carries.
LEMMA TypedUpload ==
    ASSUME StoreTypeOK, OwnBytes, NEW w \in Uploads, UploadStep(w)
    PROVE  StoreTypeOK' /\ OwnBytes'
<1> USE ConstantsOK DEF ConstantsOK, StoreTypeOK, OwnBytes, Streams, Steps, objects,
                        Goto, Ended
<1>0. faults' \in 0 .. MaxFaults
  BY FaultCounted
     DEF UploadStep, Handler, OpenStream, ReceiveForm, AnswerDuplicate, AcceptBody,
         BodyReceived, BodyTruncated, Stage, RejectHash, CommitCopy, CopySourceGone,
         WriteMarker, Finish, MarkerUnreadable, CallFails
<1>1. CASE OpenStream(w)
  BY <1>0, <1>1 DEF OpenStream, Sent
<1>2. CASE ReceiveForm(w)
  BY <1>0, <1>2 DEF ReceiveForm
<1>3. CASE AnswerDuplicate(w)
  BY <1>0, <1>3 DEF AnswerDuplicate
<1>4. CASE AcceptBody(w) \/ MarkerUnreadable(w) \/ BodyReceived(w)
  BY <1>0, <1>4 DEF AcceptBody, MarkerUnreadable, BodyReceived
<1>5. CASE BodyTruncated(w) \/ CopySourceGone(w)
  BY <1>0, <1>5 DEF BodyTruncated, CopySourceGone
<1>6. CASE Stage(w)
  BY <1>0, <1>6 DEF Stage, PutTemp
<1>7. CASE RejectHash(w)
  BY <1>0, <1>7 DEF RejectHash, DropAltered, DropTemp
<1>8. CASE CommitCopy(w)
  BY <1>0, <1>8 DEF CommitCopy, CopyTemp
<1>9. CASE WriteMarker(w)
  BY <1>0, <1>9 DEF WriteMarker, PutMarker
<1>10. CASE Finish(w)
  BY <1>0, <1>10 DEF Finish, DropTemp
<1>11. CASE CallFails(w)
  <2>1. /\ pc' = [pc EXCEPT ![w] = Ended(w)]
        /\ body' = [body EXCEPT ![w] = Sha[w]]
        /\ acked' = acked
    BY <1>11 DEF CallFails
  <2>2. OwnBytes'
    BY <2>1
  <2>3. /\ temp' \in [Segments -> Contents \cup {Absent}]
        /\ final' \in [Segments -> Contents \cup {Absent}]
        /\ marker' \in [Segments -> Contents \cup {Absent}]
        /\ replaced' \subseteq Segments /\ dropped' \subseteq Segments
    BY <1>11 DEF CallFails, PutTemp, CopyTemp, PutMarker
  <2> QED BY <1>0, <2>1, <2>2, <2>3
<1> QED BY <1>1, <1>2, <1>3, <1>4, <1>5, <1>6, <1>7, <1>8, <1>9, <1>10, <1>11
        DEF UploadStep, Handler

\* So does a crash, after which no stream is open.
LEMMA TypedCrash ==
    ASSUME StoreTypeOK, OwnBytes, StoreCrash
    PROVE  StoreTypeOK' /\ OwnBytes'
<1>1. faults' \in 0 .. MaxFaults
  BY FaultCounted DEF StoreCrash
<1> QED BY <1>1, ConstantsOK
        DEF ConstantsOK, StoreTypeOK, OwnBytes, StoreCrash, Steps, objects, Ended

\* A step of ingest-svc outside the store takes at most a fault from it, and the
\* last two steps of a web upload.
LEMMA TypedRest ==
    ASSUME StoreTypeOK, OwnBytes, Fault \/ UNCHANGED faults,
           UNCHANGED <<objects, body, acked>>,
           \/ UNCHANGED pc
           \/ \E u \in HttpUploads, step \in {"recorded", "closed"} : Goto(u, step)
    PROVE  StoreTypeOK' /\ OwnBytes'
<1>1. faults' \in 0 .. MaxFaults
  BY FaultCounted
<1> QED BY <1>1, ConstantsOK
        DEF ConstantsOK, StoreTypeOK, OwnBytes, Steps, objects, Goto

LEMMA StoreInitTyped == StoreInit => StoreTypeOK /\ OwnBytes
BY ConstantsOK DEF ConstantsOK, StoreInit, StoreTypeOK, OwnBytes, Steps, Streams

\* What LaunchReconstruction does is well typed.
LEMMA TypedLaunch ==
    ASSUME TypeOK, NEW m \in Missions, NEW S \in SUBSET Segments,
           LaunchReconstruction(m, S)
    PROVE  /\ exec' \in [Missions -> {"none", "running", "closed"}]
           /\ started' \subseteq Segments
           /\ runIds' \in Nat
BY DEF TypeOK, LaunchReconstruction

\* The mission of a FinalizeIngest request is a mission.
LEMMA RequestedMission ==
    ASSUME NEW f \in Finalizes
    PROVE  Requested(f) \in Missions /\ Wants[f] \in SUBSET Segments
BY IngestConstantsOK DEF IngestConstantsOK, Requested

\* Every step of the service preserves the types.
LEMMA TypedStep ==
    ASSUME TypeOK, OwnBytes, [Next]_vars
    PROVE  TypeOK' /\ OwnBytes'
<1> USE DEF vars, storeVars, ingestVars, temporal
<1>0. StoreTypeOK
  BY DEF TypeOK
<1>1. ASSUME NEW u \in Uploads, UploadStep(u), UNCHANGED ingestVars
      PROVE  TypeOK' /\ OwnBytes'
  BY <1>0, <1>1, TypedUpload DEF TypeOK
<1>2. ASSUME NEW u \in HttpUploads, RecordMission(u)
      PROVE  TypeOK' /\ OwnBytes'
  <2>1. StoreTypeOK' /\ OwnBytes'
    BY <1>0, <1>2, TypedRest DEF RecordMission
  <2>2. MissionOf[Seg[u]] \in Missions
    BY ConstantsOK, IngestConstantsOK DEF ConstantsOK, IngestConstantsOK
  <2> QED BY <1>2, <2>1, <2>2 DEF TypeOK, RecordMission
<1>3. ASSUME NEW u \in HttpUploads, LaunchUploaded(u)
      PROVE  TypeOK' /\ OwnBytes'
  <2>1. StoreTypeOK' /\ OwnBytes'
    BY <1>0, <1>3, TypedRest DEF LaunchUploaded
  <2>2. MissionOf[Seg[u]] \in Missions /\ {Seg[u]} \in SUBSET Segments
    BY ConstantsOK, IngestConstantsOK DEF ConstantsOK, IngestConstantsOK
  <2>3. /\ exec' \in [Missions -> {"none", "running", "closed"}]
        /\ started' \subseteq Segments
        /\ runIds' \in Nat
    BY <1>3, <2>2, TypedLaunch DEF LaunchUploaded, TypeOK
  <2> QED BY <1>3, <2>1, <2>3 DEF TypeOK, LaunchUploaded
<1>4. ASSUME NEW f \in Finalizes, BeginFinalize(f) \/ CheckSegment(f) \/ AllChecked(f)
      PROVE  TypeOK' /\ OwnBytes'
  <2>1. StoreTypeOK' /\ OwnBytes'
    BY <1>0, <1>4, TypedRest DEF BeginFinalize, CheckSegment, AllChecked, objects
  <2> QED BY <1>4, <2>1, RequestedMission
          DEF TypeOK, BeginFinalize, CheckSegment, AllChecked, FGoto
<1>5. ASSUME NEW f \in Finalizes, LaunchFinalized(f)
      PROVE  TypeOK' /\ OwnBytes'
  <2>1. StoreTypeOK' /\ OwnBytes'
    BY <1>0, <1>5, TypedRest DEF LaunchFinalized, objects
  <2>2. /\ exec' \in [Missions -> {"none", "running", "closed"}]
        /\ started' \subseteq Segments
        /\ runIds' \in Nat
    BY <1>5, RequestedMission, TypedLaunch DEF LaunchFinalized
  <2> QED BY <1>5, <2>1, <2>2 DEF TypeOK, LaunchFinalized, FGoto
<1>6. ASSUME NEW f \in Finalizes, FinalizeFails(f)
      PROVE  TypeOK' /\ OwnBytes'
  <2>1. StoreTypeOK' /\ OwnBytes'
    BY <1>0, <1>6, TypedRest DEF FinalizeFails
  <2>2. /\ exec' \in [Missions -> {"none", "running", "closed"}]
        /\ started' \subseteq Segments
        /\ runIds' \in Nat
    BY <1>6, RequestedMission, TypedLaunch DEF FinalizeFails, TypeOK
  <2> QED BY <1>6, <2>1, <2>2 DEF TypeOK, FinalizeFails, FGoto
<1>7. ASSUME NEW m \in Missions, ExecutionEnds(m)
      PROVE  TypeOK' /\ OwnBytes'
  <2>1. StoreTypeOK' /\ OwnBytes'
    BY <1>0, <1>7, TypedRest DEF ExecutionEnds, objects
  <2> QED BY <1>7, <2>1 DEF TypeOK, ExecutionEnds
<1>8. CASE Crash
  BY <1>0, <1>8, TypedCrash DEF Crash, TypeOK
<1>9. CASE UNCHANGED vars
  BY <1>0, <1>9, TypedRest DEF TypeOK, objects
<1> QED BY <1>1, <1>2, <1>3, <1>4, <1>5, <1>6, <1>7, <1>8, <1>9 DEF Next, FinalizeStep

\* Type correctness, in every environment: above all, a body shorter than its header
\* declares is never staged (upload.go:157-161).
THEOREM IngestTypeCorrect == Spec => []TypeOK
<1>1. Init => TypeOK /\ OwnBytes
  BY StoreInitTyped DEF Init, TypeOK
<1>2. TypeOK /\ OwnBytes /\ [Next]_vars => TypeOK' /\ OwnBytes'
  BY TypedStep
<1> QED BY <1>1, <1>2, PTL DEF Spec

-------------------------------------------------------------------------------
(* The store invariant, where every segment has one recording.             *)

\* A handler moves before it stages or when it gives up: the objects stay, and
\* nothing is claimed of where it goes.
LEMMA QuietInv ==
    ASSUME StoreInv, (StoreTypeOK /\ OwnBytes)', UNCHANGED objects,
           NEW w \in Uploads,
           NEW step \in {"idle", "check", "receive", "stage", "stored", "recorded", "closed"},
           Goto(w, step),
           \A u \in Uploads \ {w} : body'[u] = body[u]
    PROVE  StoreInv'
<1> USE DEF StoreInv, StoreTypeOK, objects, Goto
<1>1. DeclaredOnly' /\ CommittedContent'
  BY DEF DeclaredOnly, CommittedContent
<1>2. \A u \in Uploads :
          pc'[u] \in {"staged", "copied", "marked"} => u # w /\ pc'[u] = pc[u]
  OBVIOUS
<1>3. VerifiedBytes' /\ StepsDone' /\ StagedOrCommitted'
  BY <1>2 DEF VerifiedBytes, StepsDone, StagedOrCommitted, Committed
<1> QED BY <1>1, <1>3

\* The steps of an upload that leave the objects alone.
LEMMA QuietUpload ==
    ASSUME StoreInv, (StoreTypeOK /\ OwnBytes)', NEW w \in Uploads,
           \/ OpenStream(w) \/ ReceiveForm(w) \/ AnswerDuplicate(w) \/ AcceptBody(w)
           \/ MarkerUnreadable(w) \/ BodyReceived(w) \/ BodyTruncated(w) \/ CopySourceGone(w)
    PROVE  StoreInv'
<1> USE DEF StoreInv, StoreTypeOK
<1>1. CASE OpenStream(w) \/ ReceiveForm(w)
  BY <1>1, QuietInv DEF OpenStream, ReceiveForm
<1>2. CASE AnswerDuplicate(w) \/ AcceptBody(w) \/ MarkerUnreadable(w)
  BY <1>2, QuietInv DEF AnswerDuplicate, AcceptBody, MarkerUnreadable
<1>3. CASE BodyReceived(w) \/ BodyTruncated(w)
  BY <1>3, QuietInv DEF BodyReceived, BodyTruncated
<1>4. CASE CopySourceGone(w)
  BY <1>4, QuietInv DEF CopySourceGone, Ended
<1> QED BY <1>1, <1>2, <1>3, <1>4

\* A put, by a handler that goes on or by one whose call fails: a handler that was
\* about to copy finds the bytes it verified, or the segment is marked as replaced.
LEMMA PutInv ==
    ASSUME OneRecording, StoreInv, (StoreTypeOK /\ OwnBytes)', NEW w \in Uploads,
           pc[w] = "stage", PutTemp(w), UNCHANGED <<final, marker, dropped>>,
           NEW step \in {"idle", "staged", "closed"}, Goto(w, step),
           UNCHANGED body \/ (step # "staged" /\ body' = [body EXCEPT ![w] = Sha[w]])
    PROVE  StoreInv'
<1> USE ConstantsOK DEF ConstantsOK, StoreInv, StoreTypeOK
<1>0. /\ pc' = [pc EXCEPT ![w] = step]
      /\ \A u \in Uploads \ {w} : pc'[u] = pc[u] /\ body'[u] = body[u]
      /\ temp' = [temp EXCEPT ![Seg[w]] = body[w]]
      /\ replaced \subseteq replaced'
  BY DEF Goto, PutTemp
<1>1. DeclaredOnly' /\ CommittedContent'
  BY <1>0 DEF DeclaredOnly, CommittedContent
<1>2. StepsDone'
  BY <1>0 DEF StepsDone
<1>3. body[w] # Short /\ body[w] # Absent
  BY DEF OwnBytes
<1>4. ASSUME NEW v \in Uploads, pc'[v] = "staged", body'[v] = Sha[v], Seg[v] \notin replaced'
      PROVE  temp'[Seg[v]] \in {Absent, Sha[v]}
  <2>1. CASE v = w
    BY <1>0, <1>4, <2>1
  <2>2. CASE v # w /\ Seg[v] # Seg[w]
    BY <1>0, <1>4, <2>2 DEF VerifiedBytes
  <2>3. CASE v # w /\ Seg[v] = Seg[w]
    <3>1. pc[v] = "staged" /\ body[v] = Sha[v]
      BY <1>0, <1>4, <2>3
    <3>2. OtherAboutToCopy(w)
      BY <2>3, <3>1 DEF OtherAboutToCopy
    <3>3. body[w] = Sha[w]
      BY <1>4, <2>3, <3>2 DEF PutTemp
    <3> QED BY <1>0, <2>3, <3>3 DEF OneRecording
  <2> QED BY <2>1, <2>2, <2>3
<1>5. VerifiedBytes'
  BY <1>4 DEF VerifiedBytes
<1>6. StagedOrCommitted'
  BY <1>0, <1>3 DEF StagedOrCommitted, Committed
<1> QED BY <1>1, <1>2, <1>5, <1>6

\* Altered bytes are dropped: a handler that was about to copy finds nothing, and the
\* segment is marked as dropped.
LEMMA RejectHashInv ==
    ASSUME OneRecording, StoreInv, (StoreTypeOK /\ OwnBytes)', NEW w \in Uploads, RejectHash(w)
    PROVE  StoreInv'
<1> USE ConstantsOK DEF ConstantsOK, StoreInv, StoreTypeOK
<1>0. /\ pc' = [pc EXCEPT ![w] = Ended(w)] /\ Ended(w) \in {"idle", "closed"}
      /\ \A u \in Uploads \ {w} : pc'[u] = pc[u] /\ body'[u] = body[u]
      /\ UNCHANGED <<final, marker, replaced>>
      /\ temp' = temp \/ temp' = [temp EXCEPT ![Seg[w]] = Absent]
      /\ dropped \subseteq dropped'
  BY DEF RejectHash, DropAltered, DropTemp, Goto, Ended
<1>1. DeclaredOnly' /\ CommittedContent'
  BY <1>0 DEF DeclaredOnly, CommittedContent
<1>2. VerifiedBytes' /\ StepsDone'
  BY <1>0 DEF VerifiedBytes, StepsDone
<1>3. ASSUME NEW v \in Uploads, pc'[v] = "staged", body'[v] = Sha[v],
             temp'[Seg[v]] = Absent, Seg[v] \notin dropped'
      PROVE  Committed(v)
  <2>1. v # w /\ pc[v] = "staged" /\ body[v] = Sha[v]
    BY <1>0, <1>3
  <2>2. temp[Seg[v]] = Absent
    <3>1. CASE temp' = temp
      BY <1>3, <3>1
    <3>2. CASE DropAltered(w)
      <4>1. Seg[v] # Seg[w]
        BY <1>3, <2>1, <3>2 DEF DropAltered, OtherAboutToCopy
      <4> QED BY <1>3, <3>2, <4>1 DEF DropAltered, DropTemp
    <3> QED BY <3>1, <3>2 DEF RejectHash
  <2> QED BY <1>0, <1>3, <2>1, <2>2 DEF StagedOrCommitted
<1>4. StagedOrCommitted'
  BY <1>0, <1>3 DEF StagedOrCommitted, Committed
<1> QED BY <1>1, <1>2, <1>4

\* The copy, by a handler that goes on or by one whose call fails, writes the
\* declared content over nothing or over itself.
LEMMA CopyInv ==
    ASSUME OneRecording, StoreInv, (StoreTypeOK /\ OwnBytes)', NEW w \in Uploads,
           pc[w] = "staged", body[w] = Sha[w], temp[Seg[w]] # Absent, CopyTemp(w),
           UNCHANGED <<temp, marker, replaced, dropped>>,
           NEW step \in {"idle", "copied", "closed"}, Goto(w, step), UNCHANGED body
    PROVE  StoreInv'
<1> USE ConstantsOK DEF ConstantsOK, StoreInv, StoreTypeOK, Goto
<1>1. final' = [final EXCEPT ![Seg[w]] = temp[Seg[w]]]
  BY DEF CopyTemp
<1>2. Seg[w] \notin replaced => temp[Seg[w]] = Sha[w]
  BY DEF VerifiedBytes
<1>3. DeclaredOnly'
  BY <1>1, <1>2 DEF DeclaredOnly, OneRecording
<1>4. CommittedContent'
  BY <1>1, <1>2 DEF CommittedContent, DeclaredOnly
<1>5. StepsDone'
  BY <1>1, <1>2 DEF StepsDone, OneRecording
<1>6. VerifiedBytes' /\ StagedOrCommitted'
  BY DEF VerifiedBytes, StagedOrCommitted, Committed
<1> QED BY <1>3, <1>4, <1>5, <1>6

\* The marker follows the content it vouches for.
LEMMA MarkInv ==
    ASSUME OneRecording, StoreInv, (StoreTypeOK /\ OwnBytes)', NEW w \in Uploads,
           pc[w] = "copied", PutMarker(w), UNCHANGED <<temp, final, replaced, dropped>>,
           NEW step \in {"idle", "marked", "closed"}, Goto(w, step), UNCHANGED body
    PROVE  StoreInv'
<1> USE ConstantsOK DEF ConstantsOK, StoreInv, StoreTypeOK, Goto, PutMarker
<1>1. DeclaredOnly'
  BY DEF DeclaredOnly, OneRecording
<1>2. CommittedContent'
  BY DEF CommittedContent, StepsDone
<1>3. StepsDone'
  BY DEF StepsDone, OneRecording
<1>4. VerifiedBytes' /\ StagedOrCommitted'
  BY DEF VerifiedBytes, StagedOrCommitted, Committed, OneRecording
<1> QED BY <1>1, <1>2, <1>3, <1>4

\* A handler that loses its staged object to this removal finds a marker that says
\* what it would have written.
LEMMA FinishInv ==
    ASSUME OneRecording, StoreInv, (StoreTypeOK /\ OwnBytes)', NEW w \in Uploads, Finish(w)
    PROVE  StoreInv'
<1> USE ConstantsOK DEF ConstantsOK, StoreInv, StoreTypeOK, Goto, Finish, DropTemp
<1>1. DeclaredOnly' /\ CommittedContent'
  BY DEF DeclaredOnly, CommittedContent
<1>2. VerifiedBytes' /\ StepsDone'
  BY DEF VerifiedBytes, StepsDone
<1>3. StagedOrCommitted'
  BY DEF StagedOrCommitted, StepsDone, Committed, OneRecording
<1> QED BY <1>1, <1>2, <1>3

\* A call that fails leaves the objects alone or does what the call that succeeds
\* does to them; the handler is gone either way.
LEMMA CallFailsInv ==
    ASSUME OneRecording, StoreInv, (StoreTypeOK /\ OwnBytes)', NEW w \in Uploads, CallFails(w)
    PROVE  StoreInv'
<1> USE DEF CallFails
<1>0. /\ Ended(w) \in {"idle", "closed"} /\ Goto(w, Ended(w))
      /\ body' = [body EXCEPT ![w] = Sha[w]]
  BY DEF Ended
<1>1. CASE UNCHANGED objects
  BY <1>0, <1>1, QuietInv DEF StoreInv, StoreTypeOK
<1>2. CASE pc[w] = "stage" /\ PutTemp(w) /\ UNCHANGED <<final, marker, dropped>>
  BY <1>0, <1>2, PutInv
<1>3. CASE /\ pc[w] = "staged" /\ body[w] = Sha[w] /\ temp[Seg[w]] # Absent
           /\ CopyTemp(w) /\ UNCHANGED <<temp, marker, replaced, dropped>>
  <2>1. body' = body
    BY <1>0, <1>3 DEF StoreInv, StoreTypeOK
  <2> QED BY <1>0, <1>3, <2>1, CopyInv
<1>4. CASE pc[w] = "copied" /\ PutMarker(w) /\ UNCHANGED <<temp, final, replaced, dropped>>
  <2>1. body' = body
    BY <1>0, <1>4 DEF StoreInv, StoreTypeOK, OwnBytes
  <2> QED BY <1>0, <1>4, <2>1, MarkInv
<1> QED BY <1>1, <1>2, <1>3, <1>4

LEMMA StoreInitInv == StoreInit => StoreInv
<1> SUFFICES ASSUME StoreInit PROVE StoreInv
  OBVIOUS
<1> USE ConstantsOK DEF ConstantsOK, StoreInit
<1>1. StoreTypeOK /\ OwnBytes
  BY StoreInitTyped
<1>2. DeclaredOnly /\ VerifiedBytes
  BY DEF DeclaredOnly, VerifiedBytes
<1>3. StepsDone /\ CommittedContent /\ StagedOrCommitted
  BY DEF StepsDone, CommittedContent, StagedOrCommitted
<1> QED BY <1>1, <1>2, <1>3 DEF StoreInv

\* The store invariant survives every step of an upload...
LEMMA UploadStepInv ==
    ASSUME OneRecording, StoreInv, NEW w \in Uploads, UploadStep(w)
    PROVE  StoreInv'
<1>1. (StoreTypeOK /\ OwnBytes)'
  BY TypedUpload DEF StoreInv
<1>2. CASE Stage(w)
  <2>1. UNCHANGED <<final, marker, dropped, body>> /\ pc[w] = "stage" /\ PutTemp(w)
    BY <1>2 DEF Stage
  <2>2. Goto(w, "staged")
    BY <1>2 DEF Stage
  <2> QED BY <1>1, <2>1, <2>2, PutInv
<1>3. CASE CommitCopy(w)
  BY <1>1, <1>3, CopyInv DEF CommitCopy
<1>4. CASE WriteMarker(w)
  BY <1>1, <1>4, MarkInv DEF WriteMarker
<1> QED BY <1>1, <1>2, <1>3, <1>4, QuietUpload, RejectHashInv, FinishInv, CallFailsInv
        DEF UploadStep, Handler

\* ... a crash, after which the objects are what they were ...
LEMMA StoreCrashInv ==
    ASSUME StoreInv, StoreCrash
    PROVE  StoreInv'
<1> USE DEF StoreInv, StoreTypeOK
<1>1. (StoreTypeOK /\ OwnBytes)'
  BY TypedCrash
<1>2. UNCHANGED objects /\ pc' \in [Uploads -> {"idle", "closed"}]
  BY DEF StoreCrash, Ended
<1>3. DeclaredOnly' /\ CommittedContent'
  BY <1>2 DEF DeclaredOnly, CommittedContent, objects
<1>4. VerifiedBytes' /\ StepsDone' /\ StagedOrCommitted'
  BY <1>2 DEF VerifiedBytes, StepsDone, StagedOrCommitted
<1> QED BY <1>1, <1>3, <1>4

\* ... and whatever happens outside the store.
LEMMA RestInv ==
    ASSUME StoreInv, Fault \/ UNCHANGED faults, UNCHANGED <<objects, pc, body, acked>>
    PROVE  StoreInv'
<1>1. (StoreTypeOK /\ OwnBytes)'
  BY TypedRest DEF StoreInv
<1> QED BY <1>1
        DEF StoreInv, DeclaredOnly, VerifiedBytes, StepsDone, CommittedContent,
            StagedOrCommitted, Committed, objects

LEMMA WebStepInv ==
    ASSUME StoreInv, NEW w \in HttpUploads, RecordMission(w) \/ LaunchUploaded(w)
    PROVE  StoreInv'
<1>1. /\ UNCHANGED <<objects, body, acked>>
      /\ \E step \in {"recorded", "closed"} : Goto(w, step)
      /\ pc[w] \in {"stored", "recorded"}
      /\ Fault \/ UNCHANGED faults
  BY DEF RecordMission, LaunchUploaded
<1>2. (StoreTypeOK /\ OwnBytes)'
  BY <1>1, TypedRest DEF StoreInv
<1> QED BY <1>1, <1>2, QuietInv, ConstantsOK DEF ConstantsOK

-------------------------------------------------------------------------------
(* From the store to the service.                                           *)

\* A marker may be written again but is never removed: what was committed stays
\* committed.
LEMMA MarkersStay ==
    ASSUME TypeOK, [Next]_vars, NEW s \in Segments, IsSegmentCommitted(s)
    PROVE  IsSegmentCommitted(s)'
<1> USE ConstantsOK DEF ConstantsOK, IsSegmentCommitted, TypeOK, StoreTypeOK, objects
<1>1. ASSUME NEW w \in Uploads, UploadStep(w)
      PROVE  UNCHANGED marker \/ PutMarker(w)
  BY <1>1 DEF UploadStep, Handler, OpenStream, ReceiveForm, AnswerDuplicate, AcceptBody,
              MarkerUnreadable, BodyReceived, BodyTruncated, Stage, RejectHash,
              CommitCopy, CopySourceGone, WriteMarker, Finish, CallFails
<1>2. UNCHANGED marker \/ \E w \in Uploads : PutMarker(w)
  BY <1>1 DEF Next, RecordMission, LaunchUploaded, FinalizeStep, BeginFinalize,
              CheckSegment, AllChecked, LaunchFinalized, FinalizeFails, ExecutionEnds,
              Crash, StoreCrash, vars, storeVars
<1> QED BY <1>2 DEF PutMarker

\* The store invariant survives every step of the service.
LEMMA StoreInvStep ==
    ASSUME OneRecording, TypeOK, StoreInv, [Next]_vars
    PROVE  StoreInv'
<1>1. ASSUME NEW f \in Finalizes, FinalizeStep(f) \/ FinalizeFails(f)
      PROVE  StoreInv'
  BY <1>1, RestInv DEF FinalizeStep, BeginFinalize, CheckSegment, AllChecked,
                       LaunchFinalized, FinalizeFails, storeVars, objects
<1>2. ASSUME NEW m \in Missions, ExecutionEnds(m)
      PROVE  StoreInv'
  BY <1>2, RestInv DEF ExecutionEnds, storeVars, objects
<1>3. CASE UNCHANGED vars
  BY <1>3, RestInv DEF vars, storeVars, objects
<1> QED BY <1>1, <1>2, <1>3, UploadStepInv, WebStepInv, StoreCrashInv DEF Next, Crash

\* A launch starts an execution on the segments it is given, or on none.
LEMMA LaunchStarts ==
    ASSUME NEW m, NEW S, LaunchReconstruction(m, S)
    PROVE  started' = started \/ started' = started \cup S
BY DEF LaunchReconstruction

\* What was checked before a launch is still committed at the launch and after it.
LEMMA CheckedStep ==
    ASSUME IngestInv, [Next]_vars
    PROVE  CheckedInputs'
<1> DEFINE Kept == \A s \in Segments : IsSegmentCommitted(s) => IsSegmentCommitted(s)'
           FinalizesChecked ==
               \A f \in Finalizes :
                   /\ fpc[f] = "check" => \A s \in Wants[f] \ left[f] : IsSegmentCommitted(s)
                   /\ fpc[f] = "launch" => \A s \in Wants[f] : IsSegmentCommitted(s)
           UploadsChecked ==
               \A u \in HttpUploads :
                   pc[u] \in {"stored", "recorded"} => IsSegmentCommitted(Seg[u])
           StartedChecked == \A s \in started : IsSegmentCommitted(s)
<1>0. Kept
  BY MarkersStay DEF IngestInv
<1>t. TypeOK /\ StoreTypeOK /\ started \subseteq Segments
  BY DEF IngestInv, TypeOK
<1>c. FinalizesChecked /\ UploadsChecked /\ StartedChecked
  BY DEF IngestInv, CheckedInputs
<1>w. /\ \A f \in Finalizes : Wants[f] \subseteq Segments
      /\ \A u \in HttpUploads : u \in Uploads /\ Seg[u] \in Segments
  BY ConstantsOK, IngestConstantsOK DEF ConstantsOK, IngestConstantsOK
<1> HIDE DEF Kept
<1>1. ASSUME NEW w \in Uploads, UploadStep(w), UNCHANGED ingestVars
      PROVE  CheckedInputs'
  <2>1. FinalizesChecked' /\ StartedChecked'
    BY <1>0, <1>1, <1>c, <1>t, <1>w DEF Kept, ingestVars, temporal
  <2>2. ASSUME NEW u \in HttpUploads, pc'[u] \in {"stored", "recorded"}
        PROVE  IsSegmentCommitted(Seg[u])
    <3>1. CASE pc[u] \in {"stored", "recorded"}
      BY <3>1, <1>c
    <3>2. CASE pc[u] \notin {"stored", "recorded"}
      <4>1. pc[u] = "marked"
        BY <1>1, <1>t, <1>w, <2>2, <3>2
           DEF UploadStep, Handler, OpenStream, ReceiveForm, AnswerDuplicate, AcceptBody,
               MarkerUnreadable, BodyReceived, BodyTruncated, Stage, RejectHash, CommitCopy,
               CopySourceGone, WriteMarker, Finish, CallFails, Goto, Ended, StoreTypeOK
      <4> QED BY <4>1, <1>w, ConstantsOK
              DEF ConstantsOK, IngestInv, StoreInv, StepsDone, IsSegmentCommitted
    <3> QED BY <3>1, <3>2
  <2>3. UploadsChecked'
    BY <2>2, <1>0, <1>w DEF Kept
  <2> QED BY <2>1, <2>3 DEF CheckedInputs
<1>2. ASSUME NEW w \in HttpUploads, RecordMission(w) \/ LaunchUploaded(w)
      PROVE  CheckedInputs'
  <2>1. /\ UNCHANGED <<marker, fpc, left>>
        /\ pc[w] \in {"stored", "recorded"}
        /\ \E step \in {"recorded", "closed"} : pc' = [pc EXCEPT ![w] = step]
        /\ started' = started \/ started' = started \cup {Seg[w]}
    BY <1>2, LaunchStarts DEF RecordMission, LaunchUploaded, Goto, objects, temporal
  <2> QED BY <2>1, <1>c, <1>t, <1>w DEF CheckedInputs, IsSegmentCommitted, StoreTypeOK
<1>3. ASSUME NEW f \in Finalizes, BeginFinalize(f) \/ CheckSegment(f) \/ AllChecked(f)
      PROVE  CheckedInputs'
  <2>1. UNCHANGED <<marker, pc, started>>
    BY <1>3 DEF BeginFinalize, CheckSegment, AllChecked, storeVars, objects, temporal
  <2>2. FinalizesChecked'
    BY <1>3, <1>c, <1>t
       DEF BeginFinalize, CheckSegment, AllChecked, FGoto, IsSegmentCommitted, storeVars, objects, TypeOK
  <2> QED BY <2>1, <2>2, <1>c DEF CheckedInputs, IsSegmentCommitted
<1>4. ASSUME NEW f \in Finalizes, LaunchFinalized(f) \/ FinalizeFails(f)
      PROVE  CheckedInputs'
  <2>1. /\ UNCHANGED <<marker, pc>>
        /\ fpc' = [fpc EXCEPT ![f] = "idle"]
        /\ left' = left \/ left' = [left EXCEPT ![f] = {}]
    BY <1>4 DEF LaunchFinalized, FinalizeFails, FGoto, storeVars, objects
  <2>2. \/ started' = started
        \/ fpc[f] = "launch" /\ started' = started \cup Wants[f]
    BY <1>4, LaunchStarts DEF LaunchFinalized, FinalizeFails, temporal
  <2>3. FinalizesChecked'
    BY <2>1, <1>c, <1>t DEF IsSegmentCommitted, TypeOK
  <2>4. UploadsChecked' /\ StartedChecked'
    BY <2>1, <2>2, <1>c DEF IsSegmentCommitted
  <2> QED BY <2>3, <2>4 DEF CheckedInputs
<1>5. ASSUME NEW m \in Missions, ExecutionEnds(m)
      PROVE  CheckedInputs'
  BY <1>5, <1>c DEF CheckedInputs, ExecutionEnds, IsSegmentCommitted, storeVars, objects
<1>6. CASE Crash
  BY <1>6, <1>c, <1>t, <1>w
     DEF CheckedInputs, Crash, StoreCrash, Ended, IsSegmentCommitted, objects, temporal
<1>7. CASE UNCHANGED vars
  BY <1>7, <1>c DEF CheckedInputs, vars, storeVars, objects, ingestVars, temporal,
                    IsSegmentCommitted
<1> QED BY <1>1, <1>2, <1>3, <1>4, <1>5, <1>6, <1>7 DEF Next, FinalizeStep

\* The invariant of the whole service is inductive.
LEMMA IngestInvStep ==
    ASSUME OneRecording, IngestInv, [Next]_vars
    PROVE  IngestInv'
<1>1. TypeOK'
  BY TypedStep DEF IngestInv, StoreInv
<1>2. StoreInv'
  BY StoreInvStep DEF IngestInv
<1> QED BY <1>1, <1>2, CheckedStep DEF IngestInv

LEMMA IngestInvInit == Init => IngestInv
<1> SUFFICES ASSUME Init PROVE IngestInv
  OBVIOUS
<1>1. TypeOK
  BY StoreInitTyped DEF Init, TypeOK
<1>2. StoreInv
  BY StoreInitInv DEF Init
<1>3. CheckedInputs
  BY ConstantsOK DEF ConstantsOK, CheckedInputs, Init, StoreInit
<1> QED BY <1>1, <1>2, <1>3 DEF IngestInv

\* The inductive invariant holds in every reachable state, where a segment has one
\* recording.
THEOREM IngestInvariant == ASSUME OneRecording PROVE Spec => []IngestInv
<1>1. IngestInv /\ [Next]_vars => IngestInv'
  BY IngestInvStep
<1> QED BY <1>1, IngestInvInit, PTL DEF Spec

\* Whatever interleaving of uploads, failed calls and crashes: a segment with a
\* marker has the content the marker vouches for (store.go:71-72), as long as no
\* altered bytes reached its staging key between another handler's check and copy.
THEOREM CommittedContentHolds == ASSUME OneRecording PROVE Spec => []CommittedContent
<1>1. IngestInv => CommittedContent
  BY DEF IngestInv, StoreInv
<1> QED BY <1>1, IngestInvariant, PTL

\* A handler whose staged object is gone finds the segment committed under its own
\* hash: the removal cannot cost an upload (store.go:119-121, 158), as long as it was
\* not the removal of another stream's altered bytes (store.go:137).
THEOREM StagedOrCommittedHolds == ASSUME OneRecording PROVE Spec => []StagedOrCommitted
<1>1. IngestInv => StagedOrCommitted
  BY DEF IngestInv, StoreInv
<1> QED BY <1>1, IngestInvariant, PTL

\* The check of FinalizeIngest is not stale at the launch, nor later
\* (upload.go:197-207).
THEOREM LaunchedInputsCommittedHolds ==
    ASSUME OneRecording PROVE Spec => []LaunchedInputsCommitted
<1>1. IngestInv => LaunchedInputsCommitted
  BY DEF IngestInv, TypeOK, StoreInv, CommittedContent, CheckedInputs, LaunchedInputsCommitted,
         IsSegmentCommitted
<1> QED BY <1>1, IngestInvariant, PTL

-------------------------------------------------------------------------------
(* Refinement of IngestContract.                                            *)

\* Under the invariant, what the contract sees of a segment is its marker.
LEMMA ContractSeesMarker ==
    ASSUME StoreTypeOK, CommittedContent
    PROVE  [s \in Segments |->
              IF marker[s] = Absent \/ s \in replaced THEN marker[s] ELSE final[s]] = marker
BY DEF StoreTypeOK, CommittedContent

\* Every step of an upload is a commit, an acknowledgement or invisible.
LEMMA UploadRefines ==
    ASSUME OneRecording, StoreInv, NEW w \in Uploads, UploadStep(w)
    PROVE  \/ UNCHANGED <<marker, acked>>
           \/ marker[Seg[w]] = Absent /\ PutMarker(w) /\ UNCHANGED acked
           \/ /\ w \in Streams /\ marker[Seg[w]] = Sha[w]
              /\ acked' = acked \cup {w} /\ UNCHANGED marker
<1>1. CASE WriteMarker(w) \/ CallFails(w)
  <2>1. UNCHANGED acked /\ (UNCHANGED marker \/ PutMarker(w))
    BY <1>1 DEF WriteMarker, CallFails, objects
  <2>2. marker[Seg[w]] # Absent /\ PutMarker(w) => UNCHANGED marker
    BY DEF StoreInv, StoreTypeOK, DeclaredOnly, PutMarker
  <2> QED BY <2>1, <2>2
<1>2. CASE AnswerDuplicate(w) \/ Finish(w)
  BY <1>2, ConstantsOK
     DEF ConstantsOK, AnswerDuplicate, Finish, Committed, StoreInv, OwnBytes, StepsDone,
         Streams, objects
<1>3. CASE \/ OpenStream(w) \/ ReceiveForm(w) \/ AcceptBody(w) \/ MarkerUnreadable(w)
           \/ BodyReceived(w) \/ BodyTruncated(w) \/ Stage(w) \/ RejectHash(w)
           \/ CommitCopy(w) \/ CopySourceGone(w)
  BY <1>3 DEF OpenStream, ReceiveForm, AcceptBody, MarkerUnreadable, BodyReceived,
              BodyTruncated, Stage, RejectHash, CommitCopy, CopySourceGone, objects
<1> QED BY <1>1, <1>2, <1>3 DEF UploadStep, Handler

\* Every step of the service is one of the contract, or a stutter.
LEMMA StepRefines ==
    ASSUME OneRecording, IngestInv, IngestInv', [Next]_vars
    PROVE  [Contract!Next]_Contract!vars
<1> DEFINE seen == [s \in Segments |->
                      IF marker[s] = Absent \/ s \in replaced THEN marker[s] ELSE final[s]]
<1>0. seen = marker /\ seen' = marker'
  <2>1. seen = marker
    BY ContractSeesMarker DEF IngestInv, StoreInv
  <2>2. StoreTypeOK' /\ CommittedContent'
    BY DEF IngestInv, StoreInv
  <2>3. seen' = marker'
    BY <2>2 DEF StoreTypeOK, CommittedContent
  <2> QED BY <2>1, <2>3
<1>w. /\ \A f \in Finalizes : Wants[f] \in SUBSET Segments
      /\ \A u \in HttpUploads : Seg[u] \in Segments
  BY ConstantsOK, IngestConstantsOK DEF ConstantsOK, IngestConstantsOK
<1> HIDE DEF seen
<1> USE DEF Contract!vars, Contract!Next
<1>s. UNCHANGED <<marker, acked, started>> => [Contract!Next]_Contract!vars
  BY <1>0 DEF seen
<1>1. ASSUME NEW w \in Uploads, UploadStep(w), UNCHANGED ingestVars
      PROVE  [Contract!Next]_Contract!vars
  <2>0. UNCHANGED started
    BY <1>1 DEF ingestVars, temporal
  <2>1. CASE UNCHANGED <<marker, acked>>
    BY <2>0, <2>1, <1>s
  <2>2. CASE marker[Seg[w]] = Absent /\ PutMarker(w) /\ UNCHANGED acked
    <3>1. Contract!Commit(w)
      BY <2>0, <2>2, <1>0 DEF Contract!Commit, PutMarker, seen
    <3> QED BY <3>1
  <2>3. CASE /\ w \in Streams /\ marker[Seg[w]] = Sha[w]
             /\ acked' = acked \cup {w} /\ UNCHANGED marker
    <3>1. Contract!Acknowledge(w)
      BY <2>0, <2>3, <1>0 DEF Contract!Acknowledge, seen
    <3> QED BY <2>3, <3>1
  <2> QED BY <1>1, <2>1, <2>2, <2>3, UploadRefines DEF IngestInv
<1>2. ASSUME UNCHANGED <<marker, acked>>,
             NEW S \in SUBSET Segments, \A s \in S : IsSegmentCommitted(s),
             started' = started \/ started' = started \cup S
      PROVE  [Contract!Next]_Contract!vars
  <2>1. CASE started' = started
    BY <1>2, <1>s, <2>1
  <2>2. CASE started' = started \cup S
    <3>1. Contract!Launch(S)
      BY <1>0, <1>2, <2>2 DEF Contract!Launch, IsSegmentCommitted, seen
    <3> QED BY <3>1
  <2> QED BY <1>2, <2>1, <2>2
<1>3. ASSUME NEW u \in HttpUploads, RecordMission(u) \/ LaunchUploaded(u)
      PROVE  [Contract!Next]_Contract!vars
  <2>1. /\ UNCHANGED <<marker, acked>>
        /\ started' = started \/ started' = started \cup {Seg[u]}
    BY <1>3, LaunchStarts DEF RecordMission, LaunchUploaded, objects, temporal
  <2>2. IsSegmentCommitted(Seg[u])
    BY <1>3 DEF IngestInv, CheckedInputs, RecordMission, LaunchUploaded
  <2> QED BY <2>1, <2>2, <1>2, <1>w
<1>4. ASSUME NEW f \in Finalizes, FinalizeStep(f) \/ FinalizeFails(f)
      PROVE  [Contract!Next]_Contract!vars
  <2>1. /\ UNCHANGED <<marker, acked>>
        /\ \/ started' = started
           \/ fpc[f] = "launch" /\ started' = started \cup Wants[f]
    BY <1>4, LaunchStarts
       DEF FinalizeStep, BeginFinalize, CheckSegment, AllChecked, LaunchFinalized,
           FinalizeFails, storeVars, objects, temporal
  <2>2. fpc[f] = "launch" => \A s \in Wants[f] : IsSegmentCommitted(s)
    BY DEF IngestInv, CheckedInputs
  <2>3. CASE started' = started
    BY <2>1, <2>3, <1>s
  <2>4. CASE fpc[f] = "launch" /\ started' = started \cup Wants[f]
    BY <2>1, <2>2, <2>4, <1>2, <1>w
  <2> QED BY <2>1, <2>3, <2>4
<1>5. CASE Crash \/ (\E m \in Missions : ExecutionEnds(m)) \/ UNCHANGED vars
  <2>1. UNCHANGED <<marker, acked, started>>
    BY <1>5 DEF Crash, StoreCrash, ExecutionEnds, vars, storeVars, objects, ingestVars, temporal
  <2> QED BY <2>1, <1>s
<1> QED BY <1>1, <1>3, <1>4, <1>5 DEF Next

\* ingest-svc implements the write-once register: a segment never changes once it is
\* committed, no client is acknowledged before what it sent is committed, and nothing
\* is launched on a segment that is not (store.go:119-160, upload.go:126-213).
THEOREM IngestImplementsContract == ASSUME OneRecording PROVE Spec => ImplementsContract
<1>1. Init => Contract!Init
  BY DEF Init, StoreInit, Contract!Init
<1>2. IngestInv /\ IngestInv' /\ [Next]_vars => [Contract!Next]_Contract!vars
  BY StepRefines
<1> QED BY <1>1, <1>2, IngestInvariant, PTL DEF Spec, ImplementsContract, Contract!Spec
===============================================================================
