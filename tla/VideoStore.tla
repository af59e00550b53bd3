------------------------------ MODULE VideoStore ------------------------------
(***************************************************************************)
(* The video object store of ingest-svc and the two handlers that write to *)
(* it: UploadVideoStream (gRPC, retried by the edge kit) and the storage   *)
(* part of HandleHTTPUpload (web UI).                                      *)
(*                                                                         *)
(* A segment has three MinIO keys: a staging key, the final key and a      *)
(* commit marker that holds a hash.  All three are named after the segment *)
(* alone, so every request for a segment shares them.  Handlers run        *)
(* concurrently and each MinIO call is one step.  A call that fails may    *)
(* have been carried out (its reply was lost), and the process may crash   *)
(* between any two calls.                                                  *)
(*                                                                         *)
(* A handler hashes the bytes of its own stream, not the object it then    *)
(* copies.  Two history variables record where that tells: the segments    *)
(* whose staged object was replaced by altered bytes, or dropped for being *)
(* altered, while another handler was about to copy it.                    *)
(***************************************************************************)
EXTENDS Naturals

CONSTANTS
    Segments,     \* one for each (mission id, segment index)
    Contents,     \* byte contents; a content also stands for its SHA-256
    Absent,       \* there is no object under a key
    Short,        \* a body with fewer bytes than the header declares
    Uploads,      \* upload requests; a gRPC client may repeat its own
    HttpUploads,  \* the requests that arrive at HandleHTTPUpload
    Resuming,     \* gRPC clients that resume at the offset GetUploadOffset gives
    Seg, Sha,     \* the segment and the declared hash of every request
    Contended,    \* segments for which two streams may be open at once
    Garbled,      \* segments whose bytes may arrive altered
    MaxFaults     \* bound on failed MinIO calls, broken or altered streams and crashes

ASSUME ConstantsOK ==
    /\ Absent \notin Contents /\ Short \notin Contents
    /\ HttpUploads \subseteq Uploads
    /\ Resuming \subseteq Uploads \ HttpUploads
    /\ Seg \in [Uploads -> Segments]
    /\ Sha \in [Uploads -> Contents]
    /\ Contended \subseteq Segments
    /\ Garbled \subseteq Segments
    /\ MaxFaults \in Nat

\* HandleHTTPUpload draws a new mission id, so nobody shares its segment key.
ASSUME FreshMissions ==
    \A h \in HttpUploads, u \in Uploads : Seg[h] = Seg[u] => h = u

VARIABLES
    temp, final, marker,  \* the objects of every segment (marker: the hash in it)
    pc,                   \* where the handler of a request stands
    body,                 \* the bytes the open stream of a request delivers
    acked,                \* history: gRPC requests answered with success
    replaced, dropped,    \* history: segments whose staging key did not keep its object
    faults                \* how many faults the environment has injected

objects == <<temp, final, marker, replaced, dropped>>
storeVars == <<objects, pc, body, acked, faults>>

Streams == Uploads \ HttpUploads

\* "stored" is the return of StageAndCommit to HandleHTTPUpload, "recorded" the
\* point after its INSERT (see Ingest), "closed" the end of an HTTP request.
Steps == {"idle", "check", "receive", "stage", "staged", "copied", "marked",
          "stored", "recorded", "closed"}

StoreTypeOK ==
    /\ temp \in [Segments -> Contents \cup {Absent}]
    /\ final \in [Segments -> Contents \cup {Absent}]
    /\ marker \in [Segments -> Contents \cup {Absent}]
    /\ pc \in [Uploads -> Steps]
    /\ body \in [Uploads -> Contents \cup {Short}]
    /\ acked \subseteq Streams
    /\ replaced \subseteq Segments
    /\ dropped \subseteq Segments
    /\ faults \in 0 .. MaxFaults

StoreInit ==
    /\ temp = [s \in Segments |-> Absent]
    /\ final = [s \in Segments |-> Absent]
    /\ marker = [s \in Segments |-> Absent]
    /\ pc = [u \in Uploads |-> "idle"]
    /\ body = [u \in Uploads |-> Sha[u]]
    /\ acked = {}
    /\ replaced = {}
    /\ dropped = {}
    /\ faults = 0

-------------------------------------------------------------------------------
(* Building blocks.                                                         *)

Goto(u, step) == pc' = [pc EXCEPT ![u] = step]

\* What becomes of a handler that stops: a gRPC client may call again, while an
\* HTTP client that uploads again does so under another mission.
Ended(u) == IF u \in HttpUploads THEN "closed" ELSE "idle"

Fault == faults < MaxFaults /\ faults' = faults + 1

\* Mutant of Committed: asks the final key instead of the marker.
CommittedByFinal(u) == final[Seg[u]] = Sha[u]

\* Committed(): the marker exists and holds the declared hash.
Committed(u) == marker[Seg[u]] = Sha[u]

\* Mutants of IsSegmentCommitted: the final key is taken for the marker; a leftover
\* staging object is taken for an upload in progress.
FinalExists(s) == final[s] # Absent
NothingStaged(s) == marker[s] # Absent /\ temp[s] = Absent

\* IsSegmentCommitted(): there is a marker, whatever hash it holds.
IsSegmentCommitted(s) == marker[s] # Absent

\* GetCommittedBytes() > 0: the marker matches, or something is staged.  MinIO
\* puts objects whole, so an answer that is not 0 is the size of an object.
OffsetKnown(u) == Committed(u) \/ temp[Seg[u]] # Absent

\* What a client sends.  One that resumes skips the bytes it was told are staged.
Sent(u) == IF u \in Resuming /\ OffsetKnown(u) THEN Short ELSE Sha[u]

\* Another handler of the segment has put verified bytes under the staging key and
\* is about to copy what lies there.
OtherAboutToCopy(u) ==
    \E v \in Uploads \ {u} : Seg[v] = Seg[u] /\ pc[v] = "staged" /\ body[v] = Sha[v]

PutTemp(u) ==
    /\ temp' = [temp EXCEPT ![Seg[u]] = body[u]]
    /\ replaced' = IF body[u] # Sha[u] /\ OtherAboutToCopy(u)
                   THEN replaced \cup {Seg[u]} ELSE replaced

DropTemp(u) == temp' = [temp EXCEPT ![Seg[u]] = Absent]

DropAltered(u) ==
    /\ DropTemp(u)
    /\ dropped' = IF OtherAboutToCopy(u) THEN dropped \cup {Seg[u]} ELSE dropped

CopyTemp(u) == final' = [final EXCEPT ![Seg[u]] = temp[Seg[u]]]
PutMarker(u) == marker' = [marker EXCEPT ![Seg[u]] = Sha[u]]

-------------------------------------------------------------------------------
(* UploadVideoStream up to its call of StageAndCommit.                      *)

\* The client opens a stream with a well-formed header.  Unless the segment is
\* contended, it does so only when no other stream for the segment is open.
OpenStream(u) ==
    /\ u \in Streams
    /\ pc[u] = "idle"
    /\ \/ Seg[u] \in Contended
       \/ \A v \in Uploads : Seg[v] = Seg[u] => pc[v] = "idle"
    /\ Goto(u, "check")
    /\ \/ body' = [body EXCEPT ![u] = Sent(u)] /\ UNCHANGED faults
       \/ /\ Seg[u] \in Garbled /\ Fault
          /\ \E b \in Contents \ {Sha[u]} : body' = [body EXCEPT ![u] = b]
    /\ UNCHANGED <<objects, acked>>

\* A segment committed under the declared hash is answered at once.
AnswerDuplicate(u) ==
    /\ pc[u] = "check"
    /\ Committed(u)
    /\ Goto(u, "idle")
    /\ acked' = acked \cup {u}
    /\ body' = [body EXCEPT ![u] = Sha[u]]
    /\ UNCHANGED <<objects, faults>>

\* No marker, or one that holds another hash: read the stream.
AcceptBody(u) ==
    /\ pc[u] = "check"
    /\ ~Committed(u)
    /\ Goto(u, "receive")
    /\ UNCHANGED <<objects, body, acked, faults>>

\* A marker that cannot be read counts as no marker.
MarkerUnreadable(u) ==
    /\ pc[u] = "check"
    /\ Fault
    /\ Goto(u, "receive")
    /\ UNCHANGED <<objects, body, acked>>

\* Mutant of BodyReceived: the length check is missing.
BodyUnmeasured(u) ==
    /\ pc[u] = "receive"
    /\ Goto(u, "stage")
    /\ UNCHANGED <<objects, body, acked, faults>>

\* The whole body is in memory: go on to StageAndCommit.
BodyReceived(u) ==
    /\ pc[u] = "receive"
    /\ body[u] # Short
    /\ Goto(u, "stage")
    /\ UNCHANGED <<objects, body, acked, faults>>

\* received # total_bytes: DataLoss, and nothing is stored.
BodyTruncated(u) ==
    /\ pc[u] = "receive"
    /\ body[u] = Short
    /\ Goto(u, "idle")
    /\ body' = [body EXCEPT ![u] = Sha[u]]
    /\ UNCHANGED <<objects, acked, faults>>

(* HandleHTTPUpload computes the hash itself from the bytes it spooled.     *)
ReceiveForm(u) ==
    /\ u \in HttpUploads
    /\ pc[u] = "idle"
    /\ Goto(u, "stage")
    /\ UNCHANGED <<objects, body, acked, faults>>

-------------------------------------------------------------------------------
(* StageAndCommit.                                                          *)

Stage(u) ==
    /\ pc[u] = "stage"
    /\ PutTemp(u)
    /\ Goto(u, "staged")
    /\ UNCHANGED <<final, marker, dropped, body, acked, faults>>

\* The bytes streamed do not have the declared hash: drop what was staged.
RejectHash(u) ==
    /\ pc[u] = "staged"
    /\ body[u] # Sha[u]
    /\ \/ DropAltered(u) /\ UNCHANGED faults
       \/ Fault /\ UNCHANGED <<temp, dropped>>  \* the error of RemoveObject is ignored
    /\ Goto(u, Ended(u))
    /\ body' = [body EXCEPT ![u] = Sha[u]]
    /\ UNCHANGED <<final, marker, replaced, acked>>

\* Mutants of CommitCopy: the hash is not checked; the object is moved, not copied.
CopyUnverified(u) ==
    /\ pc[u] = "staged"
    /\ temp[Seg[u]] # Absent
    /\ CopyTemp(u)
    /\ Goto(u, "copied")
    /\ UNCHANGED <<temp, marker, replaced, dropped, body, acked, faults>>

CommitMove(u) ==
    /\ pc[u] = "staged"
    /\ body[u] = Sha[u]
    /\ temp[Seg[u]] # Absent
    /\ CopyTemp(u)
    /\ DropTemp(u)
    /\ Goto(u, "copied")
    /\ UNCHANGED <<marker, replaced, dropped, body, acked, faults>>

CommitCopy(u) ==
    /\ pc[u] = "staged"
    /\ body[u] = Sha[u]
    /\ temp[Seg[u]] # Absent
    /\ CopyTemp(u)
    /\ Goto(u, "copied")
    /\ UNCHANGED <<temp, marker, replaced, dropped, body, acked, faults>>

\* Mutant of CopySourceGone: the copy is tried again for ever.
CopyRetried(u) ==
    /\ pc[u] = "staged"
    /\ body[u] = Sha[u]
    /\ temp[Seg[u]] = Absent
    /\ UNCHANGED storeVars

\* CopyObject finds no source: another request has removed the staged object.
CopySourceGone(u) ==
    /\ pc[u] = "staged"
    /\ body[u] = Sha[u]
    /\ temp[Seg[u]] = Absent
    /\ Goto(u, Ended(u))
    /\ UNCHANGED <<objects, body, acked, faults>>

WriteMarker(u) ==
    /\ pc[u] = "copied"
    /\ PutMarker(u)
    /\ Goto(u, "marked")
    /\ UNCHANGED <<temp, final, replaced, dropped, body, acked, faults>>

\* RemoveObject, whose error is ignored, and the return of StageAndCommit.
Finish(u) ==
    /\ pc[u] = "marked"
    /\ \/ DropTemp(u) /\ UNCHANGED faults
       \/ Fault /\ UNCHANGED temp
    /\ IF u \in HttpUploads
       THEN Goto(u, "stored") /\ UNCHANGED acked
       ELSE Goto(u, "idle") /\ acked' = acked \cup {u}
    /\ UNCHANGED <<final, marker, replaced, dropped, body>>

-------------------------------------------------------------------------------
(* Faults.                                                                  *)

\* A MinIO call returns an error, carried out or not, or the stream breaks; the
\* handler returns an error.
CallFails(u) ==
    /\ Fault
    /\ Goto(u, Ended(u))
    /\ body' = [body EXCEPT ![u] = Sha[u]]
    /\ \/ pc[u] \in {"receive", "stage", "staged", "copied"} /\ UNCHANGED objects
       \/ pc[u] = "stage" /\ PutTemp(u) /\ UNCHANGED <<final, marker, dropped>>
       \/ /\ pc[u] = "staged"
          /\ body[u] = Sha[u] /\ temp[Seg[u]] # Absent
          /\ CopyTemp(u) /\ UNCHANGED <<temp, marker, replaced, dropped>>
       \/ pc[u] = "copied" /\ PutMarker(u) /\ UNCHANGED <<temp, final, replaced, dropped>>
    /\ UNCHANGED acked

\* The process dies and every handler with it; the objects stay.
StoreCrash ==
    /\ Fault
    /\ pc' = [u \in Uploads |-> IF pc[u] = "idle" THEN "idle" ELSE Ended(u)]
    /\ body' = Sha
    /\ UNCHANGED <<objects, acked>>

Handler(u) ==
    \/ AnswerDuplicate(u) \/ AcceptBody(u)
    \/ BodyReceived(u) \/ BodyTruncated(u)
    \/ Stage(u) \/ RejectHash(u)
    \/ CommitCopy(u) \/ CopySourceGone(u) \/ WriteMarker(u) \/ Finish(u)

UploadStep(u) ==
    OpenStream(u) \/ ReceiveForm(u) \/ Handler(u) \/ MarkerUnreadable(u) \/ CallFails(u)

StoreNext == StoreCrash \/ \E u \in Uploads : UploadStep(u)

StoreSpec == StoreInit /\ [][StoreNext]_storeVars

-------------------------------------------------------------------------------
(* Properties.                                                              *)

\* One recording per segment index.  Nothing in the code sees to it: run
\* ingest_conflict shows what happens otherwise.
OneRecording == \A u, v \in Uploads : Seg[u] = Seg[v] => Sha[u] = Sha[v]

\* A segment whose marker holds a hash has, under its final key, the content with
\* that hash (store.go:71-72, "already durably committed with the given hash"),
\* unless another stream's altered bytes reached the staging key between some
\* handler's check of its own bytes and its copy.
CommittedContent ==
    \A s \in Segments \ replaced : marker[s] # Absent => final[s] = marker[s]

\* A handler whose staged object was removed under it is not the last hope of its
\* client: whoever removed the object had committed the segment (store.go:119-121,
\* "deleted only after the marker write succeeds"), unless it was dropped because
\* another stream's bytes were altered (store.go:137).
StagedOrCommitted ==
    \A u \in Uploads :
        pc[u] = "staged" /\ body[u] = Sha[u] /\ temp[Seg[u]] = Absent
        => Committed(u) \/ Seg[u] \in dropped

\* Every gRPC client that keeps calling is acknowledged in the end.
EveryUploadAcked == \A u \in Streams : <>(u \in acked)
-------------------------------------------------------------------------------
(* The strengthening that makes the two invariants inductive where every    *)
(* segment has one recording (proved in Ingest_proofs).                     *)

\* What a stream carries: the declared bytes before it is opened and after they
\* were verified, and never a short body once it was accepted.  Web uploads have no
\* stream.
OwnBytes ==
    \A u \in Uploads :
        /\ pc[u] \in {"check", "receive"} => u \in Streams
        /\ pc[u] \in {"idle", "copied", "marked"} => body[u] = Sha[u]
        /\ pc[u] \in {"stage", "staged"} => body[u] # Short

\* Markers hold nothing but what the requests declare, and so do the objects under
\* the final keys of segments that kept what was staged.
DeclaredOnly ==
    \A u \in Uploads :
        /\ marker[Seg[u]] \in {Absent, Sha[u]}
        /\ Seg[u] \notin replaced => final[Seg[u]] \in {Absent, Sha[u]}

\* What lies under the staging key when a handler has verified its bytes is what it
\* verified, or nothing, or altered bytes that somebody put there since.
VerifiedBytes ==
    \A u \in Uploads :
        pc[u] = "staged" /\ body[u] = Sha[u] /\ Seg[u] \notin replaced
        => temp[Seg[u]] \in {Absent, Sha[u]}

\* What a handler has done is still there.
StepsDone ==
    \A u \in Uploads :
        /\ pc[u] \in {"copied", "marked"} /\ Seg[u] \notin replaced
           => final[Seg[u]] = Sha[u]
        /\ pc[u] = "marked" => marker[Seg[u]] = Sha[u]

StoreInv ==
    /\ StoreTypeOK
    /\ OwnBytes
    /\ DeclaredOnly
    /\ VerifiedBytes
    /\ StepsDone
    /\ CommittedContent
    /\ StagedOrCommitted
===============================================================================
