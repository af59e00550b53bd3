---------------------------- MODULE TelemetryWorker ----------------------------
(***************************************************************************)
(* The telemetry worker: a goroutine takes readings from a JetStream       *)
(* consumer into an in-memory buffer, another drains the buffer at every   *)
(* tick, drops the readings it has seen and commits one window object per  *)
(* (mission, sensor) to MinIO.                                             *)
(*                                                                         *)
(* Of a window, the staging object is left out: its name holds the second  *)
(* of the flush, only the flushing goroutine uses it, and what it copies   *)
(* is what it has just put.  No object and no marker is the empty window,  *)
(* which is never written.                                                 *)
(***************************************************************************)
EXTENDS Naturals, Sequences, FiniteSets, Functions

CONSTANTS
    Messages,      \* the messages of the stream
    Readings,      \* what they carry; the same reading may be published twice
    Keys,          \* one for each (mission, sensor)
    ReadingOf,     \* the reading in every message
    KeyOf,         \* the key every reading is buffered under
    Malformed,     \* messages that do not unmarshal
    Untimed,       \* messages without a timestamp: the time of receipt is taken
    NoMessage,
    Capacity,      \* of the SeenSet
    MaxAckPending, \* of the consumer
    MaxRedeliveries, \* bound on the deliveries of what was delivered before
    MaxFlushes,    \* bound on the flushes that have something to write
    MaxFaults      \* bound on failed or lost calls, crashes and signals

ASSUME ConstantsOK ==
    /\ NoMessage \notin Messages
    /\ ReadingOf \in [Messages -> Readings]
    /\ KeyOf \in [Readings -> Keys]
    /\ Malformed \subseteq Messages /\ Untimed \subseteq Messages
    /\ Capacity \in Nat \ {0} /\ MaxAckPending \in Nat \ {0}
    /\ MaxRedeliveries \in Nat /\ MaxFlushes \in Nat /\ MaxFaults \in Nat

VARIABLES
    status,    \* what the consumer knows of every message
    resent,    \* how many messages it has delivered again
    inbox,     \* copies of every message that wait in the iterator
    handled,   \* the message that was added to the buffer and not yet acked
    buf,       \* WindowBuffer: the readings of every key since the last drain
    batch,     \* what DrainAll returned, less the keys that were taken from it
    fpc,       \* where the flushing goroutine stands
    key,       \* the key it is at, with the readings still to be looked at
    rest,
    kept,      \* and those it will write
    known,     \* the windows it read from the manifest
    seen,      \* SeenSet: the queue, whose members are the entries
    clock,     \* the second of the last flush
    object, marker, manifest,  \* the objects of every key
    stopping,  \* SIGTERM has come: the context is cancelled
    marked,    \* history: every reading marked since the process started
    faults     \* how many faults the environment has injected

broker == <<status, resent, inbox>>
flusher == <<fpc, key, rest, kept, known, seen, marked>>
objects == <<object, marker, manifest>>
vars == <<broker, handled, buf, batch, flusher, clock, objects, stopping, faults>>

\* A reading in memory, which is also its dedup key.  An untimed one gets another
\* timestamp every time it is received.
Entries == [reading : Readings, stamp : 0 .. MaxRedeliveries]

Windows == 1 .. MaxFlushes
Empty == [k \in Keys |-> <<>>]
NoWindows == [k \in Keys |-> [w \in Windows |-> <<>>]]

TypeOK ==
    /\ status \in [Messages -> {"stream", "out", "acked", "terminated"}]
    /\ resent \in 0 .. MaxRedeliveries
    /\ inbox \in [Messages -> Nat]
    /\ \A m \in Messages : inbox[m] <= IF status[m] = "stream" THEN 0 ELSE resent + 1
    /\ handled \in Messages \cup {NoMessage}
    /\ buf \in [Keys -> Seq(Entries)]
    /\ batch \in [Keys -> Seq(Entries)]
    /\ fpc \in {"wait", "next", "dedup", "put", "copy", "mark", "get", "update", "gone"}
    /\ key \in Keys
    /\ rest \in Seq(Entries)
    /\ kept \in Seq(Entries)
    /\ known \subseteq Windows
    /\ seen \in Seq(Entries) /\ Len(seen) <= Capacity
    /\ clock \in 0 .. MaxFlushes
    /\ object \in [Keys -> [Windows -> Seq(Entries)]]
    /\ marker \in [Keys -> [Windows -> Seq(Entries)]]
    /\ manifest \in [Keys -> SUBSET Windows]
    /\ stopping \in BOOLEAN
    /\ marked \in Seq(Entries)
    /\ faults \in 0 .. MaxFaults

Init ==
    /\ status = [m \in Messages |-> "stream"]
    /\ resent = 0
    /\ inbox = [m \in Messages |-> 0]
    /\ handled = NoMessage
    /\ buf = Empty /\ batch = Empty
    /\ fpc = "wait" /\ key \in Keys /\ rest = <<>> /\ kept = <<>> /\ known = {}
    /\ seen = <<>> /\ marked = <<>>
    /\ clock = 0
    /\ object = NoWindows /\ marker = NoWindows
    /\ manifest = [k \in Keys |-> {}]
    /\ stopping = FALSE
    /\ faults = 0

Fault == faults < MaxFaults /\ faults' = faults + 1

-------------------------------------------------------------------------------
(* The consumer.                                                            *)

\* MaxAckPending holds back what was not delivered yet.
Deliver(m) ==
    /\ status[m] = "stream"
    /\ Cardinality({n \in Messages : status[n] = "out"}) < MaxAckPending
    /\ status' = [status EXCEPT ![m] = "out"]
    /\ inbox' = [inbox EXCEPT ![m] = @ + 1]
    /\ UNCHANGED <<resent, handled, buf, batch, flusher, clock, objects, stopping, faults>>

\* AckWait has passed, or the connection was lost.
Redeliver(m) ==
    /\ status[m] = "out"
    /\ resent < MaxRedeliveries /\ resent' = resent + 1
    /\ inbox' = [inbox EXCEPT ![m] = @ + 1]
    /\ UNCHANGED <<status, handled, buf, batch, flusher, clock, objects, stopping, faults>>

-------------------------------------------------------------------------------
(* The loop of main: receive, fold into the buffer, acknowledge.            *)

Entry(m) ==
    [reading |-> ReadingOf[m],
     stamp   |-> IF m \in Untimed THEN resent + 1 - inbox[m] ELSE 0]

\* WindowBuffer.Add, under its mutex.
Add(m) == buf' = [buf EXCEPT ![KeyOf[ReadingOf[m]]] = Append(@, Entry(m))]

Receive(m) ==
    /\ handled = NoMessage
    /\ inbox[m] > 0
    /\ m \notin Malformed
    /\ Add(m)
    /\ handled' = m
    /\ inbox' = [inbox EXCEPT ![m] = @ - 1]
    /\ UNCHANGED <<status, resent, batch, flusher, clock, objects, stopping, faults>>

\* The Ack follows the Add and does not wait for a flush.  Its error is ignored:
\* when it is lost, the message will come again.
Ack ==
    /\ handled # NoMessage
    /\ handled' = NoMessage
    /\ \/ status' = [status EXCEPT ![handled] = "acked"] /\ UNCHANGED faults
       \/ Fault /\ UNCHANGED status
    /\ UNCHANGED <<resent, inbox, buf, batch, flusher, clock, objects, stopping>>

Terminate(m) ==
    /\ handled = NoMessage
    /\ inbox[m] > 0
    /\ m \in Malformed
    /\ inbox' = [inbox EXCEPT ![m] = @ - 1]
    /\ \/ status' = [status EXCEPT ![m] = "terminated"] /\ UNCHANGED faults
       \/ Fault /\ UNCHANGED status
    /\ UNCHANGED <<resent, handled, buf, batch, flusher, clock, objects, stopping>>

-------------------------------------------------------------------------------
(* RunFlushLoop and FlushOnce.                                              *)

\* Mutant of Tick: two flushes within one second of the wall clock.
TickAgain ==
    /\ fpc = "wait"
    /\ buf # Empty
    /\ clock' = 1
    /\ batch' = buf
    /\ buf' = Empty
    /\ fpc' = "next"
    /\ UNCHANGED <<broker, handled, key, rest, kept, known, seen, marked, objects, stopping, faults>>

\* A tick: DrainAll.  With nothing in the buffer there is nothing to do.  Ticks are
\* at least a second apart (TELEMETRY_FLUSH_INTERVAL, 5s unless set), and a tick may
\* win against a cancelled context.
Tick ==
    /\ fpc = "wait"
    /\ buf # Empty
    /\ clock < MaxFlushes /\ clock' = clock + 1
    /\ batch' = buf
    /\ buf' = Empty
    /\ fpc' = "next"
    /\ UNCHANGED <<broker, handled, key, rest, kept, known, seen, marked, objects, stopping, faults>>

\* The cancelled context ends the loop, without a last flush.
StopFlushing ==
    /\ fpc = "wait"
    /\ stopping
    /\ fpc' = "gone"
    /\ UNCHANGED <<broker, handled, buf, batch, key, rest, kept, known, seen, marked, clock,
                   objects, stopping, faults>>

\* The next key of the batch, in the order of a Go map.
TakeKey(k) ==
    /\ fpc = "next"
    /\ batch[k] # <<>>
    /\ key' = k
    /\ rest' = batch[k]
    /\ kept' = <<>>
    /\ batch' = [batch EXCEPT ![k] = <<>>]
    /\ fpc' = "dedup"
    /\ UNCHANGED <<broker, handled, buf, known, seen, marked, clock, objects, stopping, faults>>

\* Mutants of EndFlush: the buffer is emptied after the flush, not by it; the loop
\* ends after a flush.
ClearAfterFlush ==
    /\ fpc = "next"
    /\ batch = Empty
    /\ fpc' = "wait"
    /\ buf' = Empty
    /\ UNCHANGED <<broker, handled, batch, key, rest, kept, known, seen, marked, clock,
                   objects, stopping, faults>>

FlushOnlyOnce ==
    /\ fpc = "next"
    /\ batch = Empty
    /\ fpc' = "gone"
    /\ UNCHANGED <<broker, handled, buf, batch, key, rest, kept, known, seen, marked, clock,
                   objects, stopping, faults>>

EndFlush ==
    /\ fpc = "next"
    /\ batch = Empty
    /\ fpc' = "wait"
    /\ UNCHANGED <<broker, handled, buf, batch, key, rest, kept, known, seen, marked, clock,
                   objects, stopping, faults>>

SeenRecently(e) == e \in Range(seen)

\* Mutants of Remember: the bound is one too high; a full set learns nothing.
RememberOneMore(e) == IF Len(seen) > Capacity THEN Append(Tail(seen), e) ELSE Append(seen, e)

LearnNothing(e) == IF Len(seen) >= Capacity THEN seen ELSE Append(seen, e)

\* SeenSet.Mark of a reading that is not in the set: the oldest one makes room.
Remember(e) == IF Len(seen) >= Capacity THEN Append(Tail(seen), e) ELSE Append(seen, e)

\* One round of the loop over the readings of a key.
DropSeen ==
    /\ fpc = "dedup"
    /\ rest # <<>>
    /\ SeenRecently(Head(rest))
    /\ rest' = Tail(rest)
    /\ UNCHANGED <<broker, handled, buf, batch, fpc, key, kept, known, seen, marked, clock,
                   objects, stopping, faults>>

KeepNew ==
    /\ fpc = "dedup"
    /\ rest # <<>>
    /\ ~SeenRecently(Head(rest))
    /\ rest' = Tail(rest)
    /\ kept' = Append(kept, Head(rest))
    /\ seen' = Remember(Head(rest))
    /\ marked' = Append(marked, Head(rest))
    /\ UNCHANGED <<broker, handled, buf, batch, fpc, key, known, clock, objects, stopping, faults>>

\* Nothing new under this key, or a window to commit.
DedupDone ==
    /\ fpc = "dedup"
    /\ rest = <<>>
    /\ fpc' = IF kept = <<>> THEN "next" ELSE "put"
    /\ UNCHANGED <<broker, handled, buf, batch, key, rest, kept, known, seen, marked, clock,
                   objects, stopping, faults>>

-------------------------------------------------------------------------------
(* CommitWindow and updateManifest, one step per MinIO call.  No call that  *)
(* starts under a cancelled context succeeds.                               *)

\* A call fails and is not carried out.
CallDenied == (stopping /\ UNCHANGED faults) \/ Fault

PutStaging ==
    /\ fpc = "put" /\ ~stopping
    /\ fpc' = "copy"
    /\ UNCHANGED <<broker, handled, buf, batch, key, rest, kept, known, seen, marked, clock,
                   objects, stopping, faults>>

PutObject == object' = [object EXCEPT ![key][clock] = kept]
PutMarker == marker' = [marker EXCEPT ![key][clock] = kept]
PutManifest == manifest' = [manifest EXCEPT ![key] = known \cup {clock}]

CopyWindow ==
    /\ fpc = "copy" /\ ~stopping
    /\ PutObject
    /\ fpc' = "mark"
    /\ UNCHANGED <<broker, handled, buf, batch, key, rest, kept, known, seen, marked, clock,
                   marker, manifest, stopping, faults>>

\* The marker; the removal of the staging object that follows cannot fail the commit.
WriteMarker ==
    /\ fpc = "mark" /\ ~stopping
    /\ PutMarker
    /\ fpc' = "get"
    /\ UNCHANGED <<broker, handled, buf, batch, key, rest, kept, known, seen, marked, clock,
                   object, manifest, stopping, faults>>

\* Mutant of ReadManifest: every window starts a manifest of its own.
ReadNothing ==
    /\ fpc = "get"
    /\ known' = {}
    /\ UNCHANGED faults
    /\ fpc' = "update"
    /\ UNCHANGED <<broker, handled, buf, batch, key, rest, kept, seen, marked, clock, objects, stopping>>

\* A manifest that cannot be read counts as one that lists nothing.
ReadManifest ==
    /\ fpc = "get"
    /\ \/ ~stopping /\ known' = manifest[key] /\ UNCHANGED faults
       \/ CallDenied /\ known' = {}
    /\ fpc' = "update"
    /\ UNCHANGED <<broker, handled, buf, batch, key, rest, kept, seen, marked, clock, objects, stopping>>

WriteManifest ==
    /\ fpc = "update" /\ ~stopping
    /\ PutManifest
    /\ fpc' = "next"
    /\ UNCHANGED <<broker, handled, buf, batch, key, rest, kept, known, seen, marked, clock,
                   object, marker, stopping, faults>>

\* Mutant of CallFails: the error of the marker is not returned.
MarkerErrorIgnored ==
    /\ fpc = "mark"
    /\ Fault
    /\ fpc' = "get"
    /\ UNCHANGED <<broker, handled, buf, batch, key, rest, kept, known, seen, marked, clock,
                   objects, stopping>>

\* A call fails, carried out or not, or finds the context cancelled: the error is
\* logged and the flush goes on with the next key.  The readings stay marked.
CallFails ==
    /\ \/ /\ fpc \in {"put", "copy", "mark", "update"}
          /\ CallDenied
          /\ UNCHANGED objects
       \/ fpc = "copy" /\ Fault /\ PutObject /\ UNCHANGED <<marker, manifest>>
       \/ fpc = "mark" /\ Fault /\ PutMarker /\ UNCHANGED <<object, manifest>>
       \/ fpc = "update" /\ Fault /\ PutManifest /\ UNCHANGED <<object, marker>>
    /\ fpc' = "next"
    /\ UNCHANGED <<broker, handled, buf, batch, key, rest, kept, known, seen, marked, clock, stopping>>

-------------------------------------------------------------------------------
(* The process.                                                             *)

\* SIGTERM cancels the context.  The receiving loop does not look at it before the
\* iterator returns an error: it goes on buffering and acknowledging.
Sigterm ==
    /\ ~stopping
    /\ Fault
    /\ stopping' = TRUE
    /\ UNCHANGED <<broker, handled, buf, batch, flusher, clock, objects>>

\* The process dies, or ends after SIGTERM, and another is started.
Crash ==
    /\ \/ stopping /\ UNCHANGED faults
       \/ Fault
    /\ inbox' = [m \in Messages |-> 0]
    /\ handled' = NoMessage
    /\ buf' = Empty /\ batch' = Empty
    /\ fpc' = "wait" /\ rest' = <<>> /\ kept' = <<>> /\ known' = {}
    /\ seen' = <<>> /\ marked' = <<>>
    /\ stopping' = FALSE
    /\ UNCHANGED <<status, resent, key, clock, objects>>

ReceiveStep == Ack \/ \E m \in Messages : Receive(m) \/ Terminate(m)

CommitStep == PutStaging \/ CopyWindow \/ WriteMarker \/ ReadManifest \/ WriteManifest

FlushStep ==
    \/ Tick \/ EndFlush \/ DropSeen \/ KeepNew \/ DedupDone
    \/ \E k \in Keys : TakeKey(k)
    \/ CommitStep

Next ==
    \/ \E m \in Messages : Deliver(m) \/ Redeliver(m)
    \/ ReceiveStep
    \/ FlushStep
    \/ StopFlushing \/ CallFails \/ Sigterm \/ Crash

\* The server delivers, the ticker ticks and both goroutines run.
Fairness ==
    /\ \A m \in Messages : WF_vars(Deliver(m))
    /\ WF_vars(ReceiveStep)
    /\ WF_vars(FlushStep)

Spec == Init /\ [][Next]_vars
FairSpec == Spec /\ Fairness

-------------------------------------------------------------------------------
(* Properties.                                                              *)

\* The committed windows that hold a reading.
Stored(r) ==
    \E k \in Keys, w \in Windows :
        marker[k][w] = object[k][w] /\ \E e \in Range(object[k][w]) : e.reading = r

InMemory(r) ==
    \E s \in {buf[KeyOf[r]], batch[KeyOf[r]], rest, kept} : \E e \in Range(s) : e.reading = r

\* A window with a marker is the one the marker was written for, whatever fails or
\* dies between the two calls (store.go:80-102).
WholeWindows ==
    \A k \in Keys, w \in Windows : marker[k][w] # <<>> => object[k][w] = marker[k][w]

\* The manifest of a key lists committed windows only (store.go:97-108).
ListedAreCommitted ==
    \A k \in Keys : \A w \in manifest[k] : marker[k][w] # <<>>

\* What is stored is never lost again: no later flush, in this process or in the one
\* that replaces it, writes over a committed window (store.go:69).
StoredForGood == [][\A r \in Readings : Stored(r) => Stored(r)']_vars

\* Of two equal readings that one process writes, at least Capacity others lie
\* between: nothing younger is evicted first (dedup.go:46-58).
DuplicatesFarApart ==
    \A i, j \in DOMAIN marked : i < j /\ marked[i] = marked[j] => j - i > Capacity

\* As long as nothing fails, an acknowledged reading is in memory or stored: none is
\* lost between the two goroutines, or taken for a duplicate of one that is gone
\* (buffer.go:30-36, flush.go:26-45).
NothingForgotten ==
    faults = 0 =>
        \A m \in Messages : status[m] = "acked" => InMemory(ReadingOf[m]) \/ Stored(ReadingOf[m])

\* As long as nothing fails, the manifest lists every committed window but the one
\* being committed (store.go:107-149).
ManifestComplete ==
    faults = 0 =>
        \A k \in Keys, w \in Windows :
            marker[k][w] # <<>> =>
                w \in manifest[k] \/ (k = key /\ w = clock /\ fpc \in {"get", "update"})

\* The promise of consumer.go:10-13: "a message is acked only after its reading is
\* folded into an in-memory window AND that window has been flushed and committed".
AckedAreStored ==
    \A m \in Messages : status[m] = "acked" => Stored(ReadingOf[m])

\* Every well-formed reading is stored in the end, unless something fails.
EveryReadingStored ==
    \A m \in Messages \ Malformed : <>(Stored(ReadingOf[m]) \/ faults > 0)

-------------------------------------------------------------------------------
(* The strengthening that makes the invariants of the store inductive       *)
(* (proved in Telemetry_proofs).                                            *)

\* Nothing is stored under a second that has not come.
FutureEmpty ==
    \A k \in Keys, w \in Windows : w > clock => object[k][w] = <<>> /\ marker[k][w] = <<>>

\* A flush writes every window once: the keys it has still to handle have none yet.
OnceEach ==
    /\ fpc \in {"wait", "gone"} => batch = Empty
    /\ fpc \notin {"wait", "gone"} => clock \in Windows
    /\ \A k \in Keys :
        /\ clock \in Windows
        /\ batch[k] # <<>> \/ (k = key /\ fpc \in {"dedup", "put", "copy"})
        => object[k][clock] = <<>> /\ marker[k][clock] = <<>>
    /\ fpc \in {"dedup", "put", "copy", "mark", "get", "update"} => batch[key] = <<>>

\* Where the commit of the window in hand stands.
CommitInOrder ==
    /\ fpc \in {"put", "copy", "mark"} => kept # <<>>
    /\ fpc = "mark" => object[key][clock] = kept /\ marker[key][clock] = <<>>
    /\ fpc \in {"get", "update"} => marker[key][clock] # <<>>
    /\ fpc = "update" => \A w \in known : marker[key][w] # <<>>

WindowInv ==
    /\ TypeOK
    /\ FutureEmpty
    /\ OnceEach
    /\ CommitInOrder
    /\ WholeWindows
    /\ ListedAreCommitted

-------------------------------------------------------------------------------
(* The strengthening for what is in memory (proved in TelemetryMemory_proofs). *)

\* The SeenSet holds the last readings that were marked, in their order.
SeenIsRecent ==
    /\ Len(seen) <= Len(marked)
    /\ Len(seen) \in {Capacity, Len(marked)}
    /\ \A n \in 1 .. Len(seen) : seen[n] = marked[Len(marked) - Len(seen) + n]

\* As long as nothing fails: the manifest that was read is the one that will be replaced.
ManifestInHand ==
    faults = 0 => ~stopping /\ (fpc = "update" => known = manifest[key])

\* As long as nothing fails: what was buffered, what the SeenSet knows, and what the last
\* commit kept, is in memory or stored.
NothingDropped ==
    faults = 0 =>
        /\ fpc # "dedup" => rest = <<>>
        /\ fpc \notin {"dedup", "put", "copy", "mark"} =>
               \A e \in Range(kept) : Stored(e.reading)
        /\ \A e \in Range(seen) : e \in Range(kept) \/ Stored(e.reading)
        /\ \A m \in Messages : (m = handled \/ status[m] = "acked") =>
               InMemory(ReadingOf[m]) \/ Stored(ReadingOf[m])

MemoryInv ==
    /\ SeenIsRecent /\ DuplicatesFarApart
    /\ ManifestInHand /\ ManifestComplete
    /\ NothingDropped
===============================================================================
