--------------------------- MODULE Telemetry_proofs ---------------------------
(***************************************************************************)
(* Proofs about TelemetryWorker, for any number of messages, readings,     *)
(* keys, flushes and faults: types, and what the object store holds.       *)
(***************************************************************************)
EXTENDS TelemetryWorker, TLAPS

\* A counted fault stays within the bound.
LEMMA FaultCounted ==
    ASSUME TypeOK, Fault \/ UNCHANGED faults
    PROVE  faults' \in 0 .. MaxFaults
BY ConstantsOK DEF ConstantsOK, TypeOK, Fault

\* The reading a message is folded into has the type of the buffer.
LEMMA EntryTyped ==
    ASSUME TypeOK, NEW m \in Messages, inbox[m] > 0
    PROVE  Entry(m) \in Entries /\ KeyOf[ReadingOf[m]] \in Keys
<1>1. ReadingOf[m] \in Readings /\ KeyOf[ReadingOf[m]] \in Keys
  BY ConstantsOK DEF ConstantsOK
<1>2. resent + 1 - inbox[m] \in 0 .. MaxRedeliveries /\ 0 \in 0 .. MaxRedeliveries
  <2>1. resent \in 0 .. MaxRedeliveries /\ inbox[m] \in Nat /\ inbox[m] <= resent + 1
    BY DEF TypeOK
  <2> QED BY <2>1, ConstantsOK DEF ConstantsOK
<1> QED BY <1>1, <1>2 DEF Entry, Entries

\* The types of what the consumer and the receiving loop work on.
BrokerOK ==
    /\ status \in [Messages -> {"stream", "out", "acked", "terminated"}]
    /\ resent \in 0 .. MaxRedeliveries
    /\ inbox \in [Messages -> Nat]
    /\ \A m \in Messages : inbox[m] <= IF status[m] = "stream" THEN 0 ELSE resent + 1

\* The consumer and the receiving loop keep them.
LEMMA TypedBroker ==
    ASSUME BrokerOK, handled \in Messages \cup {NoMessage},
           ReceiveStep \/ \E m \in Messages : Deliver(m) \/ Redeliver(m)
    PROVE  BrokerOK'
<1> USE DEF BrokerOK
<1>1. ASSUME NEW m \in Messages, Deliver(m)
      PROVE  BrokerOK'
  <2>1. inbox[m] = 0
    BY <1>1 DEF Deliver
  <2> QED BY <1>1, <2>1 DEF Deliver
<1>2. ASSUME NEW m \in Messages, Redeliver(m)
      PROVE  BrokerOK'
  <2>1. resent' \in 0 .. MaxRedeliveries
    BY <1>2, ConstantsOK DEF ConstantsOK, Redeliver
  <2>2. /\ inbox' = [inbox EXCEPT ![m] = inbox[m] + 1]
        /\ status' = status /\ status[m] = "out"
        /\ resent' = resent + 1
    BY <1>2 DEF Redeliver
  <2> QED BY <2>1, <2>2
<1>3. ASSUME NEW m \in Messages, Receive(m) \/ Terminate(m)
      PROVE  BrokerOK'
  <2>1. /\ inbox' = [inbox EXCEPT ![m] = inbox[m] - 1] /\ inbox[m] > 0
        /\ status' = status \/ status' = [status EXCEPT ![m] = "terminated"]
        /\ resent' = resent
    BY <1>3 DEF Receive, Terminate
  <2>2. status[m] # "stream"
    BY <2>1
  <2> QED BY <2>1, <2>2
<1>4. CASE Ack
  <2>1. /\ status' = status \/ status' = [status EXCEPT ![handled] = "acked"]
        /\ handled \in Messages
        /\ UNCHANGED <<inbox, resent>>
    BY <1>4 DEF Ack
  <2> QED BY <2>1
<1> QED BY <1>1, <1>2, <1>3, <1>4 DEF ReceiveStep

\* The consumer and the receiving loop keep the types.
LEMMA TypedReceive ==
    ASSUME TypeOK,
           ReceiveStep \/ \E m \in Messages : Deliver(m) \/ Redeliver(m)
    PROVE  TypeOK'
<1>1. BrokerOK'
  BY TypedBroker DEF TypeOK, BrokerOK
<1>2. buf' \in [Keys -> Seq(Entries)]
  <2>1. ASSUME NEW m \in Messages, Receive(m)
        PROVE  buf' \in [Keys -> Seq(Entries)]
    <3>1. Entry(m) \in Entries /\ KeyOf[ReadingOf[m]] \in Keys
      BY <2>1, EntryTyped DEF Receive
    <3> QED BY <2>1, <3>1 DEF Receive, Add, TypeOK
  <2>2. CASE UNCHANGED buf
    BY <2>2 DEF TypeOK
  <2> QED BY <2>1, <2>2 DEF ReceiveStep, Deliver, Redeliver, Terminate, Ack
<1>3. /\ UNCHANGED <<batch, flusher, clock, objects, stopping>>
      /\ handled' \in Messages \cup {NoMessage}
      /\ Fault \/ UNCHANGED faults
  BY DEF ReceiveStep, Deliver, Redeliver, Receive, Terminate, Ack, TypeOK
<1>4. faults' \in 0 .. MaxFaults
  BY <1>3, FaultCounted
<1> QED BY <1>1, <1>2, <1>3, <1>4 DEF TypeOK, BrokerOK, flusher, objects

\* So does the flushing loop up to the commit of a window.
LEMMA TypedDedup ==
    ASSUME TypeOK,
           \/ Tick \/ StopFlushing \/ EndFlush \/ DropSeen \/ KeepNew \/ DedupDone
           \/ \E k \in Keys : TakeKey(k)
    PROVE  TypeOK'
<1> USE ConstantsOK DEF ConstantsOK, TypeOK, broker, objects
<1>1. CASE Tick
  BY <1>1 DEF Tick, Empty
<1>2. CASE StopFlushing \/ EndFlush \/ DropSeen \/ DedupDone
  <2>1. rest' \in Seq(Entries)
    <3>1. CASE DropSeen
      BY <3>1 DEF DropSeen
    <3>2. CASE UNCHANGED rest
      BY <3>2
    <3> QED BY <1>2, <3>1, <3>2 DEF StopFlushing, EndFlush, DedupDone
  <2>2. fpc' \in {"wait", "next", "dedup", "put", "gone"}
    BY <1>2 DEF StopFlushing, EndFlush, DropSeen, DedupDone
  <2>3. UNCHANGED <<broker, handled, buf, batch, key, kept, known, seen, marked, clock,
                    objects, stopping, faults>>
    BY <1>2 DEF StopFlushing, EndFlush, DropSeen, DedupDone
  <2> QED BY <2>1, <2>2, <2>3
<1>3. CASE KeepNew
  <2>1. Head(rest) \in Entries /\ Tail(rest) \in Seq(Entries)
    BY <1>3 DEF KeepNew
  <2>2. seen' \in Seq(Entries) /\ Len(seen') <= Capacity
    BY <1>3, <2>1 DEF KeepNew, Remember
  <2>3. kept' \in Seq(Entries) /\ marked' \in Seq(Entries)
    BY <1>3, <2>1 DEF KeepNew
  <2>4. UNCHANGED <<broker, handled, buf, batch, fpc, key, known, clock, objects, stopping, faults>>
    BY <1>3 DEF KeepNew
  <2>5. rest' \in Seq(Entries)
    BY <1>3, <2>1 DEF KeepNew
  <2> QED BY <2>2, <2>3, <2>4, <2>5
<1>4. ASSUME NEW k \in Keys, TakeKey(k)
      PROVE  TypeOK'
  BY <1>4 DEF TakeKey
<1> QED BY <1>1, <1>2, <1>3, <1>4

\* What a commit writes to the store, carried out by a call that succeeds or fails.
LEMMA CommitWrites ==
    ASSUME CommitStep \/ CallFails
    PROVE  /\ fpc \notin {"wait", "gone"}
           /\ object' = object \/ (fpc = "copy" /\ PutObject)
           /\ marker' = marker \/ (fpc = "mark" /\ PutMarker)
           /\ manifest' = manifest \/ (fpc = "update" /\ PutManifest)
BY DEF CommitStep, CallFails, PutStaging, CopyWindow, WriteMarker, ReadManifest,
       WriteManifest, objects

\* The calls of a commit keep the types, the ones that fail among them.
LEMMA TypedCommit ==
    ASSUME TypeOK, OnceEach, CommitStep \/ CallFails
    PROVE  TypeOK'
<1>1. clock \in Windows /\ key \in Keys /\ kept \in Seq(Entries) /\ known \in SUBSET Windows
  BY CommitWrites DEF OnceEach, TypeOK
<1>2. object' \in [Keys -> [Windows -> Seq(Entries)]]
  <2>1. object \in [Keys -> [Windows -> Seq(Entries)]]
    BY DEF TypeOK
  <2>2. object' = object \/ object' = [object EXCEPT ![key][clock] = kept]
    BY CommitWrites DEF PutObject
  <2>3. [object EXCEPT ![key][clock] = kept] \in [Keys -> [Windows -> Seq(Entries)]]
    BY <1>1, <2>1
  <2> QED BY <2>1, <2>2, <2>3
<1>3. marker' \in [Keys -> [Windows -> Seq(Entries)]]
  <2>1. marker \in [Keys -> [Windows -> Seq(Entries)]]
    BY DEF TypeOK
  <2>2. marker' = marker \/ marker' = [marker EXCEPT ![key][clock] = kept]
    BY CommitWrites DEF PutMarker
  <2>3. [marker EXCEPT ![key][clock] = kept] \in [Keys -> [Windows -> Seq(Entries)]]
    BY <1>1, <2>1
  <2> QED BY <2>1, <2>2, <2>3
<1>4. manifest' \in [Keys -> SUBSET Windows]
  <2>1. manifest \in [Keys -> SUBSET Windows]
    BY DEF TypeOK
  <2> QED BY <1>1, <2>1, CommitWrites DEF PutManifest
<1>5. /\ UNCHANGED <<broker, handled, buf, batch, key, rest, kept, seen, marked, clock, stopping>>
      /\ fpc' \in {"copy", "mark", "get", "update", "next"}
      /\ known' \in SUBSET Windows
      /\ Fault \/ UNCHANGED faults
  BY DEF TypeOK, CommitStep, PutStaging, CopyWindow, WriteMarker, ReadManifest,
         WriteManifest, CallFails, CallDenied
<1>6. faults' \in 0 .. MaxFaults
  BY <1>5, FaultCounted
<1> QED BY <1>2, <1>3, <1>4, <1>5, <1>6 DEF TypeOK, broker

\* So do signals and restarts.
LEMMA TypedProcess ==
    ASSUME TypeOK, Sigterm \/ Crash \/ UNCHANGED vars
    PROVE  TypeOK'
<1> USE DEF TypeOK
<1>0. faults' \in 0 .. MaxFaults
  BY FaultCounted DEF Sigterm, Crash, vars
<1>1. CASE Sigterm
  BY <1>0, <1>1 DEF Sigterm, broker, flusher, objects
<1>2. CASE Crash
  <2>1. /\ inbox' \in [Messages -> Nat]
        /\ \A m \in Messages : inbox'[m] = 0
    BY <1>2 DEF Crash
  <2>2. buf' \in [Keys -> Seq(Entries)] /\ batch' \in [Keys -> Seq(Entries)]
    BY <1>2 DEF Crash, Empty
  <2>3. seen' \in Seq(Entries) /\ Len(seen') <= Capacity
    BY <1>2, ConstantsOK DEF ConstantsOK, Crash
  <2>4. /\ handled' = NoMessage /\ fpc' = "wait" /\ rest' = <<>> /\ kept' = <<>>
        /\ known' = {} /\ marked' = <<>> /\ stopping' = FALSE
        /\ UNCHANGED <<status, resent, key, clock, objects>>
    BY <1>2 DEF Crash
  <2>5. \A m \in Messages : inbox'[m] <= IF status'[m] = "stream" THEN 0 ELSE resent' + 1
    BY <2>1, <2>4
  <2>6. <<>> \in Seq(Entries)
    OBVIOUS
  <2> QED BY <1>0, <2>1, <2>2, <2>3, <2>4, <2>5, <2>6 DEF objects
<1>3. CASE UNCHANGED vars
  BY <1>3 DEF vars, broker, flusher, objects
<1> QED BY <1>1, <1>2, <1>3

\* A step writes to a window only when it is the one in hand and has no marker.
LEMMA WritesOnce ==
    ASSUME WindowInv, [Next]_vars, NEW k \in Keys, NEW w \in Windows, marker[k][w] # <<>>
    PROVE  object'[k][w] = object[k][w] /\ marker'[k][w] = marker[k][w]
<1>1. \/ UNCHANGED <<object, marker>>
      \/ fpc = "copy" /\ PutObject /\ UNCHANGED marker
      \/ fpc = "mark" /\ PutMarker /\ UNCHANGED object
  BY DEF Next, Deliver, Redeliver, ReceiveStep, Ack, Receive, Terminate, FlushStep, Tick,
         EndFlush, DropSeen, KeepNew, DedupDone, TakeKey, CommitStep, PutStaging, CopyWindow,
         WriteMarker, ReadManifest, WriteManifest, StopFlushing, CallFails, Sigterm, Crash,
         vars, objects
<1>2. fpc \in {"copy", "mark"} => marker[key][clock] = <<>>
  BY DEF WindowInv, OnceEach, CommitInOrder, TypeOK
<1>3. /\ key \in Keys /\ clock \in 0 .. MaxFlushes
      /\ object \in [Keys -> [Windows -> Seq(Entries)]]
      /\ marker \in [Keys -> [Windows -> Seq(Entries)]]
  BY DEF WindowInv, TypeOK
<1>4. fpc \in {"copy", "mark"} => ~(k = key /\ w = clock)
  BY <1>2
<1>5. CASE fpc = "copy" /\ PutObject /\ UNCHANGED marker
  BY <1>3, <1>4, <1>5 DEF PutObject
<1>6. CASE fpc = "mark" /\ PutMarker /\ UNCHANGED object
  BY <1>3, <1>4, <1>6 DEF PutMarker
<1> QED BY <1>1, <1>5, <1>6

-------------------------------------------------------------------------------
(* The store: windows are written once, in the order of their seconds.      *)

\* The types of the store, apart from the rest of TypeOK.
LEMMA StoreTyped ==
    ASSUME TypeOK
    PROVE  /\ key \in Keys /\ clock \in 0 .. MaxFlushes /\ kept \in Seq(Entries)
           /\ batch \in [Keys -> Seq(Entries)]
           /\ object \in [Keys -> [Windows -> Seq(Entries)]]
           /\ marker \in [Keys -> [Windows -> Seq(Entries)]]
           /\ manifest \in [Keys -> SUBSET Windows]
BY DEF TypeOK

\* What WindowInv says beyond types.
StoreInv == FutureEmpty /\ OnceEach /\ CommitInOrder /\ WholeWindows /\ ListedAreCommitted

\* Steps outside the flushing goroutine do not touch what the invariant speaks of.
LEMMA OutsideInv ==
    ASSUME StoreInv, UNCHANGED <<batch, flusher, clock, objects>>
    PROVE  StoreInv'
BY DEF StoreInv, FutureEmpty, OnceEach, CommitInOrder, WholeWindows, ListedAreCommitted,
       flusher, objects

\* A tick opens a second that nothing was stored under.
LEMMA TickInv ==
    ASSUME TypeOK, StoreInv, Tick
    PROVE  StoreInv'
<1>1. /\ fpc' = "next" /\ clock' = clock + 1 /\ clock' \in Windows /\ clock \in Nat
      /\ UNCHANGED <<key, kept, known, objects>>
  BY ConstantsOK, StoreTyped DEF ConstantsOK, Tick, Windows
<1>2. FutureEmpty' /\ OnceEach'
  BY <1>1 DEF StoreInv, FutureEmpty, OnceEach, objects, Windows
<1>3. CommitInOrder' /\ WholeWindows' /\ ListedAreCommitted'
  BY <1>1 DEF StoreInv, CommitInOrder, WholeWindows, ListedAreCommitted, objects
<1> QED BY <1>2, <1>3 DEF StoreInv

\* Between the tick and the commit, the goroutine moves along the batch.
LEMMA DedupInv ==
    ASSUME TypeOK, StoreInv,
           \/ StopFlushing \/ EndFlush \/ DropSeen \/ KeepNew \/ DedupDone
           \/ \E k \in Keys : TakeKey(k)
    PROVE  StoreInv'
<1> USE DEF StoreInv
<1>1. UNCHANGED <<clock, objects>>
  BY DEF StopFlushing, EndFlush, DropSeen, KeepNew, DedupDone, TakeKey
<1>2. FutureEmpty' /\ WholeWindows' /\ ListedAreCommitted'
  BY <1>1 DEF FutureEmpty, WholeWindows, ListedAreCommitted, objects
<1>3. ASSUME NEW k \in Keys, TakeKey(k)
      PROVE  OnceEach' /\ CommitInOrder'
  <2>1. /\ key' = k /\ fpc = "next" /\ fpc' = "dedup" /\ batch[k] # <<>>
        /\ batch' = [batch EXCEPT ![k] = <<>>]
    BY <1>3 DEF TakeKey
  <2> QED BY <1>1, <2>1, StoreTyped DEF OnceEach, CommitInOrder, objects
<1>4. CASE StopFlushing \/ EndFlush
  <2>1. /\ UNCHANGED <<key, batch>> /\ fpc' \in {"wait", "gone"}
        /\ batch = Empty
    BY <1>4 DEF StopFlushing, EndFlush, OnceEach
  <2>2. OnceEach'
    BY <1>1, <2>1 DEF OnceEach, Empty, objects
  <2>3. CommitInOrder'
    BY <2>1 DEF CommitInOrder
  <2> QED BY <1>2, <2>2, <2>3
<1>5. CASE DropSeen \/ KeepNew
  <2>1. UNCHANGED <<key, batch, fpc>> /\ fpc = "dedup"
    BY <1>5 DEF DropSeen, KeepNew
  <2>2. OnceEach'
    BY <1>1, <2>1 DEF OnceEach, objects
  <2>3. CommitInOrder'
    BY <2>1 DEF CommitInOrder
  <2> QED BY <1>2, <2>2, <2>3
<1>6. CASE DedupDone
  <2>1. /\ UNCHANGED <<key, batch, kept>> /\ fpc = "dedup"
        /\ fpc' = IF kept = <<>> THEN "next" ELSE "put"
    BY <1>6 DEF DedupDone
  <2>2. OnceEach'
    BY <1>1, <2>1 DEF OnceEach, objects
  <2>3. CommitInOrder'
    BY <2>1 DEF CommitInOrder
  <2> QED BY <1>2, <2>2, <2>3
<1> QED BY <1>2, <1>3, <1>4, <1>5, <1>6

\* The calls of a commit write object, marker and manifest in this order.
LEMMA CommitInv ==
    ASSUME TypeOK, StoreInv, CommitStep \/ CallFails
    PROVE  StoreInv'
<1> USE DEF StoreInv
<1>0. /\ UNCHANGED <<key, batch, kept, clock>> /\ clock \in Windows
      /\ fpc \notin {"wait", "gone", "dedup"}
      /\ key \in Keys /\ kept \in Seq(Entries) /\ batch[key] = <<>>
      /\ object \in [Keys -> [Windows -> Seq(Entries)]]
      /\ marker \in [Keys -> [Windows -> Seq(Entries)]]
      /\ manifest \in [Keys -> SUBSET Windows]
  BY StoreTyped DEF OnceEach, CommitStep, PutStaging, CopyWindow, WriteMarker, ReadManifest,
                    WriteManifest, CallFails
<1>1. ASSUME fpc \in {"put", "copy"}, fpc' \in {"copy", "next"}, UNCHANGED objects
      PROVE  StoreInv'
  BY <1>0, <1>1 DEF FutureEmpty, OnceEach, CommitInOrder, WholeWindows, ListedAreCommitted, objects
<1>2. ASSUME fpc = "copy", PutObject, UNCHANGED <<marker, manifest>>, fpc' \in {"mark", "next"}
      PROVE  StoreInv'
  <2>1. /\ object' = [object EXCEPT ![key][clock] = kept]
        /\ marker[key][clock] = <<>>
    BY <1>0, <1>2 DEF PutObject, OnceEach
  <2>2. OnceEach' /\ CommitInOrder'
    BY <1>0, <1>2, <2>1 DEF OnceEach, CommitInOrder
  <2>3. FutureEmpty' /\ WholeWindows' /\ ListedAreCommitted'
    BY <1>0, <1>2, <2>1 DEF FutureEmpty, WholeWindows, ListedAreCommitted, Windows
  <2> QED BY <2>2, <2>3
<1>3. ASSUME fpc = "mark", PutMarker, UNCHANGED <<object, manifest>>, fpc' \in {"get", "next"}
      PROVE  StoreInv'
  <2>1. /\ marker' = [marker EXCEPT ![key][clock] = kept]
        /\ object[key][clock] = kept /\ kept # <<>>
    BY <1>0, <1>3 DEF PutMarker, CommitInOrder
  <2>2. OnceEach' /\ CommitInOrder'
    BY <1>0, <1>3, <2>1 DEF OnceEach, CommitInOrder
  <2>3. FutureEmpty' /\ WholeWindows' /\ ListedAreCommitted'
    BY <1>0, <1>3, <2>1 DEF FutureEmpty, WholeWindows, ListedAreCommitted, Windows
  <2> QED BY <2>2, <2>3
<1>4. ASSUME fpc = "get", UNCHANGED objects, known' \in {manifest[key], {}}, fpc' = "update"
      PROVE  StoreInv'
  BY <1>0, <1>4 DEF FutureEmpty, OnceEach, CommitInOrder, WholeWindows, ListedAreCommitted, objects
<1>5. ASSUME fpc = "update", PutManifest \/ UNCHANGED manifest, UNCHANGED <<object, marker>>,
             fpc' = "next"
      PROVE  StoreInv'
  <2>1. ASSUME NEW k \in Keys, NEW w \in manifest'[k]
        PROVE  marker[k][w] # <<>>
    <3>1. CASE w \in manifest[k]
      BY <3>1 DEF ListedAreCommitted
    <3>2. CASE w \notin manifest[k]
      <4>1. k = key /\ w \in known \cup {clock}
        BY <1>0, <1>5, <2>1, <3>2 DEF PutManifest
      <4> QED BY <1>5, <4>1 DEF CommitInOrder
    <3> QED BY <3>1, <3>2
  <2>2. ListedAreCommitted'
    BY <1>5, <2>1 DEF ListedAreCommitted
  <2> QED BY <1>0, <1>5, <2>2 DEF FutureEmpty, OnceEach, CommitInOrder, WholeWindows
<1>6. ASSUME fpc = "mark", fpc' = "next", UNCHANGED objects
      PROVE  StoreInv'
  BY <1>0, <1>6 DEF FutureEmpty, OnceEach, CommitInOrder, WholeWindows, ListedAreCommitted, objects
<1>7. CASE CommitStep
  BY <1>1, <1>2, <1>3, <1>4, <1>5, <1>7
     DEF CommitStep, PutStaging, CopyWindow, WriteMarker, ReadManifest, WriteManifest, objects
<1>8. CASE CallFails
  BY <1>1, <1>2, <1>3, <1>5, <1>6, <1>8 DEF CallFails, objects
<1> QED BY <1>7, <1>8

\* A process that starts again has nothing in hand.
LEMMA CrashInv ==
    ASSUME TypeOK, StoreInv, Crash
    PROVE  StoreInv'
BY StoreTyped DEF StoreInv, Crash, FutureEmpty, OnceEach, CommitInOrder, WholeWindows,
       ListedAreCommitted, objects, Empty

\* The invariant of the store is inductive.
LEMMA WindowInvStep ==
    ASSUME WindowInv, [Next]_vars
    PROVE  WindowInv'
<1>1. TypeOK /\ StoreInv
  BY DEF WindowInv, StoreInv
<1>2. TypeOK'
  BY <1>1, TypedReceive, TypedDedup, TypedCommit, TypedProcess
     DEF Next, FlushStep, StoreInv
<1>3. CASE \/ ReceiveStep \/ (\E m \in Messages : Deliver(m) \/ Redeliver(m))
           \/ Sigterm \/ UNCHANGED vars
  <2>1. UNCHANGED <<batch, flusher, clock, objects>>
    BY <1>3 DEF ReceiveStep, Ack, Receive, Terminate, Deliver, Redeliver, Sigterm, vars
  <2> QED BY <1>1, <1>2, <2>1, OutsideInv DEF WindowInv, StoreInv
<1>4. CASE FlushStep \/ StopFlushing \/ CallFails \/ Crash
  <2>1. StoreInv'
    BY <1>1, <1>4, TickInv, DedupInv, CommitInv, CrashInv DEF FlushStep
  <2> QED BY <1>2, <2>1 DEF WindowInv, StoreInv
<1> QED BY <1>3, <1>4 DEF Next

LEMMA WindowInvInit == Init => WindowInv
<1> SUFFICES ASSUME Init PROVE WindowInv
  OBVIOUS
<1>1. <<>> \in Seq(Entries) /\ Len(<<>>) <= Capacity
  BY ConstantsOK DEF ConstantsOK
<1>2. TypeOK
  <2>1. Empty \in [Keys -> Seq(Entries)]
    BY <1>1 DEF Empty
  <2>2. NoWindows \in [Keys -> [Windows -> Seq(Entries)]]
    BY <1>1 DEF NoWindows
  <2>3. /\ inbox \in [Messages -> Nat] /\ resent \in 0 .. MaxRedeliveries
        /\ \A m \in Messages : inbox[m] <= IF status[m] = "stream" THEN 0 ELSE resent + 1
        /\ status \in [Messages -> {"stream", "out", "acked", "terminated"}]
    BY ConstantsOK DEF ConstantsOK, Init
  <2>4. clock \in 0 .. MaxFlushes /\ faults \in 0 .. MaxFaults
    BY ConstantsOK DEF ConstantsOK, Init
  <2>5. seen \in Seq(Entries) /\ Len(seen) <= Capacity
    BY <1>1 DEF Init
  <2> QED BY <1>1, <2>1, <2>2, <2>3, <2>4, <2>5 DEF Init, TypeOK
<1>3. StoreInv
  BY ConstantsOK DEF ConstantsOK, Init, Empty, NoWindows, StoreInv, FutureEmpty, OnceEach,
                     CommitInOrder, WholeWindows, ListedAreCommitted
<1> QED BY <1>2, <1>3 DEF WindowInv, StoreInv

\* The inductive invariant: types, and the order in which windows are written.
THEOREM TelemetryInvariant == Spec => []WindowInv
<1>1. WindowInv /\ [Next]_vars => WindowInv'
  BY WindowInvStep
<1> QED BY <1>1, WindowInvInit, PTL DEF Spec

\* Type correctness, with the bound on the SeenSet (dedup.go:52-56).
THEOREM TelemetryTypeCorrect == Spec => []TypeOK
<1>1. WindowInv => TypeOK
  BY DEF WindowInv
<1> QED BY <1>1, TelemetryInvariant, PTL

\* A marker vouches for the window beside it, whatever fails or dies in between
\* (store.go:80-102).
THEOREM WholeWindowsHolds == Spec => []WholeWindows
<1>1. WindowInv => WholeWindows
  BY DEF WindowInv
<1> QED BY <1>1, TelemetryInvariant, PTL

\* A manifest lists committed windows only (store.go:97-108).
THEOREM ListedAreCommittedHolds == Spec => []ListedAreCommitted
<1>1. WindowInv => ListedAreCommitted
  BY DEF WindowInv
<1> QED BY <1>1, TelemetryInvariant, PTL

\* What is stored, a step leaves stored.
LEMMA StoredStays ==
    ASSUME WindowInv, [Next]_vars, NEW r, Stored(r)
    PROVE  Stored(r)'
<1>1. PICK k \in Keys, w \in Windows :
          marker[k][w] = object[k][w] /\ \E e \in Range(object[k][w]) : e.reading = r
  BY DEF Stored
<1>2. marker[k][w] # <<>>
  BY <1>1 DEF Range
<1>3. object'[k][w] = object[k][w] /\ marker'[k][w] = marker[k][w]
  BY <1>2, WritesOnce
<1> QED BY <1>1, <1>3 DEF Stored

\* No flush of this process or a later one takes a stored reading away (store.go:69).
THEOREM StoredForGoodHolds == Spec => StoredForGood
<1>1. WindowInv /\ [Next]_vars => [\A r \in Readings : Stored(r) => Stored(r)']_vars
  BY StoredStays
<1> QED BY <1>1, TelemetryInvariant, PTL DEF Spec, StoredForGood
===============================================================================
