------------------------ MODULE TelemetryMemory_proofs ------------------------
(***************************************************************************)
(* Proofs about what TelemetryWorker has in memory: the SeenSet, the       *)
(* manifest it is about to replace and the readings it acknowledged.  The  *)
(* last two hold as long as nothing fails.                                 *)
(***************************************************************************)
EXTENDS Telemetry_proofs

-------------------------------------------------------------------------------
(* The SeenSet.                                                            *)

DedupInvariant == SeenIsRecent /\ DuplicatesFarApart

\* A new reading is marked: it is not among the last ones.
LEMMA MarkKeepsDistance ==
    ASSUME TypeOK, DedupInvariant, KeepNew
    PROVE  DedupInvariant'
<1> DEFINE e == Head(rest)
           L == Len(marked)
           S == Len(seen)
<1>1. /\ rest \in Seq(Entries) /\ rest # <<>> /\ seen \in Seq(Entries) /\ marked \in Seq(Entries)
      /\ Capacity \in Nat \ {0} /\ S <= Capacity
  BY ConstantsOK DEF ConstantsOK, TypeOK, KeepNew
<1>2. e \in Entries /\ L \in Nat /\ S \in Nat
  BY <1>1
<1>3. /\ seen' = Remember(e) /\ marked' = Append(marked, e) /\ e \notin Range(seen)
  BY DEF KeepNew, SeenRecently
<1>4. /\ S <= L /\ S \in {Capacity, L}
      /\ \A n \in 1 .. S : seen[n] = marked[L - S + n]
      /\ \A i, j \in 1 .. L : i < j /\ marked[i] = marked[j] => j - i > Capacity
  <2>1. DOMAIN marked = 1 .. L
    BY <1>1
  <2> QED BY <2>1 DEF DedupInvariant, SeenIsRecent, DuplicatesFarApart
<1>5. /\ Len(marked') = L + 1 /\ DOMAIN marked' = 1 .. L + 1
      /\ marked'[L + 1] = e /\ \A n \in 1 .. L : marked'[n] = marked[n]
  BY <1>1, <1>2, <1>3
<1>6. SeenIsRecent'
  <2>1. CASE S >= Capacity
    <3>1. S = Capacity /\ seen' = Append(Tail(seen), e)
      BY <1>1, <1>2, <1>3, <2>1 DEF Remember
    <3>2. Tail(seen) \in Seq(Entries) /\ Len(Tail(seen)) = S - 1
      BY <1>1, <1>2, <3>1
    <3>3. \A n \in 1 .. S - 1 : Tail(seen)[n] = seen[n + 1]
      BY <1>1, <1>2, <3>1
    <3>4. Len(seen') = S /\ seen'[S] = e /\ \A n \in 1 .. S - 1 : seen'[n] = seen[n + 1]
      BY <1>1, <1>2, <3>1, <3>2, <3>3
    <3>5. \A n \in 1 .. S : seen'[n] = marked'[L + 1 - S + n]
      <4>1. SUFFICES ASSUME NEW n \in 1 .. S
                     PROVE  seen'[n] = marked'[L + 1 - S + n]
        OBVIOUS
      <4>2. CASE n = S
        BY <1>2, <1>4, <1>5, <3>4, <4>2
      <4>3. CASE n # S
        <5>1. n \in 1 .. S - 1 /\ n + 1 \in 1 .. S /\ L - S + (n + 1) = L + 1 - S + n
              /\ L + 1 - S + n \in 1 .. L
          BY <1>2, <1>4, <4>3
        <5> QED BY <1>4, <1>5, <3>4, <5>1
      <4> QED BY <4>2, <4>3
    <3>6. \A n \in 1 .. Len(seen') : seen'[n] = marked'[Len(marked') - Len(seen') + n]
      <4>1. SUFFICES ASSUME NEW n \in 1 .. Len(seen')
                     PROVE  seen'[n] = marked'[Len(marked') - Len(seen') + n]
        OBVIOUS
      <4>2. n \in 1 .. S /\ Len(marked') - Len(seen') + n = L + 1 - S + n
        BY <1>5, <3>4, <4>1
      <4> HIDE DEF L, S
      <4> QED BY <3>5, <4>2
    <3>7. Len(seen') <= Len(marked') /\ Len(seen') \in {Capacity, Len(marked')}
      BY <1>2, <1>4, <1>5, <3>1, <3>4
    <3> QED BY <3>6, <3>7 DEF SeenIsRecent
  <2>2. CASE S < Capacity
    <3>1. seen' = Append(seen, e) /\ S = L
      BY <1>1, <1>2, <1>3, <1>4, <2>2 DEF Remember
    <3>2. Len(seen') = L + 1 /\ seen'[L + 1] = e /\ \A n \in 1 .. L : seen'[n] = seen[n]
      BY <1>1, <1>2, <3>1
    <3>3. \A n \in 1 .. L : L - S + n = n /\ (L + 1) - (L + 1) + n = n
      BY <1>2, <3>1
    <3>4. \A n \in 1 .. L + 1 : (L + 1) - (L + 1) + n = n /\ (n \in 1 .. L \/ n = L + 1)
      BY <1>2
    <3>5. \A n \in 1 .. L + 1 : seen'[n] = marked'[(L + 1) - (L + 1) + n]
      BY <1>4, <1>5, <3>1, <3>2, <3>3, <3>4
    <3> QED BY <1>2, <1>5, <3>2, <3>5 DEF SeenIsRecent
  <2> QED BY <1>1, <1>2, <2>1, <2>2
<1>7. ASSUME NEW i \in 1 .. L, marked[i] = e
      PROVE  L + 1 - i > Capacity
  <2>1. ~(i > L - S)
    <3>1. SUFFICES ASSUME i > L - S
                   PROVE  FALSE
      OBVIOUS
    <3>2. i - (L - S) \in 1 .. S /\ L - S + (i - (L - S)) = i
      BY <1>2, <1>4, <3>1
    <3>3. seen[i - (L - S)] = e
      BY <1>4, <1>7, <3>2
    <3> QED BY <1>1, <1>3, <3>2, <3>3 DEF Range
  <2> QED BY <1>1, <1>2, <1>4, <2>1
<1>8. DuplicatesFarApart'
  <2>1. SUFFICES ASSUME NEW i \in 1 .. L + 1, NEW j \in 1 .. L + 1, i < j, marked'[i] = marked'[j]
                 PROVE  j - i > Capacity
    BY <1>5 DEF DuplicatesFarApart
  <2>2. i \in 1 .. L /\ (j \in 1 .. L \/ j = L + 1)
    BY <1>2, <2>1
  <2>3. CASE j \in 1 .. L
    <3>1. marked[i] = marked[j]
      BY <1>5, <2>1, <2>2, <2>3
    <3> QED BY <1>4, <2>1, <2>2, <2>3, <3>1
  <2>4. CASE j = L + 1
    <3>1. marked[i] = e
      BY <1>5, <2>1, <2>2, <2>4
    <3> QED BY <1>7, <2>2, <2>4, <3>1
  <2> QED BY <2>2, <2>3, <2>4
<1> QED BY <1>6, <1>8 DEF DedupInvariant

\* Nothing else touches the SeenSet, but for the end of the process.
LEMMA DedupInvariantStep ==
    ASSUME TypeOK, DedupInvariant, [Next]_vars
    PROVE  DedupInvariant'
<1>1. CASE KeepNew
  BY <1>1, MarkKeepsDistance
<1>2. CASE UNCHANGED <<seen, marked>>
  BY <1>2 DEF DedupInvariant, SeenIsRecent, DuplicatesFarApart
<1>3. CASE Crash
  <2>1. seen' = <<>> /\ marked' = <<>>
    BY <1>3 DEF Crash
  <2> QED BY <2>1 DEF DedupInvariant, SeenIsRecent, DuplicatesFarApart
<1>4. KeepNew \/ Crash \/ UNCHANGED <<seen, marked>>
  BY DEF Next, Deliver, Redeliver, ReceiveStep, Ack, Receive, Terminate, FlushStep, Tick,
         EndFlush, DropSeen, DedupDone, TakeKey, CommitStep, PutStaging, CopyWindow,
         WriteMarker, ReadManifest, WriteManifest, StopFlushing, CallFails, Sigterm, vars,
         flusher
<1> QED BY <1>1, <1>2, <1>3, <1>4

\* Of two equal readings that one process writes, at least Capacity others lie between:
\* the oldest entry is the one that is evicted (dedup.go:46-58).
THEOREM DuplicatesFarApartHolds == Spec => []DuplicatesFarApart
<1>1. Init => DedupInvariant
  BY DEF Init, DedupInvariant, SeenIsRecent, DuplicatesFarApart
<1>2. TypeOK /\ DedupInvariant /\ [Next]_vars => DedupInvariant'
  BY DedupInvariantStep
<1>3. DedupInvariant => DuplicatesFarApart
  BY DEF DedupInvariant
<1> QED BY <1>1, <1>2, <1>3, TelemetryTypeCorrect, PTL DEF Spec

-------------------------------------------------------------------------------
(* As long as nothing fails.                                                *)

\* The fault counter never falls, and what fails or dies counts.
LEMMA SmoothSteps ==
    ASSUME TypeOK, ManifestInHand, [Next]_vars, faults' = 0
    PROVE  /\ faults = 0
           /\ ~(StopFlushing \/ CallFails \/ Sigterm \/ Crash)
           /\ ~stopping /\ UNCHANGED stopping
           /\ ReadManifest => known' = manifest[key]
           /\ Ack => status' = [status EXCEPT ![handled] = "acked"]
<1>1. faults \in Nat
  BY ConstantsOK DEF ConstantsOK, TypeOK
<1>2. ~Fault
  BY <1>1 DEF Fault
<1>3. faults = 0
  BY <1>2 DEF Next, Deliver, Redeliver, ReceiveStep, Ack, Receive, Terminate, FlushStep,
              Tick, EndFlush, DropSeen, KeepNew, DedupDone, TakeKey, CommitStep, PutStaging,
              CopyWindow, WriteMarker, ReadManifest, WriteManifest, StopFlushing, CallFails,
              CallDenied, Sigterm, Crash, vars
<1>4. ~stopping
  BY <1>3 DEF ManifestInHand
<1>5. ~(StopFlushing \/ CallFails \/ Sigterm \/ Crash)
  BY <1>2, <1>4 DEF StopFlushing, CallFails, CallDenied, Sigterm, Crash
<1>6. UNCHANGED stopping
  BY <1>5 DEF Next, Deliver, Redeliver, ReceiveStep, Ack, Receive, Terminate, FlushStep,
              Tick, EndFlush, DropSeen, KeepNew, DedupDone, TakeKey, CommitStep, PutStaging,
              CopyWindow, WriteMarker, ReadManifest, WriteManifest, vars
<1> QED BY <1>2, <1>3, <1>4, <1>5, <1>6 DEF ReadManifest, CallDenied, Ack

\* What WindowInv says of the commit in hand.
LEMMA InHandTyped ==
    ASSUME WindowInv, fpc \notin {"wait", "gone"}
    PROVE  /\ key \in Keys /\ clock \in Windows
           /\ marker \in [Keys -> [Windows -> Seq(Entries)]]
           /\ object \in [Keys -> [Windows -> Seq(Entries)]]
           /\ manifest \in [Keys -> SUBSET Windows]
           /\ fpc = "mark" => object[key][clock] = kept
BY DEF WindowInv, TypeOK, OnceEach, CommitInOrder

ManifestInvariant == ManifestInHand /\ ManifestComplete

\* The marker of the window in hand, then the manifest with what it listed before.
LEMMA ManifestInvariantStep ==
    ASSUME WindowInv, ManifestInvariant, [Next]_vars
    PROVE  ManifestInvariant'
<1> SUFFICES ASSUME faults' = 0
             PROVE  ManifestInvariant'
  BY DEF ManifestInvariant, ManifestInHand, ManifestComplete
<1>0. TypeOK
  BY DEF WindowInv
<1>1. /\ faults = 0 /\ ~(StopFlushing \/ CallFails \/ Sigterm \/ Crash)
      /\ ~stopping' /\ (ReadManifest => known' = manifest[key])
  BY <1>0, SmoothSteps DEF ManifestInvariant
<1>2. /\ fpc = "update" => known = manifest[key]
      /\ \A k \in Keys, w \in Windows :
            marker[k][w] # <<>> =>
                w \in manifest[k] \/ (k = key /\ w = clock /\ fpc \in {"get", "update"})
  BY <1>1 DEF ManifestInvariant, ManifestInHand, ManifestComplete
<1>3. SUFFICES /\ fpc' = "update" => known' = manifest'[key']
               /\ \A k \in Keys, w \in Windows :
                     marker'[k][w] # <<>> =>
                         w \in manifest'[k] \/ (k = key' /\ w = clock' /\ fpc' \in {"get", "update"})
  BY <1>1 DEF ManifestInvariant, ManifestInHand, ManifestComplete
<1>4. CASE UNCHANGED <<fpc, key, known, clock, marker, manifest>>
  BY <1>2, <1>4
<1>5. CASE Tick \/ EndFlush \/ DedupDone \/ (\E k \in Keys : TakeKey(k)) \/ PutStaging \/ CopyWindow
  <2>1. /\ fpc \notin {"get", "update"} /\ fpc' \notin {"get", "update"}
        /\ UNCHANGED <<marker, manifest>>
    BY <1>5 DEF Tick, EndFlush, DedupDone, TakeKey, PutStaging, CopyWindow, objects
  <2> QED BY <1>2, <2>1
<1>6. CASE WriteMarker
  <2>1. /\ marker' = [marker EXCEPT ![key][clock] = kept] /\ fpc = "mark" /\ fpc' = "get"
        /\ UNCHANGED <<key, clock, manifest>>
    BY <1>6 DEF WriteMarker, PutMarker
  <2> QED BY <1>2, <2>1, InHandTyped
<1>7. CASE ReadManifest
  <2>1. /\ fpc = "get" /\ fpc' = "update" /\ UNCHANGED <<key, clock, marker, manifest>>
        /\ known' = manifest[key]
    BY <1>1, <1>7 DEF ReadManifest, objects
  <2> QED BY <1>2, <2>1
<1>8. CASE WriteManifest
  <2>1. /\ fpc = "update" /\ fpc' = "next" /\ UNCHANGED <<key, clock, marker>>
        /\ manifest' = [manifest EXCEPT ![key] = known \cup {clock}]
    BY <1>8 DEF WriteManifest, PutManifest
  <2>2. \A k \in Keys, w \in Windows : marker[k][w] # <<>> => w \in manifest'[k]
    BY <1>2, <2>1, InHandTyped
  <2> QED BY <2>1, <2>2
<1>9. \/ UNCHANGED <<fpc, key, known, clock, marker, manifest>>
      \/ Tick \/ EndFlush \/ DedupDone \/ (\E k \in Keys : TakeKey(k)) \/ PutStaging \/ CopyWindow
      \/ WriteMarker \/ ReadManifest \/ WriteManifest
  BY <1>1 DEF Next, Deliver, Redeliver, ReceiveStep, Ack, Receive, Terminate, FlushStep,
              DropSeen, KeepNew, CommitStep, vars, flusher, objects
<1> QED BY <1>4, <1>5, <1>6, <1>7, <1>8, <1>9

LEMMA ManifestInvariantInit == Init => ManifestInvariant
BY DEF Init, NoWindows, ManifestInvariant, ManifestInHand, ManifestComplete

\* As long as nothing fails, the manifest lists every committed window but the one being
\* committed (store.go:107-149).
THEOREM ManifestCompleteHolds == Spec => []ManifestComplete
<1>1. WindowInv /\ ManifestInvariant /\ [Next]_vars => ManifestInvariant'
  BY ManifestInvariantStep
<1>2. ManifestInvariant => ManifestComplete
  BY DEF ManifestInvariant
<1> QED BY <1>1, <1>2, ManifestInvariantInit, TelemetryInvariant, PTL DEF Spec

\* The readings that are in memory or stored.
Held(r) == InMemory(r) \/ Stored(r)

\* What a step of the flushing goroutine has to show: it lets go only of what is stored.
LEMMA HeldKept ==
    ASSUME WindowInv, [Next]_vars, NEW r,
           InMemory(r) => Held(r)'
    PROVE  Held(r) => Held(r)'
BY StoredStays DEF Held

\* The elements of a sequence are its first and those of its tail.
LEMMA RangeOfTail ==
    ASSUME NEW s \in Seq(Entries), s # <<>>
    PROVE  Range(s) = {Head(s)} \cup Range(Tail(s))
<1>1. /\ Len(s) \in Nat \ {0} /\ Tail(s) \in Seq(Entries) /\ Len(Tail(s)) = Len(s) - 1
      /\ Head(s) = s[1] /\ \A n \in 1 .. Len(s) - 1 : Tail(s)[n] = s[n + 1]
  OBVIOUS
<1>2. DOMAIN s = 1 .. Len(s) /\ DOMAIN Tail(s) = 1 .. Len(s) - 1
  BY <1>1
<1>3. ASSUME NEW n \in 1 .. Len(s)
      PROVE  s[n] \in {Head(s)} \cup Range(Tail(s))
  <2>1. n = 1 \/ (n - 1 \in 1 .. Len(s) - 1 /\ (n - 1) + 1 = n)
    BY <1>1
  <2> QED BY <1>1, <1>2, <2>1 DEF Range
<1>4. ASSUME NEW n \in 1 .. Len(s) - 1
      PROVE  Tail(s)[n] \in Range(s)
  <2>1. n + 1 \in 1 .. Len(s)
    BY <1>1
  <2> QED BY <1>1, <1>2, <2>1 DEF Range
<1>5. Head(s) \in Range(s)
  BY <1>1, <1>2 DEF Range
<1>6. Range(s) \subseteq {Head(s)} \cup Range(Tail(s))
  BY <1>2, <1>3 DEF Range
<1>7. Range(Tail(s)) \subseteq Range(s)
  BY <1>2, <1>4 DEF Range
<1> QED BY <1>5, <1>6, <1>7

\* The elements of a sequence that grew are the old ones and the new one.
LEMMA RangeOfAppend ==
    ASSUME NEW s \in Seq(Entries), NEW e \in Entries
    PROVE  Range(Append(s, e)) = Range(s) \cup {e}
<1>1. /\ Len(s) \in Nat /\ DOMAIN s = 1 .. Len(s) /\ DOMAIN Append(s, e) = 1 .. Len(s) + 1
      /\ Append(s, e)[Len(s) + 1] = e /\ \A n \in 1 .. Len(s) : Append(s, e)[n] = s[n]
  OBVIOUS
<1>2. \A n \in 1 .. Len(s) + 1 : n \in 1 .. Len(s) \/ n = Len(s) + 1
  BY <1>1
<1>3. 1 .. Len(s) \subseteq 1 .. Len(s) + 1 /\ Len(s) + 1 \in 1 .. Len(s) + 1
  BY <1>1
<1>4. ASSUME NEW x \in Range(Append(s, e)) PROVE x \in Range(s) \cup {e}
  BY <1>1, <1>2 DEF Range
<1>5. ASSUME NEW x \in Range(s) \cup {e} PROVE x \in Range(Append(s, e))
  BY <1>1, <1>3 DEF Range
<1> QED BY <1>4, <1>5

\* NothingDropped without its condition.
HeldInOrder ==
    /\ fpc # "dedup" => rest = <<>>
    /\ fpc \notin {"dedup", "put", "copy", "mark"} => \A e \in Range(kept) : Stored(e.reading)
    /\ \A e \in Range(seen) : e \in Range(kept) \/ Stored(e.reading)
    /\ \A m \in Messages : (m = handled \/ status[m] = "acked") => Held(ReadingOf[m])

\* The flushing goroutine moves what it holds, or leaves it, and what is stored stays.
LEMMA HeldByReceive ==
    ASSUME WindowInv, [Next]_vars, HeldInOrder,
           UNCHANGED <<fpc, rest, kept, seen, batch>>,
           \A k \in Keys : Range(buf[k]) \subseteq Range(buf'[k]),
           \A m \in Messages : (m = handled' \/ status'[m] = "acked") =>
               Held(ReadingOf[m])' \/ m = handled \/ status[m] = "acked"
    PROVE  HeldInOrder'
<1>1. ASSUME NEW m \in Messages, Held(ReadingOf[m])
      PROVE  Held(ReadingOf[m])'
  <2>1. KeyOf[ReadingOf[m]] \in Keys
    BY ConstantsOK DEF ConstantsOK
  <2>2. InMemory(ReadingOf[m]) => InMemory(ReadingOf[m])'
    BY <2>1 DEF InMemory
  <2> QED BY <1>1, <2>2, StoredStays DEF Held
<1>2. \A m \in Messages : (m = handled' \/ status'[m] = "acked") => Held(ReadingOf[m])'
  BY <1>1 DEF HeldInOrder
<1> QED BY <1>2, StoredStays DEF HeldInOrder

\* Delivery, receipt and acknowledgement: the reading is in the buffer first.
LEMMA HeldByBroker ==
    ASSUME WindowInv, HeldInOrder, [Next]_vars, faults' = 0, ManifestInHand,
           ReceiveStep \/ (\E m \in Messages : Deliver(m) \/ Redeliver(m)) \/ UNCHANGED vars
    PROVE  HeldInOrder'
<1>0. TypeOK
  BY DEF WindowInv
<1>t. /\ buf \in [Keys -> Seq(Entries)] /\ status \in [Messages -> {"stream", "out", "acked", "terminated"}]
      /\ handled \in Messages \cup {NoMessage}
  BY <1>0 DEF TypeOK
<1>1. UNCHANGED <<fpc, rest, kept, seen, batch>>
  BY DEF ReceiveStep, Ack, Receive, Terminate, Deliver, Redeliver, vars, flusher
<1>2. ASSUME NEW m \in Messages, Receive(m)
      PROVE  HeldInOrder'
  <2> DEFINE k == KeyOf[ReadingOf[m]]
  <2>1. Entry(m) \in Entries /\ k \in Keys
    BY <1>0, <1>2, EntryTyped DEF Receive
  <2>2. buf' = [buf EXCEPT ![k] = Append(buf[k], Entry(m))] /\ handled' = m /\ UNCHANGED status
    BY <1>2 DEF Receive, Add, broker
  <2>3. buf[k] \in Seq(Entries)
    BY <1>t, <2>1
  <2>4. Range(Append(buf[k], Entry(m))) = Range(buf[k]) \cup {Entry(m)}
    BY <2>1, <2>3, RangeOfAppend
  <2>5. buf'[k] = Append(buf[k], Entry(m)) /\ \A l \in Keys : l # k => buf'[l] = buf[l]
    BY <1>t, <2>1, <2>2
  <2>6. \A l \in Keys : Range(buf[l]) \subseteq Range(buf'[l])
    BY <2>4, <2>5
  <2>7. Entry(m) \in Range(buf'[k]) /\ Entry(m).reading = ReadingOf[m]
    BY <2>4, <2>5 DEF Entry
  <2>8. Held(ReadingOf[m])'
    BY <2>7 DEF Held, InMemory
  <2> QED BY <1>1, <2>2, <2>6, <2>8, HeldByReceive
<1>3. CASE \/ Ack \/ UNCHANGED vars
           \/ \E m \in Messages : Terminate(m) \/ Deliver(m) \/ Redeliver(m)
  <2>1. UNCHANGED buf
    BY <1>3 DEF Ack, Terminate, Deliver, Redeliver, vars
  <2>2. \A m \in Messages : (m = handled' \/ status'[m] = "acked") => m = handled \/ status[m] = "acked"
    <3>1. CASE Ack
      <4>1. handled' = NoMessage /\ status' = [status EXCEPT ![handled] = "acked"]
            /\ NoMessage \notin Messages
        BY <1>0, <3>1, SmoothSteps, ConstantsOK DEF Ack, ConstantsOK
      <4> QED BY <1>t, <4>1
    <3>2. ASSUME NEW n \in Messages, Terminate(n) \/ Deliver(n)
          PROVE  \A m \in Messages : (m = handled' \/ status'[m] = "acked") => m = handled \/ status[m] = "acked"
      <4>1. UNCHANGED handled /\ (\/ status' = [status EXCEPT ![n] = "terminated"]
                                  \/ status' = [status EXCEPT ![n] = "out"] \/ UNCHANGED status)
        BY <3>2 DEF Terminate, Deliver
      <4> QED BY <1>t, <4>1
    <3>3. CASE UNCHANGED vars \/ \E m \in Messages : Redeliver(m)
      BY <3>3 DEF vars, broker, Redeliver
    <3> QED BY <1>3, <3>1, <3>2, <3>3
  <2> QED BY <1>1, <2>1, <2>2, HeldByReceive
<1> QED BY <1>2, <1>3 DEF ReceiveStep

\* The flushing goroutine lets go of a reading only when it is stored.
LEMMA HeldByFlush ==
    ASSUME WindowInv, HeldInOrder, FlushStep
    PROVE  HeldInOrder'
<1>0. /\ batch \in [Keys -> Seq(Entries)] /\ rest \in Seq(Entries) /\ kept \in Seq(Entries)
      /\ seen \in Seq(Entries) /\ Capacity \in Nat \ {0} /\ Len(seen) <= Capacity
  BY ConstantsOK DEF ConstantsOK, WindowInv, TypeOK
<1>1. UNCHANGED <<status, handled>> /\ Next
  BY DEF Next, FlushStep, CommitStep, Tick, EndFlush, DropSeen, KeepNew, DedupDone, TakeKey,
         PutStaging, CopyWindow, WriteMarker, ReadManifest, WriteManifest, broker
<1>2. \A r : Stored(r) => Stored(r)'
  BY <1>1, StoredStays
<1>3. ASSUME \A m \in Messages : InMemory(ReadingOf[m]) => Held(ReadingOf[m])'
      PROVE  \A m \in Messages : (m = handled' \/ status'[m] = "acked") => Held(ReadingOf[m])'
  BY <1>1, <1>3, HeldKept DEF HeldInOrder
<1>k. \A m \in Messages : KeyOf[ReadingOf[m]] \in Keys
  BY ConstantsOK DEF ConstantsOK
<1>n. \A e : e \notin Range(<<>>)
  BY DEF Range
<1>4. CASE Tick
  <2>1. /\ fpc = "wait" /\ fpc' = "next" /\ batch' = buf /\ buf' = Empty /\ batch = Empty
        /\ UNCHANGED <<rest, kept, seen>>
    BY <1>4 DEF Tick, WindowInv, OnceEach
  <2>2. \A m \in Messages : InMemory(ReadingOf[m]) => InMemory(ReadingOf[m])'
    <3>1. \A k \in Keys : batch[k] = <<>>
      BY <2>1 DEF Empty
    <3> QED BY <1>k, <1>n, <2>1, <3>1 DEF InMemory
  <2> QED BY <1>2, <1>3, <2>1, <2>2 DEF HeldInOrder, Held
<1>5. ASSUME NEW k \in Keys, TakeKey(k)
      PROVE  HeldInOrder'
  <2>1. /\ fpc = "next" /\ fpc' = "dedup" /\ rest' = batch[k] /\ kept' = <<>>
        /\ batch' = [batch EXCEPT ![k] = <<>>] /\ UNCHANGED <<buf, seen>>
    BY <1>5 DEF TakeKey
  <2>2. rest = <<>> /\ \A e \in Range(kept) : Stored(e.reading)
    BY <2>1 DEF HeldInOrder
  <2>3. \A l \in Keys : l # k => batch'[l] = batch[l]
    BY <1>0, <2>1
  <2>4. \A m \in Messages : InMemory(ReadingOf[m]) => Held(ReadingOf[m])'
    <3>1. SUFFICES ASSUME NEW m \in Messages, InMemory(ReadingOf[m])
                   PROVE  Held(ReadingOf[m])'
      OBVIOUS
    <3> DEFINE r == ReadingOf[m]
    <3>2. PICK s \in {buf[KeyOf[r]], batch[KeyOf[r]], rest, kept} : \E e \in Range(s) : e.reading = r
      BY <3>1 DEF InMemory
    <3>3. CASE s = kept
      BY <1>2, <2>2, <3>2, <3>3 DEF Held
    <3>4. CASE s = buf[KeyOf[r]] \/ (s = batch[KeyOf[r]] /\ KeyOf[r] # k)
      BY <1>k, <2>1, <2>3, <3>2, <3>4 DEF Held, InMemory
    <3>5. CASE s = batch[KeyOf[r]] /\ KeyOf[r] = k
      BY <2>1, <3>2, <3>5 DEF Held, InMemory
    <3>6. s # rest
      BY <1>n, <2>2, <3>2
    <3> QED BY <3>2, <3>3, <3>4, <3>5, <3>6
  <2> QED BY <1>2, <1>3, <2>1, <2>2, <2>4 DEF HeldInOrder
<1>6. CASE DropSeen
  <2>1. /\ fpc = "dedup" /\ rest # <<>> /\ Head(rest) \in Range(seen) /\ rest' = Tail(rest)
        /\ UNCHANGED <<fpc, buf, batch, kept, seen>>
    BY <1>6 DEF DropSeen, SeenRecently
  <2>2. Range(rest) = {Head(rest)} \cup Range(Tail(rest))
    BY <1>0, <2>1, RangeOfTail
  <2>3. \A m \in Messages : InMemory(ReadingOf[m]) => Held(ReadingOf[m])'
    <3>1. SUFFICES ASSUME NEW m \in Messages, InMemory(ReadingOf[m])
                   PROVE  Held(ReadingOf[m])'
      OBVIOUS
    <3> DEFINE r == ReadingOf[m]
    <3>2. PICK s \in {buf[KeyOf[r]], batch[KeyOf[r]], rest, kept} : \E e \in Range(s) : e.reading = r
      BY <3>1 DEF InMemory
    <3>3. CASE s # rest
      BY <2>1, <3>2, <3>3 DEF Held, InMemory
    <3>4. CASE s = rest
      <4>1. PICK e \in {Head(rest)} \cup Range(Tail(rest)) : e.reading = r
        BY <2>2, <3>2, <3>4
      <4>2. CASE e \in Range(Tail(rest))
        BY <2>1, <4>1, <4>2 DEF Held, InMemory
      <4>3. CASE e = Head(rest)
        <5>1. e \in Range(kept) \/ Stored(r)
          BY <2>1, <4>1, <4>3 DEF HeldInOrder
        <5> QED BY <1>2, <2>1, <4>1, <5>1 DEF Held, InMemory
      <4> QED BY <4>1, <4>2, <4>3
    <3> QED BY <3>3, <3>4
  <2> QED BY <1>2, <1>3, <2>1, <2>3 DEF HeldInOrder
<1>7. CASE KeepNew
  <2> DEFINE e == Head(rest)
  <2>1. /\ fpc = "dedup" /\ rest # <<>> /\ rest' = Tail(rest)
        /\ kept' = Append(kept, e) /\ seen' = Remember(e)
        /\ UNCHANGED <<fpc, buf, batch>>
    BY <1>7 DEF KeepNew
  <2>2. Range(rest) = {e} \cup Range(Tail(rest)) /\ e \in Entries
    BY <1>0, <2>1, RangeOfTail
  <2>3. Range(kept') = Range(kept) \cup {e}
    BY <1>0, <2>1, <2>2, RangeOfAppend
  <2>4. Range(seen') \subseteq Range(seen) \cup {e}
    <3>1. CASE Len(seen) >= Capacity
      <4>1. seen # <<>> /\ Tail(seen) \in Seq(Entries)
        BY <1>0, <3>1
      <4>2. seen' = Append(Tail(seen), e)
        BY <2>1, <3>1 DEF Remember
      <4> HIDE DEF e
      <4>3. Range(seen') = Range(Tail(seen)) \cup {e}
        BY <2>2, <4>1, <4>2, RangeOfAppend
      <4>4. Range(Tail(seen)) \subseteq Range(seen)
        BY <1>0, <4>1, RangeOfTail
      <4> QED BY <4>3, <4>4
    <3>2. CASE ~(Len(seen) >= Capacity)
      BY <1>0, <2>1, <2>2, <3>2, RangeOfAppend DEF Remember
    <3> QED BY <3>1, <3>2
  <2> HIDE DEF e
  <2>5. \A m \in Messages : InMemory(ReadingOf[m]) => Held(ReadingOf[m])'
    BY <2>1, <2>2, <2>3 DEF Held, InMemory
  <2> QED BY <1>2, <1>3, <2>1, <2>3, <2>4, <2>5 DEF HeldInOrder
<1>8. CASE DedupDone \/ EndFlush
  <2>1. /\ UNCHANGED <<rest, kept, seen, buf, batch>>
        /\ fpc = "dedup" => rest = <<>> /\ (kept = <<>> \/ fpc' = "put")
        /\ fpc # "dedup" => fpc = "next" /\ fpc' = "wait"
    BY <1>8 DEF DedupDone, EndFlush
  <2>2. \A m \in Messages : InMemory(ReadingOf[m]) => Held(ReadingOf[m])'
    BY <2>1 DEF Held, InMemory
  <2> QED BY <1>2, <1>3, <1>n, <2>1, <2>2 DEF HeldInOrder
<1>9. CASE CommitStep
  <2>1. /\ UNCHANGED <<rest, kept, seen, buf, batch>>
        /\ fpc \notin {"dedup", "wait", "gone"} /\ fpc' # "dedup"
        /\ fpc \in {"put", "copy", "mark"} => fpc' \in {"put", "copy", "mark"} \/ WriteMarker
    BY <1>9 DEF CommitStep, PutStaging, CopyWindow, WriteMarker, ReadManifest, WriteManifest
  <2>2. WriteMarker => \A e \in Range(kept) : Stored(e.reading)'
    <3>1. SUFFICES ASSUME WriteMarker, NEW e \in Range(kept)
                   PROVE  Stored(e.reading)'
      OBVIOUS
    <3>2. /\ marker' = [marker EXCEPT ![key][clock] = kept] /\ UNCHANGED <<object, clock, key>>
          /\ fpc = "mark"
      BY <3>1 DEF WriteMarker, PutMarker
    <3>3. /\ key \in Keys /\ clock \in Windows
          /\ marker'[key][clock] = kept /\ object'[key][clock] = kept
      BY <3>2, InHandTyped
    <3> QED BY <3>1, <3>3 DEF Stored
  <2>3. \A m \in Messages : InMemory(ReadingOf[m]) => Held(ReadingOf[m])'
    BY <2>1 DEF Held, InMemory
  <2> QED BY <1>2, <1>3, <2>1, <2>2, <2>3 DEF HeldInOrder
<1> QED BY <1>4, <1>5, <1>6, <1>7, <1>8, <1>9 DEF FlushStep

\* As long as nothing fails, an acknowledged reading is in memory or stored: none is lost
\* between the two goroutines, or taken for a duplicate of one that is gone
\* (buffer.go:30-36, flush.go:26-45).
THEOREM NothingForgottenHolds == Spec => []NothingForgotten
<1>1. Init => NothingDropped /\ ManifestInvariant
  <2> SUFFICES ASSUME Init PROVE NothingDropped /\ ManifestInvariant
    OBVIOUS
  <2>1. \A m \in Messages : m # handled /\ status[m] # "acked"
    BY ConstantsOK DEF ConstantsOK, Init
  <2>2. rest = <<>> /\ kept = <<>> /\ seen = <<>>
    BY DEF Init
  <2>3. \A e : e \notin Range(<<>>)
    BY DEF Range
  <2> QED BY <2>1, <2>2, <2>3, ManifestInvariantInit DEF NothingDropped
<1>2. ASSUME WindowInv, ManifestInvariant, NothingDropped, [Next]_vars
      PROVE  ManifestInvariant' /\ NothingDropped'
  <2>1. ManifestInvariant'
    BY <1>2, ManifestInvariantStep
  <2>2. SUFFICES ASSUME faults' = 0
                 PROVE  HeldInOrder'
    BY <2>1 DEF NothingDropped, HeldInOrder, Held
  <2>3. ManifestInHand /\ TypeOK
    BY <1>2 DEF ManifestInvariant, WindowInv
  <2>4. faults = 0 /\ ~(StopFlushing \/ CallFails \/ Sigterm \/ Crash)
    BY <1>2, <2>2, <2>3, SmoothSteps
  <2>5. HeldInOrder
    BY <1>2, <2>4 DEF NothingDropped, HeldInOrder, Held
  <2> QED BY <1>2, <2>2, <2>3, <2>4, <2>5, HeldByBroker, HeldByFlush DEF Next
<1>3. NothingDropped => NothingForgotten
  BY DEF NothingDropped, NothingForgotten
<1>4. WindowInv /\ (ManifestInvariant /\ NothingDropped) /\ [Next]_vars
          => (ManifestInvariant /\ NothingDropped)'
  BY <1>2
<1> QED BY <1>1, <1>3, <1>4, TelemetryInvariant, PTL DEF Spec

===============================================================================
