------------------------- MODULE Reconstruction_proofs -------------------------
(***************************************************************************)
(* Proofs about Reconstruction, for any number of attempts, slots and      *)
(* faults.  The pipeline itself, its eight stages and their dependencies,  *)
(* is the one in the code.                                                 *)
(***************************************************************************)
EXTENDS Reconstruction, FiniteSetTheorems, TLAPS

-------------------------------------------------------------------------------
(* The pipeline.                                                            *)

\* The eight stages and their order.
LEMMA Stages ==
    /\ Last = 8
    /\ DOMAIN pipelineStages = 1 .. 8
    /\ \A i \in 1 .. 8 : pipelineStages[i] \in StageNames
    /\ \A s \in StageNames : \E i \in 1 .. 8 : s = pipelineStages[i]
    /\ \A i, j \in 1 .. 8 : pipelineStages[i] = pipelineStages[j] => i = j
<1>1. Last = 8 /\ DOMAIN pipelineStages = 1 .. 8
  BY DEF Last, pipelineStages
<1>2. \A i, j \in 1 .. 8 : pipelineStages[i] = pipelineStages[j] => i = j
  BY DEF pipelineStages
<1> QED BY <1>1, <1>2 DEF StageNames, Range

\* The stages a stage needs are earlier ones.
LEMMA Dependencies ==
    ASSUME NEW i \in 1 .. 8
    PROVE  /\ i = 1 <=> stageDeps[pipelineStages[i]] = <<>>
           /\ \A n \in DOMAIN stageDeps[pipelineStages[i]] :
                \E j \in 1 .. i - 1 : stageDeps[pipelineStages[i]][n] = pipelineStages[j]
<1> DEFINE d == stageDeps[pipelineStages[i]]
<1>0. pipelineStages[i] \in StageNames
  BY Stages
<1>1. CASE i = 1
  <2>1. d = <<>>
    BY <1>0, <1>1 DEF stageDeps, pipelineStages
  <2> QED BY <1>1, <2>1
<1>2. CASE i = 2 \/ i = 3
  <2>1. d = <<"Curation">>
    BY <1>0, <1>2 DEF stageDeps, pipelineStages
  <2> QED BY <1>2, <2>1 DEF pipelineStages
<1>4. CASE i = 4
  <2>1. d = <<"Curation", "SfM", "Masking">>
    BY <1>0, <1>4 DEF stageDeps, pipelineStages
  <2> QED BY <1>4, <2>1 DEF pipelineStages
<1>5. CASE i = 5
  <2>1. d = <<"Curation", "SfM", "Depth", "Masking">>
    BY <1>0, <1>5 DEF stageDeps, pipelineStages
  <2>2. /\ pipelineStages[1] = "Curation" /\ pipelineStages[2] = "SfM"
        /\ pipelineStages[3] = "Masking" /\ pipelineStages[4] = "Depth"
    BY DEF pipelineStages
  <2> QED BY <1>5, <2>1, <2>2
<1>6. CASE i = 6
  <2>1. d = <<"Dense3DGS">>
    BY <1>0, <1>6 DEF stageDeps, pipelineStages
  <2> QED BY <1>6, <2>1 DEF pipelineStages
<1>7. CASE i = 7
  <2>1. d = <<"Meshing">>
    BY <1>0, <1>7 DEF stageDeps, pipelineStages
  <2> QED BY <1>7, <2>1 DEF pipelineStages
<1>8. CASE i = 8
  <2>1. d = <<"Meshing", "Georef">>
    BY <1>0, <1>8 DEF stageDeps, pipelineStages
  <2> QED BY <1>8, <2>1 DEF pipelineStages
<1> QED BY <1>1, <1>2, <1>4, <1>5, <1>6, <1>7, <1>8

\* They are given as a sequence.
LEMMA DependencySequence ==
    ASSUME NEW s \in StageNames
    PROVE  stageDeps[s] = [n \in DOMAIN stageDeps[s] |-> stageDeps[s][n]]
<1>1. stageDeps[s] \in {<<>>, <<"Curation">>, <<"Curation", "SfM", "Masking">>,
                        <<"Curation", "SfM", "Depth", "Masking">>, <<"Dense3DGS">>,
                        <<"Meshing">>, <<"Meshing", "Georef">>}
  BY DEF stageDeps, StageNames, pipelineStages, Range
<1> DEFINE q == stageDeps[s]
<1> HIDE DEF q
<1>2. CASE q = <<>> BY <1>2 DEF q
<1>3. CASE q = <<"Curation">> BY <1>3 DEF q
<1>4. CASE q = <<"Curation", "SfM", "Masking">> BY <1>4 DEF q
<1>5. CASE q = <<"Curation", "SfM", "Depth", "Masking">> BY <1>5 DEF q
<1>6. CASE q = <<"Dense3DGS">> BY <1>6 DEF q
<1>7. CASE q = <<"Meshing">> BY <1>7 DEF q
<1>8. CASE q = <<"Meshing", "Georef">> BY <1>8 DEF q
<1> QED BY <1>1, <1>2, <1>3, <1>4, <1>5, <1>6, <1>7, <1>8 DEF q

\* A command that is issued with the memory of i - 1 stages is the i-th one, in
\* whatever order the parameters are gone through.
LEMMA CommandIssued ==
    ASSUME at \in 1 .. 8, outputs = OutputsAt(at - 1), shared = SharedAt(at - 1),
           NEW order \in IterationOrders(DOMAIN StageParams(pipelineStages[at]))
    PROVE  Scheduled(pipelineStages[at], order) = CommandAt(at)
<1> DEFINE s == pipelineStages[at]
<1>1. StageParams(s) = ParamsAt(at)
  BY DEF StageParams, ParamsAt
<1>2. StageInputURIs(s) = URIsAt(at)
  <2>1. CASE at = 1
    BY <2>1, Dependencies DEF StageInputURIs, URIsAt
  <2>2. CASE at # 1
    <3>1. s \in StageNames /\ stageDeps[s] # <<>>
      BY <2>2, Stages, Dependencies
    <3>2. ASSUME NEW n \in DOMAIN stageDeps[s]
          PROVE  outputs[stageDeps[s][n]].uri = stageDeps[s][n]
      <4>1. PICK j \in 1 .. at - 1 : stageDeps[s][n] = pipelineStages[j]
        BY Dependencies
      <4>2. pipelineStages[j] \in StageNames
        BY Stages
      <4> QED BY <4>1, <4>2 DEF OutputsAt
    <3>3. stageDeps[s] = [n \in DOMAIN stageDeps[s] |-> stageDeps[s][n]]
      BY <3>1, DependencySequence
    <3> QED BY <2>2, <3>1, <3>2, <3>3 DEF StageInputURIs, URIsAt
  <2> QED BY <2>1, <2>2
<1>3. Range(order) = DOMAIN ParamsAt(at)
  BY <1>1 DEF IterationOrders, Bijection, Injection, Surjection, Range
<1>4. ComputeInputHash(StageInputURIs(s), StageParams(s), order) = HashAt(at)
  BY <1>1, <1>2, <1>3 DEF ComputeInputHash, HashAt
<1> QED BY <1>1, <1>2, <1>4 DEF Scheduled, CommandAt

\* The memory of i stages is that of i - 1 stages with the i-th result.
LEMMA ResultTaken ==
    ASSUME NEW i \in 1 .. 8, outputs = OutputsAt(i - 1), shared = SharedAt(i - 1)
    PROVE  LET out == [uri |-> Success(i).uri, hash |-> Success(i).hash]
           IN  /\ [outputs EXCEPT ![pipelineStages[i]] = out] = OutputsAt(i)
               /\ Share(pipelineStages[i], out) = SharedAt(i)
<1> DEFINE s == pipelineStages[i]
           out == [uri |-> Success(i).uri, hash |-> Success(i).hash]
<1>1. out = [uri |-> s, hash |-> HashOf(s)]
  BY DEF Success
<1>2. [outputs EXCEPT ![s] = out] = OutputsAt(i)
  <2>1. s \in StageNames
    BY Stages
  <2>2. \A t \in StageNames :
          (\E j \in 1 .. i : t = pipelineStages[j]) <=> (\E j \in 1 .. i - 1 : t = pipelineStages[j]) \/ t = s
    OBVIOUS
  <2> QED BY <1>1, <2>1, <2>2 DEF OutputsAt
<1>3. Share(s, out) = SharedAt(i)
  <2>1. CASE i = 1
    <3>1. s = "Curation"
      BY <2>1 DEF pipelineStages
    <3> QED BY <1>1, <2>1, <3>1 DEF Share, SharedAt, HashOf
  <2>2. CASE i = 2
    <3>1. s = "SfM"
      BY <2>2 DEF pipelineStages
    <3> QED BY <1>1, <2>2, <3>1 DEF Share, SharedAt, HashOf
  <2>3. CASE i > 2
    <3>1. s # "Curation" /\ s # "SfM"
      BY <2>3 DEF pipelineStages
    <3> QED BY <2>3, <3>1 DEF Share, SharedAt
  <2> QED BY <2>1, <2>2, <2>3
<1> QED BY <1>2, <1>3

\* What the i-th command makes its stage report.
LEMMA ReportedHash ==
    ASSUME NEW i \in 1 .. 8
    PROVE  OutputHash(CommandAt(i)) = HashOf(pipelineStages[i])
<1>1. CASE i <= 3
  <2>1. pipelineStages[i] \in {"Curation", "SfM", "Masking"}
    BY <1>1 DEF pipelineStages
  <2> QED BY <2>1 DEF OutputHash, CommandAt, HashOf
<1>2. CASE i > 3
  <2>1. pipelineStages[i] \notin {"Curation", "SfM", "Masking"}
    BY <1>2 DEF pipelineStages
  <2>2. ParamsAt(i)["attempt_id"] = "attempt"
    BY <1>2 DEF ParamsAt, SharedAt
  <2> QED BY <2>1, <2>2 DEF OutputHash, CommandAt, HashOf
<1> QED BY <1>1, <1>2

\* The memory of a worker that has not gone through anything.
LEMMA InitialMemory ==
    /\ [s \in StageNames |-> NoOutput] = OutputsAt(0)
    /\ [k \in {} |-> ""] = SharedAt(0)
<1>1. 1 .. 0 = {}
  OBVIOUS
<1>2. [s \in StageNames |-> NoOutput] = OutputsAt(0)
  BY <1>1 DEF OutputsAt
<1>3. {l \in {"set_id", "attempt_id"} : IF l = "set_id" THEN 0 >= 1 ELSE 0 >= 2} = {}
  OBVIOUS
<1>4. DOMAIN SharedAt(0) = {}
  BY <1>3 DEF SharedAt
<1>5. [k \in {} |-> ""] = SharedAt(0)
  BY <1>3, <1>4 DEF SharedAt
<1> QED BY <1>2, <1>5

-------------------------------------------------------------------------------
(* The history. *)

\* Appending to a sequence over its own elements.
LEMMA AppendSelf ==
    ASSUME NEW h, h \in Seq(Range(h)), NEW e
    PROVE  /\ Append(h, e) \in Seq(Range(Append(h, e)))
           /\ Len(h) \in Nat /\ Len(Append(h, e)) = Len(h) + 1
           /\ \A n \in 1 .. Len(h) : Append(h, e)[n] = h[n]
           /\ Append(h, e)[Len(h) + 1] = e
<1> DEFINE S == Range(h) \cup {e}
           g == Append(h, e)
<1>1. e \in S /\ Range(h) \subseteq S
  OBVIOUS
<1>2. h \in Seq(S)
  <2> HIDE DEF S
  <2> QED BY <1>1
<1>3. /\ g \in Seq(S) /\ Len(h) \in Nat /\ Len(g) = Len(h) + 1
      /\ DOMAIN h = 1 .. Len(h) /\ DOMAIN g = 1 .. Len(h) + 1
      /\ \A n \in 1 .. Len(h) : g[n] = h[n]
      /\ g[Len(h) + 1] = e
  <2> HIDE DEF S
  <2> QED BY <1>1, <1>2
<1>4. Range(g) = S
  <2> HIDE DEF g
  <2> QED BY <1>3 DEF Range
<1> QED BY <1>3, <1>4

\* The fields that tell the events apart.
LEMMA Events ==
    ASSUME NEW i \in 1 .. 8
    PROVE  /\ CommandAt(i).type = "scheduled" /\ CommandAt(i).stage = pipelineStages[i]
           /\ Success(i).type = "completed" /\ Success(i).stage = pipelineStages[i]
BY DEF CommandAt, Success

\* HistoryShape in numbers.
LEMMA Shape ==
    ASSUME HistoryShape
    PROVE  /\ history \in Seq(Range(history))
           /\ Len(history) \in 0 .. 16
           /\ \A i \in 1 .. 8 :
                /\ 2 * i - 1 <= Len(history) => history[2 * i - 1] = CommandAt(i)
                /\ 2 * i < Len(history) => history[2 * i] = Success(i)
                /\ 2 * i = Len(history) => history[2 * i] = Success(i) \/ Failed(2 * i, i)
<1>1. Len(history) \in Nat
  BY DEF HistoryShape
<1>2. Last = 8
  BY Stages
<1>3. /\ history \in Seq(Range(history)) /\ Len(history) <= 16
      /\ \A i \in 1 .. Last :
           /\ 2 * i - 1 <= Len(history) => history[2 * i - 1] = CommandAt(i)
           /\ 2 * i < Len(history) => history[2 * i] = Success(i)
           /\ 2 * i = Len(history) => history[2 * i] = Success(i) \/ Failed(2 * i, i)
  BY <1>2 DEF HistoryShape
<1>4. Len(history) \in 0 .. 16
  <2>1. Len(history) <= 16
    BY <1>3, Zenon
  <2>2. \A n \in Nat : n <= 16 => n \in 0 .. 16
    OBVIOUS
  <2> QED BY <1>1, <2>1, <2>2, Zenon
<1>5. 1 .. Last = 1 .. 8
  BY <1>2
<1> QED BY <1>3, <1>4, <1>5, Zenon

\* The history grows by a command, once the stages before it have succeeded, or by
\* the result of the last command.
LEMMA HistoryGrows ==
    ASSUME HistoryShape, NEW i \in 1 .. 8, NEW e, history' = Append(history, e),
           \/ Len(history) = 2 * (i - 1) /\ e = CommandAt(i)
              /\ \A j \in 1 .. i - 1 : history[2 * j] = Success(j)
           \/ Len(history) = 2 * i - 1
              /\ (e = Success(i) \/ (e.type = "failed" /\ e.stage = pipelineStages[i]))
    PROVE  /\ HistoryShape'
           /\ Len(history') = Len(history) + 1
           /\ \A n \in 1 .. Len(history) : history'[n] = history[n]
           /\ history'[Len(history) + 1] = e
<1> DEFINE L == Len(history)
<1>1. /\ L \in 0 .. 16
      /\ \A k \in 1 .. 8 :
           /\ 2 * k - 1 <= L => history[2 * k - 1] = CommandAt(k)
           /\ 2 * k < L => history[2 * k] = Success(k)
  BY Shape
<1>0. L \in 0 .. 16
  BY Shape
<1>2. /\ history' \in Seq(Range(history')) /\ Len(history') = L + 1
      /\ \A n \in 1 .. L : history'[n] = history[n]
      /\ history'[L + 1] = e
  BY AppendSelf DEF HistoryShape
<1> HIDE DEF L
<1>3. L + 1 <= 16
  BY <1>1 DEF L
<1>4. ASSUME NEW k \in 1 .. 8, 2 * k - 1 <= L + 1
      PROVE  history'[2 * k - 1] = CommandAt(k)
  <2>1. CASE 2 * k - 1 <= L
    BY <1>1, <1>2, <2>1
  <2>2. CASE 2 * k - 1 = L + 1
    <3>1. L = 2 * (i - 1) /\ e = CommandAt(i)
      BY <1>1, <2>2 DEF L
    <3>2. k = i
      BY <2>2, <3>1
    <3> QED BY <1>2, <2>2, <3>1, <3>2
  <2>3. 2 * k - 1 <= L \/ 2 * k - 1 = L + 1
    BY <1>0, <1>4
  <2> QED BY <2>1, <2>2, <2>3, Zenon
<1>5. ASSUME NEW k \in 1 .. 8, 2 * k < L + 1
      PROVE  history'[2 * k] = Success(k)
  <2>1. CASE 2 * k < L
    BY <1>1, <1>2, <2>1
  <2>2. CASE 2 * k = L
    <3>1. L = 2 * (i - 1) /\ (\A j \in 1 .. i - 1 : history[2 * j] = Success(j))
      BY <1>1, <2>2 DEF L
    <3>2. k \in 1 .. i - 1
      BY <2>2, <3>1
    <3> QED BY <1>1, <1>2, <2>2, <3>1, <3>2
  <2>3. 2 * k < L \/ 2 * k = L
    BY <1>0, <1>5
  <2> QED BY <2>1, <2>2, <2>3, Zenon
<1>6. ASSUME NEW k \in 1 .. 8, 2 * k = L + 1
      PROVE  history'[2 * k] = Success(k) \/ Failed(2 * k, k)'
  <2>1. L = 2 * i - 1 /\ (e = Success(i) \/ (e.type = "failed" /\ e.stage = pipelineStages[i]))
    BY <1>1, <1>6 DEF L
  <2>2. k = i
    BY <1>6, <2>1
  <2> QED BY <1>2, <1>6, <2>1, <2>2 DEF Failed
<1>7. HistoryShape'
  <2>1. 1 .. Last = 1 .. 8 /\ 2 * Last = 16
    BY Stages
  <2>2. Len(history') <= 16 /\ history' \in Seq(Range(history'))
    BY <1>2, <1>3
  <2>3. \A k \in 1 .. 8 :
          /\ 2 * k - 1 <= Len(history') => history'[2 * k - 1] = CommandAt(k)
          /\ 2 * k < Len(history') => history'[2 * k] = Success(k)
          /\ 2 * k = Len(history') => history'[2 * k] = Success(k) \/ Failed(2 * k, k)'
    BY <1>2, <1>4, <1>5, <1>6
  <2> QED BY <2>1, <2>2, <2>3, Zenon DEF HistoryShape
<1> QED BY <1>2, <1>7 DEF L
-------------------------------------------------------------------------------
(* The invariant. *)

LEMMA Eight ==
    /\ 1 .. Last = 1 .. 8 /\ 1 .. Last + 1 = 1 .. 9 /\ 2 * Last = 16
    /\ Len(pipelineStages) = 8
BY Stages DEF Last

\* The server's part and the worker's part in numbers.
LEMMA Position ==
    ASSUME RunInv
    PROVE  /\ Len(history) \in 0 .. 16 /\ seen \in 0 .. Len(history) /\ at \in 1 .. 9
           /\ mode \in {"issue", "wait"}
           /\ attempt \in 0 .. MaxAttempts
           /\ attempt = 0 => \E i \in 1 .. 9 : Len(history) = 2 * (i - 1)
           /\ attempt # 0 => \E i \in 1 .. 8 : Len(history) = 2 * i - 1
           /\ result # "open" => attempt = 0 /\ seen = Len(history)
           /\ result = "open" /\ mode = "issue" => seen = 2 * (at - 1)
           /\ result = "open" /\ mode = "wait" => seen = 2 * at - 1 /\ at \in 1 .. 8
           /\ outputs = OutputsAt(at - 1) /\ shared = SharedAt(at - 1)
           /\ \A i \in 1 .. at - 1 : 2 * i <= Len(history) /\ history[2 * i] = Success(i)
<1>1. HistoryShape /\ ServerShape /\ WorkerShape
  BY DEF RunInv
<1> DEFINE L == Len(history)
<1>2. L \in 0 .. 16
  BY <1>1, Shape
<1>3. /\ attempt \in 0 .. MaxAttempts
      /\ \E i \in 1 .. 9 : L = IF attempt = 0 THEN 2 * (i - 1) ELSE 2 * i - 1
      /\ result # "open" => attempt = 0 /\ seen = L
  BY <1>1, Eight, Zenon DEF ServerShape
<1>4. /\ at \in 1 .. 9 /\ mode \in {"issue", "wait"} /\ seen \in 0 .. L
      /\ outputs = OutputsAt(at - 1) /\ shared = SharedAt(at - 1)
      /\ \A i \in 1 .. at - 1 : 2 * i <= Len(history) /\ history[2 * i] = Success(i)
      /\ result = "open" => seen = IF mode = "issue" THEN 2 * (at - 1) ELSE 2 * at - 1
  BY <1>1, Eight, Zenon DEF WorkerShape
<1> HIDE DEF L
<1>5. attempt = 0 => \E i \in 1 .. 9 : L = 2 * (i - 1)
  BY <1>3
<1>6. attempt # 0 => \E i \in 1 .. 8 : L = 2 * i - 1
  BY <1>2, <1>3
<1>7. result = "open" /\ mode = "issue" => seen = 2 * (at - 1)
  BY <1>4
<1>8. result = "open" /\ mode = "wait" => seen = 2 * at - 1 /\ at \in 1 .. 8
  BY <1>2, <1>4
<1> QED BY <1>2, <1>3, <1>4, <1>5, <1>6, <1>7, <1>8, Zenon DEF L

\* A command that waits for its result is the last event of the history.
LEMMA Attempted ==
    ASSUME RunInv, Scheduling
    PROVE  /\ result = "open" /\ attempt \in 1 .. MaxAttempts
           /\ \E i \in 1 .. 8 : Len(history) = 2 * i - 1 /\ Input = CommandAt(i) /\ Input.stage = pipelineStages[i]
<1>1. attempt # 0 /\ attempt \in 1 .. MaxAttempts
  BY Position DEF Scheduling
<1>2. PICK i \in 1 .. 8 : Len(history) = 2 * i - 1
  BY <1>1, Position
<1>3. history[2 * i - 1] = CommandAt(i)
  BY <1>2, Shape DEF RunInv
<1> QED BY <1>1, <1>2, <1>3, Position, Events DEF Input

\* Nothing that the invariant speaks of has changed.
LEMMA Unchanged ==
    ASSUME RunInv, UNCHANGED <<history, attempt, result, goWorker, running, written>>
    PROVE  RunInv'
BY DEF RunInv, HistoryShape, ServerShape, WorkerShape, ExecutionShape, goWorker, Failed

LEMMA Initially == Init => RunInv
<1> SUFFICES ASSUME Init PROVE RunInv
  OBVIOUS
<1>1. history = <<>> /\ Len(history) = 0 /\ history \in Seq(Range(history))
  <2>1. history = <<>> /\ Len(history) = 0
    BY DEF Init
  <2>2. \A S : <<>> \in Seq(S)
    OBVIOUS
  <2> QED BY <2>1, <2>2, Zenon
<1>2. HistoryShape
  BY <1>1, Eight DEF HistoryShape
<1>3. ServerShape
  <2>1. attempt = 0 /\ result = "open"
    BY DEF Init
  <2>2. attempt \in 0 .. MaxAttempts
    BY <2>1, ConstantsOK DEF ConstantsOK
  <2>3. 1 \in 1 .. Last + 1 /\ Len(history) = 2 * (1 - 1)
    BY <1>1, Eight
  <2> QED BY <2>1, <2>2, <2>3 DEF ServerShape
<1>4. WorkerShape
  <2>1. /\ at = 1 /\ mode = "issue" /\ seen = 0
        /\ outputs = OutputsAt(0) /\ shared = SharedAt(0)
    BY InitialMemory DEF Init
  <2> QED BY <1>1, <2>1, Eight DEF WorkerShape
<1>5. ExecutionShape
  <2>1. running = {} /\ "video" \in written
    BY DEF Init
  <2>2. \A i \in 1 .. 8 : ~(2 * i <= Len(history))
    BY <1>1
  <2> QED BY <2>1, <2>2, Eight, Zenon DEF ExecutionShape
<1> QED BY <1>2, <1>3, <1>4, <1>5 DEF RunInv
\* What executes is still commanded, and what has been written stays.
LEMMA ExecutionKept ==
    ASSUME RunInv, running' \subseteq running, written \subseteq written',
           Len(history) <= Len(history'), Len(history') \in Nat,
           \A n \in 1 .. Len(history) : history'[n] = history[n],
           \A i \in 1 .. 8 :
               Len(history) < 2 * i /\ 2 * i <= Len(history') /\ history'[2 * i] = Success(i)
                   => pipelineStages[i] \in written'
    PROVE  ExecutionShape'
<1>1. /\ \A r \in running :
            /\ r.no \in 1 .. MaxAttempts
            /\ \E i \in 1 .. 8 : 2 * i - 1 <= Len(history) /\ r.input = CommandAt(i)
            /\ r.phase = "wrote" => r.input.stage \in written
      /\ "video" \in written
      /\ \A i \in 1 .. 8 :
            2 * i <= Len(history) /\ history[2 * i] = Success(i) => pipelineStages[i] \in written
  BY Eight, Zenon DEF RunInv, ExecutionShape
<1>2. Len(history) \in 0 .. 16
  BY Position
<1>3. ASSUME NEW r \in running'
      PROVE  /\ r.no \in 1 .. MaxAttempts
             /\ \E i \in 1 .. 8 : 2 * i - 1 <= Len(history') /\ r.input = CommandAt(i)
             /\ r.phase = "wrote" => r.input.stage \in written'
  <2>1. r \in running
    OBVIOUS
  <2>2. PICK i \in 1 .. 8 : 2 * i - 1 <= Len(history) /\ r.input = CommandAt(i)
    BY <1>1, <2>1
  <2>3. 2 * i - 1 <= Len(history')
    BY <1>2, <2>2
  <2> QED BY <1>1, <2>1, <2>2, <2>3
<1>4. ASSUME NEW i \in 1 .. 8, 2 * i <= Len(history'), history'[2 * i] = Success(i)
      PROVE  pipelineStages[i] \in written'
  <2>1. CASE 2 * i <= Len(history)
    BY <1>1, <1>2, <1>4, <2>1
  <2>2. CASE Len(history) < 2 * i
    BY <1>4, <2>2
  <2>3. 2 * i <= Len(history) \/ Len(history) < 2 * i
    BY <1>2
  <2> QED BY <2>1, <2>2, <2>3
<1> QED BY <1>1, <1>3, <1>4, Eight, Zenon DEF ExecutionShape

\* The worker's part does not change when the server adds to the history of a run
\* that is open.
LEMMA WorkerKept ==
    ASSUME RunInv, UNCHANGED <<goWorker, result>>,
           Len(history) <= Len(history'), Len(history') \in Nat,
           \A n \in 1 .. Len(history) : history'[n] = history[n]
    PROVE  WorkerShape'
<1>1. /\ UNCHANGED <<mode, at, outputs, shared, seen, result>>
      /\ seen \in 0 .. Len(history) /\ Len(history) \in 0 .. 16 /\ at \in 1 .. 9
  BY Position DEF goWorker
<1>2. seen' \in 0 .. Len(history')
  BY <1>1
<1>3. ASSUME NEW i \in 1 .. at - 1
      PROVE  2 * i <= Len(history') /\ history'[2 * i] = Success(i)
  <2>1. 2 * i <= Len(history) /\ history[2 * i] = Success(i)
    BY Position
  <2>2. 2 * i \in 1 .. Len(history)
    BY <1>1, <2>1
  <2> QED BY <1>1, <2>1, <2>2
<1> QED BY <1>1, <1>2, <1>3, Zenon DEF RunInv, WorkerShape

LEMMA IssueKeeps ==
    ASSUME ConstantsOK, RunInv, Issue
    PROVE  RunInv'
<1>1. /\ result = "open" /\ at \in 1 .. 8
      /\ seen = 2 * (at - 1) /\ Len(history) = seen
      /\ attempt' = 1 /\ mode' = "wait" /\ seen' = seen + 1
      /\ UNCHANGED <<result, at, outputs, shared, running, written>>
  <2>1. /\ result = "open" /\ mode = "issue" /\ at <= 8 /\ ~(seen < Len(history))
        /\ attempt' = 1 /\ mode' = "wait" /\ seen' = seen + 1
        /\ UNCHANGED <<result, at, outputs, shared, running, written>>
    BY Eight DEF Issue, Replaying
  <2>2. /\ at \in 1 .. 9 /\ Len(history) \in 0 .. 16 /\ seen \in 0 .. Len(history)
        /\ result = "open" /\ mode = "issue" => seen = 2 * (at - 1)
    BY Position
  <2>3. Len(history) = seen
    BY <2>1, <2>2
  <2>4. at \in 1 .. 8
    BY <2>1, <2>2
  <2> QED BY <2>1, <2>2, <2>3, <2>4, Zenon
<1>2. PICK order \in IterationOrders(DOMAIN StageParams(pipelineStages[at])) :
          history' = Append(history, Scheduled(pipelineStages[at], order))
  BY DEF Issue
<1>3. history' = Append(history, CommandAt(at))
  BY <1>1, <1>2, CommandIssued, Position
<1>4. \A j \in 1 .. at - 1 : history[2 * j] = Success(j)
  BY Position
<1>5. /\ HistoryShape'
      /\ Len(history') = Len(history) + 1
      /\ \A n \in 1 .. Len(history) : history'[n] = history[n]
  BY <1>1, <1>3, <1>4, HistoryGrows DEF RunInv
<1>6. ServerShape'
  <2>1. attempt' \in 0 .. MaxAttempts
    BY <1>1 DEF ConstantsOK
  <2>2. at \in 1 .. 9 /\ Len(history') = 2 * at - 1 /\ attempt' # 0
    BY <1>1, <1>5
  <2> QED BY <1>1, <2>1, <2>2, Eight, Zenon DEF ServerShape
<1>7. WorkerShape'
  <2>1. seen' \in 0 .. Len(history') /\ seen' = 2 * at' - 1 /\ mode' # "issue"
    BY <1>1, <1>5
  <2>2. ASSUME NEW i \in 1 .. at' - 1
        PROVE  2 * i <= Len(history') /\ history'[2 * i] = Success(i)
    <3>1. 2 * i <= Len(history) /\ history[2 * i] = Success(i) /\ 2 * i \in 1 .. Len(history)
      BY <1>1, Position
    <3> QED BY <1>1, <1>5, <3>1
  <2>3. at' \in 1 .. 9 /\ mode' \in {"issue", "wait"}
    BY <1>1
  <2>4. outputs' = OutputsAt(at' - 1) /\ shared' = SharedAt(at' - 1)
    BY <1>1, Position
  <2> QED BY <2>1, <2>2, <2>3, <2>4, Eight, Zenon DEF WorkerShape
<1>8. ExecutionShape'
  <2>1. Len(history) \in 0 .. 16 /\ Len(history') \in Nat /\ Len(history) <= Len(history')
    BY <1>1, <1>5
  <2>2. \A i \in 1 .. 8 : ~(Len(history) < 2 * i /\ 2 * i <= Len(history'))
    BY <1>1, <1>5
  <2> QED BY <1>1, <1>5, <2>1, <2>2, ExecutionKept
<1> QED BY <1>5, <1>6, <1>7, <1>8 DEF RunInv

LEMMA ReissueKeeps ==
    ASSUME RunInv, Reissue
    PROVE  RunInv'
<1>1. /\ result = "open" /\ at \in 1 .. 8
      /\ seen = 2 * (at - 1) /\ seen < Len(history) /\ Len(history) \in 0 .. 16
      /\ mode' = "wait" /\ seen' = seen + 1
      /\ UNCHANGED <<history, attempt, result, at, outputs, shared, running, written>>
  BY Position, Eight DEF Reissue, Replaying, server
<1>2. seen' \in 0 .. Len(history') /\ seen' = 2 * at' - 1
  BY <1>1
<1>3. HistoryShape' /\ ServerShape' /\ ExecutionShape'
  BY <1>1 DEF RunInv, HistoryShape, ServerShape, ExecutionShape, Failed
<1>4. WorkerShape'
  BY <1>1, <1>2 DEF RunInv, WorkerShape
<1> QED BY <1>3, <1>4 DEF RunInv

LEMMA TakeOutputKeeps ==
    ASSUME RunInv, TakeOutput
    PROVE  RunInv'
<1>1. /\ result = "open" /\ mode = "wait" /\ seen < Len(history)
      /\ history[seen + 1].type = "completed"
      /\ seen' = seen + 1 /\ at' = at + 1 /\ mode' = "issue"
      /\ UNCHANGED <<history, attempt, result, running, written>>
  BY DEF TakeOutput, Replaying, server
<1>2. /\ at \in 1 .. 8 /\ seen = 2 * at - 1 /\ Len(history) \in 0 .. 16
      /\ outputs = OutputsAt(at - 1) /\ shared = SharedAt(at - 1)
  BY <1>1, Position
<1>3. 2 * at <= Len(history) /\ history[2 * at] = Success(at)
  <2>1. seen + 1 = 2 * at
    BY <1>2
  <2>2. 2 * at < Len(history) \/ 2 * at = Len(history)
    BY <1>1, <1>2
  <2>3. /\ 2 * at < Len(history) => history[2 * at] = Success(at)
        /\ 2 * at = Len(history) => history[2 * at] = Success(at) \/ Failed(2 * at, at)
    BY <1>2, Shape DEF RunInv
  <2>4. ~Failed(2 * at, at)
    BY <1>1, <2>1 DEF Failed
  <2>5. 2 * at <= Len(history)
    BY <1>1, <1>2
  <2> QED BY <2>2, <2>3, <2>4, <2>5, Zenon
<1>4. outputs' = OutputsAt(at) /\ shared' = SharedAt(at)
  <2> DEFINE out == [uri |-> history[seen + 1].uri, hash |-> history[seen + 1].hash]
  <2>1. outputs' = [outputs EXCEPT ![pipelineStages[at]] = out] /\ shared' = Share(pipelineStages[at], out)
    BY DEF TakeOutput
  <2>2. seen + 1 = 2 * at
    BY <1>2
  <2>3. out = [uri |-> Success(at).uri, hash |-> Success(at).hash]
    BY <1>3, <2>2
  <2> QED BY <1>2, <2>1, <2>3, ResultTaken
<1>5. HistoryShape' /\ ServerShape' /\ ExecutionShape'
  BY <1>1 DEF RunInv, HistoryShape, ServerShape, ExecutionShape, Failed
<1>6. WorkerShape'
  <2>1. at' \in 1 .. 9 /\ at' - 1 = at /\ mode' \in {"issue", "wait"}
    BY <1>1, <1>2
  <2>2. seen' \in 0 .. Len(history') /\ seen' = 2 * (at' - 1)
    BY <1>1, <1>2
  <2>3. ASSUME NEW i \in 1 .. at' - 1
        PROVE  2 * i <= Len(history') /\ history'[2 * i] = Success(i)
    <3>1. CASE i = at
      BY <1>1, <1>3, <3>1
    <3>2. CASE i # at
      <4>1. i \in 1 .. at - 1
        <5>1. i \in 1 .. at
          BY <2>1, Zenon
        <5> QED BY <1>2, <3>2, <5>1
      <4> QED BY <1>1, <4>1, Position
    <3> QED BY <3>1, <3>2
  <2>4. outputs' = OutputsAt(at' - 1) /\ shared' = SharedAt(at' - 1)
    BY <1>4, <2>1
  <2> QED BY <1>1, <2>1, <2>2, <2>3, <2>4, Eight, Zenon DEF WorkerShape
<1> QED BY <1>5, <1>6 DEF RunInv

LEMMA TakeFailureKeeps ==
    ASSUME ConstantsOK, RunInv, TakeFailure
    PROVE  RunInv'
<1>1. /\ result = "open" /\ mode = "wait" /\ seen < Len(history)
      /\ history[seen + 1].type = "failed"
      /\ seen' = seen + 1 /\ mode' = "issue" /\ result' = "failed"
      /\ UNCHANGED <<history, attempt, at, outputs, shared, running, written>>
  BY DEF TakeFailure, Replaying
<1>2. /\ at \in 1 .. 8 /\ seen = 2 * at - 1 /\ Len(history) \in 0 .. 16
      /\ attempt # 0 => \E i \in 1 .. 8 : Len(history) = 2 * i - 1
  BY <1>1, Position
<1>3. Len(history) = 2 * at
  <2>1. history[2 * at] # Success(at)
    BY <1>1, <1>2, Events
  <2>2. 2 * at < Len(history) => history[2 * at] = Success(at)
    BY <1>2, Shape DEF RunInv
  <2>3. ~(2 * at < Len(history))
    BY <2>1, <2>2, Zenon
  <2> QED BY <1>1, <1>2, <2>3
<1>4. attempt = 0 /\ seen' = Len(history)
  BY <1>1, <1>2, <1>3
<1>5. HistoryShape' /\ ExecutionShape'
  BY <1>1 DEF RunInv, HistoryShape, ExecutionShape, Failed
<1>6. ServerShape'
  BY <1>1, <1>4 DEF RunInv, ServerShape
<1>7. WorkerShape'
  <2>1. seen' \in 0 .. Len(history')
    BY <1>1, <1>2, <1>4
  <2> QED BY <1>1, <2>1 DEF RunInv, WorkerShape
<1> QED BY <1>5, <1>6, <1>7 DEF RunInv

LEMMA ReturnCompletedKeeps ==
    ASSUME RunInv, ReturnCompleted
    PROVE  RunInv'
<1>1. /\ result = "open" /\ mode = "issue" /\ at > 8 /\ result' = "completed"
      /\ UNCHANGED <<history, attempt, seen, mode, at, outputs, shared, running, written>>
  BY Eight DEF ReturnCompleted, goWorker
<1>2. /\ at \in 1 .. 9 /\ seen = 2 * (at - 1) /\ Len(history) \in 0 .. 16 /\ seen \in 0 .. Len(history)
      /\ attempt # 0 => \E i \in 1 .. 8 : Len(history) = 2 * i - 1
  BY <1>1, Position
<1>3. seen = Len(history) /\ attempt = 0
  <2>1. seen = 16
    BY <1>1, <1>2
  <2>2. Len(history) = 16
    <3>1. \A L \in 0 .. 16 : 16 \in 0 .. L => L = 16
      OBVIOUS
    <3> QED BY <1>2, <2>1, <3>1, Zenon
  <2>3. \A i \in 1 .. 8 : 16 # 2 * i - 1
    OBVIOUS
  <2> QED BY <1>2, <2>1, <2>2, <2>3, Zenon
<1>4. HistoryShape' /\ ExecutionShape'
  BY <1>1 DEF RunInv, HistoryShape, ExecutionShape, Failed
<1>5. ServerShape' /\ WorkerShape'
  BY <1>1, <1>3 DEF RunInv, ServerShape, WorkerShape
<1> QED BY <1>4, <1>5 DEF RunInv

\* A worker that starts again has the memory of nothing.
LEMMA GoWorkerRestartsKeeps ==
    ASSUME RunInv, GoWorkerRestarts
    PROVE  RunInv'
<1>1. /\ result = "open" /\ mode' = "issue" /\ at' = 1 /\ seen' = 0
      /\ outputs' = OutputsAt(0) /\ shared' = SharedAt(0)
      /\ UNCHANGED <<history, attempt, result, running, written>>
  BY InitialMemory DEF GoWorkerRestarts, server
<1>2. Len(history) \in 0 .. 16
  BY Position
<1>3. HistoryShape' /\ ExecutionShape' /\ ServerShape'
  BY <1>1 DEF RunInv, HistoryShape, ExecutionShape, ServerShape, Failed
<1>4. WorkerShape'
  <2>1. /\ at' \in 1 .. 9 /\ at' - 1 = 0 /\ 1 .. at' - 1 = {}
        /\ seen' \in 0 .. Len(history') /\ seen' = 2 * (at' - 1)
    BY <1>1, <1>2
  <2> QED BY <1>1, <2>1, Eight, Zenon DEF WorkerShape
<1> QED BY <1>3, <1>4 DEF RunInv

-------------------------------------------------------------------------------
(* Attempts. *)

\* The invariant after a step that leaves the history and the worker alone, and only
\* changes the number of the attempt and what is executed.
LEMMA AttemptKept ==
    ASSUME RunInv, UNCHANGED <<history, result, goWorker>>,
           attempt' = attempt \/ (attempt # 0 /\ attempt' \in 1 .. MaxAttempts),
           ExecutionShape'
    PROVE  RunInv'
<1>1. HistoryShape'
  BY DEF RunInv, HistoryShape, Failed
<1>2. WorkerShape'
  BY DEF RunInv, WorkerShape, goWorker
<1>3. ServerShape'
  <2>1. CASE attempt' = attempt
    BY <2>1 DEF RunInv, ServerShape, goWorker
  <2>2. CASE attempt # 0 /\ attempt' \in 1 .. MaxAttempts
    <3>1. PICK i \in 1 .. Last + 1 : Len(history) = 2 * i - 1
      BY <2>2, Zenon DEF RunInv, ServerShape
    <3>2. attempt' # 0 /\ attempt' \in 0 .. MaxAttempts /\ result' = "open"
      BY <2>2 DEF RunInv, ServerShape
    <3>3. Len(history') = 2 * i - 1
      BY <3>1
    <3> QED BY <3>1, <3>2, <3>3, Zenon DEF ServerShape
  <2> QED BY <2>1, <2>2
<1> QED BY <1>1, <1>2, <1>3 DEF RunInv

\* The invariant after the result of the last command has come in.
LEMMA ResultKept ==
    ASSUME ConstantsOK, RunInv, Scheduling, NEW i \in 1 .. 8, Len(history) = 2 * i - 1,
           NEW e, e = Success(i) \/ (e.type = "failed" /\ e.stage = pipelineStages[i]),
           history' = Append(history, e), attempt' = 0, UNCHANGED <<result, goWorker>>,
           running' \subseteq running, written \subseteq written',
           e.type = "completed" => pipelineStages[i] \in written'
    PROVE  RunInv'
<1>1. /\ HistoryShape'
      /\ Len(history') = Len(history) + 1
      /\ \A n \in 1 .. Len(history) : history'[n] = history[n]
      /\ history'[Len(history) + 1] = e
  BY HistoryGrows DEF RunInv
<1>2. Len(history) \in 0 .. 16 /\ Len(history') \in Nat /\ Len(history) <= Len(history')
  BY <1>1, Position
<1>3. WorkerShape'
  BY <1>1, <1>2, WorkerKept
<1>4. ServerShape'
  <2>1. result' = "open"
    BY Attempted
  <2>2. i + 1 \in 1 .. 9 /\ Len(history') = 2 * ((i + 1) - 1)
    BY <1>1
  <2>3. attempt' \in 0 .. MaxAttempts
    BY DEF ConstantsOK
  <2> QED BY <2>1, <2>2, <2>3, Eight, Zenon DEF ServerShape
<1>5. ExecutionShape'
  <2>1. ASSUME NEW j \in 1 .. 8, Len(history) < 2 * j, 2 * j <= Len(history'), history'[2 * j] = Success(j)
        PROVE  pipelineStages[j] \in written'
    <3>1. j = i
      BY <1>1, <2>1
    <3>2. e = Success(i)
      BY <1>1, <2>1, <3>1
    <3> QED BY <3>1, <3>2, Events
  <2> QED BY <1>1, <1>2, <2>1, ExecutionKept
<1> QED BY <1>1, <1>3, <1>4, <1>5 DEF RunInv

LEMMA AttemptFailsKeeps ==
    ASSUME ConstantsOK, RunInv, Scheduling, NEW error, AttemptFails(error),
           UNCHANGED <<result, goWorker, written>>, running' \subseteq running
    PROVE  RunInv'
<1>1. /\ attempt \in 1 .. MaxAttempts
      /\ \E i \in 1 .. 8 : Len(history) = 2 * i - 1 /\ Input.stage = pipelineStages[i]
  BY Attempted
<1>2. CASE error \in NonRetryableErrorTypes \/ attempt = MaxAttempts
  <2> DEFINE e == [type |-> "failed", stage |-> Input.stage, error |-> error]
  <2>1. history' = Append(history, e) /\ attempt' = 0
    BY <1>2 DEF AttemptFails
  <2>2. PICK i \in 1 .. 8 : Len(history) = 2 * i - 1 /\ Input.stage = pipelineStages[i]
    BY <1>1
  <2>3. e.type = "failed" /\ e.stage = pipelineStages[i]
    BY <2>2
  <2> HIDE DEF e
  <2> QED BY <2>1, <2>2, <2>3, ResultKept
<1>3. CASE ~(error \in NonRetryableErrorTypes \/ attempt = MaxAttempts)
  <2>1. attempt' = attempt + 1 /\ history' = history /\ attempt # MaxAttempts
    BY <1>3 DEF AttemptFails
  <2>2. attempt # 0 /\ attempt' \in 1 .. MaxAttempts
    BY <1>1, <2>1, ConstantsOK DEF ConstantsOK
  <2>3. ExecutionShape'
    <3>1. Len(history) \in 0 .. 16
      BY Position
    <3>2. \A j \in 1 .. 8 : ~(Len(history) < 2 * j /\ 2 * j <= Len(history'))
      BY <2>1, <3>1
    <3> QED BY <2>1, <3>1, <3>2, ExecutionKept
  <2> QED BY <2>1, <2>2, <2>3, AttemptKept
<1> QED BY <1>2, <1>3

LEMMA StartAttemptKeeps ==
    ASSUME RunInv, StartAttempt
    PROVE  RunInv'
<1> DEFINE new == [no |-> attempt, input |-> Input, phase |-> "works"]
<1>1. /\ Scheduling /\ running' = running \cup {new}
      /\ UNCHANGED <<history, attempt, result, goWorker, written>>
  BY DEF StartAttempt
<1>2. PICK i \in 1 .. 8 : Len(history) = 2 * i - 1 /\ Input = CommandAt(i)
  BY <1>1, Attempted
<1>3. new.no \in 1 .. MaxAttempts /\ new.input = CommandAt(i) /\ new.phase # "wrote"
  BY <1>1, <1>2, Attempted
<1>4. 2 * i - 1 <= Len(history)
  BY <1>2
<1> HIDE DEF new
<1>5. ExecutionShape'
  <2>1. ASSUME NEW r \in running'
        PROVE  /\ r.no \in 1 .. MaxAttempts
               /\ \E j \in 1 .. Last : 2 * j - 1 <= Len(history) /\ r.input = CommandAt(j)
               /\ r.phase = "wrote" => r.input.stage \in written
    <3>1. CASE r = new
      BY <1>3, <1>4, <3>1, Eight, Zenon
    <3>2. CASE r # new
      <4>1. r \in running
        BY <1>1, <3>2
      <4> QED BY <4>1 DEF RunInv, ExecutionShape
    <3> QED BY <3>1, <3>2
  <2> QED BY <1>1, <2>1, Zenon DEF RunInv, ExecutionShape
<1> QED BY <1>1, <1>5, AttemptKept

LEMMA RaiseKeeps ==
    ASSUME ConstantsOK, RunInv, NEW r \in running, NEW error, Raise(r, error)
    PROVE  RunInv'
<1>1. UNCHANGED <<result, goWorker, written>> /\ running' \subseteq running
  BY DEF Raise
<1>2. CASE IsCurrent(r)
  <2>1. AttemptFails(error) /\ Scheduling
    BY <1>2 DEF Raise, IsCurrent
  <2> QED BY <1>1, <2>1, AttemptFailsKeeps
<1>3. CASE ~IsCurrent(r)
  <2>1. UNCHANGED <<history, attempt>>
    BY <1>3 DEF Raise
  <2>2. ExecutionShape'
    <3>1. Len(history) \in 0 .. 16
      BY Position
    <3>2. \A j \in 1 .. 8 : ~(Len(history) < 2 * j /\ 2 * j <= Len(history'))
      BY <2>1, <3>1
    <3> QED BY <1>1, <2>1, <3>1, <3>2, ExecutionKept
  <2> QED BY <1>1, <2>1, <2>2, AttemptKept
<1> QED BY <1>2, <1>3

LEMMA WriteOutputKeeps ==
    ASSUME RunInv, NEW r \in running, WriteOutput(r)
    PROVE  RunInv'
<1> DEFINE w == [r EXCEPT !.phase = "wrote"]
<1>1. /\ running' = (running \ {r}) \cup {w} /\ written' = written \cup {r.input.stage}
      /\ UNCHANGED <<history, attempt, result, goWorker>>
  BY DEF WriteOutput, server
<1>2. w.no = r.no /\ w.input = r.input
  OBVIOUS
<1> HIDE DEF w
<1>3. ExecutionShape'
  <2>1. ASSUME NEW q \in running'
        PROVE  /\ q.no \in 1 .. MaxAttempts
               /\ \E j \in 1 .. Last : 2 * j - 1 <= Len(history) /\ q.input = CommandAt(j)
               /\ q.phase = "wrote" => q.input.stage \in written'
    <3>1. CASE q = w
      <4>1. q.no = r.no /\ q.input = r.input /\ r.input.stage \in written'
        BY <1>1, <1>2, <3>1
      <4> QED BY <4>1 DEF RunInv, ExecutionShape
    <3>2. CASE q # w
      <4>1. q \in running /\ written \subseteq written'
        BY <1>1, <3>2
      <4> QED BY <4>1 DEF RunInv, ExecutionShape
    <3> QED BY <3>1, <3>2
  <2>2. written \subseteq written'
    BY <1>1
  <2>3. /\ "video" \in written'
        /\ \A i \in 1 .. Last :
              2 * i <= Len(history) /\ history[2 * i] = Success(i) => pipelineStages[i] \in written'
    BY <2>2, Zenon DEF RunInv, ExecutionShape
  <2> QED BY <1>1, <2>1, <2>3, Zenon DEF ExecutionShape
<1> QED BY <1>1, <1>3, AttemptKept

LEMMA ReportKeeps ==
    ASSUME ConstantsOK, RunInv, NEW r \in running, Report(r)
    PROVE  RunInv'
<1>1. /\ r.phase = "wrote" /\ running' \subseteq running /\ written' = written
      /\ UNCHANGED <<result, goWorker>>
  BY DEF Report, Persisted
<1>2. CASE IsCurrent(r)
  <2> DEFINE e == [type |-> "completed", stage |-> Input.stage,
                   uri |-> r.input.stage, hash |-> OutputHash(r.input)]
  <2>1. history' = Append(history, e) /\ attempt' = 0
    BY <1>2 DEF Report
  <2>2. Scheduling /\ r.input.stage = Input.stage
    BY <1>2 DEF IsCurrent
  <2>3. PICK i \in 1 .. 8 : Len(history) = 2 * i - 1 /\ Input.stage = pipelineStages[i]
    BY <2>2, Attempted
  <2>4. PICK j \in 1 .. 8 : r.input = CommandAt(j)
    BY Eight, Zenon DEF RunInv, ExecutionShape
  <2>5. j = i
    BY <2>2, <2>3, <2>4, Events, Stages
  <2>6. e = Success(i)
    BY <2>2, <2>3, <2>4, <2>5, ReportedHash DEF Success
  <2>7. pipelineStages[i] \in written'
    BY <1>1, <2>2, <2>3 DEF RunInv, ExecutionShape
  <2> HIDE DEF e
  <2> QED BY <1>1, <2>1, <2>2, <2>3, <2>6, <2>7, ResultKept
<1>3. CASE ~IsCurrent(r)
  <2>1. UNCHANGED <<history, attempt>>
    BY <1>3 DEF Report
  <2>2. ExecutionShape'
    <3>1. Len(history) \in 0 .. 16
      BY Position
    <3>2. \A j \in 1 .. 8 : ~(Len(history) < 2 * j /\ 2 * j <= Len(history'))
      BY <2>1, <3>1
    <3> QED BY <1>1, <2>1, <3>1, <3>2, ExecutionKept
  <2> QED BY <1>1, <2>1, <2>2, AttemptKept
<1> QED BY <1>2, <1>3

LEMMA PythonWorkerDiesKeeps ==
    ASSUME RunInv, PythonWorkerDies
    PROVE  RunInv'
<1>1. running' \subseteq running /\ UNCHANGED <<history, attempt, result, goWorker, written>>
  BY DEF PythonWorkerDies, server
<1>2. ExecutionShape'
  <2>1. Len(history) \in 0 .. 16
    BY Position
  <2>2. \A j \in 1 .. 8 : ~(Len(history) < 2 * j /\ 2 * j <= Len(history'))
    BY <1>1, <2>1
  <2> QED BY <1>1, <2>1, <2>2, ExecutionKept
<1> QED BY <1>1, <1>2, AttemptKept

\* A stalled attempt is the current one, so that the server is scheduling.
LEMMA TimeoutsKeep ==
    ASSUME ConstantsOK, RunInv, StalledAttemptTimesOut \/ LostAttemptTimesOut
    PROVE  RunInv'
<1>1. /\ Scheduling /\ AttemptFails("timeout")
      /\ UNCHANGED <<result, goWorker, written>> /\ running' \subseteq running
  BY DEF StalledAttemptTimesOut, LostAttemptTimesOut, IsCurrent
<1> QED BY <1>1, AttemptFailsKeeps

LEMMA NextKeeps ==
    ASSUME ConstantsOK, RunInv, [Next]_vars
    PROVE  RunInv'
<1>1. CASE GoWorker
  BY <1>1, IssueKeeps, ReissueKeeps, TakeOutputKeeps, TakeFailureKeeps, ReturnCompletedKeeps DEF GoWorker
<1>2. CASE GoWorkerRestarts
  BY <1>2, GoWorkerRestartsKeeps
<1>3. CASE StartAttempt
  BY <1>3, StartAttemptKeeps
<1>4. CASE \E r \in running : Execution(r) \/ Stumble(r)
  <2>1. PICK r \in running : Execution(r) \/ Stumble(r)
    BY <1>4
  <2>2. CASE RefuseFootage(r)
    BY <2>2, RaiseKeeps DEF RefuseFootage
  <2>3. CASE WriteOutput(r)
    BY <2>3, WriteOutputKeeps
  <2>4. CASE Report(r)
    BY <2>4, ReportKeeps
  <2>5. CASE Stumble(r)
    BY <2>5, RaiseKeeps DEF Stumble
  <2> QED BY <2>1, <2>2, <2>3, <2>4, <2>5 DEF Execution
<1>5. CASE StalledAttemptTimesOut \/ LostAttemptTimesOut
  BY <1>5, TimeoutsKeep
<1>6. CASE PythonWorkerDies
  BY <1>6, PythonWorkerDiesKeeps
<1>7. CASE UNCHANGED vars
  BY <1>7, Unchanged DEF vars, server
<1> QED BY <1>1, <1>2, <1>3, <1>4, <1>5, <1>6, <1>7 DEF Next

\* The run has one possible history, and the memory of the Go worker is determined
\* by how far it has gone through it.
THEOREM RunInvariant == Spec => []RunInv
<1>1. RunInv /\ [Next]_vars => RunInv'
  BY NextKeeps, ConstantsOK
<1> QED BY <1>1, Initially, PTL DEF Spec

-------------------------------------------------------------------------------
(* What follows from the invariant. *)

\* Where the Go worker replays, the event it comes to is the command it would issue,
\* whatever the order it goes through its maps in.
THEOREM ReplaysAgree == Spec => []ReplayAgrees
<1>1. RunInv => ReplayAgrees
  <2> SUFFICES ASSUME RunInv, mode = "issue", Replaying
               PROVE  /\ at <= Len(pipelineStages)
                      /\ \A order \in IterationOrders(DOMAIN StageParams(pipelineStages[at])) :
                            history[seen + 1] = Scheduled(pipelineStages[at], order)
    BY DEF ReplayAgrees
  <2>1. seen < Len(history)
    BY DEF Replaying
  <2>2. /\ Len(history) \in 0 .. 16 /\ at \in 1 .. 9
        /\ result # "open" => seen = Len(history)
        /\ result = "open" => seen = 2 * (at - 1)
    BY Position
  <2>3. result = "open"
    BY <2>1, <2>2
  <2>4. at \in 1 .. 8 /\ seen + 1 = 2 * at - 1 /\ 2 * at - 1 <= Len(history)
    <3>1. \A L \in 0 .. 16, a \in 1 .. 9 :
            2 * (a - 1) < L => a \in 1 .. 8 /\ 2 * (a - 1) + 1 = 2 * a - 1 /\ 2 * a - 1 <= L
      OBVIOUS
    <3>2. seen = 2 * (at - 1)
      BY <2>2, <2>3, Zenon
    <3> QED BY <2>1, <2>2, <3>1, <3>2, Zenon
  <2>5. history[seen + 1] = CommandAt(at)
    BY <2>4, Shape DEF RunInv
  <2>6. outputs = OutputsAt(at - 1) /\ shared = SharedAt(at - 1)
    BY Position
  <2>7. ASSUME NEW order \in IterationOrders(DOMAIN StageParams(pipelineStages[at]))
        PROVE  Scheduled(pipelineStages[at], order) = CommandAt(at)
    BY <2>4, <2>6, CommandIssued
  <2> QED BY <2>4, <2>5, <2>7, Eight
<1> QED BY <1>1, RunInvariant, PTL

\* A success in the history is that of its stage.
LEMMA Succeeded ==
    ASSUME RunInv, NEW n \in DOMAIN history, history[n].type = "completed"
    PROVE  \E i \in 1 .. 8 : n = 2 * i /\ history[n] = Success(i) /\ pipelineStages[i] \in written
<1>1. Len(history) \in 0 .. 16 /\ n \in 1 .. Len(history)
  BY Shape DEF RunInv
<1>2. PICK i \in 1 .. 8 : n = 2 * i \/ n = 2 * i - 1
  <2>1. \A m \in 1 .. 16 : \E i \in 1 .. 8 : m = 2 * i \/ m = 2 * i - 1
    OBVIOUS
  <2>2. n \in 1 .. 16
    BY <1>1
  <2> QED BY <2>1, <2>2
<1>3. n # 2 * i - 1
  <2>1. SUFFICES ASSUME n = 2 * i - 1 PROVE FALSE
    OBVIOUS
  <2>2. history[n] = CommandAt(i)
    <3>1. 2 * i - 1 <= Len(history)
      BY <1>1, <2>1
    <3>2. history[2 * i - 1] = CommandAt(i)
      BY <3>1, Shape, Zenon DEF RunInv
    <3> QED BY <2>1, <3>2
  <2> QED BY <2>2, Events
<1>4. history[n] = Success(i)
  <2>1. 2 * i < Len(history) \/ 2 * i = Len(history)
    BY <1>1, <1>2, <1>3
  <2>2. /\ 2 * i < Len(history) => history[2 * i] = Success(i)
        /\ 2 * i = Len(history) => history[2 * i] = Success(i) \/ Failed(2 * i, i)
    BY Shape DEF RunInv
  <2>3. ~Failed(2 * i, i)
    BY <1>2, <1>3 DEF Failed
  <2> QED BY <1>2, <1>3, <2>1, <2>2, <2>3, Zenon
<1>5. pipelineStages[i] \in written
  BY <1>1, <1>2, <1>3, <1>4, Eight DEF RunInv, ExecutionShape
<1> QED BY <1>2, <1>3, <1>4, <1>5

\* A recorded result is one its own stage wrote before it reported.
THEOREM ResultsAreWritten == Spec => []RecordedIsWritten
<1>1. RunInv => RecordedIsWritten
  <2> SUFFICES ASSUME RunInv, NEW n \in DOMAIN history, history[n].type = "completed"
               PROVE  history[n].uri = history[n].stage /\ history[n].uri \in written
    BY DEF RecordedIsWritten
  <2>1. PICK i \in 1 .. 8 : history[n] = Success(i) /\ pipelineStages[i] \in written
    BY Succeeded
  <2> QED BY <2>1 DEF Success
<1> QED BY <1>1, RunInvariant, PTL

\* What the i-th command hands to its stage.
LEMMA CommandInputs ==
    ASSUME NEW i \in 1 .. 8
    PROVE  /\ \A n \in DOMAIN URIsAt(i) :
                 URIsAt(i)[n] = "video" \/ \E j \in 1 .. i - 1 : URIsAt(i)[n] = pipelineStages[j]
           /\ pipelineStages[i] \in DOMAIN ReadFirst => URIsAt(i)[1] = ReadFirst[pipelineStages[i]]
           /\ ReadParams[pipelineStages[i]] \subseteq DOMAIN ParamsAt(i)
<1>1. ASSUME NEW n \in DOMAIN URIsAt(i)
      PROVE  URIsAt(i)[n] = "video" \/ \E j \in 1 .. i - 1 : URIsAt(i)[n] = pipelineStages[j]
  <2>1. CASE i = 1
    <3>1. URIsAt(i) = <<"video">>
      BY <2>1 DEF URIsAt
    <3> QED BY <3>1
  <2>2. CASE i # 1
    BY <2>2, Dependencies DEF URIsAt
  <2> QED BY <2>1, <2>2
<1>2. ASSUME pipelineStages[i] \in DOMAIN ReadFirst
      PROVE  URIsAt(i)[1] = ReadFirst[pipelineStages[i]]
  <2>1. pipelineStages[i] = "SfM" \/ pipelineStages[i] = "Masking"
    BY <1>2 DEF ReadFirst
  <2>2. i # 1
    BY <2>1 DEF pipelineStages
  <2>3. pipelineStages[i] \in StageNames
    BY Stages
  <2>4. stageDeps[pipelineStages[i]] = <<"Curation">>
    BY <2>1, <2>3 DEF stageDeps
  <2>5. ReadFirst[pipelineStages[i]] = "Curation"
    BY <2>1 DEF ReadFirst
  <2> QED BY <2>2, <2>4, <2>5 DEF URIsAt
<1>3. ReadParams[pipelineStages[i]] \subseteq DOMAIN ParamsAt(i)
  <2>1. pipelineStages[i] \in StageNames
    BY Stages
  <2>2. CASE i <= 3
    <3>1. ReadParams[pipelineStages[i]] = {}
      BY <2>1, <2>2 DEF ReadParams, pipelineStages
    <3> QED BY <3>1
  <2>3. CASE i > 3
    <3>1. {"set_id", "attempt_id"} \subseteq DOMAIN ParamsAt(i)
      BY <2>3 DEF ParamsAt, SharedAt
    <3>2. ReadParams[pipelineStages[i]] \subseteq {"set_id", "attempt_id"}
      BY <2>1 DEF ReadParams
    <3> QED BY <3>1, <3>2
  <2> QED BY <2>2, <2>3
<1> QED BY <1>1, <1>2, <1>3

\* Every execution has its inputs, even one the server has given up on.
THEOREM InputsAreThere == Spec => []InputsThere
<1>1. RunInv => InputsThere
  <2> SUFFICES ASSUME RunInv, NEW r \in running
               PROVE  /\ Range(r.input.uris) \subseteq written
                      /\ r.input.stage \in DOMAIN ReadFirst => r.input.uris[1] = ReadFirst[r.input.stage]
                      /\ ReadParams[r.input.stage] \subseteq DOMAIN r.input.params
    BY Zenon DEF InputsThere
  <2>1. PICK i \in 1 .. 8 : 2 * i - 1 <= Len(history) /\ r.input = CommandAt(i)
    BY Eight, Zenon DEF RunInv, ExecutionShape
  <2>2. r.input.uris = URIsAt(i) /\ r.input.params = ParamsAt(i) /\ r.input.stage = pipelineStages[i]
    BY <2>1 DEF CommandAt
  <2>3. ASSUME NEW j \in 1 .. i - 1
        PROVE  pipelineStages[j] \in written
    <3>1. Len(history) \in 0 .. 16
      BY Position
    <3>2. j \in 1 .. 8 /\ 2 * j < Len(history)
      BY <2>1, <3>1
    <3>3. 2 * j <= Len(history) /\ history[2 * j] = Success(j)
      BY <3>1, <3>2, Shape DEF RunInv
    <3> QED BY <3>2, <3>3, Eight, Zenon DEF RunInv, ExecutionShape
  <2>4. "video" \in written
    BY DEF RunInv, ExecutionShape
  <2>5. \A n \in DOMAIN URIsAt(i) : URIsAt(i)[n] \in written
    BY <2>3, <2>4, CommandInputs
  <2> QED BY <2>2, <2>5, CommandInputs DEF Range
<1> QED BY <1>1, RunInvariant, PTL

-------------------------------------------------------------------------------
(* The run implements its contract. *)

Completed(h) == {h[n].stage : n \in {m \in DOMAIN h : h[m].type = "completed"}}

LEMMA CompletedGrows ==
    ASSUME NEW h, h \in Seq(Range(h)), NEW e
    PROVE  Completed(Append(h, e)) = Completed(h) \cup (IF e.type = "completed" THEN {e.stage} ELSE {})
<1> DEFINE g == Append(h, e)
<1>1. g \in Seq(Range(g)) /\ h \in Seq(Range(h))
  BY AppendSelf
<1>2. DOMAIN g = 1 .. Len(g) /\ DOMAIN h = 1 .. Len(h)
  BY <1>1
<1>3. /\ Len(h) \in Nat /\ Len(g) = Len(h) + 1
      /\ \A n \in 1 .. Len(h) : g[n] = h[n]
      /\ g[Len(h) + 1] = e
  BY AppendSelf
<1> HIDE DEF g
<1>4. DOMAIN g = DOMAIN h \cup {Len(h) + 1} /\ (\A n \in DOMAIN h : g[n] = h[n]) /\ g[Len(h) + 1] = e
  BY <1>2, <1>3
<1>5. Completed(g) = Completed(h) \cup (IF e.type = "completed" THEN {e.stage} ELSE {})
  <2> DEFINE l == Len(h) + 1
  <2>1. DOMAIN g = DOMAIN h \cup {l} /\ g[l] = e
    BY <1>4
  <2> HIDE DEF l
  <2>2. CASE e.type = "completed"
    BY <1>4, <2>1, <2>2 DEF Completed
  <2>3. CASE e.type # "completed"
    BY <1>4, <2>1, <2>3 DEF Completed
  <2> QED BY <2>2, <2>3
<1> QED BY <1>5 DEF g

\* While stage i has no result, or has failed, the stages before it are done.
LEMMA DoneBefore ==
    ASSUME RunInv, NEW i \in 1 .. 9,
           2 * i - 2 <= Len(history), Len(history) <= 2 * i,
           Len(history) = 2 * i => history[2 * i].type # "completed",
           Len(history) = 2 * i - 2 => \A j \in 1 .. i - 1 : history[2 * j] = Success(j)
    PROVE  Done = {pipelineStages[j] : j \in 1 .. i - 1}
<1> DEFINE L == Len(history)
<1>1. /\ L \in 0 .. 16 /\ 2 * i - 2 <= L /\ L <= 2 * i /\ DOMAIN history = 1 .. L
      /\ L = 2 * i => history[2 * i].type # "completed"
      /\ L = 2 * i - 2 => \A j \in 1 .. i - 1 : history[2 * j] = Success(j)
      /\ \A j \in 1 .. 8 : 2 * j < L => history[2 * j] = Success(j)
  BY Shape DEF RunInv
<1> HIDE DEF L
<1>2. ASSUME NEW s \in Done
      PROVE  s \in {pipelineStages[j] : j \in 1 .. i - 1}
  <2>1. PICK n \in DOMAIN history : history[n].type = "completed" /\ s = history[n].stage
    BY DEF Done
  <2>2. PICK j \in 1 .. 8 : n = 2 * j /\ history[n] = Success(j)
    BY <2>1, Succeeded
  <2>3. 2 * j \in 1 .. L
    BY <1>1, <2>2
  <2>4. j # i
    BY <1>1, <2>1, <2>2, <2>3
  <2>5. j \in 1 .. i - 1
    BY <1>1, <2>3, <2>4
  <2> QED BY <2>1, <2>2, <2>5, Events
<1>3. ASSUME NEW j \in 1 .. i - 1
      PROVE  pipelineStages[j] \in Done
  <2>1. j \in 1 .. 8 /\ 2 * j \in 1 .. L
    BY <1>1
  <2>2. history[2 * j] = Success(j)
    <3>1. CASE L = 2 * i - 2
      BY <1>1, <3>1
    <3>2. CASE L # 2 * i - 2
      <4>1. 2 * j < L
        BY <1>1, <3>2
      <4> QED BY <1>1, <2>1, <4>1
    <3> QED BY <3>1, <3>2
  <2>3. 2 * j \in DOMAIN history
    BY <1>1, <2>1
  <2> QED BY <2>1, <2>2, <2>3, Events DEF Done
<1> QED BY <1>2, <1>3

\* Then stage i is due.
LEMMA DueNext ==
    ASSUME NEW i \in 1 .. 8, Done = {pipelineStages[j] : j \in 1 .. i - 1}
    PROVE  Contract!Due(pipelineStages[i])
<1>1. pipelineStages[i] \in StageNames \ Done
  <2>1. ASSUME NEW j \in 1 .. i - 1 PROVE pipelineStages[j] # pipelineStages[i]
    BY Stages
  <2> QED BY <2>1, Stages
<1>2. Range(stageDeps[pipelineStages[i]]) \subseteq Done
  BY Dependencies DEF Range
<1> QED BY <1>1, <1>2 DEF Contract!Due

\* What a step that adds an event does to the stages that are done.
LEMMA DoneGrows ==
    ASSUME RunInv, NEW e, history' = Append(history, e)
    PROVE  Done' = Done \cup (IF e.type = "completed" THEN {e.stage} ELSE {})
<1>1. Done = Completed(history) /\ Done' = Completed(history')
  BY DEF Done, Completed
<1> QED BY <1>1, CompletedGrows DEF RunInv, HistoryShape

LEMMA FailingKeepsDone ==
    ASSUME RunInv, NEW error, AttemptFails(error)
    PROVE  Done' = Done
<1>1. CASE history' = history
  BY <1>1 DEF Done
<1>2. CASE history' # history
  <2> DEFINE e == [type |-> "failed", stage |-> Input.stage, error |-> error]
  <2>1. history' = Append(history, e)
    BY <1>2 DEF AttemptFails
  <2>2. e.type # "completed"
    OBVIOUS
  <2> HIDE DEF e
  <2> QED BY <2>1, <2>2, DoneGrows
<1> QED BY <1>1, <1>2

LEMMA ReportCompletes ==
    ASSUME RunInv, NEW r \in running, Report(r)
    PROVE  Contract!CompleteStage \/ UNCHANGED Contract!contractVars
<1>1. result' = result
  BY DEF Report
<1>2. CASE IsCurrent(r)
  <2> DEFINE e == [type |-> "completed", stage |-> Input.stage,
                   uri |-> r.input.stage, hash |-> OutputHash(r.input)]
  <2>1. history' = Append(history, e)
    BY <1>2 DEF Report
  <2>2. e.type = "completed" /\ e.stage = Input.stage
    OBVIOUS
  <2> HIDE DEF e
  <2>3. Done' = Done \cup {Input.stage}
    BY <2>1, <2>2, DoneGrows
  <2>4. Scheduling
    BY <1>2 DEF IsCurrent
  <2>5. PICK i \in 1 .. 8 : Len(history) = 2 * i - 1 /\ Input.stage = pipelineStages[i]
    BY <2>4, Attempted
  <2>6. Done = {pipelineStages[j] : j \in 1 .. i - 1}
    <3>1. /\ i \in 1 .. 9 /\ 2 * i - 2 <= Len(history) /\ Len(history) <= 2 * i
          /\ Len(history) # 2 * i /\ Len(history) # 2 * i - 2
      BY <2>5
    <3> QED BY <3>1, DoneBefore
  <2>7. Contract!Due(Input.stage)
    BY <2>5, <2>6, DueNext
  <2>8. Input.stage \in StageNames /\ result = "open"
    BY <2>4, <2>5, Stages, Attempted
  <2> QED BY <1>1, <2>3, <2>7, <2>8 DEF Contract!CompleteStage
<1>3. CASE ~IsCurrent(r)
  <2>1. history' = history
    BY <1>3 DEF Report
  <2> QED BY <1>1, <2>1 DEF Contract!contractVars, Done
<1> QED BY <1>2, <1>3

LEMMA ReturnCompletes ==
    ASSUME RunInv, ReturnCompleted
    PROVE  Contract!Complete
<1>1. /\ result = "open" /\ mode = "issue" /\ at > 8 /\ result' = "completed" /\ history' = history
  BY Eight DEF ReturnCompleted
<1>2. /\ at \in 1 .. 9 /\ seen = 2 * (at - 1) /\ Len(history) \in 0 .. 16 /\ seen \in 0 .. Len(history)
      /\ \A i \in 1 .. at - 1 : history[2 * i] = Success(i)
  BY <1>1, Position
<1>3. at = 9
  BY <1>1, <1>2
<1>4. Len(history) = 16
  <2>1. \A L \in 0 .. 16 : 2 * (9 - 1) \in 0 .. L => L = 16
    OBVIOUS
  <2> QED BY <1>2, <1>3, <2>1, Zenon
<1>5. Done = {pipelineStages[j] : j \in 1 .. 8}
  <2>1. \A j \in 1 .. 9 - 1 : history[2 * j] = Success(j)
    BY <1>2, <1>3, Zenon
  <2>2. Done = {pipelineStages[j] : j \in 1 .. 9 - 1}
    BY <1>4, <2>1, DoneBefore
  <2> QED BY <2>2
<1>6. Done = StageNames /\ Done' = Done
  BY <1>1, <1>5, Stages DEF Done
<1> QED BY <1>1, <1>6 DEF Contract!Complete

LEMMA FailureFails ==
    ASSUME RunInv, TakeFailure
    PROVE  Contract!Fail
<1>1. /\ result = "open" /\ mode = "wait" /\ seen < Len(history) /\ history[seen + 1].type = "failed"
      /\ result' = "failed" /\ history' = history
  BY DEF TakeFailure, Replaying
<1>2. at \in 1 .. 8 /\ seen = 2 * at - 1 /\ Len(history) \in 0 .. 16
  BY <1>1, Position
<1>3. seen + 1 = 2 * at /\ 2 * at <= Len(history)
  BY <1>1, <1>2
<1>4. Len(history) = 2 * at
  <2>1. history[2 * at] # Success(at)
    BY <1>1, <1>2, <1>3, Events
  <2>2. ~(2 * at < Len(history))
    BY <1>2, <2>1, Shape, Zenon DEF RunInv
  <2> QED BY <1>2, <1>3, <2>2
<1>5. Done = {pipelineStages[j] : j \in 1 .. at - 1}
  <2>1. history[2 * at].type # "completed"
    BY <1>1, <1>3
  <2> QED BY <1>2, <1>4, <2>1, DoneBefore
<1>6. pipelineStages[at] \in StageNames /\ Contract!Due(pipelineStages[at])
  BY <1>2, <1>5, DueNext, Stages
<1> QED BY <1>1, <1>6 DEF Contract!Fail, Done

\* Every step of the run is one of the contract or changes nothing it speaks of.
LEMMA StepSimulates ==
    ASSUME RunInv, [Next]_vars
    PROVE  [Contract!Next]_Contract!contractVars
<1> DEFINE Same == Done' = Done /\ result' = result
<1>0. ASSUME Same PROVE [Contract!Next]_Contract!contractVars
  BY <1>0 DEF Contract!contractVars
<1>1. CASE Issue
  <2>1. PICK order \in IterationOrders(DOMAIN StageParams(pipelineStages[at])) :
            history' = Append(history, Scheduled(pipelineStages[at], order))
    BY <1>1 DEF Issue
  <2>2. Scheduled(pipelineStages[at], order).type # "completed"
    BY DEF Scheduled
  <2>3. Done' = Done
    BY <2>1, <2>2, DoneGrows
  <2>4. result' = result
    BY <1>1 DEF Issue
  <2> QED BY <1>0, <2>3, <2>4
<1>2. CASE \/ Reissue \/ TakeOutput \/ GoWorkerRestarts \/ StartAttempt \/ PythonWorkerDies
           \/ UNCHANGED vars
  <2>1. history' = history /\ result' = result
    BY <1>2 DEF Reissue, TakeOutput, GoWorkerRestarts, StartAttempt, PythonWorkerDies, server, vars
  <2> QED BY <1>0, <2>1 DEF Done
<1>3. CASE TakeFailure
  BY <1>3, FailureFails DEF Contract!Next
<1>4. CASE ReturnCompleted
  BY <1>4, ReturnCompletes DEF Contract!Next
<1>5. ASSUME NEW r \in running, NEW error, Raise(r, error)
      PROVE  Same
  <2>1. result' = result
    BY <1>5 DEF Raise
  <2>2. AttemptFails(error) \/ history' = history
    BY <1>5 DEF Raise
  <2> QED BY <2>1, <2>2, FailingKeepsDone DEF Done
<1>6. CASE \E r \in running : Execution(r) \/ Stumble(r)
  <2>1. PICK r \in running : Execution(r) \/ Stumble(r)
    BY <1>6
  <2>2. CASE RefuseFootage(r) \/ Stumble(r)
    <3>1. \E error : Raise(r, error)
      BY <2>2, Zenon DEF RefuseFootage, Stumble
    <3> QED BY <1>0, <1>5, <3>1
  <2>3. CASE WriteOutput(r)
    <3>1. history' = history /\ result' = result
      BY <2>3 DEF WriteOutput, server
    <3> QED BY <1>0, <3>1 DEF Done
  <2>4. CASE Report(r)
    BY <2>4, ReportCompletes DEF Contract!Next
  <2> QED BY <2>1, <2>2, <2>3, <2>4 DEF Execution
<1>7. CASE StalledAttemptTimesOut \/ LostAttemptTimesOut
  <2>1. AttemptFails("timeout") /\ result' = result
    BY <1>7 DEF StalledAttemptTimesOut, LostAttemptTimesOut
  <2> QED BY <1>0, <2>1, FailingKeepsDone
<1> QED BY <1>1, <1>2, <1>3, <1>4, <1>6, <1>7 DEF Next, GoWorker

\* The stages are completed once each and in the order of their dependencies; a run
\* that is completed has completed all of them.
THEOREM RunImplementsContract == Spec => ImplementsContract
<1>1. Init => Contract!Init
  <2> SUFFICES ASSUME Init PROVE Contract!Init
    OBVIOUS
  <2>1. history = <<>> /\ result = "open"
    BY DEF Init
  <2>2. Done = {}
    BY <2>1 DEF Done
  <2> QED BY <2>1, <2>2 DEF Contract!Init
<1>2. RunInv /\ [Next]_vars => [Contract!Next]_Contract!contractVars
  BY StepSimulates
<1> QED BY <1>1, <1>2, RunInvariant, PTL DEF Spec, ImplementsContract, Contract!Spec

-------------------------------------------------------------------------------
(* Types, and the limit on what executes at a time. *)

Errors == {"", "Exception", "timeout"} \cup {GateError(s) : s \in QualityGates}

Executions == [no : 1 .. MaxAttempts, input : {CommandAt(i) : i \in 1 .. 8}, phase : {"works", "wrote"}]

\* What TypeOK says beyond the invariant.
Bounded ==
    /\ poor \subseteq QualityGates
    /\ queued \in BOOLEAN
    /\ lastError \in Errors
    /\ running \subseteq Executions
    /\ IsFiniteSet(running) /\ Cardinality(running) <= Slots
    /\ written \subseteq URIs
    /\ faults \in 0 .. MaxFaults

\* A stage that executes is one of the pipeline's.
LEMMA RunningStages ==
    ASSUME RunInv, NEW r \in running
    PROVE  r.input.stage \in StageNames
<1>1. PICK i \in 1 .. 8 : r.input = CommandAt(i)
  BY Eight, Zenon DEF RunInv, ExecutionShape
<1> QED BY <1>1, Events, Stages

\* A set that does not grow keeps within the limit.
LEMMA FewerRunning ==
    ASSUME ConstantsOK, IsFiniteSet(running), Cardinality(running) <= Slots, NEW S, S \subseteq running
    PROVE  IsFiniteSet(S) /\ Cardinality(S) <= Slots
<1>1. /\ IsFiniteSet(S) /\ Cardinality(S) <= Cardinality(running)
      /\ Cardinality(S) \in Nat /\ Cardinality(running) \in Nat
  BY FS_Subset, FS_CardinalityType
<1> QED BY <1>1 DEF ConstantsOK

LEMMA AttemptFailsBounded ==
    ASSUME queued \in BOOLEAN, lastError \in Errors, NEW error \in Errors, AttemptFails(error)
    PROVE  queued' \in BOOLEAN /\ lastError' \in Errors
BY DEF AttemptFails

LEMMA BoundedKept ==
    ASSUME ConstantsOK, RunInv, Bounded, [Next]_vars
    PROVE  Bounded'
<1> USE DEF Bounded
<1>0. ASSUME NEW f, f = faults + 1, faults < MaxFaults PROVE f \in 0 .. MaxFaults
  BY <1>0, ConstantsOK DEF ConstantsOK
<1>1. CASE GoWorker
  <2>1. UNCHANGED <<poor, running, written, faults>>
    BY <1>1 DEF GoWorker, Issue, Reissue, TakeOutput, TakeFailure, ReturnCompleted
  <2>2. queued' \in BOOLEAN /\ lastError' \in Errors
    BY <1>1 DEF GoWorker, Issue, Reissue, TakeOutput, TakeFailure, ReturnCompleted, server, Errors
  <2> QED BY <2>1, <2>2
<1>2. CASE GoWorkerRestarts
  <2>1. UNCHANGED <<poor, queued, lastError, running, written>> /\ faults' = faults + 1 /\ faults < MaxFaults
    BY <1>2 DEF GoWorkerRestarts, server
  <2> QED BY <1>0, <2>1
<1>3. CASE StartAttempt
  <2> DEFINE new == [no |-> attempt, input |-> Input, phase |-> "works"]
  <2>1. /\ UNCHANGED <<poor, lastError, written, faults>> /\ queued' = FALSE
        /\ running' = running \cup {new} /\ Cardinality(running) < Slots
    BY <1>3 DEF StartAttempt, SlotFree
  <2>4. new \in Executions
    <3>1. Scheduling
      BY <1>3 DEF StartAttempt
    <3>2. attempt \in 1 .. MaxAttempts /\ Input \in {CommandAt(i) : i \in 1 .. 8}
      BY <3>1, Attempted
    <3> QED BY <3>2 DEF Executions
  <2> HIDE DEF new
  <2>2. /\ IsFiniteSet(running') /\ Cardinality(running) \in Nat
        /\ Cardinality(running') = Cardinality(running) \/ Cardinality(running') = Cardinality(running) + 1
    BY <2>1, FS_AddElement, FS_CardinalityType
  <2>3. Cardinality(running') <= Slots
    BY <2>1, <2>2 DEF ConstantsOK
  <2> QED BY <2>1, <2>2, <2>3, <2>4
<1>4. ASSUME NEW r \in running, NEW error \in Errors, Raise(r, error)
      PROVE  /\ UNCHANGED <<poor, written>>
             /\ queued' \in BOOLEAN /\ lastError' \in Errors
             /\ running' \subseteq Executions
             /\ IsFiniteSet(running') /\ Cardinality(running') <= Slots
  <2>1. UNCHANGED <<poor, written>> /\ running' \subseteq running
    BY <1>4 DEF Raise
  <2>2. AttemptFails(error) \/ UNCHANGED <<queued, lastError>>
    BY <1>4 DEF Raise
  <2>3. queued' \in BOOLEAN /\ lastError' \in Errors
    BY <2>2, AttemptFailsBounded
  <2> QED BY <2>1, <2>3, FewerRunning
<1>5. CASE \E r \in running : Execution(r) \/ Stumble(r)
  <2>1. PICK r \in running : Execution(r) \/ Stumble(r)
    BY <1>5
  <2>2. CASE RefuseFootage(r)
    <3>1. r.input.stage \in QualityGates
      BY <2>2 DEF RefuseFootage
    <3>2. GateError(r.input.stage) \in Errors
      BY <3>1, Zenon DEF Errors
    <3>3. Raise(r, GateError(r.input.stage)) /\ faults' = faults
      BY <2>2 DEF RefuseFootage
    <3> QED BY <1>4, <3>2, <3>3
  <2>3. CASE Stumble(r)
    <3>1. Raise(r, "Exception") /\ "Exception" \in Errors /\ faults' = faults + 1 /\ faults < MaxFaults
      BY <2>3 DEF Stumble, Errors
    <3> QED BY <1>0, <1>4, <3>1
  <2>4. CASE WriteOutput(r)
    <3> DEFINE w == [r EXCEPT !.phase = "wrote"]
    <3>1. /\ UNCHANGED <<poor, queued, lastError, faults>>
          /\ running' = (running \ {r}) \cup {w} /\ written' = written \cup {r.input.stage}
      BY <2>4 DEF WriteOutput, server
    <3>6. w \in Executions
      BY DEF Executions
    <3> HIDE DEF w
    <3>2. /\ IsFiniteSet(running \ {r}) /\ Cardinality(running \ {r}) = Cardinality(running) - 1
          /\ Cardinality(running) \in Nat
      BY FS_RemoveElement, FS_CardinalityType
    <3>3. /\ IsFiniteSet(running')
          /\ \/ Cardinality(running') = Cardinality(running \ {r})
             \/ Cardinality(running') = Cardinality(running \ {r}) + 1
      BY <3>1, <3>2, FS_AddElement
    <3>4. Cardinality(running') <= Slots
      BY <3>2, <3>3 DEF ConstantsOK
    <3>5. written' \subseteq URIs
      BY <3>1, RunningStages DEF URIs
    <3> QED BY <3>1, <3>3, <3>4, <3>5, <3>6
  <2>5. CASE Report(r)
    <3>1. UNCHANGED <<poor, queued, lastError, written, faults>> /\ running' \subseteq running
      BY <2>5 DEF Report
    <3> QED BY <3>1, FewerRunning
  <2> QED BY <2>1, <2>2, <2>3, <2>4, <2>5 DEF Execution
<1>6. CASE StalledAttemptTimesOut
  <2>1. /\ UNCHANGED <<poor, running, written>> /\ AttemptFails("timeout")
        /\ "timeout" \in Errors /\ faults' = faults + 1 /\ faults < MaxFaults
    BY <1>6 DEF StalledAttemptTimesOut, Errors
  <2> QED BY <1>0, <2>1, AttemptFailsBounded
<1>7. CASE LostAttemptTimesOut
  <2>1. UNCHANGED <<poor, running, written, faults>> /\ AttemptFails("timeout") /\ "timeout" \in Errors
    BY <1>7 DEF LostAttemptTimesOut, Errors
  <2> QED BY <2>1, AttemptFailsBounded
<1>8. CASE PythonWorkerDies
  <2>1. /\ UNCHANGED <<poor, queued, lastError, written>> /\ running' \subseteq running
        /\ faults' = faults + 1 /\ faults < MaxFaults
    BY <1>8 DEF PythonWorkerDies, server
  <2> QED BY <1>0, <2>1, FewerRunning
<1>9. CASE UNCHANGED vars
  BY <1>9 DEF vars, server
<1> QED BY <1>1, <1>2, <1>3, <1>5, <1>6, <1>7, <1>8, <1>9 DEF Next

LEMMA TypesFollow ==
    ASSUME RunInv, Bounded
    PROVE  TypeOK
<1>1. /\ attempt \in 0 .. MaxAttempts /\ mode \in {"issue", "wait"} /\ at \in 1 .. 9
      /\ seen \in 0 .. Len(history) /\ Len(history) \in 0 .. 16
      /\ outputs = OutputsAt(at - 1) /\ shared = SharedAt(at - 1)
  BY Position
<1>2. result \in {"open", "completed", "failed"}
  BY DEF RunInv, ServerShape
<1>3. outputs \in [StageNames -> [uri : URIs, hash : {"set", "attempt", ""}]]
  <2>1. ASSUME NEW s \in StageNames
        PROVE  outputs[s] \in [uri : URIs, hash : {"set", "attempt", ""}]
    <3>1. outputs[s] = [uri |-> s, hash |-> HashOf(s)] \/ outputs[s] = [uri |-> "", hash |-> ""]
      BY <1>1 DEF OutputsAt, NoOutput
    <3>2. HashOf(s) \in {"set", "attempt", ""} /\ s \in URIs /\ "" \in URIs
      BY DEF HashOf, URIs
    <3>3. CASE outputs[s] = [uri |-> s, hash |-> HashOf(s)]
      <4>1. [uri |-> s, hash |-> HashOf(s)] \in [uri : URIs, hash : {"set", "attempt", ""}]
        BY <3>2
      <4> QED BY <3>3, <4>1
    <3>4. CASE outputs[s] = [uri |-> "", hash |-> ""]
      <4>1. [uri |-> "", hash |-> ""] \in [uri : URIs, hash : {"set", "attempt", ""}]
        BY <3>2
      <4> QED BY <3>4, <4>1
    <3> QED BY <3>1, <3>3, <3>4
  <2> QED BY <1>1, <2>1 DEF OutputsAt
<1>4. shared \in ParamsMap
  <2> DEFINE ks == {l \in {"set_id", "attempt_id"} : IF l = "set_id" THEN at - 1 >= 1 ELSE at - 1 >= 2}
  <2>1. shared \in [ks -> {"set", "attempt", Preset} \cup Range(memoryHint)]
    BY <1>1 DEF SharedAt
  <2>2. ks \in SUBSET Keys
    BY DEF Keys
  <2> HIDE DEF ks
  <2> QED BY <2>1, <2>2 DEF ParamsMap
<1>5. ASSUME NEW n \in DOMAIN history
      PROVE  history[n].stage \in StageNames
  <2>1. n \in 1 .. 16 /\ n \in 1 .. Len(history)
    <3>1. n \in 1 .. Len(history)
      BY Shape DEF RunInv
    <3>2. \A L \in 0 .. 16 : \A m \in 1 .. L : m \in 1 .. 16
      OBVIOUS
    <3> QED BY <1>1, <3>1, <3>2, Zenon
  <2>2. PICK i \in 1 .. 8 : n = 2 * i \/ n = 2 * i - 1
    <3>1. \A m \in 1 .. 16 : \E i \in 1 .. 8 : m = 2 * i \/ m = 2 * i - 1
      OBVIOUS
    <3> QED BY <2>1, <3>1
  <2>3. CASE n = 2 * i - 1
    <3>1. history[n] = CommandAt(i)
      <4>1. 2 * i - 1 <= Len(history)
        BY <1>1, <2>1, <2>3
      <4>2. history[2 * i - 1] = CommandAt(i)
        BY <4>1, Shape, Zenon DEF RunInv
      <4> QED BY <2>3, <4>2
    <3> QED BY <3>1, Events, Stages
  <2>4. CASE n = 2 * i
    <3>1. n < Len(history) \/ n = Len(history)
      BY <1>1, <2>1
    <3>2. history[n] = Success(i) \/ Failed(n, i)
      BY <2>4, <3>1, Shape, Zenon DEF RunInv
    <3>3. history[n].stage = pipelineStages[i]
      BY <3>2, Events DEF Failed
    <3> QED BY <3>3, Stages
  <2> QED BY <2>2, <2>3, <2>4
<1>6. ASSUME NEW r \in running
      PROVE  r.no \in 1 .. MaxAttempts /\ r.input \in Range(history)
  <2>1. PICK i \in 1 .. 8 : 2 * i - 1 <= Len(history) /\ r.input = CommandAt(i)
    BY Eight, Zenon DEF RunInv, ExecutionShape
  <2>2. history[2 * i - 1] = CommandAt(i)
    BY <2>1, Shape DEF RunInv
  <2>3. 2 * i - 1 \in DOMAIN history
    <3>1. DOMAIN history = 1 .. Len(history)
      BY Shape DEF RunInv
    <3>2. 2 * i - 1 \in 1 .. Len(history)
      BY <1>1, <2>1
    <3> QED BY <3>1, <3>2
  <2>4. r.no \in 1 .. MaxAttempts
    BY DEF RunInv, ExecutionShape
  <2> QED BY <2>1, <2>2, <2>3, <2>4 DEF Range
<1>7. Len(pipelineStages) + 1 = 9 /\ \A r \in running : r.phase \in {"works", "wrote"}
  BY Eight DEF Bounded, Executions
<1> QED BY <1>1, <1>2, <1>3, <1>4, <1>5, <1>6, <1>7, Zenon DEF Bounded, TypeOK, Errors

\* Every variable keeps its type, and no more is executed than there are slots.
THEOREM TypesAndSlots == Spec => []TypeOK
<1>1. Init => Bounded
  <2> SUFFICES ASSUME Init PROVE Bounded
    OBVIOUS
  <2>1. /\ poor \subseteq QualityGates /\ queued = FALSE /\ lastError = "" /\ running = {}
        /\ written = {"video"} /\ faults = 0
    BY DEF Init
  <2>2. IsFiniteSet(running) /\ Cardinality(running) <= Slots
    <3>1. IsFiniteSet({}) /\ Cardinality({}) = 0
      BY FS_EmptySet
    <3>2. 0 <= Slots
      BY ConstantsOK DEF ConstantsOK
    <3> QED BY <2>1, <3>1, <3>2
  <2>3. 0 \in 0 .. MaxFaults
    BY ConstantsOK DEF ConstantsOK
  <2> QED BY <2>1, <2>2, <2>3 DEF Bounded, Errors, URIs
<1>2. RunInv /\ Bounded /\ [Next]_vars => Bounded'
  BY BoundedKept, ConstantsOK
<1>3. RunInv /\ Bounded => TypeOK
  BY TypesFollow
<1> QED BY <1>1, <1>2, <1>3, RunInvariant, PTL DEF Spec
===============================================================================
