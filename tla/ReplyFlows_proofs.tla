------------------------- MODULE ReplyFlows_proofs -------------------------
(* Theorems about ReplyFlows, for every number of flows, sentences and acts of the user. *)
EXTENDS ReplyFlows, TLAPS

LEMMA Names ==
    /\ NFlows \in Nat /\ NSentences \in Nat /\ MaxActs \in Nat
    /\ End \in Nat /\ End \notin Sentences /\ 1 .. End = Sentences \cup {End} /\ 0 \notin Sentences
    /\ 0 .. NSentences = Sentences \cup {0} /\ 0 .. End = Sentences \cup {0, End}
    /\ Flows \subseteq Nat /\ 0 \notin Flows
    /\ Hands = Flows \cup {0} /\ Reader = 0 /\ Closer = 0 /\ Picker \in Nat
    /\ \A f \in Flows : Length[f] \in 0 .. NSentences
    /\ \A f \in Flows, n \in 0 .. NSentences : n < Length[f] => n + 1 \in Sentences
    /\ \A f \in Flows, n \in 0 .. NSentences : ~(n >= Length[f]) => n + 1 \in Sentences
BY ReplyFlowsAssumption DEF Flows, Sentences, End, Hands, Reader, Closer, Picker

LEMMA Speaking ==
    /\ NoWorker \notin Workers /\ Workers \subseteq Speakers
    /\ \A f \in Flows : <<f, 0>> \in Speakers /\ <<f, 0>> \notin Workers
    /\ \A f \in Flows, s \in Sentences : <<f, s>> \in Workers
    /\ \A w \in Workers : w[1] \in Flows /\ w[2] \in Sentences /\ w[2] # 0
    /\ \A t \in Speakers : t[1] \in Flows /\ (t[2] # 0 => t \in Workers)
    /\ \A t \in Speakers : t[2] = 0 => t = <<t[1], 0>>
BY Names DEF Workers, Speakers, NoWorker

LEMMA Queues ==
    ASSUME NEW S, NEW q \in Seq(S)
    PROVE  /\ \A e \in S : Append(q, e) \in Seq(S)
           /\ q # <<>> => Head(q) \in S /\ Tail(q) \in Seq(S)
OBVIOUS

(* A queue that changes by one element is still one *)
LEMMA QueueType ==
    ASSUME queue \in [Workers -> Seq(1 .. End)], NEW w \in Workers, NEW q \in Seq(1 .. End),
           queue' = [queue EXCEPT ![w] = q]
    PROVE  queue' \in [Workers -> Seq(1 .. End)]
OBVIOUS

-----------------------------------------------------------------------------
(* Types *)

LEMMA Ask_Type ==
    ASSUME TypeOK, NEW f \in Flows, NEW k \in Kinds, Ask(f, k)
    PROVE  TypeOK'
<1> USE Names, Speaking DEF TypeOK, genVars, flowVars, slotVars, workerVars, readVars, audioVars, closeVars, Act, Go
<1>1. FlowTypeOK'
  BY ReplyFlowsAssumption DEF FlowTypeOK, Ask
<1>2. SlotTypeOK'
  BY DEF SlotTypeOK, FlowTypeOK, Ask
<1>3. SpeechTypeOK'
  BY DEF SpeechTypeOK, SlotTypeOK, FlowTypeOK, Ask
<1>4. AudioTypeOK'
  BY DEF AudioTypeOK, SpeechTypeOK, Ask
<1> QED BY <1>1, <1>2, <1>3, <1>4

LEMMA BeginCaller_Type ==
    ASSUME TypeOK, BeginCaller
    PROVE  TypeOK'
<1> USE Names, Speaking DEF TypeOK, genVars, flowVars, slotVars, workerVars, readVars, audioVars, closeVars, Act
<1>1. FlowTypeOK'
  BY DEF FlowTypeOK, BeginCaller
<1>2. SlotTypeOK'
  BY DEF SlotTypeOK, FlowTypeOK, BeginCaller
<1>3. SpeechTypeOK'
  BY DEF SpeechTypeOK, SlotTypeOK, FlowTypeOK, BeginCaller
<1>4. AudioTypeOK'
  BY DEF AudioTypeOK, SpeechTypeOK, BeginCaller
<1> QED BY <1>1, <1>2, <1>3, <1>4

LEMMA IntentCancelled_Type ==
    ASSUME TypeOK, IntentCancelled
    PROVE  TypeOK'
<1> USE Names, Speaking DEF TypeOK, genVars, flowVars, slotVars, workerVars, readVars, audioVars, closeVars, Act
<1>1. FlowTypeOK'
  BY DEF FlowTypeOK, IntentCancelled
<1>2. SlotTypeOK'
  BY DEF SlotTypeOK, FlowTypeOK, IntentCancelled
<1>3. SpeechTypeOK'
  BY DEF SpeechTypeOK, SlotTypeOK, FlowTypeOK, IntentCancelled
<1>4. AudioTypeOK'
  BY DEF AudioTypeOK, SpeechTypeOK, IntentCancelled
<1> QED BY <1>1, <1>2, <1>3, <1>4

LEMMA MuteMark_Type ==
    ASSUME TypeOK, MuteMark
    PROVE  TypeOK'
<1> USE Names, Speaking DEF TypeOK, genVars, flowVars, slotVars, workerVars, readVars, audioVars, closeVars, Act
<1>1. FlowTypeOK'
  BY DEF FlowTypeOK, MuteMark
<1>2. SlotTypeOK'
  BY DEF SlotTypeOK, FlowTypeOK, MuteMark
<1>3. SpeechTypeOK'
  BY DEF SpeechTypeOK, SlotTypeOK, FlowTypeOK, MuteMark
<1>4. AudioTypeOK'
  BY DEF AudioTypeOK, FlowTypeOK, MuteMark
<1> QED BY <1>1, <1>2, <1>3, <1>4

LEMMA ShowThinking_Type ==
    ASSUME TypeOK, NEW f \in Flows, ShowThinking(f)
    PROVE  TypeOK'
<1> USE Names, Speaking DEF TypeOK, genVars, flowVars, slotVars, workerVars, readVars, audioVars, closeVars, BeginSegment, Empty, Go, GoIdle, AfterPut, Owns
<1>1. FlowTypeOK'
  BY DEF FlowTypeOK, ShowThinking
<1>2. SlotTypeOK'
  BY DEF SlotTypeOK, FlowTypeOK, ShowThinking
<1>3. SpeechTypeOK'
  BY DEF SpeechTypeOK, SlotTypeOK, FlowTypeOK, ShowThinking
<1>4. AudioTypeOK'
  BY DEF AudioTypeOK, SpeechTypeOK, ShowThinking
<1> QED BY <1>1, <1>2, <1>3, <1>4

LEMMA Answer_Type ==
    ASSUME TypeOK, NEW f \in Flows, Answer(f)
    PROVE  TypeOK'
<1> USE Names, Speaking DEF TypeOK, genVars, flowVars, slotVars, workerVars, readVars, audioVars, closeVars, BeginSegment, Empty, Go, GoIdle, AfterPut, Owns
<1>1. FlowTypeOK'
  BY DEF FlowTypeOK, Answer
<1>2. SlotTypeOK'
  BY DEF SlotTypeOK, FlowTypeOK, Answer
<1>3. SpeechTypeOK'
  BY DEF SpeechTypeOK, SlotTypeOK, FlowTypeOK, Answer
<1>4. AudioTypeOK'
  BY DEF AudioTypeOK, SpeechTypeOK, Answer
<1> QED BY <1>1, <1>2, <1>3, <1>4

LEMMA QueryFails_Type ==
    ASSUME TypeOK, NEW f \in Flows, QueryFails(f)
    PROVE  TypeOK'
<1> USE Names, Speaking DEF TypeOK, genVars, flowVars, slotVars, workerVars, readVars, audioVars, closeVars, BeginSegment, Empty, Go, GoIdle, AfterPut, Owns
<1>1. FlowTypeOK'
  BY DEF FlowTypeOK, QueryFails
<1>2. SlotTypeOK'
  BY DEF SlotTypeOK, FlowTypeOK, QueryFails
<1>3. SpeechTypeOK'
  BY DEF SpeechTypeOK, SlotTypeOK, FlowTypeOK, QueryFails
<1>4. AudioTypeOK'
  BY DEF AudioTypeOK, SpeechTypeOK, QueryFails
<1> QED BY <1>1, <1>2, <1>3, <1>4

LEMMA FinishSequence_Type ==
    ASSUME TypeOK, NEW f \in Flows, FinishSequence(f)
    PROVE  TypeOK'
<1> USE Names, Speaking DEF TypeOK, genVars, flowVars, slotVars, workerVars, readVars, audioVars, closeVars, BeginSegment, Empty, Go, GoIdle, AfterPut, Owns
<1>1. FlowTypeOK'
  BY DEF FlowTypeOK, FinishSequence
<1>2. SlotTypeOK'
  BY DEF SlotTypeOK, FlowTypeOK, FinishSequence
<1>3. SpeechTypeOK'
  <2>1. CASE queue' = queue
    BY <2>1 DEF SpeechTypeOK, FinishSequence
  <2>2. CASE Owns(f) /\ queue' = [queue EXCEPT ![slot] = Append(@, End)]
    <3>1. slot \in Workers
      BY <2>2 DEF Owns, SlotTypeOK
    <3>2. Append(queue[slot], End) \in Seq(1 .. End)
      BY <3>1, Queues DEF SpeechTypeOK
    <3>3. queue' \in [Workers -> Seq(1 .. End)]
      BY <2>2, <3>1, <3>2, QueueType DEF SpeechTypeOK
    <3> QED BY <3>3 DEF SpeechTypeOK, FinishSequence
  <2> QED BY <2>1, <2>2 DEF FinishSequence
<1>4. AudioTypeOK'
  BY DEF AudioTypeOK, SpeechTypeOK, FinishSequence
<1> QED BY <1>1, <1>2, <1>3, <1>4

LEMMA Decide_Type ==
    ASSUME TypeOK, NEW f \in Flows, Decide(f)
    PROVE  TypeOK'
<1> USE Names, Speaking DEF TypeOK, genVars, flowVars, slotVars, workerVars, readVars, audioVars, closeVars, BeginSegment, Empty, Go, GoIdle, AfterPut, Owns
<1>1. FlowTypeOK'
  BY DEF FlowTypeOK, Decide
<1>2. SlotTypeOK'
  BY DEF SlotTypeOK, FlowTypeOK, Decide
<1>3. SpeechTypeOK'
  BY DEF SpeechTypeOK, SlotTypeOK, FlowTypeOK, Decide
<1>4. AudioTypeOK'
  BY DEF AudioTypeOK, SpeechTypeOK, Decide
<1> QED BY <1>1, <1>2, <1>3, <1>4

LEMMA SynthesizeWhole_Type ==
    ASSUME TypeOK, NEW f \in Flows, SynthesizeWhole(f)
    PROVE  TypeOK'
<1> USE Names, Speaking DEF TypeOK, genVars, flowVars, slotVars, workerVars, readVars, audioVars, closeVars, BeginSegment, Empty, Go, GoIdle, AfterPut, Owns
<1>1. FlowTypeOK'
  BY DEF FlowTypeOK, SynthesizeWhole
<1>2. SlotTypeOK'
  BY DEF SlotTypeOK, FlowTypeOK, SynthesizeWhole
<1>3. SpeechTypeOK'
  BY DEF SpeechTypeOK, SlotTypeOK, FlowTypeOK, SynthesizeWhole
<1>4. AudioTypeOK'
  BY DEF AudioTypeOK, SpeechTypeOK, SynthesizeWhole
<1> QED BY <1>1, <1>2, <1>3, <1>4

LEMMA SendPlay_Type ==
    ASSUME TypeOK, NEW f \in Flows, SendPlay(f)
    PROVE  TypeOK'
<1> USE Names, Speaking DEF TypeOK, genVars, flowVars, slotVars, workerVars, readVars, audioVars, closeVars, BeginSegment, Empty, Go, GoIdle, AfterPut, Owns
<1>1. FlowTypeOK'
  BY DEF FlowTypeOK, SendPlay
<1>2. SlotTypeOK'
  BY DEF SlotTypeOK, FlowTypeOK, SendPlay
<1>3. SpeechTypeOK'
  BY DEF SpeechTypeOK, SlotTypeOK, FlowTypeOK, SendPlay
<1>4. AudioTypeOK'
  BY DEF AudioTypeOK, SpeechTypeOK, SendPlay
<1> QED BY <1>1, <1>2, <1>3, <1>4

LEMMA BeginReading_Type ==
    ASSUME TypeOK, NEW f \in Flows, BeginReading(f)
    PROVE  TypeOK'
<1> USE Names, Speaking DEF TypeOK, genVars, flowVars, slotVars, workerVars, readVars, audioVars, closeVars, BeginSegment, Empty, Go, GoIdle, AfterPut, Owns
<1>1. FlowTypeOK'
  BY DEF FlowTypeOK, BeginReading
<1>2. SlotTypeOK'
  BY DEF SlotTypeOK, FlowTypeOK, BeginReading
<1>3. SpeechTypeOK'
  BY DEF SpeechTypeOK, BeginReading
<1>4. AudioTypeOK'
  BY DEF AudioTypeOK, SpeechTypeOK, BeginReading
<1> QED BY <1>1, <1>2, <1>3, <1>4

LEMMA GetChunk_Type ==
    ASSUME TypeOK, NEW f \in Flows, GetChunk(f)
    PROVE  TypeOK'
<1> USE Names, Speaking DEF TypeOK, genVars, flowVars, slotVars, workerVars, readVars, audioVars, closeVars, BeginSegment, Empty, Go, GoIdle, AfterPut, Owns
<1>1. FlowTypeOK'
  BY DEF FlowTypeOK, GetChunk
<1>2. SlotTypeOK'
  BY DEF SlotTypeOK, FlowTypeOK, GetChunk
<1>3. SpeechTypeOK'
  <2>1. box' \in [Flows -> 0 .. End]
    BY DEF SpeechTypeOK, GetChunk
  <2>2. saying' \in [Speakers -> 0 .. NSentences]
    <3>1. CASE saying' = saying
      BY <3>1 DEF SpeechTypeOK
    <3>2. CASE box[f] # 0 /\ box[f] # End /\ saying' = [saying EXCEPT ![<<f, 0>>] = box[f]]
      <4>1. box[f] \in 0 .. NSentences
        BY <3>2 DEF SpeechTypeOK
      <4> QED BY <3>2, <4>1 DEF SpeechTypeOK
    <3> QED BY <3>1, <3>2 DEF GetChunk
  <2> QED BY <2>1, <2>2 DEF SpeechTypeOK, GetChunk
<1>4. AudioTypeOK'
  BY DEF AudioTypeOK, SpeechTypeOK, GetChunk
<1> QED BY <1>1, <1>2, <1>3, <1>4

LEMMA ChunkPlayed_Type ==
    ASSUME TypeOK, NEW f \in Flows, ChunkPlayed(f)
    PROVE  TypeOK'
<1> USE Names, Speaking DEF TypeOK, genVars, flowVars, slotVars, workerVars, readVars, audioVars, closeVars, BeginSegment, Empty, Go, GoIdle, AfterPut, Owns
<1>1. FlowTypeOK'
  BY DEF FlowTypeOK, ChunkPlayed
<1>2. SlotTypeOK'
  BY DEF SlotTypeOK, FlowTypeOK, ChunkPlayed
<1>3. SpeechTypeOK'
  BY DEF SpeechTypeOK, SlotTypeOK, FlowTypeOK, ChunkPlayed
<1>4. AudioTypeOK'
  BY DEF AudioTypeOK, SpeechTypeOK, ChunkPlayed
<1> QED BY <1>1, <1>2, <1>3, <1>4

LEMMA LeaveReading_Type ==
    ASSUME TypeOK, NEW f \in Flows, LeaveReading(f)
    PROVE  TypeOK'
<1> USE Names, Speaking DEF TypeOK, genVars, flowVars, slotVars, workerVars, readVars, audioVars, closeVars, BeginSegment, Empty, Go, GoIdle, AfterPut, Owns
<1>1. FlowTypeOK'
  BY DEF FlowTypeOK, LeaveReading
<1>2. SlotTypeOK'
  BY DEF SlotTypeOK, FlowTypeOK, LeaveReading
<1>3. SpeechTypeOK'
  BY DEF SpeechTypeOK, SlotTypeOK, FlowTypeOK, LeaveReading
<1>4. AudioTypeOK'
  BY DEF AudioTypeOK, SpeechTypeOK, LeaveReading
<1> QED BY <1>1, <1>2, <1>3, <1>4

LEMMA Synthesize_Type ==
    ASSUME TypeOK, NEW f \in Flows, Synthesize(f)
    PROVE  TypeOK'
<1> USE Names, Speaking DEF TypeOK, genVars, flowVars, slotVars, workerVars, readVars, audioVars, closeVars, BeginSegment, Empty, Go, GoIdle, AfterPut, Owns
<1>1. FlowTypeOK'
  BY DEF FlowTypeOK, Synthesize
<1>2. SlotTypeOK'
  BY DEF SlotTypeOK, FlowTypeOK, Synthesize
<1>3. SpeechTypeOK'
  <2>1. CASE spc[f] = "check"
    <3>1. spc' = [spc EXCEPT ![f] = "end"] \/ spc' = [spc EXCEPT ![f] = "synth"]
      BY <2>1, Zenon DEF Synthesize
    <3>2. UNCHANGED <<workerVars, box>>
      BY DEF Synthesize
    <3> QED BY <3>1, <3>2 DEF SpeechTypeOK
  <2>2. CASE spc[f] = "synth"
    BY <2>2 DEF SpeechTypeOK, Synthesize
  <2> QED BY <2>1, <2>2 DEF Synthesize
<1>4. AudioTypeOK'
  BY DEF AudioTypeOK, SpeechTypeOK, Synthesize
<1> QED BY <1>1, <1>2, <1>3, <1>4

LEMMA PutSynthResult_Type ==
    ASSUME TypeOK, NEW f \in Flows, PutSynthResult(f)
    PROVE  TypeOK'
<1> USE Names, Speaking DEF TypeOK, genVars, flowVars, slotVars, workerVars, readVars, audioVars, closeVars, BeginSegment, Empty, Go, GoIdle, AfterPut, Owns
<1>1. FlowTypeOK'
  BY DEF FlowTypeOK, PutSynthResult
<1>2. SlotTypeOK'
  BY DEF SlotTypeOK, FlowTypeOK, PutSynthResult
<1>3. SpeechTypeOK'
  <2>1. sent[f] \in 0 .. End
    BY DEF FlowTypeOK
  <2>2. box' \in [Flows -> 0 .. End]
    BY <2>1 DEF SpeechTypeOK, PutSynthResult
  <2>3. spc' = [spc EXCEPT ![f] = AfterPut(@)] \/ spc' = [spc EXCEPT ![f] = "over"]
    BY Zenon DEF PutSynthResult
  <2>4. spc' \in [Flows -> {"none", "check", "synth", "put", "error", "end", "over"}]
    <3>1. AfterPut(spc[f]) \in {"check", "end", "over"}
      OBVIOUS
    <3> HIDE DEF AfterPut
    <3> QED BY <2>3, <3>1 DEF SpeechTypeOK
  <2> QED BY <2>2, <2>4 DEF SpeechTypeOK, PutSynthResult
<1>4. AudioTypeOK'
  BY DEF AudioTypeOK, SpeechTypeOK, PutSynthResult
<1> QED BY <1>1, <1>2, <1>3, <1>4

LEMMA ReadSentence_Type ==
    ASSUME TypeOK, NEW f \in Flows, ReadSentence(f)
    PROVE  TypeOK'
<1> USE Names, Speaking DEF TypeOK, genVars, flowVars, slotVars, workerVars, readVars, audioVars, closeVars, BeginSegment, Empty, Go, GoIdle, AfterPut, Owns
<1>1. FlowTypeOK'
  BY DEF FlowTypeOK, ReadSentence
<1>2. SlotTypeOK'
  BY DEF SlotTypeOK, FlowTypeOK, ReadSentence
<1>3. SpeechTypeOK'
  BY DEF SpeechTypeOK, SlotTypeOK, FlowTypeOK, ReadSentence
<1>4. AudioTypeOK'
  BY DEF AudioTypeOK, SpeechTypeOK, ReadSentence
<1> QED BY <1>1, <1>2, <1>3, <1>4

LEMMA TakeSlot_Type ==
    ASSUME TypeOK, NEW h \in Hands, TakeSlot(h)
    PROVE  TypeOK'
<1> USE Names, Speaking DEF TypeOK, genVars, flowVars, slotVars, workerVars, readVars, audioVars, closeVars, Empty, Owns
<1>1. FlowTypeOK'
  BY DEF FlowTypeOK, TakeSlot
<1>2. SlotTypeOK'
  <2>1. hand[h].flow \in Flows /\ hand[h].seg \in Sentences
    BY DEF SlotTypeOK, TakeSlot
  <2>2. <<hand[h].flow, hand[h].seg>> \in Workers
    BY <2>1
  <2>3. CASE Owns(hand[h].flow)
    <3>1. slot \in Workers
      BY <2>3 DEF SlotTypeOK
    <3> QED BY <2>1, <2>3, <3>1 DEF SlotTypeOK, TakeSlot
  <2>4. CASE ~Owns(hand[h].flow)
    <3> DEFINE f == hand[h].flow
               s == hand[h].seg
    <3>1. /\ hand' = [hand EXCEPT ![h] = [at |-> "put", flow |-> f, seg |-> s, into |-> <<f, s>>]]
          /\ slot' = <<f, s>> /\ slotGen' = f /\ active' = TRUE
      BY <2>4 DEF TakeSlot
    <3>2. [at |-> "put", flow |-> f, seg |-> s, into |-> <<f, s>>]
            \in [at : {"put"}, flow : Flows, seg : Sentences, into : Workers]
      BY <2>1, <2>2
    <3> HIDE DEF f, s
    <3> QED BY <2>1, <2>2, <3>1, <3>2 DEF SlotTypeOK
  <2> QED BY <2>3, <2>4
<1>3. SpeechTypeOK'
  BY DEF SpeechTypeOK, SlotTypeOK, FlowTypeOK, TakeSlot
<1>4. AudioTypeOK'
  BY DEF AudioTypeOK, SpeechTypeOK, TakeSlot
<1> QED BY <1>1, <1>2, <1>3, <1>4

LEMMA PutSegment_Type ==
    ASSUME TypeOK, NEW h \in Hands, PutSegment(h)
    PROVE  TypeOK'
<1> USE Names, Speaking DEF TypeOK, genVars, flowVars, slotVars, workerVars, readVars, audioVars, closeVars, Empty, Owns
<1>1. FlowTypeOK'
  BY DEF FlowTypeOK, PutSegment
<1>2. SlotTypeOK'
  BY DEF SlotTypeOK, FlowTypeOK, PutSegment
<1>3. SpeechTypeOK'
  <2>1. hand[h].into \in Workers /\ hand[h].seg \in 1 .. End
    BY DEF SlotTypeOK, PutSegment
  <2>2. Append(queue[hand[h].into], hand[h].seg) \in Seq(1 .. End)
    BY <2>1, Queues DEF SpeechTypeOK
  <2>3. queue' \in [Workers -> Seq(1 .. End)]
    BY <2>1, <2>2, QueueType DEF SpeechTypeOK, PutSegment
  <2> QED BY <2>3 DEF SpeechTypeOK, PutSegment
<1>4. AudioTypeOK'
  BY DEF AudioTypeOK, SpeechTypeOK, PutSegment
<1> QED BY <1>1, <1>2, <1>3, <1>4

LEMMA WorkerGuard_Type ==
    ASSUME TypeOK, NEW w \in Workers, WorkerGuard(w)
    PROVE  TypeOK'
<1> USE Names, Speaking DEF TypeOK, genVars, flowVars, slotVars, workerVars, readVars, audioVars, closeVars
<1>1. FlowTypeOK'
  BY DEF FlowTypeOK, WorkerGuard
<1>2. SlotTypeOK'
  BY DEF SlotTypeOK, FlowTypeOK, WorkerGuard
<1>3. SpeechTypeOK'
  BY DEF SpeechTypeOK, SlotTypeOK, FlowTypeOK, WorkerGuard
<1>4. AudioTypeOK'
  BY DEF AudioTypeOK, SpeechTypeOK, WorkerGuard
<1> QED BY <1>1, <1>2, <1>3, <1>4

LEMMA WorkerGet_Type ==
    ASSUME TypeOK, NEW w \in Workers, WorkerGet(w)
    PROVE  TypeOK'
<1> USE Names, Speaking DEF TypeOK, genVars, flowVars, slotVars, workerVars, readVars, audioVars, closeVars
<1>1. FlowTypeOK'
  BY DEF FlowTypeOK, WorkerGet
<1>2. SlotTypeOK'
  BY DEF SlotTypeOK, FlowTypeOK, WorkerGet
<1>3. SpeechTypeOK'
  <2>1. Head(queue[w]) \in 1 .. End /\ Tail(queue[w]) \in Seq(1 .. End)
    BY Queues DEF SpeechTypeOK, WorkerGet
  <2>2. queue' \in [Workers -> Seq(1 .. End)]
    BY <2>1, QueueType DEF SpeechTypeOK, WorkerGet
  <2>3. Head(queue[w]) # End => Head(queue[w]) \in 0 .. NSentences
    BY <2>1
  <2>4. CASE Head(queue[w]) # End /\ MaySpeak(w[1])
    <3>1. /\ wpc' = [wpc EXCEPT ![w] = "synth"]
          /\ saying' = [saying EXCEPT ![w] = Head(queue[w])]
          /\ UNCHANGED <<box, spc>>
      BY <2>4 DEF WorkerGet
    <3>2. saying' \in [Speakers -> 0 .. NSentences]
      BY <3>1, <2>3, <2>4 DEF SpeechTypeOK
    <3> QED BY <2>2, <3>1, <3>2 DEF SpeechTypeOK
  <2>5. CASE ~(Head(queue[w]) # End /\ MaySpeak(w[1]))
    BY <2>2, <2>5 DEF SpeechTypeOK, WorkerGet, MaySpeak
  <2> QED BY <2>4, <2>5
<1>4. AudioTypeOK'
  BY DEF AudioTypeOK, SpeechTypeOK, WorkerGet
<1> QED BY <1>1, <1>2, <1>3, <1>4

LEMMA WorkerSynthesize_Type ==
    ASSUME TypeOK, NEW w \in Workers, WorkerSynthesize(w)
    PROVE  TypeOK'
<1> USE Names, Speaking DEF TypeOK, genVars, flowVars, slotVars, workerVars, readVars, audioVars, closeVars
<1>1. FlowTypeOK'
  BY DEF FlowTypeOK, WorkerSynthesize
<1>2. SlotTypeOK'
  BY DEF SlotTypeOK, FlowTypeOK, WorkerSynthesize
<1>3. SpeechTypeOK'
  BY DEF SpeechTypeOK, WorkerSynthesize
<1>4. AudioTypeOK'
  BY DEF AudioTypeOK, SpeechTypeOK, WorkerSynthesize
<1> QED BY <1>1, <1>2, <1>3, <1>4

LEMMA WorkerSend_Type ==
    ASSUME TypeOK, NEW w \in Workers, WorkerSend(w)
    PROVE  TypeOK'
<1> USE Names, Speaking DEF TypeOK, genVars, flowVars, slotVars, workerVars, readVars, audioVars, closeVars
<1>1. FlowTypeOK'
  BY DEF FlowTypeOK, WorkerSend
<1>2. SlotTypeOK'
  BY DEF SlotTypeOK, FlowTypeOK, WorkerSend
<1>3. SpeechTypeOK'
  BY DEF SpeechTypeOK, SlotTypeOK, FlowTypeOK, WorkerSend
<1>4. AudioTypeOK'
  BY DEF AudioTypeOK, SpeechTypeOK, WorkerSend
<1> QED BY <1>1, <1>2, <1>3, <1>4

LEMMA WorkerPlayed_Type ==
    ASSUME TypeOK, NEW w \in Workers, WorkerPlayed(w)
    PROVE  TypeOK'
<1> USE Names, Speaking DEF TypeOK, genVars, flowVars, slotVars, workerVars, readVars, audioVars, closeVars
<1>1. FlowTypeOK'
  BY DEF FlowTypeOK, WorkerPlayed
<1>2. SlotTypeOK'
  BY DEF SlotTypeOK, FlowTypeOK, WorkerPlayed
<1>3. SpeechTypeOK'
  BY DEF SpeechTypeOK, SlotTypeOK, FlowTypeOK, WorkerPlayed
<1>4. AudioTypeOK'
  BY DEF AudioTypeOK, SpeechTypeOK, WorkerPlayed
<1> QED BY <1>1, <1>2, <1>3, <1>4

LEMMA WorkerLeave_Type ==
    ASSUME TypeOK, NEW w \in Workers, WorkerLeave(w)
    PROVE  TypeOK'
<1> USE Names, Speaking DEF TypeOK, genVars, flowVars, slotVars, workerVars, readVars, audioVars, closeVars
<1>1. FlowTypeOK'
  BY DEF FlowTypeOK, WorkerLeave
<1>2. SlotTypeOK'
  BY DEF SlotTypeOK, FlowTypeOK, WorkerLeave
<1>3. SpeechTypeOK'
  BY DEF SpeechTypeOK, SlotTypeOK, FlowTypeOK, WorkerLeave
<1>4. AudioTypeOK'
  BY DEF AudioTypeOK, SpeechTypeOK, WorkerLeave
<1> QED BY <1>1, <1>2, <1>3, <1>4

LEMMA WorkerEnd_Type ==
    ASSUME TypeOK, NEW w \in Workers, WorkerEnd(w)
    PROVE  TypeOK'
<1> USE Names, Speaking DEF TypeOK, genVars, flowVars, slotVars, workerVars, readVars, audioVars, closeVars
<1>1. FlowTypeOK'
  BY DEF FlowTypeOK, WorkerEnd
<1>2. SlotTypeOK'
  BY DEF SlotTypeOK, FlowTypeOK, WorkerEnd
<1>3. SpeechTypeOK'
  BY DEF SpeechTypeOK, SlotTypeOK, FlowTypeOK, WorkerEnd
<1>4. AudioTypeOK'
  BY DEF AudioTypeOK, SpeechTypeOK, WorkerEnd
<1> QED BY <1>1, <1>2, <1>3, <1>4

LEMMA ClearFlag_Type ==
    ASSUME TypeOK, NEW t \in Speakers, ClearFlag(t)
    PROVE  TypeOK'
<1> USE Names, Speaking DEF TypeOK, genVars, flowVars, slotVars, workerVars, readVars, audioVars, closeVars, Waits
<1>1. FlowTypeOK'
  BY DEF FlowTypeOK, ClearFlag
<1>2. SlotTypeOK'
  BY DEF SlotTypeOK, FlowTypeOK, ClearFlag
<1>3. SpeechTypeOK'
  BY DEF SpeechTypeOK, SlotTypeOK, FlowTypeOK, ClearFlag
<1>4. AudioTypeOK'
  BY DEF AudioTypeOK, SpeechTypeOK, ClearFlag
<1> QED BY <1>1, <1>2, <1>3, <1>4

LEMMA StartPlay_Type ==
    ASSUME TypeOK, NEW t \in Speakers, StartPlay(t)
    PROVE  TypeOK'
<1> USE Names, Speaking DEF TypeOK, genVars, flowVars, slotVars, workerVars, readVars, audioVars, closeVars, Waits
<1>1. FlowTypeOK'
  BY DEF FlowTypeOK, StartPlay
<1>2. SlotTypeOK'
  BY DEF SlotTypeOK, FlowTypeOK, StartPlay
<1>3. SpeechTypeOK'
  BY DEF SpeechTypeOK, SlotTypeOK, FlowTypeOK, StartPlay
<1>4. AudioTypeOK'
  BY DEF AudioTypeOK, SpeechTypeOK, StartPlay
<1> QED BY <1>1, <1>2, <1>3, <1>4

LEMMA EndPlay_Type ==
    ASSUME TypeOK, NEW t \in Speakers, EndPlay(t)
    PROVE  TypeOK'
<1> USE Names, Speaking DEF TypeOK, genVars, flowVars, slotVars, workerVars, readVars, audioVars, closeVars, Waits
<1>1. FlowTypeOK'
  BY DEF FlowTypeOK, EndPlay
<1>2. SlotTypeOK'
  BY DEF SlotTypeOK, FlowTypeOK, EndPlay
<1>3. SpeechTypeOK'
  BY DEF SpeechTypeOK, SlotTypeOK, FlowTypeOK, EndPlay
<1>4. AudioTypeOK'
  BY DEF AudioTypeOK, SpeechTypeOK, EndPlay
<1> QED BY <1>1, <1>2, <1>3, <1>4

LEMMA ServeStop_Type ==
    ASSUME TypeOK, NEW x \in Flows \cup {Closer, Picker}, ServeStop(x)
    PROVE  TypeOK'
<1> USE Names, Speaking DEF TypeOK, genVars, flowVars, slotVars, workerVars, readVars, audioVars, closeVars
<1>1. FlowTypeOK'
  BY DEF FlowTypeOK, ServeStop
<1>2. SlotTypeOK'
  BY DEF SlotTypeOK, FlowTypeOK, ServeStop
<1>3. SpeechTypeOK'
  BY DEF SpeechTypeOK, SlotTypeOK, FlowTypeOK, ServeStop
<1>4. AudioTypeOK'
  BY DEF AudioTypeOK, SpeechTypeOK, ServeStop
<1> QED BY <1>1, <1>2, <1>3, <1>4

LEMMA CancelSequence_Type ==
    ASSUME TypeOK, CancelSequence
    PROVE  TypeOK'
<1> USE Names, Speaking DEF TypeOK, genVars, flowVars, slotVars, workerVars, readVars, audioVars, closeVars, Owns
<1>1. FlowTypeOK'
  BY DEF FlowTypeOK, CancelSequence
<1>2. SlotTypeOK'
  BY DEF SlotTypeOK, FlowTypeOK, CancelSequence
<1>3. SpeechTypeOK'
  <2>1. CASE queue' = queue
    BY <2>1 DEF SpeechTypeOK, CancelSequence
  <2>2. CASE Owns(closeGen) /\ queue' = [queue EXCEPT ![slot] = Append(@, End)]
    <3>1. slot \in Workers
      BY <2>2 DEF Owns, SlotTypeOK
    <3>2. Append(queue[slot], End) \in Seq(1 .. End)
      BY <3>1, Queues DEF SpeechTypeOK
    <3>3. queue' \in [Workers -> Seq(1 .. End)]
      BY <2>2, <3>1, <3>2, QueueType DEF SpeechTypeOK
    <3> QED BY <3>3 DEF SpeechTypeOK, CancelSequence
  <2> QED BY <2>1, <2>2 DEF CancelSequence
<1>4. AudioTypeOK'
  BY DEF AudioTypeOK, SpeechTypeOK, CancelSequence
<1> QED BY <1>1, <1>2, <1>3, <1>4

LEMMA ResetBubble_Type ==
    ASSUME TypeOK, ResetBubble
    PROVE  TypeOK'
<1> USE Names, Speaking DEF TypeOK, genVars, flowVars, slotVars, workerVars, readVars, audioVars, closeVars, Owns
<1>1. FlowTypeOK'
  BY DEF FlowTypeOK, ResetBubble
<1>2. SlotTypeOK'
  BY DEF SlotTypeOK, FlowTypeOK, ResetBubble
<1>3. SpeechTypeOK'
  BY DEF SpeechTypeOK, SlotTypeOK, FlowTypeOK, ResetBubble
<1>4. AudioTypeOK'
  BY DEF AudioTypeOK, SpeechTypeOK, ResetBubble
<1> QED BY <1>1, <1>2, <1>3, <1>4

(* Which step a system step is *)
LEMMA NextType ==
    ASSUME TypeOK, [Next]_vars
    PROVE  TypeOK'
<1>1. CASE UserStep
  BY <1>1, Ask_Type, BeginCaller_Type, IntentCancelled_Type, MuteMark_Type DEF UserStep
<1>2. ASSUME NEW f \in Flows, FlowStep(f)
      PROVE  TypeOK'
  BY <1>2, ShowThinking_Type, Answer_Type, QueryFails_Type, FinishSequence_Type, Decide_Type, SynthesizeWhole_Type, SendPlay_Type, BeginReading_Type, GetChunk_Type, ChunkPlayed_Type, LeaveReading_Type DEF FlowStep
<1>3. ASSUME NEW f \in Flows, SynthStep(f) \/ ReadSentence(f)
      PROVE  TypeOK'
  BY <1>3, Synthesize_Type, PutSynthResult_Type, ReadSentence_Type DEF SynthStep
<1>4. ASSUME NEW h \in Hands, HandStep(h)
      PROVE  TypeOK'
  BY <1>4, TakeSlot_Type, PutSegment_Type DEF HandStep
<1>5. ASSUME NEW w \in Workers, WorkerStep(w)
      PROVE  TypeOK'
  BY <1>5, WorkerGuard_Type, WorkerGet_Type, WorkerSynthesize_Type, WorkerSend_Type, WorkerPlayed_Type, WorkerLeave_Type, WorkerEnd_Type DEF WorkerStep
<1>6. ASSUME NEW t \in Speakers, PlayerStep(t)
      PROVE  TypeOK'
  BY <1>6, ClearFlag_Type, StartPlay_Type, EndPlay_Type DEF PlayerStep
<1>7. ASSUME NEW x \in Flows \cup {Closer, Picker}, ServeStop(x)
      PROVE  TypeOK'
  BY <1>7, ServeStop_Type
<1>8. CASE CloserStep
  BY <1>8, CancelSequence_Type, ResetBubble_Type DEF CloserStep
<1>9. CASE UNCHANGED vars
  BY <1>9 DEF vars, genVars, flowVars, slotVars, workerVars, readVars, audioVars, closeVars,
              TypeOK, FlowTypeOK, SlotTypeOK, SpeechTypeOK, AudioTypeOK
<1> QED BY <1>1, <1>2, <1>3, <1>4, <1>5, <1>6, <1>7, <1>8, <1>9 DEF Next, SystemStep

LEMMA InitType == Init => TypeOK
<1> SUFFICES ASSUME Init PROVE TypeOK
  OBVIOUS
<1> USE Names, Speaking DEF Init
<1>1. FlowTypeOK
  BY DEF FlowTypeOK
<1>2. SlotTypeOK
  BY DEF SlotTypeOK
<1>3. SpeechTypeOK
  BY DEF SpeechTypeOK
<1>4. AudioTypeOK
  <2>1. /\ said \in [Flows -> Seq(Sentences)]
        /\ late \in [Speakers -> Nat]
    OBVIOUS
  <2> QED BY <2>1 DEF AudioTypeOK
<1> QED BY <1>1, <1>2, <1>3, <1>4 DEF TypeOK

(* Every variable keeps its type, the queues and the threads' hands included. *)
THEOREM TypeCorrect == Spec => []TypeOK
<1>1. TypeOK /\ [Next]_vars => TypeOK'
  BY NextType
<1> QED BY InitType, <1>1, PTL DEF Spec

-----------------------------------------------------------------------------
(* What the steps do to the variables the invariants are about, variable by variable *)

LEMMA UserEffect ==
    ASSUME TypeOK, UserStep
    PROVE  /\ UNCHANGED <<hand, wpc, player, late, sent, slot, slotGen, queue, cancelled>>
           /\ \A f \in Flows : pc'[f] = pc[f] \/ (pc[f] = "new" /\ pc'[f] = "asked")
           /\ \A f \in Flows : pc[f] # "new" /\ ~MaySpeak(f) => ~MaySpeak(f)'
<1> USE DEF TypeOK, FlowTypeOK, Go, MaySpeak, flowVars, slotVars, workerVars, audioVars
<1>1. ASSUME NEW f \in Flows, NEW k \in Kinds, Ask(f, k)
      PROVE  /\ UNCHANGED <<hand, wpc, player, late, sent, slot, slotGen, queue, cancelled, muted>>
             /\ \A g \in Flows : pc'[g] = pc[g] \/ (pc[g] = "new" /\ pc'[g] = "asked")
             /\ current' = f /\ pc[f] = "new"
  BY <1>1 DEF Ask
<1>2. CASE BeginCaller
  BY <1>2, Names DEF BeginCaller
<1>3. CASE IntentCancelled
  BY <1>3, Names DEF IntentCancelled
<1>4. CASE MuteMark
  BY <1>4, Names DEF MuteMark
<1> QED BY <1>1, <1>2, <1>3, <1>4 DEF UserStep

\* The steps of the thread of a flow that leave the playback of the flow alone.
FlowMoves(f) ==
    /\ UNCHANGED <<current, muted, late, wpc>>
    /\ \A g \in Flows : g # f => pc'[g] = pc[g] /\ sent'[g] = sent[g]
    /\ sent[f] <= sent'[f]
    /\ pc'[f] = "new" => pc[f] = "new"
    /\ pc[f] = "failed" => pc'[f] = "failed"
    /\ pc[f] = "over" => pc'[f] = "over"
    /\ pc'[f] = "send" => pc[f] = "send" \/ MaySpeak(f)
    /\ \A t \in Speakers : t # <<f, 0>> => player'[t] = player[t]
    /\ \/ player'[<<f, 0>>] = player[<<f, 0>>] /\ (pc[f] = "playing" => pc'[f] = "playing")
       \/ pc[f] = "send" /\ pc'[f] \in {"playing", "over"} /\ player'[<<f, 0>>] = "sent"
       \/ pc'[f] # "send" /\ player'[<<f, 0>>] = "none"

LEMMA ShowThinking_Effect ==
    ASSUME TypeOK, NEW f \in Flows, ShowThinking(f)
    PROVE  FlowMoves(f)
<1> USE Speaking DEF FlowMoves, TypeOK, FlowTypeOK, Go, GoIdle, genVars, flowVars, workerVars, audioVars
<1> QED BY DEF ShowThinking, AudioTypeOK, MaySpeak, StopSynth

LEMMA Answer_Effect ==
    ASSUME TypeOK, NEW f \in Flows, Answer(f)
    PROVE  FlowMoves(f)
<1> USE Speaking DEF FlowMoves, TypeOK, FlowTypeOK, Go, GoIdle, genVars, flowVars, workerVars, audioVars
<1> QED BY DEF Answer, AudioTypeOK, MaySpeak, StopSynth

LEMMA QueryFails_Effect ==
    ASSUME TypeOK, NEW f \in Flows, QueryFails(f)
    PROVE  FlowMoves(f)
<1> USE Speaking DEF FlowMoves, TypeOK, FlowTypeOK, Go, GoIdle, genVars, flowVars, workerVars, audioVars
<1> QED BY DEF QueryFails, AudioTypeOK, MaySpeak, StopSynth

LEMMA FinishSequence_Effect ==
    ASSUME TypeOK, NEW f \in Flows, FinishSequence(f)
    PROVE  FlowMoves(f)
<1> USE Speaking DEF FlowMoves, TypeOK, FlowTypeOK, Go, GoIdle, genVars, flowVars, workerVars, audioVars
<1> QED BY DEF FinishSequence, AudioTypeOK, MaySpeak, StopSynth

LEMMA Decide_Effect ==
    ASSUME TypeOK, NEW f \in Flows, Decide(f)
    PROVE  FlowMoves(f)
<1> USE Speaking DEF FlowMoves, TypeOK, FlowTypeOK, Go, GoIdle, genVars, flowVars, workerVars, audioVars
<1> QED BY DEF Decide, AudioTypeOK, MaySpeak, StopSynth

LEMMA SynthesizeWhole_Effect ==
    ASSUME TypeOK, NEW f \in Flows, SynthesizeWhole(f)
    PROVE  FlowMoves(f)
<1> USE Speaking DEF FlowMoves, TypeOK, FlowTypeOK, Go, GoIdle, genVars, flowVars, workerVars, audioVars
<1> QED BY DEF SynthesizeWhole, AudioTypeOK, MaySpeak, StopSynth

LEMMA SendPlay_Effect ==
    ASSUME TypeOK, NEW f \in Flows, SendPlay(f)
    PROVE  FlowMoves(f)
<1> USE Speaking DEF FlowMoves, TypeOK, FlowTypeOK, Go, GoIdle, genVars, flowVars, workerVars, audioVars
<1> QED BY DEF SendPlay, AudioTypeOK, MaySpeak, StopSynth

LEMMA BeginReading_Effect ==
    ASSUME TypeOK, NEW f \in Flows, BeginReading(f)
    PROVE  FlowMoves(f)
<1> USE Speaking DEF FlowMoves, TypeOK, FlowTypeOK, Go, GoIdle, genVars, flowVars, workerVars, audioVars
<1> QED BY DEF BeginReading, AudioTypeOK, MaySpeak, StopSynth

LEMMA GetChunk_Effect ==
    ASSUME TypeOK, NEW f \in Flows, GetChunk(f)
    PROVE  FlowMoves(f)
<1> USE Speaking DEF FlowMoves, TypeOK, FlowTypeOK, Go, GoIdle, genVars, flowVars, workerVars, audioVars
<1> QED BY DEF GetChunk, AudioTypeOK, MaySpeak, StopSynth

LEMMA ChunkPlayed_Effect ==
    ASSUME TypeOK, NEW f \in Flows, ChunkPlayed(f)
    PROVE  FlowMoves(f)
<1> USE Speaking DEF FlowMoves, TypeOK, FlowTypeOK, Go, GoIdle, genVars, flowVars, workerVars, audioVars
<1> QED BY DEF ChunkPlayed, AudioTypeOK, MaySpeak, StopSynth

LEMMA LeaveReading_Effect ==
    ASSUME TypeOK, NEW f \in Flows, LeaveReading(f)
    PROVE  FlowMoves(f)
<1> USE Speaking DEF FlowMoves, TypeOK, FlowTypeOK, Go, GoIdle, genVars, flowVars, workerVars, audioVars
<1> QED BY DEF LeaveReading, AudioTypeOK, MaySpeak, StopSynth

LEMMA Synthesize_Effect ==
    ASSUME TypeOK, NEW f \in Flows, Synthesize(f)
    PROVE  FlowMoves(f)
<1> USE Speaking DEF FlowMoves, TypeOK, FlowTypeOK, Go, GoIdle, genVars, flowVars, workerVars, audioVars
<1> QED BY DEF Synthesize, AudioTypeOK, MaySpeak, StopSynth

LEMMA PutSynthResult_Effect ==
    ASSUME TypeOK, NEW f \in Flows, PutSynthResult(f)
    PROVE  FlowMoves(f)
<1> USE Speaking DEF FlowMoves, TypeOK, FlowTypeOK, Go, GoIdle, genVars, flowVars, workerVars, audioVars
<1> QED BY DEF PutSynthResult, AudioTypeOK, MaySpeak, StopSynth

LEMMA ReadSentence_Effect ==
    ASSUME TypeOK, NEW f \in Flows, ReadSentence(f)
    PROVE  FlowMoves(f)
<1> USE Speaking DEF FlowMoves, TypeOK, FlowTypeOK, Go, GoIdle, genVars, flowVars, workerVars, audioVars
<1> QED BY DEF ReadSentence, AudioTypeOK, MaySpeak, StopSynth

LEMMA FlowEffect ==
    ASSUME TypeOK, NEW f \in Flows, FlowStep(f) \/ SynthStep(f) \/ ReadSentence(f)
    PROVE  FlowMoves(f)
BY ShowThinking_Effect, Answer_Effect, QueryFails_Effect, FinishSequence_Effect, Decide_Effect, SynthesizeWhole_Effect, SendPlay_Effect, BeginReading_Effect, GetChunk_Effect, ChunkPlayed_Effect, LeaveReading_Effect,
   Synthesize_Effect, PutSynthResult_Effect, ReadSentence_Effect DEF FlowStep, SynthStep

LEMMA HandEffect ==
    ASSUME TypeOK, NEW h \in Hands, HandStep(h)
    PROVE  /\ UNCHANGED <<current, muted, pc, sent, cancelled, player, late>>
           /\ hand[h].at # "none" /\ hand[h].flow \in Flows /\ hand[h].seg \in Sentences
           /\ \A g \in Hands : g # h => hand'[g] = hand[g]
           /\ \/ hand'[h].at = "none"
              \/ /\ hand'[h].at = "put"
                 /\ hand'[h].flow = hand[h].flow /\ hand'[h].seg = hand[h].seg
           /\ \/ UNCHANGED wpc
              \/ hand[h].at = "take" /\ wpc' = [wpc EXCEPT ![<<hand[h].flow, hand[h].seg>>] = "guard"]
<1> USE DEF TypeOK, SlotTypeOK, genVars, flowVars, audioVars
<1>1. CASE TakeSlot(h)
  <2>1. hand[h].flow \in Flows /\ hand[h].seg \in Sentences
    BY <1>1 DEF TakeSlot, Empty
  <2> QED BY <1>1, <2>1 DEF TakeSlot
<1>2. CASE PutSegment(h)
  <2>1. hand[h].flow \in Flows /\ hand[h].seg \in Sentences
    BY <1>2 DEF PutSegment, Empty
  <2>2. /\ hand' = [hand EXCEPT ![h] = Empty] /\ hand[h].at = "put"
        /\ UNCHANGED <<genVars, flowVars, wpc, audioVars>>
    BY <1>2 DEF PutSegment
  <2>3. hand'[h].at = "none" /\ \A g \in Hands : g # h => hand'[g] = hand[g]
    BY <2>2 DEF Empty
  <2>4. UNCHANGED <<current, muted, pc, sent, cancelled, player, late, wpc>> /\ hand[h].at # "none"
    BY <2>2
  <2> QED BY <2>1, <2>3, <2>4
<1> QED BY <1>1, <1>2 DEF HandStep

\* The steps of a worker.
WorkerMoves(w) ==
    /\ UNCHANGED <<current, muted, pc, sent, cancelled, hand, late>>
    /\ \A u \in Workers : u # w => wpc'[u] = wpc[u]
    /\ wpc[w] # "none" /\ wpc'[w] # "none"
    /\ wpc'[w] \in {"get", "send"} => MaySpeak(w[1])
    /\ \A t \in Speakers : t # w => player'[t] = player[t]
    /\ \/ player'[w] = player[w] /\ wpc[w] # "playing"
       \/ player'[w] = "sent" /\ wpc[w] = "send" /\ wpc'[w] = "playing"
       \/ player'[w] = "none"

LEMMA WorkerGuard_Effect ==
    ASSUME TypeOK, NEW w \in Workers, WorkerGuard(w)
    PROVE  WorkerMoves(w)
<1> USE Speaking DEF WorkerMoves, TypeOK, SpeechTypeOK, genVars, flowVars, audioVars
<1> QED BY DEF WorkerGuard, AudioTypeOK, MaySpeak

LEMMA WorkerGet_Effect ==
    ASSUME TypeOK, NEW w \in Workers, WorkerGet(w)
    PROVE  WorkerMoves(w)
<1> USE Speaking DEF WorkerMoves, TypeOK, SpeechTypeOK, genVars, flowVars, audioVars
<1> QED BY DEF WorkerGet, AudioTypeOK, MaySpeak

LEMMA WorkerSynthesize_Effect ==
    ASSUME TypeOK, NEW w \in Workers, WorkerSynthesize(w)
    PROVE  WorkerMoves(w)
<1> USE Speaking DEF WorkerMoves, TypeOK, SpeechTypeOK, genVars, flowVars, audioVars
<1> QED BY DEF WorkerSynthesize, AudioTypeOK, MaySpeak

LEMMA WorkerSend_Effect ==
    ASSUME TypeOK, NEW w \in Workers, WorkerSend(w)
    PROVE  WorkerMoves(w)
<1> USE Speaking DEF WorkerMoves, TypeOK, SpeechTypeOK, genVars, flowVars, audioVars
<1> QED BY DEF WorkerSend, AudioTypeOK, MaySpeak

LEMMA WorkerPlayed_Effect ==
    ASSUME TypeOK, NEW w \in Workers, WorkerPlayed(w)
    PROVE  WorkerMoves(w)
<1> USE Speaking DEF WorkerMoves, TypeOK, SpeechTypeOK, genVars, flowVars, audioVars
<1> QED BY DEF WorkerPlayed, AudioTypeOK, MaySpeak

LEMMA WorkerLeave_Effect ==
    ASSUME TypeOK, NEW w \in Workers, WorkerLeave(w)
    PROVE  WorkerMoves(w)
<1> USE Speaking DEF WorkerMoves, TypeOK, SpeechTypeOK, genVars, flowVars, audioVars
<1> QED BY DEF WorkerLeave, AudioTypeOK, MaySpeak

LEMMA WorkerEnd_Effect ==
    ASSUME TypeOK, NEW w \in Workers, WorkerEnd(w)
    PROVE  WorkerMoves(w)
<1> USE Speaking DEF WorkerMoves, TypeOK, SpeechTypeOK, genVars, flowVars, audioVars
<1> QED BY DEF WorkerEnd, AudioTypeOK, MaySpeak

LEMMA WorkerEffect ==
    ASSUME TypeOK, NEW w \in Workers, WorkerStep(w)
    PROVE  WorkerMoves(w)
BY WorkerGuard_Effect, WorkerGet_Effect, WorkerSynthesize_Effect, WorkerSend_Effect, WorkerPlayed_Effect, WorkerLeave_Effect, WorkerEnd_Effect DEF WorkerStep

LEMMA PlayerEffect ==
    ASSUME TypeOK, NEW t \in Speakers, PlayerStep(t)
    PROVE  /\ UNCHANGED <<current, muted, pc, sent, cancelled, hand, wpc, slot, slotGen, queue>>
           /\ \A u \in Speakers : u # t => player'[u] = player[u] /\ late'[u] = late[u]
           /\ player[t] # "none"
           /\ \/ player[t] = "sent" /\ player'[t] = "cleared" /\ late'[t] = late[t]
              \/ /\ player[t] = "cleared" /\ player'[t] = "playing"
                 /\ late'[t] = late[t] \/ (late'[t] = late[t] + 1 /\ Gone(t[1]))
              \/ player'[t] \in {"reported", "none"} /\ late'[t] = late[t]
<1> USE DEF TypeOK, AudioTypeOK, genVars, flowVars, slotVars, workerVars
<1>1. CASE ClearFlag(t)
  BY <1>1 DEF ClearFlag
<1>2. CASE StartPlay(t)
  BY <1>2 DEF StartPlay, Gone
<1>3. CASE EndPlay(t)
  BY <1>3 DEF EndPlay, Waits
<1> QED BY <1>1, <1>2, <1>3 DEF PlayerStep

LEMMA OtherEffect ==
    ASSUME TypeOK, \/ CloserStep \/ UNCHANGED vars
                   \/ \E x \in Flows \cup {Closer, Picker} : ServeStop(x)
    PROVE  UNCHANGED <<current, muted, pc, sent, cancelled, hand, wpc, player, late>>
BY DEF CloserStep, CancelSequence, ResetBubble, ServeStop, vars, genVars, flowVars, slotVars,
       workerVars, audioVars

-----------------------------------------------------------------------------
(* Late speech *)

LEMMA GoneForGood ==
    ASSUME TypeOK, [Next]_vars, NEW f \in Flows, pc[f] # "new"
    PROVE  pc'[f] # "new" /\ (~MaySpeak(f) => ~MaySpeak(f)')
<1> USE DEF MaySpeak
<1>1. CASE UserStep
  BY <1>1, UserEffect
<1>2. ASSUME NEW g \in Flows, FlowStep(g) \/ SynthStep(g) \/ ReadSentence(g)
      PROVE  pc'[f] # "new" /\ UNCHANGED <<current, muted>>
  BY <1>2, FlowEffect DEF FlowMoves
<1>3. ASSUME NEW h \in Hands, HandStep(h)
      PROVE  pc'[f] # "new" /\ UNCHANGED <<current, muted>>
  BY <1>3, HandEffect
<1>4. ASSUME NEW w \in Workers, WorkerStep(w)
      PROVE  pc'[f] # "new" /\ UNCHANGED <<current, muted>>
  BY <1>4, WorkerEffect DEF WorkerMoves
<1>5. ASSUME NEW t \in Speakers, PlayerStep(t)
      PROVE  pc'[f] # "new" /\ UNCHANGED <<current, muted>>
  BY <1>5, PlayerEffect
<1>6. CASE CloserStep \/ UNCHANGED vars \/ \E x \in Flows \cup {Closer, Picker} : ServeStop(x)
  BY <1>6, OtherEffect
<1> QED BY <1>1, <1>2, <1>3, <1>4, <1>5, <1>6 DEF Next, SystemStep

\* A sentence in hand belongs to a query that is on, and its worker is still to be born.
HandOK(h) ==
    hand[h].at # "none" =>
        /\ \/ h = Reader /\ pc[hand[h].flow] \in {"called", "failed"}
           \/ h = hand[h].flow /\ pc[hand[h].flow] = "finishing"
        /\ hand[h].seg <= sent[hand[h].flow]
        /\ hand[h].at = "take" => wpc[<<hand[h].flow, hand[h].seg>>] = "none"

HandInv == \A h \in Hands : HandOK(h)

BornInv ==
    \A w \in Workers : wpc[w] # "none" => pc[w[1]] # "new" /\ w[2] <= sent[w[1]]

LEMMA HandStays ==
    ASSUME TypeOK, HandInv, UNCHANGED hand,
           \A f \in Flows : sent[f] <= sent'[f] /\ sent'[f] \in Nat,
           \A f \in Flows : pc[f] \in {"called", "failed"} => pc'[f] \in {"called", "failed"},
           \A f \in Flows : pc[f] = "finishing" => pc'[f] = "finishing",
           \A w \in Workers : wpc[w] = "none" => wpc'[w] = "none"
    PROVE  HandInv'
<1> SUFFICES ASSUME NEW h \in Hands, hand[h].at # "none"
             PROVE  HandOK(h)'
  BY DEF HandInv, HandOK
<1>1. hand[h].flow \in Flows /\ hand[h].seg \in Sentences
  BY DEF TypeOK, SlotTypeOK, Empty
<1>2. <<hand[h].flow, hand[h].seg>> \in Workers
  BY <1>1, Speaking
<1>3. /\ \/ h = Reader /\ pc[hand[h].flow] \in {"called", "failed"}
         \/ h = hand[h].flow /\ pc[hand[h].flow] = "finishing"
      /\ hand[h].seg <= sent[hand[h].flow]
      /\ hand[h].at = "take" => wpc[<<hand[h].flow, hand[h].seg>>] = "none"
  BY DEF HandInv, HandOK
<1>4. hand[h].seg <= sent'[hand[h].flow]
  <2>1. /\ sent[hand[h].flow] \in Nat /\ sent'[hand[h].flow] \in Nat /\ hand[h].seg \in Nat
        /\ sent[hand[h].flow] <= sent'[hand[h].flow]
    <3>1. \A f \in Flows : sent[f] \in Nat
      BY DEF TypeOK, FlowTypeOK
    <3> QED BY <1>1, <3>1 DEF Sentences
  <2> QED BY <1>3, <2>1
<1> QED BY <1>1, <1>2, <1>3, <1>4 DEF HandOK

LEMMA HandRests ==
    ASSUME TypeOK, HandInv, UNCHANGED <<sent, hand, wpc>>, NEW f \in Flows,
           \A g \in Flows : g # f => pc'[g] = pc[g],
           \A k \in Hands : hand[k].at = "none" \/ hand[k].flow # f
    PROVE  HandInv'
<1> SUFFICES ASSUME NEW k \in Hands, hand[k].at # "none"
             PROVE  HandOK(k)'
  BY DEF HandInv, HandOK
<1>1. hand[k].flow \in Flows /\ hand[k].flow # f
  BY DEF TypeOK, SlotTypeOK, Empty
<1>2. pc'[hand[k].flow] = pc[hand[k].flow]
  BY <1>1
<1> QED BY <1>2 DEF HandInv, HandOK

LEMMA BornStays ==
    ASSUME TypeOK, BornInv,
           \A f \in Flows : sent[f] <= sent'[f] /\ sent'[f] \in Nat,
           \A f \in Flows : pc'[f] = "new" => pc[f] = "new",
           \A w \in Workers : wpc'[w] # "none" => wpc[w] # "none"
    PROVE  BornInv'
<1> SUFFICES ASSUME NEW w \in Workers, wpc'[w] # "none"
             PROVE  pc'[w[1]] # "new" /\ w[2] <= sent'[w[1]]
  BY DEF BornInv
<1>1. w[1] \in Flows /\ w[2] \in Nat
  BY Speaking, Names DEF Sentences
<1>2. pc[w[1]] # "new" /\ w[2] <= sent[w[1]]
  BY DEF BornInv
<1>3. \A f \in Flows : sent[f] \in Nat
  BY DEF TypeOK, FlowTypeOK
<1>4. pc'[w[1]] # "new" /\ sent[w[1]] <= sent'[w[1]] /\ sent[w[1]] \in Nat /\ sent'[w[1]] \in Nat
  BY <1>1, <1>2, <1>3
<1> QED BY <1>1, <1>2, <1>4

\* What a thread takes in hand.
Taken(f, s) == [at |-> "take", flow |-> f, seg |-> s, into |-> NoWorker]

\* Thread h may have taken the next sentence of its own query f, while no other thread has one.
Takes(h, f, s) ==
    /\ s = sent[f] + 1 /\ sent'[f] = s
    /\ \A g \in Flows : g # f => sent'[g] = sent[g] /\ pc'[g] = pc[g]
    /\ wpc' = wpc
    /\ hand'[h] = Empty \/ hand'[h] = Taken(f, s)
    /\ \A k \in Hands : k # h => hand'[k] = hand[k] /\ (hand[k].at = "none" \/ hand[k].flow # f)
    /\ (h = Reader /\ pc'[f] = "called") \/ (h = f /\ pc'[f] = "finishing")

LEMMA NewSegment ==
    ASSUME TypeOK, HandInv, BornInv, NEW h \in Hands, NEW f \in Flows, NEW s \in Sentences,
           Takes(h, f, s)
    PROVE  HandInv'
<1> USE DEF Takes
<1>1. sent[f] \in Nat /\ sent'[f] = s
  BY Names DEF TypeOK, FlowTypeOK
<1>2. wpc[<<f, s>>] = "none"
  <2>1. <<f, s>> \in Workers
    BY Speaking
  <2>2. ~(s <= sent[f])
    BY <1>1
  <2> QED BY <2>1, <2>2 DEF BornInv
<1>3. ASSUME NEW k \in Hands, k # h
      PROVE  HandOK(k)'
  <2>1. hand'[k] = hand[k]
    BY <1>3
  <2>2. CASE hand[k].at = "none"
    BY <2>1, <2>2 DEF HandOK
  <2>3. CASE hand[k].at # "none"
    <3>1. hand[k].flow \in Flows /\ hand[k].flow # f /\ hand[k].seg \in Sentences
      BY <1>3, <2>3 DEF TypeOK, SlotTypeOK, Empty
    <3>2. pc'[hand[k].flow] = pc[hand[k].flow] /\ sent'[hand[k].flow] = sent[hand[k].flow]
      BY <3>1 DEF TypeOK, FlowTypeOK
    <3> QED BY <2>1, <3>1, <3>2 DEF HandInv, HandOK
  <2> QED BY <2>2, <2>3
<1>4. HandOK(h)'
  <2>2. s <= sent'[f]
    BY <1>1, Names
  <2>3. CASE hand'[h] = Empty
    BY <2>3 DEF HandOK, Empty
  <2>4. CASE hand'[h] = Taken(f, s)
    <3>1. hand'[h].flow = f /\ hand'[h].seg = s
      BY <2>4 DEF Taken
    <3> QED BY <1>2, <2>2, <3>1 DEF HandOK
  <2> QED BY <2>3, <2>4
<1> QED BY <1>3, <1>4 DEF HandInv

\* The other steps of a flow take nothing in hand, and its query stays where sentences are taken.
KeepsHand(f) ==
    /\ UNCHANGED hand
    /\ pc[f] \in {"called", "failed"} => pc'[f] \in {"called", "failed"}
    /\ pc[f] = "finishing" => pc'[f] = "finishing"

LEMMA KeepsHandEffect ==
    ASSUME TypeOK, NEW f \in Flows, FlowStep(f) \/ SynthStep(f),
           ~Answer(f), ~FinishSequence(f)
    PROVE  KeepsHand(f)
<1> USE DEF KeepsHand, TypeOK, FlowTypeOK, Go, GoIdle
<1>1. CASE ShowThinking(f)
  BY <1>1 DEF ShowThinking
<1>2. CASE QueryFails(f)
  BY <1>2 DEF QueryFails
<1>3. CASE Decide(f)
  BY <1>3 DEF Decide
<1>4. CASE SynthesizeWhole(f)
  BY <1>4 DEF SynthesizeWhole
<1>5. CASE SendPlay(f)
  BY <1>5 DEF SendPlay
<1>6. CASE BeginReading(f)
  BY <1>6 DEF BeginReading
<1>7. CASE GetChunk(f)
  BY <1>7 DEF GetChunk
<1>8. CASE ChunkPlayed(f)
  BY <1>8 DEF ChunkPlayed
<1>9. CASE LeaveReading(f)
  BY <1>9 DEF LeaveReading
<1>10. CASE Synthesize(f)
  BY <1>10 DEF Synthesize
<1>11. CASE PutSynthResult(f)
  BY <1>11 DEF PutSynthResult, flowVars
<1> QED BY <1>1, <1>2, <1>3, <1>4, <1>5, <1>6, <1>7, <1>8, <1>9, <1>10, <1>11 DEF FlowStep, SynthStep

LEMMA NextHand ==
    ASSUME TypeOK, HandInv, BornInv, [Next]_vars
    PROVE  HandInv' /\ BornInv'
<1>0. TypeOK' /\ (\A f \in Flows : sent'[f] \in Nat) /\ \A f \in Flows : sent[f] \in Nat
  <2>1. TypeOK'
    BY NextType
  <2> QED BY <2>1 DEF TypeOK, FlowTypeOK
<1>1. CASE UserStep
  <2>1. \A f \in Flows : sent[f] <= sent'[f]
    BY <1>0, <1>1, UserEffect
  <2>2. HandInv'
    BY <1>0, <1>1, <2>1, UserEffect, HandStays
  <2>3. BornInv'
    BY <1>0, <1>1, <2>1, UserEffect, BornStays
  <2> QED BY <2>2, <2>3
<1>2. ASSUME NEW f \in Flows, FlowStep(f) \/ SynthStep(f) \/ ReadSentence(f)
      PROVE  HandInv' /\ BornInv'
  <2>0. FlowMoves(f)
    BY <1>2, FlowEffect
  <2>1. /\ \A g \in Flows : sent[g] <= sent'[g]
        /\ \A g \in Flows : pc'[g] = "new" => pc[g] = "new"
        /\ \A g \in Flows : g # f => pc'[g] = pc[g]
        /\ UNCHANGED wpc
    BY <1>0, <2>0 DEF FlowMoves
  <2>2. BornInv'
    BY <1>0, <2>1, BornStays
  <2>3. CASE ReadSentence(f)
    <3> DEFINE s == sent[f] + 1
    <3>1. s \in Sentences /\ Reader \in Hands
      BY <2>3, Names DEF ReadSentence, TypeOK, FlowTypeOK
    <3>2. \A k \in Hands : k # Reader => hand[k].at = "none" \/ hand[k].flow # f
      BY <2>3 DEF ReadSentence, HandInv, HandOK
    <3>3. pc'[f] = "called" /\ sent'[f] = s
      BY <2>3 DEF ReadSentence, TypeOK, FlowTypeOK
    <3>4. /\ hand'[Reader] = Empty \/ hand'[Reader] = Taken(f, s)
          /\ \A k \in Hands : k # Reader => hand'[k] = hand[k]
      BY <2>3, <3>1 DEF ReadSentence, BeginSegment, Taken, TypeOK, SlotTypeOK
    <3>5. \A g \in Flows : g # f => sent'[g] = sent[g]
      BY <2>0 DEF FlowMoves
    <3>6. Takes(Reader, f, s)
      BY <2>1, <3>2, <3>3, <3>4, <3>5 DEF Takes
    <3> HIDE DEF s
    <3> QED BY <2>2, <3>1, <3>6, NewSegment
  <2>4. CASE Answer(f)
    <3>1. \A k \in Hands : k # f => hand[k].at = "none" \/ hand[k].flow # f
      BY <2>4 DEF Answer, HandInv, HandOK
    <3>2. pc'[f] = "finishing" /\ pc[f] = "called" /\ f \in Hands /\ f # Reader
      BY <2>4, Names DEF Answer, Go, TypeOK, FlowTypeOK, Reader, Flows
    <3>3. CASE UNCHANGED <<sent, hand>>
      <4>1. hand[f].at # "none" => hand[f].flow # f
        BY <3>2 DEF HandInv, HandOK
      <4>2. \A k \in Hands : hand[k].at = "none" \/ hand[k].flow # f
        BY <3>1, <4>1
      <4> QED BY <2>1, <2>2, <3>3, <4>2, HandRests
    <3>4. CASE /\ sent[f] < Length[f] /\ sent' = [sent EXCEPT ![f] = @ + 1]
               /\ BeginSegment(f, f, sent[f] + 1)
      <4> DEFINE s == sent[f] + 1
      <4>1. s \in Sentences /\ sent'[f] = s
        BY <3>4, Names DEF TypeOK, FlowTypeOK
      <4>2. /\ hand'[f] = Empty \/ hand'[f] = Taken(f, s)
            /\ \A k \in Hands : k # f => hand'[k] = hand[k]
        BY <3>4, <3>2 DEF BeginSegment, Taken, TypeOK, SlotTypeOK
      <4>3. \A g \in Flows : g # f => sent'[g] = sent[g]
        BY <2>0 DEF FlowMoves
      <4>4. Takes(f, f, s)
        BY <2>1, <3>1, <3>2, <4>1, <4>2, <4>3 DEF Takes
      <4> HIDE DEF s
      <4> QED BY <2>2, <3>2, <4>1, <4>4, NewSegment
    <3> QED BY <2>4, <3>3, <3>4 DEF Answer
  <2>5. CASE FinishSequence(f)
    <3>1. hand[f].at = "none" /\ pc[f] = "finishing" /\ UNCHANGED <<sent, hand>>
      BY <2>5 DEF FinishSequence
    <3>2. \A k \in Hands : hand[k].at = "none" \/ hand[k].flow # f
      BY <3>1 DEF HandInv, HandOK
    <3> QED BY <2>1, <2>2, <3>1, <3>2, HandRests
  <2>6. CASE ~ReadSentence(f) /\ ~Answer(f) /\ ~FinishSequence(f)
    <3>1. KeepsHand(f)
      BY <1>2, <2>6, KeepsHandEffect
    <3>2. /\ UNCHANGED hand
          /\ \A g \in Flows : pc[g] \in {"called", "failed"} => pc'[g] \in {"called", "failed"}
          /\ \A g \in Flows : pc[g] = "finishing" => pc'[g] = "finishing"
      BY <2>1, <3>1 DEF KeepsHand
    <3> QED BY <1>0, <2>1, <2>2, <3>2, HandStays
  <2> QED BY <2>2, <2>3, <2>4, <2>5, <2>6
<1>3. ASSUME NEW h \in Hands, HandStep(h)
      PROVE  HandInv' /\ BornInv'
  <2> DEFINE f == hand[h].flow
             s == hand[h].seg
  <2>1. /\ UNCHANGED <<pc, sent>>
        /\ f \in Flows /\ s \in Sentences /\ <<f, s>> \in Workers /\ hand[h].at # "none"
        /\ \A g \in Hands : g # h => hand'[g] = hand[g]
        /\ \/ hand'[h].at = "none"
           \/ hand'[h].at = "put" /\ hand'[h].flow = f /\ hand'[h].seg = s
    BY <1>3, HandEffect, Speaking
  <2>2. HandOK(h)
    BY DEF HandInv
  <2>3. \A w \in Workers : w # <<f, s>> => wpc'[w] = wpc[w]
    BY <1>3, <2>1, HandEffect DEF TypeOK, SpeechTypeOK
  <2>4. HandOK(h)'
    BY <2>1, <2>2 DEF HandOK
  <2>5. ASSUME NEW k \in Hands, k # h
        PROVE  HandOK(k)'
    <3>1. hand'[k] = hand[k] /\ HandOK(k)
      BY <2>1, <2>5 DEF HandInv
    <3>2. CASE hand[k].at = "none"
      BY <3>1, <3>2 DEF HandOK
    <3>3. CASE hand[k].at # "none"
      <4>1. hand[k].flow # f
        BY <2>1, <2>2, <2>5, <3>1, <3>3, Names DEF HandOK, Reader, Flows
      <4>2. hand[k].flow \in Flows /\ hand[k].seg \in Sentences
        BY <3>3, <2>5 DEF TypeOK, SlotTypeOK, Empty
      <4>3. /\ <<hand[k].flow, hand[k].seg>> \in Workers
            /\ <<hand[k].flow, hand[k].seg>> # <<f, s>>
        BY <4>1, <4>2, Speaking
      <4>4. wpc'[<<hand[k].flow, hand[k].seg>>] = wpc[<<hand[k].flow, hand[k].seg>>]
        BY <2>3, <4>3
      <4> QED BY <2>1, <3>1, <3>3, <4>4 DEF HandOK
    <3> QED BY <3>2, <3>3
  <2>6. BornInv'
    <3> SUFFICES ASSUME NEW w \in Workers, wpc'[w] # "none"
                 PROVE  pc[w[1]] # "new" /\ w[2] <= sent[w[1]]
      BY <2>1 DEF BornInv
    <3>1. CASE w # <<f, s>>
      BY <2>3, <3>1 DEF BornInv
    <3>2. CASE w = <<f, s>>
      <4>1. w[1] = f /\ w[2] = s
        BY <3>2
      <4>2. pc[f] # "new" /\ s <= sent[f]
        BY <2>1, <2>2 DEF HandOK
      <4> QED BY <4>1, <4>2
    <3> QED BY <3>1, <3>2
  <2> QED BY <2>4, <2>5, <2>6 DEF HandInv
<1>4. ASSUME NEW w \in Workers, WorkerStep(w)
      PROVE  HandInv' /\ BornInv'
  <2>1. /\ UNCHANGED <<pc, sent, hand>>
        /\ \A u \in Workers : (wpc'[u] = "none") <=> (wpc[u] = "none")
    BY <1>4, WorkerEffect DEF WorkerMoves
  <2>2. \A f \in Flows : sent[f] <= sent'[f]
    BY <1>0, <2>1
  <2> QED BY <1>0, <2>1, <2>2, HandStays, BornStays
<1>5. CASE \/ \E t \in Speakers : PlayerStep(t)
           \/ CloserStep \/ UNCHANGED vars \/ \E x \in Flows \cup {Closer, Picker} : ServeStop(x)
  <2>1. UNCHANGED <<pc, sent, hand, wpc>>
    BY <1>5, PlayerEffect, OtherEffect
  <2> QED BY <2>1 DEF HandInv, HandOK, BornInv
<1> QED BY <1>1, <1>2, <1>3, <1>4, <1>5 DEF Next, SystemStep

\* A playback belongs to the thread that waits for it, or to a question that is over.
PlayInv ==
    /\ \A w \in Workers : player[w] # "none" => wpc[w] = "playing"
    /\ \A f \in Flows : player[<<f, 0>>] # "none" => pc[f] \in {"playing", "over"}

\* After a late playback the speaker has nothing on its way.
LateInv ==
    /\ \A t \in Speakers :
         /\ late[t] \in {0, 1}
         /\ late[t] = 1 => /\ ~MaySpeak(t[1]) /\ pc[t[1]] # "new"
                           /\ player[t] \notin {"sent", "cleared"}
    /\ \A w \in Workers : late[w] = 1 => wpc[w] # "send"
    /\ \A f \in Flows : late[<<f, 0>>] = 1 => pc[f] # "send"

LEMMA NextPlay ==
    ASSUME TypeOK, HandInv, PlayInv, [Next]_vars
    PROVE  PlayInv'
<1> USE DEF PlayInv
<1>1. CASE UserStep
  BY <1>1, UserEffect
<1>2. ASSUME NEW f \in Flows, FlowStep(f) \/ SynthStep(f) \/ ReadSentence(f)
      PROVE  PlayInv'
  <2>1. FlowMoves(f)
    BY <1>2, FlowEffect
  <2>2. \A w \in Workers : player'[w] = player[w] /\ wpc'[w] = wpc[w]
    BY <2>1, Speaking DEF FlowMoves
  <2>3. \A g \in Flows : g # f => player'[<<g, 0>>] = player[<<g, 0>>] /\ pc'[g] = pc[g]
    BY <2>1, Speaking DEF FlowMoves
  <2>4. player'[<<f, 0>>] # "none" => pc'[f] \in {"playing", "over"}
    BY <2>1 DEF FlowMoves
  <2> QED BY <2>2, <2>3, <2>4
<1>3. ASSUME NEW h \in Hands, HandStep(h)
      PROVE  PlayInv'
  <2>1. <<hand[h].flow, hand[h].seg>> \in Workers /\ hand[h].at # "none"
    BY <1>3, HandEffect, Speaking
  <2>2. hand[h].at = "take" => wpc[<<hand[h].flow, hand[h].seg>>] = "none"
    BY <2>1 DEF HandInv, HandOK
  <2>3. UNCHANGED <<player, pc>>
    BY <1>3, HandEffect
  <2>4. ASSUME NEW w \in Workers, wpc[w] = "playing"
        PROVE  wpc'[w] = "playing"
    BY <1>3, <2>1, <2>2, <2>4, HandEffect DEF TypeOK, SpeechTypeOK
  <2> QED BY <2>3, <2>4
<1>4. ASSUME NEW w \in Workers, WorkerStep(w)
      PROVE  PlayInv'
  BY <1>4, WorkerEffect, Speaking DEF WorkerMoves
<1>5. ASSUME NEW t \in Speakers, PlayerStep(t)
      PROVE  PlayInv'
  BY <1>5, PlayerEffect, Speaking
<1>6. CASE CloserStep \/ UNCHANGED vars \/ \E x \in Flows \cup {Closer, Picker} : ServeStop(x)
  BY <1>6, OtherEffect
<1> QED BY <1>1, <1>2, <1>3, <1>4, <1>5, <1>6 DEF Next, SystemStep

LEMMA NextLate ==
    ASSUME TypeOK, BornInv, PlayInv, LateInv, [Next]_vars
    PROVE  LateInv'
<1>0. \A t \in Speakers : late[t] = 1 => ~MaySpeak(t[1])' /\ pc'[t[1]] # "new"
  BY GoneForGood, Speaking DEF LateInv
<1>1. CASE UserStep
  BY <1>0, <1>1, UserEffect, Speaking DEF LateInv
<1>2. ASSUME NEW f \in Flows, FlowStep(f) \/ SynthStep(f) \/ ReadSentence(f)
      PROVE  LateInv'
  <2>1. FlowMoves(f)
    BY <1>2, FlowEffect
  <2>2. \A w \in Workers : player'[w] = player[w] /\ wpc'[w] = wpc[w]
    BY <2>1, Speaking DEF FlowMoves
  <2>3. \A g \in Flows : g # f => player'[<<g, 0>>] = player[<<g, 0>>] /\ pc'[g] = pc[g]
    BY <2>1, Speaking DEF FlowMoves
  <2>4. late' = late
    BY <2>1 DEF FlowMoves
  <2>5. late[<<f, 0>>] = 1 => pc'[f] # "send" /\ player'[<<f, 0>>] \notin {"sent", "cleared"}
    BY <2>1, Speaking DEF FlowMoves, LateInv
  <2>6. \A t \in Speakers : late'[t] = 1 => player'[t] \notin {"sent", "cleared"}
    BY <2>1, <2>4, <2>5 DEF FlowMoves, LateInv
  <2> QED BY <1>0, <2>2, <2>3, <2>4, <2>5, <2>6 DEF LateInv
<1>3. ASSUME NEW h \in Hands, HandStep(h)
      PROVE  LateInv'
  <2>1. UNCHANGED <<player, pc, late>>
    BY <1>3, HandEffect
  <2>2. ASSUME NEW w \in Workers, wpc'[w] = "send"
        PROVE  wpc[w] = "send"
    <3>1. <<hand[h].flow, hand[h].seg>> \in Workers
      BY <1>3, HandEffect, Speaking
    <3> QED BY <1>3, <2>2, <3>1, HandEffect DEF TypeOK, SpeechTypeOK
  <2> QED BY <1>0, <2>1, <2>2 DEF LateInv
<1>4. ASSUME NEW w \in Workers, WorkerStep(w)
      PROVE  LateInv'
  BY <1>0, <1>4, WorkerEffect, Speaking DEF LateInv, WorkerMoves
<1>5. ASSUME NEW t \in Speakers, PlayerStep(t)
      PROVE  LateInv'
  BY <1>0, <1>5, PlayerEffect, Speaking DEF LateInv, PlayInv, BornInv, Gone, MaySpeak
<1>6. CASE CloserStep \/ UNCHANGED vars \/ \E x \in Flows \cup {Closer, Picker} : ServeStop(x)
  BY <1>0, <1>6, OtherEffect DEF LateInv
<1> QED BY <1>1, <1>2, <1>3, <1>4, <1>5, <1>6 DEF Next, SystemStep

LEMMA InitLate == Init => HandInv /\ BornInv /\ PlayInv /\ LateInv
<1> SUFFICES ASSUME Init PROVE HandInv /\ BornInv /\ PlayInv /\ LateInv
  OBVIOUS
<1>1. HandInv
  BY DEF Init, HandInv, HandOK, Empty
<1>2. BornInv /\ PlayInv
  BY Speaking DEF Init, BornInv, PlayInv
<1>3. LateInv
  BY Speaking DEF Init, LateInv
<1> QED BY <1>1, <1>2, <1>3

(* No thread starts two playbacks for a reply that is gone: what was sent before the check *)
(* turned out false is the only playback it may still begin.                               *)
THEOREM LateSpeech == Spec => []LateSpeechBounded
<1> DEFINE IInv == TypeOK /\ HandInv /\ BornInv /\ PlayInv /\ LateInv
<1>1. Init => IInv
  BY InitType, InitLate
<1>2. IInv /\ [Next]_vars => IInv'
  BY NextType, NextHand, NextPlay, NextLate
<1>3. IInv => LateSpeechBounded
  BY DEF LateInv, LateSpeechBounded
<1> QED BY <1>1, <1>2, <1>3, PTL DEF Spec

-----------------------------------------------------------------------------
(* Who closes the queue *)

HasEnd(w) == \E i \in DOMAIN queue[w] : queue[w][i] = End

\* Where the thread of a question is once it dealt with its queue.
Dealt == {"deciding", "synth", "send", "over"}

KindOK(f) ==
    /\ pc[f] \in {"called", "failed", "finishing", "deciding", "synth"} => kind[f] = "query"
    /\ pc[f] = "asked" => kind[f] # "none"
    /\ pc[f] \in {"begin", "get", "playing", "leave", "left"} => kind[f] = "read"

KindInv == \A f \in Flows : KindOK(f)

\* The slot belongs to a worker of a question, and that worker has not given it up.
SlotInv ==
    slot # NoWorker =>
        /\ slotGen = slot[1] /\ wpc[slot] \notin {"none", "left", "over"}
        /\ kind[slot[1]] = "query" /\ pc[slot[1]] # "new"

CloserInv == closer = "cancel" => muted = closeGen

CancelInv == \A f \in Flows : cancelled[f] => ~MaySpeak(f) /\ pc[f] # "new"

\* A closed bubble: its queue is about to be cancelled, or its worker will not wait on it.
ClosedInv ==
    \A f \in Flows : cancelled[f] \/ muted = f =>
        \/ closer = "cancel" /\ closeGen = f
        \/ slot # NoWorker /\ slot[1] = f => wpc[slot] # "get"

EndInv ==
    slot # NoWorker /\ Waiting(slot) /\ pc[slot[1]] \in Dealt =>
        \/ HasEnd(slot)
        \/ closer = "cancel" /\ closeGen = slot[1]
        \/ wpc[slot] # "get" /\ ~MaySpeak(slot[1])

SlotOK == KindInv /\ SlotInv /\ CloserInv /\ CancelInv /\ ClosedInv /\ EndInv

\* The steps of the thread of a flow.
FlowOwns(f) ==
    /\ UNCHANGED <<current, muted, kind, closer, closeGen, wpc>>
    /\ \A g \in Flows : g # f => pc'[g] = pc[g] /\ cancelled'[g] = cancelled[g]
    /\ cancelled'[f] => (cancelled[f] \/ muted = f) /\ (pc[f] # "new" \/ cancelled[f])
    /\ pc'[f] = "new" => pc[f] = "new"
    /\ UNCHANGED <<slot, slotGen>> \/ slot' = NoWorker
    /\ KindOK(f) => KindOK(f)'
    /\ FinishSequence(f) \/ (UNCHANGED queue /\ (pc'[f] \in Dealt /\ kind[f] = "query" /\ KindOK(f) => pc[f] \in Dealt))

LEMMA ShowThinking_Owns ==
    ASSUME TypeOK, NEW f \in Flows, ShowThinking(f)
    PROVE  FlowOwns(f)
BY DEF FlowOwns, KindOK, Dealt, TypeOK, FlowTypeOK, Go, GoIdle, genVars, flowVars, slotVars, workerVars,
       closeVars, ShowThinking

LEMMA Answer_Owns ==
    ASSUME TypeOK, NEW f \in Flows, Answer(f)
    PROVE  FlowOwns(f)
BY DEF FlowOwns, KindOK, Dealt, TypeOK, FlowTypeOK, Go, GoIdle, genVars, flowVars, slotVars, workerVars,
       closeVars, Answer

LEMMA QueryFails_Owns ==
    ASSUME TypeOK, NEW f \in Flows, QueryFails(f)
    PROVE  FlowOwns(f)
BY DEF FlowOwns, KindOK, Dealt, TypeOK, FlowTypeOK, Go, GoIdle, genVars, flowVars, slotVars, workerVars,
       closeVars, QueryFails

LEMMA FinishSequence_Owns ==
    ASSUME TypeOK, NEW f \in Flows, FinishSequence(f)
    PROVE  FlowOwns(f)
BY DEF FlowOwns, KindOK, Dealt, TypeOK, FlowTypeOK, Go, GoIdle, genVars, flowVars, slotVars, workerVars,
       closeVars, FinishSequence

LEMMA Decide_Owns ==
    ASSUME TypeOK, NEW f \in Flows, Decide(f)
    PROVE  FlowOwns(f)
BY DEF FlowOwns, KindOK, Dealt, TypeOK, FlowTypeOK, Go, GoIdle, genVars, flowVars, slotVars, workerVars,
       closeVars, Decide

LEMMA SynthesizeWhole_Owns ==
    ASSUME TypeOK, NEW f \in Flows, SynthesizeWhole(f)
    PROVE  FlowOwns(f)
BY DEF FlowOwns, KindOK, Dealt, TypeOK, FlowTypeOK, Go, GoIdle, genVars, flowVars, slotVars, workerVars,
       closeVars, SynthesizeWhole

LEMMA SendPlay_Owns ==
    ASSUME TypeOK, NEW f \in Flows, SendPlay(f)
    PROVE  FlowOwns(f)
BY DEF FlowOwns, KindOK, Dealt, TypeOK, FlowTypeOK, Go, GoIdle, genVars, flowVars, slotVars, workerVars,
       closeVars, SendPlay

LEMMA BeginReading_Owns ==
    ASSUME TypeOK, NEW f \in Flows, BeginReading(f)
    PROVE  FlowOwns(f)
BY DEF FlowOwns, KindOK, Dealt, TypeOK, FlowTypeOK, Go, GoIdle, genVars, flowVars, slotVars, workerVars,
       closeVars, BeginReading

LEMMA GetChunk_Owns ==
    ASSUME TypeOK, NEW f \in Flows, GetChunk(f)
    PROVE  FlowOwns(f)
BY DEF FlowOwns, KindOK, Dealt, TypeOK, FlowTypeOK, Go, GoIdle, genVars, flowVars, slotVars, workerVars,
       closeVars, GetChunk

LEMMA ChunkPlayed_Owns ==
    ASSUME TypeOK, NEW f \in Flows, ChunkPlayed(f)
    PROVE  FlowOwns(f)
BY DEF FlowOwns, KindOK, Dealt, TypeOK, FlowTypeOK, Go, GoIdle, genVars, flowVars, slotVars, workerVars,
       closeVars, ChunkPlayed

LEMMA LeaveReading_Owns ==
    ASSUME TypeOK, NEW f \in Flows, LeaveReading(f)
    PROVE  FlowOwns(f)
BY DEF FlowOwns, KindOK, Dealt, TypeOK, FlowTypeOK, Go, GoIdle, genVars, flowVars, slotVars, workerVars,
       closeVars, LeaveReading

LEMMA Synthesize_Owns ==
    ASSUME TypeOK, NEW f \in Flows, Synthesize(f)
    PROVE  FlowOwns(f)
BY DEF FlowOwns, KindOK, Dealt, TypeOK, FlowTypeOK, Go, GoIdle, genVars, flowVars, slotVars, workerVars,
       closeVars, Synthesize

LEMMA PutSynthResult_Owns ==
    ASSUME TypeOK, NEW f \in Flows, PutSynthResult(f)
    PROVE  FlowOwns(f)
BY DEF FlowOwns, KindOK, Dealt, TypeOK, FlowTypeOK, Go, GoIdle, genVars, flowVars, slotVars, workerVars,
       closeVars, PutSynthResult

LEMMA ReadSentence_Owns ==
    ASSUME TypeOK, NEW f \in Flows, ReadSentence(f)
    PROVE  FlowOwns(f)
BY DEF FlowOwns, KindOK, Dealt, TypeOK, FlowTypeOK, Go, GoIdle, genVars, flowVars, slotVars, workerVars,
       closeVars, ReadSentence

LEMMA FlowOwnsEffect ==
    ASSUME TypeOK, NEW f \in Flows, FlowStep(f) \/ SynthStep(f) \/ ReadSentence(f)
    PROVE  FlowOwns(f)
BY ShowThinking_Owns, Answer_Owns, QueryFails_Owns, FinishSequence_Owns, Decide_Owns, SynthesizeWhole_Owns, SendPlay_Owns, BeginReading_Owns, GetChunk_Owns, ChunkPlayed_Owns, LeaveReading_Owns, Synthesize_Owns, PutSynthResult_Owns, ReadSentence_Owns DEF FlowStep, SynthStep

LEMMA UserOwnsEffect ==
    ASSUME TypeOK, UserStep
    PROVE  /\ UNCHANGED <<slot, slotGen, queue, cancelled, wpc>>
           /\ \A f \in Flows : (pc'[f] = pc[f] /\ kind'[f] = kind[f])
                \/ (pc[f] = "new" /\ pc'[f] = "asked" /\ kind'[f] # "none")
           /\ \/ UNCHANGED <<muted, closer, closeGen>>
              \/ closer = "no" /\ closer' = "cancel" /\ closeGen' = muted'
<1> USE DEF TypeOK, FlowTypeOK, Go, flowVars, slotVars, workerVars, closeVars
<1>1. ASSUME NEW f \in Flows, NEW k \in Kinds, Ask(f, k)
      PROVE  /\ UNCHANGED <<slot, slotGen, queue, cancelled, wpc, muted, closer, closeGen>>
             /\ \A g \in Flows : (pc'[g] = pc[g] /\ kind'[g] = kind[g])
                  \/ (pc[g] = "new" /\ pc'[g] = "asked" /\ kind'[g] # "none")
  BY <1>1, ReplyFlowsAssumption DEF Ask
<1>2. CASE BeginCaller
  BY <1>2 DEF BeginCaller
<1>3. CASE IntentCancelled
  BY <1>3 DEF IntentCancelled
<1>4. CASE MuteMark
  BY <1>4 DEF MuteMark
<1> QED BY <1>1, <1>2, <1>3, <1>4 DEF UserStep

LEMMA HandOwnsEffect ==
    ASSUME TypeOK, NEW h \in Hands, HandStep(h)
    PROVE  /\ UNCHANGED <<current, muted, kind, pc, cancelled, closer, closeGen>>
           /\ \A w \in Workers : HasEnd(w) => HasEnd(w)'
           /\ \/ UNCHANGED <<slot, slotGen, wpc>>
              \/ /\ hand[h].at = "take"
                 /\ slot' = <<hand[h].flow, hand[h].seg>> /\ slotGen' = hand[h].flow
                 /\ wpc'[slot'] = "guard"
<1>1. CASE TakeSlot(h)
  <2>1. hand[h].flow \in Flows /\ hand[h].seg \in Sentences
    BY <1>1 DEF TakeSlot, Empty, TypeOK, SlotTypeOK
  <2>2. <<hand[h].flow, hand[h].seg>> \in Workers
    BY <2>1, Speaking
  <2>3. UNCHANGED <<current, muted, kind, pc, cancelled, closer, closeGen, queue>>
    BY <1>1 DEF TakeSlot, genVars, flowVars, closeVars
  <2>4. \A w \in Workers : HasEnd(w) => HasEnd(w)'
    BY <2>3 DEF HasEnd
  <2>5. \/ UNCHANGED <<slot, slotGen, wpc>>
        \/ /\ hand[h].at = "take"
           /\ slot' = <<hand[h].flow, hand[h].seg>> /\ slotGen' = hand[h].flow
           /\ wpc' = [wpc EXCEPT ![<<hand[h].flow, hand[h].seg>>] = "guard"]
    BY <1>1 DEF TakeSlot, slotVars
  <2> QED BY <2>2, <2>3, <2>4, <2>5 DEF TypeOK, SpeechTypeOK
<1>2. CASE PutSegment(h)
  <2>1. hand[h].into \in Workers
    BY <1>2 DEF PutSegment, Empty, TypeOK, SlotTypeOK
  <2>2. UNCHANGED <<current, muted, kind, pc, cancelled, closer, closeGen, slot, slotGen, wpc>>
    BY <1>2 DEF PutSegment, genVars, flowVars, closeVars, slotVars
  <2>3. ASSUME NEW w \in Workers, HasEnd(w)
        PROVE  HasEnd(w)'
    <3>1. queue \in [Workers -> Seq(1 .. End)] /\ queue[w] \in Seq(1 .. End)
      BY DEF TypeOK, SpeechTypeOK
    <3>2. queue'[w] = queue[w] \/ queue'[w] = Append(queue[w], hand[h].seg)
      BY <1>2, <3>1 DEF PutSegment
    <3>3. PICK i \in DOMAIN queue[w] : queue[w][i] = End
      BY <2>3 DEF HasEnd
    <3>4. i \in DOMAIN queue'[w] /\ queue'[w][i] = End
      BY <3>1, <3>2, <3>3
    <3> QED BY <3>4 DEF HasEnd
  <2> QED BY <2>2, <2>3
<1> QED BY <1>1, <1>2 DEF HandStep

\* The steps of a worker.
WorkerOwns(w) ==
    /\ UNCHANGED <<current, muted, kind, pc, cancelled, closer, closeGen, slotGen>>
    /\ slot' = slot \/ slot' = NoWorker
    /\ \A u \in Workers : u # w => wpc'[u] = wpc[u] /\ queue'[u] = queue[u]
    /\ wpc'[w] # "none"
    /\ wpc'[w] \in {"left", "over"} => slot' # w \/ wpc[w] \in {"left", "over"}
    /\ wpc'[w] = "get" => MaySpeak(w[1])
    /\ Waiting(w)' => Waiting(w)
    /\ UNCHANGED queue \/ wpc[w] = "get"
    /\ HasEnd(w) => HasEnd(w)' \/ wpc'[w] = "leave"

LEMMA WorkerGuard_Owns ==
    ASSUME TypeOK, NEW w \in Workers, WorkerGuard(w)
    PROVE  WorkerOwns(w)
BY Speaking DEF WorkerOwns, HasEnd, Waiting, MaySpeak, TypeOK, SpeechTypeOK, genVars, flowVars, slotVars, closeVars,
   workerVars, WorkerGuard

LEMMA WorkerSynthesize_Owns ==
    ASSUME TypeOK, NEW w \in Workers, WorkerSynthesize(w)
    PROVE  WorkerOwns(w)
BY Speaking DEF WorkerOwns, HasEnd, Waiting, MaySpeak, TypeOK, SpeechTypeOK, genVars, flowVars, slotVars, closeVars,
   workerVars, WorkerSynthesize

LEMMA WorkerSend_Owns ==
    ASSUME TypeOK, NEW w \in Workers, WorkerSend(w)
    PROVE  WorkerOwns(w)
BY Speaking DEF WorkerOwns, HasEnd, Waiting, MaySpeak, TypeOK, SpeechTypeOK, genVars, flowVars, slotVars, closeVars,
   workerVars, WorkerSend

LEMMA WorkerPlayed_Owns ==
    ASSUME TypeOK, NEW w \in Workers, WorkerPlayed(w)
    PROVE  WorkerOwns(w)
BY Speaking DEF WorkerOwns, HasEnd, Waiting, MaySpeak, TypeOK, SpeechTypeOK, genVars, flowVars, slotVars, closeVars,
   workerVars, WorkerPlayed

LEMMA WorkerLeave_Owns ==
    ASSUME TypeOK, NEW w \in Workers, WorkerLeave(w)
    PROVE  WorkerOwns(w)
BY Speaking DEF WorkerOwns, HasEnd, Waiting, MaySpeak, TypeOK, SpeechTypeOK, genVars, flowVars, slotVars, closeVars,
   workerVars, WorkerLeave

LEMMA WorkerEnd_Owns ==
    ASSUME TypeOK, NEW w \in Workers, WorkerEnd(w)
    PROVE  WorkerOwns(w)
BY Speaking DEF WorkerOwns, HasEnd, Waiting, MaySpeak, TypeOK, SpeechTypeOK, genVars, flowVars, slotVars, closeVars,
   workerVars, WorkerEnd

LEMMA WorkerGet_Owns ==
    ASSUME TypeOK, NEW w \in Workers, WorkerGet(w)
    PROVE  WorkerOwns(w)
<1>1. queue \in [Workers -> Seq(1 .. End)] /\ queue[w] \in Seq(1 .. End)
  BY DEF TypeOK, SpeechTypeOK
<1>2. /\ UNCHANGED <<current, muted, kind, pc, cancelled, closer, closeGen, slotGen, slot>>
      /\ wpc[w] = "get" /\ queue[w] # <<>> /\ queue' = [queue EXCEPT ![w] = Tail(@)]
      /\ \/ Head(queue[w]) # End /\ wpc' = [wpc EXCEPT ![w] = "synth"]
         \/ wpc' = [wpc EXCEPT ![w] = "leave"]
  BY DEF WorkerGet, genVars, flowVars, slotVars, closeVars
<1>3. queue'[w] = Tail(queue[w]) /\ \A u \in Workers : u # w => queue'[u] = queue[u]
  BY <1>1, <1>2
<1>4. ASSUME HasEnd(w), Head(queue[w]) # End
      PROVE  HasEnd(w)'
  <2>1. PICK i \in DOMAIN queue[w] : queue[w][i] = End
    BY <1>4 DEF HasEnd
  <2>2. i \in 1 .. Len(queue[w]) /\ i # 1
    BY <1>1, <1>4, <2>1
  <2>3. i - 1 \in DOMAIN Tail(queue[w]) /\ Tail(queue[w])[i - 1] = End
    BY <1>1, <1>2, <2>1, <2>2
  <2> QED BY <1>3, <2>3 DEF HasEnd
<1>5. /\ \A u \in Workers : u # w => wpc'[u] = wpc[u]
      /\ wpc'[w] \in {"synth", "leave"} /\ (Head(queue[w]) # End \/ wpc'[w] = "leave")
  BY <1>2 DEF TypeOK, SpeechTypeOK
<1>6. HasEnd(w) => HasEnd(w)' \/ wpc'[w] = "leave"
  BY <1>4, <1>5
<1> QED BY <1>2, <1>3, <1>5, <1>6 DEF WorkerOwns, Waiting

LEMMA WorkerOwnsEffect ==
    ASSUME TypeOK, NEW w \in Workers, WorkerStep(w)
    PROVE  WorkerOwns(w)
BY WorkerGet_Owns, WorkerGuard_Owns, WorkerSynthesize_Owns, WorkerSend_Owns, WorkerPlayed_Owns, WorkerLeave_Owns, WorkerEnd_Owns DEF WorkerStep

\* The variables the slot invariants speak of, but for who closes the bubble.
slotOnly == <<current, muted, kind, pc, cancelled, slotGen, queue, wpc>>

LEMMA CloserOwnsEffect ==
    ASSUME TypeOK, CloserStep
    PROVE  /\ UNCHANGED <<current, muted, kind, pc, cancelled, slotGen, wpc, closeGen>>
           /\ closer' # "cancel"
           /\ \/ slot' = NoWorker
              \/ UNCHANGED <<slot, queue>> /\ (closer = "cancel" => ~Owns(closeGen))
BY DEF CloserStep, CancelSequence, ResetBubble, genVars, flowVars, slotVars, workerVars

LEMMA RestOwnsEffect ==
    ASSUME TypeOK, \/ \E t \in Speakers : PlayerStep(t)
                   \/ \E x \in Flows \cup {Closer, Picker} : ServeStop(x)
                   \/ UNCHANGED vars
    PROVE  UNCHANGED <<slotOnly, slot, closer, closeGen>>
BY DEF PlayerStep, ClearFlag, StartPlay, EndPlay, ServeStop, vars, genVars, flowVars, slotVars, workerVars,
       closeVars, slotOnly

LEMMA InitSlot == Init => SlotOK
<1> SUFFICES ASSUME Init PROVE SlotOK
  OBVIOUS
<1> QED BY Speaking, Names DEF Init, SlotOK, KindInv, KindOK, SlotInv, CloserInv, CancelInv, ClosedInv, EndInv

\* The flow of the worker that holds the slot.
LEMMA SlotFlow ==
    ASSUME TypeOK, slot # NoWorker
    PROVE  slot \in Workers /\ slot[1] \in Flows
BY Speaking DEF TypeOK, SlotTypeOK

LEMMA UserSlot ==
    ASSUME TypeOK, SlotOK, UserStep
    PROVE  SlotOK'
<1> USE UserOwnsEffect DEF SlotOK
<1>0. \A f \in Flows : pc[f] # "new" => pc'[f] # "new" /\ (~MaySpeak(f) => ~MaySpeak(f)')
  BY UserEffect
<1>1. KindInv'
  BY DEF KindInv, KindOK
<1>2. SlotInv'
  BY SlotFlow DEF SlotInv
<1>3. CloserInv'
  BY DEF CloserInv
<1>4. CancelInv'
  BY <1>0 DEF CancelInv
<1>5. ClosedInv'
  BY DEF ClosedInv
<1>6. EndInv'
  <2>1. HasEnd(slot)' <=> HasEnd(slot)
    BY DEF HasEnd
  <2>2. Waiting(slot)' <=> Waiting(slot)
    BY DEF Waiting
  <2>3. slot # NoWorker => pc'[slot[1]] = pc[slot[1]] /\ pc[slot[1]] # "new"
    BY SlotFlow DEF SlotInv
  <2> QED BY <1>0, <2>1, <2>2, <2>3, SlotFlow DEF EndInv
<1> QED BY <1>1, <1>2, <1>3, <1>4, <1>5, <1>6

LEMMA FlowSlot ==
    ASSUME TypeOK, SlotOK, NEW f \in Flows, FlowStep(f) \/ SynthStep(f) \/ ReadSentence(f)
    PROVE  SlotOK'
<1>0. FlowOwns(f)
  BY FlowOwnsEffect
<1> USE <1>0 DEF SlotOK
<1>1. KindInv'
  BY DEF KindInv, KindOK, FlowOwns
<1>2. SlotInv'
  BY SlotFlow DEF SlotInv, FlowOwns
<1>3. CloserInv'
  BY DEF CloserInv, FlowOwns
<1>4. CancelInv'
  BY DEF CancelInv, FlowOwns, MaySpeak
<1>5. ClosedInv'
  BY DEF ClosedInv, FlowOwns
<1>6. EndInv'
  <2> SUFFICES ASSUME slot' # NoWorker, Waiting(slot)', pc'[slot'[1]] \in Dealt
               PROVE  (\/ HasEnd(slot)
                       \/ closer = "cancel" /\ closeGen = slot[1]
                       \/ wpc[slot] # "get" /\ ~MaySpeak(slot[1]))'
    BY DEF EndInv
  <2>1. /\ slot' = slot /\ slotGen' = slotGen /\ wpc' = wpc /\ slot \in Workers /\ slot[1] \in Flows
        /\ UNCHANGED <<closer, closeGen, current, muted>> /\ Waiting(slot)
    BY SlotFlow DEF FlowOwns, Waiting
  <2>2. CASE FinishSequence(f) /\ slot[1] = f
    <3>1. Owns(f) /\ pc[f] = "finishing"
      BY <2>1, <2>2 DEF SlotInv, Owns, FinishSequence
    <3>2. CASE cancelled[f] \/ muted = f
      BY <2>1, <2>2, <3>2 DEF ClosedInv, CancelInv, MaySpeak
    <3>3. CASE ~cancelled[f] /\ muted # f
      <4>1. queue \in [Workers -> Seq(1 .. End)] /\ queue[slot] \in Seq(1 .. End)
        BY <2>1 DEF TypeOK, SpeechTypeOK
      <4>2. queue'[slot] = Append(queue[slot], End)
        BY <2>1, <2>2, <3>1, <3>3, <4>1 DEF FinishSequence
      <4>3. Len(queue[slot]) + 1 \in DOMAIN queue'[slot] /\ queue'[slot][Len(queue[slot]) + 1] = End
        BY <4>1, <4>2, Names
      <4> QED BY <2>1, <4>3 DEF HasEnd
    <3> QED BY <3>2, <3>3
  <2>3. CASE slot[1] # f \/ ~FinishSequence(f)
    <3>1. pc[slot[1]] \in Dealt
      BY <2>1, <2>3 DEF FlowOwns, KindInv, SlotInv
    <3>2. queue'[slot] = queue[slot]
      <4>1. CASE UNCHANGED queue
        BY <4>1
      <4>2. CASE FinishSequence(f)
        <5>1. queue' = queue \/ (Owns(f) /\ queue' = [queue EXCEPT ![slot] = Append(@, End)])
          BY <4>2 DEF FinishSequence
        <5>2. Owns(f) => slot[1] = f
          BY DEF Owns, SlotInv
        <5> QED BY <2>3, <4>2, <5>1, <5>2
      <4> QED BY <4>1, <4>2 DEF FlowOwns
    <3>3. HasEnd(slot) => HasEnd(slot)'
      BY <2>1, <3>2 DEF HasEnd
    <3> QED BY <2>1, <3>1, <3>3 DEF EndInv, MaySpeak
  <2> QED BY <2>2, <2>3
<1> QED BY <1>1, <1>2, <1>3, <1>4, <1>5, <1>6

LEMMA HandSlot ==
    ASSUME TypeOK, HandInv, SlotOK, NEW h \in Hands, HandStep(h)
    PROVE  SlotOK'
<1> USE HandOwnsEffect DEF SlotOK
<1>0. /\ hand[h].at # "none" /\ hand[h].flow \in Flows
      /\ pc[hand[h].flow] \in {"called", "failed", "finishing"}
  BY HandEffect DEF HandInv, HandOK
<1>1. KindInv'
  BY DEF KindInv, KindOK
<1>3. CloserInv'
  BY DEF CloserInv
<1>4. CancelInv'
  BY DEF CancelInv, MaySpeak
<1>a. CASE UNCHANGED <<slot, slotGen, wpc>>
  <2>1. SlotInv'
    BY <1>a DEF SlotInv
  <2>2. ClosedInv'
    BY <1>a DEF ClosedInv
  <2>3. EndInv'
    <3>1. slot # NoWorker /\ HasEnd(slot) => HasEnd(slot)'
      BY <1>a, SlotFlow
    <3>2. Waiting(slot)' <=> Waiting(slot)
      BY <1>a DEF Waiting
    <3> QED BY <1>a, <3>1, <3>2 DEF EndInv, MaySpeak
  <2> QED BY <1>1, <1>3, <1>4, <2>1, <2>2, <2>3
<1>b. CASE /\ slot' = <<hand[h].flow, hand[h].seg>> /\ slotGen' = hand[h].flow
           /\ wpc'[slot'] = "guard" /\ hand[h].at = "take"
  <2>1. SlotInv'
    <3>1. pc[hand[h].flow] # "new"
      BY <1>0, Names
    <3>2. kind[hand[h].flow] = "query" \/ pc[hand[h].flow] = "failed"
      BY <1>0 DEF KindInv, KindOK
    <3>3. kind[hand[h].flow] = "query"
      BY <1>0, <3>2 DEF KindInv, KindOK
    <3>4. slot'[1] = hand[h].flow
      BY <1>b
    <3> QED BY <1>b, <3>1, <3>3, <3>4 DEF SlotInv
  <2>2. ClosedInv'
    BY <1>b DEF ClosedInv
  <2>3. EndInv'
    BY <1>0, <1>b DEF EndInv, Dealt
  <2> QED BY <1>1, <1>3, <1>4, <2>1, <2>2, <2>3
<1> QED BY <1>a, <1>b

LEMMA WorkerSlot ==
    ASSUME TypeOK, SlotOK, NEW w \in Workers, WorkerStep(w)
    PROVE  SlotOK'
<1>0. WorkerOwns(w)
  BY WorkerOwnsEffect
<1> USE <1>0 DEF SlotOK
<1>1. KindInv'
  BY DEF KindInv, KindOK, WorkerOwns
<1>2. SlotInv'
  <2> SUFFICES ASSUME slot' # NoWorker
               PROVE  /\ slotGen' = slot'[1] /\ wpc'[slot'] \notin {"none", "left", "over"}
                      /\ kind'[slot'[1]] = "query" /\ pc'[slot'[1]] # "new"
    BY DEF SlotInv
  <2>1. slot' = slot /\ slot \in Workers
    BY SlotFlow DEF WorkerOwns
  <2>2. wpc'[slot] \notin {"none", "left", "over"}
    BY <2>1, SlotFlow DEF SlotInv, WorkerOwns
  <2> QED BY <2>1, <2>2 DEF SlotInv, WorkerOwns
<1>3. CloserInv'
  BY DEF CloserInv, WorkerOwns
<1>4. CancelInv'
  BY DEF CancelInv, MaySpeak, WorkerOwns
<1>5. ClosedInv'
  <2> SUFFICES ASSUME NEW f \in Flows, cancelled[f] \/ muted = f, ~(closer = "cancel" /\ closeGen = f),
                      slot' # NoWorker, slot'[1] = f
               PROVE  wpc'[slot'] # "get"
    BY DEF ClosedInv, WorkerOwns
  <2>1. slot' = slot /\ slot \in Workers
    BY SlotFlow DEF WorkerOwns
  <2>2. wpc[slot] # "get" /\ ~MaySpeak(f)
    BY <2>1 DEF ClosedInv, CancelInv, MaySpeak
  <2> QED BY <2>1, <2>2 DEF WorkerOwns
<1>6. EndInv'
  <2> SUFFICES ASSUME slot' # NoWorker, Waiting(slot)', pc'[slot'[1]] \in Dealt
               PROVE  (\/ HasEnd(slot)
                       \/ closer = "cancel" /\ closeGen = slot[1]
                       \/ wpc[slot] # "get" /\ ~MaySpeak(slot[1]))'
    BY DEF EndInv
  <2>1. /\ slot' = slot /\ slot \in Workers /\ slot[1] \in Flows
        /\ UNCHANGED <<closer, closeGen, current, muted, pc>>
    BY SlotFlow DEF WorkerOwns
  <2>2. Waiting(slot)
    BY <2>1 DEF WorkerOwns, Waiting
  <2>3. CASE HasEnd(slot)
    <3>1. wpc'[slot] # "leave"
      BY <2>1 DEF Waiting
    <3>2. HasEnd(slot)'
      <4>1. CASE slot = w
        BY <2>1, <2>3, <3>1, <4>1 DEF WorkerOwns, HasEnd
      <4>2. CASE slot # w
        BY <2>1, <2>3, <4>2 DEF WorkerOwns, HasEnd
      <4> QED BY <4>1, <4>2
    <3> QED BY <3>2
  <2>4. CASE wpc[slot] # "get" /\ ~MaySpeak(slot[1])
    BY <2>1, <2>4 DEF WorkerOwns, MaySpeak
  <2> QED BY <2>1, <2>2, <2>3, <2>4 DEF EndInv
<1> QED BY <1>1, <1>2, <1>3, <1>4, <1>5, <1>6

LEMMA CloserSlot ==
    ASSUME TypeOK, SlotOK, CloserStep
    PROVE  SlotOK'
<1> USE CloserOwnsEffect DEF SlotOK
<1>1. KindInv'
  BY DEF KindInv, KindOK
<1>2. SlotInv'
  BY DEF SlotInv
<1>3. CloserInv'
  BY DEF CloserInv
<1>4. CancelInv'
  BY DEF CancelInv, MaySpeak
<1>5. ASSUME slot' # NoWorker
      PROVE  UNCHANGED <<slot, queue>> /\ slot \in Workers /\ ~(closer = "cancel" /\ closeGen = slot[1])
  BY <1>5, SlotFlow DEF SlotInv, Owns
<1>6. ClosedInv'
  BY <1>5 DEF ClosedInv
<1>7. EndInv'
  <2>1. slot' # NoWorker => (HasEnd(slot) => HasEnd(slot)')
    BY <1>5 DEF HasEnd
  <2>2. slot' # NoWorker => (Waiting(slot)' <=> Waiting(slot))
    BY <1>5 DEF Waiting
  <2> QED BY <1>5, <2>1, <2>2 DEF EndInv, MaySpeak
<1> QED BY <1>1, <1>2, <1>3, <1>4, <1>6, <1>7

LEMMA RestSlot ==
    ASSUME SlotOK, UNCHANGED <<slotOnly, slot, closer, closeGen>>
    PROVE  SlotOK'
<1> USE DEF slotOnly
<1>1. KindInv'
  BY DEF SlotOK, KindInv, KindOK
<1>2. SlotInv' /\ CloserInv' /\ CancelInv' /\ ClosedInv'
  BY DEF SlotOK, SlotInv, CloserInv, CancelInv, ClosedInv, MaySpeak
<1>3. EndInv'
  BY DEF SlotOK, EndInv, MaySpeak, HasEnd, Waiting
<1> QED BY <1>1, <1>2, <1>3 DEF SlotOK

LEMMA NextSlot ==
    ASSUME TypeOK, HandInv, SlotOK, [Next]_vars
    PROVE  SlotOK'
<1>1. CASE \/ \E t \in Speakers : PlayerStep(t)
           \/ \E x \in Flows \cup {Closer, Picker} : ServeStop(x)
           \/ UNCHANGED vars
  BY <1>1, RestOwnsEffect, RestSlot
<1> QED BY <1>1, UserSlot, FlowSlot, HandSlot, WorkerSlot, CloserSlot DEF Next, SystemStep

(* A worker that holds the slot of a question that has dealt with its queue is never left *)
(* waiting: the mark is in its queue, the close that puts it there is on its way, or the  *)
(* worker will not come back to wait.                                                     *)
THEOREM OwnerClosed == Spec => []OwnerIsClosed
<1> DEFINE IInv == TypeOK /\ HandInv /\ BornInv /\ SlotOK
<1>1. Init => IInv
  BY InitType, InitLate, InitSlot
<1>2. IInv /\ [Next]_vars => IInv'
  BY NextType, NextHand, NextSlot
<1>3. IInv => OwnerIsClosed
  <2> SUFFICES ASSUME IInv, NEW w \in Workers, slot = w, Waiting(w), pc[w[1]] \in Dealt
               PROVE  \/ \E i \in DOMAIN queue[w] : queue[w][i] = End
                      \/ muted = w[1] /\ closer = "cancel" /\ closeGen = w[1]
                      \/ wpc[w] # "get" /\ ~MaySpeak(w[1])
    BY DEF OwnerIsClosed, Dealt
  <2> QED BY Speaking DEF SlotOK, EndInv, CloserInv, HasEnd
<1> QED BY <1>1, <1>2, <1>3, PTL DEF Spec

-----------------------------------------------------------------------------
(* The order of the sentences *)

\* Speaker t is about to begin the playback of the sentence it has in hand.
Due(t) ==
    saying[t] # 0 /\ player[t] \notin {"playing", "reported"} /\ (t \in Workers => Waiting(t))

\* The latest sentence of f has not reached a queue yet.
OnItsWay(f) == spc[f] \in {"synth", "put"} \/ \E h \in Hands : hand[h].flow = f

\* Sentence n of f is an earlier one, or the latest when it is no longer on its way.
Below(f, n) == n <= sent[f] /\ (OnItsWay(f) => n < sent[f])

Increases(q) == \A i, j \in DOMAIN q : i < j => q[i] < q[j]

SaidBelow(f, n) == \A i \in DOMAIN said[f] : said[f][i] < n

\* Questions have workers, readings a synthesizer.
RoleInv ==
    /\ \A f \in Flows :
          /\ pc[f] = "new" => kind[f] = "none"
          /\ spc[f] # "none" \/ box[f] # 0 \/ saying[<<f, 0>>] # 0 => kind[f] = "read"
    /\ \A w \in Workers : wpc[w] # "none" => kind[w[1]] = "query"

\* A worker begins with an empty queue, and gets sentences of its own flow.
FreshInv ==
    /\ \A w \in Workers : wpc[w] = "none" => queue[w] = <<>> /\ saying[w] = 0
    /\ \A h \in Hands :
          /\ hand[h].at # "none" => hand[h].seg = sent[hand[h].flow]
          /\ hand[h].at = "put" => hand[h].into[1] = hand[h].flow /\ wpc[hand[h].into] # "none"

\* The queue in the slot is closed when the question has dealt with it.
MarkInv == slot # NoWorker /\ HasEnd(slot) => pc[slot[1]] \in Dealt

\* No sentence is ahead of those the flow has seen.
LimitInv ==
    /\ \A f \in Flows : \A i \in DOMAIN said[f] : Below(f, said[f][i])
    /\ \A t \in Speakers : saying[t] # 0 => Below(t[1], saying[t])
    /\ \A w \in Workers : \A i \in DOMAIN queue[w] : queue[w][i] = End \/ Below(w[1], queue[w][i])
    /\ \A f \in Flows : box[f] \in {0, End} \/ Below(f, box[f])

\* A reading says its chunks before the one that waits.
BoxInv ==
    \A f \in Flows : box[f] # 0 => saying[<<f, 0>>] < box[f] /\ SaidBelow(f, box[f])

\* A worker without the slot is one of a reply that is gone.
LoneInv == \A w \in Workers : Waiting(w) /\ slot # w => ~MaySpeak(w[1])

\* One speaker of a flow at a time is about to speak, what was not said before.
DueInv ==
    \A t \in Speakers : Due(t) =>
        /\ SaidBelow(t[1], saying[t])
        /\ \A u \in Speakers : u[1] = t[1] /\ Due(u) => u = t

\* The queue in the slot is in order, behind what is and was said.
QueueInv ==
    slot # NoWorker /\ MaySpeak(slot[1]) =>
        /\ Increases(queue[slot])
        /\ \A i \in DOMAIN queue[slot] :
              saying[slot] < queue[slot][i] /\ SaidBelow(slot[1], queue[slot][i])

SaidInv == \A f \in Flows : Increases(said[f])

OrderOK ==
    /\ RoleInv /\ FreshInv /\ MarkInv /\ LimitInv /\ BoxInv
    /\ ~stray => LoneInv /\ DueInv /\ QueueInv /\ SaidInv

\* What the steps below build on.
Base == TypeOK /\ HandInv /\ BornInv /\ PlayInv /\ SlotOK /\ RoleInv

\* What no step does: to give a flow its say again, to change what it is, to reopen a queue.
Steady ==
    /\ \A f \in Flows :
          /\ MaySpeak(f)' => MaySpeak(f) \/ pc[f] = "new"
          /\ pc'[f] = "new" => pc[f] = "new" /\ kind'[f] = kind[f]
          /\ kind'[f] = kind[f] \/ pc[f] = "new"
          /\ kind[f] = "query" /\ pc[f] \in Dealt => pc'[f] \in Dealt
    /\ stray => stray'

\* A step that leaves the sentences where they are, or drops one.
CalmWork ==
    \A w \in Workers : (wpc'[w] = "none" <=> wpc[w] = "none") /\ (Waiting(w)' => Waiting(w))

CalmSpeech ==
    \A t \in Speakers :
       saying'[t] \in {saying[t], 0} /\ (Due(t)' => Due(t) /\ saying'[t] = saying[t])

CalmSynth ==
    \A f \in Flows :
       /\ spc'[f] \in {"synth", "put"} => spc[f] \in {"synth", "put"}
       /\ spc'[f] # "none" => spc[f] # "none" \/ kind[f] = "read"

CalmSlot ==
    \/ slot' = slot
    \/ slot' = NoWorker /\ \A w \in Workers : slot = w /\ Waiting(w)' => ~MaySpeak(w[1])

CalmText == UNCHANGED <<said, queue, box, hand, sent>>

Calm == Steady /\ CalmText /\ CalmWork /\ CalmSpeech /\ CalmSynth /\ CalmSlot

LEMMA ShowThinking_Calm ==
    ASSUME Base, NEW f \in Flows, ShowThinking(f)
    PROVE  Calm
<1> USE DEF Base, TypeOK, genVars, flowVars, slotVars, workerVars, readVars, audioVars, closeVars
<1>1. Steady
  BY Names DEF Steady, FlowTypeOK, SlotOK, KindInv, KindOK, RoleInv, MaySpeak, Go, GoIdle, Dealt, ShowThinking
<1>2. CalmText
  BY DEF CalmText, Go, GoIdle, ShowThinking
<1>3. CalmWork
  BY DEF CalmWork, SpeechTypeOK, Waiting, MaySpeak, ShowThinking
<1>4. CalmSpeech
  BY Speaking DEF CalmSpeech, Due, SpeechTypeOK, AudioTypeOK, PlayInv, FlowTypeOK, RoleInv, Waiting, Go, GoIdle, MaySpeak, ShowThinking
<1>5. CalmSynth
  BY DEF CalmSynth, SpeechTypeOK, SlotOK, KindInv, KindOK, Go, GoIdle, ShowThinking
<1>6. CalmSlot
  BY DEF CalmSlot, SlotTypeOK, SlotOK, SlotInv, KindInv, KindOK, Waiting, MaySpeak, Go, GoIdle, ShowThinking
<1> QED BY <1>1, <1>2, <1>3, <1>4, <1>5, <1>6 DEF Calm

LEMMA QueryFails_Calm ==
    ASSUME Base, NEW f \in Flows, QueryFails(f)
    PROVE  Calm
<1> USE DEF Base, TypeOK, genVars, flowVars, slotVars, workerVars, readVars, audioVars, closeVars
<1>1. Steady
  BY Names DEF Steady, FlowTypeOK, SlotOK, KindInv, KindOK, RoleInv, MaySpeak, Go, GoIdle, Dealt, QueryFails
<1>2. CalmText
  BY DEF CalmText, Go, GoIdle, QueryFails
<1>3. CalmWork
  BY DEF CalmWork, SpeechTypeOK, Waiting, MaySpeak, QueryFails
<1>4. CalmSpeech
  BY Speaking DEF CalmSpeech, Due, SpeechTypeOK, AudioTypeOK, PlayInv, FlowTypeOK, RoleInv, Waiting, Go, GoIdle, MaySpeak, QueryFails
<1>5. CalmSynth
  BY DEF CalmSynth, SpeechTypeOK, SlotOK, KindInv, KindOK, Go, GoIdle, QueryFails
<1>6. CalmSlot
  BY DEF CalmSlot, SlotTypeOK, SlotOK, SlotInv, KindInv, KindOK, Waiting, MaySpeak, Go, GoIdle, QueryFails
<1> QED BY <1>1, <1>2, <1>3, <1>4, <1>5, <1>6 DEF Calm

LEMMA Decide_Calm ==
    ASSUME Base, NEW f \in Flows, Decide(f)
    PROVE  Calm
<1> USE DEF Base, TypeOK, genVars, flowVars, slotVars, workerVars, readVars, audioVars, closeVars
<1>1. Steady
  BY Names DEF Steady, FlowTypeOK, SlotOK, KindInv, KindOK, RoleInv, MaySpeak, Go, GoIdle, Dealt, Decide
<1>2. CalmText
  BY DEF CalmText, Go, GoIdle, Decide
<1>3. CalmWork
  BY DEF CalmWork, SpeechTypeOK, Waiting, MaySpeak, Decide
<1>4. CalmSpeech
  BY Speaking DEF CalmSpeech, Due, SpeechTypeOK, AudioTypeOK, PlayInv, FlowTypeOK, RoleInv, Waiting, Go, GoIdle, MaySpeak, Decide
<1>5. CalmSynth
  BY DEF CalmSynth, SpeechTypeOK, SlotOK, KindInv, KindOK, Go, GoIdle, Decide
<1>6. CalmSlot
  BY DEF CalmSlot, SlotTypeOK, SlotOK, SlotInv, KindInv, KindOK, Waiting, MaySpeak, Go, GoIdle, Decide
<1> QED BY <1>1, <1>2, <1>3, <1>4, <1>5, <1>6 DEF Calm

LEMMA SynthesizeWhole_Calm ==
    ASSUME Base, NEW f \in Flows, SynthesizeWhole(f)
    PROVE  Calm
<1> USE DEF Base, TypeOK, genVars, flowVars, slotVars, workerVars, readVars, audioVars, closeVars
<1>1. Steady
  BY Names DEF Steady, FlowTypeOK, SlotOK, KindInv, KindOK, RoleInv, MaySpeak, Go, GoIdle, Dealt, SynthesizeWhole
<1>2. CalmText
  BY DEF CalmText, Go, GoIdle, SynthesizeWhole
<1>3. CalmWork
  BY DEF CalmWork, SpeechTypeOK, Waiting, MaySpeak, SynthesizeWhole
<1>4. CalmSpeech
  BY Speaking DEF CalmSpeech, Due, SpeechTypeOK, AudioTypeOK, PlayInv, FlowTypeOK, RoleInv, Waiting, Go, GoIdle, MaySpeak, SynthesizeWhole
<1>5. CalmSynth
  BY DEF CalmSynth, SpeechTypeOK, SlotOK, KindInv, KindOK, Go, GoIdle, SynthesizeWhole
<1>6. CalmSlot
  BY DEF CalmSlot, SlotTypeOK, SlotOK, SlotInv, KindInv, KindOK, Waiting, MaySpeak, Go, GoIdle, SynthesizeWhole
<1> QED BY <1>1, <1>2, <1>3, <1>4, <1>5, <1>6 DEF Calm

LEMMA SendPlay_Calm ==
    ASSUME Base, NEW f \in Flows, SendPlay(f)
    PROVE  Calm
<1> USE DEF Base, TypeOK, genVars, flowVars, slotVars, workerVars, readVars, audioVars, closeVars
<1>1. Steady
  BY Names DEF Steady, FlowTypeOK, SlotOK, KindInv, KindOK, RoleInv, MaySpeak, Go, GoIdle, Dealt, SendPlay
<1>2. CalmText
  BY DEF CalmText, Go, GoIdle, SendPlay
<1>3. CalmWork
  BY DEF CalmWork, SpeechTypeOK, Waiting, MaySpeak, SendPlay
<1>4. CalmSpeech
  <2>1. player' = [player EXCEPT ![<<f, 0>>] = "sent"] /\ UNCHANGED <<saying, wpc>> /\ pc[f] = "send"
    BY DEF SendPlay
  <2>2. player[<<f, 0>>] = "none"
    BY <2>1 DEF PlayInv
  <2>3. \A t \in Speakers : t # <<f, 0>> => player'[t] = player[t]
    BY <2>1 DEF AudioTypeOK
  <2>4. \A t \in Speakers : Due(t)' => Due(t)
    BY <2>1, <2>2, <2>3, Speaking DEF Due, Waiting
  <2> QED BY <2>1, <2>4 DEF CalmSpeech
<1>5. CalmSynth
  BY DEF CalmSynth, SpeechTypeOK, SlotOK, KindInv, KindOK, Go, GoIdle, SendPlay
<1>6. CalmSlot
  BY DEF CalmSlot, SlotTypeOK, SlotOK, SlotInv, KindInv, KindOK, Waiting, MaySpeak, Go, GoIdle, SendPlay
<1> QED BY <1>1, <1>2, <1>3, <1>4, <1>5, <1>6 DEF Calm

LEMMA BeginReading_Calm ==
    ASSUME Base, NEW f \in Flows, BeginReading(f)
    PROVE  Calm
<1> USE DEF Base, TypeOK, genVars, flowVars, slotVars, workerVars, readVars, audioVars, closeVars
<1>1. Steady
  BY Names DEF Steady, FlowTypeOK, SlotOK, KindInv, KindOK, RoleInv, MaySpeak, Go, GoIdle, Dealt, BeginReading
<1>2. CalmText
  BY DEF CalmText, Go, GoIdle, BeginReading
<1>3. CalmWork
  BY DEF CalmWork, SpeechTypeOK, Waiting, MaySpeak, BeginReading
<1>4. CalmSpeech
  BY Speaking DEF CalmSpeech, Due, SpeechTypeOK, AudioTypeOK, PlayInv, FlowTypeOK, RoleInv, Waiting, Go, GoIdle, MaySpeak, BeginReading
<1>5. CalmSynth
  BY DEF CalmSynth, SpeechTypeOK, SlotOK, KindInv, KindOK, Go, GoIdle, BeginReading
<1>6. CalmSlot
  BY DEF CalmSlot, SlotTypeOK, SlotOK, SlotInv, KindInv, KindOK, Waiting, MaySpeak, Go, GoIdle, BeginReading
<1> QED BY <1>1, <1>2, <1>3, <1>4, <1>5, <1>6 DEF Calm

LEMMA ChunkPlayed_Calm ==
    ASSUME Base, NEW f \in Flows, ChunkPlayed(f)
    PROVE  Calm
<1> USE DEF Base, TypeOK, genVars, flowVars, slotVars, workerVars, readVars, audioVars, closeVars
<1>1. Steady
  BY Names DEF Steady, FlowTypeOK, SlotOK, KindInv, KindOK, RoleInv, MaySpeak, Go, GoIdle, Dealt, ChunkPlayed
<1>2. CalmText
  BY DEF CalmText, Go, GoIdle, ChunkPlayed
<1>3. CalmWork
  BY DEF CalmWork, SpeechTypeOK, Waiting, MaySpeak, ChunkPlayed
<1>4. CalmSpeech
  BY Speaking DEF CalmSpeech, Due, SpeechTypeOK, AudioTypeOK, PlayInv, FlowTypeOK, RoleInv, Waiting, Go, GoIdle, MaySpeak, ChunkPlayed
<1>5. CalmSynth
  BY DEF CalmSynth, SpeechTypeOK, SlotOK, KindInv, KindOK, Go, GoIdle, ChunkPlayed
<1>6. CalmSlot
  BY DEF CalmSlot, SlotTypeOK, SlotOK, SlotInv, KindInv, KindOK, Waiting, MaySpeak, Go, GoIdle, ChunkPlayed
<1> QED BY <1>1, <1>2, <1>3, <1>4, <1>5, <1>6 DEF Calm

LEMMA LeaveReading_Calm ==
    ASSUME Base, NEW f \in Flows, LeaveReading(f)
    PROVE  Calm
<1> USE DEF Base, TypeOK, genVars, flowVars, slotVars, workerVars, readVars, audioVars, closeVars
<1>1. Steady
  BY Names DEF Steady, FlowTypeOK, SlotOK, KindInv, KindOK, RoleInv, MaySpeak, Go, GoIdle, Dealt, LeaveReading
<1>2. CalmText
  BY DEF CalmText, Go, GoIdle, LeaveReading
<1>3. CalmWork
  BY DEF CalmWork, SpeechTypeOK, Waiting, MaySpeak, LeaveReading
<1>4. CalmSpeech
  BY Speaking DEF CalmSpeech, Due, SpeechTypeOK, AudioTypeOK, PlayInv, FlowTypeOK, RoleInv, Waiting, Go, GoIdle, MaySpeak, LeaveReading
<1>5. CalmSynth
  BY DEF CalmSynth, SpeechTypeOK, SlotOK, KindInv, KindOK, Go, GoIdle, LeaveReading
<1>6. CalmSlot
  BY DEF CalmSlot, SlotTypeOK, SlotOK, SlotInv, KindInv, KindOK, Waiting, MaySpeak, Go, GoIdle, LeaveReading
<1> QED BY <1>1, <1>2, <1>3, <1>4, <1>5, <1>6 DEF Calm

LEMMA WorkerGuard_Calm ==
    ASSUME Base, NEW w \in Workers, WorkerGuard(w)
    PROVE  Calm
<1> USE DEF Base, TypeOK, genVars, flowVars, slotVars, workerVars, readVars, audioVars, closeVars
<1>1. Steady
  BY Names DEF Steady, FlowTypeOK, SlotOK, KindInv, KindOK, RoleInv, MaySpeak, Go, GoIdle, Dealt, WorkerGuard
<1>2. CalmText
  BY DEF CalmText, Go, GoIdle, WorkerGuard
<1>3. CalmWork
  BY DEF CalmWork, SpeechTypeOK, Waiting, MaySpeak, WorkerGuard
<1>4. CalmSpeech
  BY Speaking DEF CalmSpeech, Due, SpeechTypeOK, AudioTypeOK, PlayInv, FlowTypeOK, RoleInv, Waiting, Go, GoIdle, MaySpeak, WorkerGuard
<1>5. CalmSynth
  BY DEF CalmSynth, SpeechTypeOK, SlotOK, KindInv, KindOK, Go, GoIdle, WorkerGuard
<1>6. CalmSlot
  BY DEF CalmSlot, SlotTypeOK, SlotOK, SlotInv, KindInv, KindOK, Waiting, MaySpeak, Go, GoIdle, WorkerGuard
<1> QED BY <1>1, <1>2, <1>3, <1>4, <1>5, <1>6 DEF Calm

LEMMA WorkerSynthesize_Calm ==
    ASSUME Base, NEW w \in Workers, WorkerSynthesize(w)
    PROVE  Calm
<1> USE DEF Base, TypeOK, genVars, flowVars, slotVars, workerVars, readVars, audioVars, closeVars
<1>1. Steady
  BY Names DEF Steady, FlowTypeOK, SlotOK, KindInv, KindOK, RoleInv, MaySpeak, Go, GoIdle, Dealt, WorkerSynthesize
<1>2. CalmText
  BY DEF CalmText, Go, GoIdle, WorkerSynthesize
<1>3. CalmWork
  BY DEF CalmWork, SpeechTypeOK, Waiting, MaySpeak, WorkerSynthesize
<1>4. CalmSpeech
  BY Speaking DEF CalmSpeech, Due, SpeechTypeOK, AudioTypeOK, PlayInv, FlowTypeOK, RoleInv, Waiting, Go, GoIdle, MaySpeak, WorkerSynthesize
<1>5. CalmSynth
  BY DEF CalmSynth, SpeechTypeOK, SlotOK, KindInv, KindOK, Go, GoIdle, WorkerSynthesize
<1>6. CalmSlot
  BY DEF CalmSlot, SlotTypeOK, SlotOK, SlotInv, KindInv, KindOK, Waiting, MaySpeak, Go, GoIdle, WorkerSynthesize
<1> QED BY <1>1, <1>2, <1>3, <1>4, <1>5, <1>6 DEF Calm

LEMMA WorkerSend_Calm ==
    ASSUME Base, NEW w \in Workers, WorkerSend(w)
    PROVE  Calm
<1> USE DEF Base, TypeOK, genVars, flowVars, slotVars, workerVars, readVars, audioVars, closeVars
<1>1. Steady
  BY Names DEF Steady, FlowTypeOK, SlotOK, KindInv, KindOK, RoleInv, MaySpeak, Go, GoIdle, Dealt, WorkerSend
<1>2. CalmText
  BY DEF CalmText, Go, GoIdle, WorkerSend
<1>3. CalmWork
  BY DEF CalmWork, SpeechTypeOK, Waiting, MaySpeak, WorkerSend
<1>4. CalmSpeech
  BY Speaking DEF CalmSpeech, Due, SpeechTypeOK, AudioTypeOK, PlayInv, FlowTypeOK, RoleInv, Waiting, Go, GoIdle, MaySpeak, WorkerSend
<1>5. CalmSynth
  BY DEF CalmSynth, SpeechTypeOK, SlotOK, KindInv, KindOK, Go, GoIdle, WorkerSend
<1>6. CalmSlot
  BY DEF CalmSlot, SlotTypeOK, SlotOK, SlotInv, KindInv, KindOK, Waiting, MaySpeak, Go, GoIdle, WorkerSend
<1> QED BY <1>1, <1>2, <1>3, <1>4, <1>5, <1>6 DEF Calm

LEMMA WorkerPlayed_Calm ==
    ASSUME Base, NEW w \in Workers, WorkerPlayed(w)
    PROVE  Calm
<1> USE DEF Base, TypeOK, genVars, flowVars, slotVars, workerVars, readVars, audioVars, closeVars
<1>1. Steady
  BY Names DEF Steady, FlowTypeOK, SlotOK, KindInv, KindOK, RoleInv, MaySpeak, Go, GoIdle, Dealt, WorkerPlayed
<1>2. CalmText
  BY DEF CalmText, Go, GoIdle, WorkerPlayed
<1>3. CalmWork
  BY DEF CalmWork, SpeechTypeOK, Waiting, MaySpeak, WorkerPlayed
<1>4. CalmSpeech
  BY Speaking DEF CalmSpeech, Due, SpeechTypeOK, AudioTypeOK, PlayInv, FlowTypeOK, RoleInv, Waiting, Go, GoIdle, MaySpeak, WorkerPlayed
<1>5. CalmSynth
  BY DEF CalmSynth, SpeechTypeOK, SlotOK, KindInv, KindOK, Go, GoIdle, WorkerPlayed
<1>6. CalmSlot
  BY DEF CalmSlot, SlotTypeOK, SlotOK, SlotInv, KindInv, KindOK, Waiting, MaySpeak, Go, GoIdle, WorkerPlayed
<1> QED BY <1>1, <1>2, <1>3, <1>4, <1>5, <1>6 DEF Calm

LEMMA WorkerLeave_Calm ==
    ASSUME Base, NEW w \in Workers, WorkerLeave(w)
    PROVE  Calm
<1> USE DEF Base, TypeOK, genVars, flowVars, slotVars, workerVars, readVars, audioVars, closeVars
<1>1. Steady
  BY Names DEF Steady, FlowTypeOK, SlotOK, KindInv, KindOK, RoleInv, MaySpeak, Go, GoIdle, Dealt, WorkerLeave
<1>2. CalmText
  BY DEF CalmText, Go, GoIdle, WorkerLeave
<1>3. CalmWork
  BY DEF CalmWork, SpeechTypeOK, Waiting, MaySpeak, WorkerLeave
<1>4. CalmSpeech
  BY Speaking DEF CalmSpeech, Due, SpeechTypeOK, AudioTypeOK, PlayInv, FlowTypeOK, RoleInv, Waiting, Go, GoIdle, MaySpeak, WorkerLeave
<1>5. CalmSynth
  BY DEF CalmSynth, SpeechTypeOK, SlotOK, KindInv, KindOK, Go, GoIdle, WorkerLeave
<1>6. CalmSlot
  BY DEF CalmSlot, SpeechTypeOK, SlotTypeOK, SlotOK, SlotInv, KindInv, KindOK, Waiting, MaySpeak, Go, GoIdle, WorkerLeave
<1> QED BY <1>1, <1>2, <1>3, <1>4, <1>5, <1>6 DEF Calm

LEMMA WorkerEnd_Calm ==
    ASSUME Base, NEW w \in Workers, WorkerEnd(w)
    PROVE  Calm
<1> USE DEF Base, TypeOK, genVars, flowVars, slotVars, workerVars, readVars, audioVars, closeVars
<1>1. Steady
  BY Names DEF Steady, FlowTypeOK, SlotOK, KindInv, KindOK, RoleInv, MaySpeak, Go, GoIdle, Dealt, WorkerEnd
<1>2. CalmText
  BY DEF CalmText, Go, GoIdle, WorkerEnd
<1>3. CalmWork
  BY DEF CalmWork, SpeechTypeOK, Waiting, MaySpeak, WorkerEnd
<1>4. CalmSpeech
  BY Speaking DEF CalmSpeech, Due, SpeechTypeOK, AudioTypeOK, PlayInv, FlowTypeOK, RoleInv, Waiting, Go, GoIdle, MaySpeak, WorkerEnd
<1>5. CalmSynth
  BY DEF CalmSynth, SpeechTypeOK, SlotOK, KindInv, KindOK, Go, GoIdle, WorkerEnd
<1>6. CalmSlot
  BY DEF CalmSlot, SlotTypeOK, SlotOK, SlotInv, KindInv, KindOK, Waiting, MaySpeak, Go, GoIdle, WorkerEnd
<1> QED BY <1>1, <1>2, <1>3, <1>4, <1>5, <1>6 DEF Calm

LEMMA ClearFlag_Calm ==
    ASSUME Base, NEW t \in Speakers, ClearFlag(t)
    PROVE  Calm
<1> USE DEF Base, TypeOK, genVars, flowVars, slotVars, workerVars, readVars, audioVars, closeVars
<1>1. Steady
  BY Names DEF Steady, FlowTypeOK, SlotOK, KindInv, KindOK, RoleInv, MaySpeak, Go, GoIdle, Dealt, ClearFlag, Waits
<1>2. CalmText
  BY DEF CalmText, Go, GoIdle, ClearFlag, Waits
<1>3. CalmWork
  BY DEF CalmWork, SpeechTypeOK, Waiting, MaySpeak, ClearFlag, Waits
<1>4. CalmSpeech
  BY Speaking DEF CalmSpeech, Due, SpeechTypeOK, AudioTypeOK, PlayInv, FlowTypeOK, RoleInv, Waiting, Go, GoIdle, MaySpeak, ClearFlag, Waits
<1>5. CalmSynth
  BY DEF CalmSynth, SpeechTypeOK, SlotOK, KindInv, KindOK, Go, GoIdle, ClearFlag, Waits
<1>6. CalmSlot
  BY DEF CalmSlot, SlotTypeOK, SlotOK, SlotInv, KindInv, KindOK, Waiting, MaySpeak, Go, GoIdle, ClearFlag, Waits
<1> QED BY <1>1, <1>2, <1>3, <1>4, <1>5, <1>6 DEF Calm

LEMMA EndPlay_Calm ==
    ASSUME Base, NEW t \in Speakers, EndPlay(t)
    PROVE  Calm
<1> USE DEF Base, TypeOK, genVars, flowVars, slotVars, workerVars, readVars, audioVars, closeVars
<1>1. Steady
  BY Names DEF Steady, FlowTypeOK, SlotOK, KindInv, KindOK, RoleInv, MaySpeak, Go, GoIdle, Dealt, EndPlay, Waits
<1>2. CalmText
  BY DEF CalmText, Go, GoIdle, EndPlay, Waits
<1>3. CalmWork
  BY DEF CalmWork, SpeechTypeOK, Waiting, MaySpeak, EndPlay, Waits
<1>4. CalmSpeech
  BY Speaking DEF CalmSpeech, Due, SpeechTypeOK, AudioTypeOK, PlayInv, FlowTypeOK, RoleInv, Waiting, Go, GoIdle, MaySpeak, EndPlay, Waits
<1>5. CalmSynth
  BY DEF CalmSynth, SpeechTypeOK, SlotOK, KindInv, KindOK, Go, GoIdle, EndPlay, Waits
<1>6. CalmSlot
  BY DEF CalmSlot, SlotTypeOK, SlotOK, SlotInv, KindInv, KindOK, Waiting, MaySpeak, Go, GoIdle, EndPlay, Waits
<1> QED BY <1>1, <1>2, <1>3, <1>4, <1>5, <1>6 DEF Calm

LEMMA Ask_Calm ==
    ASSUME Base, NEW f \in Flows, NEW k \in Kinds, Ask(f, k)
    PROVE  Calm
<1> USE DEF Base, TypeOK, genVars, flowVars, slotVars, workerVars, readVars, audioVars, closeVars
<1>1. Steady
  BY Names DEF Steady, FlowTypeOK, SlotOK, KindInv, KindOK, RoleInv, MaySpeak, Go, GoIdle, Dealt, Ask
<1>2. CalmText
  BY DEF CalmText, Go, GoIdle, Ask
<1>3. CalmWork
  BY DEF CalmWork, SpeechTypeOK, Waiting, MaySpeak, Ask
<1>4. CalmSpeech
  BY Speaking DEF CalmSpeech, Due, SpeechTypeOK, AudioTypeOK, PlayInv, FlowTypeOK, RoleInv, Waiting, Go, GoIdle, MaySpeak, Ask
<1>5. CalmSynth
  BY DEF CalmSynth, SpeechTypeOK, SlotOK, KindInv, KindOK, Go, GoIdle, Ask
<1>6. CalmSlot
  BY DEF CalmSlot, SlotTypeOK, SlotOK, SlotInv, KindInv, KindOK, Waiting, MaySpeak, Go, GoIdle, Ask
<1> QED BY <1>1, <1>2, <1>3, <1>4, <1>5, <1>6 DEF Calm

LEMMA BeginCaller_Calm ==
    ASSUME Base, BeginCaller
    PROVE  Calm
<1> USE DEF Base, TypeOK, genVars, flowVars, slotVars, workerVars, readVars, audioVars, closeVars
<1>1. Steady
  BY Names DEF Steady, FlowTypeOK, SlotOK, KindInv, KindOK, RoleInv, MaySpeak, Go, GoIdle, Dealt, BeginCaller
<1>2. CalmText
  BY DEF CalmText, Go, GoIdle, BeginCaller
<1>3. CalmWork
  BY DEF CalmWork, SpeechTypeOK, Waiting, MaySpeak, BeginCaller
<1>4. CalmSpeech
  BY Speaking DEF CalmSpeech, Due, SpeechTypeOK, AudioTypeOK, PlayInv, FlowTypeOK, RoleInv, Waiting, Go, GoIdle, MaySpeak, BeginCaller
<1>5. CalmSynth
  BY DEF CalmSynth, SpeechTypeOK, SlotOK, KindInv, KindOK, Go, GoIdle, BeginCaller
<1>6. CalmSlot
  BY DEF CalmSlot, SlotTypeOK, SlotOK, SlotInv, KindInv, KindOK, Waiting, MaySpeak, Go, GoIdle, BeginCaller
<1> QED BY <1>1, <1>2, <1>3, <1>4, <1>5, <1>6 DEF Calm

LEMMA IntentCancelled_Calm ==
    ASSUME Base, IntentCancelled
    PROVE  Calm
<1> USE DEF Base, TypeOK, genVars, flowVars, slotVars, workerVars, readVars, audioVars, closeVars
<1>1. Steady
  BY Names DEF Steady, FlowTypeOK, SlotOK, KindInv, KindOK, RoleInv, MaySpeak, Go, GoIdle, Dealt, IntentCancelled
<1>2. CalmText
  BY DEF CalmText, Go, GoIdle, IntentCancelled
<1>3. CalmWork
  BY DEF CalmWork, SpeechTypeOK, Waiting, MaySpeak, IntentCancelled
<1>4. CalmSpeech
  BY Speaking DEF CalmSpeech, Due, SpeechTypeOK, AudioTypeOK, PlayInv, FlowTypeOK, RoleInv, Waiting, Go, GoIdle, MaySpeak, IntentCancelled
<1>5. CalmSynth
  BY DEF CalmSynth, SpeechTypeOK, SlotOK, KindInv, KindOK, Go, GoIdle, IntentCancelled
<1>6. CalmSlot
  BY DEF CalmSlot, SlotTypeOK, SlotOK, SlotInv, KindInv, KindOK, Waiting, MaySpeak, Go, GoIdle, IntentCancelled
<1> QED BY <1>1, <1>2, <1>3, <1>4, <1>5, <1>6 DEF Calm

LEMMA MuteMark_Calm ==
    ASSUME Base, MuteMark
    PROVE  Calm
<1> USE DEF Base, TypeOK, genVars, flowVars, slotVars, workerVars, readVars, audioVars, closeVars
<1>1. Steady
  BY Names DEF Steady, FlowTypeOK, SlotOK, KindInv, KindOK, RoleInv, MaySpeak, Go, GoIdle, Dealt, MuteMark
<1>2. CalmText
  BY DEF CalmText, Go, GoIdle, MuteMark
<1>3. CalmWork
  BY DEF CalmWork, SpeechTypeOK, Waiting, MaySpeak, MuteMark
<1>4. CalmSpeech
  BY Speaking DEF CalmSpeech, Due, SpeechTypeOK, AudioTypeOK, PlayInv, FlowTypeOK, RoleInv, Waiting, Go, GoIdle, MaySpeak, MuteMark
<1>5. CalmSynth
  BY DEF CalmSynth, SpeechTypeOK, SlotOK, KindInv, KindOK, Go, GoIdle, MuteMark
<1>6. CalmSlot
  BY DEF CalmSlot, SlotTypeOK, SlotOK, SlotInv, KindInv, KindOK, Waiting, MaySpeak, Go, GoIdle, MuteMark
<1> QED BY <1>1, <1>2, <1>3, <1>4, <1>5, <1>6 DEF Calm

LEMMA ResetBubble_Calm ==
    ASSUME Base, ResetBubble
    PROVE  Calm
<1> USE DEF Base, TypeOK, genVars, flowVars, slotVars, workerVars, readVars, audioVars, closeVars
<1>1. Steady
  BY Names DEF Steady, FlowTypeOK, SlotOK, KindInv, KindOK, RoleInv, MaySpeak, Go, GoIdle, Dealt, ResetBubble
<1>2. CalmText
  BY DEF CalmText, Go, GoIdle, ResetBubble
<1>3. CalmWork
  BY DEF CalmWork, SpeechTypeOK, Waiting, MaySpeak, ResetBubble
<1>4. CalmSpeech
  BY Speaking DEF CalmSpeech, Due, SpeechTypeOK, AudioTypeOK, PlayInv, FlowTypeOK, RoleInv, Waiting, Go, GoIdle, MaySpeak, ResetBubble
<1>5. CalmSynth
  BY DEF CalmSynth, SpeechTypeOK, SlotOK, KindInv, KindOK, Go, GoIdle, ResetBubble
<1>6. CalmSlot
  BY DEF CalmSlot, SlotTypeOK, SlotOK, SlotInv, KindInv, KindOK, Waiting, MaySpeak, Go, GoIdle, ResetBubble
<1> QED BY <1>1, <1>2, <1>3, <1>4, <1>5, <1>6 DEF Calm

LEMMA ServeStop_Calm ==
    ASSUME Base, NEW x \in Flows \cup {Closer, Picker}, ServeStop(x)
    PROVE  Calm
<1> USE DEF Base, TypeOK, genVars, flowVars, slotVars, workerVars, readVars, audioVars, closeVars
<1>1. Steady
  BY Names DEF Steady, FlowTypeOK, SlotOK, KindInv, KindOK, RoleInv, MaySpeak, Go, GoIdle, Dealt, ServeStop
<1>2. CalmText
  BY DEF CalmText, Go, GoIdle, ServeStop
<1>3. CalmWork
  BY DEF CalmWork, SpeechTypeOK, Waiting, MaySpeak, ServeStop
<1>4. CalmSpeech
  BY Speaking DEF CalmSpeech, Due, SpeechTypeOK, AudioTypeOK, PlayInv, FlowTypeOK, RoleInv, Waiting, Go, GoIdle, MaySpeak, ServeStop
<1>5. CalmSynth
  BY DEF CalmSynth, SpeechTypeOK, SlotOK, KindInv, KindOK, Go, GoIdle, ServeStop
<1>6. CalmSlot
  BY DEF CalmSlot, SlotTypeOK, SlotOK, SlotInv, KindInv, KindOK, Waiting, MaySpeak, Go, GoIdle, ServeStop
<1> QED BY <1>1, <1>2, <1>3, <1>4, <1>5, <1>6 DEF Calm

LEMMA Stutter_Calm ==
    ASSUME Base, UNCHANGED vars
    PROVE  Calm
<1> USE DEF Base, TypeOK, genVars, flowVars, slotVars, workerVars, readVars, audioVars, closeVars
<1>1. Steady
  BY Names DEF Steady, FlowTypeOK, SlotOK, KindInv, KindOK, RoleInv, MaySpeak, Go, GoIdle, Dealt, vars
<1>2. CalmText
  BY DEF CalmText, Go, GoIdle, vars
<1>3. CalmWork
  BY DEF CalmWork, SpeechTypeOK, Waiting, MaySpeak, vars
<1>4. CalmSpeech
  BY Speaking DEF CalmSpeech, Due, SpeechTypeOK, AudioTypeOK, PlayInv, FlowTypeOK, RoleInv, Waiting, Go, GoIdle, MaySpeak, vars
<1>5. CalmSynth
  BY DEF CalmSynth, SpeechTypeOK, SlotOK, KindInv, KindOK, Go, GoIdle, vars
<1>6. CalmSlot
  BY DEF CalmSlot, SlotTypeOK, SlotOK, SlotInv, KindInv, KindOK, Waiting, MaySpeak, Go, GoIdle, vars
<1> QED BY <1>1, <1>2, <1>3, <1>4, <1>5, <1>6 DEF Calm

-----------------------------------------------------------------------------
(* What becomes of the order of the sentences *)

LEMMA AppendFacts ==
    ASSUME NEW S, NEW q \in Seq(S), NEW e \in S
    PROVE  /\ DOMAIN q \subseteq Nat /\ Append(q, e) \in Seq(S) /\ DOMAIN q \subseteq DOMAIN Append(q, e)
           /\ \A i \in DOMAIN q : Append(q, e)[i] = q[i]
           /\ \A i \in DOMAIN Append(q, e) :
                 i \in DOMAIN q \/ (Append(q, e)[i] = e /\ \A j \in DOMAIN q : j < i)
           /\ \A i, j \in DOMAIN Append(q, e) : i < j => i \in DOMAIN q
OBVIOUS

LEMMA TailFacts ==
    ASSUME NEW S, NEW q \in Seq(S), q # <<>>
    PROVE  /\ 1 \in DOMAIN q /\ Head(q) = q[1] /\ Head(q) \in S
           /\ \A i \in DOMAIN Tail(q) : i + 1 \in DOMAIN q /\ Tail(q)[i] = q[i + 1] /\ i \in Nat /\ 1 < i + 1
OBVIOUS

LEMMA AppendIncreases ==
    ASSUME NEW q \in Seq(Nat), NEW e \in Nat, Increases(q), \A i \in DOMAIN q : q[i] < e
    PROVE  Increases(Append(q, e))
<1> DEFINE u == Append(q, e)
<1>1. /\ \A i \in DOMAIN q : u[i] = q[i]
      /\ \A i \in DOMAIN u : i \in DOMAIN q \/ u[i] = e
      /\ \A i, j \in DOMAIN u : i < j => i \in DOMAIN q
  BY AppendFacts
<1> HIDE DEF u
<1>2. \A i, j \in DOMAIN u : i < j => u[i] < u[j]
  BY <1>1 DEF Increases
<1> QED BY <1>2 DEF Increases, u

LEMMA TailIncreases ==
    ASSUME NEW q \in Seq(Nat), q # <<>>, Increases(q)
    PROVE  Increases(Tail(q)) /\ \A i \in DOMAIN Tail(q) : Head(q) < Tail(q)[i]
<1> DEFINE u == Tail(q)
<1>1. /\ 1 \in DOMAIN q /\ Head(q) = q[1]
      /\ \A i \in DOMAIN u : i + 1 \in DOMAIN q /\ u[i] = q[i + 1] /\ i \in Nat /\ 1 < i + 1
  BY TailFacts
<1> HIDE DEF u
<1>2. \A i, j \in DOMAIN u : i < j => i + 1 < j + 1
  BY <1>1
<1>3. Increases(u)
  BY <1>1, <1>2 DEF Increases
<1>4. \A i \in DOMAIN u : Head(q) < u[i]
  BY <1>1 DEF Increases
<1> QED BY <1>3, <1>4 DEF u

LEMMA ElementsFacts ==
    ASSUME NEW S, NEW T, S \subseteq T, NEW q \in Seq(S)
    PROVE  q \in Seq(T) /\ \A i \in DOMAIN q : q[i] \in S
OBVIOUS

\* What is said, in hand or queued is a number.
LEMMA Numbers ==
    ASSUME TypeOK
    PROVE  /\ \A f \in Flows : said[f] \in Seq(Nat) /\ sent[f] \in Nat /\ box[f] \in Nat /\ box[f] <= End
           /\ \A f \in Flows : \A i \in DOMAIN said[f] : said[f][i] \in Nat /\ said[f][i] < End
           /\ \A t \in Speakers : saying[t] \in Nat /\ saying[t] < End
           /\ \A w \in Workers : queue[w] \in Seq(1 .. End) /\ queue[w] \in Seq(Nat)
           /\ \A w \in Workers : \A i \in DOMAIN queue[w] :
                 queue[w][i] \in Nat /\ 0 < queue[w][i] /\ (queue[w][i] = End \/ queue[w][i] < End)
<1>1. Sentences \subseteq Nat /\ 1 .. End \subseteq Nat /\ NSentences \in Nat /\ End = NSentences + 1
  BY Names DEF Sentences, End
<1>2. ASSUME NEW f \in Flows
      PROVE  /\ said[f] \in Seq(Nat) /\ sent[f] \in Nat /\ box[f] \in Nat /\ box[f] <= End
             /\ \A i \in DOMAIN said[f] : said[f][i] \in Nat /\ said[f][i] < End
  <2>1. said[f] \in Seq(Sentences) /\ sent[f] \in 0 .. NSentences /\ box[f] \in 0 .. End
    BY DEF TypeOK, AudioTypeOK, FlowTypeOK, SpeechTypeOK
  <2>2. said[f] \in Seq(Nat) /\ \A i \in DOMAIN said[f] : said[f][i] \in Sentences
    BY <1>1, <2>1, ElementsFacts
  <2> QED BY <1>1, <2>1, <2>2 DEF Sentences
<1>3. ASSUME NEW t \in Speakers
      PROVE  saying[t] \in Nat /\ saying[t] < End
  BY <1>1 DEF TypeOK, SpeechTypeOK
<1>4. ASSUME NEW w \in Workers
      PROVE  /\ queue[w] \in Seq(1 .. End) /\ queue[w] \in Seq(Nat)
             /\ \A i \in DOMAIN queue[w] :
                 queue[w][i] \in Nat /\ 0 < queue[w][i] /\ (queue[w][i] = End \/ queue[w][i] < End)
  <2>1. queue[w] \in Seq(1 .. End)
    BY DEF TypeOK, SpeechTypeOK
  <2>2. queue[w] \in Seq(Nat) /\ \A i \in DOMAIN queue[w] : queue[w][i] \in 1 .. End
    BY <1>1, <2>1, ElementsFacts
  <2> QED BY <1>1, <2>1, <2>2
<1> QED BY <1>2, <1>3, <1>4

\* The number of sentences grows, or none sets out anew.
Rises(f) ==
    \/ sent'[f] = sent[f] /\ (OnItsWay(f)' => OnItsWay(f))
    \/ sent'[f] = sent[f] + 1

LEMMA BelowStays ==
    ASSUME TypeOK, NEW f \in Flows, NEW n \in Nat, Below(f, n), Rises(f)
    PROVE  Below(f, n)'
<1>1. sent[f] \in Nat
  BY Numbers
<1>2. n <= sent[f] /\ (OnItsWay(f) => n < sent[f])
  BY DEF Below
<1>3. CASE sent'[f] = sent[f] /\ (OnItsWay(f)' => OnItsWay(f))
  BY <1>2, <1>3 DEF Below
<1>4. CASE sent'[f] = sent[f] + 1
  <2>1. n <= sent'[f] /\ n < sent'[f]
    BY <1>1, <1>2, <1>4
  <2> QED BY <2>1 DEF Below
<1> QED BY <1>3, <1>4 DEF Rises

\* Every sentence after a step is one there was, or below the latest.
SaidKept(f) ==
    \A i \in DOMAIN said'[f] : (i \in DOMAIN said[f] /\ said'[f][i] = said[f][i]) \/ Below(f, said[f][i])'

SayingKept(t) == saying'[t] \in {saying[t], 0} \/ Below(t[1], saying[t])'

QueueKept(w) ==
    \A i \in DOMAIN queue'[w] :
       \/ \E j \in DOMAIN queue[w] : queue'[w][i] = queue[w][j]
       \/ queue'[w][i] = End \/ Below(w[1], queue[w][i])'

BoxKept(f) == box'[f] \in {box[f], 0, End} \/ Below(f, box[f])'

LEMMA LimitKept ==
    ASSUME TypeOK, LimitInv, \A f \in Flows : Rises(f) /\ SaidKept(f) /\ BoxKept(f),
           \A t \in Speakers : SayingKept(t), \A w \in Workers : QueueKept(w)
    PROVE  LimitInv'
<1>0. ASSUME NEW f \in Flows
      PROVE  \A m \in Nat : Below(f, m) => Below(f, m)'
  BY BelowStays
<1>1. ASSUME NEW f \in Flows, NEW i \in DOMAIN said'[f]
      PROVE  Below(f, said[f][i])'
  <2>1. CASE i \in DOMAIN said[f] /\ said'[f][i] = said[f][i]
    <3> DEFINE n == said[f][i]
    <3>1. n \in Nat /\ Below(f, n) /\ said'[f][i] = n
      BY <2>1, Numbers DEF LimitInv
    <3> HIDE DEF n
    <3> QED BY <1>0, <3>1 DEF Below
  <2> QED BY <2>1 DEF SaidKept
<1>2. ASSUME NEW t \in Speakers, saying'[t] # 0
      PROVE  Below(t[1], saying[t])'
  <2>1. CASE saying'[t] = saying[t]
    <3> DEFINE n == saying[t]
    <3>1. n \in Nat /\ Below(t[1], n) /\ saying'[t] = n /\ t[1] \in Flows
      BY <1>2, <2>1, Numbers, Speaking DEF LimitInv
    <3> HIDE DEF n
    <3> QED BY <1>0, <3>1 DEF Below
  <2> QED BY <1>2, <2>1 DEF SayingKept
<1>3. ASSUME NEW w \in Workers, NEW i \in DOMAIN queue'[w], queue'[w][i] # End
      PROVE  Below(w[1], queue[w][i])'
  <2>1. ASSUME NEW j \in DOMAIN queue[w], queue'[w][i] = queue[w][j]
        PROVE  Below(w[1], queue[w][i])'
    <3> DEFINE n == queue[w][j]
    <3>1. n \in Nat /\ Below(w[1], n) /\ queue'[w][i] = n /\ w[1] \in Flows
      BY <1>3, <2>1, Numbers, Speaking DEF LimitInv
    <3> HIDE DEF n
    <3> QED BY <1>0, <3>1 DEF Below
  <2> QED BY <1>3, <2>1 DEF QueueKept
<1>4. ASSUME NEW f \in Flows, box'[f] \notin {0, End}
      PROVE  Below(f, box[f])'
  <2>1. CASE box'[f] = box[f]
    <3> DEFINE n == box[f]
    <3>1. n \in Nat /\ Below(f, n) /\ box'[f] = n
      BY <1>4, <2>1, Numbers DEF LimitInv
    <3> HIDE DEF n
    <3> QED BY <1>0, <3>1 DEF Below
  <2> QED BY <1>4, <2>1 DEF BoxKept
<1>5. \A w \in Workers : \A i \in DOMAIN queue'[w] : queue'[w][i] = End \/ Below(w[1], queue[w][i])'
  BY <1>3
<1>6. \A f \in Flows : box'[f] \in {0, End} \/ Below(f, box[f])'
  BY <1>4
<1> QED BY <1>1, <1>2, <1>5, <1>6 DEF LimitInv

LEMMA RoleKept ==
    ASSUME Base, Steady,
           \A f \in Flows : spc'[f] # "none" \/ box'[f] # 0 \/ saying'[<<f, 0>>] # 0 => kind[f] = "read",
           \A w \in Workers : wpc'[w] # "none" => kind[w[1]] = "query"
    PROVE  RoleInv'
<1>1. RoleInv
  BY DEF Base
<1>2. \A f \in Flows : kind[f] \in {"read", "query"} => kind'[f] = kind[f]
  BY <1>1 DEF Steady, RoleInv
<1>3. \A f \in Flows : pc'[f] = "new" => kind'[f] = "none"
  BY <1>1 DEF Steady, RoleInv
<1> QED BY <1>2, <1>3, Speaking DEF RoleInv

\* The slot's flow is a question, not a new one, and keeps having dealt with its queue.
LEMMA SlotKept ==
    ASSUME Base, Steady, NEW w \in Workers, slot = w
    PROVE  /\ w[1] \in Flows /\ kind[w[1]] = "query" /\ slotGen = w[1] /\ wpc[w] # "none"
           /\ MaySpeak(w[1])' => MaySpeak(w[1])
           /\ pc[w[1]] \in Dealt => pc'[w[1]] \in Dealt
<1>1. w[1] \in Flows /\ slot # NoWorker
  BY Speaking
<1>2. kind[w[1]] = "query" /\ pc[w[1]] # "new" /\ slotGen = w[1] /\ wpc[w] # "none"
  BY <1>1 DEF Base, SlotOK, SlotInv
<1>3. MaySpeak(w[1])' => MaySpeak(w[1])
  BY <1>1, <1>2 DEF Steady
<1>4. pc[w[1]] \in Dealt => pc'[w[1]] \in Dealt
  BY <1>1, <1>2 DEF Steady
<1> QED BY <1>1, <1>2, <1>3, <1>4

\* Each part of the order, for the steps that leave its sentences alone: such a step may give
\* up a sentence or the slot.
LEMMA RoleStays ==
    ASSUME Base, Steady, CalmWork, CalmSpeech, \A f \in Flows : box'[f] \in {box[f], 0},
           \A f \in Flows : spc'[f] # "none" => spc[f] # "none" \/ kind[f] = "read"
    PROVE  RoleInv'
<1>0. RoleInv
  BY DEF Base
<1>1. \A f \in Flows : spc'[f] # "none" \/ box'[f] # 0 \/ saying'[<<f, 0>>] # 0 => kind[f] = "read"
  BY <1>0, Speaking DEF RoleInv, CalmSpeech
<1>2. \A w \in Workers : wpc'[w] # "none" => kind[w[1]] = "query"
  BY <1>0 DEF RoleInv, CalmWork
<1> QED BY <1>1, <1>2, RoleKept

LEMMA FreshStays ==
    ASSUME TypeOK, FreshInv, CalmWork, CalmSpeech, UNCHANGED <<hand, sent>>,
           \A w \in Workers : wpc[w] = "none" => queue'[w] = queue[w]
    PROVE  FreshInv'
<1>1. \A w \in Workers : wpc'[w] = "none" => queue'[w] = <<>> /\ saying'[w] = 0
  BY Speaking DEF CalmWork, CalmSpeech, FreshInv
<1>2. ASSUME NEW h \in Hands, hand[h].at = "put"
      PROVE  wpc'[hand[h].into] # "none"
  <2>1. hand[h].into \in Workers
    BY <1>2 DEF TypeOK, SlotTypeOK, Empty
  <2> QED BY <1>2, <2>1 DEF CalmWork, FreshInv
<1> QED BY <1>1, <1>2 DEF FreshInv

LEMMA MarkStays ==
    ASSUME Base, Steady, CalmSlot, MarkInv, UNCHANGED queue
    PROVE  MarkInv'
<1>1. slot' # NoWorker => slot' = slot /\ slot \in Workers
  BY SlotFlow DEF Base, CalmSlot
<1> SUFFICES ASSUME NEW w \in Workers, slot' = w, slot = w, HasEnd(w)'
             PROVE  pc'[w[1]] \in Dealt
  BY <1>1 DEF MarkInv, HasEnd
<1>2. HasEnd(w)
  BY DEF HasEnd
<1> QED BY <1>2, SlotKept, Speaking DEF MarkInv

LEMMA BoxStays ==
    ASSUME TypeOK, BoxInv, CalmSpeech, UNCHANGED said, \A f \in Flows : box'[f] \in {box[f], 0}
    PROVE  BoxInv'
<1> SUFFICES ASSUME NEW f \in Flows, box'[f] # 0
             PROVE  saying'[<<f, 0>>] < box'[f] /\ SaidBelow(f, box[f])'
  BY DEF BoxInv
<1>1. box'[f] = box[f] /\ box[f] # 0 /\ box[f] \in Nat /\ saying'[<<f, 0>>] \in {saying[<<f, 0>>], 0}
  BY Numbers, Speaking DEF CalmSpeech
<1>2. saying[<<f, 0>>] < box[f] /\ SaidBelow(f, box[f])
  BY <1>1 DEF BoxInv
<1> QED BY <1>1, <1>2 DEF SaidBelow

LEMMA LoneStays ==
    ASSUME Base, Steady, CalmSlot, LoneInv, \A w \in Workers : Waiting(w)' => Waiting(w)
    PROVE  LoneInv'
<1> SUFFICES ASSUME NEW w \in Workers, Waiting(w)', slot' # w
             PROVE  ~MaySpeak(w[1])'
  BY DEF LoneInv
<1>1. Waiting(w) /\ w[1] \in Flows
  BY Speaking
<1>2. pc[w[1]] # "new"
  BY <1>1 DEF Base, BornInv, Waiting
<1>3. ~MaySpeak(w[1])
  BY <1>1 DEF LoneInv, CalmSlot
<1> QED BY <1>1, <1>2, <1>3 DEF Steady

LEMMA DueStays ==
    ASSUME DueInv, CalmSpeech, UNCHANGED said
    PROVE  DueInv'
BY DEF DueInv, CalmSpeech, SaidBelow

LEMMA QueueStays ==
    ASSUME Base, Steady, CalmSlot, CalmSpeech, QueueInv, UNCHANGED <<said, queue>>
    PROVE  QueueInv'
<1>0. TypeOK /\ (slot' # NoWorker => slot' = slot /\ slot \in Workers)
  BY SlotFlow DEF Base, CalmSlot
<1> SUFFICES ASSUME NEW w \in Workers, slot' = w, slot = w, MaySpeak(w[1])'
             PROVE  /\ Increases(queue[w])
                    /\ \A i \in DOMAIN queue[w] :
                          saying'[w] < queue[w][i] /\ SaidBelow(w[1], queue[w][i])
  BY <1>0 DEF QueueInv, SaidBelow, Increases
<1>1. slot # NoWorker /\ w \in Speakers /\ MaySpeak(w[1])
  BY SlotKept, Speaking
<1>2. saying'[w] \in {saying[w], 0}
  BY <1>1 DEF CalmSpeech
<1>3. \A i \in DOMAIN queue[w] : queue[w][i] \in Nat /\ 0 < queue[w][i]
  BY <1>0, Numbers
<1>4. Increases(queue[w]) /\ \A i \in DOMAIN queue[w] : saying[w] < queue[w][i] /\ SaidBelow(w[1], queue[w][i])
  BY <1>1 DEF QueueInv
<1> QED BY <1>2, <1>3, <1>4

LEMMA SaidStays ==
    ASSUME SaidInv, UNCHANGED said
    PROVE  SaidInv'
BY DEF SaidInv, Increases

LEMMA CalmOrder ==
    ASSUME Base, OrderOK, Steady, UNCHANGED <<said, queue>>, CalmWork, CalmSpeech, CalmSlot,
           \A f \in Flows : box'[f] \in {box[f], 0},
           \A f \in Flows : spc'[f] # "none" => spc[f] # "none" \/ kind[f] = "read"
    PROVE  /\ RoleInv' /\ MarkInv' /\ BoxInv'
           /\ ~stray' => (LoneInv /\ DueInv /\ QueueInv /\ SaidInv)'
<1>1. /\ TypeOK /\ RoleInv /\ MarkInv /\ BoxInv
      /\ ~stray' => LoneInv /\ DueInv /\ QueueInv /\ SaidInv
  BY DEF Base, OrderOK, Steady
<1>2. RoleInv' /\ MarkInv' /\ BoxInv'
  BY <1>1, RoleStays, MarkStays, BoxStays
<1>3. ~stray' => LoneInv'
  BY <1>1, LoneStays DEF CalmWork
<1>4. ~stray' => (DueInv /\ QueueInv /\ SaidInv)'
  BY <1>1, DueStays, QueueStays, SaidStays
<1> QED BY <1>2, <1>3, <1>4

LEMMA CalmKeeps ==
    ASSUME Base, OrderOK, Calm
    PROVE  OrderOK'
<1> USE DEF Calm
<1>1. /\ RoleInv' /\ MarkInv' /\ BoxInv'
      /\ ~stray' => (LoneInv /\ DueInv /\ QueueInv /\ SaidInv)'
  BY CalmOrder DEF CalmText, CalmSynth
<1>2. FreshInv'
  BY FreshStays DEF CalmText, OrderOK, Base
<1>3. \A f \in Flows : Rises(f)
  BY DEF CalmText, CalmSynth, Rises, OnItsWay
<1>4. \A f \in Flows : SaidKept(f) /\ BoxKept(f)
  BY DEF CalmText, SaidKept, BoxKept
<1>5. \A t \in Speakers : SayingKept(t)
  BY DEF CalmSpeech, SayingKept
<1>6. \A w \in Workers : QueueKept(w)
  BY DEF CalmText, QueueKept
<1>7. LimitInv'
  BY <1>3, <1>4, <1>5, <1>6, LimitKept DEF OrderOK, Base
<1> QED BY <1>1, <1>2, <1>7 DEF OrderOK

\* Two threads never queue sentences of one flow, and a reading has none to queue.
LEMMA OneHand ==
    ASSUME TypeOK, HandInv, NEW h \in Hands, hand[h].at # "none", NEW k \in Hands, hand[k].flow = hand[h].flow
    PROVE  k = h
<1>1. hand[h].flow \in Flows /\ 0 \notin Flows
  BY Names DEF TypeOK, SlotTypeOK, Empty
<1>2. hand[k].at # "none"
  BY <1>1 DEF TypeOK, SlotTypeOK, Empty
<1> QED BY <1>1, <1>2, Names DEF HandInv, HandOK

LEMMA HandFlow ==
    ASSUME Base, NEW h \in Hands, hand[h].flow # 0
    PROVE  /\ hand[h].at # "none" /\ hand[h].flow \in Flows
           /\ kind[hand[h].flow] = "query" /\ pc[hand[h].flow] \in {"called", "failed", "finishing"}
<1>1. hand[h].at # "none" /\ hand[h].flow \in Flows
  BY DEF Base, TypeOK, SlotTypeOK, Empty
<1>2. pc[hand[h].flow] \in {"called", "failed", "finishing"}
  BY <1>1 DEF Base, HandInv, HandOK
<1> QED BY <1>1, <1>2 DEF Base, SlotOK, KindInv, KindOK

LEMMA NoHandOf ==
    ASSUME Base, NEW f \in Flows, pc[f] = "called", hand[Reader].flow # f
    PROVE  \A k \in Hands : hand[k].flow # f
<1> SUFFICES ASSUME NEW k \in Hands, hand[k].flow = f PROVE FALSE
  OBVIOUS
<1>1. hand[k].at # "none"
  BY Names, HandFlow
<1>2. k = Reader
  BY <1>1 DEF Base, HandInv, HandOK
<1> QED BY <1>2

LEMMA QueryQuiet ==
    ASSUME Base, NEW f \in Flows, kind[f] = "query"
    PROVE  spc[f] = "none" /\ box[f] = 0 /\ saying[<<f, 0>>] = 0
BY DEF Base, RoleInv

\* A sentence of a question is the latest one and on its way, or not to be spoken.
LEMMA NewSentence ==
    ASSUME Base, OrderOK, Steady, CalmWork, CalmSpeech, CalmSlot, UNCHANGED <<said, queue, box, spc>>,
           NEW h \in Hands, NEW f \in Flows, \A k \in Hands : hand[k].flow # f, hand[h].at = "none",
           sent' = [sent EXCEPT ![f] = @ + 1], BeginSegment(h, f, sent[f] + 1)
    PROVE  OrderOK'
<1>0. TypeOK /\ FreshInv /\ LimitInv
  BY DEF Base, OrderOK
<1>1. /\ RoleInv' /\ MarkInv' /\ BoxInv'
      /\ ~stray' => (LoneInv /\ DueInv /\ QueueInv /\ SaidInv)'
  BY CalmOrder
<1>2. /\ \A k \in Hands : k # h => hand'[k] = hand[k]
      /\ (hand'[h].at = "none" /\ hand'[h].flow = 0) \/ hand'[h] = Taken(f, sent'[f])
  BY <1>0 DEF BeginSegment, Empty, Taken, TypeOK, SlotTypeOK, FlowTypeOK
<1>3. \A g \in Flows : sent'[g] = IF g = f THEN sent[f] + 1 ELSE sent[g]
  BY <1>0 DEF TypeOK, FlowTypeOK
<1>4. FreshInv'
  <2>1. \A w \in Workers : wpc'[w] = "none" => queue'[w] = <<>> /\ saying'[w] = 0
    BY <1>0, Speaking DEF CalmWork, CalmSpeech, FreshInv
  <2>2. ASSUME NEW k \in Hands, k # h, hand[k].at # "none"
        PROVE  /\ hand[k].seg = sent'[hand[k].flow]
               /\ hand[k].at = "put" => hand[k].into[1] = hand[k].flow /\ wpc'[hand[k].into] # "none"
    <3>1. hand[k].flow \in Flows /\ hand[k].flow # f /\ (hand[k].at = "put" => hand[k].into \in Workers)
      BY <1>0, <2>2 DEF TypeOK, SlotTypeOK, Empty
    <3> QED BY <1>0, <1>3, <2>2, <3>1 DEF FreshInv, CalmWork
  <2>3. hand'[h].at # "none" => hand'[h].seg = sent'[hand'[h].flow] /\ hand'[h].at # "put"
    BY <1>2 DEF Taken
  <2> QED BY <1>2, <2>1, <2>2, <2>3 DEF FreshInv
<1>5. \A g \in Flows : Rises(g)
  <2> SUFFICES ASSUME NEW g \in Flows, g # f, OnItsWay(g)'
               PROVE  OnItsWay(g)
    BY <1>3 DEF Rises
  <2>1. hand'[h].flow # g
    BY <1>2, Names DEF Taken
  <2> QED BY <1>2, <2>1 DEF OnItsWay
<1>6. \A g \in Flows : SaidKept(g) /\ BoxKept(g)
  BY DEF SaidKept, BoxKept
<1>7. \A t \in Speakers : SayingKept(t)
  BY DEF CalmSpeech, SayingKept
<1>8. \A w \in Workers : QueueKept(w)
  BY DEF QueueKept
<1>9. LimitInv'
  BY <1>0, <1>5, <1>6, <1>7, <1>8, LimitKept
<1> QED BY <1>1, <1>4, <1>9 DEF OrderOK

LEMMA ReadSentence_Order ==
    ASSUME Base, OrderOK, NEW f \in Flows, ReadSentence(f)
    PROVE  OrderOK'
<1> USE DEF Base, TypeOK, genVars, flowVars, slotVars, workerVars, readVars, audioVars, closeVars
<1>1. Steady
  BY DEF Steady, MaySpeak, ReadSentence
<1>2. CalmWork
  BY DEF CalmWork, Waiting, ReadSentence
<1>3. CalmSpeech
  BY DEF CalmSpeech, Due, Waiting, ReadSentence
<1>4. CalmSlot
  BY DEF CalmSlot, ReadSentence
<1>5. /\ UNCHANGED <<said, queue, box, spc>> /\ sent' = [sent EXCEPT ![f] = @ + 1]
      /\ BeginSegment(Reader, f, sent[f] + 1) /\ hand[Reader].at = "none" /\ pc[f] = "called"
  BY DEF ReadSentence
<1>6. \A k \in Hands : hand[k].flow # f
  <2>1. hand[Reader].flow # f
    BY <1>5, HandFlow, Names
  <2> QED BY <1>5, <2>1, NoHandOf
<1> QED BY <1>1, <1>2, <1>3, <1>4, <1>5, <1>6, NewSentence, Names

LEMMA Answer_Order ==
    ASSUME Base, OrderOK, NEW f \in Flows, Answer(f)
    PROVE  OrderOK'
<1> USE DEF Base, TypeOK, genVars, flowVars, slotVars, workerVars, readVars, audioVars, closeVars
<1>1. Steady
  BY DEF Steady, MaySpeak, FlowTypeOK, Dealt, Go, Answer
<1>2. CalmWork
  BY DEF CalmWork, Waiting, Answer
<1>3. CalmSpeech
  BY DEF CalmSpeech, Due, Waiting, Answer
<1>4. CalmSlot
  BY DEF CalmSlot, Answer
<1>5. UNCHANGED <<said, queue, box, spc>> /\ hand[Reader].flow # f /\ pc[f] = "called"
  BY DEF Answer
<1>6. CASE sent' = [sent EXCEPT ![f] = @ + 1] /\ BeginSegment(f, f, sent[f] + 1)
  <2>1. \A k \in Hands : hand[k].flow # f
    BY <1>5, NoHandOf
  <2>2. f \in Hands /\ hand[f].at = "none"
    BY <1>5, Names DEF HandInv, HandOK, SlotTypeOK, Empty
  <2> QED BY <1>1, <1>2, <1>3, <1>4, <1>5, <1>6, <2>1, <2>2, NewSentence
<1>7. CASE UNCHANGED <<sent, hand>>
  BY <1>1, <1>2, <1>3, <1>4, <1>5, <1>7, CalmKeeps DEF Calm, CalmText, CalmSynth
<1> QED BY <1>6, <1>7 DEF Answer

\* A step that leaves sentences, chunks and speakers alone, but may pass on what a thread has in hand.
LEMMA LimitStays ==
    ASSUME TypeOK, LimitInv, UNCHANGED <<said, queue, box, saying>>, \A g \in Flows : Rises(g)
    PROVE  LimitInv'
<1>1. \A g \in Flows : SaidKept(g) /\ BoxKept(g)
  BY DEF SaidKept, BoxKept
<1>2. \A t \in Speakers : SayingKept(t)
  BY DEF SayingKept
<1>3. \A w \in Workers : QueueKept(w)
  BY DEF QueueKept
<1> QED BY <1>1, <1>2, <1>3, LimitKept

LEMMA TakeSlot_Order ==
    ASSUME Base, OrderOK, NEW h \in Hands, TakeSlot(h)
    PROVE  OrderOK'
<1> DEFINE f == hand[h].flow
           w == <<f, hand[h].seg>>
<1>0. TypeOK /\ RoleInv /\ FreshInv /\ LimitInv /\ BoxInv
  BY DEF Base, OrderOK
<1>1. /\ hand[h].at = "take" /\ f \in Flows /\ w \in Workers /\ wpc[w] = "none" /\ kind[f] = "query"
      /\ hand[h].seg = sent[f]
  <2>1. hand[h].at = "take" /\ f \in Flows /\ hand[h].seg \in Sentences
    BY <1>0 DEF TakeSlot, TypeOK, SlotTypeOK, Empty
  <2>2. wpc[w] = "none" /\ hand[h].seg = sent[f]
    BY <1>0, <2>1 DEF Base, HandInv, HandOK, FreshInv
  <2> QED BY <2>1, <2>2, HandFlow, Speaking, Names
<1>2. Steady
  BY DEF Steady, MaySpeak, TakeSlot, genVars, flowVars, slotVars
<1>3. /\ UNCHANGED <<said, queue, box, saying, spc, sent, player>>
      /\ \A k \in Hands : k # h => hand'[k] = hand[k]
      /\ hand'[h].flow = f /\ hand'[h].seg = hand[h].seg /\ hand'[h].at = "put"
      /\ hand'[h].into \in {slot, w}
  BY <1>0 DEF TakeSlot, flowVars, readVars, audioVars, TypeOK, SlotTypeOK
<1>4. LimitInv'
  <2>1. \A g \in Flows : Rises(g)
    BY <1>3 DEF Rises, OnItsWay
  <2> QED BY <1>0, <1>3, <2>1, LimitStays
<1>5. ASSUME wpc'[hand'[h].into] # "none", hand'[h].into[1] = f,
             \A u \in Workers : wpc[u] # "none" => wpc'[u] # "none"
      PROVE  FreshInv'
  <2>1. ASSUME NEW k \in Hands, hand[k].at = "put"
        PROVE  hand[k].into[1] = hand[k].flow /\ wpc'[hand[k].into] # "none"
    <3>1. hand[k].into \in Workers
      BY <1>0, <2>1 DEF TypeOK, SlotTypeOK, Empty
    <3> QED BY <1>0, <1>5, <2>1, <3>1 DEF FreshInv
  <2>2. \A u \in Workers : wpc'[u] = "none" => queue'[u] = <<>> /\ saying'[u] = 0
    BY <1>0, <1>3, <1>5 DEF FreshInv
  <2>3. \A k \in Hands : hand[k].at # "none" => hand[k].seg = sent[hand[k].flow]
    BY <1>0 DEF FreshInv
  <2> QED BY <1>1, <1>3, <1>5, <2>1, <2>2, <2>3 DEF FreshInv
<1>6. CASE Owns(f)
  <2>1. UNCHANGED <<wpc, slot, pc, current, muted>> /\ hand'[h].into = slot
    BY <1>0, <1>6 DEF TakeSlot, slotVars, flowVars, genVars, TypeOK, SlotTypeOK
  <2>2. CalmWork /\ CalmSlot /\ CalmSpeech
    BY <1>3, <2>1 DEF CalmWork, CalmSlot, CalmSpeech, Waiting, Due
  <2>3. FreshInv'
    BY <1>5, <1>6, <2>1 DEF Owns, Base, SlotOK, SlotInv
  <2>4. /\ RoleInv' /\ MarkInv' /\ BoxInv'
        /\ ~stray' => (LoneInv /\ DueInv /\ QueueInv /\ SaidInv)'
    BY <1>2, <1>3, <2>2, CalmOrder
  <2> QED BY <1>4, <2>3, <2>4 DEF OrderOK
<1>7. CASE ~Owns(f)
  <2>1. /\ slot' = w /\ wpc' = [wpc EXCEPT ![w] = "guard"] /\ hand'[h].into = w
        /\ stray' = (stray \/ current # f) /\ UNCHANGED <<pc, current, muted>>
    BY <1>0, <1>7 DEF TakeSlot, flowVars, genVars, TypeOK, SlotTypeOK
  <2>2. wpc'[w] = "guard" /\ \A u \in Workers : u # w => wpc'[u] = wpc[u]
    BY <1>0, <1>1, <2>1 DEF TypeOK, SpeechTypeOK
  <2>3. queue[w] = <<>> /\ saying[w] = 0
    BY <1>0, <1>1 DEF FreshInv
  <2>4. CalmSpeech
    BY <1>3, <2>2, <2>3, Speaking DEF CalmSpeech, Due, Waiting
  <2>5. FreshInv'
    BY <1>5, <2>1, <2>2
  <2>6. RoleInv'
    <3>1. \A u \in Workers : wpc'[u] # "none" => kind[u[1]] = "query"
      BY <1>0, <1>1, <2>2 DEF RoleInv
    <3>2. \A g \in Flows : spc'[g] # "none" \/ box'[g] # 0 \/ saying'[<<g, 0>>] # 0 => kind[g] = "read"
      BY <1>0, <1>3 DEF RoleInv
    <3> QED BY <1>2, <3>1, <3>2, RoleKept
  <2>7. MarkInv'
    BY <1>3, <2>1, <2>3 DEF MarkInv, HasEnd
  <2>8. BoxInv'
    BY <1>0, <1>3, <2>4, BoxStays
  <2>9. ASSUME ~stray'
        PROVE  (LoneInv /\ DueInv /\ QueueInv /\ SaidInv)'
    <3>1. LoneInv /\ DueInv /\ SaidInv /\ current = f
      BY <2>1, <2>9 DEF OrderOK
    <3>2. LoneInv'
      <4> SUFFICES ASSUME NEW u \in Workers, Waiting(u)', u # w, MaySpeak(u[1])
                   PROVE  FALSE
        BY <2>1 DEF LoneInv, MaySpeak
      <4>1. Waiting(u) /\ u[1] = f
        BY <2>2, <3>1 DEF Waiting, MaySpeak
      <4>2. slot = u
        BY <3>1, <4>1 DEF LoneInv
      <4>3. slotGen = f /\ slot # NoWorker
        BY <4>1, <4>2, Speaking DEF Base, SlotOK, SlotInv
      <4> QED BY <1>7, <4>3 DEF Owns
    <3>3. DueInv' /\ SaidInv'
      BY <1>3, <2>4, <3>1, DueStays, SaidStays
    <3>4. QueueInv'
      BY <1>3, <2>1, <2>3 DEF QueueInv, Increases
    <3> QED BY <3>2, <3>3, <3>4
  <2> QED BY <1>4, <2>5, <2>6, <2>7, <2>8, <2>9 DEF OrderOK
<1> QED BY <1>6, <1>7

\* A queue that grows by e.
LEMMA GrownQueue ==
    ASSUME TypeOK, NEW w \in Workers, NEW e \in 1 .. End, queue' = [queue EXCEPT ![w] = Append(@, e)]
    PROVE  /\ \A u \in Workers : u # w => queue'[u] = queue[u]
           /\ queue'[w] = Append(queue[w], e) /\ queue[w] \in Seq(1 .. End) /\ queue[w] \in Seq(Nat) /\ e \in Nat
           /\ \A u \in Workers : \A i \in DOMAIN queue'[u] :
                 \/ \E j \in DOMAIN queue[u] : queue'[u][i] = queue[u][j]
                 \/ u = w /\ queue'[u][i] = e
<1>1. queue \in [Workers -> Seq(1 .. End)] /\ queue[w] \in Seq(1 .. End) /\ queue[w] \in Seq(Nat) /\ e \in Nat
  BY Numbers, Names DEF TypeOK, SpeechTypeOK
<1>2. (\A u \in Workers : u # w => queue'[u] = queue[u]) /\ queue'[w] = Append(queue[w], e)
  BY <1>1
<1>3. \A i \in DOMAIN queue'[w] :
         (\E j \in DOMAIN queue[w] : queue'[w][i] = queue[w][j]) \/ queue'[w][i] = e
  <2> DEFINE q == queue[w]
  <2>1. q \in Seq(1 .. End) /\ queue'[w] = Append(q, e)
    BY <1>1, <1>2
  <2> HIDE DEF q
  <2>2. \A i \in DOMAIN Append(q, e) : (i \in DOMAIN q /\ Append(q, e)[i] = q[i]) \/ Append(q, e)[i] = e
    BY <2>1, AppendFacts
  <2>3. \A i \in DOMAIN queue'[w] : (\E j \in DOMAIN q : queue'[w][i] = q[j]) \/ queue'[w][i] = e
    BY <2>1, <2>2
  <2> QED BY <2>3 DEF q
<1> QED BY <1>1, <1>2, <1>3

LEMMA QueueGrows ==
    ASSUME Base, Steady, CalmSlot, CalmSpeech, QueueInv, UNCHANGED said,
           NEW w \in Workers, NEW e \in 1 .. End, queue' = [queue EXCEPT ![w] = Append(@, e)],
           slot = w /\ slot' = w =>
              (\A i \in DOMAIN queue[w] : queue[w][i] < e) /\ saying[w] < e /\ SaidBelow(w[1], e)
    PROVE  QueueInv'
<1>0. TypeOK /\ (slot' # NoWorker => slot' = slot /\ slot \in Workers)
  BY SlotFlow DEF Base, CalmSlot
<1> SUFFICES ASSUME NEW u \in Workers, slot' = u, slot = u, MaySpeak(u[1])'
             PROVE  /\ Increases(queue'[u])
                    /\ \A i \in DOMAIN queue'[u] :
                          saying'[u] < queue'[u][i] /\ \A j \in DOMAIN said[u[1]] : said[u[1]][j] < queue'[u][i]
  BY <1>0 DEF QueueInv, SaidBelow, Increases
<1>1. slot # NoWorker /\ u \in Speakers /\ MaySpeak(u[1])
  BY SlotKept, Speaking
<1>2. saying'[u] \in {saying[u], 0}
  BY <1>1 DEF CalmSpeech
<1>3. \A i \in DOMAIN queue[u] : queue[u][i] \in Nat /\ 0 < queue[u][i]
  BY <1>0, Numbers
<1>4. /\ Increases(queue[u])
      /\ \A i \in DOMAIN queue[u] :
            saying[u] < queue[u][i] /\ \A j \in DOMAIN said[u[1]] : said[u[1]][j] < queue[u][i]
  BY <1>1 DEF QueueInv, SaidBelow
<1>5. CASE u # w
  <2>1. queue'[u] = queue[u]
    BY <1>0, <1>5, GrownQueue
  <2> QED BY <1>2, <1>3, <1>4, <2>1
<1>6. CASE u = w
  <2>0. End \in Nat
    BY Names
  <2>1. queue'[u] = Append(queue[u], e) /\ queue[u] \in Seq(Nat) /\ e \in Nat /\ 0 < e
    <3>1. queue'[w] = Append(queue[w], e) /\ queue[w] \in Seq(Nat)
      BY <1>0, GrownQueue
    <3>2. e \in Nat /\ 0 < e
      BY <2>0
    <3> QED BY <1>6, <3>1, <3>2
  <2>2. Increases(queue'[u])
    BY <1>4, <1>6, <2>1, AppendIncreases
  <2>3. \A i \in DOMAIN queue'[u] : (\E j \in DOMAIN queue[u] : queue'[u][i] = queue[u][j]) \/ queue'[u][i] = e
    BY <1>0, GrownQueue
  <2>4. saying'[u] < e /\ \A j \in DOMAIN said[u[1]] : said[u[1]][j] < e
    BY <1>2, <1>6, <2>1 DEF SaidBelow
  <2>5. \A j \in DOMAIN queue[u] : saying'[u] < queue[u][j]
    BY <1>2, <1>3, <1>4
  <2> QED BY <1>4, <2>2, <2>3, <2>4, <2>5
<1> QED BY <1>5, <1>6

\* What the other parts of the order need, when a queue grows.
LEMMA GrownOrder ==
    ASSUME Base, OrderOK, Steady, CalmWork, CalmSpeech, CalmSlot, UNCHANGED <<said, box, spc>>,
           NEW w \in Workers, NEW e \in 1 .. End, queue' = [queue EXCEPT ![w] = Append(@, e)],
           slot = w /\ slot' = w =>
              (\A i \in DOMAIN queue[w] : queue[w][i] < e) /\ saying[w] < e /\ SaidBelow(w[1], e)
    PROVE  /\ RoleInv' /\ BoxInv'
           /\ ~stray' => (LoneInv /\ DueInv /\ QueueInv /\ SaidInv)'
<1>1. /\ TypeOK /\ RoleInv /\ BoxInv
      /\ ~stray' => LoneInv /\ DueInv /\ QueueInv /\ SaidInv
  BY DEF Base, OrderOK, Steady
<1>2. RoleInv' /\ BoxInv'
  BY <1>1, RoleStays, BoxStays
<1>3. ~stray' => LoneInv'
  BY <1>1, LoneStays DEF CalmWork
<1>4. ~stray' => DueInv' /\ SaidInv'
  BY <1>1, DueStays, SaidStays
<1>5. ~stray' => QueueInv'
  BY <1>1, QueueGrows
<1> QED BY <1>2, <1>3, <1>4, <1>5

\* The latest sentence is on its way no more once the thread that had it in hand lets it go.
LEMMA PutBelow ==
    ASSUME Base, NEW h \in Hands, hand[h].at = "put", NEW f \in Flows, hand[h].flow = f, hand'[h] = Empty,
           \A k \in Hands : k # h => hand'[k] = hand[k], UNCHANGED <<spc, sent>>
    PROVE  Below(f, sent[f])'
<1>1. spc[f] = "none" /\ sent[f] \in Nat
  BY HandFlow, QueryQuiet, Names, Numbers DEF Base
<1>2. \A k \in Hands : k # h => hand[k].flow # f
  BY OneHand DEF Base
<1>3. \A k \in Hands : hand'[k].flow # f
  BY <1>2, Names DEF Empty
<1> QED BY <1>1, <1>3 DEF Below, OnItsWay

LEMMA PutSegment_Order ==
    ASSUME Base, OrderOK, NEW h \in Hands, PutSegment(h)
    PROVE  OrderOK'
<1> DEFINE f == hand[h].flow
           w == hand[h].into
           e == hand[h].seg
<1>0. TypeOK /\ RoleInv /\ FreshInv /\ LimitInv /\ MarkInv
  BY DEF Base, OrderOK
<1>1. /\ hand[h].at = "put" /\ f \in Flows /\ f # 0 /\ w \in Workers /\ e \in Sentences /\ e \in 1 .. End
  BY <1>0, Names DEF PutSegment, TypeOK, SlotTypeOK, Empty
<1>2. w[1] = f /\ wpc[w] # "none" /\ e = sent[f]
  BY <1>0, <1>1 DEF FreshInv
<1>3. kind[f] = "query" /\ pc[f] \notin Dealt
  BY <1>1, HandFlow DEF Dealt
<1>4. spc[f] = "none"
  BY <1>1, <1>3, QueryQuiet
<1>5. /\ UNCHANGED <<said, box, spc, saying, sent, slot, wpc, player, pc, current, muted>>
      /\ queue' = [queue EXCEPT ![w] = Append(@, e)]
      /\ hand'[h] = Empty /\ \A k \in Hands : k # h => hand'[k] = hand[k]
  BY <1>0 DEF PutSegment, genVars, flowVars, slotVars, readVars, audioVars, TypeOK, SlotTypeOK
<1>6. Steady
  BY DEF Steady, MaySpeak, PutSegment, genVars, flowVars, slotVars
<1>7. CalmWork /\ CalmSpeech /\ CalmSlot
  BY <1>5 DEF CalmWork, CalmSpeech, CalmSlot, Waiting, Due
<1>8. OnItsWay(f)
  BY DEF OnItsWay
<1>9. /\ slot = w => \A i \in DOMAIN queue[w] : queue[w][i] < e
      /\ saying[w] < e /\ SaidBelow(f, e)
  <2>1. e \in Nat /\ 0 < e
    BY <1>1, Names DEF Sentences
  <2>2. SaidBelow(f, e)
    BY <1>0, <1>1, <1>2, <1>8 DEF SaidBelow, LimitInv, Below
  <2>3. saying[w] < e
    BY <1>0, <1>1, <1>2, <1>8, <2>1, Speaking DEF LimitInv, Below
  <2>4. ASSUME slot = w, NEW i \in DOMAIN queue[w]
        PROVE  queue[w][i] < e
    <3>1. queue[w][i] # End
      BY <1>0, <1>1, <1>2, <1>3, <2>4, Speaking DEF MarkInv, HasEnd
    <3> QED BY <1>0, <1>1, <1>2, <1>8, <3>1 DEF LimitInv, Below
  <2> QED BY <2>2, <2>3, <2>4
<1>10. /\ RoleInv' /\ BoxInv'
       /\ ~stray' => (LoneInv /\ DueInv /\ QueueInv /\ SaidInv)'
  BY <1>1, <1>2, <1>5, <1>6, <1>7, <1>9, GrownOrder
<1>11. FreshInv'
  <2>1. \A u \in Workers : wpc'[u] = "none" => queue'[u] = <<>> /\ saying'[u] = 0
    <3>1. \A u \in Workers : u # w => queue'[u] = queue[u]
      BY <1>0, <1>1, <1>5, GrownQueue
    <3> QED BY <1>0, <1>2, <1>5, <3>1 DEF FreshInv
  <2> QED BY <1>0, <1>5, <2>1 DEF FreshInv, Empty
<1>12. MarkInv'
  <2> SUFFICES ASSUME NEW u \in Workers, slot = u, HasEnd(u)'
               PROVE  pc[u[1]] \in Dealt
    BY <1>0, <1>5, SlotFlow DEF MarkInv, HasEnd
  <2>1. \A i \in DOMAIN queue'[u] : (\E j \in DOMAIN queue[u] : queue'[u][i] = queue[u][j]) \/ queue'[u][i] = e
    BY <1>0, <1>1, <1>5, GrownQueue
  <2>2. HasEnd(u)
    BY <1>1, <2>1, Names DEF HasEnd
  <2> QED BY <1>0, <2>2, Speaking DEF MarkInv
<1>13. \A g \in Flows : Rises(g)
  BY <1>5, Names DEF Rises, OnItsWay, Empty
<1>15. ASSUME NEW u \in Workers
       PROVE  QueueKept(u)
  <2>1. ASSUME NEW i \in DOMAIN queue'[u], queue'[u][i] = e, u = w
        PROVE  Below(u[1], queue[u][i])'
    <3>1. u[1] \in Flows /\ hand[h].flow = u[1] /\ queue'[u][i] = sent[u[1]] /\ hand[h].at = "put"
      BY <1>1, <1>2, <2>1
    <3>2. Below(u[1], sent[u[1]])'
      BY <1>5, <3>1, PutBelow
    <3> QED BY <1>5, <3>1, <3>2 DEF Below
  <2>2. \A i \in DOMAIN queue'[u] : (\E j \in DOMAIN queue[u] : queue'[u][i] = queue[u][j]) \/ (u = w /\ queue'[u][i] = e)
    BY <1>0, <1>1, <1>5, GrownQueue
  <2> QED BY <2>1, <2>2 DEF QueueKept
<1>16. LimitInv'
  <2>1. \A g \in Flows : SaidKept(g) /\ BoxKept(g)
    BY <1>5 DEF SaidKept, BoxKept
  <2>2. \A t \in Speakers : SayingKept(t)
    BY <1>5 DEF SayingKept
  <2> QED BY <1>0, <1>13, <1>15, <2>1, <2>2, LimitKept
<1> QED BY <1>10, <1>11, <1>12, <1>16 DEF OrderOK

LEMMA FinishSequence_Order ==
    ASSUME Base, OrderOK, NEW f \in Flows, FinishSequence(f)
    PROVE  OrderOK'
<1> USE DEF genVars, flowVars, slotVars, workerVars, readVars, audioVars, closeVars
<1>0. TypeOK /\ RoleInv /\ FreshInv /\ LimitInv /\ MarkInv
  BY DEF Base, OrderOK
<1>1. Steady
  BY <1>0 DEF TypeOK, FlowTypeOK, Steady, MaySpeak, Dealt, Go, FinishSequence
<1>2. CalmWork /\ CalmSpeech /\ CalmSlot /\ CalmSynth
  BY DEF CalmWork, CalmSpeech, CalmSlot, CalmSynth, Waiting, Due, FinishSequence
<1>3. UNCHANGED <<said, box, spc, hand, sent, saying, slot, wpc>> /\ pc[f] = "finishing" /\ pc'[f] = "deciding"
  BY <1>0 DEF FinishSequence, Go, TypeOK, FlowTypeOK
<1>4. CASE UNCHANGED queue
  BY <1>1, <1>2, <1>3, <1>4, CalmKeeps DEF Calm, CalmText
<1>5. CASE Owns(f) /\ queue' = [queue EXCEPT ![slot] = Append(@, End)]
  <2>1. PICK w \in Workers : slot = w
    BY <1>0, <1>5, SlotFlow DEF Owns
  <2>2. w[1] = f /\ wpc[w] # "none"
    BY <1>5, <2>1 DEF Owns, Base, SlotOK, SlotInv
  <2>3. queue' = [queue EXCEPT ![w] = Append(@, End)] /\ End \in 1 .. End
    BY <1>5, <2>1, Names
  <2>4. /\ \A i \in DOMAIN queue[w] : queue[w][i] < End
        /\ saying[w] < End /\ SaidBelow(w[1], End)
    <3>1. \A i \in DOMAIN queue[w] : queue[w][i] # End
      BY <1>0, <1>3, <2>1, <2>2, Speaking DEF MarkInv, HasEnd, Dealt
    <3> QED BY <1>0, <3>1, Numbers, Speaking DEF SaidBelow
  <2>5. /\ RoleInv' /\ BoxInv'
        /\ ~stray' => (LoneInv /\ DueInv /\ QueueInv /\ SaidInv)'
    BY <1>1, <1>2, <1>3, <2>3, <2>4, GrownOrder
  <2>6. FreshInv'
    <3>1. \A u \in Workers : u # w => queue'[u] = queue[u]
      BY <1>0, <2>3, GrownQueue
    <3> QED BY <1>0, <1>2, <1>3, <2>2, <3>1, FreshStays
  <2>7. MarkInv'
    BY <1>3, <2>1, <2>2 DEF MarkInv, Dealt
  <2>8. LimitInv'
    <3>1. \A g \in Flows : Rises(g) /\ SaidKept(g) /\ BoxKept(g)
      BY <1>3 DEF Rises, OnItsWay, SaidKept, BoxKept
    <3>2. \A t \in Speakers : SayingKept(t)
      BY <1>3 DEF SayingKept
    <3>3. \A u \in Workers : QueueKept(u)
      BY <1>0, <2>3, GrownQueue DEF QueueKept
    <3> QED BY <1>0, <3>1, <3>2, <3>3, LimitKept
  <2> QED BY <2>5, <2>6, <2>7, <2>8 DEF OrderOK
<1> QED BY <1>4, <1>5 DEF FinishSequence

LEMMA CancelSequence_Order ==
    ASSUME Base, OrderOK, CancelSequence
    PROVE  OrderOK'
<1> USE DEF genVars, flowVars, slotVars, workerVars, readVars, audioVars, closeVars
<1>0. TypeOK /\ RoleInv /\ FreshInv /\ LimitInv /\ MarkInv
  BY DEF Base, OrderOK
<1>1. Steady
  BY DEF Steady, MaySpeak, CancelSequence
<1>2. CalmWork /\ CalmSpeech /\ CalmSynth
  BY DEF CalmWork, CalmSpeech, CalmSynth, Waiting, Due, CancelSequence
<1>3. UNCHANGED <<said, box, spc, hand, sent, saying, wpc, current, muted>> /\ closer = "cancel"
  BY DEF CancelSequence
<1>4. CASE ~Owns(closeGen)
  <2>1. UNCHANGED <<queue, slot>>
    BY <1>4 DEF CancelSequence
  <2> QED BY <1>1, <1>2, <1>3, <2>1, CalmKeeps DEF Calm, CalmText, CalmSlot
<1>5. CASE Owns(closeGen)
  <2>1. PICK w \in Workers : slot = w
    BY <1>0, <1>5, SlotFlow DEF Owns
  <2>2. /\ slot' = NoWorker /\ queue' = [queue EXCEPT ![w] = Append(@, End)] /\ End \in 1 .. End
        /\ NoWorker # w
    BY <1>5, <2>1, Names, Speaking DEF CancelSequence
  <2>3. wpc[w] # "none" /\ muted = w[1]
    BY <1>3, <1>5, <2>1 DEF Owns, Base, SlotOK, SlotInv, CloserInv
  <2>4. CalmSlot
    BY <1>3, <2>1, <2>2, <2>3 DEF CalmSlot, MaySpeak
  <2>5. /\ RoleInv' /\ BoxInv'
        /\ ~stray' => (LoneInv /\ DueInv /\ QueueInv /\ SaidInv)'
    BY <1>1, <1>2, <1>3, <2>2, <2>4, GrownOrder
  <2>6. FreshInv'
    <3>1. \A u \in Workers : u # w => queue'[u] = queue[u]
      BY <1>0, <2>2, GrownQueue
    <3> QED BY <1>0, <1>2, <1>3, <2>3, <3>1, FreshStays
  <2>7. MarkInv'
    BY <2>2 DEF MarkInv
  <2>8. LimitInv'
    <3>1. \A g \in Flows : Rises(g) /\ SaidKept(g) /\ BoxKept(g)
      BY <1>3 DEF Rises, OnItsWay, SaidKept, BoxKept
    <3>2. \A t \in Speakers : SayingKept(t)
      BY <1>3 DEF SayingKept
    <3>3. \A u \in Workers : QueueKept(u)
      BY <1>0, <2>2, GrownQueue DEF QueueKept
    <3> QED BY <1>0, <3>1, <3>2, <3>3, LimitKept
  <2> QED BY <2>5, <2>6, <2>7, <2>8 DEF OrderOK
<1> QED BY <1>4, <1>5

\* A worker that takes the next of its queue.
LEMMA ShrunkQueue ==
    ASSUME TypeOK, NEW w \in Workers, queue[w] # <<>>, queue' = [queue EXCEPT ![w] = Tail(@)]
    PROVE  /\ \A u \in Workers : u # w => queue'[u] = queue[u]
           /\ queue'[w] = Tail(queue[w]) /\ queue[w] \in Seq(Nat)
           /\ 1 \in DOMAIN queue[w] /\ Head(queue[w]) = queue[w][1] /\ queue[w][1] \in Sentences \cup {End}
           /\ \A u \in Workers : \A i \in DOMAIN queue'[u] :
                 \E j \in DOMAIN queue[u] : queue'[u][i] = queue[u][j]
<1>1. queue \in [Workers -> Seq(1 .. End)] /\ queue[w] \in Seq(1 .. End) /\ queue[w] \in Seq(Nat)
  BY Numbers DEF TypeOK, SpeechTypeOK
<1>2. (\A u \in Workers : u # w => queue'[u] = queue[u]) /\ queue'[w] = Tail(queue[w])
  BY <1>1
<1> DEFINE q == queue[w]
<1>3. q \in Seq(1 .. End) /\ q # <<>> /\ queue'[w] = Tail(q)
  BY <1>1, <1>2
<1> HIDE DEF q
<1>4. /\ 1 \in DOMAIN q /\ Head(q) = q[1] /\ q[1] \in Sentences \cup {End}
      /\ \A i \in DOMAIN queue'[w] : \E j \in DOMAIN q : queue'[w][i] = q[j]
  <2>1. /\ 1 \in DOMAIN q /\ Head(q) = q[1] /\ Head(q) \in 1 .. End
        /\ \A i \in DOMAIN Tail(q) : i + 1 \in DOMAIN q /\ Tail(q)[i] = q[i + 1]
    BY <1>3, TailFacts
  <2> QED BY <1>3, <2>1, Names
<1> QED BY <1>1, <1>2, <1>4 DEF q

LEMMA QueueShrinks ==
    ASSUME Base, QueueInv, UNCHANGED <<said, slot, current, muted>>, NEW w \in Workers, queue[w] # <<>>,
           queue' = [queue EXCEPT ![w] = Tail(@)],
           saying'[w] \in {saying[w], Head(queue[w])}, \A u \in Workers : u # w => saying'[u] = saying[u]
    PROVE  QueueInv'
<1>0. TypeOK /\ (slot # NoWorker => slot \in Workers)
  BY SlotFlow DEF Base
<1> SUFFICES ASSUME NEW u \in Workers, slot = u, MaySpeak(u[1])
             PROVE  /\ Increases(queue'[u])
                    /\ \A i \in DOMAIN queue'[u] :
                          saying'[u] < queue'[u][i] /\ \A j \in DOMAIN said[u[1]] : said[u[1]][j] < queue'[u][i]
  BY <1>0 DEF QueueInv, SaidBelow, Increases, MaySpeak
<1>1. /\ Increases(queue[u])
      /\ \A i \in DOMAIN queue[u] :
            saying[u] < queue[u][i] /\ \A j \in DOMAIN said[u[1]] : said[u[1]][j] < queue[u][i]
  BY Speaking DEF QueueInv, SaidBelow
<1>2. CASE u # w
  <2>1. queue'[u] = queue[u] /\ saying'[u] = saying[u]
    BY <1>0, <1>2, ShrunkQueue
  <2> QED BY <1>1, <2>1
<1>3. CASE u = w
  <2>1. queue'[u] = Tail(queue[u]) /\ queue[u] \in Seq(Nat) /\ queue[u] # <<>>
    BY <1>0, <1>3, ShrunkQueue
  <2>2. Increases(queue'[u]) /\ \A i \in DOMAIN queue'[u] : Head(queue[u]) < queue'[u][i]
    BY <1>1, <2>1, TailIncreases
  <2>3. \A i \in DOMAIN queue'[u] : \E j \in DOMAIN queue[u] : queue'[u][i] = queue[u][j]
    BY <1>0, ShrunkQueue
  <2>4. \A i \in DOMAIN queue'[u] : saying'[u] < queue'[u][i]
    BY <1>1, <1>3, <2>2, <2>3
  <2> QED BY <1>1, <2>2, <2>3, <2>4
<1> QED BY <1>2, <1>3

\* Who is about to speak for a question has its slot, or the question is gone.
LEMMA LoneSpeaker ==
    ASSUME Base, LoneInv, NEW w \in Workers, Waiting(w), MaySpeak(w[1]), NEW u \in Speakers, u[1] = w[1],
           saying[u] # 0, u \in Workers => Waiting(u)
    PROVE  u = w
<1>1. kind[w[1]] = "query" /\ w[1] \in Flows
  BY Speaking DEF Base, RoleInv, Waiting
<1>2. u \in Workers
  BY <1>1, Speaking, QueryQuiet
<1> QED BY <1>2 DEF LoneInv

LEMMA WorkerGet_Order ==
    ASSUME Base, OrderOK, NEW w \in Workers, WorkerGet(w)
    PROVE  OrderOK'
<1> USE DEF genVars, flowVars, slotVars, workerVars, readVars, audioVars, closeVars
<1>0. TypeOK /\ RoleInv /\ FreshInv /\ LimitInv /\ MarkInv /\ BoxInv
  BY DEF Base, OrderOK
<1>1. /\ wpc[w] = "get" /\ queue[w] # <<>> /\ queue' = [queue EXCEPT ![w] = Tail(@)]
      /\ UNCHANGED <<said, box, spc, hand, sent, slot, current, muted, player, kind, pc, stray>>
      /\ wpc'[w] \in {"synth", "leave"}
      /\ \A u \in Workers : u # w => wpc'[u] = wpc[u]
      /\ \A t \in Speakers : t # w => saying'[t] = saying[t]
      /\ saying'[w] \in {saying[w], Head(queue[w])}
  BY <1>0, Speaking DEF WorkerGet, TypeOK, SpeechTypeOK
<1>2. /\ wpc'[w] = "synth" => MaySpeak(w[1]) /\ saying'[w] = Head(queue[w]) /\ Head(queue[w]) # End
      /\ wpc'[w] # "synth" => saying'[w] = saying[w]
  <2>1. CASE Head(queue[w]) # End /\ MaySpeak(w[1])
    BY <1>0, <2>1, Speaking DEF WorkerGet, TypeOK, SpeechTypeOK
  <2>2. CASE ~(Head(queue[w]) # End /\ MaySpeak(w[1]))
    BY <1>0, <2>2 DEF WorkerGet, TypeOK, SpeechTypeOK
  <2> QED BY <2>1, <2>2
<1>3. Steady /\ CalmWork /\ CalmSlot
  BY <1>1 DEF Steady, MaySpeak, CalmWork, CalmSlot, Waiting
<1>4. RoleInv'
  <2>1. \A g \in Flows : spc'[g] # "none" \/ box'[g] # 0 \/ saying'[<<g, 0>>] # 0 => kind[g] = "read"
    BY <1>0, <1>1, Speaking DEF RoleInv
  <2>2. \A u \in Workers : wpc'[u] # "none" => kind[u[1]] = "query"
    BY <1>0, <1>3 DEF CalmWork, RoleInv
  <2> QED BY <1>3, <2>1, <2>2, RoleKept
<1>5. FreshInv'
  <2>1. \A u \in Workers : wpc'[u] = "none" => queue'[u] = <<>> /\ saying'[u] = 0
    <3> SUFFICES ASSUME NEW u \in Workers, wpc'[u] = "none" PROVE queue'[u] = <<>> /\ saying'[u] = 0
      OBVIOUS
    <3>1. u # w /\ queue'[u] = queue[u]
      BY <1>0, <1>1, ShrunkQueue
    <3> QED BY <1>0, <1>1, <3>1, Speaking DEF FreshInv
  <2>2. ASSUME NEW h \in Hands, hand[h].at = "put"
        PROVE  wpc'[hand[h].into] # "none"
    <3>1. hand[h].into \in Workers
      BY <1>0, <2>2 DEF TypeOK, SlotTypeOK, Empty
    <3> QED BY <1>0, <1>3, <2>2, <3>1 DEF CalmWork, FreshInv
  <2> QED BY <1>0, <1>1, <2>1, <2>2 DEF FreshInv
<1>6. MarkInv'
  <2> SUFFICES ASSUME NEW u \in Workers, slot = u, HasEnd(u)'
               PROVE  pc[u[1]] \in Dealt
    BY <1>0, <1>1, SlotFlow DEF MarkInv, HasEnd
  <2>1. HasEnd(u)
    <3>1. PICK i \in DOMAIN queue'[u] : queue'[u][i] = End
      BY DEF HasEnd
    <3>2. \E j \in DOMAIN queue[u] : queue'[u][i] = queue[u][j]
      BY <1>0, <1>1, <3>1, ShrunkQueue
    <3> QED BY <3>1, <3>2 DEF HasEnd
  <2> QED BY <1>0, <2>1, Speaking DEF MarkInv
<1>7. LimitInv'
  <2>1. \A g \in Flows : Rises(g) /\ SaidKept(g) /\ BoxKept(g)
    BY <1>1 DEF Rises, OnItsWay, SaidKept, BoxKept
  <2>2. \A u \in Workers : QueueKept(u)
    BY <1>0, <1>1, ShrunkQueue DEF QueueKept
  <2>3. ASSUME NEW t \in Speakers
        PROVE  SayingKept(t)
    <3>1. CASE saying'[t] = saying[t]
      BY <3>1 DEF SayingKept
    <3>2. CASE t = w /\ saying'[w] = Head(queue[w]) /\ Head(queue[w]) # End
      <4>1. 1 \in DOMAIN queue[w] /\ Head(queue[w]) = queue[w][1]
        BY <1>0, <1>1, ShrunkQueue
      <4>3. Below(w[1], queue[w][1]) /\ saying'[w] = queue[w][1]
        BY <1>0, <3>2, <4>1 DEF LimitInv
      <4>2. Below(w[1], saying[w])'
        BY <1>1, <4>3 DEF Below, OnItsWay
      <4> QED BY <3>2, <4>2 DEF SayingKept
    <3> QED BY <1>1, <1>2, <3>1, <3>2
  <2> QED BY <1>0, <2>1, <2>2, <2>3, LimitKept
<1>8. BoxInv'
  BY <1>0, <1>1, Speaking DEF BoxInv, SaidBelow
<1>9. ASSUME ~stray'
      PROVE  (LoneInv /\ DueInv /\ QueueInv /\ SaidInv)'
  <2>0. LoneInv /\ DueInv /\ QueueInv /\ SaidInv
    BY <1>1, <1>9 DEF OrderOK
  <2>1. LoneInv'
    BY <1>3, <2>0, LoneStays DEF CalmWork
  <2>2. QueueInv'
    BY <1>1, <2>0, QueueShrinks, Speaking
  <2>3. SaidInv'
    BY <1>1, <2>0, SaidStays
  <2>4. ASSUME NEW t \in Speakers, t # w, Due(t)'
        PROVE  Due(t)
    BY <1>1, <2>4 DEF Due, Waiting
  <2>5. DueInv'
    <3>1. CASE wpc'[w] # "synth"
      <4>1. ~Due(w)'
        BY <1>1, <3>1 DEF Due, Waiting
      <4> QED BY <1>1, <2>0, <2>4, <4>1 DEF DueInv, SaidBelow
    <3>2. CASE wpc'[w] = "synth"
      <4>1. MaySpeak(w[1]) /\ Waiting(w) /\ saying'[w] = Head(queue[w]) /\ slot = w
        BY <1>1, <1>2, <2>0, <3>2 DEF Waiting, LoneInv
      <4>2. SaidBelow(w[1], saying[w])'
        <5>1. Head(queue[w]) = queue[w][1] /\ 1 \in DOMAIN queue[w]
          BY <1>0, <1>1, ShrunkQueue
        <5> QED BY <1>1, <2>0, <4>1, <5>1, Speaking DEF QueueInv, SaidBelow
      <4>3. \A u \in Speakers : u[1] = w[1] /\ Due(u)' => u = w
        BY <1>1, <2>0, <2>4, <4>1, LoneSpeaker DEF Due
      <4>4. \A t \in Speakers : t # w /\ Due(t)' => t[1] # w[1] /\ Due(t)
        BY <2>4, <4>3
      <4>5. ASSUME NEW t \in Speakers, t # w, Due(t)'
            PROVE  /\ SaidBelow(t[1], saying[t])'
                   /\ \A u \in Speakers : u[1] = t[1] /\ Due(u)' => u = t
        <5>1. t[1] # w[1] /\ Due(t) /\ saying'[t] = saying[t]
          BY <1>1, <4>4, <4>5
        <5>2. SaidBelow(t[1], saying[t])'
          BY <1>1, <2>0, <5>1 DEF DueInv, SaidBelow
        <5>3. \A u \in Speakers : u[1] = t[1] /\ Due(u)' => u # w /\ Due(u)
          BY <2>4, <5>1
        <5> QED BY <2>0, <5>1, <5>2, <5>3 DEF DueInv
      <4> QED BY <4>2, <4>3, <4>5 DEF DueInv
    <3> QED BY <3>1, <3>2
  <2> QED BY <2>1, <2>2, <2>3, <2>5
<1> QED BY <1>4, <1>5, <1>6, <1>7, <1>8, <1>9 DEF OrderOK

\* The thread that synthesizes works for a reading, whose sentences no thread queues.
LEMMA Ahead ==
    ASSUME Base, NEW f \in Flows, kind[f] = "read"
    PROVE  \A h \in Hands : hand[h].flow # f
<1> SUFFICES ASSUME NEW h \in Hands, hand[h].flow = f PROVE FALSE
  OBVIOUS
<1>1. kind[f] = "query"
  BY HandFlow, Names
<1> QED BY <1>1

LEMMA Synthesize_Order ==
    ASSUME Base, OrderOK, NEW f \in Flows, Synthesize(f)
    PROVE  OrderOK'
<1> USE DEF genVars, flowVars, slotVars, workerVars, readVars, audioVars, closeVars
<1>0. TypeOK /\ RoleInv /\ FreshInv /\ LimitInv
  BY DEF Base, OrderOK
<1>1. spc[f] # "none" /\ kind[f] = "read"
  BY <1>0 DEF Synthesize, RoleInv
<1>2. Steady /\ CalmWork /\ CalmSpeech /\ CalmSlot
  BY DEF Steady, MaySpeak, CalmWork, CalmSpeech, CalmSlot, Waiting, Due, Synthesize
<1>3. /\ UNCHANGED <<said, queue, box, saying, hand, wpc>>
      /\ \A g \in Flows : g # f => spc'[g] = spc[g] /\ sent'[g] = sent[g]
      /\ sent'[f] = sent[f] + 1 \/ (sent'[f] = sent[f] /\ (spc'[f] \in {"synth", "put"} => spc[f] \in {"synth", "put"}))
  BY <1>0 DEF Synthesize, TypeOK, SpeechTypeOK, FlowTypeOK
<1>4. /\ RoleInv' /\ MarkInv' /\ BoxInv'
      /\ ~stray' => (LoneInv /\ DueInv /\ QueueInv /\ SaidInv)'
  BY <1>1, <1>2, <1>3, CalmOrder
<1>5. FreshInv'
  <2>1. ASSUME NEW h \in Hands, hand[h].at # "none"
        PROVE  sent'[hand[h].flow] = sent[hand[h].flow]
    <3>1. hand[h].flow \in Flows /\ hand[h].flow # f
      BY <1>0, <1>1, <2>1, Ahead DEF TypeOK, SlotTypeOK, Empty
    <3> QED BY <1>3, <3>1
  <2> QED BY <1>0, <1>3, <2>1 DEF FreshInv
<1>6. \A g \in Flows : Rises(g)
  BY <1>3 DEF Rises, OnItsWay
<1>7. LimitInv'
  BY <1>0, <1>3, <1>6, LimitStays
<1> QED BY <1>4, <1>5, <1>7 DEF OrderOK

LEMMA PutSynthResult_Order ==
    ASSUME Base, OrderOK, NEW f \in Flows, PutSynthResult(f)
    PROVE  OrderOK'
<1> USE DEF genVars, flowVars, slotVars, workerVars, readVars, audioVars, closeVars
<1>0. TypeOK /\ RoleInv /\ FreshInv /\ LimitInv /\ MarkInv /\ BoxInv
  BY DEF Base, OrderOK
<1>1. spc[f] # "none" /\ kind[f] = "read" /\ \A h \in Hands : hand[h].flow # f
  BY <1>0, Ahead DEF PutSynthResult, RoleInv
<1>2. Steady /\ CalmWork /\ CalmSpeech /\ CalmSlot
  BY DEF Steady, MaySpeak, CalmWork, CalmSpeech, CalmSlot, Waiting, Due, PutSynthResult
<1>3. /\ UNCHANGED <<said, queue, saying, hand, wpc, sent>>
      /\ \A g \in Flows : g # f => spc'[g] = spc[g] /\ box'[g] = box[g]
      /\ spc'[f] \notin {"synth", "put"}
  BY <1>0 DEF PutSynthResult, AfterPut, TypeOK, SpeechTypeOK
<1>4. CASE UNCHANGED box
  BY <1>1, <1>2, <1>3, <1>4, CalmKeeps DEF Calm, CalmText, CalmSynth
<1>5. CASE box'[f] = IF spc[f] = "put" THEN sent[f] ELSE End
  <2>1. RoleInv'
    <3>1. \A g \in Flows : spc'[g] # "none" \/ box'[g] # 0 \/ saying'[<<g, 0>>] # 0 => kind[g] = "read"
      BY <1>0, <1>1, <1>3 DEF RoleInv
    <3>2. \A u \in Workers : wpc'[u] # "none" => kind[u[1]] = "query"
      BY <1>0, <1>3 DEF RoleInv
    <3> QED BY <1>2, <3>1, <3>2, RoleKept
  <2>2. FreshInv'
    BY <1>0, <1>2, <1>3, FreshStays
  <2>3. MarkInv'
    BY <1>0, <1>2, <1>3, MarkStays
  <2>4. ASSUME NEW g \in Flows
        PROVE  BoxKept(g)
    <3>1. CASE g # f \/ box'[f] = End
      BY <1>3, <3>1 DEF BoxKept
    <3>2. CASE g = f /\ box'[f] = sent[f]
      <4>1. sent[f] \in Nat /\ ~OnItsWay(f)'
        BY <1>0, <1>1, <1>3, Numbers DEF OnItsWay
      <4>2. Below(f, sent[f])'
        BY <1>3, <4>1 DEF Below
      <4> QED BY <1>3, <3>2, <4>2 DEF BoxKept, Below
    <3> QED BY <1>5, <3>1, <3>2
  <2>5. LimitInv'
    <3>1. \A g \in Flows : Rises(g)
      BY <1>3 DEF Rises, OnItsWay
    <3>2. \A g \in Flows : SaidKept(g)
      BY <1>3 DEF SaidKept
    <3>3. \A t \in Speakers : SayingKept(t)
      BY <1>3 DEF SayingKept
    <3>4. \A w \in Workers : QueueKept(w)
      BY <1>3 DEF QueueKept
    <3> QED BY <1>0, <2>4, <3>1, <3>2, <3>3, <3>4, LimitKept
  <2>6. BoxInv'
    <3> SUFFICES ASSUME NEW g \in Flows, box'[g] # 0
                 PROVE  saying[<<g, 0>>] < box'[g] /\ \A i \in DOMAIN said[g] : said[g][i] < box'[g]
      BY <1>3 DEF BoxInv, SaidBelow
    <3>1. CASE g # f
      BY <1>0, <1>3, <3>1 DEF BoxInv, SaidBelow
    <3>2. CASE g = f /\ spc[f] # "put"
      BY <1>0, <1>5, <3>2, Numbers, Speaking
    <3>3. CASE g = f /\ spc[f] = "put"
      <4>1. OnItsWay(f) /\ box'[f] = sent[f]
        BY <1>5, <3>3 DEF OnItsWay
      <4>2. \A i \in DOMAIN said[f] : said[f][i] < sent[f]
        BY <1>0, <4>1 DEF LimitInv, Below
      <4>3. saying[<<f, 0>>] < sent[f]
        <5>1. CASE saying[<<f, 0>>] = 0
          BY <1>0, <3>3, <4>1, <5>1, Numbers
        <5>2. CASE saying[<<f, 0>>] # 0
          BY <1>0, <4>1, <5>2, Speaking DEF LimitInv, Below
        <5> QED BY <5>1, <5>2
      <4> QED BY <3>3, <4>1, <4>2, <4>3
    <3> QED BY <3>1, <3>2, <3>3
  <2>7. ASSUME ~stray'
        PROVE  (LoneInv /\ DueInv /\ QueueInv /\ SaidInv)'
    <3>1. LoneInv /\ DueInv /\ QueueInv /\ SaidInv
      BY <1>2, <2>7 DEF OrderOK, Steady
    <3>2. LoneInv'
      BY <1>2, <3>1, LoneStays DEF CalmWork
    <3> QED BY <1>2, <1>3, <3>1, <3>2, DueStays, QueueStays, SaidStays
  <2> QED BY <2>1, <2>2, <2>3, <2>5, <2>6, <2>7 DEF OrderOK
<1>6. UNCHANGED box \/ box'[f] = IF spc[f] = "put" THEN sent[f] ELSE End
  BY <1>0 DEF PutSynthResult, TypeOK, SpeechTypeOK
<1> QED BY <1>4, <1>5, <1>6

LEMMA GetChunk_Order ==
    ASSUME Base, OrderOK, NEW f \in Flows, GetChunk(f)
    PROVE  OrderOK'
<1> USE DEF genVars, flowVars, slotVars, workerVars, readVars, audioVars, closeVars
<1> DEFINE t == <<f, 0>>
<1>0. TypeOK /\ RoleInv /\ FreshInv /\ LimitInv /\ MarkInv /\ BoxInv
  BY DEF Base, OrderOK
<1>1. pc[f] = "get" /\ kind[f] = "read" /\ t \in Speakers /\ t \notin Workers
  BY Speaking DEF GetChunk, Base, SlotOK, KindInv, KindOK
<1>2. Steady /\ CalmWork /\ CalmSlot
  BY <1>0 DEF Steady, MaySpeak, CalmWork, CalmSlot, Waiting, Dealt, Go, GetChunk, TypeOK, FlowTypeOK
<1>3. /\ UNCHANGED <<said, queue, hand, wpc, sent, spc, slot, stray, current, muted, player>>
      /\ \A g \in Flows : box'[g] \in {box[g], 0}
      /\ \A u \in Speakers : u # t => saying'[u] = saying[u]
  BY <1>0, <1>1 DEF GetChunk, TypeOK, SpeechTypeOK
<1>4. CASE saying' = saying
  <2>1. CalmSpeech
    BY <1>3, <1>4 DEF CalmSpeech, Due, Waiting
  <2>2. /\ RoleInv' /\ MarkInv' /\ BoxInv'
        /\ ~stray' => (LoneInv /\ DueInv /\ QueueInv /\ SaidInv)'
    BY <1>2, <1>3, <2>1, CalmOrder
  <2>3. FreshInv'
    BY <1>0, <1>2, <1>3, <2>1, FreshStays
  <2>4. LimitInv'
    <3>1. \A g \in Flows : Rises(g) /\ SaidKept(g) /\ BoxKept(g)
      BY <1>3 DEF Rises, OnItsWay, SaidKept, BoxKept
    <3>2. \A u \in Speakers : SayingKept(u)
      BY <1>4 DEF SayingKept
    <3>3. \A w \in Workers : QueueKept(w)
      BY <1>3 DEF QueueKept
    <3> QED BY <1>0, <3>1, <3>2, <3>3, LimitKept
  <2> QED BY <2>2, <2>3, <2>4 DEF OrderOK
<1>5. CASE /\ box[f] \notin {0, End} /\ box'[f] = 0 /\ \A g \in Flows : g # f => box'[g] = box[g]
           /\ saying'[t] = box[f]
  <2>1. RoleInv'
    <3>1. \A g \in Flows : spc'[g] # "none" \/ box'[g] # 0 \/ saying'[<<g, 0>>] # 0 => kind[g] = "read"
      BY <1>0, <1>1, <1>3, Speaking DEF RoleInv
    <3>2. \A w \in Workers : wpc'[w] # "none" => kind[w[1]] = "query"
      BY <1>0, <1>3 DEF RoleInv
    <3> QED BY <1>2, <3>1, <3>2, RoleKept
  <2>2. FreshInv'
    BY <1>0, <1>1, <1>3, Speaking DEF FreshInv
  <2>3. MarkInv'
    BY <1>0, <1>2, <1>3, MarkStays
  <2>4. LimitInv'
    <3>1. \A g \in Flows : Rises(g) /\ SaidKept(g) /\ BoxKept(g)
      BY <1>3 DEF Rises, OnItsWay, SaidKept, BoxKept
    <3>2. ASSUME NEW u \in Speakers
          PROVE  SayingKept(u)
      <4>1. CASE u = t
        <5>1. Below(f, box[f])
          BY <1>0, <1>5 DEF LimitInv
        <5>2. saying'[u] = box[f] /\ u[1] = f
          BY <1>5, <4>1
        <5>3. Below(u[1], saying[u])'
          BY <1>3, <5>1, <5>2 DEF Below, OnItsWay
        <5> QED BY <5>3 DEF SayingKept
      <4>2. CASE u # t
        BY <1>3, <4>2 DEF SayingKept
      <4> QED BY <4>1, <4>2
    <3>3. \A w \in Workers : QueueKept(w)
      BY <1>3 DEF QueueKept
    <3> QED BY <1>0, <3>1, <3>2, <3>3, LimitKept
  <2>5. BoxInv'
    <3>1. \A g \in Flows : g # f => saying'[<<g, 0>>] = saying[<<g, 0>>]
      BY <1>3, Speaking
    <3> QED BY <1>0, <1>3, <1>5, <3>1 DEF BoxInv, SaidBelow
  <2>6. ASSUME ~stray'
        PROVE  (LoneInv /\ DueInv /\ QueueInv /\ SaidInv)'
    <3>1. LoneInv /\ DueInv /\ QueueInv /\ SaidInv
      BY <1>3, <2>6 DEF OrderOK
    <3>2. LoneInv' /\ SaidInv'
      BY <1>2, <1>3, <3>1, LoneStays, SaidStays DEF CalmWork
    <3>3. QueueInv'
      <4>1. slot # NoWorker => slot \in Workers /\ slot \in Speakers /\ slot # t
        BY <1>0, <1>1, SlotFlow, Speaking
      <4> QED BY <1>3, <3>1, <4>1 DEF QueueInv, SaidBelow, Increases, MaySpeak
    <3>4. DueInv'
      <4>1. ASSUME NEW u \in Speakers, u # t
            PROVE  Due(u)' => Due(u) /\ saying'[u] = saying[u]
        BY <1>3, <4>1 DEF Due, Waiting
      <4>2. SaidBelow(f, saying[t])'
        BY <1>0, <1>3, <1>5 DEF BoxInv, SaidBelow
      <4>3. ASSUME NEW u \in Speakers, u # t, u[1] = f, Due(u)
            PROVE  FALSE
        <5>1. u \in Workers /\ Waiting(u)
          BY <4>3, Speaking DEF Due
        <5> QED BY <1>0, <1>1, <4>3, <5>1 DEF RoleInv, Waiting
      <4>4. ASSUME NEW u \in Speakers, Due(u)'
            PROVE  /\ SaidBelow(u[1], saying[u])'
                   /\ \A v \in Speakers : v[1] = u[1] /\ Due(v)' => v = u
        <5>1. CASE u = t
          BY <4>1, <4>2, <4>3, <5>1
        <5>2. CASE u # t
          <6>1. u[1] # f /\ Due(u) /\ saying'[u] = saying[u]
            BY <4>1, <4>3, <4>4, <5>2
          <6>2. SaidBelow(u[1], saying[u])'
            BY <1>3, <3>1, <6>1 DEF DueInv, SaidBelow
          <6>3. \A v \in Speakers : v[1] = u[1] /\ Due(v)' => Due(v)
            BY <4>1, <6>1
          <6> QED BY <3>1, <6>1, <6>2, <6>3 DEF DueInv
        <5> QED BY <5>1, <5>2
      <4> QED BY <4>4 DEF DueInv
    <3> QED BY <3>2, <3>3, <3>4
  <2> QED BY <2>1, <2>2, <2>3, <2>4, <2>5, <2>6 DEF OrderOK
<1>6. \/ saying' = saying
      \/ /\ box[f] \notin {0, End} /\ box'[f] = 0 /\ \A g \in Flows : g # f => box'[g] = box[g]
         /\ saying'[t] = box[f]
  BY <1>0, <1>1 DEF GetChunk, TypeOK, SpeechTypeOK
<1> QED BY <1>4, <1>5, <1>6

\* What is said grows by e.
LEMMA GrownSaid ==
    ASSUME TypeOK, NEW f \in Flows, NEW e \in Nat, said' = [said EXCEPT ![f] = Append(@, e)]
    PROVE  /\ \A g \in Flows : g # f => said'[g] = said[g]
           /\ Increases(said[f]) /\ SaidBelow(f, e) => Increases(said'[f])
           /\ \A i \in DOMAIN said'[f] :
                 \/ i \in DOMAIN said[f] /\ said'[f][i] = said[f][i]
                 \/ said'[f][i] = e
<1>1. said[f] \in Seq(Nat) /\ \A g \in Flows : g # f => said'[g] = said[g]
  BY Numbers DEF TypeOK, AudioTypeOK
<1>2. said'[f] = Append(said[f], e)
  BY DEF TypeOK, AudioTypeOK
<1> DEFINE q == said[f]
<1>3. q \in Seq(Nat) /\ said'[f] = Append(q, e)
  BY <1>1, <1>2
<1> HIDE DEF q
<1>4. \A i \in DOMAIN Append(q, e) : (i \in DOMAIN q /\ Append(q, e)[i] = q[i]) \/ Append(q, e)[i] = e
  BY <1>3, AppendFacts
<1>5. Increases(q) /\ (\A i \in DOMAIN q : q[i] < e) => Increases(Append(q, e))
  BY <1>3, AppendIncreases
<1> QED BY <1>1, <1>3, <1>4, <1>5 DEF q, SaidBelow

LEMMA StartPlay_Order ==
    ASSUME Base, OrderOK, NEW t \in Speakers, StartPlay(t)
    PROVE  OrderOK'
<1> USE DEF genVars, flowVars, slotVars, workerVars, readVars, audioVars, closeVars
<1> DEFINE f == t[1]
           e == saying[t]
<1>0. TypeOK /\ RoleInv /\ FreshInv /\ LimitInv /\ MarkInv /\ BoxInv /\ f \in Flows /\ e \in Nat
  BY Speaking, Numbers DEF Base, OrderOK
<1>1. Steady /\ CalmWork /\ CalmSlot /\ CalmSynth
  BY DEF Steady, MaySpeak, CalmWork, CalmSlot, CalmSynth, Waiting, StartPlay
<1>2. /\ UNCHANGED <<queue, box, hand, sent, saying, slot, wpc, spc, current, muted, stray>>
      /\ player[t] = "cleared" /\ player'[t] = "playing"
      /\ \A u \in Speakers : u # t => player'[u] = player[u]
  BY <1>0 DEF StartPlay, TypeOK, AudioTypeOK
<1>3. CalmSpeech
  BY <1>2 DEF CalmSpeech, Due, Waiting
<1>4. CASE e = 0
  <2>1. UNCHANGED said
    BY <1>0, <1>4 DEF StartPlay, TypeOK, AudioTypeOK
  <2> QED BY <1>1, <1>2, <1>3, <2>1, CalmKeeps DEF Calm, CalmText
<1>5. CASE e # 0
  <2>1. said' = [said EXCEPT ![f] = Append(@, e)]
    BY <1>5 DEF StartPlay
  <2>2. t \in Workers => wpc[t] = "playing" /\ kind[f] = "query"
    BY <1>0, <1>2 DEF Base, PlayInv, RoleInv
  <2>3. t \notin Workers => t = <<f, 0>> /\ kind[f] = "read"
    BY <1>0, <1>5, Speaking DEF RoleInv
  <2>4. Due(t)
    BY <1>2, <1>5, <2>2 DEF Due, Waiting
  <2>5. RoleInv' /\ FreshInv' /\ MarkInv'
    BY <1>0, <1>1, <1>2, <1>3, RoleStays, FreshStays, MarkStays DEF CalmSynth
  <2>6. LimitInv'
    <3>1. \A g \in Flows : Rises(g) /\ BoxKept(g)
      BY <1>2 DEF Rises, OnItsWay, BoxKept
    <3>2. ASSUME NEW g \in Flows, NEW i \in DOMAIN said'[g]
          PROVE  (i \in DOMAIN said[g] /\ said'[g][i] = said[g][i]) \/ Below(g, said[g][i])'
      <4>1. CASE i \in DOMAIN said[g] /\ said'[g][i] = said[g][i]
        BY <4>1
      <4>2. CASE g = f /\ said'[g][i] = e
        <5>1. Below(g, e)
          BY <1>0, <1>5, <4>2 DEF LimitInv
        <5>2. Below(g, said[g][i])'
          BY <1>2, <4>2, <5>1 DEF Below, OnItsWay
        <5> QED BY <5>2
      <4> QED BY <1>0, <2>1, <3>2, <4>1, <4>2, GrownSaid
    <3>3. \A g \in Flows : SaidKept(g)
      BY <3>2 DEF SaidKept
    <3>4. \A u \in Speakers : SayingKept(u)
      BY <1>2 DEF SayingKept
    <3>5. \A w \in Workers : QueueKept(w)
      BY <1>2 DEF QueueKept
    <3> QED BY <1>0, <3>1, <3>3, <3>4, <3>5, LimitKept
  <2>7. BoxInv'
    <3> SUFFICES ASSUME NEW g \in Flows, box[g] # 0
                 PROVE  saying[<<g, 0>>] < box[g] /\ \A i \in DOMAIN said'[g] : said'[g][i] < box[g]
      BY <1>2 DEF BoxInv, SaidBelow
    <3>1. saying[<<g, 0>>] < box[g] /\ \A i \in DOMAIN said[g] : said[g][i] < box[g]
      BY <1>0 DEF BoxInv, SaidBelow
    <3>2. CASE g # f
      <4>1. said'[g] = said[g]
        BY <1>0, <2>1, <3>2, GrownSaid
      <4> QED BY <3>1, <4>1
    <3>3. CASE g = f
      <4>1. t = <<g, 0>>
        BY <1>0, <2>2, <2>3, <3>3 DEF RoleInv
      <4>2. \A i \in DOMAIN said'[g] : (i \in DOMAIN said[g] /\ said'[g][i] = said[g][i]) \/ said'[g][i] = e
        BY <1>0, <2>1, <3>3, GrownSaid
      <4> QED BY <3>1, <4>1, <4>2
    <3> QED BY <3>2, <3>3
  <2>8. ASSUME ~stray'
        PROVE  (LoneInv /\ DueInv /\ QueueInv /\ SaidInv)'
    <3>1. LoneInv /\ DueInv /\ QueueInv /\ SaidInv
      BY <1>2, <2>8 DEF OrderOK
    <3>2. LoneInv'
      BY <1>1, <3>1, LoneStays DEF CalmWork
    <3>3. SaidInv'
      <4>1. SaidBelow(f, e)
        BY <2>4, <3>1 DEF DueInv
      <4>2. ASSUME NEW g \in Flows
            PROVE  Increases(said'[g])
        BY <1>0, <2>1, <3>1, <4>1, <4>2, GrownSaid DEF SaidInv
      <4> QED BY <4>2 DEF SaidInv, Increases
    <3>4. DueInv'
      <4>1. ASSUME NEW u \in Speakers, Due(u)'
            PROVE  u # t /\ Due(u) /\ u[1] # f
        <5>1. u # t /\ Due(u)
          BY <1>2, <4>1 DEF Due, Waiting
        <5> QED BY <2>4, <3>1, <5>1 DEF DueInv
      <4>2. ASSUME NEW u \in Speakers, Due(u)'
            PROVE  SaidBelow(u[1], saying[u])'
        <5>1. said'[u[1]] = said[u[1]]
          BY <1>0, <2>1, <4>1, <4>2, Speaking, GrownSaid
        <5> QED BY <1>2, <3>1, <4>1, <4>2, <5>1 DEF DueInv, SaidBelow
      <4> QED BY <3>1, <4>1, <4>2 DEF DueInv
    <3>5. QueueInv'
      <4> SUFFICES ASSUME NEW w \in Workers, slot = w, MaySpeak(w[1])
                   PROVE  /\ Increases(queue[w])
                          /\ \A i \in DOMAIN queue[w] :
                                saying[w] < queue[w][i] /\ \A j \in DOMAIN said'[w[1]] : said'[w[1]][j] < queue[w][i]
        BY <1>0, <1>2, SlotFlow DEF QueueInv, SaidBelow, Increases, MaySpeak
      <4>1. /\ Increases(queue[w])
            /\ \A i \in DOMAIN queue[w] :
                  saying[w] < queue[w][i] /\ \A j \in DOMAIN said[w[1]] : said[w[1]][j] < queue[w][i]
        BY <3>1, Speaking DEF QueueInv, SaidBelow
      <4>2. CASE w[1] # f
        <5>1. said'[w[1]] = said[w[1]]
          BY <1>0, <2>1, <4>2, Speaking, GrownSaid
        <5> QED BY <4>1, <5>1
      <4>3. CASE w[1] = f
        <5>1. kind[f] = "query"
          BY <4>3, Speaking DEF Base, SlotOK, SlotInv
        <5>2. t \in Workers /\ Waiting(t)
          BY <2>2, <2>3, <5>1 DEF Waiting
        <5>3. t = w
          BY <3>1, <4>3, <5>2 DEF LoneInv
        <5>4. \A j \in DOMAIN said'[f] : (j \in DOMAIN said[f] /\ said'[f][j] = said[f][j]) \/ said'[f][j] = e
          BY <1>0, <2>1, GrownSaid
        <5> QED BY <4>1, <4>3, <5>3, <5>4
      <4> QED BY <4>2, <4>3
    <3> QED BY <3>2, <3>3, <3>4, <3>5
  <2> QED BY <2>5, <2>6, <2>7, <2>8 DEF OrderOK
<1> QED BY <1>4, <1>5

-----------------------------------------------------------------------------

LEMMA UserOrder ==
    ASSUME Base, OrderOK, UserStep
    PROVE  OrderOK'
BY CalmKeeps, Ask_Calm, BeginCaller_Calm, IntentCancelled_Calm, MuteMark_Calm DEF UserStep

LEMMA FlowOrder ==
    ASSUME Base, OrderOK, NEW f \in Flows, FlowStep(f) \/ SynthStep(f) \/ ReadSentence(f)
    PROVE  OrderOK'
<1>1. CASE \/ ShowThinking(f) \/ QueryFails(f) \/ Decide(f) \/ SynthesizeWhole(f) \/ SendPlay(f)
           \/ BeginReading(f) \/ ChunkPlayed(f) \/ LeaveReading(f)
  BY <1>1, CalmKeeps, ShowThinking_Calm, QueryFails_Calm, Decide_Calm, SynthesizeWhole_Calm, SendPlay_Calm,
     BeginReading_Calm, ChunkPlayed_Calm, LeaveReading_Calm
<1> QED BY <1>1, Answer_Order, FinishSequence_Order, GetChunk_Order, Synthesize_Order, PutSynthResult_Order,
        ReadSentence_Order DEF FlowStep, SynthStep

LEMMA WorkerOrder ==
    ASSUME Base, OrderOK, NEW w \in Workers, WorkerStep(w)
    PROVE  OrderOK'
BY CalmKeeps, WorkerGuard_Calm, WorkerSynthesize_Calm, WorkerSend_Calm, WorkerPlayed_Calm, WorkerLeave_Calm,
   WorkerEnd_Calm, WorkerGet_Order DEF WorkerStep

LEMMA PlayerOrder ==
    ASSUME Base, OrderOK, NEW t \in Speakers, PlayerStep(t)
    PROVE  OrderOK'
BY CalmKeeps, ClearFlag_Calm, EndPlay_Calm, StartPlay_Order DEF PlayerStep

LEMMA NextOrder ==
    ASSUME Base, OrderOK, [Next]_vars
    PROVE  OrderOK'
<1>1. ASSUME NEW h \in Hands, HandStep(h)
      PROVE  OrderOK'
  BY <1>1, TakeSlot_Order, PutSegment_Order DEF HandStep
<1>2. CASE CloserStep \/ UNCHANGED vars \/ \E x \in Flows \cup {Closer, Picker} : ServeStop(x)
  BY <1>2, CalmKeeps, ServeStop_Calm, ResetBubble_Calm, Stutter_Calm, CancelSequence_Order DEF CloserStep
<1> QED BY <1>1, <1>2, UserOrder, FlowOrder, WorkerOrder, PlayerOrder DEF Next, SystemStep

LEMMA InitOrder == Init => OrderOK
<1> SUFFICES ASSUME Init PROVE OrderOK
  OBVIOUS
<1>1. RoleInv /\ FreshInv /\ MarkInv /\ BoxInv
  BY Speaking DEF Init, RoleInv, FreshInv, MarkInv, BoxInv, HasEnd, Empty
<1>2. LimitInv
  BY Speaking DEF Init, LimitInv
<1>3. LoneInv /\ DueInv /\ QueueInv /\ SaidInv
  BY Speaking DEF Init, LoneInv, DueInv, QueueInv, SaidInv, Increases, Due, Waiting
<1> QED BY <1>1, <1>2, <1>3 DEF OrderOK

(* Unless a superseded reply took the speech queue, every flow begins its sentences in   *)
(* their order and none of them twice: whoever is about to speak holds the slot alone,   *)
(* what is queued there is behind what is in hand, and that behind what was said.        *)
THEOREM SpokenInOrderHolds == Spec => []SpokenInOrder
<1> DEFINE IInv == TypeOK /\ HandInv /\ BornInv /\ PlayInv /\ SlotOK /\ OrderOK
<1>1. Init => IInv
  BY InitType, InitLate, InitSlot, InitOrder
<1>2. IInv /\ [Next]_vars => IInv'
  <2> SUFFICES ASSUME IInv, [Next]_vars PROVE IInv'
    OBVIOUS
  <2>1. TypeOK' /\ HandInv' /\ BornInv' /\ PlayInv' /\ SlotOK'
    BY NextType, NextHand, NextPlay, NextSlot
  <2>2. OrderOK'
    BY NextOrder DEF Base, OrderOK
  <2> QED BY <2>1, <2>2
<1>3. IInv => SpokenInOrder
  BY DEF OrderOK, SaidInv, Increases, SpokenInOrder
<1> QED BY <1>1, <1>2, <1>3, PTL DEF Spec

=============================================================================
