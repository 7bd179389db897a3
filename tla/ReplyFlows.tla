----------------------------- MODULE ReplyFlows -----------------------------
(***************************************************************************)
(* Replies and their speech in runtime/supervisor/flows.py: every question *)
(* (_query) and every reading (read_selection_aloud) takes a new           *)
(* generation, and what belongs to an older one, or to the one whose       *)
(* bubble the user closed, has to fall silent by itself: it is checked     *)
(* again and again, never interrupted.                                     *)
(*                                                                         *)
(* A flow is named by the rank of its generation.  The sentences of a      *)
(* reply are queued by the reader thread of the brain worker, its rest by  *)
(* the thread of the flow, and spoken by a thread of their own (_tts_      *)
(* sequence_worker), all through one slot: _tts_queue, _tts_generation,    *)
(* _tts_sequence_active.  A worker is named <<flow, sentence>> after the   *)
(* sentence that started it; <<flow, 0>> stands for the flow's own thread. *)
(* Playback is the audio worker's, where every request has its own thread  *)
(* and all of them share one stop flag.                                    *)
(***************************************************************************)
EXTENDS Naturals, Sequences

CONSTANTS
    NFlows,         \* bound: questions and readings
    NSentences,     \* bound: sentences of a reply, chunks of a reading
    Length,         \* bound: the same for each flow
    MaxActs,        \* bound: how often the user asks, opens or cancels a picker, closes the bubble
    Kinds,          \* what flows are: query, read
    MayFail         \* the model or the speech provider may fail

ASSUME ReplyFlowsAssumption ==
    /\ {NFlows, NSentences, MaxActs} \subseteq Nat
    /\ Length \in [1 .. NFlows -> 0 .. NSentences]
    /\ Kinds \subseteq {"query", "read"}
    /\ MayFail \in BOOLEAN

Flows     == 1 .. NFlows
Sentences == 1 .. NSentences
Workers   == Flows \X Sentences
Speakers  == Flows \X (0 .. NSentences)
NoWorker  == <<0, 0>>
End       == NSentences + 1        \* the None that closes a queue
Reader    == 0                     \* the reader thread of the brain worker
Hands     == Flows \cup {Reader}   \* the threads that queue a sentence
Closer    == 0
Picker    == NFlows + 1

VARIABLES
    current,      \* _current_generation: a flow, or 0 for a generation without a reply
    muted,        \* _reply_bubble_cancelled_generation, or 0
    kind, pc,     \* what each flow is, and where its thread is
    sent,         \* how many sentences of it the reader saw
    cancelled,    \* bubble_cancelled of _query
    hand,         \* the sentence each thread is queueing
    slot, slotGen, active,    \* _tts_queue, _tts_generation, _tts_sequence_active
    queue, wpc,   \* the queue of each TTS worker, and where it is
    box, spc,     \* read aloud: the queue of one chunk, the thread that synthesizes ahead
    saying,       \* the sentence each speaker has in hand
    player,       \* where the playback of each speaker is
    stopped,      \* its result: was it stopped
    stopFlag,     \* _playback_stop of the audio worker
    stops,        \* the audio.stop requests not served yet
    overlay,      \* the state the overlay shows
    closer, closeGen,     \* stop_reply_bubble
    acts,         \* how often the user did something
    said,         \* history: the sentences of each flow whose playback began
    late,         \* history: playbacks each speaker began for a reply that was gone
    stray         \* history: a superseded flow took the slot, or said it was thinking

genVars    == <<current, muted>>
flowVars   == <<kind, pc, sent, cancelled>>
slotVars   == <<slot, slotGen, active>>
workerVars == <<queue, wpc, saying>>
readVars   == <<box, spc>>
audioVars  == <<player, stopped, stopFlag, stops, said, late>>
closeVars  == <<closer, closeGen>>
vars == <<genVars, flowVars, hand, slotVars, workerVars, readVars, audioVars,
          overlay, closeVars, acts, stray>>

Empty == [at |-> "none", flow |-> 0, seg |-> 0, into |-> NoWorker]

FlowTypeOK ==
    /\ current \in Flows \cup {0} /\ muted \in Flows \cup {0}
    /\ acts \in 0 .. MaxActs
    /\ kind \in [Flows -> {"none", "query", "read"}]
    /\ pc \in [Flows -> {"new", "asked", "called", "finishing", "deciding", "synth",
                         "begin", "get", "send", "playing", "leave", "left", "over",
                         "failed"}]
    /\ sent \in [Flows -> 0 .. NSentences]
    /\ cancelled \in [Flows -> BOOLEAN]

SlotTypeOK ==
    /\ hand \in [Hands ->
          {Empty} \cup [at : {"take"}, flow : Flows, seg : Sentences, into : {NoWorker}]
                  \cup [at : {"put"}, flow : Flows, seg : Sentences, into : Workers]]
    /\ slot \in Workers \cup {NoWorker} /\ slotGen \in Flows \cup {0}
    /\ active \in BOOLEAN

SpeechTypeOK ==
    /\ queue \in [Workers -> Seq(1 .. End)]
    /\ wpc \in [Workers -> {"none", "guard", "get", "synth", "send", "playing", "leave",
                            "left", "over"}]
    /\ box \in [Flows -> 0 .. End]
    /\ spc \in [Flows -> {"none", "check", "synth", "put", "error", "end", "over"}]
    /\ saying \in [Speakers -> 0 .. NSentences]

AudioTypeOK ==
    /\ player \in [Speakers -> {"none", "sent", "cleared", "playing", "reported"}]
    /\ stopped \in [Speakers -> BOOLEAN]
    /\ stopFlag \in BOOLEAN
    /\ stops \subseteq Flows \cup {Closer, Picker}
    /\ overlay \in {"idle", "thinking", "speaking", "listening"}
    /\ closer \in {"no", "cancel", "reset"}
    /\ closeGen \in Flows \cup {0}
    /\ said \in [Flows -> Seq(Sentences)]
    /\ late \in [Speakers -> Nat]
    /\ stray \in BOOLEAN

TypeOK == FlowTypeOK /\ SlotTypeOK /\ SpeechTypeOK /\ AudioTypeOK

Init ==
    /\ current = 0 /\ muted = 0 /\ acts = 0
    /\ kind = [f \in Flows |-> "none"]
    /\ pc = [f \in Flows |-> "new"]
    /\ sent = [f \in Flows |-> 0]
    /\ cancelled = [f \in Flows |-> FALSE]
    /\ hand = [h \in Hands |-> Empty]
    /\ slot = NoWorker /\ slotGen = 0 /\ active = FALSE
    /\ queue = [w \in Workers |-> <<>>]
    /\ wpc = [w \in Workers |-> "none"]
    /\ box = [f \in Flows |-> 0]
    /\ spc = [f \in Flows |-> "none"]
    /\ saying = [t \in Speakers |-> 0]
    /\ player = [t \in Speakers |-> "none"]
    /\ stopped = [t \in Speakers |-> FALSE]
    /\ stopFlag = FALSE /\ stops = {}
    /\ overlay = "idle"
    /\ closer = "no" /\ closeGen = 0
    /\ said = [f \in Flows |-> <<>>]
    /\ late = [t \in Speakers |-> 0]
    /\ stray = FALSE

-----------------------------------------------------------------------------
(* Generations *)

Act == acts < MaxActs /\ acts' = acts + 1

MaySpeak_AnyGeneration(f) == muted # f

\* _is_current and not _reply_bubble_cancelled: asked before every step of speech.
MaySpeak(f) == current = f /\ muted # f

\* The thread of flow f goes on to l; what else it leaves alone is the caller's to say.
Go(f, l) == pc' = [pc EXCEPT ![f] = l]

\* ui.reply.done and _set_idle; the check before it is the caller's.
GoIdle(f) == Go(f, "over") /\ overlay' = "idle"

\* The user asks, or has the selection read: a new generation, and silence for the old one.
Ask(f, k) ==
    /\ pc[f] = "new" /\ \A g \in Flows : g < f => pc[g] # "new"
    /\ k \in Kinds
    /\ Act
    /\ current' = f
    /\ kind' = [kind EXCEPT ![f] = k]
    /\ stops' = stops \cup {f}
    /\ Go(f, "asked")
    /\ UNCHANGED <<muted, sent, cancelled, hand, slotVars, workerVars, readVars,
                   player, stopped, stopFlag, said, late, overlay, closeVars, stray>>

\* audio.stop was answered; the bubble is reset, and a question shows that it thinks.
ShowThinking(f) ==
    /\ pc[f] = "asked" /\ f \notin stops
    /\ IF kind[f] = "query"
       THEN /\ Go(f, "called")
            /\ overlay' = "thinking"
            /\ stray' = (stray \/ current # f)
       ELSE Go(f, "begin") /\ UNCHANGED <<overlay, stray>>
    /\ UNCHANGED <<genVars, kind, sent, cancelled, hand, slotVars, workerVars, readVars,
                   audioVars, closeVars, acts>>

\* A caller key opens the picker: a generation of its own, audio.stop is sent, not awaited.
BeginCaller ==
    /\ Act
    /\ current' = 0
    /\ stops' = stops \cup {Picker}
    /\ overlay' = "listening"
    /\ UNCHANGED <<muted, flowVars, hand, slotVars, workerVars, readVars, player, stopped,
                   stopFlag, said, late, closeVars, stray>>

\* The picker or the snip is cancelled: a generation without a reply and without a stop.
IntentCancelled ==
    /\ Act
    /\ current' = 0
    /\ overlay' = "idle"
    /\ UNCHANGED <<muted, flowVars, hand, slotVars, workerVars, readVars, audioVars,
                   closeVars, stray>>

-----------------------------------------------------------------------------
(* The speech queue *)

\* _queue_tts_segment: its checks, which _ensure_tts_sequence repeats in part.
BeginSegment(h, f, s) ==
    hand' = [hand EXCEPT ![h] =
        IF MaySpeak(f) THEN [at |-> "take", flow |-> f, seg |-> s, into |-> NoWorker] ELSE Empty]

\* on_event: the reader sees the next sentence of the reply.
ReadSentence(f) ==
    /\ pc[f] = "called" /\ hand[Reader].at = "none"
    /\ sent[f] < Length[f]
    /\ sent' = [sent EXCEPT ![f] = @ + 1]
    /\ BeginSegment(Reader, f, sent[f] + 1)
    /\ UNCHANGED <<genVars, kind, pc, cancelled, slotVars, workerVars, readVars, audioVars,
                   overlay, closeVars, acts, stray>>

Owns_AnewEachTime(f) == FALSE

\* The queue of this generation is reused; any other one loses the slot.
Owns(f) == slot # NoWorker /\ slotGen = f

TakeSlot(h) ==
    LET f == hand[h].flow
        s == hand[h].seg
    IN  /\ hand[h].at = "take"
        /\ IF Owns(f)
           THEN /\ hand' = [hand EXCEPT ![h] = [at |-> "put", flow |-> f, seg |-> s, into |-> slot]]
                /\ UNCHANGED <<slotVars, wpc, stray>>
           ELSE /\ hand' = [hand EXCEPT ![h] = [at |-> "put", flow |-> f, seg |-> s, into |-> <<f, s>>]]
                /\ slot' = <<f, s>> /\ slotGen' = f /\ active' = TRUE
                /\ wpc' = [wpc EXCEPT ![<<f, s>>] = "guard"]
                /\ stray' = (stray \/ current # f)
        /\ UNCHANGED <<genVars, flowVars, queue, saying, readVars, audioVars, overlay, closeVars, acts>>

PutSegment(h) ==
    /\ hand[h].at = "put"
    /\ queue' = [queue EXCEPT ![hand[h].into] = Append(@, hand[h].seg)]
    /\ hand' = [hand EXCEPT ![h] = Empty]
    /\ UNCHANGED <<genVars, flowVars, slotVars, wpc, saying, readVars, audioVars, overlay,
                   closeVars, acts, stray>>

-----------------------------------------------------------------------------
(* The end of a question *)

\* brain.query returned; an unfinished sentence is queued unless the bubble was closed.
Answer(f) ==
    /\ pc[f] = "called" /\ hand[Reader].flow # f
    /\ cancelled' = [cancelled EXCEPT ![f] = muted = f]
    /\ Go(f, "finishing")
    /\ \/ /\ sent[f] < Length[f] /\ muted # f
          /\ sent' = [sent EXCEPT ![f] = @ + 1]
          /\ BeginSegment(f, f, sent[f] + 1)
       \/ UNCHANGED <<sent, hand>>
    /\ UNCHANGED <<genVars, kind, slotVars, workerVars, readVars, audioVars, overlay, closeVars, acts, stray>>

\* The call failed or timed out, whatever its reader is doing: the queue is not closed.
QueryFails(f) ==
    /\ MayFail /\ pc[f] = "called"
    /\ Go(f, "failed")
    /\ overlay' = "idle"
    /\ UNCHANGED <<genVars, kind, sent, cancelled, hand, slotVars, workerVars, readVars,
                   audioVars, closeVars, acts, stray>>

FinishSequence_OnlyCurrent(f) ==
    /\ pc[f] = "finishing" /\ hand[f].at = "none"
    /\ Go(f, "deciding")
    /\ queue' = IF MaySpeak(f) /\ Owns(f) THEN [queue EXCEPT ![slot] = Append(@, End)] ELSE queue
    /\ UNCHANGED <<genVars, kind, sent, cancelled, hand, slotVars, wpc, saying, readVars,
                   audioVars, overlay, closeVars, acts, stray>>

\* _finish_tts_sequence
FinishSequence(f) ==
    /\ pc[f] = "finishing" /\ hand[f].at = "none"
    /\ Go(f, "deciding")
    /\ queue' = IF ~cancelled[f] /\ muted # f /\ Owns(f)
                THEN [queue EXCEPT ![slot] = Append(@, End)] ELSE queue
    /\ UNCHANGED <<genVars, kind, sent, cancelled, hand, slotVars, wpc, saying, readVars,
                   audioVars, overlay, closeVars, acts, stray>>

\* What is left to do: go idle, say the whole reply, or leave both to the worker.
Decide(f) ==
    /\ pc[f] = "deciding"
    /\ \/ (cancelled[f] \/ sent[f] = 0) /\ GoIdle(f)
       \/ /\ ~cancelled[f] /\ sent[f] > 0 /\ current = f
          /\ Go(f, IF ~active /\ MaySpeak(f) THEN "synth" ELSE "over")
          /\ UNCHANGED overlay
       \/ /\ ~cancelled[f] /\ sent[f] > 0 /\ current # f
          /\ GoIdle(f) \/ (Go(f, "over") /\ UNCHANGED overlay)
    /\ UNCHANGED <<genVars, kind, sent, cancelled, hand, slotVars, workerVars, readVars,
                   audioVars, closeVars, acts, stray>>

\* _speak_text without waiting: the whole reply is synthesized.
SynthesizeWhole(f) ==
    /\ pc[f] = "synth"
    /\ \/ Go(f, IF MaySpeak(f) THEN "send" ELSE "over") /\ UNCHANGED overlay
       \/ MayFail /\ GoIdle(f)
    /\ UNCHANGED <<genVars, kind, sent, cancelled, hand, slotVars, workerVars, readVars,
                   audioVars, closeVars, acts, stray>>

\* ui.overlay.state, then play_file, which only a reading waits for.
SendPlay(f) ==
    /\ pc[f] = "send"
    /\ Go(f, IF kind[f] = "read" THEN "playing" ELSE "over")
    /\ overlay' = "speaking"
    /\ player' = [player EXCEPT ![<<f, 0>>] = "sent"]
    /\ UNCHANGED <<genVars, kind, sent, cancelled, hand, slotVars, workerVars, readVars,
                   stopped, stopFlag, stops, said, late, closeVars, acts, stray>>

-----------------------------------------------------------------------------
(* The thread that speaks a queue *)

WorkerGuard(w) ==
    /\ wpc[w] = "guard"
    /\ wpc' = [wpc EXCEPT ![w] = IF MaySpeak(w[1]) THEN "get" ELSE "leave"]
    /\ UNCHANGED <<genVars, flowVars, hand, slotVars, queue, saying, readVars, audioVars,
                   overlay, closeVars, acts, stray>>

WorkerGet(w) ==
    /\ wpc[w] = "get" /\ queue[w] # <<>>
    /\ queue' = [queue EXCEPT ![w] = Tail(@)]
    /\ IF Head(queue[w]) # End /\ MaySpeak(w[1])
       THEN /\ wpc' = [wpc EXCEPT ![w] = "synth"]
            /\ saying' = [saying EXCEPT ![w] = Head(queue[w])]
       ELSE wpc' = [wpc EXCEPT ![w] = "leave"] /\ UNCHANGED saying
    /\ UNCHANGED <<genVars, flowVars, hand, slotVars, readVars, audioVars, overlay, closeVars, acts, stray>>

WorkerSynthesize(w) ==
    /\ wpc[w] = "synth"
    /\ \/ wpc' = [wpc EXCEPT ![w] = IF MaySpeak(w[1]) THEN "send" ELSE "leave"]
       \/ MayFail /\ wpc' = [wpc EXCEPT ![w] = "leave"]
    /\ UNCHANGED <<genVars, flowVars, hand, slotVars, queue, saying, readVars, audioVars,
                   overlay, closeVars, acts, stray>>

WorkerSend(w) ==
    /\ wpc[w] = "send"
    /\ wpc' = [wpc EXCEPT ![w] = "playing"]
    /\ overlay' = "speaking"
    /\ player' = [player EXCEPT ![w] = "sent"]
    /\ UNCHANGED <<genVars, flowVars, hand, slotVars, queue, saying, readVars, stopped,
                   stopFlag, stops, said, late, closeVars, acts, stray>>

WorkerPlayed(w) ==
    /\ wpc[w] = "playing" /\ player[w] = "reported"
    /\ player' = [player EXCEPT ![w] = "none"]
    /\ stopped' = [stopped EXCEPT ![w] = FALSE]
    /\ saying' = [saying EXCEPT ![w] = 0]
    /\ wpc' = [wpc EXCEPT ![w] = IF ~stopped[w] /\ MaySpeak(w[1]) THEN "get" ELSE "leave"]
    /\ UNCHANGED <<genVars, flowVars, hand, slotVars, queue, readVars, stopFlag, stops, said,
                   late, overlay, closeVars, acts, stray>>

\* finally, under _tts_lock: the slot is given up only if it is still this worker's.
WorkerLeave(w) ==
    /\ wpc[w] = "leave"
    /\ wpc' = [wpc EXCEPT ![w] = "left"]
    /\ IF slot = w
       THEN slot' = NoWorker /\ active' = FALSE
       ELSE UNCHANGED <<slot, active>>
    /\ UNCHANGED <<genVars, flowVars, hand, slotGen, queue, saying, readVars, audioVars,
                   overlay, closeVars, acts, stray>>

WorkerEnd_NotIdle(w) ==
    /\ wpc[w] = "left"
    /\ wpc' = [wpc EXCEPT ![w] = "over"]
    /\ UNCHANGED <<genVars, flowVars, hand, slotVars, queue, saying, readVars, audioVars,
                   overlay, closeVars, acts, stray>>

WorkerEnd(w) ==
    /\ wpc[w] = "left"
    /\ wpc' = [wpc EXCEPT ![w] = "over"]
    /\ overlay' = IF MaySpeak(w[1]) THEN "idle" ELSE overlay
    /\ UNCHANGED <<genVars, flowVars, hand, slotVars, queue, saying, readVars, audioVars,
                   closeVars, acts, stray>>

-----------------------------------------------------------------------------
(* Reading aloud, with one chunk synthesized ahead *)

BeginReading(f) ==
    /\ pc[f] = "begin"
    /\ IF MaySpeak(f)
       THEN /\ slot' = NoWorker /\ slotGen' = f /\ active' = TRUE
            /\ spc' = [spc EXCEPT ![f] = "check"]
            /\ Go(f, "get")
       ELSE Go(f, "over") /\ UNCHANGED <<slotVars, spc>>
    /\ UNCHANGED <<genVars, kind, sent, cancelled, hand, workerVars, box, audioVars, overlay,
                   closeVars, acts, stray>>

\* stop_synth is set when the reading leaves its loop.
StopSynth(f) == pc[f] \notin {"get", "send", "playing", "leave"}

Synthesize(f) ==
    /\ \/ /\ spc[f] = "check"
          /\ IF StopSynth(f) \/ ~MaySpeak(f) \/ sent[f] >= Length[f]
             THEN spc' = [spc EXCEPT ![f] = "end"] /\ UNCHANGED sent
             ELSE spc' = [spc EXCEPT ![f] = "synth"] /\ sent' = [sent EXCEPT ![f] = @ + 1]
       \/ /\ spc[f] = "synth"
          /\ \/ spc' = [spc EXCEPT ![f] = "put"]
             \/ MayFail /\ spc' = [spc EXCEPT ![f] = "error"]
          /\ UNCHANGED sent
    /\ UNCHANGED <<genVars, kind, pc, cancelled, hand, slotVars, workerVars, box, audioVars,
                   overlay, closeVars, acts, stray>>

\* After a chunk the next one, after an error the None of the finally.
AfterPut(l) == IF l = "put" THEN "check" ELSE IF l = "error" THEN "end" ELSE "over"

PutSynthResult_Waits(f) ==
    /\ spc[f] \in {"put", "error", "end"} /\ box[f] = 0
    /\ box' = [box EXCEPT ![f] = IF spc[f] = "put" THEN sent[f] ELSE End]
    /\ spc' = [spc EXCEPT ![f] = AfterPut(@)]
    /\ UNCHANGED <<genVars, flowVars, hand, slotVars, workerVars, audioVars, overlay, closeVars,
                   acts, stray>>

\* put_synth_result: put while the queue has room, or give up once stop_synth is set.
PutSynthResult(f) ==
    /\ spc[f] \in {"put", "error", "end"}
    /\ \/ /\ ~StopSynth(f) /\ box[f] = 0
          /\ box' = [box EXCEPT ![f] = IF spc[f] = "put" THEN sent[f] ELSE End]
          /\ spc' = [spc EXCEPT ![f] = AfterPut(@)]
       \/ StopSynth(f) /\ spc' = [spc EXCEPT ![f] = "over"] /\ UNCHANGED box
    /\ UNCHANGED <<genVars, flowVars, hand, slotVars, workerVars, audioVars, overlay, closeVars, acts, stray>>

GetChunk(f) ==
    /\ pc[f] = "get"
    /\ \/ ~MaySpeak(f) /\ Go(f, "leave") /\ UNCHANGED <<box, saying>>
       \/ /\ box[f] # 0
          /\ box' = [box EXCEPT ![f] = 0]
          /\ IF box[f] # End /\ MaySpeak(f)
             THEN Go(f, "send") /\ saying' = [saying EXCEPT ![<<f, 0>>] = box[f]]
             ELSE Go(f, "leave") /\ UNCHANGED saying
    /\ UNCHANGED <<genVars, kind, sent, cancelled, hand, slotVars, queue, wpc, spc, audioVars,
                   overlay, closeVars, acts, stray>>

ChunkPlayed(f) ==
    LET t == <<f, 0>>
    IN  /\ pc[f] = "playing" /\ player[t] = "reported"
        /\ player' = [player EXCEPT ![t] = "none"]
        /\ stopped' = [stopped EXCEPT ![t] = FALSE]
        /\ saying' = [saying EXCEPT ![t] = 0]
        /\ Go(f, IF stopped[t] THEN "leave" ELSE "get")
        /\ UNCHANGED <<genVars, kind, sent, cancelled, hand, slotVars, queue, wpc, readVars,
                       stopFlag, stops, said, late, overlay, closeVars, acts, stray>>

\* finally: stop_synth, _end_manual_tts_sequence, and the overlay if the reading still counts.
LeaveReading(f) ==
    /\ \/ /\ pc[f] = "leave"
          /\ Go(f, "left")
          /\ active' = (active /\ ~(slotGen = f /\ slot = NoWorker))
          /\ UNCHANGED overlay
       \/ /\ pc[f] = "left"
          /\ Go(f, "over")
          /\ overlay' = IF MaySpeak(f) THEN "idle" ELSE overlay
          /\ UNCHANGED active
    /\ UNCHANGED <<genVars, kind, sent, cancelled, hand, slot, slotGen, workerVars, readVars,
                   audioVars, closeVars, acts, stray>>

-----------------------------------------------------------------------------
(* The audio worker: play_file on a thread per request, one stop flag for all *)

ClearFlag(t) ==
    /\ player[t] = "sent"
    /\ player' = [player EXCEPT ![t] = "cleared"]
    /\ stopFlag' = FALSE
    /\ UNCHANGED <<genVars, flowVars, hand, slotVars, workerVars, readVars, stopped, stops,
                   said, late, overlay, closeVars, acts, stray>>

\* For the history only: the user has asked something else, or closed the bubble.
Gone(f) == current # f \/ muted = f

\* sd.play
StartPlay(t) ==
    /\ player[t] = "cleared"
    /\ player' = [player EXCEPT ![t] = "playing"]
    /\ late' = [late EXCEPT ![t] = IF Gone(t[1]) THEN @ + 1 ELSE @]
    /\ said' = [said EXCEPT ![t[1]] = IF saying[t] = 0 THEN @ ELSE Append(@, saying[t])]
    /\ UNCHANGED <<genVars, flowVars, hand, slotVars, workerVars, readVars, stopped, stopFlag,
                   stops, overlay, closeVars, acts, stray>>

\* Only a reading or a worker waits for the answer.
Waits(t) == t[2] # 0 \/ kind[t[1]] = "read"

\* The sound ends, by itself or because the device was stopped or given to another.  The
\* reader of the audio worker handles audio.playback.done, then wakes who waits.
EndPlay(t) ==
    /\ player[t] = "playing"
    /\ player' = [player EXCEPT ![t] = IF Waits(t) THEN "reported" ELSE "none"]
    /\ stopped' = [stopped EXCEPT ![t] = stopFlag /\ Waits(t)]
    /\ overlay' = IF active THEN overlay ELSE "idle"
    /\ UNCHANGED <<genVars, flowVars, hand, slotVars, workerVars, readVars, stopFlag, stops,
                   said, late, closeVars, acts, stray>>

\* audio_stop, on a thread of its own.
ServeStop(x) ==
    /\ x \in stops
    /\ stops' = stops \ {x}
    /\ stopFlag' = TRUE
    /\ UNCHANGED <<genVars, flowVars, hand, slotVars, workerVars, readVars, player, stopped,
                   said, late, overlay, closeVars, acts, stray>>

-----------------------------------------------------------------------------
(* The user closes the reply bubble *)

MuteMark ==
    /\ closer = "no" /\ Act
    /\ closer' = "cancel" /\ closeGen' = current
    /\ muted' = current
    /\ UNCHANGED <<current, flowVars, hand, slotVars, workerVars, readVars,
                   audioVars, overlay, stray>>

CancelSequence_PutsNothing ==
    /\ closer = "cancel"
    /\ closer' = "reset"
    /\ IF Owns(closeGen)
       THEN /\ slot' = NoWorker /\ active' = FALSE
            /\ queue' = [queue EXCEPT ![slot] = Append(@, 0)]
       ELSE UNCHANGED <<slot, active, queue>>
    /\ stops' = stops \cup {Closer}
    /\ UNCHANGED <<genVars, flowVars, hand, slotGen, wpc, saying, readVars, player, stopped,
                   stopFlag, said, late, overlay, closeGen, acts, stray>>

\* _cancel_tts_sequence, then audio.stop.
CancelSequence ==
    /\ closer = "cancel"
    /\ closer' = "reset"
    /\ IF Owns(closeGen)
       THEN /\ slot' = NoWorker /\ active' = FALSE
            /\ queue' = [queue EXCEPT ![slot] = Append(@, End)]
       ELSE UNCHANGED <<slot, active, queue>>
    /\ stops' = stops \cup {Closer}
    /\ UNCHANGED <<genVars, flowVars, hand, slotGen, wpc, saying, readVars, player, stopped,
                   stopFlag, said, late, overlay, closeGen, acts, stray>>

ResetBubble ==
    /\ closer = "reset" /\ Closer \notin stops
    /\ closer' = "no"
    /\ overlay' = "idle"
    /\ UNCHANGED <<genVars, flowVars, hand, slotVars, workerVars, readVars, audioVars,
                   closeGen, acts, stray>>

-----------------------------------------------------------------------------

FlowStep(f) ==
    \/ ShowThinking(f) \/ Answer(f) \/ QueryFails(f) \/ FinishSequence(f) \/ Decide(f)
    \/ SynthesizeWhole(f) \/ SendPlay(f)
    \/ BeginReading(f) \/ GetChunk(f) \/ ChunkPlayed(f) \/ LeaveReading(f)

SynthStep(f) == Synthesize(f) \/ PutSynthResult(f)

HandStep(h) == TakeSlot(h) \/ PutSegment(h)

WorkerStep(w) ==
    \/ WorkerGuard(w) \/ WorkerGet(w) \/ WorkerSynthesize(w) \/ WorkerSend(w)
    \/ WorkerPlayed(w) \/ WorkerLeave(w) \/ WorkerEnd(w)

PlayerStep(t) == ClearFlag(t) \/ StartPlay(t) \/ EndPlay(t)

CloserStep == CancelSequence \/ ResetBubble

UserStep ==
    \/ \E f \in Flows, k \in Kinds : Ask(f, k)
    \/ BeginCaller \/ IntentCancelled \/ MuteMark

SystemStep ==
    \/ \E f \in Flows : FlowStep(f) \/ SynthStep(f) \/ ReadSentence(f)
    \/ \E h \in Hands : HandStep(h)
    \/ \E w \in Workers : WorkerStep(w)
    \/ \E t \in Speakers : PlayerStep(t)
    \/ \E x \in Flows \cup {Closer, Picker} : ServeStop(x)
    \/ CloserStep

Next == UserStep \/ SystemStep

Spec == Init /\ [][Next]_vars

\* Every thread that can go on does; the model and the sound end; the user need do nothing.
\* No thread can take a step for ever, so that fairness of the threads together is fairness
\* of each of them.
Fairness == WF_vars(SystemStep)

FairSpec == Spec /\ Fairness

-----------------------------------------------------------------------------
(* Properties *)

\* A thread that speaks starts at most one more playback after its reply was superseded or
\* its bubble closed, and that only if it was on its way (flows.py:4667-4692: the check and the
\* call are two steps; audio_host.py:448: a stop that comes before play_file is lost).
LateSpeechBounded == \A t \in Speakers : late[t] <= 1

\* Unless a superseded reply took the speech queue, the sentences of a reply are spoken in
\* their order and none of them twice, though the reader, the flow and one or several
\* workers handle them (flows.py:4442-4496).
SpokenInOrder ==
    ~stray => \A f \in Flows : \A i, j \in DOMAIN said[f] : i < j => said[f][i] < said[f][j]

Waiting(w) == wpc[w] \in {"guard", "get", "synth", "send", "playing"}

\* A worker that owns the queue of a reply that ended in good order will find the mark that
\* closes it, or ends by its own checks: no thread waits for ever on a queue that nobody
\* closes (flows.py:4468-4475 returns early when the bubble was closed).
OwnerIsClosed ==
    \A w \in Workers :
        /\ slot = w /\ Waiting(w)
        /\ pc[w[1]] \in {"deciding", "synth", "send", "over"}
        => \/ \E i \in DOMAIN queue[w] : queue[w][i] = End
           \/ muted = w[1] /\ closer = "cancel" /\ closeGen = w[1]
           \/ wpc[w] # "get" /\ ~MaySpeak(w[1])

Quiet == \A t \in Speakers : player[t] = "none"

\* In the end a reply with words that was not superseded, closed or failed is over, the
\* overlay is idle and nothing plays, whatever older replies did in the meantime
\* (flows.py:4490-4496, 4644-4649, 682-687).
ReplySettles ==
    <>[](\A f \in Flows :
            MaySpeak(f) /\ sent[f] > 0 /\ pc[f] # "failed" /\ ~stray
            => pc[f] = "over" /\ overlay = "idle" /\ Quiet)

\* In the end no thread of a reading is left, though the queue of its synthesizer may be
\* full when the reading ends (flows.py:4578-4604), and a worker is left only where the
\* query failed or the queue was taken away by another reply (flows.py:4442-4475).
ThreadsEnd ==
    <>[](/\ \A f \in Flows : spc[f] \in {"none", "over"}
         /\ \A w \in Workers : Waiting(w) => pc[w[1]] = "failed" \/ slot # w)

=============================================================================
