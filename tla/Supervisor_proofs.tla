-------------------------- MODULE Supervisor_proofs --------------------------
(***************************************************************************)
(* Theorems about what MCSupervisor runs side by side: the push-to-talk    *)
(* keys, for any number of presses and repeats; the waits of the reader    *)
(* threads, for any number of flows and events; and that every behaviour   *)
(* of the composition is one of each part, so that what is proved of a     *)
(* part, of the recorder too, holds of the composition.                    *)
(***************************************************************************)
EXTENDS MCSupervisor, SttRecorder_proofs

-----------------------------------------------------------------------------
(* The push-to-talk keys *)

LEMMA Ranks ==
    /\ MaxPresses \in Nat /\ MaxRepeats \in Nat
    /\ Flows \subseteq Nat /\ Nothing \notin Flows
    /\ Presses \subseteq Nat /\ Nothing \notin Presses
    /\ \A i \in 0 .. MaxPresses : i < MaxPresses => i + 1 \in Presses /\ i + 1 \in 0 .. MaxPresses
BY PushToTalkAssumption DEF Flows, Presses, Nothing

-----------------------------------------------------------------------------
(* Types *)

LEMMA RecorderType ==
    ASSUME Recorder!TypeOK, NEW n \in Flows,
           \/ Recorder!Ask(n) \/ Recorder!Clear(n) \/ Recorder!Open(n) \/ Recorder!Fail(n)
           \/ Recorder!Take(n)
           \/ \E result \in {"text", "empty", "error"} : Recorder!Answer(n, result)
    PROVE  Recorder!TypeOK'
<1> USE DEF Recorder!TypeOK, Recorder!Requests, Recorder!Final
<1>1. CASE Recorder!Ask(n)
  BY <1>1 DEF Recorder!Ask
<1>2. CASE Recorder!Clear(n)
  BY <1>2 DEF Recorder!Clear
<1>3. CASE Recorder!Open(n)
  BY <1>3 DEF Recorder!Open
<1>4. CASE Recorder!Fail(n)
  BY <1>4 DEF Recorder!Fail
<1>5. CASE Recorder!Take(n)
  BY <1>5 DEF Recorder!Take
<1>6. ASSUME NEW result \in {"text", "empty", "error"}, Recorder!Answer(n, result)
      PROVE  Recorder!TypeOK'
  BY <1>6 DEF Recorder!Answer
<1> QED BY <1>1, <1>2, <1>3, <1>4, <1>5, <1>6

LEMMA RecorderRests ==
    ASSUME Recorder!TypeOK, UNCHANGED recVars
    PROVE  Recorder!TypeOK'
BY DEF recVars, Recorder!TypeOK, Recorder!Requests, Recorder!Final

(* What Schedule does, for the steps of the keys *)
LEMMA ScheduleType ==
    ASSUME PushToTalkTypeOK, NEW k, NEW what \in {"voice_start", "voice_stop", "dictate_start", "dictate_stop"},
           NEW p \in Presses, NEW v \in {"starting", "stopping"}, NEW d \in {"recording", "stopping"},
           Schedule(k, what, p, v, d)
    PROVE  /\ FlowTypeOK'
           /\ voice' \in {"idle", "starting", "recording", "stopping"}
           /\ dictate' \in {"idle", "recording", "stopping"}
BY DEF PushToTalkTypeOK, FlowTypeOK, StateTypeOK, Schedule

LEMMA KeyType ==
    ASSUME PushToTalkTypeOK, NEW k \in Keys, KeyDown(k) \/ KeyRepeat(k) \/ KeyUp(k)
    PROVE  PushToTalkTypeOK'
<1> USE Ranks
<1>1. Recorder!TypeOK'
  BY RecorderRests DEF KeyDown, KeyRepeat, KeyUp, PushToTalkTypeOK
<1>2. UNCHANGED <<target, pasted>>
  BY DEF KeyDown, KeyRepeat, KeyUp
<1>3. ASSUME Ignored
      PROVE  FlowTypeOK' /\ StateTypeOK'
  BY <1>2, <1>3 DEF PushToTalkTypeOK, FlowTypeOK, StateTypeOK, Ignored, flowVars
<1>4. ASSUME NEW p \in Presses, Claim(k, p)
      PROVE  FlowTypeOK' /\ StateTypeOK'
  BY <1>2, <1>4, ScheduleType DEF PushToTalkTypeOK, StateTypeOK, Claim, StartFlow
<1>5. ASSUME NEW p \in Presses, Schedule(k, StopFlow(k), p, "stopping", "stopping")
      PROVE  FlowTypeOK' /\ StateTypeOK'
  BY <1>2, <1>5, ScheduleType DEF PushToTalkTypeOK, StateTypeOK, StopFlow
<1>6. CASE KeyDown(k)
  <2>1. presses + 1 \in Presses /\ KeyTypeOK'
    BY <1>6 DEF PushToTalkTypeOK, KeyTypeOK, KeyDown
  <2> QED BY <1>1, <1>3, <1>4, <1>6, <2>1 DEF PushToTalkTypeOK, KeyDown
<1>7. CASE KeyRepeat(k)
  <2>1. down[k] \in Presses /\ KeyTypeOK'
    BY <1>7 DEF PushToTalkTypeOK, KeyTypeOK, KeyRepeat
  <2> QED BY <1>1, <1>4, <1>7, <2>1 DEF PushToTalkTypeOK, KeyRepeat
<1>8. CASE KeyUp(k)
  <2>1. down[k] \in Presses /\ KeyTypeOK'
    BY <1>8 DEF PushToTalkTypeOK, KeyTypeOK, KeyUp
  <2> QED BY <1>1, <1>3, <1>5, <1>8, <2>1 DEF PushToTalkTypeOK, KeyUp
<1> QED BY <1>6, <1>7, <1>8

LEMMA FlowType ==
    ASSUME PushToTalkTypeOK, NEW n \in Flows, FlowStep(n)
    PROVE  PushToTalkTypeOK'
<1>1. KeyTypeOK'
  BY DEF PushToTalkTypeOK, KeyTypeOK, FlowStep, keyVars, VoiceStartBegins, DictateStartBegins,
         StartSucceeds, StartFails, VoiceStopBegins, DictateStopBegins, StopAnswered,
         Rejected, QueryModel, Paste, Leave
<1>2. FlowTypeOK'
  BY DEF PushToTalkTypeOK, FlowTypeOK, FlowStep, Goto, flowVars, VoiceStartBegins, DictateStartBegins,
         StartSucceeds, StartFails, VoiceStopBegins, DictateStopBegins, StopAnswered,
         Rejected, QueryModel, Paste, Leave
<1>3. StateTypeOK'
  BY DEF PushToTalkTypeOK, StateTypeOK, FlowTypeOK, FlowStep, VoiceStartBegins, DictateStartBegins,
         StartSucceeds, StartFails, VoiceStopBegins, DictateStopBegins, StopAnswered,
         Rejected, QueryModel, Paste, Leave
<1>4. Recorder!Ask(n) \/ UNCHANGED recVars
  BY DEF FlowStep, VoiceStartBegins, DictateStartBegins, StartSucceeds, StartFails,
         VoiceStopBegins, DictateStopBegins, StopAnswered, Rejected, QueryModel, Paste, Leave
<1>5. Recorder!TypeOK'
  BY <1>4, RecorderType, RecorderRests DEF PushToTalkTypeOK
<1> QED BY <1>1, <1>2, <1>3, <1>5 DEF PushToTalkTypeOK

LEMMA KeysTypeStep == PushToTalkTypeOK /\ [KeysNext]_pttVars => PushToTalkTypeOK'
<1> SUFFICES ASSUME PushToTalkTypeOK, [KeysNext]_pttVars
             PROVE  PushToTalkTypeOK'
  OBVIOUS
<1>1. ASSUME NEW k \in Keys, KeyDown(k) \/ KeyRepeat(k) \/ KeyUp(k)
      PROVE  PushToTalkTypeOK'
  BY <1>1, KeyType
<1>2. ASSUME NEW n \in Flows, FlowStep(n)
      PROVE  PushToTalkTypeOK'
  BY <1>2, FlowType
<1>3. ASSUME NEW n \in Flows, Serve(n)
      PROVE  PushToTalkTypeOK'
  <2>1. Recorder!TypeOK'
    BY <1>3, RecorderType DEF PushToTalkTypeOK, Serve
  <2> QED BY <1>3, <2>1 DEF Serve, PushToTalkTypeOK, KeyTypeOK, FlowTypeOK, StateTypeOK, keyVars, flowVars
<1>4. CASE UNCHANGED pttVars
  <2>1. Recorder!TypeOK'
    BY <1>4, RecorderRests DEF PushToTalkTypeOK, pttVars
  <2> QED BY <1>4, <2>1 DEF pttVars, PushToTalkTypeOK, KeyTypeOK, FlowTypeOK, StateTypeOK, keyVars, flowVars
<1> QED BY <1>1, <1>2, <1>3, <1>4 DEF KeysNext

(* Every variable keeps its type, the recorder's included. *)
THEOREM KeysTypeCorrect == KeysSpec => []PushToTalkTypeOK
<1>1. KeysInit => PushToTalkTypeOK
  BY Ranks DEF KeysInit, PushToTalkTypeOK, KeyTypeOK, FlowTypeOK, StateTypeOK, Recorder!Init,
               Recorder!TypeOK, Recorder!Requests, Recorder!Final
<1> QED BY <1>1, KeysTypeStep, PTL DEF KeysSpec

-----------------------------------------------------------------------------
(* A dictation is pasted into its own field *)

Active(n) == flow[n] \in {"dictate_start", "dictate_stop"} /\ at[n] \notin {"none", "done"}

(* One dictation flow at a time; a start belongs to the press that holds   *)
(* the key, a stop to the press whose field is remembered.                 *)
FieldInv ==
    /\ \A n \in Flows : n > nFlows => at[n] = "none" /\ pasted[n] = Nothing
    /\ \A m, n \in Flows : Active(m) /\ Active(n) => m = n
    /\ \A n \in Flows : Active(n) /\ flow[n] = "dictate_start" =>
          /\ dictate = "recording" /\ press[n] = down["dictate"]
          /\ at[n] # "begin" => target = press[n]
    /\ \A n \in Flows : Active(n) /\ flow[n] = "dictate_stop" =>
          dictate = "stopping" /\ target = press[n]
    /\ dictate = "recording" =>
          /\ "dictate" \in Keys /\ down["dictate"] # Nothing
          /\ target = down["dictate"] \/ \E n \in Flows : Active(n) /\ at[n] = "begin"
    /\ PasteInOwnField

(* What a key event may do to dictation: nothing, or a claim *)
LEMMA FieldKey ==
    ASSUME Patient, PushToTalkTypeOK, FieldInv, NEW k \in Keys, KeyDown(k) \/ KeyRepeat(k) \/ KeyUp(k)
    PROVE  FieldInv'
<1> USE Ranks DEF PushToTalkTypeOK, FlowTypeOK, StateTypeOK
<1> USE DEF FieldInv, PasteInOwnField, Active
<1>1. /\ UNCHANGED <<target, pasted>>
      /\ down \in [Keys -> Presses \cup {Nothing}] /\ down' \in [Keys -> Presses \cup {Nothing}]
      /\ "dictate" \in Keys /\ k # "dictate" => down'["dictate"] = down["dictate"]
  BY KeyType DEF KeyDown, KeyRepeat, KeyUp, KeyTypeOK
<1>2. k \in {"voice", "dictate"}
  BY PushToTalkAssumption
<1>3. CASE k = "voice" /\ Ignored
  BY <1>1, <1>3 DEF Ignored, flowVars
<1>4. ASSUME k = "voice",
             NEW p, NEW what \in {"voice_start", "voice_stop"}, NEW v, NEW d,
             Schedule("voice", what, p, v, d)
      PROVE  FieldInv'
  BY <1>1, <1>4 DEF Schedule
<1>5. ASSUME k = "dictate", NEW p, Claim(k, p), down'[k] = p, p # Nothing
      PROVE  FieldInv'
  <2>1. /\ \A n \in Flows : ~Active(n)
        /\ dictate = "idle" /\ dictate' = "recording"
        /\ nFlows + 1 \in Flows /\ nFlows' = nFlows + 1 /\ nFlows \in Nat
        /\ flow' = [flow EXCEPT ![nFlows + 1] = "dictate_start"]
        /\ press' = [press EXCEPT ![nFlows + 1] = p]
        /\ at' = [at EXCEPT ![nFlows + 1] = "begin"]
    BY <1>5 DEF Claim, MayStart, Schedule, StartFlow
  <2> QED BY <1>1, <1>5, <2>1
<1>6. ASSUME k = "dictate", KeyUp(k), MayStop(k),
             Schedule(k, StopFlow(k), down[k], "stopping", "stopping")
      PROVE  FieldInv'
  <2>1. /\ dictate = "recording" /\ dictate' = "stopping"
        /\ nFlows + 1 \in Flows /\ nFlows' = nFlows + 1 /\ nFlows \in Nat
        /\ flow' = [flow EXCEPT ![nFlows + 1] = "dictate_stop"]
        /\ press' = [press EXCEPT ![nFlows + 1] = down["dictate"]]
        /\ at' = [at EXCEPT ![nFlows + 1] = "begin"]
    BY <1>6 DEF MayStop, Schedule, StopFlow
  <2>2. \A n \in Flows : ~Active(n)
    BY <1>6, <2>1 DEF KeyUp, StartsOf, StartFlow
  <2>3. target = down["dictate"]
    BY <2>1, <2>2
  <2> QED BY <1>1, <2>1, <2>2, <2>3
<1>7. ASSUME k = "dictate", dictate # "recording", Ignored
      PROVE  FieldInv'
  BY <1>1, <1>7 DEF Ignored, flowVars
<1>8. CASE KeyDown(k)
  <2>1. presses + 1 \in Presses /\ down'[k] = presses + 1 /\ down[k] = Nothing
    BY <1>8 DEF KeyTypeOK, KeyDown
  <2>2. k = "dictate" => dictate # "recording"
    BY <2>1
  <2> QED BY <1>2, <1>3, <1>4, <1>5, <1>7, <1>8, <2>1, <2>2 DEF KeyDown, Claim, StartFlow
<1>9. CASE KeyRepeat(k)
  <2>1. down[k] # Nothing /\ down'[k] = down[k]
    BY <1>9 DEF KeyTypeOK, KeyRepeat
  <2> QED BY <1>2, <1>4, <1>5, <1>9, <2>1 DEF KeyRepeat, Claim, StartFlow
<1>10. CASE KeyUp(k)
  BY <1>2, <1>3, <1>4, <1>6, <1>7, <1>10 DEF KeyUp, MayStop, StopFlow
<1> QED BY <1>8, <1>9, <1>10

LEMMA FieldFlow ==
    ASSUME PushToTalkTypeOK, FieldInv, NEW n \in Flows, FlowStep(n)
    PROVE  FieldInv'
<1> USE Ranks DEF PushToTalkTypeOK, FlowTypeOK, StateTypeOK
<1> USE DEF FieldInv, PasteInOwnField, Active, Goto, flowVars, keyVars
<1>1. CASE VoiceStartBegins(n)
  BY <1>1 DEF VoiceStartBegins
<1>2. CASE DictateStartBegins(n)
  BY <1>2 DEF DictateStartBegins
<1>3. CASE StartSucceeds(n)
  BY <1>3 DEF StartSucceeds
<1>4. CASE StartFails(n)
  BY <1>4 DEF StartFails
<1>5. CASE VoiceStopBegins(n)
  BY <1>5 DEF VoiceStopBegins
<1>6. CASE DictateStopBegins(n)
  BY <1>6 DEF DictateStopBegins
<1>7. CASE StopAnswered(n)
  BY <1>7 DEF StopAnswered
<1>8. CASE Rejected(n)
  BY <1>8 DEF Rejected
<1>9. CASE QueryModel(n)
  BY <1>9 DEF QueryModel
<1>10. CASE Paste(n)
  BY <1>10 DEF Paste
<1>11. CASE Leave(n)
  BY <1>11 DEF Leave
<1> QED BY <1>1, <1>2, <1>3, <1>4, <1>5, <1>6, <1>7, <1>8, <1>9, <1>10, <1>11 DEF FlowStep

LEMMA FieldStep == Patient /\ PushToTalkTypeOK /\ FieldInv /\ [KeysNext]_pttVars => FieldInv'
<1> SUFFICES ASSUME Patient, PushToTalkTypeOK, FieldInv, [KeysNext]_pttVars
             PROVE  FieldInv'
  OBVIOUS
<1>1. ASSUME NEW k \in Keys, KeyDown(k) \/ KeyRepeat(k) \/ KeyUp(k)
      PROVE  FieldInv'
  BY <1>1, FieldKey
<1>2. ASSUME NEW n \in Flows, FlowStep(n)
      PROVE  FieldInv'
  BY <1>2, FieldFlow
<1>3. CASE UNCHANGED <<keyVars, voice, dictate, target, flowVars, at, pasted>>
  BY <1>3 DEF FieldInv, PasteInOwnField, Active, keyVars, flowVars
<1> QED BY <1>1, <1>2, <1>3 DEF KeysNext, Serve, pttVars

(* With a user who holds a key until its recording has started, a dictation *)
(* never lands in the field of another press: not even when the voice key   *)
(* takes the recorder, a flow gives up, or the key is pressed again early.  *)
THEOREM PasteInOwnFieldHolds ==
    ASSUME Patient
    PROVE  KeysSpec => []PasteInOwnField
<1>1. KeysInit => FieldInv
  BY Ranks DEF KeysInit, FieldInv, PasteInOwnField, Active
<1>2. FieldInv => PasteInOwnField
  BY DEF FieldInv
<1>3. Patient
  OBVIOUS
<1>4. PushToTalkTypeOK /\ FieldInv /\ [KeysNext]_pttVars => FieldInv'
  BY <1>3, FieldStep
<1> QED BY <1>1, <1>2, <1>4, KeysTypeCorrect, PTL DEF KeysSpec

-----------------------------------------------------------------------------
(* The reader threads *)

\* Answers come to who asked; who waits has a call it waits for.
ReaderTyped ==
    /\ ReaderTypeOK
    /\ \A w \in Readers : \A r \in inbox[w] : r.no <= asked[r.from]
    /\ \A t \in waiting : todo[t] # <<>>

LEMMA FirstAndRest ==
    ASSUME NEW S, NEW s \in Seq(S), s # <<>>
    PROVE  /\ Head(s) \in S /\ Tail(s) \in Seq(S) /\ Head(s) = s[1] /\ 1 \in DOMAIN s
           /\ \A i \in DOMAIN Tail(s) : i + 1 \in DOMAIN s /\ Tail(s)[i] = s[i + 1]
OBVIOUS

LEMMA AtEnd ==
    ASSUME NEW S, NEW s \in Seq(S), NEW e \in S
    PROVE  /\ Append(s, e) \in Seq(S)
           /\ \A i \in DOMAIN Append(s, e) : (i \in DOMAIN s /\ Append(s, e)[i] = s[i]) \/ Append(s, e)[i] = e
OBVIOUS

LEMMA ShortCalls ==
    /\ <<>> \in Seq(Call)
    /\ \A w \in Readers : <<Wait(w)>> \in Seq(Call) /\ <<Question(w)>> \in Seq(Call) /\ <<Fire(w)>> \in Seq(Call)
    /\ \A v, w \in Readers : <<Wait(v), Fire(w)>> \in Seq(Call) /\ <<Wait(v), Wait(w)>> \in Seq(Call)
<1>1. \A w \in Readers : Wait(w) \in Call /\ Question(w) \in Call /\ Fire(w) \in Call
  BY DEF Wait, Question, Fire, Call
<1> HIDE DEF Call
<1>2. \A c \in Call : <<c>> \in Seq(Call)
  OBVIOUS
<1>3. \A c, d \in Call : <<c, d>> \in Seq(Call)
  OBVIOUS
<1> QED BY <1>1, <1>2, <1>3

LEMMA HandlerTypes == \A e \in EventNames : Handler[e] \subseteq Seq(Call)
<1>1. "ui" \in Readers /\ "audio" \in Readers /\ "brain" \in Readers
  BY DEF Readers
<1>2. \A e \in EventNames :
         Handler[e] \in {{<<Wait("audio")>>}, HealthRequested, {<<>>, <<Fire("ui")>>}, {<<>>, <<Wait("ui")>>},
                         {<<>>, <<Wait("ui"), Fire("ui")>>}, {<<Wait("ui")>>}, {<<>>}}
  <2>1. EventNames = {"ui.bubble.speed", "ui.health.requested", "ui.intent.cancelled", "audio.playing",
                      "audio.playback.done", "reply", "agent.approval.request", "live_file.approval.request"}
    BY DEF EventNames, EventsOf, Readers
  <2> QED BY <2>1 DEF Handler
<1> QED BY <1>1, <1>2, ShortCalls DEF HealthRequested

LEMMA StreamHandlerTypes == \A e \in EventNames : StreamHandler[e] \subseteq Seq(Call)
<1>1. "ui" \in Readers /\ "audio" \in Readers /\ "brain" \in Readers
  BY DEF Readers
<1>2. \A e \in EventNames :
         StreamHandler[e] \in {Handler[e], {<<Question("ui")>>}, {<<Wait("ui"), Fire("brain")>>}}
  BY DEF StreamHandler, Handler
<1> QED BY <1>1, <1>2, ShortCalls, HandlerTypes

LEMMA ReaderTypedInit == ReaderInit => ReaderTyped
BY ReaderWaitsAssumption DEF ReaderInit, ReaderTyped, ReaderTypeOK

\* A line at the end of a pipe.
LEMMA OutboxGrows ==
    ASSUME ReaderTyped, NEW w \in Readers, NEW m \in Message,
           m.no <= asked[m.from], m.type = "event" => m.name \in EventsOf[w],
           outbox' = [outbox EXCEPT ![w] = Append(@, m)], UNCHANGED asked
    PROVE  /\ outbox' \in [Readers -> Seq(Message)]
           /\ \A v \in Readers : \A i \in DOMAIN outbox'[v] :
                 /\ outbox'[v][i].no <= asked'[outbox'[v][i].from]
                 /\ outbox'[v][i].type = "event" => outbox'[v][i].name \in EventsOf[v]
<1>1. outbox \in [Readers -> Seq(Message)]
  BY DEF ReaderTyped, ReaderTypeOK
<1>2. /\ Append(outbox[w], m) \in Seq(Message)
      /\ \A i \in DOMAIN Append(outbox[w], m) :
            (i \in DOMAIN outbox[w] /\ Append(outbox[w], m)[i] = outbox[w][i]) \/ Append(outbox[w], m)[i] = m
  BY <1>1, AtEnd
<1>3. outbox' \in [Readers -> Seq(Message)] /\ outbox'[w] = Append(outbox[w], m)
      /\ \A v \in Readers \ {w} : outbox'[v] = outbox[v]
  BY <1>1, <1>2
<1> QED BY <1>2, <1>3 DEF ReaderTyped, ReaderTypeOK

\* A line is read.
LEMMA OutboxShrinks ==
    ASSUME ReaderTyped, NEW w \in Readers, outbox[w] # <<>>,
           outbox' = [outbox EXCEPT ![w] = Tail(@)], UNCHANGED asked
    PROVE  /\ outbox' \in [Readers -> Seq(Message)]
           /\ \A v \in Readers : \A i \in DOMAIN outbox'[v] :
                 /\ outbox'[v][i].no <= asked'[outbox'[v][i].from]
                 /\ outbox'[v][i].type = "event" => outbox'[v][i].name \in EventsOf[v]
<1>1. outbox \in [Readers -> Seq(Message)]
  BY DEF ReaderTyped, ReaderTypeOK
<1>2. /\ Tail(outbox[w]) \in Seq(Message)
      /\ \A i \in DOMAIN Tail(outbox[w]) : i + 1 \in DOMAIN outbox[w] /\ Tail(outbox[w])[i] = outbox[w][i + 1]
  BY <1>1, FirstAndRest
<1>3. outbox' \in [Readers -> Seq(Message)] /\ outbox'[w] = Tail(outbox[w])
      /\ \A v \in Readers \ {w} : outbox'[v] = outbox[v]
  BY <1>1, <1>2
<1> QED BY <1>2, <1>3 DEF ReaderTyped, ReaderTypeOK

\* What a thread that had a call does next.
LEMMA RestTypes ==
    ASSUME ReaderTyped, NEW t \in waiting, NEW answered \in BOOLEAN
    PROVE  Rest(t, answered) \subseteq Seq(Call)
<1>1. todo[t] \in Seq(Call) /\ todo[t] # <<>>
  BY DEF ReaderTyped, ReaderTypeOK
<1>2. Tail(todo[t]) \in Seq(Call)
  BY <1>1, FirstAndRest
<1>3. Decline \in Seq(Call)
  BY ShortCalls DEF Decline, Readers
<1> QED BY <1>2, <1>3 DEF Rest

LEMMA ReaderTypedNext == ReaderTyped /\ [ReadersNext]_readerVars => ReaderTyped'
<1> SUFFICES ASSUME ReaderTyped, [ReadersNext]_readerVars PROVE ReaderTyped'
  OBVIOUS
<1>1. ASSUME NEW w \in Readers, NEW e \in EventsOf[w], NEW t \in Waiters, EmitEvent(w, e, t)
      PROVE  ReaderTyped'
  <2>1. e \in EventNames
    BY DEF EventNames
  <2>2. Event(e, t) \in Message /\ Event(e, t).no = 0 /\ Event(e, t).from = t /\ Event(e, t).name = e
    BY <2>1 DEF Event, Message
  <2>3. asked[t] \in Nat
    BY DEF ReaderTyped, ReaderTypeOK
  <2>4. outbox' = [outbox EXCEPT ![w] = Append(@, Event(e, t))] /\ UNCHANGED <<inbox, todo, asked, waiting, woken>>
    BY <1>1 DEF EmitEvent
  <2>5. events' \in 0 .. MaxEvents
    BY <1>1, ReaderWaitsAssumption DEF EmitEvent, ReaderTyped, ReaderTypeOK
  <2> QED BY <2>2, <2>3, <2>4, <2>5, OutboxGrows DEF ReaderTyped, ReaderTypeOK
<1>2. ASSUME NEW w \in Readers, NEW r \in inbox[w], AnswerRequest(w, r)
      PROVE  ReaderTyped'
  <2>1. r \in RequestLine /\ r.no <= asked[r.from]
    BY DEF ReaderTyped, ReaderTypeOK
  <2>2. Answer(r) \in Message /\ Answer(r).no = r.no /\ Answer(r).from = r.from /\ Answer(r).type = "answer"
    BY <2>1 DEF Answer, Message, RequestLine
  <2>3. outbox' = [outbox EXCEPT ![w] = Append(@, Answer(r))] /\ UNCHANGED <<events, todo, asked, waiting, woken>>
    BY <1>2 DEF AnswerRequest
  <2>4. inbox' \in [Readers -> SUBSET RequestLine] /\ \A v \in Readers : inbox'[v] \subseteq inbox[v]
    BY <1>2 DEF AnswerRequest, ReaderTyped, ReaderTypeOK
  <2> QED BY <2>1, <2>2, <2>3, <2>4, OutboxGrows DEF ReaderTyped, ReaderTypeOK
<1>3. ASSUME NEW w \in Readers, TakeEvent(w)
      PROVE  ReaderTyped'
  <2>1. outbox[w] \in Seq(Message) /\ outbox[w] # <<>>
    BY <1>3 DEF TakeEvent, ReaderTyped, ReaderTypeOK
  <2>2. Head(outbox[w]) = outbox[w][1] /\ 1 \in DOMAIN outbox[w]
    BY <2>1, FirstAndRest
  <2>3. Head(outbox[w]).name \in EventNames
    <3>1. Head(outbox[w]).name \in EventsOf[w]
      BY <1>3, <2>2 DEF TakeEvent, ReaderTyped, ReaderTypeOK
    <3> QED BY <3>1 DEF EventNames
  <2>4. HandlerOf(Head(outbox[w])) \subseteq Seq(Call)
    BY <2>3, HandlerTypes, StreamHandlerTypes DEF HandlerOf
  <2>5. PICK calls \in Seq(Call) : todo' = [todo EXCEPT ![w] = calls]
    BY <1>3, <2>4 DEF TakeEvent
  <2>6. outbox' = [outbox EXCEPT ![w] = Tail(@)] /\ UNCHANGED <<inbox, events, asked, waiting, woken>>
        /\ todo[w] = <<>>
    BY <1>3 DEF TakeEvent
  <2>7. todo' \in [Waiters -> Seq(Call)] /\ \A t \in waiting : todo'[t] # <<>>
    BY <2>5, <2>6 DEF ReaderTyped, ReaderTypeOK
  <2> QED BY <2>1, <2>6, <2>7, OutboxShrinks DEF ReaderTyped, ReaderTypeOK
<1>4. ASSUME NEW w \in Readers, TakeAnswer(w)
      PROVE  ReaderTyped'
  <2>1. outbox[w] # <<>> /\ outbox' = [outbox EXCEPT ![w] = Tail(@)]
        /\ UNCHANGED <<inbox, events, todo, asked, waiting>>
    BY <1>4 DEF TakeAnswer
  <2>2. woken' \subseteq waiting
    BY <1>4 DEF TakeAnswer, Wakes, ReaderTyped, ReaderTypeOK
  <2> QED BY <2>1, <2>2, OutboxShrinks DEF ReaderTyped, ReaderTypeOK
<1>5. ASSUME NEW t \in Waiters, BeginCall(t)
      PROVE  ReaderTyped'
  <2>1. FlowCalls \subseteq Seq(Call)
    BY ShortCalls DEF FlowCalls
  <2>2. PICK calls \in Seq(Call) : todo' = [todo EXCEPT ![t] = calls]
    BY <1>5, <2>1 DEF BeginCall
  <2>3. UNCHANGED <<outbox, inbox, events, asked, waiting, woken>> /\ todo[t] = <<>>
    BY <1>5 DEF BeginCall
  <2> QED BY <2>2, <2>3 DEF ReaderTyped, ReaderTypeOK
<1>6. ASSUME NEW t \in Waiters, Ask(t)
      PROVE  ReaderTyped'
  <2> DEFINE call == Head(todo[t])
             line == [from |-> t, no |-> asked[t] + 1]
  <2>1. todo[t] \in Seq(Call) /\ todo[t] # <<>> /\ t \notin waiting /\ asked[t] \in Nat
    BY <1>6 DEF Ask, ReaderTyped, ReaderTypeOK
  <2>2. call \in Call /\ Tail(todo[t]) \in Seq(Call)
    BY <2>1, FirstAndRest
  <2>3. asked' = [asked EXCEPT ![t] = @ + 1] /\ UNCHANGED <<outbox, events, woken>>
        /\ inbox' = [inbox EXCEPT ![call.to] = @ \cup {line}]
    BY <1>6 DEF Ask
  <2>4. \A s \in Waiters : asked'[s] \in Nat /\ asked[s] <= asked'[s]
    BY <2>3 DEF ReaderTyped, ReaderTypeOK
  <2>5. asked' \in [Waiters -> Nat]
    BY <2>3 DEF ReaderTyped, ReaderTypeOK
  <2>6. line \in RequestLine /\ line.no <= asked'[line.from]
    BY <2>1, <2>3 DEF RequestLine, ReaderTyped, ReaderTypeOK
  <2>7. call.to \in Readers
    BY <2>2 DEF Call
  <2>8. inbox' \in [Readers -> SUBSET RequestLine]
    BY <2>3, <2>6, <2>7 DEF ReaderTyped, ReaderTypeOK
  <2>9. \A w \in Readers : \A r \in inbox'[w] : r.no <= asked'[r.from]
    <3> SUFFICES ASSUME NEW w \in Readers, NEW r \in inbox'[w] PROVE r.no <= asked'[r.from]
      OBVIOUS
    <3>1. r = line \/ r \in inbox[w]
      BY <2>3, <2>7 DEF ReaderTyped, ReaderTypeOK
    <3>2. CASE r \in inbox[w]
      <4>1. r \in RequestLine /\ r.no <= asked[r.from]
        BY <3>2 DEF ReaderTyped, ReaderTypeOK
      <4>2. r.no \in Nat /\ r.from \in Waiters /\ asked[r.from] \in Nat
        BY <4>1 DEF RequestLine, ReaderTyped, ReaderTypeOK
      <4> QED BY <2>4, <4>1, <4>2
    <3> QED BY <2>6, <3>1, <3>2
  <2>10. \A w \in Readers : \A i \in DOMAIN outbox[w] : outbox[w][i].no <= asked'[outbox[w][i].from]
    <3> SUFFICES ASSUME NEW w \in Readers, NEW i \in DOMAIN outbox[w]
                 PROVE  outbox[w][i].no <= asked'[outbox[w][i].from]
      OBVIOUS
    <3>1. outbox[w][i] \in Message /\ outbox[w][i].no <= asked[outbox[w][i].from]
      BY DEF ReaderTyped, ReaderTypeOK
    <3>2. outbox[w][i].no \in Nat /\ outbox[w][i].from \in Waiters /\ asked[outbox[w][i].from] \in Nat
      BY <3>1 DEF Message, ReaderTyped, ReaderTypeOK
    <3> QED BY <2>4, <3>1, <3>2
  <2>11. /\ todo' \in [Waiters -> Seq(Call)] /\ waiting' \subseteq Waiters /\ waiting \subseteq waiting'
         /\ \A s \in waiting' : todo'[s] # <<>>
    <3>1. CASE call.how = "fire"
      <4>1. todo' = [todo EXCEPT ![t] = Tail(@)] /\ waiting' = waiting
        BY <1>6, <3>1 DEF Ask
      <4>2. todo' \in [Waiters -> Seq(Call)]
        BY <2>2, <4>1 DEF ReaderTyped, ReaderTypeOK
      <4>3. \A s \in waiting : todo'[s] = todo[s]
        BY <2>1, <4>1 DEF ReaderTyped, ReaderTypeOK
      <4> QED BY <4>1, <4>2, <4>3 DEF ReaderTyped, ReaderTypeOK
    <3>2. CASE call.how # "fire"
      BY <1>6, <2>1, <3>2 DEF Ask, ReaderTyped, ReaderTypeOK
    <3> QED BY <3>1, <3>2
  <2> HIDE DEF call, line
  <2> QED BY <2>3, <2>5, <2>8, <2>9, <2>10, <2>11 DEF ReaderTyped, ReaderTypeOK
<1>7. ASSUME NEW t \in Waiters, GoOn(t) \/ GiveUp(t)
      PROVE  ReaderTyped'
  <2>1. t \in waiting /\ waiting' = waiting \ {t} /\ woken' = woken \ {t}
        /\ UNCHANGED <<outbox, inbox, events, asked>>
    BY <1>7 DEF GoOn, GiveUp
  <2>2. Rest(t, TRUE) \subseteq Seq(Call) /\ Rest(t, FALSE) \subseteq Seq(Call)
    BY <2>1, RestTypes
  <2>3. PICK calls \in Seq(Call) : todo' = [todo EXCEPT ![t] = calls]
    BY <1>7, <2>2 DEF GoOn, GiveUp
  <2> QED BY <2>1, <2>3 DEF ReaderTyped, ReaderTypeOK
<1>8. CASE UNCHANGED readerVars
  BY <1>8 DEF readerVars, ReaderTyped, ReaderTypeOK
<1> QED
  BY <1>1, <1>2, <1>3, <1>4, <1>5, <1>6, <1>7, <1>8 DEF ReadersNext, ReaderStep, WaiterStep

\* Every variable of the reader threads keeps its type, for any number of flows and events: an
\* answer in a pipe belongs to a request that was made, and who waits waits for a call of its own
\* (flows.py:2700-2762, ipc.py:112-126, 241-279).
THEOREM ReaderTypeCorrect == ReadersSpec => []ReaderTypeOK
<1>1. ReaderTyped => ReaderTypeOK
  BY DEF ReaderTyped
<1> QED BY <1>1, ReaderTypedInit, ReaderTypedNext, PTL DEF ReadersSpec

-----------------------------------------------------------------------------
(* The composition *)

\* A step is one of one part, and leaves the others alone.
LEMMA OnePartMoves ==
    [SupervisorNext]_<<part, vars, pttVars, readerVars>>
        => [Next]_vars /\ [KeysNext]_pttVars /\ [ReadersNext]_readerVars
BY DEF SupervisorNext

\* The parts share no state: each of them behaves as it does on its own.
THEOREM PartsOfTheSupervisor == SupervisorSpec => Spec /\ KeysSpec /\ ReadersSpec
<1>1. SupervisorInit => Init /\ KeysInit /\ ReaderInit
  BY DEF SupervisorInit
<1> QED BY <1>1, OnePartMoves, PTL DEF SupervisorSpec, Spec, KeysSpec, ReadersSpec

\* Every variable keeps its type, for any number of requests, presses, flows and events.
THEOREM SupervisorTypeCorrect == SupervisorSpec => []SupervisorTypeOK
<1>1. TypeOK /\ PushToTalkTypeOK /\ ReaderTypeOK => SupervisorTypeOK
  BY DEF SupervisorTypeOK
<1> QED
  BY <1>1, PartsOfTheSupervisor, TypeCorrect, KeysTypeCorrect, ReaderTypeCorrect, PTL

=============================================================================
