----------------------------- MODULE PushToTalk -----------------------------
(***************************************************************************)
(* The two push-to-talk keys of runtime/supervisor/flows.py: F9 asks the   *)
(* model by voice, F8 dictates into the focused field.  A key event claims *)
(* a transition of _voice_state or _dictate_state on the reader thread of  *)
(* the native worker, then schedules a flow on a thread of its own.  All   *)
(* flows share one recorder, which serves their requests in any order      *)
(* (RecorderContract, implemented by SttRecorder).                         *)
(*                                                                         *)
(* A flow is named by its rank, and so is the request it makes; a press of *)
(* a key is named by its rank among the presses of both keys.              *)
(***************************************************************************)
EXTENDS Naturals

CONSTANTS
    Keys,         \* the keys in use: voice, dictate
    MaxPresses,   \* bound: how often the user presses a key
    MaxRepeats,   \* bound: auto-repeats of a held key that schedule a flow
    Patient,      \* the user holds a key until its start flow is over
    MicMayFail,   \* the microphone may not open
    MayTimeOut    \* a flow may give up on the recorder

Presses == 1 .. MaxPresses
Flows   == 1 .. 2 * MaxPresses + MaxRepeats
Nothing == 0

ASSUME PushToTalkAssumption ==
    /\ Keys \subseteq {"voice", "dictate"}
    /\ MaxPresses \in Nat /\ MaxRepeats \in Nat
    /\ {Patient, MicMayFail, MayTimeOut} \subseteq BOOLEAN

VARIABLES
    down,      \* the press that holds each key down, or Nothing
    presses,   \* how many presses there were
    repeats,   \* how many auto-repeats scheduled a flow
    voice,     \* _voice_state
    dictate,   \* _dictate_state
    target,    \* _dictate_target_pid and _dictate_focus_token: the field of a press
    nFlows,    \* how many flows were scheduled
    flow,      \* what each flow is
    press,     \* the press each flow comes from
    at,        \* where each flow is
    pasted,    \* the field each dictation was pasted into
    rec, opener, status, got    \* the recorder

keyVars  == <<down, presses, repeats>>
flowVars == <<nFlows, flow, press>>
recVars  == <<rec, opener, status, got>>
pttVars == <<keyVars, voice, dictate, target, flowVars, at, pasted, recVars>>

Recorder == INSTANCE RecorderContract WITH Starts <- Flows, Stops <- Flows, None <- Nothing

KeyTypeOK ==
    /\ down \in [Keys -> Presses \cup {Nothing}]
    /\ presses \in 0 .. MaxPresses
    /\ repeats \in 0 .. MaxRepeats

FlowTypeOK ==
    /\ nFlows \in Flows \cup {0}
    /\ flow \in [Flows -> {"none", "voice_start", "voice_stop", "dictate_start", "dictate_stop"}]
    /\ press \in [Flows -> Presses \cup {Nothing}]
    /\ at \in [Flows -> {"none", "begin", "called", "confirm", "deliver", "leaving", "done"}]

StateTypeOK ==
    /\ voice \in {"idle", "starting", "recording", "stopping"}
    /\ dictate \in {"idle", "recording", "stopping"}
    /\ target \in Presses \cup {Nothing}
    /\ pasted \in [Flows -> Presses \cup {Nothing}]

PushToTalkTypeOK == KeyTypeOK /\ FlowTypeOK /\ StateTypeOK /\ Recorder!TypeOK

KeysInit ==
    /\ down = [k \in Keys |-> Nothing]
    /\ presses = 0
    /\ repeats = 0
    /\ voice = "idle"
    /\ dictate = "idle"
    /\ target = Nothing
    /\ nFlows = 0
    /\ flow = [n \in Flows |-> "none"]
    /\ press = [n \in Flows |-> Nothing]
    /\ at = [n \in Flows |-> "none"]
    /\ pasted = [n \in Flows |-> Nothing]
    /\ Recorder!Init

-----------------------------------------------------------------------------
(* Key events: a claim, under _lock, and the flow it schedules *)

MayStart_NoStateCheck(k) == voice = "idle"

(* _claim_voice_start looks at voice, _claim_dictate_start at both *)
MayStart(k) == voice = "idle" /\ (k = "dictate" => dictate = "idle")

(* _claim_voice_stop, _claim_dictate_stop *)
MayStop(k) ==
    \/ k = "voice" /\ voice # "idle"
    \/ k = "dictate" /\ dictate = "recording"

(* The claimed state, and a thread for the flow: every press and repeat    *)
(* schedules one flow at most and every release another, so that Flows are *)
(* enough for all of them                                                  *)
Schedule(k, what, p, voiceState, dictateState) ==
    /\ nFlows + 1 \in Flows
    /\ voice' = IF k = "voice" THEN voiceState ELSE voice
    /\ dictate' = IF k = "dictate" THEN dictateState ELSE dictate
    /\ nFlows' = nFlows + 1
    /\ flow' = [flow EXCEPT ![nFlows + 1] = what]
    /\ press' = [press EXCEPT ![nFlows + 1] = p]
    /\ at' = [at EXCEPT ![nFlows + 1] = "begin"]

StartFlow(k) == IF k = "voice" THEN "voice_start" ELSE "dictate_start"
StopFlow(k)  == IF k = "voice" THEN "voice_stop" ELSE "dictate_stop"

Claim(k, p) ==
    /\ MayStart(k)
    /\ Schedule(k, StartFlow(k), p, "starting", "recording")

Ignored == UNCHANGED <<voice, dictate, flowVars, at>>

KeyDown(k) ==
    /\ down[k] = Nothing
    /\ presses < MaxPresses
    /\ presses' = presses + 1
    /\ down' = [down EXCEPT ![k] = presses + 1]
    /\ \/ Claim(k, presses + 1)
       \/ ~MayStart(k) /\ Ignored
    /\ UNCHANGED <<repeats, target, pasted, recVars>>

(* A held key repeats; the repeats that are refused change nothing *)
KeyRepeat(k) ==
    /\ down[k] # Nothing
    /\ repeats < MaxRepeats
    /\ repeats' = repeats + 1
    /\ Claim(k, down[k])
    /\ UNCHANGED <<down, presses, target, pasted, recVars>>

StartsOf(k) == {n \in Flows : flow[n] = StartFlow(k)}

KeyUp(k) ==
    /\ down[k] # Nothing
    /\ Patient => \A n \in StartsOf(k) : at[n] = "done"
    /\ down' = [down EXCEPT ![k] = Nothing]
    /\ \/ MayStop(k) /\ Schedule(k, StopFlow(k), down[k], "stopping", "stopping")
       \/ ~MayStop(k) /\ Ignored
    /\ UNCHANGED <<presses, repeats, target, pasted, recVars>>

-----------------------------------------------------------------------------
(* The flows *)

Goto(n, place) == at' = [at EXCEPT ![n] = place]

(* voice_start: _ensure_voice_start_claimed, then record.start *)
VoiceStartBegins(n) ==
    /\ flow[n] = "voice_start" /\ at[n] = "begin"
    /\ voice' = IF voice = "idle" THEN "starting" ELSE voice
    /\ Recorder!Ask(n)
    /\ Goto(n, "called")
    /\ UNCHANGED <<keyVars, dictate, target, flowVars, pasted>>

(* dictate_start: the focused field is remembered, then record.start *)
DictateStartBegins(n) ==
    /\ flow[n] = "dictate_start" /\ at[n] = "begin"
    /\ target' = press[n]
    /\ Recorder!Ask(n)
    /\ Goto(n, "called")
    /\ UNCHANGED <<keyVars, voice, dictate, flowVars, pasted>>

(* _mark_voice_recording, once the recorder runs *)
StartSucceeds(n) ==
    /\ flow[n] \in {"voice_start", "dictate_start"} /\ at[n] = "called"
    /\ status[n] = "opened"
    /\ voice' = IF flow[n] = "voice_start" /\ voice = "starting" THEN "recording" ELSE voice
    /\ Goto(n, "done")
    /\ UNCHANGED <<keyVars, dictate, target, flowVars, pasted, recVars>>

(* The recorder failed, or did not answer in time *)
Failed(n) ==
    \/ status[n] \in {"failed", "error"}
    \/ MayTimeOut /\ status[n] \in {"asked", "taken"}

(* A start that failed shows a notice before it marks the state idle *)
StartFails(n) ==
    /\ flow[n] \in {"voice_start", "dictate_start"} /\ at[n] = "called"
    /\ Failed(n)
    /\ Goto(n, "leaving")
    /\ UNCHANGED <<keyVars, voice, dictate, target, flowVars, pasted, recVars>>

(* voice_stop: _ensure_voice_stop_claimed, then record.stop_transcribe *)
VoiceStopBegins(n) ==
    /\ flow[n] = "voice_stop" /\ at[n] = "begin"
    /\ \/ voice = "idle" /\ Goto(n, "done") /\ UNCHANGED <<voice, recVars>>
       \/ voice # "idle" /\ voice' = "stopping" /\ Recorder!Ask(n) /\ Goto(n, "called")
    /\ UNCHANGED <<keyVars, dictate, target, flowVars, pasted>>

DictateStopBegins(n) ==
    /\ flow[n] = "dictate_stop" /\ at[n] = "begin"
    /\ Recorder!Ask(n)
    /\ Goto(n, "called")
    /\ UNCHANGED <<keyVars, voice, dictate, target, flowVars, pasted>>

(* A transcript goes to the user for confirmation; without one, or on an   *)
(* exception, the flow leaves                                              *)
StopAnswered(n) ==
    /\ flow[n] \in {"voice_stop", "dictate_stop"} /\ at[n] = "called"
    /\ \/ status[n] = "text" /\ Goto(n, "confirm")
       \/ status[n] = "empty" /\ Goto(n, "leaving")
       \/ Failed(n) /\ Goto(n, "leaving")
    /\ UNCHANGED <<keyVars, voice, dictate, target, flowVars, pasted, recVars>>

(* Not accepted, or shown in the intent picker for review *)
Rejected(n) ==
    /\ at[n] = "confirm"
    /\ Goto(n, "leaving")
    /\ UNCHANGED <<keyVars, voice, dictate, target, flowVars, pasted, recVars>>

(* voice_stop marks voice idle, then asks the model; the flow goes on until *)
(* the reply is complete                                                    *)
QueryModel(n) ==
    /\ flow[n] = "voice_stop" /\ at[n] = "confirm"
    /\ voice' = "idle"
    /\ Goto(n, "deliver")
    /\ UNCHANGED <<keyVars, dictate, target, flowVars, pasted, recVars>>

(* dictate_stop pastes into the field remembered last *)
Paste(n) ==
    /\ flow[n] = "dictate_stop" /\ at[n] = "confirm"
    /\ pasted' = [pasted EXCEPT ![n] = target]
    /\ Goto(n, "deliver")
    /\ UNCHANGED <<keyVars, voice, dictate, target, flowVars, recVars>>

Leave_OnlyAfterText(n) ==
    /\ at[n] \in {"leaving", "deliver"}
    /\ voice' = IF flow[n] = "voice_start" \/ (flow[n] = "voice_stop" /\ at[n] = "deliver")
                THEN "idle" ELSE voice
    /\ dictate' = IF flow[n] \in {"dictate_start", "dictate_stop"} THEN "idle" ELSE dictate
    /\ Goto(n, "done")
    /\ UNCHANGED <<keyVars, target, flowVars, pasted, recVars>>

(* _mark_voice_idle or _mark_dictate_idle: a failed start, or the finally  *)
(* clause of a stop                                                        *)
Leave(n) ==
    /\ at[n] \in {"leaving", "deliver"}
    /\ voice' = IF flow[n] \in {"voice_start", "voice_stop"} THEN "idle" ELSE voice
    /\ dictate' = IF flow[n] \in {"dictate_start", "dictate_stop"} THEN "idle" ELSE dictate
    /\ Goto(n, "done")
    /\ UNCHANGED <<keyVars, target, flowVars, pasted, recVars>>

FlowStep(n) ==
    \/ VoiceStartBegins(n) \/ DictateStartBegins(n) \/ StartSucceeds(n) \/ StartFails(n)
    \/ VoiceStopBegins(n) \/ DictateStopBegins(n) \/ StopAnswered(n)
    \/ Rejected(n) \/ QueryModel(n) \/ Paste(n) \/ Leave(n)

-----------------------------------------------------------------------------
(* The recorder serves a request, whether its flow still waits or not *)
Serve(n) ==
    /\ \/ flow[n] \in {"voice_start", "dictate_start"}
          /\ (Recorder!Clear(n) \/ Recorder!Open(n) \/ (MicMayFail /\ Recorder!Fail(n)))
       \/ flow[n] \in {"voice_stop", "dictate_stop"}
          /\ (Recorder!Take(n) \/ \E result \in {"text", "empty"} : Recorder!Answer(n, result))
       \/ flow[n] \in {"voice_stop", "dictate_stop"}
          /\ MicMayFail /\ Recorder!Answer(n, "error")
    /\ UNCHANGED <<keyVars, voice, dictate, target, flowVars, at, pasted>>

KeysNext ==
    \/ \E k \in Keys : KeyDown(k) \/ KeyRepeat(k) \/ KeyUp(k)
    \/ \E n \in Flows : FlowStep(n) \/ Serve(n)

KeysSpec == KeysInit /\ [][KeysNext]_pttVars

(* Flows are scheduled, every call of theirs has a timeout, the recorder   *)
(* serves its requests (RequestsReturn), and no key is held for ever.      *)
KeysFairness ==
    /\ \A n \in Flows : WF_pttVars(FlowStep(n)) /\ WF_pttVars(Serve(n))
    /\ \A k \in Keys : WF_pttVars(KeyUp(k))

KeysFairSpec == KeysSpec /\ KeysFairness

-----------------------------------------------------------------------------
(* Properties *)

(* A dictation is pasted into the field that had the focus when its key    *)
(* went down, although all dictations share one slot for it and the voice  *)
(* key may steal the recorder meanwhile (dictate_stop: "paste into the     *)
(* text field that was focused when recording started").                   *)
PasteInOwnField ==
    \A n \in Flows : pasted[n] # Nothing => pasted[n] = press[n]

(* Both keys come back: once the user lets go, no failure, timeout or      *)
(* collision of the two leaves a state in which a key is refused for ever. *)
KeysComeBack == <>[](voice = "idle" /\ dictate = "idle")

(* "Mutually exclusive with voice push-to-talk (one shared recorder)": no  *)
(* dictation is in progress together with a voice request.                 *)
OneRecorderUser == voice = "idle" \/ dictate = "idle"

AtRest ==
    /\ \A k \in Keys : down[k] = Nothing
    /\ \A n \in Flows : at[n] \in {"none", "done"} /\ status[n] \notin {"asked", "taken"}

(* "Hold F9, speak, then release": once the key is up and every flow is    *)
(* over, the microphone is closed again.                                   *)
MicClosedAtRest == AtRest => rec = Nothing

=============================================================================
