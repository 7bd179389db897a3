---------------------------- MODULE SttRecorder ----------------------------
(***************************************************************************)
(* The microphone recorder of the audio worker,                            *)
(* core/macos_helper/handlers.py: request threads that start and stop a    *)
(* recording under _recording_lock, the PortAudio callback that appends    *)
(* samples, and the background thread that transcribes settled windows     *)
(* while the recording goes on, so that only a tail is left at the end.    *)
(*                                                                         *)
(* A recording, its background thread and the thread's stop event are      *)
(* named by the start request that made them.  Audio is counted in         *)
(* samples; a transcript is the set of the windows it is made of.          *)
(***************************************************************************)
EXTENDS Integers

CONSTANTS
    Starts,       \* activations of stt_start_recording
    Stops,        \* activations of stt_stop_and_transcribe
    Settings,     \* values of the STT_BACKGROUND_CHUNK_* settings, in samples
    MaxSamples,   \* bound: length of a recording
    MayFail,      \* whether transcribing a window may raise
    None          \* no request, no recording

Requests == Starts \cup Stops

ASSUME RecorderAssumption ==
    /\ Settings \subseteq [first : Nat, step : Nat, overlap : Nat, delay : Nat]
    /\ MaxSamples \in Nat
    /\ MayFail \in BOOLEAN
    /\ Starts \cap Stops = {}
    /\ None \notin Requests

(* What a change of the settings while a recording runs must respect: the  *)
(* background thread reads first and its step once, but computes where     *)
(* each window starts from the settings of the moment.                     *)
ASSUME CadenceAssumption ==
    \A s, t \in Settings :
        /\ s.step <= t.step + t.overlap
        /\ s.first <= t.first \/ s.first <= t.step + t.overlap

VARIABLES
    settings,    \* the current settings
    lock,        \* holder of _recording_lock
    pc,          \* where each request is
    recording,   \* _recording
    mic,         \* the stream of _stream is open
    take,        \* the recording whose samples _chunks holds
    chunks,      \* how many samples _chunks holds
    current,     \* _stt_bg_thread and _stt_bg_stop
    stopped,     \* background threads whose stop event is set
    bg,          \* where each background thread is
    step,        \* the step each background thread read when it began
    nextEnd,     \* next_end of each background thread
    window,      \* the window each background thread works on
    results,     \* _stt_bg_results
    heard,       \* samples that a window covered, transcribed or found silent
    taken,       \* the samples each stop request took
    parts,       \* the background results each stop request took
    tailStart,   \* where its tail begins
    outcome      \* how each request ended

micVars  == <<recording, mic, take, chunks>>
bgVars   == <<bg, step, nextEnd, window>>
stopVars == <<taken, parts, tailStart>>
vars == <<settings, lock, pc, micVars, current, stopped, bgVars, results, heard,
          stopVars, outcome>>

Window == [take : Starts \cup {None}, start : Nat, end : Nat, captured : Nat]
NoWindow == [take |-> None, start |-> 0, end |-> 0, captured |-> 0]

RequestTypeOK ==
    /\ lock \in Requests \cup {None}
    /\ pc \in [Requests -> {"idle", "called", "joining", "opening", "signal",
                            "collecting", "tail", "done"}]
    /\ tailStart \in [Stops -> Nat]
    /\ outcome \in [Requests -> {"none", "started", "no microphone", "empty", "text", "error"}]

CaptureTypeOK ==
    /\ settings \in Settings
    /\ recording \in BOOLEAN
    /\ mic \in BOOLEAN
    /\ take \in Starts \cup {None}
    /\ chunks \in Nat

ThreadTypeOK ==
    /\ current \in Starts \cup {None}
    /\ stopped \subseteq Starts
    /\ bg \in [Starts -> {"none", "born", "poll", "due", "transcribe", "dead"}]
    /\ step \in [Starts -> Nat]
    /\ nextEnd \in [Starts -> Nat]
    /\ window \in [Starts -> Window]

ResultTypeOK ==
    /\ results \subseteq Window
    /\ heard \subseteq (Starts \cup {None}) \X Nat
    /\ taken \in [Stops -> [take : Starts \cup {None}, total : Nat]]
    /\ parts \in [Stops -> SUBSET Window]

TypeOK == RequestTypeOK /\ CaptureTypeOK /\ ThreadTypeOK /\ ResultTypeOK

Init ==
    /\ settings \in Settings
    /\ lock = None
    /\ pc = [r \in Requests |-> "idle"]
    /\ recording = FALSE
    /\ mic = FALSE
    /\ take = None
    /\ chunks = 0
    /\ current = None
    /\ stopped = {}
    /\ bg = [k \in Starts |-> "none"]
    /\ step = [k \in Starts |-> 0]
    /\ nextEnd = [k \in Starts |-> 0]
    /\ window = [k \in Starts |-> NoWindow]
    /\ results = {}
    /\ heard = {}
    /\ taken = [r \in Stops |-> [take |-> None, total |-> 0]]
    /\ parts = [r \in Stops |-> {}]
    /\ tailStart = [r \in Stops |-> 0]
    /\ outcome = [r \in Requests |-> "none"]

-----------------------------------------------------------------------------
(* The requests: audio.record.start and audio.record.stop_transcribe, each *)
(* on a thread of its own                                                  *)

Request(r) ==
    /\ pc[r] = "idle"
    /\ pc' = [pc EXCEPT ![r] = "called"]
    /\ UNCHANGED <<settings, lock, micVars, current, stopped, bgVars, results, heard,
                   stopVars, outcome>>

SignalBackground_Lost == UNCHANGED stopped

(* _stop_background_stt up to its join *)
SignalBackground == stopped' = stopped \cup ({current} \ {None})

BackgroundOver_NoJoin == TRUE

(* thread.join() returns *)
BackgroundOver == current # None => bg[current] = "dead"

(* stt_start_recording: the lock, and the stop event of an old thread *)
AcquireStart(r) ==
    /\ pc[r] = "called"
    /\ lock = None
    /\ lock' = r
    /\ SignalBackground
    /\ pc' = [pc EXCEPT ![r] = "joining"]
    /\ UNCHANGED <<settings, micVars, current, bgVars, results, heard, stopVars, outcome>>

Rearm_KeepsStream(r) ==
    /\ pc[r] = "joining"
    /\ BackgroundOver
    /\ current' = None
    /\ results' = {}
    /\ recording' = TRUE
    /\ chunks' = 0
    /\ take' = r
    /\ pc' = [pc EXCEPT ![r] = "opening"]
    /\ UNCHANGED <<settings, lock, mic, stopped, bgVars, heard, stopVars, outcome>>

(* The old thread is over, the old stream closed, the buffer cleared *)
Rearm(r) ==
    /\ pc[r] = "joining"
    /\ BackgroundOver
    /\ current' = None
    /\ results' = {}
    /\ mic' = FALSE
    /\ recording' = TRUE
    /\ chunks' = 0
    /\ take' = r
    /\ pc' = [pc EXCEPT ![r] = "opening"]
    /\ UNCHANGED <<settings, lock, stopped, bgVars, heard, stopVars, outcome>>

(* Both steps that end a start release the lock *)
Started(r, result) ==
    /\ pc[r] = "opening"
    /\ lock' = None
    /\ pc' = [pc EXCEPT ![r] = "done"]
    /\ outcome' = [outcome EXCEPT ![r] = result]
    /\ UNCHANGED <<settings, take, chunks, stopped, step, nextEnd, window, results, heard, stopVars>>

(* The stream is open: _start_background_stt *)
Opened(r) ==
    /\ Started(r, "started")
    /\ mic' = TRUE
    /\ current' = r
    /\ bg' = [bg EXCEPT ![r] = "born"]
    /\ UNCHANGED recording

NoMicrophone_KeepsFlag(r) ==
    /\ Started(r, "no microphone")
    /\ UNCHANGED <<recording, mic, current, bg>>

(* The stream does not open *)
NoMicrophone(r) ==
    /\ Started(r, "no microphone")
    /\ recording' = FALSE
    /\ UNCHANGED <<mic, current, bg>>

TakeChunks_Kept(r) ==
    /\ taken' = [taken EXCEPT ![r] = [take |-> take, total |-> chunks]]
    /\ UNCHANGED chunks

(* The stop request takes the samples *)
TakeChunks(r) ==
    /\ taken' = [taken EXCEPT ![r] = [take |-> take, total |-> chunks]]
    /\ chunks' = 0

(* stt_stop_and_transcribe: the lock, the stream closed, the samples taken *)
AcquireStop(r) ==
    /\ pc[r] = "called"
    /\ lock = None
    /\ lock' = r
    /\ recording' = FALSE
    /\ mic' = FALSE
    /\ TakeChunks(r)
    /\ pc' = [pc EXCEPT ![r] = "signal"]
    /\ UNCHANGED <<settings, take, current, stopped, bgVars, results, heard,
                   parts, tailStart, outcome>>

SignalStop(r) ==
    /\ pc[r] = "signal"
    /\ SignalBackground
    /\ pc' = [pc EXCEPT ![r] = "collecting"]
    /\ UNCHANGED <<settings, lock, micVars, current, bgVars, results, heard, stopVars, outcome>>

(* The thread is over: its results are taken, the lock is released *)
Collect(r) ==
    /\ pc[r] = "collecting"
    /\ BackgroundOver
    /\ current' = None
    /\ parts' = [parts EXCEPT ![r] = results]
    /\ results' = {}
    /\ lock' = None
    /\ pc' = [pc EXCEPT ![r] = "tail"]
    /\ UNCHANGED <<settings, micVars, stopped, bgVars, heard, taken, tailStart, outcome>>

(* max(0, a - b) *)
Less(a, b) == IF a <= b THEN 0 ELSE a - b

TailMayStart_Ahead(r, x) ==
    \/ parts[r] = {} /\ x = 0
    \/ \E w \in parts[r] : /\ \A v \in parts[r] : v.end <= w.end
                           /\ x = w.end + settings.overlap

(* Where the tail may begin: a little before the end of the last window    *)
(* that gave text, at zero when none did                                   *)
TailMayStart(r, x) ==
    \/ parts[r] = {} /\ x = 0
    \/ \E w \in parts[r] : /\ \A v \in parts[r] : v.end <= w.end
                           /\ x = Less(w.end, settings.overlap)

(* Outside the lock: the tail is transcribed and the parts are merged *)
Transcribe(r, x) ==
    /\ pc[r] = "tail"
    /\ TailMayStart(r, x)
    /\ pc' = [pc EXCEPT ![r] = "done"]
    /\ tailStart' = [tailStart EXCEPT ![r] = x]
    /\ \/ taken[r].total = 0 /\ outcome' = [outcome EXCEPT ![r] = "empty"]
       \/ taken[r].total > 0 /\ outcome' = [outcome EXCEPT ![r] = "text"]
       \/ taken[r].total > 0 /\ MayFail /\ outcome' = [outcome EXCEPT ![r] = "error"]
    /\ UNCHANGED <<settings, lock, micVars, current, stopped, bgVars, results, heard,
                   taken, parts>>

-----------------------------------------------------------------------------
(* The audio callback, and Settings -> Apply *)

Callback ==
    /\ recording /\ mic
    /\ chunks < MaxSamples
    /\ chunks' = chunks + 1
    /\ UNCHANGED <<settings, lock, pc, recording, mic, take, current, stopped, bgVars,
                   results, heard, stopVars, outcome>>

Reload ==
    /\ settings' \in Settings \ {settings}
    /\ UNCHANGED <<lock, pc, micVars, current, stopped, bgVars, results, heard,
                   stopVars, outcome>>

-----------------------------------------------------------------------------
(* The background thread k *)

Begin(k) ==
    /\ bg[k] = "born"
    /\ bg' = [bg EXCEPT ![k] = "poll"]
    /\ step' = [step EXCEPT ![k] = settings.step]
    /\ nextEnd' = [nextEnd EXCEPT ![k] = settings.first]
    /\ UNCHANGED <<settings, lock, pc, micVars, current, stopped, window, results, heard,
                   stopVars, outcome>>

(* The loop: over once the stop event is set, else a window may be due *)
Poll(k) ==
    /\ bg[k] = "poll"
    /\ \/ k \in stopped /\ bg' = [bg EXCEPT ![k] = "dead"]
       \/ /\ k \notin stopped
          /\ chunks >= nextEnd[k] + settings.delay
          /\ bg' = [bg EXCEPT ![k] = "due"]
    /\ UNCHANGED <<settings, lock, pc, micVars, current, stopped, step, nextEnd, window,
                   results, heard, stopVars, outcome>>

WindowStart_NoMax(end) ==
    IF end <= settings.first THEN 0 ELSE end - (settings.step + settings.overlap)

(* _background_window_for_end *)
WindowStart(end) ==
    IF end <= settings.first THEN 0 ELSE Less(end, settings.step + settings.overlap)

(* The samples are copied, if a stop request has not taken them since *)
Snapshot(k) ==
    /\ bg[k] = "due"
    /\ bg' = [bg EXCEPT ![k] = "transcribe"]
    /\ window' = [window EXCEPT ![k] = [take |-> take, start |-> WindowStart(nextEnd[k]),
                                        end |-> nextEnd[k], captured |-> chunks]]
    /\ UNCHANGED <<settings, lock, pc, micVars, current, stopped, step, nextEnd,
                   results, heard, stopVars, outcome>>

Samples(w) == {x \in w.start .. w.end - 1 : x < w.captured}

(* The window gave text, was silent or empty, or could not be transcribed; *)
(* the thread goes on to the next one in any case                          *)
Transcribed(k) ==
    /\ bg[k] = "transcribe"
    /\ bg' = [bg EXCEPT ![k] = "poll"]
    /\ nextEnd' = [nextEnd EXCEPT ![k] = @ + step[k]]
    /\ LET w == window[k]
       IN \/ /\ Samples(w) # {}
             /\ results' = results \cup {w}
             /\ heard' = heard \cup {w.take} \X Samples(w)
          \/ /\ heard' = heard \cup {w.take} \X Samples(w)
             /\ UNCHANGED results
          \/ /\ MayFail /\ Samples(w) # {}
             /\ UNCHANGED <<results, heard>>
    /\ UNCHANGED <<settings, lock, pc, micVars, current, stopped, step, window,
                   stopVars, outcome>>

-----------------------------------------------------------------------------
StartStep(r) == AcquireStart(r) \/ Rearm(r) \/ Opened(r) \/ NoMicrophone(r)

StopStep(r) ==
    \/ AcquireStop(r) \/ SignalStop(r) \/ Collect(r)
    \/ \E x \in 0 .. MaxSamples : Transcribe(r, x)

BackgroundStep(k) == Begin(k) \/ Poll(k) \/ Snapshot(k) \/ Transcribed(k)

Next ==
    \/ \E r \in Requests : Request(r)
    \/ \E r \in Starts : StartStep(r) \/ BackgroundStep(r)
    \/ \E r \in Stops : StopStep(r)
    \/ Callback \/ Reload

Spec == Init /\ [][Next]_vars

(* Threads are scheduled, and opening a stream and transcribing a buffer   *)
(* come to an end.                                                         *)
Fairness ==
    /\ \A r \in Starts : WF_vars(StartStep(r)) /\ WF_vars(BackgroundStep(r))
    /\ \A r \in Stops : WF_vars(StopStep(r))

FairSpec == Spec /\ Fairness

-----------------------------------------------------------------------------
(* Properties *)

(* Every sample of a transcribed recording was covered by a background     *)
(* window or is in the tail, wherever the stop request met the background  *)
(* thread (_stt_background_worker: "final tail covers this failed window").*)
EverythingHeard ==
    \A r \in Stops : outcome[r] = "text" =>
        \A x \in 0 .. taken[r].total - 1 :
            <<taken[r].take, x>> \in heard \/ x >= tailStart[r]

(* A transcript is made of windows of one recording only: the results of   *)
(* an earlier recording's thread never reach a later transcript.           *)
TranscriptOfOneTake ==
    \A r \in Stops : outcome[r] = "text" =>
        \A w \in parts[r] : w.take = taken[r].take

(* Two stop requests never transcribe the same speech.                     *)
TranscribedOnce ==
    \A r, s \in Stops :
        r # s /\ taken[r].total > 0 /\ taken[s].total > 0 => taken[r].take # taken[s].take

(* Between requests the flag, the stream and the background thread agree:  *)
(* no microphone is left open, no thread left behind by a failed start.    *)
MicMatchesRecording ==
    /\ lock = None => (mic <=> recording) /\ (mic <=> current # None)
    /\ \A k \in Starts : bg[k] \notin {"none", "dead"} => k = current

(* The requests as their callers see them *)
StatusOf(r) ==
    CASE pc[r] = "idle" -> "idle"
      [] pc[r] \in {"called", "joining", "opening"} -> "asked"
      [] pc[r] \in {"signal", "collecting", "tail"} -> "taken"
      [] pc[r] = "done" -> CASE outcome[r] = "started" -> "opened"
                             [] outcome[r] = "no microphone" -> "failed"
                             [] OTHER -> outcome[r]

Contract == INSTANCE RecorderContract
    WITH rec    <- IF mic THEN take ELSE None,
         opener <- IF lock \in Starts /\ pc[lock] = "opening" THEN lock ELSE None,
         status <- [r \in Requests |-> StatusOf(r)],
         got    <- [r \in Stops |-> IF taken[r].total > 0 THEN taken[r].take ELSE None]

(* The flows of the supervisor may rely on RecorderContract: a stop hands  *)
(* over the recording in progress whatever the background thread is doing, *)
(* and a start that finds no microphone still ends the recording before.   *)
RefinesContract == Contract!Spec

(* Every start and stop request is answered: the join under the lock never *)
(* waits for a thread that nobody told to stop.  Each request is made once,*)
(* so in the end none is in progress.                                      *)
RequestsReturn == <>[](\A r \in Requests : pc[r] \in {"idle", "done"})

=============================================================================
