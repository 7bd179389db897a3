------------------------- MODULE SttRecorder_proofs -------------------------
(***************************************************************************)
(* Proofs about SttRecorder, for any set of requests, any settings that    *)
(* respect CadenceAssumption and recordings of any length.                 *)
(***************************************************************************)
EXTENDS SttRecorder, TLAPS

(* Less is truncated subtraction. *)
LEMMA LessIsNat ==
    ASSUME NEW a \in Nat, NEW b \in Nat
    PROVE  /\ Less(a, b) \in Nat
           /\ Less(a, b) <= a
           /\ a <= b => Less(a, b) = 0
           /\ a > b => Less(a, b) = a - b
BY DEF Less

(* What is known of the current settings. *)
LEMMA SettingsAreNats ==
    ASSUME TypeOK
    PROVE  /\ settings.first \in Nat /\ settings.step \in Nat
           /\ settings.overlap \in Nat /\ settings.delay \in Nat
BY RecorderAssumption DEF TypeOK, CaptureTypeOK

(* What a background thread makes of a window. *)
LEMMA WindowStartIsNat ==
    ASSUME TypeOK, NEW end \in Nat
    PROVE  WindowStart(end) \in Nat /\ WindowStart(end) <= end
<1>1. settings.first \in Nat /\ settings.step + settings.overlap \in Nat
  BY SettingsAreNats
<1> QED BY <1>1, LessIsNat DEF WindowStart

LEMMA TypeStart ==
    ASSUME TypeOK, NEW r \in Starts, StartStep(r)
    PROVE  TypeOK'
<1>1. r \in Requests
  BY DEF Requests
<1>2. CASE AcquireStart(r)
  BY <1>1, <1>2 DEF AcquireStart, SignalBackground, micVars, bgVars, stopVars,
    TypeOK, RequestTypeOK, CaptureTypeOK, ThreadTypeOK, ResultTypeOK
<1>3. CASE Rearm(r)
  BY <1>1, <1>3 DEF Rearm, bgVars, stopVars,
    TypeOK, RequestTypeOK, CaptureTypeOK, ThreadTypeOK, ResultTypeOK
<1>4. CASE Opened(r) \/ NoMicrophone(r)
  <2>1. RequestTypeOK' /\ CaptureTypeOK' /\ ResultTypeOK'
    BY <1>1, <1>4 DEF Opened, NoMicrophone, Started, stopVars,
      TypeOK, RequestTypeOK, CaptureTypeOK, ResultTypeOK
  <2>2. ThreadTypeOK'
    BY <1>4 DEF Opened, NoMicrophone, Started, TypeOK, ThreadTypeOK
  <2> QED BY <2>1, <2>2 DEF TypeOK
<1> QED BY <1>2, <1>3, <1>4 DEF StartStep

LEMMA TypeStop ==
    ASSUME TypeOK, NEW r \in Stops, StopStep(r)
    PROVE  TypeOK'
<1>1. r \in Requests
  BY DEF Requests
<1>2. CASE AcquireStop(r)
  <2>1. RequestTypeOK' /\ CaptureTypeOK' /\ ThreadTypeOK'
    BY <1>1, <1>2 DEF AcquireStop, TakeChunks, bgVars,
      TypeOK, RequestTypeOK, CaptureTypeOK, ThreadTypeOK
  <2>2. ResultTypeOK'
    BY <1>2 DEF AcquireStop, TakeChunks, TypeOK, CaptureTypeOK, ResultTypeOK
  <2> QED BY <2>1, <2>2 DEF TypeOK
<1>3. CASE SignalStop(r) \/ Collect(r)
  <2>1. RequestTypeOK' /\ CaptureTypeOK' /\ ThreadTypeOK'
    BY <1>1, <1>3 DEF SignalStop, SignalBackground, Collect, micVars, bgVars, stopVars,
      TypeOK, RequestTypeOK, CaptureTypeOK, ThreadTypeOK
  <2>2. ResultTypeOK'
    BY <1>3 DEF SignalStop, Collect, stopVars, TypeOK, ResultTypeOK
  <2> QED BY <2>1, <2>2 DEF TypeOK
<1>4. ASSUME NEW x \in 0 .. MaxSamples, Transcribe(r, x)
      PROVE  TypeOK'
  <2>1. x \in Nat
    BY RecorderAssumption
  <2>2. RequestTypeOK'
    BY <1>1, <1>4, <2>1 DEF Transcribe, TypeOK, RequestTypeOK
  <2>3. CaptureTypeOK' /\ ThreadTypeOK' /\ ResultTypeOK'
    BY <1>4 DEF Transcribe, micVars, bgVars, TypeOK, CaptureTypeOK, ThreadTypeOK, ResultTypeOK
  <2> QED BY <2>2, <2>3 DEF TypeOK
<1> QED BY <1>2, <1>3, <1>4 DEF StopStep

(* A background thread changes neither the requests nor what is captured. *)
LEMMA TypeBackground ==
    ASSUME TypeOK, NEW k \in Starts, BackgroundStep(k)
    PROVE  TypeOK'
<1>1. RequestTypeOK' /\ CaptureTypeOK'
  BY DEF BackgroundStep, Begin, Poll, Snapshot, Transcribed, micVars, stopVars,
    TypeOK, RequestTypeOK, CaptureTypeOK
<1>2. CASE Begin(k)
  <2>1. settings.first \in Nat /\ settings.step \in Nat
    BY SettingsAreNats
  <2> QED BY <1>1, <1>2, <2>1 DEF Begin, stopVars, TypeOK, ThreadTypeOK, ResultTypeOK
<1>3. CASE Poll(k)
  BY <1>1, <1>3 DEF Poll, stopVars, TypeOK, ThreadTypeOK, ResultTypeOK
<1>4. CASE Snapshot(k)
  <2>1. nextEnd[k] \in Nat /\ take \in Starts \cup {None} /\ chunks \in Nat
    BY DEF TypeOK, ThreadTypeOK, CaptureTypeOK
  <2>2. [take |-> take, start |-> WindowStart(nextEnd[k]),
         end |-> nextEnd[k], captured |-> chunks] \in Window
    BY <2>1, WindowStartIsNat DEF Window
  <2> QED BY <1>1, <1>4, <2>2 DEF Snapshot, stopVars, TypeOK, ThreadTypeOK, ResultTypeOK
<1>5. CASE Transcribed(k)
  <2>1. window[k] \in Window /\ nextEnd[k] \in Nat /\ step[k] \in Nat
    BY DEF TypeOK, ThreadTypeOK
  <2>2. nextEnd[k] + step[k] \in Nat
    BY <2>1
  <2>3. ThreadTypeOK'
    BY <1>5, <2>2 DEF Transcribed, TypeOK, ThreadTypeOK
  <2>4. window[k].take \in Starts \cup {None} /\ window[k].start \in Nat /\ window[k].end \in Nat
    BY <2>1 DEF Window
  <2>5. Samples(window[k]) \subseteq Nat
    BY <2>4 DEF Samples
  <2>6. {window[k].take} \X Samples(window[k]) \subseteq (Starts \cup {None}) \X Nat
    BY <2>4, <2>5
  <2>7. ResultTypeOK'
    BY <1>5, <2>1, <2>6 DEF Transcribed, stopVars, TypeOK, ResultTypeOK
  <2> QED BY <1>1, <2>3, <2>7 DEF TypeOK
<1> QED BY <1>2, <1>3, <1>4, <1>5 DEF BackgroundStep

LEMMA TypeStep == TypeOK /\ [Next]_vars => TypeOK'
<1> SUFFICES ASSUME TypeOK, [Next]_vars
             PROVE  TypeOK'
  OBVIOUS
<1>1. ASSUME NEW r \in Requests, Request(r)
      PROVE  TypeOK'
  BY <1>1 DEF Request, micVars, bgVars, stopVars,
    TypeOK, RequestTypeOK, CaptureTypeOK, ThreadTypeOK, ResultTypeOK
<1>2. CASE Callback
  <2>1. CaptureTypeOK'
    BY <1>2 DEF Callback, TypeOK, CaptureTypeOK
  <2>2. RequestTypeOK' /\ ThreadTypeOK' /\ ResultTypeOK'
    BY <1>2 DEF Callback, bgVars, stopVars, TypeOK, RequestTypeOK, ThreadTypeOK, ResultTypeOK
  <2> QED BY <2>1, <2>2 DEF TypeOK
<1>3. CASE Reload
  BY <1>3 DEF Reload, micVars, bgVars, stopVars,
    TypeOK, RequestTypeOK, CaptureTypeOK, ThreadTypeOK, ResultTypeOK
<1>4. CASE UNCHANGED vars
  BY <1>4 DEF vars, micVars, bgVars, stopVars,
    TypeOK, RequestTypeOK, CaptureTypeOK, ThreadTypeOK, ResultTypeOK
<1>5. ASSUME NEW r \in Starts, StartStep(r)
      PROVE  TypeOK'
  BY <1>5, TypeStart
<1>6. ASSUME NEW r \in Stops, StopStep(r)
      PROVE  TypeOK'
  BY <1>6, TypeStop
<1>7. ASSUME NEW k \in Starts, BackgroundStep(k)
      PROVE  TypeOK'
  BY <1>7, TypeBackground
<1> QED BY <1>1, <1>2, <1>3, <1>4, <1>5, <1>6, <1>7 DEF Next

(* Every variable keeps its type, whatever the requests, the settings and  *)
(* the length of the recordings.                                           *)
THEOREM TypeCorrect == Spec => []TypeOK
<1>1. Init => TypeOK
  <2>1. NoWindow \in Window
    BY DEF NoWindow, Window
  <2>2. Init => RequestTypeOK
    BY DEF Init, RequestTypeOK
  <2>4. Init => CaptureTypeOK
    <3>1. Init => settings \in Settings /\ take = None /\ chunks = 0
      BY DEF Init
    <3>2. Init => recording \in BOOLEAN /\ mic \in BOOLEAN
      BY Zenon DEF Init
    <3> QED BY <3>1, <3>2 DEF CaptureTypeOK
  <2>5. Init => ResultTypeOK
    BY DEF Init, ResultTypeOK
  <2>3. Init => ThreadTypeOK
    BY <2>1 DEF Init, ThreadTypeOK
  <2> QED BY <2>2, <2>3, <2>4, <2>5 DEF TypeOK
<1> QED BY <1>1, TypeStep, PTL DEF Spec

-----------------------------------------------------------------------------
(* Who holds the lock *)

Holding == {"joining", "opening", "signal", "collecting"}

(* A request between its two critical steps holds the lock. *)
LockInv == \A r \in Requests : pc[r] \in Holding <=> lock = r

LEMMA LockMove ==
    ASSUME TypeOK, LockInv, NEW r \in Requests, NEW label,
           pc' = [pc EXCEPT ![r] = label],
           \/ UNCHANGED lock /\ (pc[r] \in Holding <=> label \in Holding)
           \/ lock = None /\ lock' = r /\ label \in Holding
           \/ pc[r] \in Holding /\ lock' = None /\ label \notin Holding
    PROVE  LockInv'
<1>1. \A q \in Requests : pc'[q] = IF q = r THEN label ELSE pc[q]
  BY DEF TypeOK, RequestTypeOK
<1>2. r # None
  BY RecorderAssumption
<1> QED BY <1>1, <1>2, RecorderAssumption DEF LockInv

LEMMA LockStep == TypeOK /\ LockInv /\ [Next]_vars => LockInv'
<1> SUFFICES ASSUME TypeOK, LockInv, [Next]_vars
             PROVE  LockInv'
  OBVIOUS
<1>1. ASSUME NEW r \in Requests, Request(r)
      PROVE  LockInv'
  BY <1>1, LockMove DEF Request, Holding
<1>2. ASSUME NEW r \in Starts, StartStep(r)
      PROVE  LockInv'
  <2>1. r \in Requests
    BY DEF Requests
  <2> QED BY <1>2, <2>1, LockMove DEF StartStep, AcquireStart, Rearm, Opened, NoMicrophone, Started,
        Holding
<1>3. ASSUME NEW r \in Stops, StopStep(r)
      PROVE  LockInv'
  <2>1. r \in Requests
    BY DEF Requests
  <2>2. CASE AcquireStop(r) \/ SignalStop(r) \/ Collect(r)
    BY <2>1, <2>2, LockMove DEF AcquireStop, SignalStop, Collect, Holding
  <2>3. ASSUME NEW x \in 0 .. MaxSamples, Transcribe(r, x)
        PROVE  LockInv'
    BY <2>1, <2>3, LockMove DEF Transcribe, Holding
  <2> QED BY <1>3, <2>2, <2>3 DEF StopStep
<1>4. CASE UNCHANGED <<pc, lock>>
  BY <1>4 DEF LockInv
<1>5. ASSUME NEW k \in Starts, BackgroundStep(k)
      PROVE  LockInv'
  BY <1>4, <1>5 DEF BackgroundStep, Begin, Poll, Snapshot, Transcribed
<1>6. CASE Callback \/ Reload \/ UNCHANGED vars
  BY <1>4, <1>6 DEF Callback, Reload, vars
<1> QED BY <1>1, <1>2, <1>3, <1>5, <1>6 DEF Next

-----------------------------------------------------------------------------
(* Whose samples, whose windows *)

Alive(k) == bg[k] \notin {"none", "dead"}

(* Only the thread of the recording in _chunks runs, and a start request   *)
(* that opens the microphone has nothing behind it.                        *)
ThreadInv ==
    /\ \A k \in Starts : Alive(k) => current = k /\ take = k
    /\ \A r \in Starts : pc[r] = "opening"
                         => take = r /\ current = None /\ chunks = 0 /\ ~mic
    /\ \A k \in Starts : bg[k] = "transcribe"
                         => window[k].take = k /\ window[k].end = nextEnd[k]

(* Results are those of the recording in _chunks, then of the samples of   *)
(* the stop request that took them.                                        *)
OwnInv ==
    /\ \A w \in results : w.take = take
    /\ \A r \in Stops : pc[r] \in {"signal", "collecting"} => taken[r].take = take
    /\ \A r \in Stops : pc[r] \notin {"tail", "done"} => parts[r] = {}
    /\ \A r \in Stops : \A w \in parts[r] : w.take = taken[r].take

(* Under the lock, with the old thread joined, nobody is alive. *)
LEMMA NobodyAlive ==
    ASSUME TypeOK, ThreadInv, BackgroundOver, NEW k \in Starts
    PROVE  ~Alive(k)
<1>1. k # None
  BY RecorderAssumption DEF Requests
<1> QED BY <1>1 DEF ThreadInv, Alive, BackgroundOver

LEMMA OnlyHolder ==
    ASSUME LockInv, NEW r \in Requests, pc[r] \in Holding, NEW q \in Requests, q # r
    PROVE  pc[q] \notin Holding
BY DEF LockInv

LEMMA RequestNames ==
    /\ Starts \subseteq Requests /\ Stops \subseteq Requests
    /\ \A r \in Starts : r \notin Stops /\ r # None
BY RecorderAssumption DEF Requests

LEMMA ThreadStart ==
    ASSUME TypeOK, LockInv, ThreadInv, NEW r \in Starts, StartStep(r)
    PROVE  ThreadInv'
<1> USE RequestNames DEF TypeOK, RequestTypeOK, ThreadTypeOK
<1>1. CASE AcquireStart(r)
  BY <1>1 DEF AcquireStart, micVars, bgVars, ThreadInv, Alive
<1>2. CASE Rearm(r)
  <2>1. \A k \in Starts : ~Alive(k)
    BY <1>2, NobodyAlive DEF Rearm
  <2>2. \A q \in Starts : q # r => pc[q] # "opening"
    BY <1>2, OnlyHolder DEF Rearm, Holding
  <2> QED BY <1>2, <2>1, <2>2 DEF Rearm, bgVars, ThreadInv, Alive
<1>3. CASE Opened(r) \/ NoMicrophone(r)
  <2>1. take = r /\ current = None
    BY <1>3 DEF Opened, NoMicrophone, Started, ThreadInv
  <2>2. \A k \in Starts : ~Alive(k)
    BY <2>1, NobodyAlive DEF BackgroundOver
  <2>3. \A q \in Starts : pc'[q] # "opening"
    BY <1>3, OnlyHolder DEF Opened, NoMicrophone, Started, Holding
  <2>4. \A k \in Starts : Alive(k)' => k = r /\ current' = r
    BY <1>3, <2>2 DEF Opened, NoMicrophone, Alive
  <2>5. take' = take /\ \A k \in Starts : bg'[k] # "transcribe"
    BY <1>3, <2>2 DEF Opened, NoMicrophone, Started, Alive
  <2> QED BY <2>1, <2>3, <2>4, <2>5 DEF ThreadInv
<1> QED BY <1>1, <1>2, <1>3 DEF StartStep

LEMMA ThreadStop ==
    ASSUME TypeOK, LockInv, ThreadInv, NEW r \in Stops, StopStep(r)
    PROVE  ThreadInv'
<1> USE RequestNames DEF TypeOK, RequestTypeOK, ThreadTypeOK
<1>1. CASE AcquireStop(r)
  BY <1>1 DEF AcquireStop, TakeChunks, bgVars, ThreadInv, Alive
<1>2. CASE SignalStop(r)
  BY <1>2 DEF SignalStop, micVars, bgVars, ThreadInv, Alive
<1>3. CASE Collect(r)
  <2>1. \A k \in Starts : ~Alive(k)
    BY <1>3, NobodyAlive DEF Collect
  <2> QED BY <1>3, <2>1 DEF Collect, micVars, bgVars, ThreadInv, Alive
<1>4. ASSUME NEW x \in 0 .. MaxSamples, Transcribe(r, x)
      PROVE  ThreadInv'
  BY <1>4 DEF Transcribe, micVars, bgVars, ThreadInv, Alive
<1> QED BY <1>1, <1>2, <1>3, <1>4 DEF StopStep

LEMMA ThreadBackground ==
    ASSUME TypeOK, ThreadInv, NEW k \in Starts, BackgroundStep(k)
    PROVE  ThreadInv'
<1> USE DEF TypeOK, ThreadTypeOK
<1>1. CASE Begin(k)
  BY <1>1 DEF Begin, micVars, ThreadInv, Alive
<1>2. CASE Poll(k)
  BY <1>2 DEF Poll, micVars, ThreadInv, Alive
<1>3. CASE Snapshot(k)
  BY <1>3 DEF Snapshot, micVars, ThreadInv, Alive
<1>4. CASE Transcribed(k)
  BY <1>4 DEF Transcribed, micVars, ThreadInv, Alive
<1> QED BY <1>1, <1>2, <1>3, <1>4 DEF BackgroundStep

LEMMA ThreadStep == TypeOK /\ LockInv /\ ThreadInv /\ [Next]_vars => ThreadInv'
<1> SUFFICES ASSUME TypeOK, LockInv, ThreadInv, [Next]_vars
             PROVE  ThreadInv'
  OBVIOUS
<1>1. ASSUME NEW r \in Requests, Request(r)
      PROVE  ThreadInv'
  BY <1>1, RequestNames DEF Request, micVars, bgVars, ThreadInv, Alive, TypeOK, RequestTypeOK
<1>2. CASE Callback
  BY <1>2 DEF Callback, bgVars, ThreadInv, Alive
<1>3. CASE Reload \/ UNCHANGED vars
  BY <1>3 DEF Reload, vars, micVars, bgVars, ThreadInv, Alive
<1>4. ASSUME NEW r \in Starts, StartStep(r)
      PROVE  ThreadInv'
  BY <1>4, ThreadStart
<1>5. ASSUME NEW r \in Stops, StopStep(r)
      PROVE  ThreadInv'
  BY <1>5, ThreadStop
<1>6. ASSUME NEW k \in Starts, BackgroundStep(k)
      PROVE  ThreadInv'
  BY <1>6, ThreadBackground
<1> QED BY <1>1, <1>2, <1>3, <1>4, <1>5, <1>6 DEF Next

LEMMA OwnStart ==
    ASSUME TypeOK, LockInv, OwnInv, NEW r \in Starts, StartStep(r)
    PROVE  OwnInv'
<1> USE RequestNames DEF TypeOK, RequestTypeOK
<1>1. \A q \in Stops : pc'[q] = pc[q]
  BY DEF StartStep, AcquireStart, Rearm, Opened, NoMicrophone, Started
<1>2. UNCHANGED <<taken, parts>>
  BY DEF StartStep, AcquireStart, Rearm, Opened, NoMicrophone, Started, stopVars
<1>3. CASE Rearm(r)
  <2>1. \A q \in Stops : pc[q] \notin {"signal", "collecting"}
    BY <1>3, OnlyHolder DEF Rearm, Holding
  <2> QED BY <1>1, <1>2, <1>3, <2>1 DEF Rearm, OwnInv
<1>4. CASE ~Rearm(r)
  <2>1. UNCHANGED <<results, take>>
    BY <1>4 DEF StartStep, AcquireStart, Opened, NoMicrophone, Started, micVars
  <2> QED BY <1>1, <1>2, <2>1 DEF OwnInv
<1> QED BY <1>3, <1>4

LEMMA OwnStop ==
    ASSUME TypeOK, LockInv, OwnInv, NEW r \in Stops, StopStep(r)
    PROVE  OwnInv'
<1> USE RequestNames DEF TypeOK, RequestTypeOK, ResultTypeOK
<1>1. CASE AcquireStop(r)
  <2>1. /\ \A q \in Stops : q # r => taken'[q] = taken[q] /\ pc'[q] = pc[q]
        /\ taken'[r].take = take /\ pc'[r] = "signal" /\ parts[r] = {}
        /\ UNCHANGED <<results, take, parts>>
    BY <1>1 DEF AcquireStop, TakeChunks, OwnInv
  <2> QED BY <2>1 DEF OwnInv
<1>2. CASE SignalStop(r)
  BY <1>2 DEF SignalStop, micVars, stopVars, OwnInv
<1>3. CASE Collect(r)
  <2>1. /\ \A q \in Stops : q # r => parts'[q] = parts[q] /\ pc'[q] = pc[q]
        /\ parts'[r] = results /\ pc'[r] = "tail" /\ taken[r].take = take
        /\ results' = {}
        /\ UNCHANGED <<taken, take>>
    BY <1>3 DEF Collect, micVars, OwnInv
  <2> QED BY <2>1 DEF OwnInv
<1>4. ASSUME NEW x \in 0 .. MaxSamples, Transcribe(r, x)
      PROVE  OwnInv'
  BY <1>4 DEF Transcribe, micVars, OwnInv
<1> QED BY <1>1, <1>2, <1>3, <1>4 DEF StopStep

LEMMA OwnStep == TypeOK /\ LockInv /\ ThreadInv /\ OwnInv /\ [Next]_vars => OwnInv'
<1> SUFFICES ASSUME TypeOK, LockInv, ThreadInv, OwnInv, [Next]_vars
             PROVE  OwnInv'
  OBVIOUS
<1>1. ASSUME NEW r \in Requests, Request(r)
      PROVE  OwnInv'
  BY <1>1, RequestNames DEF Request, micVars, stopVars, OwnInv, TypeOK, RequestTypeOK
<1>2. CASE Callback \/ Reload \/ UNCHANGED vars
  BY <1>2 DEF Callback, Reload, vars, micVars, stopVars, OwnInv
<1>3. ASSUME NEW r \in Starts, StartStep(r)
      PROVE  OwnInv'
  BY <1>3, OwnStart
<1>4. ASSUME NEW r \in Stops, StopStep(r)
      PROVE  OwnInv'
  BY <1>4, OwnStop
<1>5. ASSUME NEW k \in Starts, BackgroundStep(k)
      PROVE  OwnInv'
  <2>1. UNCHANGED <<pc, taken, parts, take>>
    BY <1>5 DEF BackgroundStep, Begin, Poll, Snapshot, Transcribed, micVars, stopVars
  <2>2. \A w \in results' : w \in results \/ (w = window[k] /\ bg[k] = "transcribe")
    BY <1>5 DEF BackgroundStep, Begin, Poll, Snapshot, Transcribed
  <2>3. bg[k] = "transcribe" => window[k].take = take
    BY DEF ThreadInv, Alive
  <2> QED BY <2>1, <2>2, <2>3 DEF OwnInv
<1> QED BY <1>1, <1>2, <1>3, <1>4, <1>5 DEF Next

LEMMA OwnInvariant == Spec => [](TypeOK /\ LockInv /\ ThreadInv /\ OwnInv)
<1>1. Init => LockInv
  BY RequestNames, RecorderAssumption DEF Init, LockInv, Holding
<1>2. Init => ThreadInv
  BY RequestNames DEF Init, ThreadInv, Alive
<1>3. Init => OwnInv
  BY RequestNames DEF Init, OwnInv
<1> QED BY <1>1, <1>2, <1>3, TypeCorrect, LockStep, ThreadStep, OwnStep, PTL DEF Spec

(* The results of one recording never reach the transcript of another:     *)
(* every stop and every start joins the old thread before it looks at the  *)
(* results, and the lock is held from the samples to the results.          *)
THEOREM TranscriptOfOneTakeHolds == Spec => []TranscriptOfOneTake
<1>1. OwnInv => TranscriptOfOneTake
  BY DEF OwnInv, TranscriptOfOneTake
<1> QED BY <1>1, OwnInvariant, PTL

-----------------------------------------------------------------------------
(* Coverage *)

(* Every sample of recording k before n was covered by a window. *)
Heard(k, n) == \A x \in Nat : x < n => <<k, x>> \in heard

Looping(k) == bg[k] \in {"poll", "due", "transcribe"}

(* The thread's next window begins no later than its last one ended, and   *)
(* its step is one the settings had.                                       *)
FrontierInv ==
    /\ \A k \in Starts : Looping(k) => \E s \in Settings : step[k] = s.step
    /\ \A k \in Starts : Looping(k) /\ recording =>
           \/ \E s \in Settings : nextEnd[k] = s.first
           \/ Heard(k, nextEnd[k] - step[k])

(* A window is copied whole, or found empty because a stop came first. *)
WindowInv ==
    /\ ~recording => chunks = 0
    /\ \A k \in Starts : bg[k] = "due" /\ recording => chunks >= nextEnd[k]
    /\ \A k \in Starts : bg[k] = "transcribe" =>
           \/ window[k].captured = 0 /\ ~recording
           \/ window[k].captured >= window[k].end /\ Heard(k, window[k].start)

(* A result says that everything before its end was covered. *)
ResultInv ==
    /\ \A w \in results : Heard(w.take, w.end)
    /\ \A r \in Stops : \A w \in parts[r] : Heard(w.take, w.end)
    /\ \A r \in Stops : outcome[r] = "text" =>
           tailStart[r] = 0 \/ \E w \in parts[r] : tailStart[r] <= w.end

CoverInv == FrontierInv /\ WindowInv /\ ResultInv

(* What is covered stays covered. *)
LEMMA HeardGrows ==
    ASSUME [Next]_vars
    PROVE  heard \subseteq heard'
<1>1. CASE UNCHANGED heard
  BY <1>1
<1>2. ASSUME NEW k \in Starts, BackgroundStep(k)
      PROVE  heard \subseteq heard'
  BY <1>2 DEF BackgroundStep, Begin, Poll, Snapshot, Transcribed
<1>3. ASSUME NEW r \in Starts, StartStep(r)
      PROVE  UNCHANGED heard
  BY <1>3 DEF StartStep, AcquireStart, Rearm, Opened, NoMicrophone, Started
<1>4. ASSUME NEW r \in Stops, StopStep(r)
      PROVE  UNCHANGED heard
  BY <1>4 DEF StopStep, AcquireStop, SignalStop, Collect, Transcribe
<1>5. ASSUME NEW r \in Requests, Request(r)
      PROVE  UNCHANGED heard
  BY <1>5 DEF Request
<1>6. CASE Callback \/ Reload \/ UNCHANGED vars
  BY <1>6 DEF Callback, Reload, vars
<1> QED BY <1>1, <1>2, <1>3, <1>4, <1>5, <1>6 DEF Next

LEMMA HeardStays ==
    ASSUME heard \subseteq heard', NEW k, NEW n, Heard(k, n)
    PROVE  Heard(k, n)'
BY DEF Heard

(* The start of the next window leaves no gap behind it. *)
LEMMA NoGap ==
    ASSUME TypeOK, NEW k \in Starts, Looping(k), recording, FrontierInv
    PROVE  Heard(k, WindowStart(nextEnd[k]))
<1>1. /\ nextEnd[k] \in Nat /\ step[k] \in Nat /\ settings \in Settings
      /\ settings.first \in Nat /\ settings.step \in Nat /\ settings.overlap \in Nat
  BY SettingsAreNats DEF TypeOK, ThreadTypeOK, CaptureTypeOK
<1> DEFINE back == settings.step + settings.overlap
<1>2. back \in Nat
  BY <1>1
<1>3. CASE WindowStart(nextEnd[k]) = 0
  BY <1>3 DEF Heard
<1>4. CASE WindowStart(nextEnd[k]) # 0
  <2>1. /\ nextEnd[k] > settings.first /\ nextEnd[k] > back
        /\ WindowStart(nextEnd[k]) = nextEnd[k] - back
    <3>1. ~(nextEnd[k] <= settings.first) /\ WindowStart(nextEnd[k]) = Less(nextEnd[k], back)
      BY <1>4 DEF WindowStart
    <3>2. nextEnd[k] > back /\ Less(nextEnd[k], back) = nextEnd[k] - back
      BY <1>1, <1>2, <1>4, <3>1 DEF Less
    <3> QED BY <1>1, <3>1, <3>2
  <2>2. \A s \in Settings : nextEnd[k] # s.first
    <3> SUFFICES ASSUME NEW s \in Settings, nextEnd[k] = s.first
                 PROVE  FALSE
      OBVIOUS
    <3>1. s.first <= settings.first \/ s.first <= back
      BY <1>1, CadenceAssumption
    <3> QED BY <1>1, <1>2, <2>1, <3>1
  <2>3. Heard(k, nextEnd[k] - step[k])
    BY <2>2 DEF FrontierInv
  <2>4. step[k] <= back
    <3>1. PICK s \in Settings : step[k] = s.step
      BY DEF FrontierInv
    <3> QED BY <1>1, <3>1, CadenceAssumption
  <2>5. nextEnd[k] - back <= nextEnd[k] - step[k]
    BY <1>1, <1>2, <2>4
  <2>6. nextEnd[k] - back \in Int /\ nextEnd[k] - step[k] \in Int
    BY <1>1, <1>2
  <2>7. \A x \in Nat : x < nextEnd[k] - back => x < nextEnd[k] - step[k]
    BY <2>5, <2>6
  <2> HIDE DEF back
  <2> QED BY <2>1, <2>3, <2>7 DEF Heard
<1> QED BY <1>3, <1>4

(* A step that leaves the loops alone keeps FrontierInv. *)
LEMMA FrontierStays ==
    ASSUME [Next]_vars, FrontierInv,
           \A k \in Starts : Looping(k)' => Looping(k),
           \A k \in Starts : Looping(k)' => step'[k] = step[k] /\ nextEnd'[k] = nextEnd[k],
           \A k \in Starts : Looping(k)' /\ recording' => recording
    PROVE  FrontierInv'
BY HeardGrows, HeardStays DEF FrontierInv

(* A window that is finished and did not fail is covered, and what came    *)
(* before it was covered already.                                          *)
LEMMA WindowIsHeard ==
    ASSUME ~MayFail, TypeOK, ThreadInv, WindowInv, [Next]_vars,
           NEW k \in Starts, Transcribed(k), window[k].captured >= window[k].end
    PROVE  Heard(k, window[k].end)'
<1>1. bg[k] = "transcribe" /\ window[k].take = k
  BY DEF Transcribed, ThreadInv
<1>2. /\ window[k].captured \in Nat /\ window[k].start \in Nat /\ window[k].end \in Nat
  BY DEF TypeOK, ThreadTypeOK, Window
<1>3. window[k].captured = 0 => window[k].end = 0
  BY <1>2
<1>4. Heard(k, window[k].start) \/ window[k].end = 0
  BY <1>1, <1>3 DEF WindowInv
<1>5. heard' = heard \cup {k} \X Samples(window[k])
  BY <1>1 DEF Transcribed
<1>6. window'[k].end = window[k].end
  BY DEF Transcribed
<1>7. SUFFICES ASSUME NEW x \in Nat, x < window[k].end
               PROVE  <<k, x>> \in heard'
  BY <1>6 DEF Heard
<1>8. CASE x < window[k].start
  BY <1>2, <1>4, <1>5, <1>7, <1>8 DEF Heard
<1>9. CASE ~(x < window[k].start)
  <2>1. x \in window[k].start .. window[k].end - 1 /\ x < window[k].captured
    BY <1>2, <1>7, <1>9
  <2> QED BY <1>5, <2>1 DEF Samples
<1> QED BY <1>8, <1>9

LEMMA FrontierStep ==
    ~MayFail /\ TypeOK /\ LockInv /\ ThreadInv /\ CoverInv /\ [Next]_vars => FrontierInv'
<1> SUFFICES ASSUME ~MayFail, TypeOK, LockInv, ThreadInv, CoverInv, [Next]_vars
             PROVE  FrontierInv'
  OBVIOUS
<1> USE DEF CoverInv
<1>1. ASSUME NEW r \in Starts, StartStep(r)
      PROVE  FrontierInv'
  <2>1. CASE Rearm(r)
    <3>1. \A k \in Starts : ~Looping(k)'
      BY <2>1, NobodyAlive DEF Rearm, bgVars, Looping, Alive
    <3> QED BY <3>1 DEF FrontierInv
  <2>2. CASE ~Rearm(r)
    <3>1. UNCHANGED <<step, nextEnd>>
      BY <1>1, <2>2 DEF StartStep, AcquireStart, Opened, NoMicrophone, Started, bgVars
    <3>2. recording' => recording
      BY <1>1, <2>2, Zenon DEF StartStep, AcquireStart, Opened, NoMicrophone, micVars
    <3>3. \A k \in Starts : Looping(k)' => Looping(k)
      BY <1>1, <2>2 DEF StartStep, AcquireStart, Opened, NoMicrophone, Looping, bgVars,
        TypeOK, ThreadTypeOK
    <3> QED BY <3>1, <3>2, <3>3, FrontierStays
  <2> QED BY <2>1, <2>2
<1>2. ASSUME NEW r \in Stops, StopStep(r)
      PROVE  FrontierInv'
  <2>1. UNCHANGED <<bg, step, nextEnd>> /\ (recording' => recording)
    BY <1>2 DEF StopStep, AcquireStop, SignalStop, Collect, Transcribe, micVars, bgVars
  <2> QED BY <2>1, FrontierStays DEF Looping
<1>3. CASE UNCHANGED <<bg, step, nextEnd, recording>>
  BY <1>3, FrontierStays DEF Looping
<1>4. ASSUME NEW r \in Requests, Request(r)
      PROVE  FrontierInv'
  BY <1>3, <1>4 DEF Request, micVars, bgVars
<1>5. CASE Callback \/ Reload \/ UNCHANGED vars
  BY <1>3, <1>5 DEF Callback, Reload, vars, micVars, bgVars
<1>6. ASSUME NEW k \in Starts, BackgroundStep(k)
      PROVE  FrontierInv'
  <2> USE DEF TypeOK, ThreadTypeOK
  <2>1. CASE Begin(k)
    <3>1. settings \in Settings
      BY DEF CaptureTypeOK
    <3>2. \A q \in Starts : q # k => step'[q] = step[q] /\ nextEnd'[q] = nextEnd[q] /\ bg'[q] = bg[q]
      BY <2>1 DEF Begin
    <3>3. step'[k] = settings.step /\ nextEnd'[k] = settings.first /\ recording' = recording
      BY <2>1 DEF Begin, micVars
    <3>4. \A q \in Starts : q # k => (Looping(q)' <=> Looping(q))
      BY <3>2 DEF Looping
    <3> QED BY <3>1, <3>2, <3>3, <3>4, HeardGrows, HeardStays DEF FrontierInv
  <2>2. CASE Poll(k) \/ Snapshot(k)
    <3>1. UNCHANGED <<step, nextEnd, recording>>
      BY <2>2 DEF Poll, Snapshot, micVars
    <3>2. \A q \in Starts : Looping(q)' => Looping(q)
      BY <2>2 DEF Poll, Snapshot, Looping
    <3> QED BY <3>1, <3>2, FrontierStays
  <2>3. CASE Transcribed(k)
    <3>1. UNCHANGED <<step, recording>> /\ \A q \in Starts : Looping(q)' => Looping(q)
      BY <2>3 DEF Transcribed, micVars, Looping
    <3>2. \A q \in Starts : q # k => nextEnd'[q] = nextEnd[q]
      BY <2>3 DEF Transcribed
    <3>3. nextEnd'[k] - step'[k] = nextEnd[k]
      <4>1. nextEnd'[k] = nextEnd[k] + step[k] /\ nextEnd[k] \in Nat /\ step[k] \in Nat
        BY <2>3 DEF Transcribed
      <4> QED BY <3>1, <4>1
    <3>4. recording => \A x \in Nat : x < nextEnd[k] => <<k, x>> \in heard'
      <4>1. bg[k] = "transcribe" /\ window[k].end = nextEnd[k] /\ window'[k].end = window[k].end
        BY <2>3 DEF Transcribed, ThreadInv
      <4>2. SUFFICES ASSUME recording
                     PROVE  \A x \in Nat : x < nextEnd[k] => <<k, x>> \in heard'
        OBVIOUS
      <4>3. window[k].captured >= window[k].end
        BY <4>1, <4>2 DEF WindowInv
      <4>4. Heard(k, window[k].end)'
        BY <2>3, <4>3, WindowIsHeard
      <4> QED BY <4>1, <4>4 DEF Heard
    <3>5. recording' => Heard(k, nextEnd[k] - step[k])'
      BY <3>1, <3>3, <3>4 DEF Heard
    <3>6. \A q \in Starts : q # k => (Looping(q)' /\ recording' => Looping(q) /\ recording)
      BY <3>1
    <3> QED BY <3>1, <3>2, <3>5, <3>6, HeardGrows, HeardStays DEF FrontierInv
  <2> QED BY <1>6, <2>1, <2>2, <2>3 DEF BackgroundStep
<1> QED BY <1>1, <1>2, <1>4, <1>5, <1>6 DEF Next

LEMMA WindowStep ==
    ~MayFail /\ TypeOK /\ LockInv /\ ThreadInv /\ CoverInv /\ [Next]_vars => WindowInv'
<1> SUFFICES ASSUME ~MayFail, TypeOK, LockInv, ThreadInv, CoverInv, [Next]_vars
             PROVE  WindowInv'
  OBVIOUS
<1> USE HeardGrows, HeardStays DEF CoverInv
<1>1. ASSUME NEW r \in Starts, StartStep(r)
      PROVE  WindowInv'
  <2>1. CASE AcquireStart(r)
    BY <2>1 DEF AcquireStart, micVars, bgVars, WindowInv
  <2>2. CASE Rearm(r)
    <3>1. \A k \in Starts : bg'[k] \notin {"due", "transcribe"}
      BY <2>2, NobodyAlive DEF Rearm, bgVars, Alive
    <3>2. chunks' = 0
      BY <2>2 DEF Rearm
    <3> QED BY <3>1, <3>2 DEF WindowInv
  <2>3. CASE Opened(r) \/ NoMicrophone(r)
    <3>1. chunks' = 0
      BY <2>3 DEF Opened, NoMicrophone, Started, ThreadInv
    <3>2. current = None
      BY <2>3 DEF Opened, NoMicrophone, Started, ThreadInv
    <3>3. \A k \in Starts : bg'[k] \notin {"due", "transcribe"}
      BY <2>3, <3>2, NobodyAlive DEF Opened, NoMicrophone, Started, BackgroundOver, Alive,
        TypeOK, ThreadTypeOK
    <3> QED BY <3>1, <3>3 DEF WindowInv
  <2> QED BY <1>1, <2>1, <2>2, <2>3 DEF StartStep
<1>2. ASSUME NEW r \in Stops, StopStep(r)
      PROVE  WindowInv'
  <2>1. CASE AcquireStop(r)
    <3>1. ~recording' /\ chunks' = 0
      BY <2>1, Zenon DEF AcquireStop, TakeChunks
    <3>2. UNCHANGED <<bg, nextEnd, window>>
      BY <2>1 DEF AcquireStop, bgVars
    <3> QED BY <3>1, <3>2 DEF WindowInv
  <2>2. CASE ~AcquireStop(r)
    <3>1. UNCHANGED <<recording, chunks, bg, nextEnd, window>>
      BY <1>2, <2>2 DEF StopStep, SignalStop, Collect, Transcribe, micVars, bgVars
    <3> QED BY <3>1 DEF WindowInv
  <2> QED BY <2>1, <2>2
<1>3. CASE UNCHANGED <<recording, chunks, bg, nextEnd, window>>
  BY <1>3 DEF WindowInv
<1>4. ASSUME NEW r \in Requests, Request(r)
      PROVE  WindowInv'
  BY <1>3, <1>4 DEF Request, micVars, bgVars
<1>5. CASE Callback
  <2>1. recording /\ recording' /\ chunks' = chunks + 1 /\ chunks \in Nat
    BY <1>5 DEF Callback, TypeOK, CaptureTypeOK
  <2>2. UNCHANGED <<bg, nextEnd, window>> /\ \A k \in Starts : nextEnd[k] \in Nat
    BY <1>5 DEF Callback, bgVars, TypeOK, ThreadTypeOK
  <2>3. \A k \in Starts : bg[k] = "due" => chunks' >= nextEnd[k]
    BY <2>1, <2>2 DEF WindowInv
  <2> QED BY <2>1, <2>2, <2>3 DEF WindowInv
<1>6. CASE Reload \/ UNCHANGED vars
  BY <1>3, <1>6 DEF Reload, vars, micVars, bgVars
<1>7. ASSUME NEW k \in Starts, BackgroundStep(k)
      PROVE  WindowInv'
  <2> USE DEF TypeOK, ThreadTypeOK
  <2>1. UNCHANGED <<recording, chunks>>
    BY <1>7 DEF BackgroundStep, Begin, Poll, Snapshot, Transcribed, micVars
  <2>2. \A q \in Starts : q # k => bg'[q] = bg[q] /\ nextEnd'[q] = nextEnd[q] /\ window'[q] = window[q]
    BY <1>7 DEF BackgroundStep, Begin, Poll, Snapshot, Transcribed
  <2>3. CASE Begin(k) \/ Transcribed(k)
    <3>1. bg'[k] = "poll"
      BY <2>3 DEF Begin, Transcribed
    <3> QED BY <2>1, <2>2, <3>1 DEF WindowInv
  <2>4. CASE Poll(k)
    <3>1. bg'[k] = "dead" \/ (bg'[k] = "due" /\ chunks >= nextEnd[k] + settings.delay)
      BY <2>4 DEF Poll
    <3>2. nextEnd[k] \in Nat /\ settings.delay \in Nat /\ chunks \in Nat
      BY SettingsAreNats DEF CaptureTypeOK
    <3>3. bg'[k] = "due" => chunks' >= nextEnd[k]
      BY <2>1, <3>1, <3>2
    <3>4. nextEnd'[k] = nextEnd[k]
      BY <2>4 DEF Poll
    <3> QED BY <2>1, <2>2, <3>1, <3>3, <3>4 DEF WindowInv
  <2>5. CASE Snapshot(k)
    <3>1. bg[k] = "due" /\ bg'[k] = "transcribe"
      BY <2>5 DEF Snapshot
    <3>2. window'[k].captured = chunks /\ window'[k].end = nextEnd[k]
      BY <2>5 DEF Snapshot
    <3>3. window'[k].start = WindowStart(nextEnd[k])
      BY <2>5 DEF Snapshot
    <3>4. CASE recording
      <4>1. Heard(k, WindowStart(nextEnd[k]))
        BY <3>1, <3>4, NoGap DEF Looping
      <4>2. Heard(k, window[k].start)'
        BY <3>3, <4>1 DEF Heard
      <4>3. chunks >= nextEnd[k]
        BY <3>1, <3>4 DEF WindowInv
      <4> QED BY <2>1, <2>2, <3>1, <3>2, <4>2, <4>3 DEF WindowInv
    <3>5. CASE ~recording
      BY <2>1, <2>2, <3>1, <3>2, <3>5 DEF WindowInv
    <3> QED BY <3>4, <3>5
  <2> QED BY <1>7, <2>3, <2>4, <2>5 DEF BackgroundStep
<1> QED BY <1>1, <1>2, <1>4, <1>5, <1>6, <1>7 DEF Next

LEMMA ResultStep ==
    /\ ~MayFail /\ TypeOK /\ LockInv /\ ThreadInv /\ OwnInv /\ CoverInv /\ [Next]_vars
    => ResultInv'
<1> SUFFICES ASSUME ~MayFail, TypeOK, LockInv, ThreadInv, OwnInv, CoverInv, [Next]_vars
             PROVE  ResultInv'
  OBVIOUS
<1> USE HeardGrows, HeardStays, RequestNames DEF CoverInv
<1>1. ASSUME NEW r \in Starts, StartStep(r)
      PROVE  ResultInv'
  <2>1. UNCHANGED <<parts, tailStart>> /\ \A q \in Stops : outcome'[q] = outcome[q]
    BY <1>1 DEF StartStep, AcquireStart, Rearm, Opened, NoMicrophone, Started, stopVars,
      TypeOK, RequestTypeOK
  <2>2. results' \subseteq results
    BY <1>1 DEF StartStep, AcquireStart, Rearm, Opened, NoMicrophone, Started
  <2> QED BY <2>1, <2>2 DEF ResultInv
<1>2. ASSUME NEW r \in Stops, StopStep(r)
      PROVE  ResultInv'
  <2>1. CASE AcquireStop(r) \/ SignalStop(r)
    BY <2>1 DEF AcquireStop, SignalStop, stopVars, ResultInv
  <2>2. CASE Collect(r)
    <3>1. parts[r] = {}
      BY <2>2 DEF Collect, OwnInv
    <3>2. parts'[r] = results /\ \A q \in Stops : q # r => parts'[q] = parts[q]
      BY <2>2 DEF Collect, TypeOK, ResultTypeOK
    <3>3. UNCHANGED <<tailStart, outcome>> /\ results' = {}
      BY <2>2 DEF Collect
    <3> QED BY <3>1, <3>2, <3>3 DEF ResultInv
  <2>3. ASSUME NEW x \in 0 .. MaxSamples, Transcribe(r, x)
        PROVE  ResultInv'
    <3>1. UNCHANGED <<results, parts>> /\ tailStart'[r] = x
      BY <2>3 DEF Transcribe, TypeOK, RequestTypeOK
    <3>2. \A q \in Stops : q # r => tailStart'[q] = tailStart[q] /\ outcome'[q] = outcome[q]
      BY <2>3 DEF Transcribe, TypeOK, RequestTypeOK
    <3>3. x = 0 \/ \E w \in parts[r] : x <= w.end
      <4>1. ASSUME NEW w \in parts[r]
            PROVE  Less(w.end, settings.overlap) <= w.end
        <5>1. w.end \in Nat /\ settings.overlap \in Nat
          BY SettingsAreNats DEF TypeOK, ResultTypeOK, Window
        <5> QED BY <5>1, LessIsNat
      <4> QED BY <2>3, <4>1 DEF Transcribe, TailMayStart
    <3> QED BY <3>1, <3>2, <3>3 DEF ResultInv
  <2> QED BY <1>2, <2>1, <2>2, <2>3 DEF StopStep
<1>3. CASE UNCHANGED <<results, parts, tailStart, outcome>>
  BY <1>3 DEF ResultInv
<1>4. ASSUME NEW r \in Requests, Request(r)
      PROVE  ResultInv'
  BY <1>3, <1>4 DEF Request, stopVars
<1>5. CASE Callback \/ Reload \/ UNCHANGED vars
  BY <1>3, <1>5 DEF Callback, Reload, vars, stopVars
<1>6. ASSUME NEW k \in Starts, BackgroundStep(k)
      PROVE  ResultInv'
  <2>1. CASE UNCHANGED results
    BY <1>3, <1>6, <2>1 DEF BackgroundStep, Begin, Poll, Snapshot, Transcribed, stopVars
  <2>2. CASE Transcribed(k) /\ Samples(window[k]) # {} /\ results' = results \cup {window[k]}
    <3>1. bg[k] = "transcribe" /\ window[k].take = k
      BY <2>2 DEF Transcribed, ThreadInv
    <3>2. window[k].captured \in Nat /\ window[k].end \in Nat /\ window[k].start \in Nat
      BY DEF TypeOK, ThreadTypeOK, Window
    <3>3. window[k].captured # 0
      BY <2>2, <3>2 DEF Samples
    <3>4. window[k].captured >= window[k].end
      BY <3>1, <3>3 DEF WindowInv
    <3>5. Heard(k, window[k].end)' /\ window' = window
      BY <2>2, <3>4, WindowIsHeard DEF Transcribed
    <3>6. \A x \in Nat : x < window[k].end => <<k, x>> \in heard'
      BY <3>5 DEF Heard
    <3>7. UNCHANGED <<parts, tailStart, outcome>>
      BY <2>2 DEF Transcribed, stopVars
    <3>8. \A w \in results : Heard(w.take, w.end)'
      BY DEF ResultInv, Heard
    <3>9. \A w \in results' : \A x \in Nat : x < w.end => <<w.take, x>> \in heard'
      BY <2>2, <3>1, <3>6, <3>8 DEF Heard
    <3> QED BY <3>7, <3>9 DEF ResultInv, Heard
  <2> QED BY <1>6, <2>1, <2>2 DEF BackgroundStep, Begin, Poll, Snapshot, Transcribed
<1> QED BY <1>1, <1>2, <1>4, <1>5, <1>6 DEF Next

(* Without failures, no sample of a transcribed recording is lost, however *)
(* long it is, whatever the settings that respect CadenceAssumption and    *)
(* wherever stops, starts and changes of the settings meet the thread.     *)
THEOREM EverythingHeardHolds ==
    ASSUME ~MayFail
    PROVE  Spec => []EverythingHeard
<1>1. Init => CoverInv
  <2>1. Init => FrontierInv
    BY DEF Init, FrontierInv, Looping
  <2>2. Init => WindowInv
    BY DEF Init, WindowInv
  <2>3. Init => ResultInv
    BY RequestNames DEF Init, ResultInv
  <2> QED BY <2>1, <2>2, <2>3 DEF CoverInv
<1>2. TypeOK /\ LockInv /\ ThreadInv /\ OwnInv /\ CoverInv /\ [Next]_vars => CoverInv'
  BY FrontierStep, WindowStep, ResultStep DEF CoverInv
<1>3. TypeOK /\ OwnInv /\ CoverInv => EverythingHeard
  <2> SUFFICES ASSUME TypeOK, OwnInv, CoverInv, NEW r \in Stops, outcome[r] = "text",
                      NEW x \in 0 .. taken[r].total - 1, ~(x >= tailStart[r])
               PROVE  <<taken[r].take, x>> \in heard
    BY DEF EverythingHeard
  <2>1. x \in Nat /\ tailStart[r] \in Nat /\ x < tailStart[r]
    <3>1. tailStart[r] \in Nat /\ taken[r].total \in Nat
      BY DEF TypeOK, RequestTypeOK, ResultTypeOK
    <3> QED BY <3>1
  <2>2. PICK w \in parts[r] : tailStart[r] <= w.end
    BY <2>1 DEF CoverInv, ResultInv
  <2>3. w.end \in Nat
    BY DEF TypeOK, ResultTypeOK, Window
  <2>4. x < w.end
    BY <2>1, <2>2, <2>3
  <2>5. Heard(w.take, w.end) /\ w.take = taken[r].take
    BY DEF CoverInv, ResultInv, OwnInv
  <2> QED BY <2>1, <2>4, <2>5 DEF Heard
<1> QED BY <1>1, <1>2, <1>3, OwnInvariant, PTL DEF Spec

-----------------------------------------------------------------------------
(* SttRecorder implements RecorderContract; what the requests may rely on  *)
(* between them: the microphone and the samples.                           *)


(* Between two steps of the holder of the lock it is known how far the old *)
(* recording is taken down; between requests all parts of it agree.        *)
MicInv ==
    /\ lock = None => (mic <=> recording) /\ (mic <=> current # None)
    /\ \A r \in Requests : pc[r] = "opening" => recording /\ ~mic /\ current = None
    /\ \A r \in Requests : pc[r] \in {"signal", "collecting"} => ~recording /\ ~mic

(* Samples come from an open microphone, and a recording whose samples     *)
(* were taken never gets another one.                                      *)
TakeInv ==
    /\ chunks > 0 => mic
    /\ mic => take \in Starts /\ pc[take] = "done"
    /\ \A r \in Stops : taken[r].total > 0 =>
          /\ taken[r].take \in Starts /\ pc[taken[r].take] = "done"
          /\ ~(mic /\ take = taken[r].take)
    /\ TranscribedOnce

(* A background thread, or a change of the settings, leaves both alone. *)
LEMMA BackgroundRests ==
    ASSUME [Next]_vars,
           \/ \E k \in Starts : BackgroundStep(k)
           \/ Reload
           \/ UNCHANGED vars
    PROVE  UNCHANGED <<lock, pc, recording, mic, take, chunks, current, taken, outcome>>
BY DEF BackgroundStep, Begin, Poll, Snapshot, Transcribed, Reload, vars, micVars, stopVars

LEMMA MicStep == TypeOK /\ LockInv /\ MicInv /\ [Next]_vars => MicInv'
<1> SUFFICES ASSUME TypeOK, LockInv, MicInv, [Next]_vars
             PROVE  MicInv'
  OBVIOUS
<1> USE RequestNames
<1>1. ASSUME NEW r \in Requests, Request(r)
      PROVE  MicInv'
  BY <1>1 DEF Request, micVars, MicInv, TypeOK, RequestTypeOK
<1>2. ASSUME NEW r \in Starts, StartStep(r)
      PROVE  MicInv'
  <2>1. r \in Requests /\ r # None
    OBVIOUS
  <2>2. \A q \in Requests : q # r => pc'[q] = pc[q]
    BY <1>2 DEF StartStep, AcquireStart, Rearm, Opened, NoMicrophone, Started, TypeOK, RequestTypeOK
  <2>3. CASE AcquireStart(r)
    BY <2>1, <2>3 DEF AcquireStart, micVars, MicInv, TypeOK, RequestTypeOK
  <2>4. CASE Rearm(r)
    <3>1. \A q \in Requests : q # r => pc[q] \notin Holding
      BY <2>1, <2>4, OnlyHolder DEF Rearm, Holding
    <3>2. lock' # None /\ pc'[r] \notin {"signal", "collecting"}
      BY <2>1, <2>4 DEF Rearm, LockInv, Holding, TypeOK, RequestTypeOK
    <3>3. recording' /\ ~mic' /\ current' = None
      BY <2>4 DEF Rearm
    <3>4. \A q \in Requests : q # r => pc'[q] \notin {"opening", "signal", "collecting"}
      BY <2>2, <3>1 DEF Holding
    <3>5. \A q \in Requests : pc'[q] \notin {"signal", "collecting"}
      BY <3>2, <3>4
    <3> QED BY <3>2, <3>3, <3>5, Zenon DEF MicInv
  <2>5. CASE Opened(r) \/ NoMicrophone(r)
    <3>1. \A q \in Requests : q # r => pc[q] \notin Holding
      BY <2>1, <2>5, OnlyHolder DEF Opened, NoMicrophone, Started, Holding
    <3>2. pc[r] = "opening" /\ pc'[r] = "done"
      BY <2>1, <2>5 DEF Opened, NoMicrophone, Started, TypeOK, RequestTypeOK
    <3>3. recording /\ ~mic /\ current = None
      BY <2>1, <3>2 DEF MicInv
    <3>4. (mic' <=> recording') /\ (mic' <=> current' # None)
      <4>1. CASE Opened(r)
        <5>1. mic' /\ recording' = recording /\ current' = r
          BY <4>1 DEF Opened
        <5> QED BY <2>1, <3>3, <5>1
      <4>2. CASE NoMicrophone(r)
        <5>1. ~mic' /\ ~recording' /\ current' = None
          BY <3>3, <4>2 DEF NoMicrophone
        <5> QED BY <5>1
      <4> QED BY <2>5, <4>1, <4>2
    <3>5. \A q \in Requests : pc'[q] # "opening" /\ pc'[q] \notin {"signal", "collecting"}
      BY <2>2, <3>1, <3>2 DEF Holding
    <3> QED BY <3>4, <3>5, Zenon DEF MicInv
  <2> QED BY <1>2, <2>3, <2>4, <2>5 DEF StartStep
<1>3. ASSUME NEW r \in Stops, StopStep(r)
      PROVE  MicInv'
  <2>1. r \in Requests /\ r # None
    BY RecorderAssumption DEF Requests
  <2>2. CASE AcquireStop(r)
    <3>1. \A q \in Requests : pc[q] \notin Holding
      BY <2>1, <2>2, RecorderAssumption DEF AcquireStop, LockInv
    <3> QED BY <2>1, <2>2, <3>1 DEF AcquireStop, MicInv, Holding, TypeOK, RequestTypeOK
  <2>3. CASE SignalStop(r) \/ Collect(r)
    <3>1. ~recording /\ ~mic
      BY <2>1, <2>3 DEF SignalStop, Collect, MicInv
    <3>2. ~recording' /\ ~mic'
      BY <2>3, <3>1 DEF SignalStop, Collect, micVars
    <3>3. lock' = None => current' = None
      BY <2>1, <2>3, <3>1, RecorderAssumption DEF SignalStop, Collect, LockInv, Holding
    <3>4. \A q \in Requests : pc'[q] # "opening"
      BY <2>1, <2>3, OnlyHolder DEF SignalStop, Collect, Holding, TypeOK, RequestTypeOK
    <3> QED BY <3>2, <3>3, <3>4, Zenon DEF MicInv
  <2>4. ASSUME NEW x \in 0 .. MaxSamples, Transcribe(r, x)
        PROVE  MicInv'
    BY <2>1, <2>4 DEF Transcribe, micVars, MicInv, TypeOK, RequestTypeOK
  <2> QED BY <1>3, <2>2, <2>3, <2>4 DEF StopStep
<1>4. CASE Callback
  BY <1>4 DEF Callback, MicInv
<1>5. CASE \/ \E k \in Starts : BackgroundStep(k)
           \/ Reload \/ UNCHANGED vars
  BY <1>5, BackgroundRests DEF MicInv
<1> QED BY <1>1, <1>2, <1>3, <1>4, <1>5 DEF Next

LEMMA TakeStep ==
    TypeOK /\ LockInv /\ ThreadInv /\ TakeInv /\ [Next]_vars => TakeInv'
<1> SUFFICES ASSUME TypeOK, LockInv, ThreadInv, TakeInv, [Next]_vars
             PROVE  TakeInv'
  OBVIOUS
<1> USE RequestNames
<1>1. ASSUME NEW r \in Requests, Request(r)
      PROVE  TakeInv'
  BY <1>1 DEF Request, micVars, stopVars, TakeInv, TranscribedOnce, TypeOK, RequestTypeOK
<1>2. ASSUME NEW r \in Starts, StartStep(r)
      PROVE  TakeInv'
  <2>1. r \in Requests /\ pc[r] # "done" /\ UNCHANGED taken
    BY <1>2 DEF StartStep, AcquireStart, Rearm, Opened, NoMicrophone, Started, stopVars
  <2>2. \A q \in Requests : pc[q] = "done" => pc'[q] = "done"
    BY <1>2, <2>1 DEF StartStep, AcquireStart, Rearm, Opened, NoMicrophone, Started, TypeOK, RequestTypeOK
  <2>3. CASE AcquireStart(r)
    BY <2>1, <2>2, <2>3 DEF AcquireStart, micVars, TakeInv, TranscribedOnce
  <2>4. CASE Rearm(r)
    BY <2>1, <2>2, <2>4 DEF Rearm, TakeInv, TranscribedOnce
  <2>5. CASE Opened(r)
    <3>1. take = r /\ take' = take /\ mic' /\ chunks' = chunks /\ pc'[r] = "done"
      BY <2>1, <2>5 DEF Opened, Started, ThreadInv, TypeOK, RequestTypeOK
    <3> QED BY <2>1, <2>2, <3>1 DEF TakeInv, TranscribedOnce
  <2>6. CASE NoMicrophone(r)
    BY <2>1, <2>2, <2>6 DEF NoMicrophone, Started, TakeInv, TranscribedOnce
  <2> QED BY <1>2, <2>3, <2>4, <2>5, <2>6 DEF StartStep
<1>3. ASSUME NEW r \in Stops, StopStep(r)
      PROVE  TakeInv'
  <2>1. \A q \in Requests : pc[q] = "done" => pc'[q] = "done"
    BY <1>3 DEF StopStep, AcquireStop, SignalStop, Collect, Transcribe, TypeOK, RequestTypeOK
  <2>2. CASE AcquireStop(r)
    <3>1. /\ taken' = [taken EXCEPT ![r] = [take |-> take, total |-> chunks]]
          /\ chunks' = 0 /\ ~mic' /\ UNCHANGED take
      BY <2>2 DEF AcquireStop, TakeChunks
    <3>2. \A s \in Stops : taken'[s] = IF s = r THEN [take |-> take, total |-> chunks] ELSE taken[s]
      BY <3>1 DEF TypeOK, ResultTypeOK
    <3>3. \A s \in Stops : taken'[s].total > 0 =>
             taken'[s].take \in Starts /\ pc'[taken'[s].take] = "done"
      BY <2>1, <3>2 DEF TakeInv
    <3>4. TranscribedOnce'
      BY <3>2 DEF TranscribedOnce, TakeInv
    <3> QED BY <3>1, <3>3, <3>4 DEF TakeInv
  <2>3. CASE SignalStop(r) \/ Collect(r)
    BY <2>1, <2>3 DEF SignalStop, Collect, micVars, stopVars, TakeInv, TranscribedOnce
  <2>4. ASSUME NEW x \in 0 .. MaxSamples, Transcribe(r, x)
        PROVE  TakeInv'
    BY <2>1, <2>4 DEF Transcribe, micVars, TakeInv, TranscribedOnce
  <2> QED BY <1>3, <2>2, <2>3, <2>4 DEF StopStep
<1>4. CASE Callback
  BY <1>4 DEF Callback, stopVars, TakeInv, TranscribedOnce
<1>5. CASE \/ \E k \in Starts : BackgroundStep(k)
           \/ Reload \/ UNCHANGED vars
  BY <1>5, BackgroundRests DEF TakeInv, TranscribedOnce
<1> QED BY <1>1, <1>2, <1>3, <1>4, <1>5 DEF Next

LEMMA RecorderInvariant ==
    Spec => [](TypeOK /\ LockInv /\ ThreadInv /\ MicInv /\ TakeInv)
<1>1. Init => MicInv /\ TakeInv
  BY DEF Init, MicInv, TakeInv, TranscribedOnce
<1> QED BY <1>1, OwnInvariant, MicStep, TakeStep, PTL DEF Spec

(* The microphone is open between requests only while a recording and its  *)
(* background thread are in progress, for any number of requests.          *)
THEOREM MicMatchesRecordingHolds == Spec => []MicMatchesRecording
<1>1. ThreadInv /\ MicInv => MicMatchesRecording
  BY DEF ThreadInv, MicInv, MicMatchesRecording, Alive
<1> QED BY <1>1, RecorderInvariant, PTL

(* No two stop requests take the samples of one recording.                 *)
THEOREM TranscribedOnceHolds == Spec => []TranscribedOnce
<1>1. TakeInv => TranscribedOnce
  BY DEF TakeInv
<1> QED BY <1>1, RecorderInvariant, PTL

-----------------------------------------------------------------------------
(* Refinement *)

Status == [r \in Requests |-> StatusOf(r)]
Got    == [r \in Stops |-> IF taken[r].total > 0 THEN taken[r].take ELSE None]
Rec    == IF mic THEN take ELSE None
Opener == IF lock \in Starts /\ pc[lock] = "opening" THEN lock ELSE None

(* A step of request r moves the status of r only. *)
LEMMA StatusMove ==
    ASSUME TypeOK, NEW r \in Requests, NEW label, NEW result,
           pc' = [pc EXCEPT ![r] = label],
           outcome' = [outcome EXCEPT ![r] = result]
    PROVE  Status' = [Status EXCEPT ![r] = StatusOf(r)']
<1>1. \A q \in Requests : q # r => pc'[q] = pc[q] /\ outcome'[q] = outcome[q]
  BY DEF TypeOK, RequestTypeOK
<1>2. \A q \in Requests : q # r => StatusOf(q)' = StatusOf(q)
  BY <1>1 DEF StatusOf
<1> QED BY <1>2 DEF Status

LEMMA StatusKept ==
    ASSUME TypeOK, UNCHANGED <<pc, outcome>>
    PROVE  Status' = Status
BY DEF Status, StatusOf

(* Whoever is in a critical step has the lock; nobody opens when it is free. *)
LEMMA OpenerIs ==
    ASSUME TypeOK, LockInv
    PROVE  /\ \A r \in Starts : pc[r] = "opening" => Opener = r
           /\ \A r \in Requests : pc[r] \in Holding \ {"opening"} => Opener = None
           /\ lock = None => Opener = None
<1> USE RequestNames
<1>1. ASSUME NEW r \in Starts, pc[r] = "opening"
      PROVE  Opener = r
  BY <1>1 DEF LockInv, Holding, Opener
<1>2. ASSUME NEW r \in Requests, pc[r] \in Holding \ {"opening"}
      PROVE  Opener = None
  BY <1>2 DEF LockInv, Opener
<1>3. lock = None => Opener = None
  BY DEF Opener
<1> QED BY <1>1, <1>2, <1>3

(* A step that neither enters nor leaves the opening of a stream. *)
LEMMA OpenerKept ==
    ASSUME TypeOK, TypeOK', LockInv, LockInv',
           \A r \in Starts : pc[r] = "opening" <=> pc'[r] = "opening"
    PROVE  Opener' = Opener
BY RequestNames DEF LockInv, Holding, Opener

Stutter == UNCHANGED <<Rec, Opener, Status, Got>>

LEMMA ContractStutter ==
    ASSUME Stutter
    PROVE  UNCHANGED Contract!vars
BY DEF Stutter, Contract!vars, Rec, Opener, Status, Got

LEMMA StepRequest ==
    ASSUME TypeOK, TypeOK', LockInv, LockInv', NEW r \in Requests, Request(r)
    PROVE  Contract!Ask(r)
<1>1. Status' = [Status EXCEPT ![r] = "asked"]
  <2>1. pc' = [pc EXCEPT ![r] = "called"] /\ outcome' = [outcome EXCEPT ![r] = outcome[r]]
    BY DEF Request, TypeOK, RequestTypeOK
  <2>2. StatusOf(r)' = "asked"
    BY DEF Request, StatusOf, TypeOK, RequestTypeOK
  <2> QED BY <2>1, <2>2, StatusMove
<1>2. Status[r] = "idle"
  BY DEF Request, Status, StatusOf
<1>3. Opener' = Opener
  <2>1. pc[r] = "idle" /\ pc' = [pc EXCEPT ![r] = "called"]
    BY DEF Request
  <2> QED BY <2>1, OpenerKept, RequestNames DEF TypeOK, RequestTypeOK
<1>4. Rec' = Rec /\ Got' = Got
  BY DEF Request, micVars, stopVars, Rec, Got
<1> QED BY <1>1, <1>2, <1>3, <1>4 DEF Contract!Ask, Rec, Opener, Status, Got

LEMMA StepStart ==
    ASSUME TypeOK, TypeOK', LockInv, LockInv', ThreadInv, NEW r \in Starts, StartStep(r)
    PROVE  Contract!Clear(r) \/ Contract!Open(r) \/ Contract!Fail(r) \/ UNCHANGED Contract!vars
<1> USE RequestNames
<1>0. r \in Requests
  OBVIOUS
<1>1. CASE AcquireStart(r)
  <2>1. /\ pc[r] = "called" /\ pc' = [pc EXCEPT ![r] = "joining"]
        /\ outcome' = [outcome EXCEPT ![r] = outcome[r]]
    BY <1>1 DEF AcquireStart, TypeOK, RequestTypeOK
  <2>2. StatusOf(r)' = Status[r]
    BY <1>0, <2>1 DEF Status, StatusOf, TypeOK, RequestTypeOK
  <2>3. Status' = Status
    BY <1>0, <2>1, <2>2, StatusMove DEF Status
  <2>4. Opener' = Opener
    BY <2>1, OpenerKept DEF TypeOK, RequestTypeOK
  <2>5. Rec' = Rec /\ Got' = Got
    BY <1>1 DEF AcquireStart, micVars, stopVars, Rec, Got
  <2> QED BY <2>3, <2>4, <2>5, ContractStutter DEF Stutter
<1>2. CASE Rearm(r)
  <2>1. /\ pc[r] = "joining" /\ pc' = [pc EXCEPT ![r] = "opening"]
        /\ outcome' = [outcome EXCEPT ![r] = outcome[r]]
    BY <1>2 DEF Rearm, TypeOK, RequestTypeOK
  <2>2. StatusOf(r)' = Status[r] /\ Status[r] = "asked"
    BY <1>0, <2>1 DEF Status, StatusOf, TypeOK, RequestTypeOK
  <2>3. Status' = Status
    BY <1>0, <2>1, <2>2, StatusMove DEF Status
  <2>4. Opener = None
    BY <1>0, <2>1, OpenerIs DEF Holding
  <2>5. lock' = r
    BY <1>0, <1>2, <2>1 DEF Rearm, LockInv, Holding
  <2>6. Opener' = r
    BY <2>1, <2>5 DEF Opener, TypeOK, RequestTypeOK
  <2>7. Rec' = None /\ Got' = Got
    BY <1>2 DEF Rearm, stopVars, Rec, Got
  <2> QED BY <2>2, <2>3, <2>4, <2>6, <2>7 DEF Contract!Clear, Rec, Opener, Status, Got
<1>3. CASE Opened(r)
  <2>1. /\ pc[r] = "opening" /\ pc' = [pc EXCEPT ![r] = "done"]
        /\ outcome' = [outcome EXCEPT ![r] = "started"] /\ lock' = None
    BY <1>3 DEF Opened, Started
  <2>2. StatusOf(r)' = "opened"
    BY <1>0, <2>1 DEF StatusOf, TypeOK, RequestTypeOK
  <2>3. Status' = [Status EXCEPT ![r] = "opened"]
    BY <1>0, <2>1, <2>2, StatusMove
  <2>4. Opener = r /\ Opener' = None
    BY <2>1, OpenerIs DEF Opener
  <2>5. take' = r /\ mic'
    BY <1>3, <2>1 DEF Opened, Started, ThreadInv
  <2>6. Rec' = r /\ Got' = Got
    BY <1>3, <2>5 DEF Opened, Started, stopVars, Rec, Got
  <2> QED BY <2>3, <2>4, <2>6 DEF Contract!Open, Rec, Opener, Status, Got
<1>4. CASE NoMicrophone(r)
  <2>1. /\ pc[r] = "opening" /\ pc' = [pc EXCEPT ![r] = "done"]
        /\ outcome' = [outcome EXCEPT ![r] = "no microphone"] /\ lock' = None
    BY <1>4 DEF NoMicrophone, Started
  <2>2. StatusOf(r)' = "failed"
    BY <1>0, <2>1 DEF StatusOf, TypeOK, RequestTypeOK
  <2>3. Status' = [Status EXCEPT ![r] = "failed"]
    BY <1>0, <2>1, <2>2, StatusMove
  <2>4. Opener = r /\ Opener' = None
    BY <2>1, OpenerIs DEF Opener
  <2>5. Rec' = Rec /\ Got' = Got
    BY <1>4 DEF NoMicrophone, Started, stopVars, Rec, Got
  <2> QED BY <2>3, <2>4, <2>5 DEF Contract!Fail, Rec, Opener, Status, Got
<1> QED BY <1>1, <1>2, <1>3, <1>4 DEF StartStep

LEMMA StepStop ==
    ASSUME TypeOK, TypeOK', LockInv, LockInv', TakeInv, NEW r \in Stops, StopStep(r)
    PROVE  \/ Contract!Take(r) \/ UNCHANGED Contract!vars
           \/ \E result \in {"text", "empty", "error"} : Contract!Answer(r, result)
<1> USE RequestNames
<1>0. r \in Requests /\ r \notin Starts
  OBVIOUS
<1>1. CASE AcquireStop(r)
  <2>1. /\ pc[r] = "called" /\ pc' = [pc EXCEPT ![r] = "signal"] /\ lock = None /\ lock' = r
        /\ outcome' = [outcome EXCEPT ![r] = outcome[r]]
    BY <1>1 DEF AcquireStop, TypeOK, RequestTypeOK
  <2>2. Status[r] = "asked" /\ StatusOf(r)' = "taken"
    BY <1>0, <2>1 DEF Status, StatusOf, TypeOK, RequestTypeOK
  <2>3. Status' = [Status EXCEPT ![r] = "taken"]
    BY <1>0, <2>1, <2>2, StatusMove
  <2>4. Opener = None /\ Opener' = None
    BY <1>0, <2>1 DEF Opener
  <2>5. Rec' = None
    BY <1>1 DEF AcquireStop, Rec
  <2>6. taken' = [taken EXCEPT ![r] = [take |-> take, total |-> chunks]]
    BY <1>1 DEF AcquireStop, TakeChunks
  <2>7. Got' = [Got EXCEPT ![r] = IF chunks > 0 THEN take ELSE None]
    BY <2>6 DEF Got, TypeOK, ResultTypeOK
  <2>8. (IF chunks > 0 THEN take ELSE None) \in {Rec, None}
    BY DEF TakeInv, Rec
  <2> QED BY <2>2, <2>3, <2>4, <2>5, <2>7, <2>8 DEF Contract!Take, Rec, Opener, Status, Got
<1>2. CASE SignalStop(r) \/ Collect(r)
  <2>1. PICK label \in {"collecting", "tail"} : pc' = [pc EXCEPT ![r] = label]
    BY <1>2 DEF SignalStop, Collect
  <2>2. outcome' = [outcome EXCEPT ![r] = outcome[r]] /\ pc[r] \in {"signal", "collecting"}
    BY <1>2 DEF SignalStop, Collect, TypeOK, RequestTypeOK
  <2>3. StatusOf(r)' = Status[r]
    BY <1>0, <2>1, <2>2 DEF Status, StatusOf, TypeOK, RequestTypeOK
  <2>4. Status' = Status
    BY <1>0, <2>1, <2>2, <2>3, StatusMove DEF Status
  <2>5. Opener' = Opener
    BY <1>0, <2>1, <2>2, OpenerKept DEF TypeOK, RequestTypeOK
  <2>6. Rec' = Rec /\ Got' = Got
    BY <1>2 DEF SignalStop, Collect, micVars, stopVars, Rec, Got
  <2> QED BY <2>4, <2>5, <2>6, ContractStutter DEF Stutter
<1>3. ASSUME NEW x \in 0 .. MaxSamples, Transcribe(r, x)
      PROVE  \E result \in {"text", "empty", "error"} : Contract!Answer(r, result)
  <2>1. PICK result \in {"text", "empty", "error"} :
            /\ outcome' = [outcome EXCEPT ![r] = result]
            /\ result = "text" => taken[r].total > 0
    BY <1>3 DEF Transcribe
  <2>2. pc[r] = "tail" /\ pc' = [pc EXCEPT ![r] = "done"]
    BY <1>3 DEF Transcribe
  <2>3. Status[r] = "taken" /\ StatusOf(r)' = result
    BY <1>0, <2>1, <2>2 DEF Status, StatusOf, TypeOK, RequestTypeOK
  <2>4. Status' = [Status EXCEPT ![r] = result]
    BY <1>0, <2>1, <2>2, <2>3, StatusMove
  <2>5. Opener' = Opener
    BY <1>0, <2>2, OpenerKept DEF TypeOK, RequestTypeOK
  <2>6. Rec' = Rec /\ Got' = Got
    BY <1>3 DEF Transcribe, micVars, Rec, Got
  <2>7. result = "text" => Got[r] # None
    BY <2>1 DEF Got, TakeInv
  <2>8. Contract!Answer(r, result)
    BY <2>3, <2>4, <2>5, <2>6, <2>7 DEF Contract!Answer, Rec, Opener, Status, Got
  <2> QED BY <2>8
<1> QED BY <1>1, <1>2, <1>3 DEF StopStep

LEMMA ContractStep ==
    ASSUME TypeOK, TypeOK', LockInv, LockInv', ThreadInv, TakeInv, [Next]_vars
    PROVE  [Contract!Next]_Contract!vars
<1> USE DEF Contract!Next, Contract!Requests
<1>1. ASSUME NEW r \in Requests, Request(r)
      PROVE  Contract!Next
  BY <1>1, StepRequest DEF Requests
<1>2. ASSUME NEW r \in Starts, StartStep(r)
      PROVE  [Contract!Next]_Contract!vars
  BY <1>2, StepStart
<1>3. ASSUME NEW r \in Stops, StopStep(r)
      PROVE  [Contract!Next]_Contract!vars
  BY <1>3, StepStop
<1>4. CASE Callback
  <2>1. UNCHANGED <<pc, outcome, lock, mic, take, taken>>
    BY <1>4 DEF Callback, stopVars
  <2>2. Stutter
    BY <2>1, StatusKept DEF Stutter, Rec, Opener, Got
  <2> QED BY <2>2, ContractStutter
<1>5. CASE \/ \E k \in Starts : BackgroundStep(k)
           \/ Reload \/ UNCHANGED vars
  <2>1. Stutter
    BY <1>5, BackgroundRests, StatusKept DEF Stutter, Rec, Opener, Got
  <2> QED BY <2>1, ContractStutter
<1> QED BY <1>1, <1>2, <1>3, <1>4, <1>5 DEF Next

(* The recorder keeps the promises of RecorderContract, which is what the  *)
(* push-to-talk flows are composed with: whatever the background thread    *)
(* does, requests are served one at a time and a recording has one owner.  *)
THEOREM RecorderImplementsContract == Spec => RefinesContract
<1>1. ASSUME Init
      PROVE  Contract!Init
  <2>1. Status = [r \in Requests |-> "idle"]
    BY <1>1 DEF Init, Status, StatusOf
  <2>2. Got = [r \in Stops |-> None]
    BY <1>1 DEF Init, Got
  <2>3. Rec = None /\ Opener = None
    BY <1>1, RequestNames DEF Init, Rec, Opener
  <2> QED BY <2>1, <2>2, <2>3
          DEF Contract!Init, Contract!Requests, Requests, Rec, Opener, Status, Got
<1>2. TypeOK /\ LockInv /\ ThreadInv /\ TakeInv /\ TypeOK' /\ LockInv' /\ [Next]_vars
      => [Contract!Next]_Contract!vars
  BY ContractStep
<1> QED BY <1>1, <1>2, RecorderInvariant, PTL DEF Spec, RefinesContract, Contract!Spec

=============================================================================
