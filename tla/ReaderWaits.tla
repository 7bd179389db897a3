---------------------------- MODULE ReaderWaits ----------------------------
(***************************************************************************)
(* Who waits for whom in runtime/supervisor/flows.py.  The reader thread of*)
(* a worker runs the handlers of its events itself; most of them only      *)
(* schedule a flow, but some call a worker and wait.  Meanwhile nobody     *)
(* reads that pipe: neither the events behind nor the answers that flows   *)
(* and other handlers wait for.                                            *)
(*                                                                         *)
(* The reader thread of a worker has the worker's name.  The processes do  *)
(* not exit here (WorkerIpc has that), and the native worker is left out:  *)
(* its one handler claims and schedules.                                   *)
(***************************************************************************)
EXTENDS Naturals, Sequences, FiniteSets

CONSTANTS
    Scheduled,   \* flows that _schedule started on threads of their own
    MaxEvents    \* bound: how many events the workers emit altogether

Readers == {"ui", "audio", "brain"}
Waiters == Readers \cup Scheduled

ASSUME ReaderWaitsAssumption ==
    /\ MaxEvents \in Nat
    /\ Scheduled \cap Readers = {}

VARIABLES
    outbox,    \* what each worker wrote and its reader did not read yet
    inbox,     \* the requests each worker has not answered
    events,    \* how many events were emitted
    todo,      \* the calls the handler or flow of each thread still makes
    asked,     \* how many requests each thread has made: numbers the last one
    waiting,   \* threads in ev.wait
    woken      \* those whose slot was filled

readerVars == <<outbox, inbox, events, todo, asked, waiting, woken>>

-----------------------------------------------------------------------------
(* The calls of a handler: _safe_call waits for the answer and goes on     *)
(* without it, _fire does not wait, and the question about an agent's tool *)
(* call decides what follows.  Calls in a row to one worker are one call.  *)

Wait(w)     == [to |-> w, how |-> "wait"]
Question(w) == [to |-> w, how |-> "question"]
Fire(w)     == [to |-> w, how |-> "fire"]

(* The events whose handlers make calls; the others only schedule a flow. *)
(* "audio.playing" stands for audio.warmup.* and audio.playback.started,  *)
(* "reply" for reply.* and for agent.log, agent.trace and agent.done, and *)
(* "ui.intent.cancelled" for ui.snip.cancelled.                           *)
EventsOf ==
    [ui    |-> {"ui.bubble.speed", "ui.health.requested", "ui.intent.cancelled"},
     audio |-> {"audio.playing", "audio.playback.done"},
     brain |-> {"reply", "agent.approval.request", "live_file.approval.request"}]

(* _on_health_requested *)
HealthRequested == {<<Wait("ui")>>}

EventNames == UNION {EventsOf[w] : w \in Readers}

(* What a worker client does with an event for good; the choice stands for *)
(* the early returns.  Nobody listens to a file approval without a stream. *)
Handler ==
    [e \in EventNames |->
        CASE e = "ui.bubble.speed"            -> {<<Wait("audio")>>}
          [] e = "ui.health.requested"        -> HealthRequested
          [] e = "ui.intent.cancelled"        -> {<<>>, <<Fire("ui")>>}
          [] e = "audio.playing"              -> {<<>>, <<Wait("ui")>>}
          [] e = "audio.playback.done"        -> {<<>>, <<Wait("ui"), Fire("ui")>>}
          [] e = "reply"                      -> {<<>>, <<Wait("ui")>>}
          [] e = "agent.approval.request"     -> {<<Wait("ui")>>}
          [] e = "live_file.approval.request" -> {<<>>}]

(* The on_event of a stream: _query, chat_request, run_agent_task *)
StreamHandler ==
    [Handler EXCEPT
        !["agent.approval.request"]     = {<<Question("ui")>>},
        !["live_file.approval.request"] = {<<Wait("ui"), Fire("brain")>>}]

(* A flow asks one worker and waits; one that asks the brain is a stream *)
FlowCalls == {<<Wait(w)>> : w \in Readers}

(* run_agent_task.on_event, when the question could not be shown *)
Decline == <<Wait("ui"), Wait("brain")>>

-----------------------------------------------------------------------------
Event(e, t)      == [type |-> "event", name |-> e, from |-> t, no |-> 0]
Answer(request)  == [type |-> "answer", name |-> "", from |-> request.from, no |-> request.no]

Message == [type : {"event", "answer"}, name : EventNames \cup {""}, from : Waiters, no : Nat]
RequestLine == [from : Waiters, no : Nat \ {0}]
Call == [to : Readers, how : {"wait", "question", "fire"}]

ReaderTypeOK ==
    /\ outbox \in [Readers -> Seq(Message)]
    /\ inbox \in [Readers -> SUBSET RequestLine]
    /\ events \in 0 .. MaxEvents
    /\ todo \in [Waiters -> Seq(Call)]
    /\ asked \in [Waiters -> Nat]
    /\ waiting \subseteq Waiters
    /\ woken \subseteq waiting
    /\ \A w \in Readers : \A i \in DOMAIN outbox[w] :
          /\ outbox[w][i].no <= asked[outbox[w][i].from]
          /\ outbox[w][i].type = "event" => outbox[w][i].name \in EventsOf[w]

ReaderInit ==
    /\ outbox = [w \in Readers |-> <<>>]
    /\ inbox = [w \in Readers |-> {}]
    /\ events = 0
    /\ todo = [t \in Waiters |-> <<>>]
    /\ asked = [t \in Waiters |-> 0]
    /\ waiting = {}
    /\ woken = {}

-----------------------------------------------------------------------------
(* The workers *)

(* A worker emits an event on behalf of thread t.  The events of a stream  *)
(* come while its request is served; the user and the player act any time. *)
EmitEvent(w, e, t) ==
    /\ events < MaxEvents
    /\ e \in EventsOf[w]
    /\ IF w = "brain"
       THEN t \in Scheduled /\ \E r \in inbox["brain"] : r.from = t
       ELSE t = w
    /\ events' = events + 1
    /\ outbox' = [outbox EXCEPT ![w] = Append(@, Event(e, t))]
    /\ UNCHANGED <<inbox, todo, asked, waiting, woken>>

(* A worker answers a request, in any order; it may also never do so *)
AnswerRequest(w, r) ==
    /\ r \in inbox[w]
    /\ inbox' = [inbox EXCEPT ![w] = @ \ {r}]
    /\ outbox' = [outbox EXCEPT ![w] = Append(@, Answer(r))]
    /\ UNCHANGED <<events, todo, asked, waiting, woken>>

-----------------------------------------------------------------------------
(* The reader threads *)

(* _dispatch_event: the handler of the stream as long as its call waits, else the global one *)
HandlerOf(message) ==
    IF message.from \in waiting /\ message.from \in Scheduled
    THEN StreamHandler[message.name]
    ELSE Handler[message.name]

(* The reader of w takes an event, and runs its handler *)
TakeEvent(w) ==
    /\ todo[w] = <<>>
    /\ outbox[w] # <<>>
    /\ Head(outbox[w]).type = "event"
    /\ \E calls \in HandlerOf(Head(outbox[w])) : todo' = [todo EXCEPT ![w] = calls]
    /\ outbox' = [outbox EXCEPT ![w] = Tail(@)]
    /\ UNCHANGED <<inbox, events, asked, waiting, woken>>

(* The slot of the request is still in _pending *)
Wakes(message) == message.from \in waiting /\ message.no = asked[message.from]

(* The reader of w takes an answer *)
TakeAnswer(w) ==
    /\ todo[w] = <<>>
    /\ outbox[w] # <<>>
    /\ Head(outbox[w]).type = "answer"
    /\ woken' = IF Wakes(Head(outbox[w])) THEN woken \cup {Head(outbox[w]).from} ELSE woken
    /\ outbox' = [outbox EXCEPT ![w] = Tail(@)]
    /\ UNCHANGED <<inbox, events, todo, asked, waiting>>

-----------------------------------------------------------------------------
(* The threads that call: readers in a handler, and flows *)

BeginCall(t) ==
    /\ t \in Scheduled
    /\ asked[t] = 0
    /\ todo[t] = <<>>
    /\ \E calls \in FlowCalls : todo' = [todo EXCEPT ![t] = calls]
    /\ UNCHANGED <<outbox, inbox, events, asked, waiting, woken>>

(* The next call: the request is written, and waited for unless it is fired *)
Ask(t) ==
    /\ todo[t] # <<>>
    /\ t \notin waiting
    /\ LET call == Head(todo[t])
       IN /\ asked' = [asked EXCEPT ![t] = @ + 1]
          /\ inbox' = [inbox EXCEPT ![call.to] = @ \cup {[from |-> t, no |-> asked[t] + 1]}]
          /\ IF call.how = "fire"
             THEN todo' = [todo EXCEPT ![t] = Tail(@)] /\ UNCHANGED waiting
             ELSE waiting' = waiting \cup {t} /\ UNCHANGED todo
    /\ UNCHANGED <<outbox, events, woken>>

(* What follows a call of thread t: an answer may say that it was shown *)
Rest(t, answered) ==
    CASE Head(todo[t]).how # "question" -> {Tail(todo[t])}
      [] answered -> {Tail(todo[t]), Decline}
      [] OTHER    -> {Decline}

(* ev.wait returns True *)
GoOn(t) ==
    /\ t \in waiting
    /\ t \in woken
    /\ \E calls \in Rest(t, TRUE) : todo' = [todo EXCEPT ![t] = calls]
    /\ waiting' = waiting \ {t}
    /\ woken' = woken \ {t}
    /\ UNCHANGED <<outbox, inbox, events, asked>>

GiveUp_FlowsOnly(t) ==
    /\ t \in Scheduled \ woken /\ t \in waiting
    /\ \E calls \in Rest(t, FALSE) : todo' = [todo EXCEPT ![t] = calls]
    /\ waiting' = waiting \ {t}
    /\ UNCHANGED <<outbox, inbox, events, asked, woken>>

(* ev.wait returns False: every call of a handler and of a flow has a      *)
(* timeout, and _safe_call swallows it                                     *)
GiveUp(t) ==
    /\ t \in waiting
    /\ t \notin woken
    /\ \E calls \in Rest(t, FALSE) : todo' = [todo EXCEPT ![t] = calls]
    /\ waiting' = waiting \ {t}
    /\ UNCHANGED <<outbox, inbox, events, asked, woken>>

-----------------------------------------------------------------------------
ReaderStep(w) == TakeEvent(w) \/ TakeAnswer(w)
WaiterStep(t) == Ask(t) \/ GoOn(t) \/ GiveUp(t)

ReadersNext ==
    \/ \E w \in Readers : \E e \in EventsOf[w], t \in Waiters : EmitEvent(w, e, t)
    \/ \E w \in Readers : \E r \in inbox[w] : AnswerRequest(w, r)
    \/ \E w \in Readers : ReaderStep(w)
    \/ \E t \in Waiters : BeginCall(t) \/ WaiterStep(t)

(* Threads are scheduled and waits have timeouts; no worker has to answer *)
ReadersFairness ==
    /\ \A w \in Readers : WF_readerVars(ReaderStep(w))
    /\ \A t \in Waiters : WF_readerVars(WaiterStep(t))

ReadersSpec == ReaderInit /\ [][ReadersNext]_readerVars

-----------------------------------------------------------------------------
(* Properties *)

(* However the readers of several workers come to wait for each other, or  *)
(* one for itself, the waits unwind: every pipe is read to its end and     *)
(* every handler and flow returns, whether or not a worker answers.        *)
WaitsUnwind ==
    <>[](\A t \in Waiters : todo[t] = <<>> /\ t \notin waiting)
    /\ <>[](\A w \in Readers : outbox[w] = <<>>)

(* No handler waits for an answer that only its own thread can read        *)
(* (flows.py:2842-2847: "A BLOCKING ui.call here waits for a response that *)
(* only that same reader thread can read").                                *)
NoSelfWait == \A w \in Readers : w \in waiting => Head(todo[w]).to # w

=============================================================================
