----------------------------- MODULE WorkerIpc -----------------------------
(***************************************************************************)
(* One WorkerClient of runtime/supervisor/ipc.py: the threads that call a  *)
(* worker process, the processes spawned one after the other, the reader   *)
(* thread of each, the exit handler runtime/supervisor/app.py installs on  *)
(* the UI worker, and the shutdown of the main thread.                     *)
(*                                                                         *)
(* A caller is one activation of call / call_with_events, so that a request*)
(* is named by its caller: itertools.count never repeats an id.  A process *)
(* is named by its rank, and so is its reader thread, which makes a call   *)
(* of its own (ui.ping) after it has restarted the worker.                 *)
(***************************************************************************)
EXTENDS Naturals, Sequences, FiniteSets

CONSTANTS
    Callers,        \* activations of WorkerClient.call and call_with_events
    Kinds,          \* what they may be: call, stream (call_with_events), send (wait=False)
    MaxProcs,       \* bound: how many processes the client may ever spawn
    RestartLimit,   \* WorkerSpec.restart_limit
    MaxShutdowns,   \* bound: how often the main thread calls shutdown (finally, then atexit)
    RestartOnExit,  \* TRUE for the UI worker: _stop_when_ui_exits is installed
    Main,           \* the main thread of the supervisor
    Nobody          \* nobody holds the spawn lock

Procs   == 1 .. MaxProcs
Threads == Callers \cup Procs
NoProc  == 0

ASSUME IpcAssumption ==
    /\ Kinds \subseteq {"call", "stream", "send"}
    /\ MaxProcs \in Nat
    /\ RestartLimit \in Nat
    /\ MaxShutdowns \in Nat
    /\ RestartOnExit \in BOOLEAN
    /\ Callers \cap (Procs \cup {Main, Nobody}) = {}
    /\ Main \notin Procs /\ Nobody \notin Procs /\ Main # Nobody

VARIABLES
    proc,          \* self._proc: the current process, or NoProc
    spawned,       \* how many processes were spawned
    live,          \* the processes that run
    rc,            \* return code of each process
    quitting,      \* processes that were sent __shutdown__
    lock,          \* holder of self._spawn_lock between two of its steps
    dying,         \* the process the holder waits for in _terminate_locked
    restartCount,  \* self._restart_count
    shuttingDown,  \* self._shutting_down
    shutdowns,     \* how many times the main thread returned from shutdown()
    stop,          \* app.main's stop event, with the reason it was set
    pc,            \* where each thread is
    kind,          \* the kind of each call
    target,        \* the process _write read from self._proc
    pending,       \* keys of self._pending
    slot,          \* slot["resp"] of each call
    scoped,        \* keys of self._scoped_event_handlers
    stdin,         \* requests written to each process and not answered yet
    stdout,        \* messages each process wrote and its reader did not read yet
    emitted,       \* streams whose worker emitted their event
    delivered,     \* streams whose scoped handler ran on their event
    strayed,       \* streams whose event went to the global handlers
    served,        \* the processes that took each request
    outcome        \* how each call ended

clientVars == <<proc, spawned, live, lock, dying, restartCount, shuttingDown, quitting>>
callVars   == <<kind, target, pending, slot, scoped, outcome>>
wireVars   == <<stdin, stdout, emitted, delivered, strayed, served>>
appVars    == <<stop, shutdowns>>
vars == <<clientVars, rc, appVars, pc, callVars, wireVars>>

InCall == {"ensure", "locking", "register", "write", "send", "wait", "expired"}
ReaderAt == {"unborn", "reading", "eof", "exited", "restart", "respawn"}
Registered == {"write", "send", "wait", "expired"}

Message == [type : {"event", "response"}, id : Threads]
Event(t)    == [type |-> "event", id |-> t]
Response(t) == [type |-> "response", id |-> t]

(* alive(): the current process exists and poll() returns None *)
Alive == proc \in live

ClientTypeOK ==
    /\ spawned \in 0 .. MaxProcs
    /\ proc \in 0 .. spawned
    /\ live \subseteq 1 .. spawned
    /\ rc \in [Procs -> {"none", "zero", "nonzero"}]
    /\ quitting \subseteq Procs
    /\ lock \in Procs \cup {Main, Nobody}
    /\ dying \in 0 .. spawned
    /\ restartCount \in 0 .. RestartLimit
    /\ shuttingDown \in BOOLEAN
    /\ shutdowns \in Nat
    /\ stop \in {"no", "signal", "ui_quit", "restart_failed"}

CallTypeOK ==
    /\ pc \in [Threads -> InCall \cup ReaderAt \cup {"idle", "ended"}]
    /\ kind \in [Threads -> {"call", "stream", "send"}]
    /\ target \in [Threads -> 0 .. MaxProcs]
    /\ pending \subseteq Threads
    /\ slot \in [Threads -> {"empty", "response", "worker exited"}]
    /\ scoped \subseteq Threads
    /\ outcome \in [Threads -> {"none", "response", "worker exited", "timeout",
                                "write failed", "shutting down", "sent"}]

WireTypeOK ==
    /\ stdin \in [Procs -> SUBSET Threads]
    /\ stdout \in [Procs -> Seq(Message)]
    /\ emitted \subseteq Threads
    /\ delivered \subseteq Threads
    /\ strayed \subseteq Threads
    /\ served \in [Threads -> SUBSET Procs]

TypeOK == ClientTypeOK /\ CallTypeOK /\ WireTypeOK

Init ==
    /\ proc = NoProc
    /\ spawned = 0
    /\ live = {}
    /\ rc = [p \in Procs |-> "none"]
    /\ quitting = {}
    /\ lock = Nobody
    /\ dying = NoProc
    /\ restartCount = 0
    /\ shuttingDown = FALSE
    /\ shutdowns = 0
    /\ stop = "no"
    /\ pc = [t \in Threads |-> IF t \in Callers THEN "idle" ELSE "unborn"]
    /\ kind = [t \in Threads |-> "call"]
    /\ target = [t \in Threads |-> NoProc]
    /\ pending = {}
    /\ slot = [t \in Threads |-> "empty"]
    /\ scoped = {}
    /\ stdin = [p \in Procs |-> {}]
    /\ stdout = [p \in Procs |-> <<>>]
    /\ emitted = {}
    /\ delivered = {}
    /\ strayed = {}
    /\ served = [t \in Threads |-> {}]
    /\ outcome = [t \in Threads |-> "none"]

-----------------------------------------------------------------------------
(* Steps of a call, by the thread t that makes it *)

(* _spawn: a new current process, and its reader thread; t goes on at label *)
Spawn(t, label) ==
    /\ spawned < MaxProcs
    /\ spawned' = spawned + 1
    /\ proc' = spawned + 1
    /\ live' = live \cup {spawned + 1}
    /\ pc' = [pc EXCEPT ![t] = label, ![spawned + 1] = "reading"]

StopFor_Swallowed(reason) == UNCHANGED stop

(* stop.set(): the first reason is kept *)
StopFor(reason) == stop' = IF stop = "no" THEN reason ELSE stop

(* A call returns or raises; the exit handler stops the application when   *)
(* its ui.ping fails.  The notice it shows next is one more caller, whose  *)
(* failure it ignores.                                                     *)
Finish(t, result) ==
    /\ outcome' = [outcome EXCEPT ![t] = result]
    /\ pc' = [pc EXCEPT ![t] = "ended"]
    /\ IF t \in Procs /\ result # "response"
       THEN StopFor("restart_failed")
       ELSE UNCHANGED stop

(* A thread enters call, call_with_events or call(wait=False) *)
Call(c, k) ==
    /\ pc[c] = "idle"
    /\ pc' = [pc EXCEPT ![c] = "ensure"]
    /\ kind' = [kind EXCEPT ![c] = k]
    /\ UNCHANGED <<clientVars, rc, appVars, wireVars,
                   target, pending, slot, scoped, outcome>>

(* _ensure_started, outside the lock *)
EnsureStarted(t) ==
    /\ pc[t] = "ensure"
    /\ pc' = [pc EXCEPT ![t] = IF Alive THEN "register" ELSE "locking"]
    /\ UNCHANGED <<clientVars, rc, appVars, callVars, wireVars>>

MaySpawn_NoRecheck == ~shuttingDown
MaySpawn_NoFlag    == ~Alive

(* What _ensure_started checks again once it has the lock *)
MaySpawn == ~Alive /\ ~shuttingDown

(* _ensure_started, under the lock: someone else respawned the worker, or  *)
(* the client is shutting down, or this thread spawns it                   *)
EnsureLocked(t) ==
    /\ pc[t] = "locking"
    /\ lock = Nobody
    /\ \/ /\ Alive
          /\ pc' = [pc EXCEPT ![t] = "register"]
          /\ UNCHANGED <<spawned, proc, live, stop, outcome>>
       \/ /\ ~Alive
          /\ shuttingDown
          /\ Finish(t, "shutting down")
          /\ UNCHANGED <<spawned, proc, live>>
       \/ /\ MaySpawn
          /\ Spawn(t, "register")
          /\ UNCHANGED <<stop, outcome>>
    /\ UNCHANGED <<lock, dying, restartCount, shuttingDown, quitting, rc, shutdowns,
                   kind, target, pending, slot, scoped, wireVars>>

Register_NoScope(t) ==
    /\ pc[t] = "register"
    /\ pc' = [pc EXCEPT ![t] = "write"]
    /\ pending' = IF kind[t] = "send" THEN pending ELSE pending \cup {t}
    /\ UNCHANGED <<clientVars, rc, appVars, wireVars, kind, target, slot, scoped, outcome>>

(* The slot and the scoped handler are in place before the request is written *)
Register(t) ==
    /\ pc[t] = "register"
    /\ pc' = [pc EXCEPT ![t] = "write"]
    /\ pending' = IF kind[t] = "send" THEN pending ELSE pending \cup {t}
    /\ scoped' = IF kind[t] = "stream" THEN scoped \cup {t} ELSE scoped
    /\ UNCHANGED <<clientVars, rc, appVars, wireVars, kind, target, slot, outcome>>

Leave_KeepsSlot(t, result) ==
    /\ scoped' = scoped \ {t}
    /\ Finish(t, result)
    /\ UNCHANGED pending

(* Leaving by an exception or by a return: the slot is popped and the      *)
(* finally clause drops the scoped handler                                 *)
Leave(t, result) ==
    /\ pending' = pending \ {t}
    /\ scoped' = scoped \ {t}
    /\ Finish(t, result)

(* _write reads self._proc once: restart and shutdown may have cleared it *)
ReadProc(t) ==
    /\ pc[t] = "write"
    /\ \/ /\ proc = NoProc
          /\ Leave(t, "write failed")
          /\ UNCHANGED target
       \/ /\ proc # NoProc
          /\ target' = [target EXCEPT ![t] = proc]
          /\ pc' = [pc EXCEPT ![t] = "send"]
          /\ UNCHANGED <<pending, scoped, stop, outcome>>
    /\ UNCHANGED <<clientVars, rc, shutdowns, wireVars, kind, slot>>

BrokenPipe_Retry(t) ==
    /\ target[t] \notin live
    /\ Leave(t, "write failed")
    /\ stdin' = [p \in Procs |-> IF p \in live THEN stdin[p] \cup {t} ELSE stdin[p]]

(* The pipe of a dead process is broken *)
BrokenPipe(t) ==
    /\ target[t] \notin live
    /\ Leave(t, "write failed")
    /\ UNCHANGED stdin

(* _write, under the write lock *)
WriteRequest(t) ==
    /\ pc[t] = "send"
    /\ \/ BrokenPipe(t)
       \/ /\ target[t] \in live
          /\ stdin' = [stdin EXCEPT ![target[t]] = @ \cup {t}]
          /\ IF kind[t] = "send"
             THEN Leave(t, "sent")
             ELSE /\ pc' = [pc EXCEPT ![t] = "wait"]
                  /\ UNCHANGED <<pending, scoped, stop, outcome>>
    /\ UNCHANGED <<clientVars, rc, shutdowns, kind, target, slot,
                   stdout, emitted, delivered, strayed, served>>

(* ev.wait returns True and the call returns or raises what the slot holds *)
Answered(t) ==
    /\ pc[t] = "wait"
    /\ slot[t] # "empty"
    /\ scoped' = scoped \ {t}
    /\ Finish(t, slot[t])
    /\ UNCHANGED <<clientVars, rc, shutdowns, wireVars, kind, target, pending, slot>>

Expire_NoTimeout(t) == FALSE

(* ev.wait returns False *)
Expire(t) ==
    /\ pc[t] = "wait"
    /\ slot[t] = "empty"
    /\ pc' = [pc EXCEPT ![t] = "expired"]
    /\ UNCHANGED <<clientVars, rc, appVars, callVars, wireVars>>

(* The caller withdraws: an answer that came since is dropped *)
TimedOut(t) ==
    /\ pc[t] = "expired"
    /\ Leave(t, "timeout")
    /\ UNCHANGED <<clientVars, rc, shutdowns, wireVars, kind, target, slot>>

-----------------------------------------------------------------------------
(* The worker process p: runtime/service_host.py and wisp_brain/host.py    *)

(* A streaming handler emits while it runs *)
Emit(p, t) ==
    /\ p \in live
    /\ t \in stdin[p] \ emitted
    /\ kind[t] = "stream"
    /\ emitted' = emitted \cup {t}
    /\ stdout' = [stdout EXCEPT ![p] = Append(@, Event(t))]
    /\ UNCHANGED <<clientVars, rc, appVars, pc, callVars,
                   stdin, delivered, strayed, served>>

(* dispatch answers a request; threads answer out of order.  A handler that *)
(* raised is answered too, with ok = False: a response like another here.   *)
Respond(p, t) ==
    /\ p \in live
    /\ t \in stdin[p]
    /\ stdin' = [stdin EXCEPT ![p] = @ \ {t}]
    /\ served' = [served EXCEPT ![t] = @ \cup {p}]
    /\ stdout' = [stdout EXCEPT ![p] = Append(@, Response(t))]
    /\ UNCHANGED <<clientVars, rc, appVars, pc, callVars, emitted, delivered, strayed>>

(* Room for the processes that crashes and restarts may still bring: keeps *)
(* MaxProcs from ever blocking Spawn                                       *)
RoomToDie == spawned + 1 + (RestartLimit - restartCount) <= MaxProcs

(* The process exits: on __shutdown__ with code zero, or killed after the  *)
(* 2 s of _terminate_locked; or of its own accord, by a crash or, for the  *)
(* UI, because the user quit.  What it did not answer is lost.             *)
Exit(p, code) ==
    /\ p \in live
    /\ p \in quitting \/ RoomToDie
    /\ live' = live \ {p}
    /\ rc' = [rc EXCEPT ![p] = code]
    /\ stdin' = [stdin EXCEPT ![p] = {}]
    /\ UNCHANGED <<proc, spawned, lock, dying, restartCount, shuttingDown, quitting,
                   appVars, pc, callVars, stdout, emitted, delivered, strayed, served>>

-----------------------------------------------------------------------------
(* The reader thread of process p *)

(* _dispatch_event: the scoped handler of the request, else the global ones *)
ReadEvent(p) ==
    /\ pc[p] = "reading"
    /\ stdout[p] # <<>>
    /\ Head(stdout[p]).type = "event"
    /\ LET t == Head(stdout[p]).id
       IN IF t \in scoped
          THEN delivered' = delivered \cup {t} /\ UNCHANGED strayed
          ELSE strayed' = strayed \cup {t} /\ UNCHANGED delivered
    /\ stdout' = [stdout EXCEPT ![p] = Tail(@)]
    /\ UNCHANGED <<clientVars, rc, appVars, pc, callVars, stdin, emitted, served>>

WakeCaller_Get(t) ==
    /\ slot' = IF t \in pending THEN [slot EXCEPT ![t] = "response"] ELSE slot
    /\ UNCHANGED pending

(* Pop the slot and wake its caller; no slot, no effect *)
WakeCaller(t) ==
    /\ slot' = IF t \in pending THEN [slot EXCEPT ![t] = "response"] ELSE slot
    /\ pending' = pending \ {t}

(* _read_loop, on a response *)
ReadResponse(p) ==
    /\ pc[p] = "reading"
    /\ stdout[p] # <<>>
    /\ Head(stdout[p]).type = "response"
    /\ WakeCaller(Head(stdout[p]).id)
    /\ stdout' = [stdout EXCEPT ![p] = Tail(@)]
    /\ UNCHANGED <<clientVars, rc, appVars, pc, kind, target, scoped, outcome,
                   stdin, emitted, delivered, strayed, served>>

ReadEof(p) ==
    /\ pc[p] = "reading"
    /\ stdout[p] = <<>>
    /\ p \notin live
    /\ pc' = [pc EXCEPT ![p] = "eof"]
    /\ UNCHANGED <<clientVars, rc, appVars, callVars, wireVars>>

FailAll_NoWake == pending' = {} /\ UNCHANGED slot

(* _fail_pending: wake every caller that waits *)
FailAll ==
    /\ slot' = [t \in Threads |-> IF t \in pending THEN "worker exited" ELSE slot[t]]
    /\ pending' = {}

(* At the end of the stream, unless the client has moved on to another process *)
FailPending(p) ==
    /\ pc[p] = "eof"
    /\ lock = Nobody
    /\ pc' = [pc EXCEPT ![p] = "exited"]
    /\ IF proc = p
       THEN FailAll
       ELSE UNCHANGED <<slot, pending>>
    /\ UNCHANGED <<clientVars, rc, appVars, kind, target, scoped, outcome, wireVars>>

(* _notify_exit, and _stop_when_ui_exits up to its restart *)
NotifyExit(p) ==
    /\ pc[p] = "exited"
    /\ \/ /\ RestartOnExit
          /\ rc[p] = "nonzero"
          /\ pc' = [pc EXCEPT ![p] = "restart"]
          /\ UNCHANGED stop
       \/ /\ RestartOnExit
          /\ rc[p] = "zero"
          /\ pc' = [pc EXCEPT ![p] = "ended"]
          /\ StopFor("ui_quit")
       \/ /\ ~RestartOnExit
          /\ pc' = [pc EXCEPT ![p] = "ended"]
          /\ UNCHANGED stop
    /\ UNCHANGED <<clientVars, rc, shutdowns, callVars, wireVars>>

(* _terminate_locked up to its wait: thread h keeps the lock meanwhile *)
BeginTerminate(h) ==
    /\ lock' = h
    /\ dying' = proc
    /\ proc' = NoProc
    /\ quitting' = quitting \cup (live \cap {proc})

LimitReached_OffByOne == restartCount > RestartLimit

(* The only thing restart checks: not _shutting_down *)
LimitReached == restartCount >= RestartLimit

(* restart, called by the exit handler *)
BeginRestart(p) ==
    /\ pc[p] = "restart"
    /\ lock = Nobody
    /\ \/ /\ LimitReached
          /\ pc' = [pc EXCEPT ![p] = "ended"]
          /\ StopFor("restart_failed")
          /\ UNCHANGED <<lock, dying, proc, quitting, restartCount>>
       \/ /\ ~LimitReached
          /\ restartCount' = restartCount + 1
          /\ BeginTerminate(p)
          /\ pc' = [pc EXCEPT ![p] = "respawn"]
          /\ UNCHANGED stop
    /\ UNCHANGED <<spawned, live, shuttingDown, rc, shutdowns, callVars, wireVars>>

EndRestart_KeepsLock(p) ==
    /\ pc[p] = "respawn"
    /\ dying \notin live
    /\ Spawn(p, "ensure")
    /\ dying' = NoProc
    /\ UNCHANGED <<lock, restartCount, shuttingDown, quitting, rc, appVars, callVars, wireVars>>

(* restart, once the old process is gone; the handler then calls ui.ping *)
EndRestart(p) ==
    /\ pc[p] = "respawn"
    /\ dying \notin live
    /\ Spawn(p, "ensure")
    /\ lock' = Nobody
    /\ dying' = NoProc
    /\ UNCHANGED <<restartCount, shuttingDown, quitting, rc, appVars, callVars, wireVars>>

-----------------------------------------------------------------------------
(* The main thread of runtime/supervisor/app.py *)

(* SIGINT, SIGTERM, or an exception of the main thread *)
Signal ==
    /\ stop = "no"
    /\ stop' = "signal"
    /\ UNCHANGED <<clientVars, rc, shutdowns, pc, callVars, wireVars>>

(* shutdown: once in the finally clause of main, once more by atexit *)
BeginShutdown ==
    /\ stop # "no"
    /\ shutdowns < MaxShutdowns
    /\ lock = Nobody
    /\ shuttingDown' = TRUE
    /\ BeginTerminate(Main)
    /\ UNCHANGED <<spawned, live, restartCount, rc, appVars, pc, callVars, wireVars>>

EndShutdown ==
    /\ lock = Main
    /\ dying \notin live
    /\ lock' = Nobody
    /\ dying' = NoProc
    /\ shutdowns' = shutdowns + 1
    /\ UNCHANGED <<proc, spawned, live, restartCount, shuttingDown, quitting,
                   rc, stop, pc, callVars, wireVars>>

-----------------------------------------------------------------------------
CallStep(t) ==
    \/ EnsureStarted(t) \/ EnsureLocked(t) \/ Register(t) \/ ReadProc(t)
    \/ WriteRequest(t) \/ Answered(t) \/ Expire(t) \/ TimedOut(t)

ReaderStep(p) ==
    \/ ReadEvent(p) \/ ReadResponse(p) \/ ReadEof(p) \/ FailPending(p)
    \/ NotifyExit(p) \/ BeginRestart(p) \/ EndRestart(p)

WorkerStep(p) ==
    \/ \E t \in Threads : Emit(p, t) \/ Respond(p, t)
    \/ \E code \in {"zero", "nonzero"} : Exit(p, code)

Next ==
    \/ \E c \in Callers, k \in Kinds : Call(c, k)
    \/ \E t \in Threads : CallStep(t)
    \/ \E p \in Procs : WorkerStep(p) \/ ReaderStep(p)
    \/ Signal \/ BeginShutdown \/ EndShutdown

Spec == Init /\ [][Next]_vars

(* Threads of the supervisor are scheduled; ev.wait has a timeout; a       *)
(* process told to quit exits or is killed.  Nothing makes a worker answer,*)
(* a process exit of its own accord, or a caller call.                     *)
Fairness ==
    /\ \A t \in Threads : WF_vars(CallStep(t))
    /\ \A p \in Procs : WF_vars(ReaderStep(p))
    /\ \A p \in Procs : WF_vars(p \in quitting /\ \E code \in {"zero", "nonzero"} : Exit(p, code))
    /\ WF_vars(BeginShutdown) /\ WF_vars(EndShutdown)

FairSpec == Spec /\ Fairness

-----------------------------------------------------------------------------
(* Properties *)

(* Two processes of one worker never run at the same time, whatever the    *)
(* races between _ensure_started, restart and shutdown.                    *)
OneLiveWorker == \A p, q \in live : p = q

(* _pending and _scoped_event_handlers hold nothing for a call that is     *)
(* over, and a waiting call whose slot is gone from _pending was answered: *)
(* no leak, and no caller left behind without a slot.                      *)
SlotsMatchWaiters ==
    /\ \A t \in pending \cup scoped : pc[t] \in Registered
    /\ \A t \in Threads : pc[t] = "wait" /\ t \notin pending => slot[t] # "empty"

(* When call_with_events returns a result, its handler has seen every      *)
(* event its worker sent: registration precedes the write, and the pipe    *)
(* and its one reader keep events before the response.                     *)
StreamComplete ==
    \A t \in Threads : outcome[t] = "response" /\ t \in emitted
                       => t \in delivered /\ t \notin strayed

(* The exit of a worker wakes every call written to it, unless the client  *)
(* had already moved on to another process (_read_loop's "is proc" test).  *)
OrphanedOnlyIfSuperseded ==
    \A t \in Threads :
        /\ pc[t] = "wait" /\ slot[t] = "empty"
        /\ pc[target[t]] \notin {"reading", "eof"}
        => proc # target[t]

(* What callers are promised, at the level of one request.  A call that    *)
(* has not registered yet, and a reader that makes no call, is idle.       *)
StatusOf(result, at) ==
    CASE result = "response" -> "answered"
      [] result \in {"write failed", "shutting down"} -> "rejected"
      [] result \in {"timeout", "worker exited"} -> "unknown"
      [] result = "sent" -> "posted"
      [] result = "none" /\ at \in InCall -> "open"
      [] OTHER -> "idle"

RpcStatus == [t \in Threads |-> StatusOf(outcome[t], pc[t])]

Rpc == INSTANCE RpcContract
       WITH Requests <- Threads, Workers <- Procs, status <- RpcStatus, ran <- served

(* The client keeps the promises of RpcContract: a request runs at most    *)
(* once and a result is one the worker gave; a caller told that the write  *)
(* failed may retry, for the request will never run.                       *)
RefinesRpc == Rpc!Spec

(* A slot is filled once: neither a late response nor _fail_pending        *)
(* replaces the answer its caller was woken with.                          *)
AnswerIsFinal ==
    [][\A t \in Threads : slot[t] # "empty" => slot'[t] = slot[t]]_vars

(* After shutdown() has returned no process of the worker runs: no caller  *)
(* of _ensure_started brings it back (docs/DEVELOPER_README.md: "shuts     *)
(* workers down together").                                                *)
ShutdownIsFinal == shutdowns > 0 /\ lock = Nobody => live = {}

(* The application stops for a UI that exited cleanly only if the UI did   *)
(* so of its own accord, not because restart() told it to.                 *)
OnlyTheUserQuits ==
    stop = "ui_quit" => \E p \in Procs : rc[p] = "zero" /\ p \notin quitting

(* Every call ends, by an answer, an error or its timeout: an activation   *)
(* calls once, so in the end no call is in progress any more.              *)
EveryCallReturns == <>[](\A t \in Threads : pc[t] \notin InCall)

(* A UI that died is replaced, or the application stops: the supervisor    *)
(* does not go on without a UI.                                            *)
CrashIsHandled ==
    (RestartOnExit /\ proc \in Procs /\ proc \notin live) ~> (Alive \/ stop # "no")

(* A stop request ends in a complete shutdown, every time it is asked for, *)
(* whoever holds the spawn lock when it comes.                             *)
StopShutsDown == stop # "no" ~> shutdowns = MaxShutdowns

=============================================================================
