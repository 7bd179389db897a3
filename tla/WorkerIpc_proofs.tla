-------------------------- MODULE WorkerIpc_proofs --------------------------
(* Theorems about WorkerIpc, for every number of callers and processes. *)
EXTENDS WorkerIpc, TLAPS

(* The facts about thread names that the steps need. *)
LEMMA ThreadNames ==
    /\ Callers \subseteq Threads /\ Procs \subseteq Threads
    /\ \A t \in Threads : t \in Callers <=> t \notin Procs
    /\ \A p : p \in Procs <=> p \in 1 .. MaxProcs
    /\ MaxProcs \in Nat /\ Kinds \subseteq {"call", "stream", "send"}
BY IpcAssumption DEF Threads, Procs

LEMMA ProcTyped == ClientTypeOK => proc \in 0 .. MaxProcs
BY ThreadNames DEF ClientTypeOK

LEMMA ClientTypeStep == TypeOK /\ [Next]_vars => ClientTypeOK'
<1> SUFFICES ASSUME TypeOK, [Next]_vars
             PROVE  ClientTypeOK'
  OBVIOUS
<1> USE ThreadNames DEF TypeOK, ClientTypeOK, clientVars, appVars, StopFor
<1>1. ASSUME NEW c \in Callers, NEW k \in Kinds, Call(c, k)
      PROVE  ClientTypeOK'
  BY <1>1 DEF Call
<1>2. ASSUME NEW t \in Threads, CallStep(t)
      PROVE  ClientTypeOK'
  <2>1. CASE EnsureStarted(t) \/ Register(t) \/ Expire(t)
    BY <2>1 DEF EnsureStarted, Register, Expire
  <2>2. CASE EnsureLocked(t)
    <3>1. CASE UNCHANGED <<spawned, proc, live, stop>>
      BY <2>2, <3>1 DEF EnsureLocked
    <3>2. CASE UNCHANGED <<spawned, proc, live>> /\ Finish(t, "shutting down")
      BY <2>2, <3>2 DEF EnsureLocked, Finish
    <3>3. CASE Spawn(t, "register") /\ UNCHANGED stop
      <4>1. /\ spawned' = spawned + 1 /\ spawned' \in 0 .. MaxProcs /\ proc' = spawned'
            /\ live' = live \cup {spawned'}
        BY <3>3 DEF Spawn
      <4>2. UNCHANGED <<stop, lock, dying, restartCount, shuttingDown, quitting, rc, shutdowns>>
        BY <2>2, <3>3 DEF EnsureLocked
      <4>3. live' \subseteq 1 .. spawned' /\ dying' \in 0 .. spawned' /\ proc' \in 0 .. spawned'
        BY <4>1, <4>2
      <4> QED BY <4>1, <4>2, <4>3
    <3> QED BY <2>2, <3>1, <3>2, <3>3 DEF EnsureLocked
  <2>3. CASE ReadProc(t)
    BY <2>3 DEF ReadProc, Leave, Finish
  <2>4. CASE WriteRequest(t)
    BY <2>4 DEF WriteRequest, BrokenPipe, Leave, Finish
  <2>5. CASE Answered(t) \/ TimedOut(t)
    BY <2>5 DEF Answered, TimedOut, Leave, Finish
  <2> QED BY <1>2, <2>1, <2>2, <2>3, <2>4, <2>5 DEF CallStep
<1>3. ASSUME NEW p \in Procs, WorkerStep(p)
      PROVE  ClientTypeOK'
  <2>1. ASSUME NEW t \in Threads, Emit(p, t) \/ Respond(p, t)
        PROVE  ClientTypeOK'
    BY <2>1 DEF Emit, Respond
  <2>2. ASSUME NEW code \in {"zero", "nonzero"}, Exit(p, code)
        PROVE  ClientTypeOK'
    BY <2>2 DEF Exit
  <2> QED BY <1>3, <2>1, <2>2 DEF WorkerStep
<1>4. ASSUME NEW p \in Procs, ReaderStep(p)
      PROVE  ClientTypeOK'
  <2>1. CASE ReadEvent(p) \/ ReadResponse(p) \/ ReadEof(p) \/ FailPending(p)
    BY <2>1 DEF ReadEvent, ReadResponse, ReadEof, FailPending
  <2>2. CASE NotifyExit(p)
    BY <2>2 DEF NotifyExit
  <2>3. CASE BeginRestart(p)
    BY <2>3, IpcAssumption DEF BeginRestart, LimitReached, BeginTerminate, NoProc
  <2>4. CASE EndRestart(p)
    BY <2>4 DEF EndRestart, Spawn, NoProc
  <2> QED BY <1>4, <2>1, <2>2, <2>3, <2>4 DEF ReaderStep
<1>5. CASE Signal
  BY <1>5 DEF Signal
<1>6. CASE BeginShutdown
  BY <1>6, IpcAssumption DEF BeginShutdown, BeginTerminate, NoProc
<1>7. CASE EndShutdown
  BY <1>7, IpcAssumption DEF EndShutdown, NoProc
<1>8. CASE UNCHANGED vars
  BY <1>8 DEF vars
<1> QED BY <1>1, <1>2, <1>3, <1>4, <1>5, <1>6, <1>7, <1>8 DEF Next

LEMMA CallTypeStep == TypeOK /\ [Next]_vars => CallTypeOK'
<1> SUFFICES ASSUME TypeOK, [Next]_vars
             PROVE  CallTypeOK'
  OBVIOUS
<1> USE ThreadNames DEF TypeOK, CallTypeOK, InCall, ReaderAt, callVars
<1>1. ASSUME NEW c \in Callers, NEW k \in Kinds, Call(c, k)
      PROVE  CallTypeOK'
  BY <1>1 DEF Call
<1>2. ASSUME NEW t \in Threads, CallStep(t)
      PROVE  CallTypeOK'
  <2>1. CASE EnsureStarted(t)
    BY <2>1 DEF EnsureStarted
  <2>2. CASE EnsureLocked(t)
    BY <2>2 DEF EnsureLocked, MaySpawn, Spawn, Finish
  <2>3. CASE Register(t)
    BY <2>3 DEF Register
  <2>4. CASE ReadProc(t)
    <3>1. CASE proc = NoProc
      BY <2>4, <3>1 DEF ReadProc, Leave, Finish
    <3>2. CASE proc # NoProc
      <4>1. proc \in 0 .. MaxProcs
        BY ProcTyped
      <4>2. target' = [target EXCEPT ![t] = proc] /\ pc' = [pc EXCEPT ![t] = "send"]
            /\ UNCHANGED <<pending, scoped, outcome, kind, slot>>
        BY <2>4, <3>2 DEF ReadProc
      <4> QED BY <4>1, <4>2
    <3> QED BY <3>1, <3>2
  <2>5. CASE WriteRequest(t)
    BY <2>5 DEF WriteRequest, BrokenPipe, Leave, Finish
  <2>6. CASE Answered(t)
    BY <2>6 DEF Answered, Finish
  <2>7. CASE Expire(t)
    BY <2>7 DEF Expire
  <2>8. CASE TimedOut(t)
    BY <2>8 DEF TimedOut, Leave, Finish
  <2> QED BY <1>2, <2>1, <2>2, <2>3, <2>4, <2>5, <2>6, <2>7, <2>8 DEF CallStep
<1>3. ASSUME NEW p \in Procs, WorkerStep(p)
      PROVE  CallTypeOK'
  BY <1>3 DEF WorkerStep, Emit, Respond, Exit
<1>4. ASSUME NEW p \in Procs, ReaderStep(p)
      PROVE  CallTypeOK'
  <2>1. CASE ReadEvent(p)
    BY <2>1 DEF ReadEvent
  <2>2. CASE ReadResponse(p)
    BY <2>2 DEF ReadResponse, WakeCaller
  <2>3. CASE ReadEof(p)
    BY <2>3 DEF ReadEof
  <2>4. CASE FailPending(p)
    BY <2>4 DEF FailPending, FailAll
  <2>5. CASE NotifyExit(p)
    BY <2>5 DEF NotifyExit
  <2>6. CASE BeginRestart(p)
    BY <2>6 DEF BeginRestart
  <2>7. CASE EndRestart(p)
    BY <2>7 DEF EndRestart, Spawn
  <2> QED BY <1>4, <2>1, <2>2, <2>3, <2>4, <2>5, <2>6, <2>7 DEF ReaderStep
<1>5. CASE Signal \/ BeginShutdown \/ EndShutdown
  BY <1>5 DEF Signal, BeginShutdown, EndShutdown
<1>6. CASE UNCHANGED vars
  BY <1>6 DEF vars
<1> QED BY <1>1, <1>2, <1>3, <1>4, <1>5, <1>6 DEF Next

LEMMA WireTypeStep == TypeOK /\ [Next]_vars => WireTypeOK'
<1> SUFFICES ASSUME TypeOK, [Next]_vars
             PROVE  WireTypeOK'
  OBVIOUS
<1> USE ThreadNames DEF TypeOK, WireTypeOK, wireVars
<1>1. ASSUME NEW c \in Callers, NEW k \in Kinds, Call(c, k)
      PROVE  WireTypeOK'
  BY <1>1 DEF Call
<1>2. ASSUME NEW t \in Threads, CallStep(t)
      PROVE  WireTypeOK'
  <2>1. CASE WriteRequest(t)
    <3>1. UNCHANGED <<stdout, emitted, delivered, strayed, served>>
      BY <2>1 DEF WriteRequest
    <3>2. stdin' = stdin \/ stdin' = [stdin EXCEPT ![target[t]] = @ \cup {t}]
      BY <2>1 DEF WriteRequest, BrokenPipe
    <3>3. \A p \in Procs : stdin[p] \cup {t} \subseteq Threads
      OBVIOUS
    <3>4. stdin' \in [Procs -> SUBSET Threads]
      BY <3>2, <3>3
    <3> QED BY <3>1, <3>4
  <2>2. CASE ~WriteRequest(t)
    BY <1>2, <2>2 DEF CallStep, EnsureStarted, EnsureLocked, Register, ReadProc,
                      Answered, Expire, TimedOut
  <2> QED BY <2>1, <2>2
<1>3. ASSUME NEW p \in Procs, WorkerStep(p)
      PROVE  WireTypeOK'
  <2>1. ASSUME NEW t \in Threads, Emit(p, t)
        PROVE  WireTypeOK'
    <3>1. Event(t) \in Message
      BY DEF Event, Message
    <3> QED BY <2>1, <3>1 DEF Emit
  <2>2. ASSUME NEW t \in Threads, Respond(p, t)
        PROVE  WireTypeOK'
    <3>1. Response(t) \in Message
      BY DEF Response, Message
    <3> QED BY <2>2, <3>1 DEF Respond
  <2>3. ASSUME NEW code \in {"zero", "nonzero"}, Exit(p, code)
        PROVE  WireTypeOK'
    BY <2>3 DEF Exit
  <2> QED BY <1>3, <2>1, <2>2, <2>3 DEF WorkerStep
<1>4. ASSUME NEW p \in Procs, ReaderStep(p)
      PROVE  WireTypeOK'
  <2>1. CASE ReadEvent(p)
    <3>0. stdout[p] \in Seq(Message) /\ stdout[p] # <<>>
      BY <2>1 DEF ReadEvent
    <3>1. Head(stdout[p]).id \in Threads
      <4>1. Head(stdout[p]) \in Message
        BY <3>0
      <4> QED BY <4>1 DEF Message
    <3>2. delivered' \subseteq Threads /\ strayed' \subseteq Threads
      BY <2>1, <3>1 DEF ReadEvent
    <3>3. stdout' \in [Procs -> Seq(Message)]
      BY <2>1 DEF ReadEvent
    <3> QED BY <2>1, <3>2, <3>3 DEF ReadEvent
  <2>2. CASE ReadResponse(p)
    BY <2>2 DEF ReadResponse
  <2>3. CASE ~ReadEvent(p) /\ ~ReadResponse(p)
    BY <1>4, <2>3 DEF ReaderStep, ReadEof, FailPending, NotifyExit, BeginRestart, EndRestart
  <2> QED BY <2>1, <2>2, <2>3
<1>5. CASE Signal \/ BeginShutdown \/ EndShutdown
  BY <1>5 DEF Signal, BeginShutdown, EndShutdown
<1>6. CASE UNCHANGED vars
  BY <1>6 DEF vars
<1> QED BY <1>1, <1>2, <1>3, <1>4, <1>5, <1>6 DEF Next

(* Every variable keeps its type: in particular restart never exceeds its  *)
(* limit, and only processes that were spawned run.                        *)
THEOREM TypeCorrect == Spec => []TypeOK
<1>1. Init => TypeOK
  <2> SUFFICES ASSUME Init PROVE TypeOK
    OBVIOUS
  <2>1. ClientTypeOK
    <3>1. /\ spawned \in 0 .. MaxProcs /\ proc \in 0 .. spawned /\ dying \in 0 .. spawned
          /\ restartCount \in 0 .. RestartLimit /\ live \subseteq 1 .. spawned
      BY IpcAssumption DEF Init, NoProc
    <3>2. /\ shuttingDown \in BOOLEAN /\ lock \in Procs \cup {Main, Nobody}
          /\ quitting \subseteq Procs
      BY Zenon DEF Init
    <3>3. /\ rc \in [Procs -> {"none", "zero", "nonzero"}]
          /\ shutdowns \in Nat /\ stop \in {"no", "signal", "ui_quit", "restart_failed"}
      BY DEF Init
    <3> QED BY <3>1, <3>2, <3>3, Zenon DEF ClientTypeOK
  <2>2. CallTypeOK
    BY ThreadNames DEF Init, CallTypeOK, ReaderAt, InCall, NoProc
  <2>3. WireTypeOK
    BY DEF Init, WireTypeOK
  <2> QED BY <2>1, <2>2, <2>3 DEF TypeOK
<1>2. TypeOK /\ [Next]_vars => TypeOK'
  BY ClientTypeStep, CallTypeStep, WireTypeStep DEF TypeOK
<1> QED BY <1>1, <1>2, PTL DEF Spec

-----------------------------------------------------------------------------
(* One live process *)

(* The lock discipline: outside the lock at most the current process runs; *)
(* while restart or shutdown holds it, at most the one they wait for.      *)
LockInv ==
    /\ live \subseteq {proc, dying}
    /\ lock = Nobody => dying = NoProc
    /\ lock # Nobody => proc = NoProc
    /\ \A p \in Procs : lock = p <=> pc[p] = "respawn"
    /\ \A p \in Procs : p > spawned => pc[p] = "unborn"

(* The names that stand for nobody and for no process name no process. *)
LEMMA LockNames ==
    ASSUME ClientTypeOK
    PROVE  /\ NoProc \notin live
           /\ Nobody \notin Procs /\ Main \notin Procs /\ Main # Nobody
<1>1. NoProc \notin live
  BY DEF ClientTypeOK, NoProc
<1>2. Nobody \notin Procs /\ Main \notin Procs /\ Main # Nobody
  BY IpcAssumption
<1> QED BY <1>1, <1>2

(* A step that counts no spawn spawns nothing. *)
LEMMA NoSpawn ==
    ASSUME ClientTypeOK, NEW t, NEW label, spawned' = spawned
    PROVE  ~Spawn(t, label)
<1>1. spawned \in Nat
  BY IpcAssumption DEF ClientTypeOK
<1>2. spawned' # spawned + 1
  BY <1>1
<1> QED BY <1>2 DEF Spawn

(* A spawn under the lock, by a thread that exists, starts the only process. *)
LEMMA SpawnStep ==
    ASSUME TypeOK, LockInv, NEW t \in Threads, NEW label \in {"register", "ensure"},
           pc[t] # "unborn", proc \notin live, dying \notin live, Spawn(t, label),
           lock' = Nobody, dying' = NoProc,
           t \in Procs => (lock = t \/ pc[t] # "respawn"),
           lock \in Procs => lock = t,
           lock # Main
    PROVE  LockInv'
<1> USE ThreadNames, IpcAssumption DEF TypeOK, NoProc
<1>1. live' = {spawned + 1} /\ proc' = spawned + 1 /\ spawned' = spawned + 1
  BY DEF Spawn, LockInv, ClientTypeOK
<1>2. spawned + 1 \in Procs /\ spawned + 1 # t
  BY DEF Spawn, LockInv, ClientTypeOK
<1>3. pc' = [pc EXCEPT ![t] = label, ![spawned + 1] = "reading"] /\ pc \in [Threads -> InCall \cup ReaderAt \cup {"idle", "ended"}]
  BY DEF Spawn, CallTypeOK
<1>4. \A p \in Procs : lock' = p <=> pc'[p] = "respawn"
  BY <1>2, <1>3 DEF LockInv
<1>5. \A p \in Procs : p > spawned' => pc'[p] = "unborn"
  BY <1>1, <1>2, <1>3 DEF LockInv, ClientTypeOK
<1> QED BY <1>1, <1>4, <1>5 DEF LockInv

(* A step that moves one thread, away from the lock, preserves LockInv. *)
LEMMA MoveStep ==
    ASSUME TypeOK, LockInv, NEW t \in Threads, NEW label,
           pc[t] \notin {"respawn", "unborn"}, label # "respawn",
           UNCHANGED clientVars, pc' = [pc EXCEPT ![t] = label]
    PROVE  LockInv'
BY ThreadNames DEF LockInv, TypeOK, CallTypeOK, clientVars

LEMMA LockStep == TypeOK /\ LockInv /\ [Next]_vars => LockInv'
<1> SUFFICES ASSUME TypeOK, LockInv, [Next]_vars
             PROVE  LockInv'
  OBVIOUS
<1> USE ThreadNames DEF LockInv, TypeOK, CallTypeOK, clientVars
<1>1. ASSUME NEW c \in Callers, NEW k \in Kinds, Call(c, k)
      PROVE  LockInv'
  BY <1>1 DEF Call
<1>2. ASSUME NEW t \in Threads, CallStep(t)
      PROVE  LockInv'
  <2>1. CASE EnsureStarted(t)
    BY <2>1 DEF EnsureStarted
  <2>2. CASE EnsureLocked(t)
    <3>1. CASE UNCHANGED <<spawned, proc, live>>
      <4>1. ~Spawn(t, "register")
        BY <3>1, NoSpawn
      <4>2. PICK label \in {"register", "ended"} : pc' = [pc EXCEPT ![t] = label]
        BY <2>2, <4>1 DEF EnsureLocked, MaySpawn, Finish
      <4>3. pc[t] = "locking" /\ UNCHANGED clientVars
        BY <2>2, <3>1 DEF EnsureLocked
      <4> QED BY <4>2, <4>3, MoveStep
    <3>2. CASE MaySpawn /\ Spawn(t, "register")
      <4>1. /\ pc[t] = "locking" /\ lock = Nobody /\ lock' = lock /\ dying' = dying
            /\ proc \notin live
        BY <2>2, <3>2 DEF EnsureLocked, MaySpawn, Alive
      <4>2. dying = NoProc /\ NoProc \notin live /\ Nobody # Main /\ Nobody \notin Procs
        BY <4>1, LockNames
      <4> QED BY <3>2, <4>1, <4>2, SpawnStep
    <3> QED BY <2>2, <3>1, <3>2 DEF EnsureLocked
  <2>3. CASE Register(t)
    BY <2>3 DEF Register
  <2>4. CASE ReadProc(t)
    <3>1. PICK label \in {"ended", "send", "wait"} : pc' = [pc EXCEPT ![t] = label]
      BY <2>4 DEF ReadProc, Leave, Finish
    <3> QED BY <2>4, <3>1, MoveStep DEF ReadProc
  <2>5. CASE WriteRequest(t)
    <3>1. PICK label \in {"ended", "send", "wait"} : pc' = [pc EXCEPT ![t] = label]
      BY <2>5 DEF WriteRequest, BrokenPipe, Leave, Finish
    <3> QED BY <2>5, <3>1, MoveStep DEF WriteRequest
  <2>6. CASE Answered(t)
    BY <2>6 DEF Answered, Finish
  <2>7. CASE Expire(t)
    BY <2>7 DEF Expire
  <2>8. CASE TimedOut(t)
    BY <2>8 DEF TimedOut, Leave, Finish
  <2> QED BY <1>2, <2>1, <2>2, <2>3, <2>4, <2>5, <2>6, <2>7, <2>8 DEF CallStep
<1>3. ASSUME NEW p \in Procs, WorkerStep(p)
      PROVE  LockInv'
  BY <1>3 DEF WorkerStep, Emit, Respond, Exit
<1>4. ASSUME NEW p \in Procs, ReaderStep(p)
      PROVE  LockInv'
  <2>1. CASE ReadEvent(p) \/ ReadResponse(p)
    BY <2>1 DEF ReadEvent, ReadResponse
  <2>2. CASE ReadEof(p)
    BY <2>2 DEF ReadEof
  <2>3. CASE FailPending(p)
    BY <2>3 DEF FailPending
  <2>4. CASE NotifyExit(p)
    <3>1. PICK label \in {"ended", "restart"} : pc' = [pc EXCEPT ![p] = label]
      BY <2>4 DEF NotifyExit
    <3> QED BY <2>4, <3>1, MoveStep DEF NotifyExit
  <2>5. CASE BeginRestart(p)
    <3>1. CASE LimitReached
      BY <2>5, <3>1, MoveStep DEF BeginRestart
    <3>2. CASE ~LimitReached
      <4>1. /\ pc[p] = "restart" /\ lock = Nobody /\ lock' = p /\ dying' = proc
            /\ proc' = NoProc /\ UNCHANGED <<spawned, live>>
            /\ pc' = [pc EXCEPT ![p] = "respawn"]
        BY <2>5, <3>2 DEF BeginRestart, BeginTerminate
      <4>2. NoProc \notin live /\ Nobody \notin Procs
        BY LockNames
      <4>3. live' \subseteq {proc', dying'} /\ (lock' # Nobody => proc' = NoProc) /\ lock' # Nobody
        BY <4>1, <4>2
      <4>4. \A q \in Procs : lock' = q <=> pc'[q] = "respawn"
        BY <4>1, <4>2
      <4> QED BY <4>1, <4>3, <4>4
    <3> QED BY <3>1, <3>2
  <2>6. CASE EndRestart(p)
    <3>1. /\ pc[p] = "respawn" /\ lock' = Nobody /\ dying' = NoProc /\ dying \notin live
          /\ Spawn(p, "ensure")
      BY <2>6 DEF EndRestart
    <3>2. lock = p /\ lock # Main /\ lock # Nobody /\ proc \notin live
      BY <3>1, LockNames
    <3> QED BY <3>1, <3>2, SpawnStep
  <2> QED BY <1>4, <2>1, <2>2, <2>3, <2>4, <2>5, <2>6 DEF ReaderStep
<1>5. CASE Signal
  BY <1>5 DEF Signal
<1>6. CASE BeginShutdown
  BY <1>6, IpcAssumption DEF BeginShutdown, BeginTerminate, ClientTypeOK, NoProc
<1>7. CASE EndShutdown
  BY <1>7, IpcAssumption DEF EndShutdown, ClientTypeOK, NoProc
<1>8. CASE UNCHANGED vars
  BY <1>8 DEF vars
<1> QED BY <1>1, <1>2, <1>3, <1>4, <1>5, <1>6, <1>7, <1>8 DEF Next

(* Two processes of one worker never run at the same time, for any number  *)
(* of callers, crashes, restarts and shutdowns: self._spawn_lock is held   *)
(* from the clearing of self._proc until the old process is gone.          *)
THEOREM OneLiveWorkerHolds == Spec => []OneLiveWorker
<1>1. Init => LockInv
  BY IpcAssumption, ThreadNames DEF Init, LockInv, NoProc
<1>2. TypeOK /\ LockInv => OneLiveWorker
  BY DEF TypeOK, ClientTypeOK, LockInv, OneLiveWorker, NoProc
<1> QED BY <1>1, <1>2, LockStep, TypeCorrect, PTL DEF Spec

-----------------------------------------------------------------------------
(* Slots *)

(* What a slot in self._pending, a scoped handler and an answer say of the *)
(* call they belong to.                                                    *)
SlotInv ==
    /\ \A t \in Threads : t \in pending \/ t \in scoped => pc[t] \in Registered
    /\ \A t \in Threads : pc[t] \in Registered /\ kind[t] # "send" /\ t \notin pending
                          => slot[t] # "empty"
    /\ \A t \in Threads : pc[t] \in {"wait", "expired"} => kind[t] # "send"
    /\ \A t \in Threads : slot[t] # "empty"
                          => t \notin pending /\ (pc[t] \in Registered \/ pc[t] = "ended")

(* A step that moves one thread between labels that are not Registered. *)
LEMMA SlotMove ==
    ASSUME TypeOK, SlotInv, NEW t \in Threads, NEW label,
           pc[t] \notin Registered, pc[t] # "ended", label \notin Registered,
           pc' = [pc EXCEPT ![t] = label], UNCHANGED <<pending, scoped, slot, kind>>
    PROVE  SlotInv'
BY DEF SlotInv, TypeOK, CallTypeOK, Registered

(* A spawn moves its thread and the reader of the new process. *)
LEMMA SlotSpawn ==
    ASSUME TypeOK, LockInv, SlotInv, NEW t \in Threads, NEW label \in {"register", "ensure"},
           pc[t] \in {"locking", "respawn"}, Spawn(t, label),
           UNCHANGED <<pending, scoped, slot, kind>>
    PROVE  SlotInv'
<1>1. spawned \in Nat /\ spawned + 1 \in Procs
  BY IpcAssumption DEF Spawn, TypeOK, ClientTypeOK, Procs
<1>2. pc[spawned + 1] = "unborn" /\ spawned + 1 \in Threads
  BY <1>1, ThreadNames DEF LockInv
<1> QED BY <1>2 DEF SlotInv, TypeOK, CallTypeOK, Registered, Spawn

(* A call that leaves takes its slot and its handler along. *)
LEMMA SlotLeave ==
    ASSUME TypeOK, SlotInv, NEW t \in Threads, NEW result, pc[t] \in Registered,
           Leave(t, result), UNCHANGED <<slot, kind>>
    PROVE  SlotInv'
BY DEF SlotInv, TypeOK, CallTypeOK, Registered, Leave, Finish

LEMMA SlotStep == TypeOK /\ LockInv /\ SlotInv /\ [Next]_vars => SlotInv'
<1> SUFFICES ASSUME TypeOK, LockInv, SlotInv, [Next]_vars
             PROVE  SlotInv'
  OBVIOUS
<1>0. /\ pc \in [Threads -> InCall \cup ReaderAt \cup {"idle", "ended"}]
      /\ kind \in [Threads -> {"call", "stream", "send"}]
      /\ slot \in [Threads -> {"empty", "response", "worker exited"}]
  BY DEF TypeOK, CallTypeOK
<1> USE ThreadNames
<1>1. ASSUME NEW c \in Callers, NEW k \in Kinds, Call(c, k)
      PROVE  SlotInv'
  BY <1>0, <1>1 DEF Call, SlotInv, Registered
<1>2. ASSUME NEW t \in Threads, CallStep(t)
      PROVE  SlotInv'
  <2>1. CASE EnsureStarted(t)
    <3>1. PICK label \in {"register", "locking"} : pc' = [pc EXCEPT ![t] = label]
      BY <2>1 DEF EnsureStarted
    <3> QED BY <2>1, <3>1, SlotMove DEF EnsureStarted, callVars, Registered
  <2>2. CASE EnsureLocked(t)
    <3>1. pc[t] = "locking" /\ UNCHANGED <<pending, scoped, slot, kind>>
      BY <2>2 DEF EnsureLocked
    <3>2. CASE Spawn(t, "register")
      BY <3>1, <3>2, SlotSpawn
    <3>3. CASE ~Spawn(t, "register")
      <4>1. PICK label \in {"register", "ended"} : pc' = [pc EXCEPT ![t] = label]
        BY <2>2, <3>3 DEF EnsureLocked, Finish
      <4> QED BY <3>1, <4>1, SlotMove DEF Registered
    <3> QED BY <3>2, <3>3
  <2>3. CASE Register(t)
    BY <1>0, <2>3 DEF Register, SlotInv, Registered
  <2>4. CASE ReadProc(t)
    <3>1. CASE Leave(t, "write failed")
      <4>1. pc[t] \in Registered /\ UNCHANGED <<slot, kind>>
        BY <2>4 DEF ReadProc, Registered
      <4> QED BY <3>1, <4>1, SlotLeave
    <3>2. CASE pc' = [pc EXCEPT ![t] = "send"] /\ UNCHANGED <<pending, scoped>>
      BY <1>0, <2>4, <3>2 DEF ReadProc, SlotInv, Registered
    <3> QED BY <2>4, <3>1, <3>2 DEF ReadProc
  <2>5. CASE WriteRequest(t)
    <3>1. ASSUME NEW result, Leave(t, result)
          PROVE  SlotInv'
      BY <2>5, <3>1, SlotLeave DEF WriteRequest, Registered
    <3>2. CASE kind[t] # "send" /\ pc' = [pc EXCEPT ![t] = "wait"] /\ UNCHANGED <<pending, scoped>>
      BY <2>5, <3>2 DEF WriteRequest, SlotInv, TypeOK, CallTypeOK, Registered
    <3> QED BY <2>5, <3>1, <3>2 DEF WriteRequest, BrokenPipe
  <2>6. CASE Answered(t)
    BY <1>0, <2>6 DEF Answered, Finish, SlotInv, Registered
  <2>7. CASE Expire(t)
    BY <1>0, <2>7 DEF Expire, callVars, SlotInv, Registered
  <2>8. CASE TimedOut(t)
    BY <2>8, SlotLeave DEF TimedOut, Registered
  <2> QED BY <1>2, <2>1, <2>2, <2>3, <2>4, <2>5, <2>6, <2>7, <2>8 DEF CallStep
<1>3. ASSUME NEW p \in Procs, WorkerStep(p)
      PROVE  SlotInv'
  BY <1>3 DEF WorkerStep, Emit, Respond, Exit, callVars, SlotInv
<1>4. ASSUME NEW p \in Procs, ReaderStep(p)
      PROVE  SlotInv'
  <2>1. CASE ReadEvent(p)
    BY <2>1 DEF ReadEvent, callVars, SlotInv
  <2>2. CASE ReadResponse(p)
    <3>1. UNCHANGED <<pc, kind, scoped>> /\ WakeCaller(Head(stdout[p]).id)
      BY <2>2 DEF ReadResponse
    <3> QED BY <3>1 DEF WakeCaller, SlotInv, TypeOK, CallTypeOK
  <2>3. CASE ReadEof(p)
    BY <2>3, SlotMove DEF ReadEof, callVars, Registered
  <2>4. CASE FailPending(p)
    <3>1. pc[p] = "eof" /\ pc' = [pc EXCEPT ![p] = "exited"] /\ UNCHANGED <<kind, scoped>>
      BY <2>4 DEF FailPending
    <3>2. CASE UNCHANGED <<slot, pending>>
      BY <3>1, <3>2, SlotMove DEF Registered
    <3>3. CASE FailAll
      BY <1>0, <3>1, <3>3 DEF FailAll, SlotInv, Registered
    <3> QED BY <2>4, <3>2, <3>3 DEF FailPending
  <2>5. CASE NotifyExit(p)
    <3>1. PICK label \in {"ended", "restart"} : pc' = [pc EXCEPT ![p] = label]
      BY <2>5 DEF NotifyExit
    <3> QED BY <2>5, <3>1, SlotMove DEF NotifyExit, callVars, Registered
  <2>6. CASE BeginRestart(p)
    <3>1. PICK label \in {"ended", "respawn"} : pc' = [pc EXCEPT ![p] = label]
      BY <2>6 DEF BeginRestart
    <3> QED BY <2>6, <3>1, SlotMove DEF BeginRestart, callVars, Registered
  <2>7. CASE EndRestart(p)
    BY <2>7, SlotSpawn DEF EndRestart, callVars
  <2> QED BY <1>4, <2>1, <2>2, <2>3, <2>4, <2>5, <2>6, <2>7 DEF ReaderStep
<1>5. CASE Signal \/ BeginShutdown \/ EndShutdown
  BY <1>5 DEF Signal, BeginShutdown, EndShutdown, callVars, SlotInv
<1>6. CASE UNCHANGED vars
  BY <1>6 DEF vars, callVars, SlotInv
<1> QED BY <1>1, <1>2, <1>3, <1>4, <1>5, <1>6 DEF Next

LEMMA SlotInvariant == Spec => [](TypeOK /\ LockInv /\ SlotInv)
<1>1. Init => LockInv /\ SlotInv
  BY IpcAssumption, ThreadNames DEF Init, LockInv, SlotInv, NoProc, Registered
<1> QED BY <1>1, LockStep, SlotStep, TypeCorrect, PTL DEF Spec

(* No call that is over has a slot or a handler left, and no waiting call  *)
(* has lost its slot without an answer, whatever callers, reader threads,  *)
(* restarts and shutdowns do.                                              *)
THEOREM SlotsMatchWaitersHolds == Spec => []SlotsMatchWaiters
<1>1. TypeOK /\ SlotInv => SlotsMatchWaiters
  BY DEF TypeOK, CallTypeOK, SlotInv, SlotsMatchWaiters, Registered
<1> QED BY <1>1, SlotInvariant, PTL

(* Only the reader threads fill slots. *)
LEMMA SlotFillers ==
    ASSUME Next
    PROVE  \/ UNCHANGED slot
           \/ \E p \in Procs : ReadResponse(p) \/ FailPending(p)
<1>1. ASSUME NEW t \in Threads, CallStep(t)
      PROVE  UNCHANGED slot
  BY <1>1 DEF CallStep, EnsureStarted, EnsureLocked, Register, ReadProc, WriteRequest,
              Answered, Expire, TimedOut, callVars
<1>2. ASSUME NEW p \in Procs, WorkerStep(p) \/ ReaderStep(p)
      PROVE  UNCHANGED slot \/ ReadResponse(p) \/ FailPending(p)
  BY <1>2 DEF WorkerStep, Emit, Respond, Exit, ReaderStep, ReadEvent, ReadEof, NotifyExit,
              BeginRestart, EndRestart, callVars
<1> QED BY <1>1, <1>2 DEF Next, Call, Signal, BeginShutdown, EndShutdown, callVars

(* An answer is final: only a call whose slot is still empty is in         *)
(* self._pending, and only those are filled.                               *)
THEOREM AnswerIsFinalHolds == Spec => AnswerIsFinal
<1>1. TypeOK /\ SlotInv /\ [Next]_vars
      => [\A t \in Threads : slot[t] # "empty" => slot'[t] = slot[t]]_vars
  <2> SUFFICES ASSUME TypeOK, SlotInv, Next, NEW t \in Threads, slot[t] # "empty"
               PROVE  slot'[t] = slot[t]
    OBVIOUS
  <2>1. CASE UNCHANGED slot
    BY <2>1
  <2>2. ASSUME NEW p \in Procs, ReadResponse(p)
        PROVE  slot'[t] = slot[t]
    BY <2>2 DEF ReadResponse, WakeCaller, SlotInv, TypeOK, CallTypeOK
  <2>3. ASSUME NEW p \in Procs, FailPending(p)
        PROVE  slot'[t] = slot[t]
    BY <2>3 DEF FailPending, FailAll, SlotInv
  <2> QED BY <2>1, <2>2, <2>3, SlotFillers
<1> QED BY <1>1, SlotInvariant, PTL DEF Spec, AnswerIsFinal

-----------------------------------------------------------------------------
(* Shutdown *)

(* Once shutdown has begun there is no current process; and without an     *)
(* exit handler no reader ever comes to restart the worker.                *)
ShutInv ==
    /\ shuttingDown => proc = NoProc
    /\ shutdowns > 0 \/ lock = Main => shuttingDown
    /\ \A p \in Procs : pc[p] \notin {"restart", "respawn"}

(* A step that moves one thread, but not towards a restart. *)
LEMMA ShutMove ==
    ASSUME TypeOK, ShutInv, NEW t \in Threads, NEW label, label \notin {"restart", "respawn"},
           UNCHANGED <<shuttingDown, shutdowns, lock, proc>>, pc' = [pc EXCEPT ![t] = label]
    PROVE  ShutInv'
BY ThreadNames DEF ShutInv, TypeOK, CallTypeOK

LEMMA ShutStep ==
    ASSUME ~RestartOnExit
    PROVE  TypeOK /\ LockInv /\ ShutInv /\ [Next]_vars => ShutInv'
<1> SUFFICES ASSUME TypeOK, LockInv, ShutInv, [Next]_vars
             PROVE  ShutInv'
  OBVIOUS
<1> USE ThreadNames
<1>1. ASSUME NEW c \in Callers, NEW k \in Kinds, Call(c, k)
      PROVE  ShutInv'
  BY <1>1, ShutMove DEF Call, clientVars, appVars
<1>2. ASSUME NEW t \in Threads, CallStep(t)
      PROVE  ShutInv'
  <2>1. CASE EnsureLocked(t)
    <3>1. CASE MaySpawn /\ Spawn(t, "register")
      <4>1. /\ ~shuttingDown /\ UNCHANGED <<shuttingDown, shutdowns, lock>>
            /\ pc' = [pc EXCEPT ![t] = "register", ![spawned + 1] = "reading"]
        BY <2>1, <3>1 DEF EnsureLocked, MaySpawn, Spawn
      <4> QED BY <4>1 DEF ShutInv, TypeOK, CallTypeOK
    <3>2. CASE UNCHANGED <<spawned, proc, live>>
      <4>1. PICK label \in {"register", "ended"} : pc' = [pc EXCEPT ![t] = label]
        <5>1. ~Spawn(t, "register")
          BY <3>2, NoSpawn DEF TypeOK
        <5> QED BY <2>1, <5>1 DEF EnsureLocked, Finish
      <4> QED BY <2>1, <3>2, <4>1, ShutMove DEF EnsureLocked
    <3> QED BY <2>1, <3>1, <3>2 DEF EnsureLocked
  <2>2. CASE ~EnsureLocked(t)
    <3>1. UNCHANGED <<shuttingDown, shutdowns, lock, proc>>
      BY <1>2, <2>2 DEF CallStep, EnsureStarted, Register, ReadProc, WriteRequest,
                        Answered, Expire, TimedOut, clientVars, appVars
    <3>2. PICK label \in InCall \cup {"ended"} : pc' = [pc EXCEPT ![t] = label]
      BY <1>2, <2>2 DEF CallStep, EnsureStarted, Register, ReadProc, WriteRequest, BrokenPipe,
                        Answered, Expire, TimedOut, Leave, Finish, InCall
    <3>3. label \notin {"restart", "respawn"}
      BY DEF InCall
    <3> QED BY <3>1, <3>2, <3>3, ShutMove
  <2> QED BY <2>1, <2>2
<1>3. ASSUME NEW p \in Procs, WorkerStep(p)
      PROVE  ShutInv'
  BY <1>3 DEF WorkerStep, Emit, Respond, Exit, ShutInv, clientVars, appVars
<1>4. ASSUME NEW p \in Procs, ReaderStep(p)
      PROVE  ShutInv'
  <2>1. CASE ReadEvent(p) \/ ReadResponse(p)
    BY <2>1 DEF ReadEvent, ReadResponse, ShutInv, clientVars, appVars
  <2>2. CASE ReadEof(p) \/ FailPending(p) \/ NotifyExit(p)
    <3>1. UNCHANGED <<shuttingDown, shutdowns, lock, proc>>
      BY <2>2 DEF ReadEof, FailPending, NotifyExit, clientVars, appVars
    <3>2. PICK label \in {"eof", "exited", "ended"} : pc' = [pc EXCEPT ![p] = label]
      BY <2>2 DEF ReadEof, FailPending, NotifyExit
    <3> QED BY <3>1, <3>2, ShutMove
  <2>3. ~BeginRestart(p) /\ ~EndRestart(p)
    BY DEF BeginRestart, EndRestart, ShutInv
  <2> QED BY <1>4, <2>1, <2>2, <2>3 DEF ReaderStep
<1>5. CASE Signal
  BY <1>5 DEF Signal, ShutInv, clientVars
<1>6. CASE BeginShutdown
  BY <1>6 DEF BeginShutdown, BeginTerminate, ShutInv, appVars
<1>7. CASE EndShutdown
  BY <1>7, IpcAssumption DEF EndShutdown, ShutInv
<1>8. CASE UNCHANGED vars
  BY <1>8 DEF vars, ShutInv, clientVars, appVars
<1> QED BY <1>1, <1>2, <1>3, <1>4, <1>5, <1>6, <1>7, <1>8 DEF Next

(* After a shutdown no process of a worker without an exit handler runs,   *)
(* however many callers were about to spawn it: both the check of          *)
(* _shutting_down and the spawn are under the lock that shutdown holds     *)
(* until the process is gone.                                              *)
THEOREM ShutdownIsFinalHolds ==
    ASSUME ~RestartOnExit
    PROVE  Spec => []ShutdownIsFinal
<1>1. Init => ShutInv
  BY IpcAssumption, ThreadNames DEF Init, ShutInv, NoProc
<1>2. TypeOK /\ LockInv /\ ShutInv => ShutdownIsFinal
  BY LockNames DEF TypeOK, LockInv, ShutInv, ShutdownIsFinal
<1> QED BY <1>1, <1>2, ShutStep, SlotInvariant, PTL DEF Spec

-----------------------------------------------------------------------------
(* Orphans *)

(* A process that runs has its reader, a request was written to a process, *)
(* and a call whose reader has gone past the end of the stream was woken   *)
(* or is for another process than the current one.                         *)
OrphanInv ==
    /\ \A p \in live : pc[p] = "reading"
    /\ \A t \in Threads : pc[t] \in {"send", "wait"} => target[t] \in Procs
    /\ OrphanedOnlyIfSuperseded

LEMMA LiveThreads ==
    /\ NoProc \notin Procs
    /\ ClientTypeOK => \A p \in live : p \in Procs /\ p \in Threads
BY ThreadNames DEF ClientTypeOK, NoProc

(* A step that moves one thread, no reader before the end of its stream,   *)
(* and not to "wait"; the client keeps its process or drops it.            *)
LEMMA OrphanMove ==
    ASSUME TypeOK, OrphanInv, NEW t \in Threads, NEW label,
           label \notin {"send", "wait"}, pc[t] \notin {"reading", "eof"},
           pc' = [pc EXCEPT ![t] = label], live' = live,
           proc' = proc \/ proc' = NoProc, UNCHANGED <<target, slot>>
    PROVE  OrphanInv'
<1>1. \A u \in Threads : pc'[u] = IF u = t THEN label ELSE pc[u]
  BY DEF TypeOK, CallTypeOK
<1>2. \A p \in live' : pc'[p] = "reading"
  BY <1>1, LiveThreads DEF OrphanInv, TypeOK
<1>3. \A u \in Threads : pc'[u] \in {"send", "wait"} => target'[u] \in Procs
  BY <1>1 DEF OrphanInv
<1>4. ASSUME NEW u \in Threads, pc'[u] = "wait", slot'[u] = "empty",
             pc'[target'[u]] \notin {"reading", "eof"}
      PROVE  proc' # target'[u]
  <2>1. pc[u] = "wait" /\ target[u] \in Procs /\ target[u] \in Threads
    BY <1>1, <1>4, ThreadNames DEF OrphanInv
  <2>2. pc[target[u]] \notin {"reading", "eof"}
    BY <1>1, <1>4, <2>1
  <2> QED BY <1>4, <2>1, <2>2, LiveThreads DEF OrphanInv, OrphanedOnlyIfSuperseded
<1> QED BY <1>2, <1>3, <1>4 DEF OrphanInv, OrphanedOnlyIfSuperseded

(* A step that starts the only process. *)
LEMMA OrphanSpawn ==
    ASSUME TypeOK, LockInv, OrphanInv, NEW t \in Threads, NEW label \in {"register", "ensure"},
           pc[t] \notin {"reading", "eof", "unborn"}, Spawn(t, label), UNCHANGED <<target, slot>>
    PROVE  OrphanInv'
<1>1. spawned + 1 \in Procs /\ pc[spawned + 1] = "unborn"
  BY ThreadNames DEF Spawn, LockInv, TypeOK, ClientTypeOK
<1>2. /\ proc' = spawned + 1 /\ live' = live \cup {spawned + 1}
      /\ pc' = [pc EXCEPT ![t] = label, ![spawned + 1] = "reading"]
  BY DEF Spawn
<1>3. \A p \in live' : pc'[p] = "reading"
  <2>1. \A p \in live : p # t /\ pc[p] = "reading" /\ p \in Threads
    BY LiveThreads DEF OrphanInv, TypeOK
  <2> QED BY <1>1, <1>2, <2>1, ThreadNames DEF TypeOK, CallTypeOK
<1>4. \A u \in Threads : pc'[u] \in {"send", "wait"} => u # t /\ pc'[u] = pc[u]
  BY <1>1, <1>2, ThreadNames DEF TypeOK, CallTypeOK
<1>5. ASSUME NEW u \in Threads, pc'[u] = "wait", slot'[u] = "empty",
             pc'[target'[u]] \notin {"reading", "eof"}
      PROVE  proc' # target'[u]
  BY <1>1, <1>2, <1>5, ThreadNames DEF TypeOK, CallTypeOK
<1> QED BY <1>3, <1>4, <1>5 DEF OrphanInv, OrphanedOnlyIfSuperseded

LEMMA OrphanStep == TypeOK /\ LockInv /\ SlotInv /\ OrphanInv /\ [Next]_vars => OrphanInv'
<1> SUFFICES ASSUME TypeOK, LockInv, SlotInv, OrphanInv, [Next]_vars
             PROVE  OrphanInv'
  OBVIOUS
<1> USE ThreadNames
<1>1. ASSUME NEW c \in Callers, NEW k \in Kinds, Call(c, k)
      PROVE  OrphanInv'
  BY <1>1, OrphanMove DEF Call, clientVars
<1>2. ASSUME NEW t \in Threads, CallStep(t)
      PROVE  OrphanInv'
  <2>1. CASE EnsureLocked(t)
    <3>1. CASE Spawn(t, "register")
      BY <2>1, <3>1, OrphanSpawn DEF EnsureLocked
    <3>2. CASE ~Spawn(t, "register")
      <4>1. PICK label \in {"register", "ended"} : pc' = [pc EXCEPT ![t] = label]
        BY <2>1, <3>2 DEF EnsureLocked, Finish
      <4> QED BY <2>1, <3>2, <4>1, OrphanMove DEF EnsureLocked
    <3> QED BY <3>1, <3>2
  <2>2. CASE ReadProc(t)
    <3>1. CASE Leave(t, "write failed") /\ UNCHANGED target
      BY <2>2, <3>1, OrphanMove DEF ReadProc, Leave, Finish, clientVars
    <3>2. CASE /\ proc # NoProc /\ target' = [target EXCEPT ![t] = proc]
               /\ pc' = [pc EXCEPT ![t] = "send"]
      <4>1. UNCHANGED <<live, proc, slot>> /\ pc[t] = "write"
        BY <2>2 DEF ReadProc, clientVars
      <4>2. proc \in Procs
        BY <3>2, ProcTyped DEF TypeOK, NoProc, Procs
      <4>3. \A u \in Threads : /\ pc'[u] = IF u = t THEN "send" ELSE pc[u]
                              /\ target'[u] = IF u = t THEN proc ELSE target[u]
        BY <3>2 DEF TypeOK, CallTypeOK
      <4>4. \A p \in live' : pc'[p] = "reading"
        BY <4>1, <4>3, LiveThreads DEF OrphanInv, TypeOK
      <4>5. \A u \in Threads : pc'[u] \in {"send", "wait"} => target'[u] \in Procs
        BY <4>2, <4>3 DEF OrphanInv
      <4>6. ASSUME NEW u \in Threads, pc'[u] = "wait", slot'[u] = "empty",
                   pc'[target'[u]] \notin {"reading", "eof"}
            PROVE  proc' # target'[u]
        <5>1. u # t /\ pc[u] = "wait" /\ target'[u] = target[u] /\ target[u] \in Threads
          BY <4>3, <4>6 DEF OrphanInv
        <5>2. pc[target[u]] \notin {"reading", "eof"}
          BY <4>1, <4>3, <4>6, <5>1
        <5> QED BY <4>1, <4>6, <5>1, <5>2 DEF OrphanInv, OrphanedOnlyIfSuperseded
      <4> QED BY <4>4, <4>5, <4>6 DEF OrphanInv, OrphanedOnlyIfSuperseded
    <3> QED BY <2>2, <3>1, <3>2 DEF ReadProc
  <2>3. CASE WriteRequest(t)
    <3>1. CASE \E result : Leave(t, result)
      BY <2>3, <3>1, OrphanMove DEF WriteRequest, Leave, Finish, clientVars
    <3>2. CASE target[t] \in live /\ pc' = [pc EXCEPT ![t] = "wait"]
      <4>1. UNCHANGED <<live, proc, slot, target>> /\ pc[t] = "send"
        BY <2>3 DEF WriteRequest, clientVars
      <4>2. pc[target[t]] = "reading" /\ target[t] # t /\ target[t] \in Procs
        BY <3>2, <4>1 DEF OrphanInv
      <4>3. \A u \in Threads : pc'[u] = IF u = t THEN "wait" ELSE pc[u]
        BY <3>2 DEF TypeOK, CallTypeOK
      <4>4. \A p \in live' : pc'[p] = "reading"
        BY <4>1, <4>3, LiveThreads DEF OrphanInv, TypeOK
      <4>5. \A u \in Threads : pc'[u] \in {"send", "wait"} => target'[u] \in Procs
        BY <4>1, <4>2, <4>3 DEF OrphanInv
      <4>6. ASSUME NEW u \in Threads, pc'[u] = "wait", slot'[u] = "empty",
                   pc'[target'[u]] \notin {"reading", "eof"}
            PROVE  proc' # target'[u]
        <5>1. target[u] \in Procs /\ target[u] \in Threads
          BY <4>1, <4>5, <4>6
        <5>2. u # t /\ pc[u] = "wait"
          BY <4>1, <4>2, <4>3, <4>6
        <5>3. pc[target[u]] \notin {"reading", "eof"}
          BY <4>1, <4>3, <4>6, <5>1
        <5> QED BY <4>1, <4>6, <5>2, <5>3 DEF OrphanInv, OrphanedOnlyIfSuperseded
      <4> QED BY <4>4, <4>5, <4>6 DEF OrphanInv, OrphanedOnlyIfSuperseded
    <3> QED BY <2>3, <3>1, <3>2 DEF WriteRequest, BrokenPipe
  <2>4. CASE ~EnsureLocked(t) /\ ~ReadProc(t) /\ ~WriteRequest(t)
    <3>1. PICK label \in {"register", "locking", "write", "expired", "ended"} :
               pc' = [pc EXCEPT ![t] = label]
      BY <1>2, <2>4 DEF CallStep, EnsureStarted, Register, Answered, Expire, TimedOut, Leave, Finish
    <3>2. UNCHANGED <<live, proc, slot, target>> /\ pc[t] \in InCall
      BY <1>2, <2>4 DEF CallStep, EnsureStarted, Register, Answered, Expire, TimedOut, InCall,
                        clientVars, callVars
    <3> QED BY <3>1, <3>2, OrphanMove DEF InCall
  <2> QED BY <2>1, <2>2, <2>3, <2>4
<1>3. ASSUME NEW p \in Procs, WorkerStep(p)
      PROVE  OrphanInv'
  BY <1>3 DEF WorkerStep, Emit, Respond, Exit, OrphanInv, OrphanedOnlyIfSuperseded, clientVars, callVars
<1>4. ASSUME NEW p \in Procs, ReaderStep(p)
      PROVE  OrphanInv'
  <2>1. CASE ReadEvent(p)
    BY <2>1 DEF ReadEvent, OrphanInv, OrphanedOnlyIfSuperseded, clientVars, callVars
  <2>2. CASE ReadResponse(p)
    <3>1. \A t \in Threads : slot'[t] = "empty" => slot[t] = "empty"
      BY <2>2 DEF ReadResponse, WakeCaller, TypeOK, CallTypeOK
    <3> QED BY <2>2, <3>1 DEF ReadResponse, OrphanInv, OrphanedOnlyIfSuperseded, clientVars
  <2>3. CASE ReadEof(p)
    <3>1. /\ pc[p] = "reading" /\ p \notin live /\ pc' = [pc EXCEPT ![p] = "eof"]
          /\ UNCHANGED <<live, proc, target, slot>>
      BY <2>3 DEF ReadEof, clientVars, callVars
    <3>2. \A u \in Threads : pc'[u] = IF u = p THEN "eof" ELSE pc[u]
      BY <3>1 DEF TypeOK, CallTypeOK
    <3>3. \A q \in live' : pc'[q] = "reading"
      BY <3>1, <3>2, LiveThreads DEF OrphanInv, TypeOK
    <3>4. \A u \in Threads : pc'[u] \in {"send", "wait"} => target'[u] \in Procs
      BY <3>1, <3>2 DEF OrphanInv
    <3>5. ASSUME NEW u \in Threads, pc'[u] = "wait", slot'[u] = "empty",
                 pc'[target'[u]] \notin {"reading", "eof"}
          PROVE  proc' # target'[u]
      <4>1. target[u] \in Procs /\ target[u] \in Threads
        BY <3>1, <3>4, <3>5
      <4>2. pc[u] = "wait" /\ target[u] # p
        BY <3>1, <3>2, <3>5
      <4>3. pc[target[u]] \notin {"reading", "eof"}
        BY <3>1, <3>2, <3>5, <4>1
      <4> QED BY <3>1, <3>5, <4>2, <4>3 DEF OrphanInv, OrphanedOnlyIfSuperseded
    <3> QED BY <3>3, <3>4, <3>5 DEF OrphanInv, OrphanedOnlyIfSuperseded
  <2>4. CASE FailPending(p)
    <3>1. /\ pc[p] = "eof" /\ pc' = [pc EXCEPT ![p] = "exited"]
          /\ UNCHANGED <<live, proc, target>>
      BY <2>4 DEF FailPending, clientVars
    <3>2. ASSUME NEW t \in Threads, pc'[t] = "wait", slot'[t] = "empty",
                 pc'[target'[t]] \notin {"reading", "eof"}
          PROVE  proc' # target'[t]
      <4>1. pc[t] = "wait" /\ t # p
        BY <3>1, <3>2 DEF TypeOK, CallTypeOK
      <4>2. CASE proc = p
        <5>1. slot'[t] = IF t \in pending THEN "worker exited" ELSE slot[t]
          BY <2>4, <4>2 DEF FailPending, FailAll
        <5> QED BY <3>2, <4>1, <5>1 DEF SlotInv, Registered
      <4>3. CASE proc # p
        <5>1. slot' = slot
          BY <2>4, <4>3 DEF FailPending
        <5> QED BY <3>1, <3>2, <4>1, <4>3, <5>1 DEF OrphanInv, OrphanedOnlyIfSuperseded, TypeOK, CallTypeOK
      <4> QED BY <4>2, <4>3
    <3>3. \A q \in live' : pc'[q] = "reading"
      BY <3>1, LiveThreads DEF OrphanInv, TypeOK, CallTypeOK
    <3>4. \A t \in Threads : pc'[t] \in {"send", "wait"} => target'[t] \in Procs
      BY <3>1 DEF OrphanInv, TypeOK, CallTypeOK
    <3> QED BY <3>2, <3>3, <3>4 DEF OrphanInv, OrphanedOnlyIfSuperseded
  <2>5. CASE NotifyExit(p)
    <3>1. PICK label \in {"ended", "restart"} : pc' = [pc EXCEPT ![p] = label]
      BY <2>5 DEF NotifyExit
    <3> QED BY <2>5, <3>1, OrphanMove DEF NotifyExit, clientVars, callVars
  <2>6. CASE BeginRestart(p)
    <3>1. PICK label \in {"ended", "respawn"} : pc' = [pc EXCEPT ![p] = label]
      BY <2>6 DEF BeginRestart
    <3>2. proc' = proc \/ proc' = NoProc
      BY <2>6 DEF BeginRestart, BeginTerminate
    <3> QED BY <2>6, <3>1, <3>2, OrphanMove DEF BeginRestart, callVars
  <2>7. CASE EndRestart(p)
    BY <2>7, OrphanSpawn DEF EndRestart, callVars
  <2> QED BY <1>4, <2>1, <2>2, <2>3, <2>4, <2>5, <2>6, <2>7 DEF ReaderStep
<1>5. CASE Signal
  BY <1>5 DEF Signal, OrphanInv, OrphanedOnlyIfSuperseded, clientVars, callVars
<1>6. CASE BeginShutdown \/ EndShutdown
  BY <1>6 DEF BeginShutdown, EndShutdown, BeginTerminate, OrphanInv, OrphanedOnlyIfSuperseded,
              callVars, NoProc, Procs
<1>7. CASE UNCHANGED vars
  BY <1>7 DEF vars, OrphanInv, OrphanedOnlyIfSuperseded, clientVars, callVars
<1> QED BY <1>1, <1>2, <1>3, <1>4, <1>5, <1>6, <1>7 DEF Next

(* Only a call written to a process the client has since replaced is left  *)
(* to its timeout when that process exits.                                 *)
THEOREM OrphanedOnlyIfSupersededHolds == Spec => []OrphanedOnlyIfSuperseded
<1>1. Init => OrphanInv
  BY IpcAssumption, ThreadNames DEF Init, OrphanInv, OrphanedOnlyIfSuperseded, NoProc
<1> QED BY <1>1, OrphanStep, SlotInvariant, PTL DEF Spec, OrphanInv

-----------------------------------------------------------------------------
(* Streams *)

About(s, t)     == \E i \in 1 .. Len(s) : s[i].id = t
Answering(s, t) == \E i \in 1 .. Len(s) : s[i].type = "response" /\ s[i].id = t
EventIn(s, t)   == \E i \in 1 .. Len(s) : s[i].type = "event" /\ s[i].id = t

(* Nothing about a request follows its response. *)
Clean(s) == \A i, j \in 1 .. Len(s) : i < j /\ s[i].type = "response" => s[j].id # s[i].id

LEMMA AppendFacts ==
    ASSUME NEW s \in Seq(Message), NEW m \in Message, NEW t
    PROVE  /\ About(Append(s, m), t) => About(s, t) \/ m.id = t
           /\ Answering(Append(s, m), t) => Answering(s, t) \/ (m.type = "response" /\ m.id = t)
           /\ EventIn(Append(s, m), t) <=> EventIn(s, t) \/ (m.type = "event" /\ m.id = t)
<1>1. Len(s) \in Nat /\ Len(Append(s, m)) = Len(s) + 1
  OBVIOUS
<1>2. \A i \in 1 .. Len(s) : Append(s, m)[i] = s[i] /\ i \in 1 .. Len(s) + 1
  BY <1>1
<1>3. Append(s, m)[Len(s) + 1] = m /\ Len(s) + 1 \in 1 .. Len(s) + 1
  BY <1>1
<1>4. \A i \in 1 .. Len(s) + 1 : i \in 1 .. Len(s) \/ i = Len(s) + 1
  BY <1>1
<1> QED BY <1>1, <1>2, <1>3, <1>4 DEF About, Answering, EventIn

LEMMA CleanAppend ==
    ASSUME NEW s \in Seq(Message), NEW m \in Message, Clean(s), ~Answering(s, m.id)
    PROVE  Clean(Append(s, m))
<1>1. Len(s) \in Nat /\ Len(Append(s, m)) = Len(s) + 1
  OBVIOUS
<1>2. \A i \in 1 .. Len(s) : Append(s, m)[i] = s[i]
  BY <1>1
<1>3. Append(s, m)[Len(s) + 1] = m
  BY <1>1
<1>4. ASSUME NEW i \in 1 .. Len(s) + 1, NEW j \in 1 .. Len(s) + 1, i < j,
             Append(s, m)[i].type = "response"
      PROVE  Append(s, m)[j].id # Append(s, m)[i].id
  <2>1. i \in 1 .. Len(s) /\ (j \in 1 .. Len(s) \/ j = Len(s) + 1)
    BY <1>1, <1>4
  <2> QED BY <1>2, <1>3, <1>4, <2>1 DEF Clean, Answering
<1> QED BY <1>1, <1>4 DEF Clean

LEMMA TailFacts ==
    ASSUME NEW s \in Seq(Message), s # <<>>, Clean(s)
    PROVE  /\ Clean(Tail(s))
           /\ About(s, Head(s).id)
           /\ Head(s).type = "event" => EventIn(s, Head(s).id)
           /\ Head(s).type = "response" => /\ Answering(s, Head(s).id)
                                           /\ ~About(Tail(s), Head(s).id)
           /\ \A t : /\ About(Tail(s), t) => About(s, t)
                     /\ Answering(Tail(s), t) => Answering(s, t)
                     /\ EventIn(Tail(s), t) => EventIn(s, t)
                     /\ EventIn(s, t) => \/ EventIn(Tail(s), t)
                                         \/ Head(s).type = "event" /\ Head(s).id = t
<1>1. Len(s) \in Nat /\ Len(s) >= 1 /\ Len(Tail(s)) = Len(s) - 1 /\ Head(s) = s[1]
  OBVIOUS
<1>2. \A i \in 1 .. Len(s) - 1 : Tail(s)[i] = s[i + 1] /\ i + 1 \in 1 .. Len(s) /\ 1 < i + 1
  BY <1>1
<1>3. \A i \in 1 .. Len(s) : i = 1 \/ (i - 1 \in 1 .. Len(s) - 1 /\ (i - 1) + 1 = i)
  BY <1>1
<1>4. \A i, j \in 1 .. Len(s) - 1 : i < j => i + 1 < j + 1
  OBVIOUS
<1>5. 1 \in 1 .. Len(s)
  BY <1>1
<1>6. Clean(Tail(s))
  BY <1>1, <1>2, <1>4 DEF Clean
<1>7. ASSUME Head(s).type = "response"
      PROVE  Answering(s, Head(s).id) /\ ~About(Tail(s), Head(s).id)
  BY <1>1, <1>2, <1>5, <1>7 DEF Clean, About, Answering
<1>8. About(s, Head(s).id) /\ (Head(s).type = "event" => EventIn(s, Head(s).id))
  BY <1>1, <1>5 DEF About, EventIn
<1>9. ASSUME NEW t
      PROVE  /\ About(Tail(s), t) => About(s, t)
             /\ Answering(Tail(s), t) => Answering(s, t)
             /\ EventIn(Tail(s), t) => EventIn(s, t)
  BY <1>1, <1>2 DEF About, Answering, EventIn
<1>10. ASSUME NEW t, EventIn(s, t)
       PROVE  EventIn(Tail(s), t) \/ (Head(s).type = "event" /\ Head(s).id = t)
  <2>1. PICK i \in 1 .. Len(s) : s[i].type = "event" /\ s[i].id = t
    BY <1>10 DEF EventIn
  <2> QED BY <1>1, <1>2, <1>3, <2>1 DEF EventIn
<1> QED BY <1>6, <1>7, <1>8, <1>9, <1>10

(* A stream keeps its handler as long as it is registered. *)
ScopeInv == \A t \in Threads : pc[t] \in Registered /\ kind[t] = "stream" => t \in scoped

LEMMA ScopeStep == TypeOK /\ ScopeInv /\ [Next]_vars => ScopeInv'
<1> SUFFICES ASSUME TypeOK, ScopeInv, [Next]_vars
             PROVE  ScopeInv'
  OBVIOUS
<1> USE ThreadNames DEF TypeOK, CallTypeOK, ScopeInv, Registered
<1>1. ASSUME NEW c \in Callers, NEW k \in Kinds, Call(c, k)
      PROVE  ScopeInv'
  BY <1>1 DEF Call
<1>2. ASSUME NEW t \in Threads, CallStep(t)
      PROVE  ScopeInv'
  <2>1. CASE EnsureLocked(t)
    BY <2>1 DEF EnsureLocked, Spawn, Finish
  <2>2. CASE ~EnsureLocked(t)
    BY <1>2, <2>2 DEF CallStep, EnsureStarted, Register, ReadProc, WriteRequest, BrokenPipe,
                      Answered, Expire, TimedOut, Leave, Finish, callVars
  <2> QED BY <2>1, <2>2
<1>3. ASSUME NEW p \in Procs, WorkerStep(p)
      PROVE  ScopeInv'
  BY <1>3 DEF WorkerStep, Emit, Respond, Exit, callVars
<1>4. ASSUME NEW p \in Procs, ReaderStep(p)
      PROVE  ScopeInv'
  <2>1. CASE EndRestart(p)
    BY <2>1 DEF EndRestart, Spawn, callVars
  <2>2. CASE ~EndRestart(p)
    BY <1>4, <2>2 DEF ReaderStep, ReadEvent, ReadResponse, ReadEof, FailPending, NotifyExit,
                      BeginRestart, callVars
  <2> QED BY <2>1, <2>2
<1>5. CASE Signal \/ BeginShutdown \/ EndShutdown
  BY <1>5 DEF Signal, BeginShutdown, EndShutdown, callVars
<1>6. CASE UNCHANGED vars
  BY <1>6 DEF vars, callVars
<1> QED BY <1>1, <1>2, <1>3, <1>4, <1>5, <1>6 DEF Next

AfterWrite == {"wait", "expired", "ended"}

(* What is on the wire is about the call that wrote it, to this process,   *)
(* which was not answered yet.                                             *)
WireInv ==
    \A p \in Procs :
        /\ Clean(stdout[p])
        /\ \A t \in Threads :
              /\ t \in stdin[p] \/ About(stdout[p], t)
                 => pc[t] \in AfterWrite /\ target[t] = p /\ slot[t] # "response"
              /\ t \in stdin[p] => ~Answering(stdout[p], t)
              /\ EventIn(stdout[p], t) => kind[t] = "stream"

(* Where the event of a stream is, and that it strays only after its call. *)
EventInv ==
    \A t \in Threads :
        /\ t \in emitted => /\ pc[t] \in AfterWrite /\ target[t] \in Procs
                            /\ \/ t \in delivered \cup strayed
                               \/ EventIn(stdout[target[t]], t)
        /\ t \in strayed => pc[t] = "ended" /\ outcome[t] # "response"
        /\ slot[t] = "response" => pc[t] \in AfterWrite
        /\ outcome[t] = "response" => slot[t] = "response" /\ pc[t] = "ended"

(* A step that leaves the wire alone: a call that was written stays so.    *)
QuietStep ==
    /\ UNCHANGED wireVars
    /\ \A t \in Threads :
          /\ pc[t] \in AfterWrite => pc'[t] \in AfterWrite /\ target'[t] = target[t]
                                     /\ kind'[t] = kind[t]
          /\ pc[t] = "ended" => pc'[t] = "ended" /\ outcome'[t] = outcome[t]
          /\ slot'[t] = "response" => slot[t] = "response"
          /\ outcome'[t] = "response" => slot'[t] = "response" /\ pc'[t] = "ended"

LEMMA StreamQuiet == WireInv /\ EventInv /\ QuietStep => (WireInv /\ EventInv)'
<1> SUFFICES ASSUME WireInv, EventInv, QuietStep
             PROVE  (WireInv /\ EventInv)'
  OBVIOUS
<1>1. UNCHANGED <<stdin, stdout, emitted, delivered, strayed>>
  BY DEF QuietStep, wireVars
<1>2. WireInv'
  <2>1. \A p \in Procs, t \in Threads : EventIn(stdout[p], t) => About(stdout[p], t)
    BY DEF EventIn, About
  <2> QED BY <1>1, <2>1 DEF WireInv, QuietStep
<1>3. EventInv'
  BY <1>1 DEF EventInv, QuietStep
<1> QED BY <1>2, <1>3

LEMMA FreshProc ==
    ASSUME TypeOK, LockInv, spawned < MaxProcs
    PROVE  pc[spawned + 1] = "unborn" /\ spawned + 1 \in Procs
BY ThreadNames DEF LockInv, TypeOK, ClientTypeOK

(* The steps of the client do nothing to the wire but write a request. *)
LEMMA ClientQuiet ==
    ASSUME TypeOK, LockInv, SlotInv, EventInv,
           \/ \E c \in Callers, k \in Kinds : Call(c, k)
           \/ \E t \in Threads : CallStep(t) /\ UNCHANGED stdin
           \/ \E p \in Procs : ReadEof(p) \/ FailPending(p) \/ NotifyExit(p) \/ BeginRestart(p)
                               \/ EndRestart(p)
           \/ Signal \/ BeginShutdown \/ EndShutdown \/ UNCHANGED vars
    PROVE  QuietStep
<1> USE ThreadNames DEF TypeOK, CallTypeOK, QuietStep, AfterWrite, EventInv
<1>1. ASSUME NEW c \in Callers, NEW k \in Kinds, Call(c, k)
      PROVE  QuietStep
  BY <1>1 DEF Call
<1>2. ASSUME NEW t \in Threads, CallStep(t), UNCHANGED stdin
      PROVE  QuietStep
  <2>1. CASE EnsureLocked(t)
    <3>1. CASE Spawn(t, "register") /\ UNCHANGED outcome
      <4>1. pc[spawned + 1] = "unborn" /\ spawned + 1 \in Procs
        BY <3>1, FreshProc DEF Spawn
      <4> QED BY <2>1, <3>1, <4>1 DEF EnsureLocked, Spawn
    <3>2. CASE pc' = [pc EXCEPT ![t] = "register"] /\ UNCHANGED outcome
      BY <2>1, <3>2 DEF EnsureLocked
    <3>3. CASE Finish(t, "shutting down")
      BY <2>1, <3>3 DEF EnsureLocked, Finish
    <3> QED BY <2>1, <3>1, <3>2, <3>3 DEF EnsureLocked
  <2>2. CASE EnsureStarted(t) \/ Register(t) \/ Expire(t)
    BY <2>2 DEF EnsureStarted, Register, Expire, callVars
  <2>3. CASE ReadProc(t)
    BY <2>3 DEF ReadProc, Leave, Finish
  <2>4. CASE WriteRequest(t)
    <3>1. UNCHANGED wireVars /\ UNCHANGED <<target, kind, slot>> /\ pc[t] = "send"
      BY <1>2, <2>4 DEF WriteRequest, wireVars
    <3>2. CASE pc' = [pc EXCEPT ![t] = "wait"] /\ UNCHANGED outcome
      BY <3>1, <3>2
    <3>3. CASE Finish(t, "write failed")
      BY <3>1, <3>3 DEF Finish
    <3>4. CASE Finish(t, "sent")
      BY <3>1, <3>4 DEF Finish
    <3> QED BY <2>4, <3>2, <3>3, <3>4 DEF WriteRequest, BrokenPipe, Leave
  <2>5. CASE Answered(t) \/ TimedOut(t)
    BY <2>5 DEF Answered, TimedOut, Leave, Finish
  <2> QED BY <1>2, <2>1, <2>2, <2>3, <2>4, <2>5 DEF CallStep
<1>3. ASSUME NEW p \in Procs,
             ReadEof(p) \/ FailPending(p) \/ NotifyExit(p) \/ BeginRestart(p) \/ EndRestart(p)
      PROVE  QuietStep
  <2>1. CASE ReadEof(p) \/ NotifyExit(p) \/ BeginRestart(p)
    BY <2>1 DEF ReadEof, NotifyExit, BeginRestart, callVars
  <2>2. CASE FailPending(p)
    <3>1. \A t \in Threads : slot'[t] # slot[t] => t \in pending /\ slot'[t] = "worker exited"
      BY <2>2 DEF FailPending, FailAll
    <3>2. \A t \in Threads : outcome[t] = "response" => t \notin pending
      BY DEF SlotInv, Registered
    <3> QED BY <2>2, <3>1, <3>2 DEF FailPending
  <2>3. CASE EndRestart(p)
    <3>1. pc[spawned + 1] = "unborn" /\ spawned + 1 \in Procs
      BY <2>3, FreshProc DEF EndRestart, Spawn
    <3> QED BY <2>3, <3>1 DEF EndRestart, Spawn, callVars
  <2> QED BY <1>3, <2>1, <2>2, <2>3
<1>4. CASE Signal \/ BeginShutdown \/ EndShutdown \/ UNCHANGED vars
  BY <1>4 DEF Signal, BeginShutdown, EndShutdown, callVars, vars
<1> QED BY <1>1, <1>2, <1>3, <1>4

LEMMA StreamWrite ==
    ASSUME TypeOK, OrphanInv, WireInv, EventInv, NEW t \in Threads,
           WriteRequest(t), stdin' # stdin
    PROVE  (WireInv /\ EventInv)'
<1> USE ThreadNames DEF AfterWrite
<1>1. /\ pc[t] = "send" /\ target[t] \in live
      /\ stdin' = [stdin EXCEPT ![target[t]] = @ \cup {t}]
      /\ UNCHANGED <<target, slot, kind, stdout, emitted, delivered, strayed>>
  BY DEF WriteRequest, BrokenPipe
<1>2. \/ pc' = [pc EXCEPT ![t] = "wait"] /\ UNCHANGED outcome
      \/ pc' = [pc EXCEPT ![t] = "ended"] /\ outcome' = [outcome EXCEPT ![t] = "sent"]
  BY <1>1 DEF WriteRequest, BrokenPipe, Leave, Finish
<1>3. pc'[t] \in AfterWrite /\ \A u \in Threads : u # t => pc'[u] = pc[u] /\ outcome'[u] = outcome[u]
  BY <1>2 DEF TypeOK, CallTypeOK
<1>4. outcome'[t] # "response" /\ slot[t] # "response" /\ t \notin emitted /\ t \notin strayed
      /\ \A p \in Procs : ~About(stdout[p], t) /\ ~Answering(stdout[p], t)
  <2>1. \A p \in Procs : ~About(stdout[p], t)
    BY <1>1 DEF WireInv
  <2>2. outcome[t] # "response" /\ slot[t] # "response" /\ t \notin emitted /\ t \notin strayed
    BY <1>1 DEF EventInv
  <2>3. \A p \in Procs : Answering(stdout[p], t) => About(stdout[p], t)
    BY DEF Answering, About
  <2> QED BY <1>2, <2>1, <2>2, <2>3 DEF TypeOK, CallTypeOK
<1>5. \A p \in Procs, u \in Threads :
         u \in stdin'[p] => u \in stdin[p] \/ (u = t /\ p = target[t])
  BY <1>1 DEF TypeOK, WireTypeOK
<1>6. WireInv'
  BY <1>1, <1>3, <1>4, <1>5 DEF WireInv
<1>7. EventInv'
  BY <1>1, <1>3, <1>4 DEF EventInv
<1> QED BY <1>6, <1>7

LEMMA StreamEmit ==
    ASSUME TypeOK, WireInv, EventInv, NEW p \in Procs, NEW t \in Threads,
           Emit(p, t) \/ Respond(p, t)
    PROVE  (WireInv /\ EventInv)'
<1>1. PICK m \in Message :
         /\ stdout' = [stdout EXCEPT ![p] = Append(@, m)]
         /\ m.id = t
         /\ \/ /\ m.type = "event" /\ kind[t] = "stream"
               /\ emitted' = emitted \cup {t} /\ stdin' = stdin
            \/ /\ m.type = "response" /\ emitted' = emitted
               /\ stdin' = [stdin EXCEPT ![p] = @ \ {t}]
  <2>1. Event(t) \in Message /\ Event(t).id = t /\ Event(t).type = "event"
    BY DEF Event, Message
  <2>2. Response(t) \in Message /\ Response(t).id = t /\ Response(t).type = "response"
    BY DEF Response, Message
  <2> QED BY <2>1, <2>2 DEF Emit, Respond
<1>2. t \in stdin[p] /\ UNCHANGED <<pc, target, slot, kind, outcome, delivered, strayed>>
  BY DEF Emit, Respond, callVars
<1>3. stdout[p] \in Seq(Message) /\ stdout'[p] = Append(stdout[p], m)
      /\ \A q \in Procs : q # p => stdout'[q] = stdout[q]
  BY <1>1 DEF TypeOK, WireTypeOK
<1>4. pc[t] \in AfterWrite /\ target[t] = p /\ slot[t] # "response" /\ ~Answering(stdout[p], t)
      /\ Clean(stdout[p])
  BY <1>2 DEF WireInv
<1>5. Clean(stdout'[p])
  BY <1>1, <1>3, <1>4, CleanAppend
<1>6. ASSUME NEW u \in Threads
      PROVE  /\ About(stdout'[p], u) => About(stdout[p], u) \/ u = t
             /\ Answering(stdout'[p], u) => Answering(stdout[p], u) \/ (m.type = "response" /\ u = t)
             /\ EventIn(stdout'[p], u) => EventIn(stdout[p], u) \/ (m.type = "event" /\ u = t)
             /\ EventIn(stdout[p], u) => EventIn(stdout'[p], u)
             /\ m.type = "event" /\ u = t => EventIn(stdout'[p], u)
  BY <1>1, <1>3, AppendFacts
<1>7. \A q \in Procs, u \in Threads : u \in stdin'[q] => u \in stdin[q]
  BY <1>1 DEF TypeOK, WireTypeOK
<1>8. m.type = "response" => t \notin stdin'[p]
  BY <1>1 DEF TypeOK, WireTypeOK
<1>9. WireInv'
  <2>1. Clean(stdout'[p]) /\ \A q \in Procs : q # p => Clean(stdout'[q])
    BY <1>3, <1>5 DEF WireInv
  <2>2. ASSUME NEW q \in Procs, NEW u \in Threads, u \in stdin'[q] \/ About(stdout'[q], u)
        PROVE  pc'[u] \in AfterWrite /\ target'[u] = q /\ slot'[u] # "response"
    <3>1. CASE u \in stdin[q] \/ About(stdout[q], u)
      BY <1>2, <3>1 DEF WireInv
    <3>2. CASE q = p /\ u = t
      BY <1>2, <1>4, <3>2
    <3> QED BY <1>3, <1>6, <1>7, <2>2, <3>1, <3>2
  <2>3. ASSUME NEW q \in Procs, NEW u \in Threads, u \in stdin'[q]
        PROVE  ~Answering(stdout'[q], u)
    <3>1. ~Answering(stdout[q], u)
      BY <1>7, <2>3 DEF WireInv
    <3>2. CASE q = p
      <4>1. m.type = "response" => u # t
        BY <1>8, <2>3, <3>2
      <4> QED BY <1>6, <3>1, <3>2, <4>1
    <3>3. CASE q # p
      BY <1>3, <3>1, <3>3
    <3> QED BY <3>2, <3>3
  <2>4. ASSUME NEW q \in Procs, NEW u \in Threads, EventIn(stdout'[q], u)
        PROVE  kind'[u] = "stream"
    <3>1. CASE EventIn(stdout[q], u)
      BY <1>2, <3>1 DEF WireInv
    <3>2. CASE m.type = "event" /\ u = t
      BY <1>1, <1>2, <3>2
    <3> QED BY <1>3, <1>6, <2>4, <3>1, <3>2
  <2> QED BY <2>1, <2>2, <2>3, <2>4 DEF WireInv
<1>10. EventInv'
  <2>1. ASSUME NEW u \in Threads, u \in emitted'
        PROVE  /\ pc'[u] \in AfterWrite /\ target'[u] \in Procs
               /\ u \in delivered' \cup strayed' \/ EventIn(stdout'[target'[u]], u)
    <3>1. CASE u \in emitted
      <4>1. /\ pc[u] \in AfterWrite /\ target[u] \in Procs
            /\ u \in delivered \cup strayed \/ EventIn(stdout[target[u]], u)
        BY <3>1 DEF EventInv
      <4>2. EventIn(stdout[target[u]], u) => EventIn(stdout'[target[u]], u)
        BY <1>3, <1>6, <4>1
      <4> QED BY <1>2, <4>1, <4>2
    <3>2. CASE u = t /\ m.type = "event"
      BY <1>2, <1>4, <1>6, <3>2
    <3> QED BY <1>1, <2>1, <3>1, <3>2
  <2> QED BY <1>2, <2>1 DEF EventInv
<1> QED BY <1>9, <1>10

LEMMA StreamRead ==
    ASSUME TypeOK, SlotInv, ScopeInv, WireInv, EventInv, NEW p \in Procs,
           ReadEvent(p) \/ ReadResponse(p)
    PROVE  (WireInv /\ EventInv)'
<1> DEFINE t == Head(stdout[p]).id
<1>1. stdout[p] \in Seq(Message) /\ stdout[p] # <<>> /\ Clean(stdout[p])
  BY DEF TypeOK, WireTypeOK, WireInv, ReadEvent, ReadResponse
<1>2. t \in Threads
  <2>1. Head(stdout[p]) \in Message
    BY <1>1
  <2> QED BY <2>1 DEF Message
<1>3. /\ stdout'[p] = Tail(stdout[p]) /\ \A q \in Procs : q # p => stdout'[q] = stdout[q]
      /\ UNCHANGED <<pc, target, kind, outcome, stdin, emitted, scoped>>
  BY DEF ReadEvent, ReadResponse, callVars, TypeOK, WireTypeOK
<1>4. /\ Clean(stdout'[p]) /\ About(stdout[p], t)
      /\ Head(stdout[p]).type = "event" => EventIn(stdout[p], t)
      /\ Head(stdout[p]).type = "response" => Answering(stdout[p], t) /\ ~About(stdout'[p], t)
  BY <1>1, <1>3, TailFacts
<1>5. \A u : /\ About(stdout'[p], u) => About(stdout[p], u)
             /\ Answering(stdout'[p], u) => Answering(stdout[p], u)
             /\ EventIn(stdout'[p], u) => EventIn(stdout[p], u)
             /\ EventIn(stdout[p], u) => EventIn(stdout'[p], u) \/ (Head(stdout[p]).type = "event" /\ u = t)
  BY <1>1, <1>3, TailFacts
<1>6. pc[t] \in AfterWrite /\ target[t] = p /\ slot[t] # "response"
  BY <1>2, <1>4 DEF WireInv
<1>7. CASE ReadEvent(p)
  <2>1. /\ UNCHANGED slot /\ Head(stdout[p]).type = "event"
        /\ delivered' \cup strayed' = delivered \cup strayed \cup {t}
        /\ strayed' = strayed \/ (t \notin scoped /\ strayed' = strayed \cup {t})
    BY <1>7 DEF ReadEvent, callVars
  <2>2. WireInv'
    BY <1>3, <1>4, <1>5, <2>1 DEF WireInv
  <2>3. t \notin scoped => pc[t] = "ended" /\ outcome[t] # "response"
    <3>1. kind[t] = "stream"
      BY <1>2, <1>4, <2>1 DEF WireInv
    <3> QED BY <1>2, <1>6, <3>1 DEF ScopeInv, EventInv, AfterWrite, Registered
  <2>4. ASSUME NEW u \in Threads, u \in emitted'
        PROVE  /\ pc'[u] \in AfterWrite /\ target'[u] \in Procs
               /\ u \in delivered' \cup strayed' \/ EventIn(stdout'[target'[u]], u)
    BY <1>3, <1>5, <2>1, <2>4 DEF EventInv
  <2> QED BY <1>3, <2>1, <2>2, <2>3, <2>4 DEF EventInv
<1>8. CASE ReadResponse(p)
  <2>1. Head(stdout[p]).type = "response" /\ UNCHANGED <<delivered, strayed>>
        /\ \A u \in Threads : u # t => slot'[u] = slot[u]
    BY <1>8 DEF ReadResponse, WakeCaller, TypeOK, CallTypeOK
  <2>2. slot'[t] = slot[t] \/ (t \in pending /\ slot'[t] = "response")
    BY <1>2, <1>8 DEF ReadResponse, WakeCaller, TypeOK, CallTypeOK
  <2>3. ~About(stdout'[p], t) /\ t \notin stdin[p]
    BY <1>2, <1>4, <2>1 DEF WireInv
  <2>4. \A q \in Procs : q # p => ~About(stdout[q], t) /\ t \notin stdin[q]
    BY <1>2, <1>6 DEF WireInv
  <2>5. WireInv'
    <3>1. ASSUME NEW q \in Procs, NEW u \in Threads, u \in stdin'[q] \/ About(stdout'[q], u)
          PROVE  pc'[u] \in AfterWrite /\ target'[u] = q /\ slot'[u] # "response"
      <4>1. u # t
        BY <1>3, <2>3, <2>4, <3>1
      <4> QED BY <1>3, <1>5, <2>1, <3>1, <4>1 DEF WireInv
    <3> QED BY <1>3, <1>4, <1>5, <3>1 DEF WireInv
  <2>6. outcome[t] # "response"
    BY <1>2, <1>6 DEF EventInv
  <2>7. ASSUME NEW u \in Threads, u \in emitted'
        PROVE  /\ pc'[u] \in AfterWrite /\ target'[u] \in Procs
               /\ u \in delivered' \cup strayed' \/ EventIn(stdout'[target'[u]], u)
    BY <1>3, <1>5, <2>1, <2>7 DEF EventInv
  <2>8. ASSUME NEW u \in Threads
        PROVE  /\ u \in strayed' => pc'[u] = "ended" /\ outcome'[u] # "response"
               /\ slot'[u] = "response" => pc'[u] \in AfterWrite
               /\ outcome'[u] = "response" => slot'[u] = "response" /\ pc'[u] = "ended"
    BY <1>3, <1>6, <2>1, <2>2, <2>6 DEF EventInv
  <2> QED BY <2>5, <2>7, <2>8 DEF EventInv
<1> QED BY <1>7, <1>8

LEMMA StreamStep ==
    ASSUME TypeOK, LockInv, SlotInv, OrphanInv, ScopeInv, WireInv, EventInv, [Next]_vars
    PROVE  (WireInv /\ EventInv)'
<1>1. CASE \/ \E c \in Callers, k \in Kinds : Call(c, k)
           \/ Signal \/ BeginShutdown \/ EndShutdown \/ UNCHANGED vars
  BY <1>1, ClientQuiet, StreamQuiet
<1>2. ASSUME NEW t \in Threads, CallStep(t)
      PROVE  (WireInv /\ EventInv)'
  <2>1. CASE UNCHANGED stdin
    BY <1>2, <2>1, ClientQuiet, StreamQuiet
  <2>2. CASE stdin' # stdin
    <3>1. WriteRequest(t)
      BY <1>2, <2>2 DEF CallStep, EnsureStarted, EnsureLocked, Register, ReadProc, Answered,
                        Expire, TimedOut, wireVars
    <3> QED BY <2>2, <3>1, StreamWrite
  <2> QED BY <2>1, <2>2
<1>3. ASSUME NEW p \in Procs, WorkerStep(p)
      PROVE  (WireInv /\ EventInv)'
  <2>1. ASSUME NEW t \in Threads, Emit(p, t) \/ Respond(p, t)
        PROVE  (WireInv /\ EventInv)'
    BY <2>1, StreamEmit
  <2>2. ASSUME NEW code \in {"zero", "nonzero"}, Exit(p, code)
        PROVE  (WireInv /\ EventInv)'
    <3>1. /\ UNCHANGED <<pc, callVars, stdout, emitted, delivered, strayed>>
          /\ \A q \in Procs : stdin'[q] \subseteq stdin[q]
      BY <2>2 DEF Exit, TypeOK, WireTypeOK
    <3>2. WireInv'
      BY <3>1 DEF WireInv, callVars
    <3>3. EventInv'
      BY <3>1 DEF EventInv, callVars
    <3> QED BY <3>2, <3>3
  <2> QED BY <1>3, <2>1, <2>2 DEF WorkerStep
<1>4. ASSUME NEW p \in Procs, ReaderStep(p)
      PROVE  (WireInv /\ EventInv)'
  <2>1. CASE ReadEvent(p) \/ ReadResponse(p)
    BY <2>1, StreamRead
  <2>2. CASE ~(ReadEvent(p) \/ ReadResponse(p))
    BY <1>4, <2>2, ClientQuiet, StreamQuiet DEF ReaderStep
  <2> QED BY <2>1, <2>2
<1> QED BY <1>1, <1>2, <1>3, <1>4 DEF Next

(* When call_with_events returns a result its handler has seen every event *)
(* of the request, for any number of callers, processes, crashes and       *)
(* restarts: the handler is registered before the request is written, and  *)
(* one pipe with one reader keeps the events before the response.          *)
THEOREM StreamCompleteHolds == Spec => []StreamComplete
<1>1. Init => OrphanInv /\ ScopeInv
  BY IpcAssumption, ThreadNames
     DEF Init, OrphanInv, OrphanedOnlyIfSuperseded, NoProc, ScopeInv, Registered
<1>2. Init => WireInv /\ EventInv
  BY IpcAssumption, ThreadNames
     DEF Init, WireInv, EventInv, Clean, About, Answering, EventIn
<1>3. TypeOK /\ WireInv /\ EventInv => StreamComplete
  <2> SUFFICES ASSUME TypeOK, WireInv, EventInv, NEW t \in Threads, outcome[t] = "response", t \in emitted
               PROVE  t \in delivered /\ t \notin strayed
    BY DEF StreamComplete
  <2>1. slot[t] = "response" /\ target[t] \in Procs /\ t \notin strayed
    BY DEF EventInv
  <2>2. ~EventIn(stdout[target[t]], t)
    BY <2>1 DEF WireInv, EventIn, About
  <2> QED BY <2>1, <2>2 DEF EventInv
<1>4. TypeOK /\ LockInv /\ SlotInv /\ OrphanInv /\ ScopeInv /\ WireInv /\ EventInv /\ [Next]_vars
      => (OrphanInv /\ ScopeInv /\ WireInv /\ EventInv)'
  BY OrphanStep, ScopeStep, StreamStep
<1> QED BY <1>1, <1>2, <1>3, <1>4, SlotInvariant, PTL DEF Spec

-----------------------------------------------------------------------------
(***************************************************************************)
(* WorkerIpc implements RpcContract, for every number of callers and       *)
(* processes, with or without an exit handler that restarts.               *)
(***************************************************************************)

Beyond == {"wait", "expired", "ended"}
Written == {"response", "worker exited", "timeout", "sent"}

(* Where a request can be says whether it may have run, and what its       *)
(* caller may have been told.                                              *)
RequestOK(t) ==
    /\ \A p \in Procs : t \in stdin[p] =>
          /\ target[t] = p
          /\ served[t] = {}
          /\ pc[t] \in Beyond
          /\ pc[t] = "ended" => outcome[t] \in Written
    /\ slot[t] = "response" => served[t] # {}
    /\ pc[t] \notin Beyond => served[t] = {}
    /\ pc[t] # "ended" => outcome[t] = "none"

(* A response in the pipe is one to a request that ran. *)
Truthful(messages) ==
    \A i \in 1 .. Len(messages) :
        messages[i].type = "response" => served[messages[i].id] # {}

RunInv ==
    /\ \A t \in Threads : RequestOK(t)
    /\ \A p \in Procs : Truthful(stdout[p])

-----------------------------------------------------------------------------
(* One request *)

(* A step of somebody else *)
LEMMA RequestKept ==
    ASSUME NEW t \in Threads, RequestOK(t), UNCHANGED <<stdin, served>>,
           pc'[t] = pc[t], outcome'[t] = outcome[t], target'[t] = target[t],
           slot'[t] = "response" => slot[t] = "response"
    PROVE  RequestOK(t)'
BY DEF RequestOK

(* A step of a thread that has not written its request *)
LEMMA RequestEarly ==
    ASSUME NEW t \in Threads, RequestOK(t), UNCHANGED <<stdin, served>>,
           pc[t] \notin Beyond,
           pc'[t] # "ended" => outcome'[t] = "none",
           slot'[t] = "response" => slot[t] = "response"
    PROVE  RequestOK(t)'
BY DEF RequestOK, Beyond

(* A caller stops waiting *)
LEMMA RequestLate ==
    ASSUME NEW t \in Threads, RequestOK(t), UNCHANGED <<stdin, served, target, slot>>,
           pc[t] \in {"wait", "expired"},
           \/ pc'[t] = "expired" /\ outcome'[t] = outcome[t]
           \/ pc'[t] = "ended" /\ outcome'[t] \in Written
    PROVE  RequestOK(t)'
BY DEF RequestOK, Beyond

-----------------------------------------------------------------------------
(* The messages of one pipe *)

LEMMA AppendElement ==
    ASSUME NEW S, NEW s \in Seq(S), NEW e \in S, NEW i \in 1 .. Len(Append(s, e))
    PROVE  \/ Append(s, e)[i] = e
           \/ i \in 1 .. Len(s) /\ Append(s, e)[i] = s[i]
OBVIOUS

LEMMA TailElement ==
    ASSUME NEW S, NEW s \in Seq(S), s # <<>>
    PROVE  /\ 1 \in 1 .. Len(s) /\ Head(s) = s[1]
           /\ \A i \in 1 .. Len(Tail(s)) : i + 1 \in 1 .. Len(s) /\ Tail(s)[i] = s[i + 1]
OBVIOUS

(* Requests run once and stay run. *)
LEMMA TruthfulKept ==
    ASSUME NEW messages \in Seq(Message), Truthful(messages),
           \A t \in Threads : served[t] # {} => served'[t] # {}
    PROVE  \A i \in 1 .. Len(messages) :
               messages[i].type = "response" => served'[messages[i].id] # {}
<1>1. \A m \in Message : m.id \in Threads
  BY DEF Message
<1>2. \A i \in 1 .. Len(messages) : messages[i] \in Message
  OBVIOUS
<1> QED BY <1>1, <1>2 DEF Truthful

LEMMA TruthfulAppend ==
    ASSUME TypeOK, RunInv, NEW p \in Procs, NEW e \in Message,
           stdout' = [stdout EXCEPT ![p] = Append(@, e)],
           \A t \in Threads : served[t] # {} => served'[t] # {},
           e.type = "response" => served'[e.id] # {}
    PROVE  \A q \in Procs : Truthful(stdout[q])'
<1> SUFFICES ASSUME NEW q \in Procs, NEW i \in 1 .. Len(stdout'[q]),
                    stdout'[q][i].type = "response"
             PROVE  served'[stdout'[q][i].id] # {}
  BY DEF Truthful
<1>1. stdout[q] \in Seq(Message) /\ Truthful(stdout[q])
  BY DEF TypeOK, WireTypeOK, RunInv
<1>2. \A j \in 1 .. Len(stdout[q]) :
          stdout[q][j].type = "response" => served'[stdout[q][j].id] # {}
  BY <1>1, TruthfulKept
<1>3. CASE q # p
  <2>1. stdout'[q] = stdout[q]
    BY <1>3 DEF TypeOK, WireTypeOK
  <2> QED BY <1>2, <2>1
<1>4. CASE q = p
  <2>1. stdout'[q] = Append(stdout[q], e)
    BY <1>4 DEF TypeOK, WireTypeOK
  <2>2. \/ stdout'[q][i] = e
        \/ i \in 1 .. Len(stdout[q]) /\ stdout'[q][i] = stdout[q][i]
    BY <1>1, <2>1, AppendElement
  <2> QED BY <1>2, <2>2
<1> QED BY <1>3, <1>4

LEMMA TruthfulTail ==
    ASSUME TypeOK, RunInv, NEW p \in Procs, stdout[p] # <<>>,
           stdout' = [stdout EXCEPT ![p] = Tail(@)], UNCHANGED served
    PROVE  \A q \in Procs : Truthful(stdout[q])'
<1> SUFFICES ASSUME NEW q \in Procs, NEW i \in 1 .. Len(stdout'[q]),
                    stdout'[q][i].type = "response"
             PROVE  served[stdout'[q][i].id] # {}
  BY DEF Truthful
<1>1. stdout[q] \in Seq(Message) /\ Truthful(stdout[q])
  BY DEF TypeOK, WireTypeOK, RunInv
<1>2. \E j \in 1 .. Len(stdout[q]) : stdout'[q][i] = stdout[q][j]
  <2>1. CASE q # p
    BY <2>1 DEF TypeOK, WireTypeOK
  <2>2. CASE q = p
    <3>1. stdout'[q] = Tail(stdout[q])
      BY <2>2 DEF TypeOK, WireTypeOK
    <3> QED BY <1>1, <2>2, <3>1, TailElement
  <2> QED BY <2>1, <2>2
<1> QED BY <1>1, <1>2 DEF Truthful

-----------------------------------------------------------------------------
(* Steps *)

(* A step of thread t that leaves the pipes and what was run alone *)
LEMMA RunCallerStep ==
    ASSUME TypeOK, RunInv, NEW t \in Threads,
           UNCHANGED <<stdin, stdout, served, slot>>,
           \A u \in Threads : u # t => /\ pc'[u] = pc[u]
                                       /\ outcome'[u] = outcome[u]
                                       /\ target'[u] = target[u],
           RequestOK(t)'
    PROVE  RunInv'
<1>1. ASSUME NEW u \in Threads
      PROVE  RequestOK(u)'
  BY RequestKept DEF RunInv
<1>2. \A p \in Procs : Truthful(stdout[p])'
  BY DEF RunInv, Truthful
<1> QED BY <1>1, <1>2 DEF RunInv

(* A spawn moves its thread and the reader of the new process. *)
LEMMA RunSpawn ==
    ASSUME TypeOK, LockInv, RunInv, NEW t \in Threads, NEW label \in {"register", "ensure"},
           pc[t] \in {"locking", "respawn"}, Spawn(t, label),
           UNCHANGED <<outcome, target, slot, stdin, stdout, served>>
    PROVE  RunInv'
<1>1. spawned \in Nat /\ spawned + 1 \in Procs /\ spawned + 1 > spawned
  BY IpcAssumption DEF Spawn, TypeOK, ClientTypeOK, Procs
<1>2. pc[spawned + 1] = "unborn" /\ spawned + 1 \in Threads
  BY <1>1, ThreadNames DEF LockInv
<1>3. ASSUME NEW u \in Threads
      PROVE  RequestOK(u)'
  <2>1. RequestOK(u)
    BY DEF RunInv
  <2>2. CASE u \notin {t, spawned + 1}
    <3>1. pc'[u] = pc[u]
      BY <2>2 DEF Spawn, TypeOK, CallTypeOK
    <3> QED BY <2>1, <3>1, RequestKept
  <2>3. CASE u \in {t, spawned + 1}
    <3>1. pc[u] \notin Beyond /\ outcome[u] = "none"
      BY <1>2, <2>1, <2>3 DEF Beyond, RequestOK
    <3> QED BY <2>1, <3>1, RequestEarly
  <2> QED BY <2>2, <2>3
<1>4. \A p \in Procs : Truthful(stdout[p])'
  BY DEF RunInv, Truthful
<1> QED BY <1>3, <1>4 DEF RunInv

(* The steps of a call before its request is written, except a spawn *)
LEMMA RunEarly ==
    ASSUME TypeOK, RunInv, NEW t \in Threads,
           \/ EnsureStarted(t) \/ Register(t) \/ ReadProc(t)
           \/ EnsureLocked(t) /\ ~MaySpawn
           \/ WriteRequest(t) /\ BrokenPipe(t)
    PROVE  RunInv'
<1>1. pc[t] \notin Beyond /\ RequestOK(t)
  BY DEF EnsureStarted, Register, ReadProc, EnsureLocked, WriteRequest, Beyond, RunInv
<1>2. UNCHANGED <<stdin, stdout, served, slot>>
  BY DEF EnsureStarted, Register, ReadProc, EnsureLocked, WriteRequest, BrokenPipe,
         callVars, wireVars
<1>3. \A u \in Threads : u # t => target'[u] = target[u]
  BY DEF EnsureStarted, Register, ReadProc, EnsureLocked, WriteRequest, callVars,
         TypeOK, CallTypeOK
<1>4. \/ outcome' = outcome /\ \E label : pc' = [pc EXCEPT ![t] = label]
      \/ \E result : Finish(t, result)
  BY DEF EnsureStarted, Register, ReadProc, EnsureLocked, WriteRequest, BrokenPipe, MaySpawn,
         Leave, callVars
<1>5. /\ \A u \in Threads : u # t => pc'[u] = pc[u] /\ outcome'[u] = outcome[u]
      /\ pc'[t] # "ended" => outcome'[t] = "none"
  BY <1>1, <1>4 DEF Finish, TypeOK, CallTypeOK, RequestOK, Beyond
<1>6. RequestOK(t)'
  BY <1>1, <1>2, <1>5, RequestEarly
<1> QED BY <1>2, <1>3, <1>5, <1>6, RunCallerStep

(* The request is written: it did not run before. *)
LEMMA RunWrite ==
    ASSUME TypeOK, RunInv, NEW t \in Threads, WriteRequest(t), ~BrokenPipe(t)
    PROVE  RunInv'
<1>1. /\ pc[t] = "send" /\ target[t] \in live
      /\ stdin' = [stdin EXCEPT ![target[t]] = @ \cup {t}]
      /\ UNCHANGED <<target, slot, stdout, served>>
  BY DEF WriteRequest
<1>2. \/ pc' = [pc EXCEPT ![t] = "wait"] /\ outcome' = outcome
      \/ pc' = [pc EXCEPT ![t] = "ended"] /\ outcome' = [outcome EXCEPT ![t] = "sent"]
  BY DEF WriteRequest, Leave, Finish
<1>3. target[t] \in Procs
  <2>1. live \subseteq 1 .. spawned /\ spawned \in 0 .. MaxProcs
    BY DEF TypeOK, ClientTypeOK
  <2>2. target[t] \in 1 .. spawned
    BY <1>1, <2>1
  <2> QED BY <2>1, <2>2, IpcAssumption DEF Procs
<1>4. \A u \in Threads : u # t =>
         pc'[u] = pc[u] /\ outcome'[u] = outcome[u] /\ target'[u] = target[u]
  BY <1>1, <1>2 DEF TypeOK, CallTypeOK
<1>5. \A p \in Procs, u \in Threads : u \in stdin'[p] => u \in stdin[p] \/ (u = t /\ p = target[t])
  BY <1>1 DEF TypeOK, WireTypeOK
<1>6. ASSUME NEW u \in Threads, u # t
      PROVE  RequestOK(u)'
  <2>1. RequestOK(u)
    BY DEF RunInv
  <2> QED BY <1>1, <1>4, <1>5, <1>6, <2>1 DEF RequestOK
<1>7. RequestOK(t)'
  <2>1. RequestOK(t) /\ pc[t] \notin Beyond
    BY <1>1 DEF RunInv, Beyond
  <2>2. \A p \in Procs : t \in stdin'[p] => p = target[t]
    BY <1>5, <2>1 DEF RequestOK
  <2>3. pc'[t] \in Beyond /\ (pc'[t] = "ended" => outcome'[t] \in Written)
    BY <1>2 DEF TypeOK, CallTypeOK, Beyond, Written
  <2>4. pc'[t] # "ended" => outcome'[t] = "none"
    BY <1>2, <2>1 DEF TypeOK, CallTypeOK, RequestOK, Beyond
  <2> QED BY <1>1, <2>1, <2>2, <2>3, <2>4 DEF RequestOK
<1>8. \A p \in Procs : Truthful(stdout[p])'
  BY <1>1 DEF RunInv, Truthful
<1> QED BY <1>6, <1>7, <1>8 DEF RunInv

(* The steps of a caller that waits *)
LEMMA RunLate ==
    ASSUME TypeOK, RunInv, NEW t \in Threads, Answered(t) \/ Expire(t) \/ TimedOut(t)
    PROVE  RunInv'
<1>1. pc[t] \in {"wait", "expired"} /\ RequestOK(t)
  BY DEF Answered, Expire, TimedOut, RunInv
<1>2. UNCHANGED <<stdin, stdout, served, slot, target>>
  BY DEF Answered, Expire, TimedOut, callVars, wireVars
<1>3. \/ pc' = [pc EXCEPT ![t] = "expired"] /\ outcome' = outcome
      \/ \E result \in Written : /\ pc' = [pc EXCEPT ![t] = "ended"]
                                /\ outcome' = [outcome EXCEPT ![t] = result]
  <2>1. CASE Answered(t)
    BY <2>1 DEF Answered, Finish, Written, TypeOK, CallTypeOK
  <2>2. CASE Expire(t)
    BY <2>2 DEF Expire, callVars
  <2>3. CASE TimedOut(t)
    BY <2>3 DEF TimedOut, Leave, Finish, Written
  <2> QED BY <2>1, <2>2, <2>3
<1>4. /\ \A u \in Threads : u # t => pc'[u] = pc[u] /\ outcome'[u] = outcome[u]
      /\ \/ pc'[t] = "expired" /\ outcome'[t] = outcome[t]
         \/ pc'[t] = "ended" /\ outcome'[t] \in Written
  BY <1>3 DEF TypeOK, CallTypeOK
<1>5. RequestOK(t)'
  BY <1>1, <1>2, <1>4, RequestLate
<1> QED BY <1>2, <1>4, <1>5, RunCallerStep

LEMMA RunCall ==
    ASSUME TypeOK, LockInv, RunInv, NEW t \in Threads, CallStep(t)
    PROVE  RunInv'
<1>1. CASE EnsureLocked(t) /\ MaySpawn
  <2>1. pc[t] = "locking" /\ Spawn(t, "register")
    BY <1>1 DEF EnsureLocked, MaySpawn
  <2>2. UNCHANGED <<outcome, target, slot, stdin, stdout, served>>
    BY <1>1 DEF EnsureLocked, MaySpawn, wireVars
  <2> QED BY <2>1, <2>2, RunSpawn
<1> QED BY <1>1, RunEarly, RunWrite, RunLate DEF CallStep

(* A worker runs a request it was sent; the answer follows it. *)
LEMMA RunRespond ==
    ASSUME TypeOK, RunInv, NEW p \in Procs, NEW t \in Threads, Respond(p, t)
    PROVE  RunInv'
<1>1. /\ t \in stdin[p]
      /\ stdin' = [stdin EXCEPT ![p] = @ \ {t}]
      /\ served' = [served EXCEPT ![t] = @ \cup {p}]
      /\ stdout' = [stdout EXCEPT ![p] = Append(@, Response(t))]
      /\ UNCHANGED <<pc, outcome, slot, target>>
  BY DEF Respond, callVars
<1>2. \A u \in Threads : /\ served'[u] = IF u = t THEN served[u] \cup {p} ELSE served[u]
                        /\ \A q \in Procs : u \in stdin'[q] => u \in stdin[q] /\ (u = t => q # p)
  BY <1>1 DEF TypeOK, WireTypeOK
<1>3. \A q \in Procs : Truthful(stdout[q])'
  <2>1. Response(t) \in Message /\ Response(t).id = t
    BY DEF Response, Message
  <2>2. served'[t] # {} /\ \A u \in Threads : served[u] # {} => served'[u] # {}
    BY <1>2
  <2> QED BY <1>1, <2>1, <2>2, TruthfulAppend
<1>4. ASSUME NEW u \in Threads
      PROVE  RequestOK(u)'
  <2>1. RequestOK(u)
    BY DEF RunInv
  <2>2. CASE u # t
    BY <1>1, <1>2, <2>1, <2>2 DEF RequestOK
  <2>3. CASE u = t
    <3>1. pc[t] \in Beyond /\ target[t] = p
      BY <1>1, <2>1, <2>3 DEF RequestOK
    <3>2. \A q \in Procs : t \notin stdin'[q]
      BY <1>2, <2>1, <2>3, <3>1 DEF RequestOK
    <3>3. served'[t] # {}
      BY <1>2
    <3> QED BY <1>1, <2>1, <2>3, <3>1, <3>2, <3>3 DEF RequestOK
  <2> QED BY <2>2, <2>3
<1> QED BY <1>3, <1>4 DEF RunInv

(* A worker emits, or exits: what it did not answer is lost. *)
LEMMA RunWorker ==
    ASSUME TypeOK, RunInv, NEW p \in Procs, WorkerStep(p)
    PROVE  RunInv'
<1>1. ASSUME NEW t \in Threads, Emit(p, t)
      PROVE  RunInv'
  <2>1. /\ stdout' = [stdout EXCEPT ![p] = Append(@, Event(t))]
        /\ UNCHANGED <<stdin, served, pc, outcome, slot, target>>
    BY <1>1 DEF Emit, callVars
  <2>2. Event(t) \in Message /\ Event(t).type # "response"
    BY DEF Event, Message
  <2>3. \A q \in Procs : Truthful(stdout[q])'
    BY <2>1, <2>2, TruthfulAppend
  <2>4. \A u \in Threads : RequestOK(u)'
    BY <2>1, RequestKept DEF RunInv
  <2> QED BY <2>3, <2>4 DEF RunInv
<1>2. ASSUME NEW code \in {"zero", "nonzero"}, Exit(p, code)
      PROVE  RunInv'
  <2>1. stdin' = [stdin EXCEPT ![p] = {}] /\ UNCHANGED <<stdout, served, pc, outcome, slot, target>>
    BY <1>2 DEF Exit, callVars
  <2>2. \A q \in Procs, u \in Threads : u \in stdin'[q] => u \in stdin[q]
    BY <2>1 DEF TypeOK, WireTypeOK
  <2>3. \A u \in Threads : RequestOK(u)'
    BY <2>1, <2>2 DEF RunInv, RequestOK
  <2>4. \A q \in Procs : Truthful(stdout[q])'
    BY <2>1 DEF RunInv, Truthful
  <2> QED BY <2>3, <2>4 DEF RunInv
<1> QED BY <1>1, <1>2, RunRespond DEF WorkerStep

(* The reader takes a message: an answer it hands on is true. *)
LEMMA RunRead ==
    ASSUME TypeOK, RunInv, NEW p \in Procs, ReadEvent(p) \/ ReadResponse(p)
    PROVE  RunInv'
<1>1. /\ stdout[p] # <<>> /\ stdout' = [stdout EXCEPT ![p] = Tail(@)]
      /\ UNCHANGED <<stdin, served, pc, outcome, target>>
  BY DEF ReadEvent, ReadResponse, callVars
<1>2. \A q \in Procs : Truthful(stdout[q])'
  BY <1>1, TruthfulTail
<1>3. ASSUME NEW u \in Threads, slot'[u] = "response", slot[u] # "response"
      PROVE  served[u] # {}
  <2>1. ReadResponse(p)
    BY <1>3 DEF ReadEvent, callVars
  <2>2. Head(stdout[p]).type = "response" /\ u = Head(stdout[p]).id
    BY <1>3, <2>1 DEF ReadResponse, WakeCaller, TypeOK, CallTypeOK
  <2>3. stdout[p] \in Seq(Message) /\ Truthful(stdout[p])
    BY DEF TypeOK, WireTypeOK, RunInv
  <2> QED BY <1>1, <2>2, <2>3, TailElement DEF Truthful
<1>4. ASSUME NEW u \in Threads
      PROVE  RequestOK(u)'
  <2>1. RequestOK(u)
    BY DEF RunInv
  <2> QED BY <1>1, <1>3, <2>1 DEF RequestOK
<1> QED BY <1>2, <1>4 DEF RunInv

(* The reader moves on without a message. *)
LEMMA RunReaderMoves ==
    ASSUME TypeOK, RunInv, NEW p \in Procs,
           ReadEof(p) \/ FailPending(p) \/ NotifyExit(p) \/ BeginRestart(p)
    PROVE  RunInv'
<1>1. /\ UNCHANGED <<outcome, target, stdin, stdout, served>>
      /\ pc[p] \notin Beyond
      /\ \E label : pc' = [pc EXCEPT ![p] = label]
  BY DEF ReadEof, FailPending, NotifyExit, BeginRestart, callVars, wireVars, Beyond
<1>2. ASSUME NEW t \in Threads, slot'[t] = "response"
      PROVE  slot[t] = "response"
  <2>1. CASE slot' = slot
    BY <1>2, <2>1
  <2>2. CASE slot' # slot
    <3>1. FailAll
      BY <2>2 DEF ReadEof, FailPending, NotifyExit, BeginRestart, callVars
    <3> QED BY <1>2, <3>1 DEF FailAll
  <2> QED BY <2>1, <2>2
<1>3. ASSUME NEW t \in Threads
      PROVE  RequestOK(t)'
  <2>1. RequestOK(t)
    BY DEF RunInv
  <2>2. CASE t # p
    <3>1. pc'[t] = pc[t]
      BY <1>1, <2>2 DEF TypeOK, CallTypeOK
    <3> QED BY <1>1, <1>2, <2>1, <3>1, RequestKept
  <2>3. CASE t = p
    <3>1. outcome'[t] = "none"
      BY <1>1, <2>1, <2>3 DEF RequestOK, Beyond
    <3> QED BY <1>1, <1>2, <2>1, <2>3, <3>1, RequestEarly
  <2> QED BY <2>2, <2>3
<1>4. \A q \in Procs : Truthful(stdout[q])'
  BY <1>1 DEF RunInv, Truthful
<1> QED BY <1>3, <1>4 DEF RunInv

LEMMA RunReader ==
    ASSUME TypeOK, LockInv, RunInv, NEW p \in Procs, ReaderStep(p)
    PROVE  RunInv'
<1>1. CASE EndRestart(p)
  <2>1. pc[p] = "respawn" /\ Spawn(p, "ensure") /\ p \in Threads
    BY <1>1, ThreadNames DEF EndRestart
  <2>2. UNCHANGED <<outcome, target, slot, stdin, stdout, served>>
    BY <1>1 DEF EndRestart, callVars, wireVars
  <2> QED BY <2>1, <2>2, RunSpawn
<1> QED BY <1>1, RunRead, RunReaderMoves DEF ReaderStep

LEMMA RunStep == TypeOK /\ LockInv /\ RunInv /\ [Next]_vars => RunInv'
<1> SUFFICES ASSUME TypeOK, LockInv, RunInv, [Next]_vars
             PROVE  RunInv'
  OBVIOUS
<1>1. ASSUME NEW c \in Callers, NEW k \in Kinds, Call(c, k)
      PROVE  RunInv'
  <2>1. /\ c \in Threads /\ pc[c] \notin Beyond /\ pc' = [pc EXCEPT ![c] = "ensure"]
        /\ UNCHANGED <<outcome, target, slot, stdin, stdout, served>>
    BY <1>1, ThreadNames DEF Call, wireVars, Beyond
  <2>2. RequestOK(c) /\ outcome[c] = "none"
    BY <2>1 DEF RunInv, RequestOK, Beyond
  <2>3. RequestOK(c)'
    BY <2>1, <2>2, RequestEarly
  <2>4. \A u \in Threads : u # c => pc'[u] = pc[u]
    BY <2>1 DEF TypeOK, CallTypeOK
  <2> QED BY <2>1, <2>3, <2>4, RunCallerStep
<1>2. CASE Signal \/ BeginShutdown \/ EndShutdown \/ UNCHANGED vars
  BY <1>2 DEF Signal, BeginShutdown, EndShutdown, vars, callVars, wireVars, RunInv, RequestOK,
              Truthful
<1> QED BY <1>1, <1>2, RunCall, RunWorker, RunReader DEF Next

LEMMA RunInvariant == Spec => [](TypeOK /\ LockInv /\ RunInv)
<1>1. Init => LockInv
  BY IpcAssumption, ThreadNames DEF Init, LockInv, NoProc
<1>2. Init => RunInv
  BY DEF Init, RunInv, RequestOK, Truthful, Beyond
<1> QED BY <1>1, <1>2, LockStep, RunStep, TypeCorrect, PTL DEF Spec

-----------------------------------------------------------------------------
(* What callers are told *)

(* A step of one thread moves the status of its request only. *)
LEMMA OneMoves ==
    ASSUME TypeOK, NEW t \in Threads, NEW label, NEW result,
           pc' = [pc EXCEPT ![t] = label],
           outcome' = [outcome EXCEPT ![t] = result]
    PROVE  RpcStatus' = [RpcStatus EXCEPT ![t] = StatusOf(result, label)]
<1>1. \A u \in Threads : /\ pc'[u] = IF u = t THEN label ELSE pc[u]
                        /\ outcome'[u] = IF u = t THEN result ELSE outcome[u]
  BY DEF TypeOK, CallTypeOK
<1>2. \A u \in Threads : StatusOf(outcome'[u], pc'[u])
                          = IF u = t THEN StatusOf(result, label) ELSE RpcStatus[u]
  BY <1>1 DEF RpcStatus
<1>3. RpcStatus' = [u \in Threads |-> StatusOf(outcome'[u], pc'[u])]
  BY DEF RpcStatus
<1>4. RpcStatus = [u \in Threads |-> RpcStatus[u]]
  BY DEF RpcStatus
<1> QED BY <1>2, <1>3, <1>4

LEMMA NobodyMoves ==
    ASSUME TypeOK, outcome' = outcome,
           \A t \in Threads : StatusOf(outcome[t], pc'[t]) = StatusOf(outcome[t], pc[t])
    PROVE  RpcStatus' = RpcStatus
BY DEF RpcStatus

(* Until it is told something, a caller in a call has an open request, and *)
(* a reader that makes no call has none.                                   *)
LEMMA StatusIs ==
    ASSUME RunInv, NEW t \in Threads
    PROVE  /\ pc[t] \in InCall => RpcStatus[t] = "open" /\ outcome[t] = "none"
           /\ pc[t] # "ended" /\ pc[t] \notin InCall => RpcStatus[t] = "idle" /\ outcome[t] = "none"
<1>1. pc[t] # "ended" => outcome[t] = "none"
  BY DEF RunInv, RequestOK
<1> QED BY <1>1 DEF RpcStatus, StatusOf, InCall

(* The three ways of a step that runs nothing *)
LEMMA StillOpen ==
    ASSUME TypeOK, RunInv, NEW t \in Threads, NEW label \in InCall, pc[t] \in InCall,
           pc' = [pc EXCEPT ![t] = label], UNCHANGED <<outcome, served>>
    PROVE  UNCHANGED Rpc!vars
<1>1. outcome[t] = "none" /\ RpcStatus[t] = "open"
  BY StatusIs
<1>2. outcome' = [outcome EXCEPT ![t] = "none"]
  BY <1>1 DEF TypeOK, CallTypeOK
<1>3. RpcStatus' = [RpcStatus EXCEPT ![t] = StatusOf("none", label)]
  BY <1>2, OneMoves
<1>4. StatusOf("none", label) = "open"
  BY DEF StatusOf
<1>5. RpcStatus' = RpcStatus
  BY <1>1, <1>3, <1>4 DEF RpcStatus
<1> QED BY <1>5 DEF Rpc!vars

LEMMA CallEnds ==
    ASSUME TypeOK, RunInv, NEW t \in Threads, pc[t] \in InCall, UNCHANGED served,
           NEW result \in {"response", "worker exited", "timeout", "write failed",
                           "shutting down", "sent"},
           Finish(t, result),
           result = "response" => served[t] # {},
           result \in {"write failed", "shutting down"} => served[t] = {}
    PROVE  Rpc!Next
<1>1. RpcStatus[t] = "open"
  BY StatusIs
<1>2. RpcStatus' = [RpcStatus EXCEPT ![t] = StatusOf(result, "ended")]
  BY OneMoves DEF Finish
<1>3. CASE result = "response"
  BY <1>1, <1>2, <1>3 DEF StatusOf, Rpc!Next, Rpc!Answer, Rpc!Moves
<1>4. CASE result \in {"write failed", "shutting down"}
  BY <1>1, <1>2, <1>4 DEF StatusOf, Rpc!Next, Rpc!Reject, Rpc!Moves
<1>5. CASE result \in {"worker exited", "timeout"}
  BY <1>1, <1>2, <1>5 DEF StatusOf, Rpc!Next, Rpc!GiveUp, Rpc!Moves
<1>6. CASE result = "sent"
  BY <1>1, <1>2, <1>6 DEF StatusOf, Rpc!Next, Rpc!Post, Rpc!Moves
<1> QED BY <1>3, <1>4, <1>5, <1>6

LEMMA CallBegins ==
    ASSUME TypeOK, RunInv, NEW t \in Threads, pc[t] \notin InCall, pc[t] # "ended",
           pc' = [pc EXCEPT ![t] = "ensure"], UNCHANGED <<outcome, served>>
    PROVE  Rpc!Next
<1>1. RpcStatus[t] = "idle" /\ outcome[t] = "none"
  BY StatusIs
<1>2. outcome' = [outcome EXCEPT ![t] = "none"]
  BY <1>1 DEF TypeOK, CallTypeOK
<1>3. RpcStatus' = [RpcStatus EXCEPT ![t] = "open"]
  BY <1>2, OneMoves DEF StatusOf, InCall
<1> QED BY <1>1, <1>3 DEF Rpc!Next, Rpc!Issue, Rpc!Moves

-----------------------------------------------------------------------------
(* Refinement *)

(* A spawn under the lock: the reader that is born makes no call. *)
LEMMA RpcSpawn ==
    ASSUME TypeOK, LockInv, RunInv, NEW t \in Threads, NEW label \in {"register", "ensure"},
           Spawn(t, label), pc[t] \in {"locking", "respawn"}, UNCHANGED <<outcome, served>>
    PROVE  RpcStatus' = [RpcStatus EXCEPT ![t] = "open"]
<1>1. spawned \in Nat /\ spawned + 1 \in Procs /\ spawned + 1 > spawned
  BY IpcAssumption DEF Spawn, TypeOK, ClientTypeOK, Procs
<1>2. pc[spawned + 1] = "unborn" /\ spawned + 1 \in Threads
  BY <1>1, ThreadNames DEF LockInv
<1>3. \A u \in Threads : pc'[u] = IF u = spawned + 1 THEN "reading"
                                 ELSE IF u = t THEN label ELSE pc[u]
  BY DEF Spawn, TypeOK, CallTypeOK
<1>4. outcome[t] = "none" /\ outcome[spawned + 1] = "none" /\ t # spawned + 1
  BY <1>2, StatusIs DEF InCall
<1>5. StatusOf("none", "reading") = StatusOf("none", "unborn") /\ StatusOf("none", label) = "open"
  BY DEF StatusOf, InCall
<1>6. \A u \in Threads : RpcStatus'[u] = IF u = t THEN "open" ELSE RpcStatus[u]
  BY <1>2, <1>3, <1>4, <1>5 DEF RpcStatus
<1> QED BY <1>6 DEF RpcStatus

LEMMA RpcCall ==
    ASSUME TypeOK, LockInv, RunInv, NEW t \in Threads, CallStep(t)
    PROVE  [Rpc!Next]_Rpc!vars
<1>1. RequestOK(t)
  BY DEF RunInv
<1>2. CASE EnsureStarted(t)
  <2>1. PICK label \in InCall : pc' = [pc EXCEPT ![t] = label]
    BY <1>2 DEF EnsureStarted, InCall
  <2>2. pc[t] \in InCall /\ UNCHANGED <<outcome, served>>
    BY <1>2 DEF EnsureStarted, InCall, callVars, wireVars
  <2> QED BY <2>1, <2>2, StillOpen
<1>3. CASE EnsureLocked(t)
  <2>1. pc[t] = "locking" /\ pc[t] \in InCall /\ UNCHANGED served
    BY <1>3 DEF EnsureLocked, InCall, wireVars
  <2>2. CASE pc' = [pc EXCEPT ![t] = "register"] /\ outcome' = outcome
    BY <2>1, <2>2, StillOpen DEF InCall
  <2>3. CASE Finish(t, "shutting down")
    <3>1. served[t] = {}
      BY <1>1, <2>1 DEF RequestOK, Beyond
    <3> QED BY <2>1, <2>3, <3>1, CallEnds
  <2>4. CASE Spawn(t, "register") /\ outcome' = outcome
    <3>1. RpcStatus' = [RpcStatus EXCEPT ![t] = "open"]
      BY <2>1, <2>4, RpcSpawn
    <3>2. RpcStatus[t] = "open"
      BY <2>1, StatusIs
    <3>3. RpcStatus' = RpcStatus
      BY <3>1, <3>2 DEF RpcStatus
    <3> QED BY <2>1, <3>3 DEF Rpc!vars
  <2> QED BY <1>3, <2>2, <2>3, <2>4 DEF EnsureLocked
<1>4. CASE Register(t) \/ Expire(t)
  <2>1. PICK label \in InCall : pc' = [pc EXCEPT ![t] = label]
    BY <1>4 DEF Register, Expire, InCall
  <2>2. pc[t] \in InCall /\ UNCHANGED <<outcome, served>>
    BY <1>4 DEF Register, Expire, InCall, callVars, wireVars
  <2> QED BY <2>1, <2>2, StillOpen
<1>5. CASE ReadProc(t) \/ WriteRequest(t)
  <2>1. pc[t] \in InCall /\ UNCHANGED served
    BY <1>5 DEF ReadProc, WriteRequest, InCall, wireVars
  <2>2. served[t] = {}
    BY <1>1, <1>5 DEF ReadProc, WriteRequest, RequestOK, Beyond
  <2>3. \/ \E label \in {"send", "wait"} : pc' = [pc EXCEPT ![t] = label] /\ outcome' = outcome
        \/ \E result \in {"write failed", "sent"} : Finish(t, result)
    BY <1>5 DEF ReadProc, WriteRequest, BrokenPipe, Leave
  <2>4. CASE \E label \in {"send", "wait"} : pc' = [pc EXCEPT ![t] = label] /\ outcome' = outcome
    BY <2>1, <2>4, StillOpen DEF InCall
  <2>5. CASE \E result \in {"write failed", "sent"} : Finish(t, result)
    BY <2>1, <2>2, <2>5, CallEnds
  <2> QED BY <2>3, <2>4, <2>5
<1>6. CASE Answered(t)
  <2>1. /\ pc[t] \in InCall /\ UNCHANGED served
        /\ Finish(t, slot[t]) /\ slot[t] \in {"response", "worker exited"}
    BY <1>6 DEF Answered, InCall, wireVars, TypeOK, CallTypeOK
  <2>2. slot[t] = "response" => served[t] # {}
    BY <1>1 DEF RequestOK
  <2> QED BY <2>1, <2>2, CallEnds
<1>7. CASE TimedOut(t)
  <2>1. pc[t] \in InCall /\ UNCHANGED served /\ Finish(t, "timeout")
    BY <1>7 DEF TimedOut, Leave, InCall, wireVars
  <2> QED BY <2>1, CallEnds
<1> QED BY <1>2, <1>3, <1>4, <1>5, <1>6, <1>7 DEF CallStep

LEMMA RpcWorker ==
    ASSUME TypeOK, RunInv, NEW p \in Procs, WorkerStep(p)
    PROVE  [Rpc!Next]_Rpc!vars
<1>1. ASSUME NEW t \in Threads, Respond(p, t)
      PROVE  Rpc!Next
  <2>1. /\ t \in stdin[p] /\ served' = [served EXCEPT ![t] = @ \cup {p}]
        /\ pc' = pc /\ outcome' = outcome
    BY <1>1 DEF Respond, callVars
  <2>2. /\ served[t] = {} /\ pc[t] \in Beyond
        /\ pc[t] = "ended" => outcome[t] \in Written
        /\ pc[t] # "ended" => outcome[t] = "none"
    BY <2>1 DEF RunInv, RequestOK
  <2>3. RpcStatus' = RpcStatus
    BY <2>1, NobodyMoves
  <2>4. RpcStatus[t] \notin {"idle", "rejected"}
    BY <2>2 DEF RpcStatus, StatusOf, Beyond, Written, InCall
  <2>5. served' = [served EXCEPT ![t] = {p}]
    BY <2>1, <2>2
  <2> QED BY <2>2, <2>3, <2>4, <2>5 DEF Rpc!Next, Rpc!Run
<1>2. CASE \E t \in Threads : Emit(p, t)
  <2>1. pc' = pc /\ outcome' = outcome /\ served' = served
    BY <1>2 DEF Emit, callVars
  <2> QED BY <2>1, NobodyMoves DEF Rpc!vars
<1>3. CASE \E code \in {"zero", "nonzero"} : Exit(p, code)
  <2>1. pc' = pc /\ outcome' = outcome /\ served' = served
    BY <1>3 DEF Exit, callVars
  <2> QED BY <2>1, NobodyMoves DEF Rpc!vars
<1> QED BY <1>1, <1>2, <1>3 DEF WorkerStep

LEMMA RpcReader ==
    ASSUME TypeOK, LockInv, RunInv, NEW p \in Procs, ReaderStep(p)
    PROVE  [Rpc!Next]_Rpc!vars
<1>1. CASE ReadEvent(p) \/ ReadResponse(p)
  <2>1. pc' = pc /\ outcome' = outcome /\ served' = served
    BY <1>1 DEF ReadEvent, ReadResponse, callVars
  <2> QED BY <2>1, NobodyMoves DEF Rpc!vars
<1>2. CASE ReadEof(p) \/ FailPending(p) \/ NotifyExit(p) \/ BeginRestart(p)
  <2>1. /\ outcome' = outcome /\ served' = served
        /\ pc[p] \in ReaderAt
        /\ \E label \in ReaderAt \cup {"ended"} : pc' = [pc EXCEPT ![p] = label]
    BY <1>2 DEF ReadEof, FailPending, NotifyExit, BeginRestart, callVars, wireVars, ReaderAt
  <2>2. p \in Threads
    BY ThreadNames
  <2>3. outcome[p] = "none"
    BY <2>1, <2>2 DEF RunInv, RequestOK, ReaderAt
  <2>4. \A label \in ReaderAt \cup {"ended"} : StatusOf("none", label) = "idle"
    BY DEF StatusOf, ReaderAt, InCall
  <2>5. \A t \in Threads : StatusOf(outcome[t], pc'[t]) = StatusOf(outcome[t], pc[t])
    BY <2>1, <2>2, <2>3, <2>4 DEF TypeOK, CallTypeOK
  <2> QED BY <2>1, <2>5, NobodyMoves DEF Rpc!vars
<1>3. CASE EndRestart(p)
  <2>1. /\ pc[p] = "respawn" /\ Spawn(p, "ensure") /\ p \in Threads
        /\ UNCHANGED <<outcome, served>>
    BY <1>3, ThreadNames DEF EndRestart, callVars, wireVars
  <2>2. RpcStatus' = [RpcStatus EXCEPT ![p] = "open"]
    BY <2>1, RpcSpawn
  <2>3. RpcStatus[p] = "idle"
    BY <2>1, StatusIs DEF InCall
  <2> QED BY <2>1, <2>2, <2>3 DEF Rpc!Next, Rpc!Issue, Rpc!Moves
<1> QED BY <1>1, <1>2, <1>3 DEF ReaderStep

LEMMA RpcStep ==
    ASSUME TypeOK, LockInv, RunInv, [Next]_vars
    PROVE  [Rpc!Next]_Rpc!vars
<1>1. ASSUME NEW c \in Callers, NEW k \in Kinds, Call(c, k)
      PROVE  Rpc!Next
  <2>1. /\ c \in Threads /\ pc[c] = "idle" /\ pc' = [pc EXCEPT ![c] = "ensure"]
        /\ UNCHANGED <<outcome, served>>
    BY <1>1, ThreadNames DEF Call, wireVars
  <2> QED BY <2>1, CallBegins DEF InCall
<1>2. CASE Signal \/ BeginShutdown \/ EndShutdown \/ UNCHANGED vars
  <2>1. pc' = pc /\ outcome' = outcome /\ served' = served
    BY <1>2 DEF Signal, BeginShutdown, EndShutdown, vars, callVars, wireVars
  <2> QED BY <2>1, NobodyMoves DEF Rpc!vars
<1> QED BY <1>1, <1>2, RpcCall, RpcWorker, RpcReader DEF Next

(* A WorkerClient is what RpcContract says, for any number of callers,     *)
(* crashes, restarts and shutdowns: a request runs at most once, a result  *)
(* is one a worker gave, and what could not be written never runs.         *)
THEOREM ClientImplementsRpc == Spec => RefinesRpc
<1>1. Init => Rpc!Init
  <2> SUFFICES ASSUME Init
               PROVE  Rpc!Init
    OBVIOUS
  <2>1. \A t \in Threads : outcome[t] = "none" /\ pc[t] \in {"idle", "unborn"}
    BY DEF Init
  <2>2. RpcStatus = [t \in Threads |-> "idle"]
    BY <2>1 DEF RpcStatus, StatusOf, InCall
  <2> QED BY <2>2 DEF Init, Rpc!Init
<1>2. TypeOK /\ LockInv /\ RunInv /\ [Next]_vars => [Rpc!Next]_Rpc!vars
  BY RpcStep
<1> QED BY <1>1, <1>2, RunInvariant, PTL DEF Spec, RefinesRpc, Rpc!Spec

=============================================================================
