----------------------------- MODULE AddonHost -----------------------------
(***************************************************************************)
(* The process that runs one addon and the threads of the brain that call  *)
(* it, core/addon_manager.py: AddonHostProcess with its one-thread         *)
(* executor, the loop of core/addon_host.py, and the thread that stops the *)
(* host when the addon is disabled or repaired.                            *)
(*                                                                         *)
(* start() takes no lock: its check and its spawn are two steps, and so    *)
(* are the kill and the assignment of _kill_for_timeout.  A call is named  *)
(* by the thread that makes it, an answer by the call it answers.          *)
(***************************************************************************)
EXTENDS Integers, Sequences, FiniteSets, SequencesExt

CONSTANTS
    Callers,       \* threads of the brain that call the addon
    Stopper,       \* the thread that stops its host
    MaxFaults      \* bound: how often the addon hangs, exits, fails to load or prints

HostThreads == Callers \cup {Stopper}
NoCall == "no call"
WithoutResult == {"none", "queued", "running", "failed", "cancelled"}

ASSUME AddonAssumption ==
    /\ IsFiniteSet(Callers)
    /\ Stopper \notin Callers
    /\ HostThreads \cap (WithoutResult \cup {NoCall, "noise"}) = {}
    /\ MaxFaults \in Nat

\* A thread spawns at most once.
Hosts == 1 .. Cardinality(HostThreads)

VARIABLES
    proc,      \* _proc, 0 for None
    mode,      \* what each process does
    inbox,     \* requests in its standard input
    output,    \* lines in its standard output
    faults,    \* how often the addon misbehaved
    backlog,   \* the work queue of _executor
    running,   \* the call the executor's thread works on
    reading,   \* the process this thread reads from, 0 for none
    shut,      \* _executor was shut down
    step,      \* where each thread is
    future,    \* the future of its call; a result is named by the call it answers
    held,      \* the process that stop() remembers
    dropped,   \* the manager has set addon.host to None
    raced      \* a start overlapped another start, the end of a timeout or a stop

hostVars == <<mode, inbox, output, faults>>
poolVars == <<backlog, running, reading, shut>>
addonVars == <<proc, hostVars, poolVars, step, future, held, dropped, raced>>

AddonTypeOK ==
    /\ proc \in Hosts \cup {0}
    /\ mode \in [Hosts -> {"unborn", "serving", "hung", "killed", "ended"}]
    /\ inbox \in [Hosts -> Seq(HostThreads)]
    /\ output \in [Hosts -> Seq(HostThreads \cup {"noise"})]
    /\ faults \in 0 .. MaxFaults
    /\ backlog \in Seq(HostThreads)
    /\ running \in HostThreads \cup {NoCall}
    /\ reading \in Hosts \cup {0}
    /\ shut \in BOOLEAN
    /\ step \in [HostThreads -> {"idle", "check", "spawn", "submit", "waiting", "kill", "forget",
                                 "terminate", "reap", "clear", "shut down", "drop", "done"}]
    /\ future \in [HostThreads -> WithoutResult \cup HostThreads]
    /\ held \in [HostThreads -> Hosts \cup {0}]
    /\ dropped \in BOOLEAN
    /\ raced \in BOOLEAN

AddonInit ==
    /\ proc = 0
    /\ mode = [p \in Hosts |-> "unborn"]
    /\ inbox = [p \in Hosts |-> <<>>]
    /\ output = [p \in Hosts |-> <<>>]
    /\ faults = 0
    /\ backlog = <<>>
    /\ running = NoCall
    /\ reading = 0
    /\ shut = FALSE
    /\ step = [c \in HostThreads |-> "idle"]
    /\ future = [c \in HostThreads |-> "none"]
    /\ held = [c \in HostThreads |-> 0]
    /\ dropped = FALSE
    /\ raced = FALSE

\* A killed process is seen by poll() for a moment.
Polls(p) == p # 0 /\ mode[p] \notin {"unborn", "ended"}

\* One thread is between the check and the spawn of start() while another starts a process
\* too, has yet to forget the one it killed, or is stopping the host; or it is stop() itself
\* that starts one, for the hook on_shutdown of a host that has just ended.
Overlap(at) ==
    \/ at[Stopper] = "spawn"
    \/ \E c, d \in HostThreads :
          /\ c # d
          /\ at[c] = "spawn"
          /\ \/ at[d] \in {"spawn", "forget"}
             \/ d = Stopper /\ at[d] \notin {"idle", "drop", "done"}

Goto(c, s) ==
    /\ step' = [step EXCEPT ![c] = s]
    /\ raced' = (raced \/ Overlap(step'))

\* How the call of a thread goes on when it has its result, or its exception: _call_host
\* logs it, stop() ignores it.
AfterCall(c) == IF c = Stopper THEN "terminate" ELSE "done"

-----------------------------------------------------------------------------
(* A call *)

BeginCall(c) ==
    /\ step[c] = "idle"
    /\ ~dropped
    /\ Goto(c, "check")
    /\ UNCHANGED <<proc, hostVars, poolVars, future, held, dropped>>

MaySpawnHost_Always == TRUE

MaySpawnHost == ~Polls(proc)

StartCheck(c) ==
    /\ step[c] = "check"
    /\ Goto(c, IF MaySpawnHost THEN "spawn" ELSE "submit")
    /\ UNCHANGED <<proc, hostVars, poolVars, future, held, dropped>>

SpawnHost(c) ==
    /\ step[c] = "spawn"
    /\ \E p \in Hosts :
          /\ mode[p] = "unborn"
          /\ \A q \in Hosts : q < p => mode[q] # "unborn"
          /\ proc' = p
          /\ mode' = [mode EXCEPT ![p] = "serving"]
    /\ Goto(c, "submit")
    /\ UNCHANGED <<inbox, output, faults, poolVars, future, held, dropped>>

Submit(c) ==
    /\ step[c] = "submit"
    /\ IF shut
       THEN /\ future' = [future EXCEPT ![c] = "failed"]
            /\ Goto(c, AfterCall(c))
            /\ UNCHANGED backlog
       ELSE /\ future' = [future EXCEPT ![c] = "queued"]
            /\ backlog' = Append(backlog, c)
            /\ Goto(c, "waiting")
    /\ UNCHANGED <<proc, hostVars, running, reading, shut, held, dropped>>

HasOutcome(c) == future[c] \in {"failed", "cancelled"} \cup HostThreads

CallReturns(c) ==
    /\ step[c] = "waiting"
    /\ HasOutcome(c)
    /\ future' = [future EXCEPT ![c] = "none"]
    /\ Goto(c, AfterCall(c))
    /\ UNCHANGED <<proc, hostVars, poolVars, held, dropped>>

MayExpire_RunningOnly(c) == future[c] = "running"

MayExpire(c) == future[c] \in {"queued", "running"}

\* future.result(timeout) gives up; the future is not cancelled.
CallExpires(c) ==
    /\ step[c] = "waiting"
    /\ MayExpire(c)
    /\ Goto(c, "kill")
    /\ UNCHANGED <<proc, hostVars, poolVars, future, held, dropped>>

\* The process that is current now is killed, whichever the call ran on.
KillForTimeout(c) ==
    /\ step[c] = "kill"
    /\ mode' = IF Polls(proc) THEN [mode EXCEPT ![proc] = "killed"] ELSE mode
    /\ Goto(c, "forget")
    /\ UNCHANGED <<proc, inbox, output, faults, poolVars, future, held, dropped>>

Forget(c) ==
    /\ step[c] = "forget"
    /\ proc' = 0
    /\ Goto(c, AfterCall(c))
    /\ UNCHANGED <<hostVars, poolVars, future, held, dropped>>

-----------------------------------------------------------------------------
(* The thread of the executor: _raw_call *)

Settle(c, how) ==
    /\ future' = [future EXCEPT ![c] = how]
    /\ running' = NoCall
    /\ reading' = 0

TakeCall ==
    /\ running = NoCall
    /\ backlog # <<>>
    /\ LET c == Head(backlog) IN
          /\ backlog' = Tail(backlog)
          /\ IF Polls(proc)
             THEN /\ future' = [future EXCEPT ![c] = "running"]
                  /\ inbox' = [inbox EXCEPT ![proc] = Append(@, c)]
                  /\ running' = c
                  /\ reading' = proc
             ELSE /\ Settle(c, "failed")
                  /\ UNCHANGED inbox
    /\ UNCHANGED <<proc, mode, output, faults, shut, step, held, dropped, raced>>

Skips_Nothing(line) == FALSE

\* An answer to an earlier call is skipped.
Skips(line) == line \in HostThreads /\ line # running

\* A line that is not JSON raises, and leaves the answer behind it in the pipe.
ReadLine ==
    /\ reading # 0
    /\ output[reading] # <<>>
    /\ LET line == Head(output[reading]) IN
          /\ output' = [output EXCEPT ![reading] = Tail(@)]
          /\ \/ /\ Skips(line)
                /\ UNCHANGED <<running, reading, future>>
             \/ /\ ~Skips(line)
                /\ Settle(running, IF line \in HostThreads THEN line ELSE "failed")
    /\ UNCHANGED <<proc, mode, inbox, faults, backlog, shut, step, held, dropped, raced>>

ReadHostEof ==
    /\ reading # 0
    /\ output[reading] = <<>>
    /\ mode[reading] = "ended"
    /\ Settle(running, "failed")
    /\ UNCHANGED <<proc, hostVars, backlog, shut, step, held, dropped, raced>>

-----------------------------------------------------------------------------
(* The stopping thread *)

StopHost ==
    /\ step[Stopper] = "idle"
    /\ held' = [held EXCEPT ![Stopper] = proc]
    /\ Goto(Stopper, IF proc = 0 THEN "drop" ELSE IF Polls(proc) THEN "check" ELSE "clear")
    /\ UNCHANGED <<proc, hostVars, poolVars, future, dropped>>

\* It waits a second, and kills what is still there.
Terminate ==
    \/ /\ step[Stopper] = "terminate"
       /\ mode' = IF Polls(held[Stopper]) THEN [mode EXCEPT ![held[Stopper]] = "killed"] ELSE mode
       /\ Goto(Stopper, "reap")
       /\ UNCHANGED <<proc, inbox, output, faults, poolVars, future, held, dropped>>
    \/ /\ step[Stopper] = "reap"
       /\ ~Polls(held[Stopper])
       /\ Goto(Stopper, "clear")
       /\ UNCHANGED <<proc, hostVars, poolVars, future, held, dropped>>

Clear ==
    /\ step[Stopper] = "clear"
    /\ proc' = 0
    /\ held' = [held EXCEPT ![Stopper] = 0]
    /\ Goto(Stopper, "shut down")
    /\ UNCHANGED <<hostVars, poolVars, future, dropped>>

ShutExecutor ==
    /\ step[Stopper] = "shut down"
    /\ shut' = TRUE
    /\ backlog' = <<>>
    /\ future' = [c \in HostThreads |-> IF Contains(backlog, c) THEN "cancelled" ELSE future[c]]
    /\ Goto(Stopper, "drop")
    /\ UNCHANGED <<proc, hostVars, running, reading, held, dropped>>

DropHost ==
    /\ step[Stopper] = "drop"
    /\ dropped' = TRUE
    /\ Goto(Stopper, "done")
    /\ UNCHANGED <<proc, hostVars, poolVars, future, held>>

-----------------------------------------------------------------------------
(* The processes *)

\* Without a reference to its Popen object the pipes of a process are closed.
Unreferenced(p) ==
    /\ reading # p
    /\ \A c \in HostThreads : held[c] # p
    /\ \/ p # proc
       \/ dropped /\ running = NoCall /\ \A c \in HostThreads : step[c] \in {"idle", "done"}

Misbehaves ==
    /\ faults < MaxFaults
    /\ faults' = faults + 1

\* Loading the addon comes first; a hook may print, hang, or end the process.
Serve(p) ==
    /\ mode[p] = "serving"
    /\ inbox[p] # <<>>
    /\ inbox' = [inbox EXCEPT ![p] = Tail(@)]
    /\ \/ /\ output' = [output EXCEPT ![p] = Append(@, Head(inbox[p]))]
          /\ UNCHANGED <<mode, faults>>
       \/ /\ Misbehaves
          /\ output' = [output EXCEPT ![p] = @ \o <<"noise", Head(inbox[p])>>]
          /\ UNCHANGED mode
       \/ /\ Misbehaves
          /\ mode' = [mode EXCEPT ![p] = "hung"]
          /\ UNCHANGED output
    /\ UNCHANGED <<proc, poolVars, step, future, held, dropped, raced>>

\* What is left in its pipes is read only by a thread that reads them already.
EndHost(p) ==
    /\ \/ mode[p] = "killed" /\ UNCHANGED faults
       \/ mode[p] = "serving" /\ inbox[p] = <<>> /\ Unreferenced(p) /\ UNCHANGED faults
       \/ mode[p] = "serving" /\ Misbehaves
    /\ mode' = [mode EXCEPT ![p] = "ended"]
    /\ inbox' = [inbox EXCEPT ![p] = <<>>]
    /\ output' = IF reading = p THEN output ELSE [output EXCEPT ![p] = <<>>]
    /\ UNCHANGED <<proc, poolVars, step, future, held, dropped, raced>>

-----------------------------------------------------------------------------
AddonUserStep == StopHost \/ \E c \in Callers : BeginCall(c)

AddonSystemStep ==
    \/ \E c \in HostThreads :
          \/ StartCheck(c) \/ SpawnHost(c) \/ Submit(c) \/ CallReturns(c)
          \/ CallExpires(c) \/ KillForTimeout(c) \/ Forget(c)
    \/ TakeCall \/ ReadLine \/ ReadHostEof
    \/ Terminate \/ Clear \/ ShutExecutor \/ DropHost
    \/ \E p \in Hosts : Serve(p) \/ EndHost(p)

AddonNext == AddonUserStep \/ AddonSystemStep

AddonSpec == AddonInit /\ [][AddonNext]_addonVars

-----------------------------------------------------------------------------
(* Properties *)

\* A call is given its own result, though an earlier one failed on a line the addon printed
\* and left its answer in the pipe (addon_manager.py:184-193).
OwnAnswer == \A c \in HostThreads : future[c] \in HostThreads => future[c] = c

Lost(p) == mode[p] \in {"serving", "hung"} /\ p # proc

\* A process that runs is the one the object refers to, so that a timeout ends it: only where
\* a start overlapped another start, the end of a timeout or a stop may one be lost
\* (addon_manager.py:107-122, 141-156, 195-203).
LostOnlyByARace == (\E p \in Hosts : Lost(p)) => raced

\* The guards of the steps of a calling thread, of the stopping one, of the executor's and of
\* a process.
CallHasStep(c) ==
    \/ step[c] \in {"check", "submit", "kill", "forget"}
    \/ step[c] = "spawn" /\ \E p \in Hosts : mode[p] = "unborn"
    \/ step[c] = "waiting" /\ (HasOutcome(c) \/ MayExpire(c))

StopHasStep ==
    \/ step[Stopper] \in {"terminate", "clear", "shut down", "drop"}
    \/ step[Stopper] = "reap" /\ ~Polls(held[Stopper])

ExecutorHasStep ==
    \/ running = NoCall /\ backlog # <<>>
    \/ reading # 0 /\ (output[reading] # <<>> \/ mode[reading] = "ended")

HostHasStep(p) ==
    \/ mode[p] = "killed"
    \/ mode[p] = "serving" /\ (inbox[p] # <<>> \/ faults < MaxFaults \/ Unreferenced(p))

\* Nobody is left waiting: every call and every stop has come to its end or some step is
\* possible, though a process that was lost may hang and keep the executor's only
\* thread for ever (addon_manager.py:165-173).  Every thread takes finitely many steps.
CallsEnd ==
    \/ \A c \in HostThreads : step[c] \in {"idle", "done"}
    \/ \E c \in HostThreads : CallHasStep(c)
    \/ StopHasStep
    \/ ExecutorHasStep
    \/ \E p \in Hosts : HostHasStep(p)

=============================================================================
