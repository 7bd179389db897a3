----------------------------- MODULE AgentRound -----------------------------
(***************************************************************************)
(* The parallel work round of an agent run, core/agent/runner.py:          *)
(* implementers that change files at the same time, each change behind a   *)
(* lease on its file, one lock for all changes and, where the task asks    *)
(* for it, the approval of the user; and how a cancel reaches them through *)
(* the host of the brain, the stream's context and the watcher of the run. *)
(*                                                                         *)
(* The text of a file is named by who wrote it last.  Outside stands for   *)
(* every other program and for the commands an agent runs.                 *)
(***************************************************************************)
EXTENDS Integers, FiniteSets

CONSTANTS
    Workers,      \* agents that are implementers, at least two
    Files,        \* paths in the scope of the task
    Concurrency,  \* how many workers run at a time
    MaxCalls,     \* bound: tool calls in the answer of a model
    MaxEdits,     \* bound: changes from outside during the round
    Outside,      \* who makes them
    Nobody        \* no worker

ASSUME RoundAssumption ==
    /\ IsFiniteSet(Workers)
    /\ Concurrency \in Nat \ {0}
    /\ MaxCalls \in Nat
    /\ MaxEdits \in Nat
    /\ Outside \notin Workers
    /\ Nobody \notin Workers
    /\ {"absent", "original"} \cap (Workers \cup {Outside}) = {}

Ops == {"create", "write", "patch", "delete"}
Texts == {"absent", "original", Outside} \cup Workers

VARIABLES
    stream,     \* the request in the table of active streams of the host
    streamCancelled, \* ctx.cancelled
    cancelled,  \* the cancel flag of AgentRunControl
    cancelAck,  \* what brain.cancel answered
    run,        \* where the thread of the run is
    joined,     \* workers whose future it has looked at
    at,         \* where each worker is
    nth,        \* the number of its current call
    call,       \* its tool and file, and the text it showed for approval
    lease,      \* _holders of the FileLeaseRegistry
    writer,     \* holder of _write_lock
    content,    \* the files
    asks,       \* whether the task asks for approval
    answer,     \* state["approved"] of its request, once the event is set
    look,       \* the request brain.agent.approval.respond has found, and the answer
    granted,    \* requests the user approved
    changed,    \* who changed each file in this round
    late,       \* changes of each worker after the run was cancelled
    edits,      \* changes from outside
    slipped     \* workers whose file was changed after their last check

streamVars == <<stream, streamCancelled, cancelled, cancelAck>>
runVars == <<run, joined>>
callVars == <<nth, call>>
fileVars == <<content, changed, late, edits, slipped>>
askVars == <<answer, look, granted>>
roundVars == <<streamVars, runVars, at, callVars, lease, writer, asks, fileVars, askVars>>

Call == [op : Ops, file : Files, before : Texts]
NoTask == [op |-> "none"]

Request == Workers \X (0 .. MaxCalls)
NoLook == [request |-> <<Nobody, 0>>, approved |-> FALSE]

RunTypeOK ==
    /\ stream \in {"received", "active", "gone"}
    /\ streamCancelled \in BOOLEAN
    /\ cancelled \in BOOLEAN
    /\ cancelAck \in {"none", "true", "false"}
    /\ run \in {"received", "round", "leaving", "cancelled", "finished"}
    /\ joined \subseteq Workers

WorkerTypeOK ==
    /\ at \in [Workers -> {"queued", "calls", "lease", "lock", "preview", "asking", "recheck",
                           "apply", "ended", "raised"}]
    /\ nth \in [Workers -> 0 .. MaxCalls]
    /\ call \in [Workers -> Call \cup {NoTask}]
    /\ late \in [Workers -> 0 .. MaxCalls]
    /\ slipped \subseteq Workers

FileTypeOK ==
    /\ lease \in [Files -> Workers \cup {Nobody}]
    /\ writer \in Workers \cup {Nobody}
    /\ content \in [Files -> Texts]
    /\ changed \in [Files -> SUBSET Workers]
    /\ edits \in 0 .. MaxEdits

AskTypeOK ==
    /\ asks \in BOOLEAN
    /\ answer \in [Workers -> {"none", "approved", "declined"}]
    /\ look \in [request : Request, approved : BOOLEAN] \cup {NoLook}
    /\ granted \subseteq Request

RoundTypeOK == RunTypeOK /\ WorkerTypeOK /\ FileTypeOK /\ AskTypeOK

RoundInit ==
    /\ stream = "received"
    /\ streamCancelled = FALSE
    /\ cancelled = FALSE
    /\ cancelAck = "none"
    /\ run = "received"
    /\ joined = {}
    /\ at = [w \in Workers |-> "queued"]
    /\ nth = [w \in Workers |-> 0]
    /\ call = [w \in Workers |-> NoTask]
    /\ lease = [f \in Files |-> Nobody]
    /\ writer = Nobody
    /\ content \in [Files -> {"absent", "original"}]
    /\ asks \in BOOLEAN
    /\ answer = [w \in Workers |-> "none"]
    /\ look = NoLook
    /\ granted = {}
    /\ changed = [f \in Files |-> {}]
    /\ late = [w \in Workers |-> 0]
    /\ edits = 0
    /\ slipped = {}

-----------------------------------------------------------------------------
(* The host of the brain, and the cancel *)

\* dispatch, on its own thread.
RegisterStream ==
    /\ stream = "received"
    /\ stream' = "active"
    /\ UNCHANGED <<streamCancelled, cancelled, cancelAck, runVars, at, callVars, lease, writer,
                   asks, fileVars, askVars>>

\* brain.cancel, on the reader thread: before the request is registered it finds nothing.
BrainCancel ==
    /\ cancelAck # "true"
    /\ run \notin {"cancelled", "finished"}
    /\ IF stream = "active"
       THEN cancelAck' = "true" /\ streamCancelled' = TRUE
       ELSE cancelAck' = "false" /\ UNCHANGED streamCancelled
    /\ UNCHANGED <<stream, cancelled, runVars, at, callVars, lease, writer, asks,
                   fileVars, askVars>>

\* _watch_cancel, every tenth of a second until the run is over.
WatchCancel ==
    /\ run \in {"round", "leaving"}
    /\ ~cancelled
    /\ streamCancelled
    /\ cancelled' = TRUE
    /\ UNCHANGED <<stream, streamCancelled, cancelAck, runVars, at, callVars, lease, writer,
                   asks, fileVars, askVars>>

-----------------------------------------------------------------------------
(* The thread of the run *)

StartRound ==
    /\ stream = "active"
    /\ run = "received"
    /\ run' = "round"
    /\ UNCHANGED <<streamVars, joined, at, callVars, lease, writer, asks, fileVars, askVars>>

Ended(w) == at[w] \in {"ended", "raised"}

\* as_completed: the loop, and the exception of a worker, leave the executor, which waits for
\* every worker, those that have not begun included.
JoinWorker(w) ==
    /\ run = "round"
    /\ w \notin joined
    /\ Ended(w)
    /\ IF cancelled \/ at[w] = "raised"
       THEN run' = "leaving" /\ UNCHANGED joined
       ELSE joined' = joined \cup {w} /\ UNCHANGED run
    /\ UNCHANGED <<streamVars, at, callVars, lease, writer, asks, fileVars, askVars>>

EndRound ==
    /\ \A w \in Workers : Ended(w)
    /\ \/ run = "leaving" /\ run' = "cancelled" /\ UNCHANGED lease
       \/ /\ run = "round" /\ joined = Workers
          /\ run' = "finished"
          /\ lease' = [f \in Files |-> Nobody]
    /\ stream' = "gone"
    /\ UNCHANGED <<streamCancelled, cancelled, cancelAck, joined, at, callVars, writer,
                   asks, fileVars, askVars>>

-----------------------------------------------------------------------------
(* A worker *)

Running == {w \in Workers : at[w] \notin {"queued", "ended", "raised"}}

\* The executor has a thread to spare.
MayStart == run \in {"round", "leaving"} /\ Cardinality(Running) < Concurrency

StartWorker(w) ==
    /\ at[w] = "queued"
    /\ MayStart
    /\ at' = [at EXCEPT ![w] = IF cancelled THEN "raised" ELSE "calls"]
    /\ UNCHANGED <<streamVars, runVars, callVars, lease, writer, asks, fileVars, askVars>>

MayCall_Unchecked == TRUE

MayCall == ~cancelled

\* The next tool call of the answer; raise_if_cancelled comes first.
NextCall(w) ==
    /\ at[w] = "calls"
    /\ nth[w] < MaxCalls
    /\ IF MayCall
       THEN \E o \in Ops, f \in Files :
               /\ call' = [call EXCEPT ![w] = [op |-> o, file |-> f, before |-> "absent"]]
               /\ nth' = [nth EXCEPT ![w] = @ + 1]
               /\ at' = [at EXCEPT ![w] = "lease"]
       ELSE /\ at' = [at EXCEPT ![w] = "raised"]
            /\ UNCHANGED callVars
    /\ UNCHANGED <<streamVars, runVars, lease, writer, asks, fileVars, askVars>>

\* The answer has no more calls, was not understood, or there was none.
EndTurn(w) ==
    /\ at[w] = "calls"
    /\ at' = [at EXCEPT ![w] = "ended"]
    /\ UNCHANGED <<streamVars, runVars, callVars, lease, writer, asks, fileVars, askVars>>

\* Honoured only while its holder writes.
Acquires_WhileIdle(w, f) == lease[f] \in {Nobody, w} \/ writer # lease[f]

Acquires(w, f) == lease[f] \in {Nobody, w}

AcquireLease(w) ==
    /\ at[w] = "lease"
    /\ IF Acquires(w, call[w].file)
       THEN /\ lease' = [lease EXCEPT ![call[w].file] = w]
            /\ at' = [at EXCEPT ![w] = "lock"]
            /\ UNCHANGED call
       ELSE /\ at' = [at EXCEPT ![w] = "calls"]
            /\ call' = [call EXCEPT ![w] = NoTask]
            /\ UNCHANGED lease
    /\ UNCHANGED <<streamVars, runVars, nth, writer, asks, fileVars, askVars>>

TakeLock(w) ==
    /\ at[w] = "lock"
    /\ writer = Nobody
    /\ writer' = w
    /\ at' = [at EXCEPT ![w] = "preview"]
    /\ UNCHANGED <<streamVars, runVars, callVars, lease, asks, fileVars, askVars>>

Checked(w) == call[w].op \in {"write", "patch"}
AfterApproval(w) == IF Checked(w) THEN "recheck" ELSE "apply"

\* The call ends: its lock is released, its lease is kept.
Return(w) ==
    /\ at' = [at EXCEPT ![w] = "calls"]
    /\ call' = [call EXCEPT ![w] = NoTask]
    /\ answer' = [answer EXCEPT ![w] = "none"]
    /\ slipped' = slipped \ {w}
    /\ writer' = Nobody

Goes(w, place) ==
    /\ at' = [at EXCEPT ![w] = place]
    /\ UNCHANGED <<answer, slipped, writer>>

\* The text is read for the preview; a patch needs a text to match.
Preview(w) ==
    /\ at[w] = "preview"
    /\ \/ /\ call[w].op = "patch"
          /\ Return(w)
       \/ /\ call[w].op = "patch" => content[call[w].file] # "absent"
          /\ call' = [call EXCEPT ![w] = [op |-> @.op, file |-> @.file, before |-> content[@.file]]]
          /\ Goes(w, IF asks THEN "asking" ELSE AfterApproval(w))
    /\ UNCHANGED <<streamVars, runVars, nth, lease, asks, content, changed, late, edits,
                   look, granted>>

GivesUp_Never == FALSE

GivesUp == streamCancelled

Refused(w) == answer[w] = "declined" \/ (answer[w] = "none" /\ GivesUp)

\* The request waits for its event, and looks at the stream every tenth of a second.
Decided(w) ==
    /\ at[w] = "asking"
    /\ \/ /\ answer[w] = "approved"
          /\ Goes(w, AfterApproval(w))
          /\ UNCHANGED call
       \/ /\ Refused(w)
          /\ Return(w)
    /\ UNCHANGED <<streamVars, runVars, nth, lease, asks, content, changed, late, edits,
                   look, granted>>

SameText_Any(w) == TRUE

SameText(w) == content[call[w].file] = call[w].before

Recheck(w) ==
    /\ at[w] = "recheck"
    /\ IF SameText(w)
       THEN Goes(w, "apply") /\ UNCHANGED call
       ELSE Return(w)
    /\ UNCHANGED <<streamVars, runVars, nth, lease, asks, content, changed, late, edits,
                   look, granted>>

\* What the workspace refuses: to create what is there, to patch or delete what is not.
Possible(w) ==
    \/ call[w].op = "write"
    \/ call[w].op = "create" /\ content[call[w].file] = "absent"
    \/ call[w].op \in {"patch", "delete"} /\ content[call[w].file] # "absent"

Apply(w) ==
    /\ at[w] = "apply"
    /\ Return(w)
    /\ IF Possible(w)
       THEN LET f == call[w].file IN
            /\ content' = [content EXCEPT ![f] = IF call[w].op = "delete" THEN "absent" ELSE w]
            /\ changed' = [changed EXCEPT ![f] = @ \cup {w}]
            /\ late' = IF cancelled THEN [late EXCEPT ![w] = @ + 1] ELSE late
       ELSE UNCHANGED <<content, changed, late>>
    /\ UNCHANGED <<streamVars, runVars, nth, lease, asks, edits, look, granted>>

-----------------------------------------------------------------------------
(* The user, and other programs *)

\* brain.agent.approval.respond finds the request that is pending now ...
FindRequest(w) ==
    /\ look = NoLook
    /\ at[w] = "asking"
    /\ answer[w] = "none"
    /\ \E a \in BOOLEAN : look' = [request |-> <<w, nth[w]>>, approved |-> a]
    /\ UNCHANGED <<streamVars, runVars, at, callVars, lease, writer, asks, fileVars,
                   answer, granted>>

SameRequest_Worker(w) == at[w] = "asking"

SameRequest(w) == at[w] = "asking" /\ look.request = <<w, nth[w]>>

\* ... and sets the answer of the request it found, which may have ended meanwhile.
SetAnswer(w) ==
    /\ look.request[1] = w
    /\ answer' = IF SameRequest(w)
                 THEN [answer EXCEPT ![w] = IF look.approved THEN "approved" ELSE "declined"]
                 ELSE answer
    /\ granted' = IF look.approved THEN granted \cup {look.request} ELSE granted
    /\ look' = NoLook
    /\ UNCHANGED <<streamVars, runVars, at, callVars, lease, writer, asks, fileVars>>

EditOutside(f) ==
    /\ run = "round"
    /\ edits < MaxEdits
    /\ edits' = edits + 1
    /\ content' \in {[content EXCEPT ![f] = t] : t \in {"absent", Outside} \ {content[f]}}
    /\ slipped' = slipped \cup {w \in Workers : at[w] = "apply" /\ call[w].file = f}
    /\ UNCHANGED <<streamVars, runVars, at, callVars, lease, writer, asks, changed, late,
                   askVars>>

-----------------------------------------------------------------------------
WorkerAction(w) ==
    \/ StartWorker(w) \/ NextCall(w) \/ EndTurn(w) \/ AcquireLease(w) \/ TakeLock(w)
    \/ Preview(w) \/ Decided(w) \/ Recheck(w) \/ Apply(w)

RoundSystemStep ==
    \/ RegisterStream \/ WatchCancel \/ StartRound \/ EndRound
    \/ \E w \in Workers : JoinWorker(w) \/ WorkerAction(w) \/ SetAnswer(w)

RoundUserStep ==
    \/ BrainCancel
    \/ \E w \in Workers : FindRequest(w)
    \/ \E f \in Files : EditOutside(f)

RoundNext == RoundSystemStep \/ RoundUserStep

RoundSpec == RoundInit /\ [][RoundNext]_roundVars

-----------------------------------------------------------------------------
(* Properties *)

\* In one round a file is changed by one agent at most, whatever the agents ask for and in
\* whatever order (runtime.py:148-235: "parallel writers can only ever touch disjoint files").
OneWriterPerFile == \A f \in Files : \A w, x \in changed[f] : w = x

\* An agent about to write over or to patch a file replaces the text whose difference was
\* shown: only a change in the instant between the second read and the write escapes
\* (toolbox.py:88-108, 116-136).
ShownIsReplaced ==
    \A w \in Workers :
        at[w] = "apply" /\ Checked(w) => content[call[w].file] = call[w].before \/ w \in slipped

\* Where the task asks, nothing is changed that the user did not approve as this very
\* request, though an answer may come when its request was given up and another of the same
\* agent is pending (handlers.py:2202-2228, 2260-2276).
NothingUnapproved ==
    asks => \A w \in Workers : at[w] \in {"recheck", "apply"} => <<w, nth[w]>> \in granted

\* Once the run is cancelled an agent makes at most the one change it is about to make
\* (runner.py:1437, handlers.py:2539-2545).
CancelledChangesLittle == \A w \in Workers : late[w] <= 1

\* The guards of the steps of the run's thread and of a worker.
RunHasStep ==
    \/ stream = "received"
    \/ stream = "active" /\ run = "received"
    \/ run = "round" /\ \E w \in Workers \ joined : Ended(w)
    \/ (run = "leaving" \/ (run = "round" /\ joined = Workers)) /\ \A w \in Workers : Ended(w)

WorkerHasStep(w) ==
    \/ at[w] = "queued" /\ MayStart
    \/ at[w] \in {"calls", "lease", "preview", "recheck", "apply"}
    \/ at[w] = "lock" /\ writer = Nobody
    \/ at[w] = "asking" /\ (answer[w] = "approved" \/ Refused(w))

\* When no step is possible any more the run is over, or the user still owes an answer and
\* has not cancelled: a cancel ends the wait for an approval and, through the lock behind it,
\* every other wait (runner.py:2517-2519, handlers.py:2219-2222).
RunEnds ==
    \/ run \in {"finished", "cancelled"}
    \/ ~streamCancelled /\ \E w \in Workers : at[w] = "asking" /\ answer[w] = "none"
    \/ RunHasStep
    \/ \E w \in Workers : WorkerHasStep(w)

=============================================================================
