--------------------------- MODULE Agents_proofs ---------------------------
(***************************************************************************)
(* What holds of agent runs.  In a parallel work round, for any number of  *)
(* agents, files, calls and changes from outside: the types, that a file   *)
(* is changed by one agent only, that nothing is changed without the       *)
(* approval of that very request, that what was shown is what is replaced, *)
(* that a cancelled agent makes one change at most, and that the round     *)
(* never stops short of its end unless the user owes an answer.  Of the    *)
(* turns of a run, for every team and every limit: the types, that no      *)
(* agent keeps the floor, and that the report of a coordinator is accepted *)
(* only when nobody is waited for.                                         *)
(***************************************************************************)
EXTENDS AgentRound, AgentTurns, FiniteSetTheorems, TLAPS

-----------------------------------------------------------------------------
(* The parallel round *)

InCall(w) == at[w] \in {"lease", "lock", "preview", "asking", "recheck", "apply"}
Locked(w) == at[w] \in {"preview", "asking", "recheck", "apply"}
Leased(w) == at[w] = "lock" \/ Locked(w)

\* A worker in a call has one.
CallInv == \A w \in Workers : InCall(w) => call[w] \in Call /\ nth[w] >= 1

\* A call begins only before the cancel, so that a worker in a call has changed nothing since.
LateInv ==
    \A w \in Workers :
        /\ late[w] \in {0, 1}
        /\ late[w] = 1 => nth[w] >= 1
        /\ ~cancelled \/ InCall(w) => late[w] = 0

RoundTyped == RoundTypeOK /\ CallInv /\ LateInv

\* What the steps of the host, of the run's thread and of the user leave alone.
Aside == UNCHANGED <<at, callVars, lease, writer, asks, fileVars, answer, granted>>

\* The actions of others than the workers that change nothing of the files.
LEMMA AsideSteps ==
    RegisterStream \/ BrainCancel \/ WatchCancel \/ StartRound
    \/ (\E w \in Workers : JoinWorker(w) \/ FindRequest(w)) => Aside
BY DEF RegisterStream, BrainCancel, WatchCancel, StartRound, JoinWorker, FindRequest, Aside,
       fileVars, callVars, askVars, runVars, streamVars

-----------------------------------------------------------------------------
(* Types *)

LEMMA RoundTypedInit == ASSUME RoundInit PROVE RoundTyped
<1> USE RoundAssumption
<1>1. RunTypeOK BY DEF RoundInit, RunTypeOK
<1>2. WorkerTypeOK BY DEF RoundInit, WorkerTypeOK
<1>3. FileTypeOK BY DEF RoundInit, FileTypeOK, Texts
<1>4. AskTypeOK BY DEF RoundInit, AskTypeOK
<1>5. CallInv BY DEF RoundInit, CallInv, InCall
<1>6. LateInv BY DEF RoundInit, LateInv
<1> QED BY <1>1, <1>2, <1>3, <1>4, <1>5, <1>6 DEF RoundTyped, RoundTypeOK

\* The host, the watcher and the run's thread.
LEMMA RoundTypedRun ==
    ASSUME RoundTyped,
           RegisterStream \/ BrainCancel \/ WatchCancel \/ StartRound \/ EndRound
           \/ \E w \in Workers : JoinWorker(w)
    PROVE RoundTyped'
<1> USE RoundAssumption
<1> USE DEF RoundTyped, RoundTypeOK, RegisterStream, BrainCancel, WatchCancel, StartRound, EndRound,
           JoinWorker, runVars, streamVars, callVars, fileVars, askVars
<1>1. RunTypeOK' BY DEF RunTypeOK
<1>2. WorkerTypeOK' BY DEF WorkerTypeOK
<1>3. FileTypeOK' BY DEF FileTypeOK
<1>4. AskTypeOK' BY DEF AskTypeOK
<1>5. CallInv' BY DEF CallInv, InCall
<1>6. LateInv' BY DEF LateInv, InCall
<1> QED BY <1>1, <1>2, <1>3, <1>4, <1>5, <1>6

\* A worker that begins, calls a tool, or ends.
LEMMA RoundTypedWorker ==
    ASSUME RoundTyped, NEW w \in Workers,
           StartWorker(w) \/ NextCall(w) \/ EndTurn(w) \/ AcquireLease(w) \/ TakeLock(w)
    PROVE RoundTyped'
<1> USE RoundAssumption
<1> USE DEF RoundTyped, RoundTypeOK, StartWorker, NextCall, EndTurn, AcquireLease, TakeLock,
           runVars, streamVars, callVars, fileVars, askVars
<1>1. RunTypeOK' BY DEF RunTypeOK
<1>2. WorkerTypeOK' BY DEF WorkerTypeOK, Call, Texts
<1>3. FileTypeOK' BY DEF FileTypeOK, CallInv, InCall, Call
<1>4. AskTypeOK' BY DEF AskTypeOK
<1>5. CallInv' BY DEF CallInv, InCall, WorkerTypeOK, Call, Texts
<1>6. LateInv' BY DEF LateInv, InCall, WorkerTypeOK, MayCall
<1> QED BY <1>1, <1>2, <1>3, <1>4, <1>5, <1>6

\* A worker with the write lock.
LEMMA RoundTypedLocked ==
    ASSUME RoundTyped, NEW w \in Workers,
           Preview(w) \/ Decided(w) \/ Recheck(w) \/ Apply(w)
    PROVE RoundTyped'
<1> USE RoundAssumption
<1> USE DEF RoundTyped, RoundTypeOK, Preview, Decided, Recheck, Apply, Goes, Return, AfterApproval,
           Checked, runVars, streamVars, callVars, fileVars, askVars
<1>0. call[w] \in Call BY DEF CallInv, InCall
<1>1. RunTypeOK' BY DEF RunTypeOK
<1>2. WorkerTypeOK'
  <2>1. at' \in [Workers -> {"queued", "calls", "lease", "lock", "preview", "asking", "recheck",
                            "apply", "ended", "raised"}]
    BY DEF WorkerTypeOK
  <2>2. nth' = nth BY DEF WorkerTypeOK
  <2>3. call' \in [Workers -> Call \cup {NoTask}] BY <1>0 DEF WorkerTypeOK, FileTypeOK, Call
  <2>4. late[w] + 1 \in 0 .. MaxCalls BY DEF WorkerTypeOK, LateInv, CallInv, InCall
  <2>5. late' \in [Workers -> 0 .. MaxCalls] BY <2>4 DEF WorkerTypeOK
  <2>6. slipped' \subseteq Workers BY DEF WorkerTypeOK
  <2> QED BY <2>1, <2>2, <2>3, <2>5, <2>6 DEF WorkerTypeOK
<1>3. FileTypeOK' BY <1>0 DEF FileTypeOK, Call, Texts
<1>4. AskTypeOK' BY DEF AskTypeOK
<1>5. CallInv' BY <1>0 DEF CallInv, InCall, WorkerTypeOK, FileTypeOK, Call
<1>6. LateInv' BY DEF LateInv, CallInv, InCall, WorkerTypeOK
<1> QED BY <1>1, <1>2, <1>3, <1>4, <1>5, <1>6

\* The user, and other programs.
LEMMA RoundTypedUser ==
    ASSUME RoundTyped,
           (\E w \in Workers : FindRequest(w) \/ SetAnswer(w)) \/ \E f \in Files : EditOutside(f)
    PROVE RoundTyped'
<1> USE RoundAssumption
<1> USE DEF RoundTyped, RoundTypeOK, FindRequest, SetAnswer, EditOutside,
           runVars, streamVars, callVars, fileVars, askVars
<1>1. RunTypeOK' BY DEF RunTypeOK
<1>2. WorkerTypeOK' BY DEF WorkerTypeOK
<1>3. FileTypeOK' BY DEF FileTypeOK, Texts
<1>4. AskTypeOK' BY DEF AskTypeOK, WorkerTypeOK, Request, NoLook
<1>5. CallInv' BY DEF CallInv, InCall
<1>6. LateInv' BY DEF LateInv, InCall
<1> QED BY <1>1, <1>2, <1>3, <1>4, <1>5, <1>6

LEMMA RoundTypedNext == ASSUME RoundTyped, [RoundNext]_roundVars PROVE RoundTyped'
<1>1. CASE RoundNext
  BY <1>1, RoundTypedRun, RoundTypedWorker, RoundTypedLocked, RoundTypedUser
     DEF RoundNext, RoundSystemStep, RoundUserStep, WorkerAction
<1>2. CASE UNCHANGED roundVars
  BY <1>2 DEF roundVars, runVars, streamVars, callVars, fileVars, askVars, RoundTyped, RoundTypeOK,
              RunTypeOK, WorkerTypeOK, FileTypeOK, AskTypeOK, CallInv, LateInv, InCall
<1> QED BY <1>1, <1>2

LEMMA RoundTypedAlways == RoundSpec => []RoundTyped
<1>1. RoundInit => RoundTyped BY RoundTypedInit
<1>2. RoundTyped /\ [RoundNext]_roundVars => RoundTyped' BY RoundTypedNext
<1> QED BY <1>1, <1>2, PTL DEF RoundSpec

\* Every variable of the round keeps its type, for any number of agents, files and calls
\* (runner.py:1347-1500).
THEOREM RoundTypeCorrect == RoundSpec => []RoundTypeOK
<1>1. RoundTyped => RoundTypeOK BY DEF RoundTyped
<1> QED BY <1>1, RoundTypedAlways, PTL

\* An agent changes at most one file after the cancel has reached its run: a call is begun only
\* before, and makes one change (runner.py:1446-1447).
THEOREM LittleAfterCancel == RoundSpec => []CancelledChangesLittle
<1>1. RoundTyped => CancelledChangesLittle BY DEF RoundTyped, LateInv, CancelledChangesLittle
<1> QED BY <1>1, RoundTypedAlways, PTL

-----------------------------------------------------------------------------
(* One writer per file *)

\* A worker past its lease holds the lease of its file; what was changed was changed by the
\* holder of the lease, until the leases are released, when nobody works any more.
LeaseInv ==
    /\ \A w \in Workers : Leased(w) => lease[call[w].file] = w
    /\ run # "finished" => \A f \in Files : changed[f] \subseteq {lease[f]}
    /\ run = "finished" => \A w \in Workers : Ended(w)

WriterInv == LeaseInv /\ OneWriterPerFile

LEMMA WriterInit == ASSUME RoundInit PROVE WriterInv
BY DEF RoundInit, WriterInv, LeaseInv, Leased, Locked, OneWriterPerFile

LEMMA WriterAside ==
    ASSUME RoundTyped, WriterInv, Aside, run' = run \/ (run' \in {"round", "leaving"} /\ run # "finished")
    PROVE WriterInv'
BY DEF Aside, WriterInv, LeaseInv, Leased, Locked, Ended, OneWriterPerFile, callVars, fileVars

LEMMA WriterNext == ASSUME RoundTyped, WriterInv, [RoundNext]_roundVars PROVE WriterInv'
<1> USE DEF WriterInv
<1>1. ASSUME RegisterStream \/ BrainCancel \/ WatchCancel \/ StartRound
             \/ (\E w \in Workers : JoinWorker(w) \/ FindRequest(w))
      PROVE WriterInv'
  <2>1. Aside BY <1>1, AsideSteps
  <2>2. run' = run \/ (run' \in {"round", "leaving"} /\ run # "finished")
    BY <1>1 DEF RegisterStream, BrainCancel, WatchCancel, StartRound, JoinWorker, FindRequest,
               runVars
  <2> QED BY <2>1, <2>2, WriterAside
<1>2. CASE EndRound
  BY <1>2 DEF EndRound, LeaseInv, Leased, Locked, Ended, OneWriterPerFile, callVars, fileVars
<1>3. ASSUME NEW w \in Workers, StartWorker(w) \/ NextCall(w) \/ EndTurn(w) PROVE WriterInv'
  <2>1. UNCHANGED <<lease, changed, run>> /\ run # "finished" /\ ~Leased(w)'
    BY <1>3 DEF StartWorker, NextCall, EndTurn, runVars, fileVars, LeaseInv, Ended, Leased,
                Locked, RoundTyped, RoundTypeOK, WorkerTypeOK
  <2>2. \A x \in Workers \ {w} : at'[x] = at[x] /\ call'[x] = call[x]
    BY <1>3 DEF StartWorker, NextCall, EndTurn, callVars, RoundTyped, RoundTypeOK, WorkerTypeOK
  <2> QED BY <2>1, <2>2 DEF LeaseInv, Leased, Locked, Ended, OneWriterPerFile
<1>4. ASSUME NEW w \in Workers, AcquireLease(w) PROVE WriterInv'
  <2>1. call[w] \in Call /\ run # "finished" /\ UNCHANGED <<run, changed>>
    BY <1>4 DEF AcquireLease, runVars, fileVars, LeaseInv, Ended, CallInv, InCall, RoundTyped
  <2>2. CASE Acquires(w, call[w].file)
    <3> DEFINE f == call[w].file
    <3>1. lease' = [lease EXCEPT ![f] = w] /\ call' = call /\ at' = [at EXCEPT ![w] = "lock"]
      BY <1>4, <2>2 DEF AcquireLease
    <3>2. changed[f] \subseteq {w}
      BY <2>1, <2>2, RoundAssumption
         DEF Acquires, LeaseInv, Call, RoundTyped, RoundTypeOK, FileTypeOK
    <3>3. \A x \in Workers : x # w /\ Leased(x) => call[x].file # f
      BY <2>2, <2>1, RoundAssumption DEF Acquires, LeaseInv, Call
    <3>4. f \in Files BY <2>1 DEF Call
    <3>5. \A x \in Workers : Leased(x)' => lease'[call'[x].file] = x
      BY <3>1, <3>3, <3>4 DEF LeaseInv, Leased, Locked, RoundTyped, RoundTypeOK, WorkerTypeOK, FileTypeOK
    <3>6. \A g \in Files : changed[g] \subseteq {lease'[g]}
      BY <3>1, <3>2, <3>4, <2>1 DEF LeaseInv, RoundTyped, RoundTypeOK, FileTypeOK
    <3> QED BY <3>5, <3>6, <2>1 DEF LeaseInv, OneWriterPerFile
  <2>3. CASE ~Acquires(w, call[w].file)
    BY <1>4, <2>1, <2>3 DEF AcquireLease, LeaseInv, Leased, Locked, OneWriterPerFile, RoundTyped,
                            RoundTypeOK, WorkerTypeOK
  <2> QED BY <2>2, <2>3
<1>5. ASSUME NEW w \in Workers, TakeLock(w) \/ Decided(w) \/ Recheck(w) PROVE WriterInv'
  BY <1>5 DEF TakeLock, Decided, Recheck, Goes, Return, AfterApproval, runVars, callVars, fileVars,
              LeaseInv, Ended, Leased, Locked, OneWriterPerFile, RoundTyped, RoundTypeOK, WorkerTypeOK
<1>6. ASSUME NEW w \in Workers, Preview(w) PROVE WriterInv'
  BY <1>6 DEF Preview, Goes, Return, AfterApproval, runVars, callVars, fileVars,
              LeaseInv, Ended, Leased, Locked, OneWriterPerFile, RoundTyped, RoundTypeOK, WorkerTypeOK
<1>7. ASSUME NEW w \in Workers, Apply(w) PROVE WriterInv'
  BY <1>7 DEF Apply, Return, runVars, callVars, fileVars, LeaseInv, Ended, Leased, Locked,
              OneWriterPerFile, RoundTyped, RoundTypeOK, WorkerTypeOK, FileTypeOK, CallInv, InCall, Call
<1>8. CASE (\E w \in Workers : SetAnswer(w)) \/ \E f \in Files : EditOutside(f)
  BY <1>8 DEF SetAnswer, EditOutside, runVars, callVars, fileVars, LeaseInv, Leased, Locked,
              Ended, OneWriterPerFile
<1>9. CASE UNCHANGED roundVars
  BY <1>9 DEF roundVars, runVars, callVars, fileVars, LeaseInv, Leased, Locked, Ended,
              OneWriterPerFile
<1> QED
  BY <1>1, <1>2, <1>3, <1>4, <1>5, <1>6, <1>7, <1>8, <1>9
     DEF RoundNext, RoundSystemStep, RoundUserStep, WorkerAction

\* However many agents work in parallel, no two of them change the same file in one round
\* (runtime.py:148-235, runner.py:2337-2340).
THEOREM OneWriter == RoundSpec => []OneWriterPerFile
<1>1. RoundInit => WriterInv BY WriterInit
<1>2. RoundTyped /\ WriterInv /\ [RoundNext]_roundVars => WriterInv' BY WriterNext
<1>3. WriterInv => OneWriterPerFile BY DEF WriterInv
<1> QED BY <1>1, <1>2, <1>3, RoundTypedAlways, PTL DEF RoundSpec

-----------------------------------------------------------------------------
(* Approvals *)

\* An approval that a worker has seen, or will see, was given to its current request; past the
\* question it has one where the task asks.
AskInv ==
    \A w \in Workers :
        /\ answer[w] = "approved" => <<w, nth[w]>> \in granted
        /\ at[w] \in {"queued", "calls", "lease"} => answer[w] = "none"
        /\ asks /\ at[w] \in {"recheck", "apply"} => answer[w] = "approved"

LEMMA AskInit == ASSUME RoundInit PROVE AskInv
BY DEF RoundInit, AskInv

LEMMA AskNext == ASSUME RoundTyped, AskInv, [RoundNext]_roundVars PROVE AskInv'
<1> USE DEF RoundTyped, RoundTypeOK, WorkerTypeOK, AskTypeOK
<1>1. ASSUME RegisterStream \/ BrainCancel \/ WatchCancel \/ StartRound
             \/ (\E w \in Workers : JoinWorker(w) \/ FindRequest(w))
      PROVE AskInv'
  BY <1>1, AsideSteps DEF Aside, AskInv, callVars
<1>2. CASE EndRound
  BY <1>2 DEF EndRound, AskInv, callVars, askVars
<1>3. ASSUME NEW w \in Workers,
             StartWorker(w) \/ NextCall(w) \/ EndTurn(w) \/ AcquireLease(w) \/ TakeLock(w)
      PROVE AskInv'
  <2>1. UNCHANGED <<answer, granted, asks>>
    BY <1>3 DEF StartWorker, NextCall, EndTurn, AcquireLease, TakeLock, askVars
  <2>2. \A x \in Workers \ {w} : at'[x] = at[x] /\ nth'[x] = nth[x]
    BY <1>3 DEF StartWorker, NextCall, EndTurn, AcquireLease, TakeLock, callVars
  <2>3. /\ at[w] \in {"queued", "calls", "lease"} \/ (at'[w] = "preview" /\ nth'[w] = nth[w])
        /\ at'[w] \notin {"recheck", "apply"}
    BY <1>3 DEF StartWorker, NextCall, EndTurn, AcquireLease, TakeLock, callVars
  <2> QED BY <2>1, <2>2, <2>3 DEF AskInv
<1>4. ASSUME NEW w \in Workers, Preview(w) \/ Decided(w) \/ Recheck(w) \/ Apply(w)
      PROVE AskInv'
  <2>1. UNCHANGED <<nth, granted, asks>>
    BY <1>4 DEF Preview, Decided, Recheck, Apply
  <2>2. \A x \in Workers \ {w} : at'[x] = at[x] /\ answer'[x] = answer[x]
    BY <1>4 DEF Preview, Decided, Recheck, Apply, Goes, Return
  <2>3. \/ at'[w] = "calls" /\ answer'[w] = "none"
        \/ at'[w] = "asking" /\ answer'[w] = answer[w]
        \/ /\ at'[w] \in {"recheck", "apply"}
           /\ answer'[w] = answer[w]
           /\ ~asks \/ answer[w] = "approved"
    BY <1>4 DEF Preview, Decided, Recheck, Apply, Goes, Return, AfterApproval, AskInv
  <2> QED BY <2>1, <2>2, <2>3 DEF AskInv
<1>5. ASSUME NEW w \in Workers, SetAnswer(w) PROVE AskInv'
  BY <1>5 DEF SetAnswer, SameRequest, AskInv, callVars
<1>6. CASE \E f \in Files : EditOutside(f)
  BY <1>6 DEF EditOutside, AskInv, callVars, askVars
<1>7. CASE UNCHANGED roundVars
  BY <1>7 DEF roundVars, callVars, askVars, AskInv
<1> QED
  BY <1>1, <1>2, <1>3, <1>4, <1>5, <1>6, <1>7
     DEF RoundNext, RoundSystemStep, RoundUserStep, WorkerAction

\* Where the task asks, an agent about to change a file has the approval of this very request,
\* whatever answers to requests that were given up are still on their way
\* (handlers.py:2202-2228, 2260-2276).
THEOREM Approved == RoundSpec => []NothingUnapproved
<1>1. RoundInit => AskInv BY AskInit
<1>2. RoundTyped /\ AskInv /\ [RoundNext]_roundVars => AskInv' BY AskNext
<1>3. AskInv => NothingUnapproved BY DEF AskInv, NothingUnapproved
<1> QED BY <1>1, <1>2, <1>3, RoundTypedAlways, PTL DEF RoundSpec

-----------------------------------------------------------------------------
(* What was shown is what is replaced *)

\* One worker at a time is past the lock; a checked text is still there, but for a change from
\* outside since.
LockInv == \A w \in Workers : Locked(w) => writer = w
ShownInv == LockInv /\ ShownIsReplaced

LEMMA ShownInit == ASSUME RoundInit PROVE ShownInv
BY DEF RoundInit, ShownInv, LockInv, Locked, ShownIsReplaced

LEMMA ShownNext == ASSUME RoundTyped, ShownInv, [RoundNext]_roundVars PROVE ShownInv'
<1> USE DEF RoundTyped, RoundTypeOK, WorkerTypeOK, ShownInv
<1>1. ASSUME RegisterStream \/ BrainCancel \/ WatchCancel \/ StartRound
             \/ (\E w \in Workers : JoinWorker(w) \/ FindRequest(w))
      PROVE ShownInv'
  BY <1>1, AsideSteps DEF Aside, LockInv, Locked, ShownIsReplaced, Checked, callVars, fileVars
<1>2. CASE EndRound \/ \E w \in Workers : SetAnswer(w)
  BY <1>2 DEF EndRound, SetAnswer, LockInv, Locked, ShownIsReplaced, Checked, callVars, fileVars
<1>3. ASSUME NEW w \in Workers,
             StartWorker(w) \/ NextCall(w) \/ EndTurn(w) \/ AcquireLease(w) \/ TakeLock(w)
      PROVE ShownInv'
  <2>1. UNCHANGED <<content, slipped>> /\ at'[w] # "apply"
    BY <1>3 DEF StartWorker, NextCall, EndTurn, AcquireLease, TakeLock, fileVars
  <2>2. \A x \in Workers \ {w} : at'[x] = at[x] /\ call'[x] = call[x]
    BY <1>3 DEF StartWorker, NextCall, EndTurn, AcquireLease, TakeLock, callVars
  <2>3. ShownIsReplaced' BY <2>1, <2>2 DEF ShownIsReplaced, Checked
  <2>4. \/ writer' = writer /\ ~Locked(w)'
        \/ writer' = w /\ writer = Nobody
    BY <1>3 DEF StartWorker, NextCall, EndTurn, AcquireLease, TakeLock, Locked
  <2>5. LockInv' BY <2>2, <2>4, RoundAssumption DEF LockInv, Locked
  <2> QED BY <2>3, <2>5
<1>4. ASSUME NEW w \in Workers, Preview(w) \/ Decided(w) \/ Recheck(w) \/ Apply(w)
      PROVE ShownInv'
  <2>1. writer = w /\ \A x \in Workers \ {w} : ~Locked(x)
    BY <1>4 DEF Preview, Decided, Recheck, Apply, LockInv, Locked
  <2>2. \A x \in Workers \ {w} : ~Locked(x)'
    BY <1>4, <2>1 DEF Preview, Decided, Recheck, Apply, Goes, Return, Locked
  <2>3. \/ at'[w] = "calls"
        \/ writer' = writer
    BY <1>4 DEF Preview, Decided, Recheck, Apply, Goes, Return
  <2>4. LockInv' BY <2>1, <2>2, <2>3 DEF LockInv, Locked
  <2>5. at'[w] = "apply" /\ Checked(w)' => content'[call'[w].file] = call'[w].before
    <3> SUFFICES ASSUME at'[w] = "apply", Checked(w)'
                 PROVE content'[call'[w].file] = call'[w].before
      OBVIOUS
    <3>1. ~Preview(w)
      BY DEF CallInv, InCall, Preview, Goes, Return, AfterApproval, Checked, Call
    <3>2. ~Decided(w)
      BY DEF Decided, Goes, Return, AfterApproval, Checked
    <3>3. ~Apply(w) BY DEF Apply, Return
    <3>4. Recheck(w) BY <1>4, <3>1, <3>2, <3>3
    <3> QED BY <3>4 DEF Recheck, Goes, Return, SameText
  <2> QED BY <2>2, <2>4, <2>5 DEF ShownIsReplaced, Locked
<1>5. ASSUME NEW f \in Files, EditOutside(f) PROVE ShownInv'
  <2>1. /\ UNCHANGED <<at, call, writer>>
        /\ slipped' = slipped \cup {w \in Workers : at[w] = "apply" /\ call[w].file = f}
    BY <1>5 DEF EditOutside, callVars
  <2>2. \A g \in Files \ {f} : content'[g] = content[g]
    BY <1>5 DEF EditOutside, FileTypeOK
  <2>3. \A w \in Workers : at[w] = "apply" => call[w].file \in Files
    BY DEF CallInv, InCall, Call
  <2>4. LockInv' BY <2>1 DEF LockInv, Locked
  <2>5. ShownIsReplaced' BY <2>1, <2>2, <2>3 DEF ShownIsReplaced, Checked
  <2> QED BY <2>4, <2>5
<1>6. CASE UNCHANGED roundVars
  BY <1>6 DEF roundVars, callVars, fileVars, LockInv, Locked, ShownIsReplaced, Checked
<1> QED
  BY <1>1, <1>2, <1>3, <1>4, <1>5, <1>6
     DEF RoundNext, RoundSystemStep, RoundUserStep, WorkerAction

\* An agent that writes over or patches a file replaces the text it has shown, but for a change
\* by another program since its second look (toolbox.py:88-108, 116-140).
THEOREM ShownReplaced == RoundSpec => []ShownIsReplaced
<1>1. RoundInit => ShownInv BY ShownInit
<1>2. RoundTyped /\ ShownInv /\ [RoundNext]_roundVars => ShownInv' BY ShownNext
<1>3. ShownInv => ShownIsReplaced BY DEF ShownInv
<1> QED BY <1>1, <1>2, <1>3, RoundTypedAlways, PTL DEF RoundSpec

-----------------------------------------------------------------------------
(* The round ends *)

\* Who is named as the holder of the lock holds it, and a run that has not begun is started by
\* its stream.
HoldInv ==
    /\ writer # Nobody => Locked(writer)
    /\ run = "received" => stream # "gone"

LEMMA HoldInit == ASSUME RoundInit PROVE HoldInv
BY DEF RoundInit, HoldInv

LEMMA HoldNext == ASSUME RoundTyped, HoldInv, [RoundNext]_roundVars PROVE HoldInv'
<1> USE RoundAssumption DEF RoundTyped, RoundTypeOK, RunTypeOK, WorkerTypeOK, FileTypeOK
<1>1. ASSUME RegisterStream \/ BrainCancel \/ WatchCancel \/ StartRound
             \/ (\E w \in Workers : JoinWorker(w) \/ FindRequest(w))
      PROVE HoldInv'
  <2>1. UNCHANGED <<at, writer>>
    BY <1>1, AsideSteps DEF Aside
  <2>2. run' = "received" => stream' # "gone"
    BY <1>1 DEF RegisterStream, BrainCancel, WatchCancel, StartRound, JoinWorker, FindRequest,
                HoldInv, runVars, streamVars
  <2> QED BY <2>1, <2>2 DEF HoldInv, Locked
<1>2. CASE EndRound
  BY <1>2 DEF EndRound, HoldInv, Locked, Ended
<1>3. ASSUME NEW w \in Workers,
             StartWorker(w) \/ NextCall(w) \/ EndTurn(w) \/ AcquireLease(w)
      PROVE HoldInv'
  <2>1. UNCHANGED <<writer, run, stream>> /\ ~Locked(w)
    BY <1>3 DEF StartWorker, NextCall, EndTurn, AcquireLease, Locked, runVars, streamVars
  <2>2. \A x \in Workers \ {w} : at'[x] = at[x]
    BY <1>3 DEF StartWorker, NextCall, EndTurn, AcquireLease
  <2> QED BY <2>1, <2>2 DEF HoldInv, Locked
<1>4. ASSUME NEW w \in Workers,
             TakeLock(w) \/ Preview(w) \/ Decided(w) \/ Recheck(w) \/ Apply(w)
      PROVE HoldInv'
  <2>1. UNCHANGED <<run, stream>>
    BY <1>4 DEF TakeLock, Preview, Decided, Recheck, Apply, runVars, streamVars
  <2>2. writer' = Nobody \/ (writer' \in {w, writer} /\ Locked(w)')
    BY <1>4 DEF TakeLock, Preview, Decided, Recheck, Apply, Goes, Return, AfterApproval, Locked
  <2>3. \A x \in Workers \ {w} : at'[x] = at[x]
    BY <1>4 DEF TakeLock, Preview, Decided, Recheck, Apply, Goes, Return
  <2> QED BY <2>1, <2>2, <2>3 DEF HoldInv, Locked
<1>5. CASE (\E w \in Workers : SetAnswer(w)) \/ \E f \in Files : EditOutside(f)
  BY <1>5 DEF SetAnswer, EditOutside, runVars, streamVars, HoldInv, Locked
<1>6. CASE UNCHANGED roundVars
  BY <1>6 DEF roundVars, runVars, streamVars, HoldInv, Locked
<1> QED
  BY <1>1, <1>2, <1>3, <1>4, <1>5, <1>6
     DEF RoundNext, RoundSystemStep, RoundUserStep, WorkerAction

\* Where no worker can move and nobody is asked, the lock is free, nobody works, and the
\* executor has a thread for whoever has not begun.
LEMMA RoundMoves == ASSUME RoundTyped, HoldInv PROVE RunEnds
<1> USE RoundAssumption DEF RoundTyped, RoundTypeOK
<1> SUFFICES ASSUME run \notin {"finished", "cancelled"},
                    ~ \E w \in Workers : ~streamCancelled /\ at[w] = "asking" /\ answer[w] = "none",
                    ~RunHasStep,
                    ~ \E w \in Workers : WorkerHasStep(w)
             PROVE  FALSE
  BY DEF RunEnds
<1>1. run \in {"round", "leaving"}
  BY DEF RunTypeOK, RunHasStep, HoldInv
<1>2. \A w \in Workers : at[w] \in {"queued", "lock", "ended", "raised"}
  BY DEF WorkerTypeOK, AskTypeOK, WorkerHasStep, Refused, GivesUp
<1>3. writer = Nobody
  BY <1>2 DEF HoldInv, Locked, FileTypeOK
<1>4. \A w \in Workers : at[w] \in {"queued", "ended", "raised"}
  BY <1>2, <1>3 DEF WorkerHasStep
<1>5. Running = {}
  BY <1>4 DEF Running
<1>6. MayStart
  BY <1>1, <1>5, FS_EmptySet DEF MayStart
<1>7. \A w \in Workers : Ended(w)
  BY <1>4, <1>6 DEF WorkerHasStep, Ended
<1>8. run = "round" /\ joined # Workers
  BY <1>1, <1>7 DEF RunHasStep
<1>9. PICK w \in Workers \ joined : TRUE
  BY <1>8 DEF RunTypeOK
<1> QED BY <1>7, <1>8, <1>9 DEF RunHasStep

\* The round never stops short of its end but for an approval the user has yet to give and has
\* not cancelled, however many agents wait for the lock, for the executor or for each other
\* (runner.py:2517-2519, handlers.py:2219-2222).
THEOREM RunEndsHolds == RoundSpec => []RunEnds
<1>1. RoundInit => HoldInv BY HoldInit
<1>2. RoundTyped /\ HoldInv /\ [RoundNext]_roundVars => HoldInv' BY HoldNext
<1>3. RoundTyped /\ HoldInv => RunEnds BY RoundMoves
<1> QED BY <1>1, <1>2, <1>3, RoundTypedAlways, PTL DEF RoundSpec

-----------------------------------------------------------------------------
(* The turns of a run *)

Waits == phase \in {"top", "waiting"}
Talks == phase \in {"model", "held"}

\* The turns that were taken bound what is counted of them.
CountInv ==
    /\ phase # "over" => turn < MaxTurns
    /\ holds <= turn
    /\ Waits => count <= turn
    /\ count <= turn + 1
    /\ Talks => current = previous

TurnsTyped == TurnsTypeOK /\ CountInv

-----------------------------------------------------------------------------
(* Who is who *)

LEMMA TeamFacts ==
    ASSUME TurnsTypeOK
    PROVE /\ team \in Seq(Agent) /\ team # <<>>
          /\ Len(team) \in Nat /\ Len(team) >= 1
          /\ Agents = 1 .. Len(team)
          /\ \A i \in Agents : team[i].calledReviewer => team[i].role = "reviewer"
<1>1. team \in Seq(Agent) /\ team # <<>>
  BY TurnsAssumption DEF TurnsTypeOK
<1>2. \A i \in Agents : team[i].calledReviewer => team[i].role = "reviewer"
  BY NamesAssumption DEF TurnsTypeOK, Agents
<1> QED BY <1>1, <1>2 DEF Agents

\* An agent of the role, or 0 where there is none.
LEMMA TheOneFacts ==
    ASSUME TurnsTypeOK, NEW role
    PROVE \/ TheOne(role) \in Agents /\ team[TheOne(role)].role = role
          \/ TheOne(role) = 0 /\ \A a \in Agents : team[a].role # role
BY DEF TheOne

LEMMA RoundRobinFacts ==
    ASSUME TurnsTypeOK, NEW a \in Agents
    PROVE RoundRobin(a) \in Agents /\ (Len(team) > 1 => RoundRobin(a) # a)
<1>1. Len(team) \in Nat \ {0} /\ a \in 1 .. Len(team) /\ Agents = 1 .. Len(team)
  BY TeamFacts
<1>2. CASE a = Len(team) BY <1>1, <1>2 DEF RoundRobin
<1>3. CASE a < Len(team)
  <2>1. a % Len(team) = a BY <1>1, <1>3
  <2> QED BY <1>1, <1>3, <2>1 DEF RoundRobin
<1> QED BY <1>1, <1>2, <1>3

LEMMA ElsewhereFacts ==
    ASSUME TurnsTypeOK, NEW a \in Agents
    PROVE Elsewhere(a) \in Agents /\ (Len(team) > 1 => Elsewhere(a) # a)
BY TheOneFacts, RoundRobinFacts DEF Elsewhere

LEMMA AuthorityFacts ==
    ASSUME TurnsTypeOK, NEW a \in Agents
    PROVE Authority(a) # 0 => Authority(a) \in Agents /\ Authority(a) # a
BY TheOneFacts DEF Authority

LEMMA PendingFacts ==
    ASSUME TurnsTypeOK, NEW a \in Agents
    PROVE PendingReview(a) # 0 => PendingReview(a) \in Agents /\ PendingReview(a) # a
BY TheOneFacts DEF PendingReview

\* The first implementer of the team, of which the agent that hands over is none.
LEMMA DeferredFacts ==
    ASSUME TurnsTypeOK, NEW a \in Agents
    PROVE Deferred(a) # 0 => Deferred(a) \in Agents /\ Deferred(a) # a
<1> SUFFICES ASSUME Deferred(a) # 0 PROVE Deferred(a) \in Agents /\ Deferred(a) # a
  OBVIOUS
<1>1. team[a].role = "coordinator" /\ Len(team) > 1
  BY TeamFacts DEF Deferred
<1>2. CASE \E b \in Agents : FirstImplementer(b)
  BY <1>1, <1>2 DEF Deferred, FirstImplementer
<1>3. CASE ~ \E b \in Agents : FirstImplementer(b)
  BY <1>1, <1>3, RoundRobinFacts DEF Deferred
<1> QED BY <1>2, <1>3

\* The next agent is one of the team, and another one once this one has had its four turns.
LEMMA SelectFacts ==
    ASSUME TurnsTypeOK, NEW a \in Agents, NEW wish, NEW status, NEW result
    PROVE /\ SelectNext(a, wish, status, result) \in Agents
          /\ HasHadEnough(a) /\ Len(team) > 1 => SelectNext(a, wish, status, result) # a
<1> DEFINE asked == IF wish \in Agents THEN wish ELSE ByStatus(a, status)
           selected == IF asked # 0 THEN asked
                       ELSE IF result \in {"same failure", "failure", "wrote"} THEN a
                       ELSE RoundRobin(a)
<1>1. AnImplementer \in Agents \cup {0} BY DEF AnImplementer
<1>2. TheOne("coordinator") \in Agents \cup {0} /\ TheOne("reviewer") \in Agents \cup {0}
  BY TheOneFacts
<1>3. ByStatus(a, status) \in Agents \cup {0} BY <1>1, <1>2 DEF ByStatus, FirstOf
<1>4. selected \in Agents BY <1>3, RoundRobinFacts
<1>5. SelectNext(a, wish, status, result)
        = IF selected = a /\ HasHadEnough(a) THEN Elsewhere(a) ELSE selected
  BY DEF SelectNext
<1> HIDE DEF selected
<1> QED BY <1>4, <1>5, ElsewhereFacts

-----------------------------------------------------------------------------
(* Types *)

LEMMA TurnsTypedInit == ASSUME TurnsInit PROVE TurnsTyped
<1>1. team \in Seq(Agent) /\ team # <<>> BY TurnsAssumption DEF TurnsInit
<1>2. 1 \in Agents BY <1>1 DEF Agents
<1>3. streak \in [Agents -> 0 .. 2] BY DEF TurnsInit
<1>4. TurnsTypeOK
  <2>1. /\ team \in Teams /\ phase = "top" /\ review = "none" /\ outcome = "none"
        /\ turn = 0 /\ current = 1 /\ previous = 1 /\ count = 0 /\ holds = 0
        /\ owed = FALSE /\ paused = FALSE /\ nudge = FALSE /\ missed = FALSE /\ stop = FALSE
    BY DEF TurnsInit
  <2>2. 0 \in 0 .. MaxTurns BY TurnsAssumption
  <2> QED BY <1>2, <1>3, <2>1, <2>2 DEF TurnsTypeOK
<1>5. CountInv BY TurnsAssumption DEF TurnsInit, CountInv, Waits, Talks
<1> QED BY <1>4, <1>5 DEF TurnsTyped

\* The turn that comes next, or the end of the run at its limit.
LEMMA TurnFacts ==
    ASSUME TurnsTyped, NEW b \in Agents, TurnOf(b), phase # "over"
    PROVE /\ current' = b /\ turn' = turn + 1
          /\ turn' \in 0 .. MaxTurns
          /\ \/ phase' = "top" /\ outcome' = outcome /\ turn' < MaxTurns
             \/ phase' = "over" /\ outcome' = "limit"
BY TurnsAssumption DEF TurnsTyped, TurnsTypeOK, CountInv, TurnOf, End

LEMMA TurnsTypedWait ==
    ASSUME TurnsTyped, TopOfLoop \/ Resumed
    PROVE TurnsTyped'
<1> USE TurnsAssumption
<1>1. /\ UNCHANGED <<team, turn, current, streak, review, owed>>
      /\ Waits
  BY DEF TopOfLoop, Resumed, Waits
<1>2. CASE stop
  <2> USE <1>1, <1>2 DEF TurnsTyped, TopOfLoop, Resumed, End, userVars
  <2>1. TurnsTypeOK' BY DEF TurnsTypeOK, Agents
  <2>2. CountInv' BY DEF TurnsTypeOK, CountInv, Waits, Talks
  <2> QED BY <2>1, <2>2
<1>3. CASE ~stop
  <2>1. outcome' = outcome /\ nudge' = FALSE /\ paused' = paused /\ stop' = stop
    BY <1>3 DEF TopOfLoop, Resumed, Drain
  <2>2. \/ phase' = "waiting" /\ UNCHANGED <<previous, count, holds, missed>>
        \/ BeginTurn
    BY <1>3 DEF TopOfLoop, Resumed
  <2>3. CASE phase' = "waiting" /\ UNCHANGED <<previous, count, holds, missed>>
    <3>1. TurnsTypeOK' BY <1>1, <2>1, <2>3 DEF TurnsTyped, TurnsTypeOK, Agents
    <3>2. CountInv' BY <1>1, <2>3 DEF TurnsTyped, TurnsTypeOK, CountInv, Waits, Talks
    <3> QED BY <3>1, <3>2 DEF TurnsTyped
  <2>4. CASE BeginTurn
    <3>1. /\ count' \in 0 .. MaxTurns /\ count' <= turn + 1
          /\ holds' \in 0 .. MaxTurns /\ holds' <= turn
      BY <1>1, <2>4 DEF BeginTurn, TurnsTyped, TurnsTypeOK, CountInv, Waits
    <3>2. phase' = "model" /\ previous' = current /\ missed' = FALSE BY <2>4 DEF BeginTurn
    <3>3. TurnsTypeOK' BY <1>1, <2>1, <3>1, <3>2 DEF TurnsTyped, TurnsTypeOK, Agents
    <3>4. CountInv' BY <1>1, <3>1, <3>2 DEF TurnsTyped, TurnsTypeOK, CountInv, Waits, Talks
    <3> QED BY <3>3, <3>4 DEF TurnsTyped
  <2> QED BY <2>2, <2>3, <2>4
<1> QED BY <1>2, <1>3

\* The steps that end the run, or hold its report, change little else.
LEMMA TurnsTypedEnd ==
    ASSUME TurnsTyped, ModelFails \/ GiveFinal \/ CallsCancelled
    PROVE TurnsTyped'
<1> USE DEF TurnsTyped, ModelFails, GiveFinal, CallsCancelled, End, userVars
<1>1. TurnsTypeOK' BY DEF TurnsTypeOK, Agents
<1>2. CountInv' BY DEF CountInv, TurnsTypeOK, Waits, Talks
<1> QED BY <1>1, <1>2

\* The steps to the next turn.
LEMMA TurnsTypedTurn ==
    ASSUME TurnsTyped, NEW b \in Agents, TurnOf(b), phase \in {"model", "held"},
           UNCHANGED <<team, previous, count>>, holds' \in {holds, holds + 1},
           streak' \in [Agents -> 0 .. 2], review' \in {"none", "pending", "reported"},
           owed' \in BOOLEAN, paused' \in BOOLEAN, nudge' \in BOOLEAN, missed' \in BOOLEAN,
           stop' \in BOOLEAN
    PROVE TurnsTyped'
<1> USE TurnsAssumption
<1>1. /\ current' = b /\ turn' = turn + 1 /\ turn' \in 0 .. MaxTurns
      /\ \/ phase' = "top" /\ outcome' = outcome /\ turn' < MaxTurns
         \/ phase' = "over" /\ outcome' = "limit"
  BY TurnFacts
<1>2. TurnsTypeOK' BY <1>1 DEF TurnsTyped, TurnsTypeOK, CountInv, Agents
<1>3. CountInv' BY <1>1 DEF TurnsTyped, TurnsTypeOK, CountInv, Waits, Talks
<1> QED BY <1>2, <1>3 DEF TurnsTyped

LEMMA NoteTyped ==
    ASSUME TurnsTypeOK, NEW a \in Agents, NEW status, NoteStatus(a, status)
    PROVE review' \in {"none", "pending", "reported"} /\ owed' \in BOOLEAN
BY DEF NoteStatus, TurnsTypeOK

\* Where a routed report, an answer or its calls lead: who is next, or the end.
LEMMA TurnsTypedRoute == ASSUME TurnsTyped, RouteFinal PROVE TurnsTyped'
<1> USE DEF TurnsTyped
<1>1. PICK b \in Agents : TurnOf(b)
  BY DeferredFacts, PendingFacts, AuthorityFacts DEF RouteFinal, TurnsTypeOK
<1>2. phase = "model" /\ UNCHANGED <<team, previous, count, holds, streak, userVars>>
  BY DEF RouteFinal
<1>3. review' \in {"none", "pending", "reported"} /\ owed' \in BOOLEAN
  BY DEF RouteFinal, TurnsTypeOK
<1> QED BY <1>1, <1>2, <1>3, TurnsTypedTurn DEF TurnsTypeOK, userVars

LEMMA TurnsTypedHeld == ASSUME TurnsTyped, HeldFinal PROVE TurnsTyped'
<1> USE DEF TurnsTyped
<1>1. CASE ~stop /\ nudge
  <2>1. TurnOf(current) /\ holds' = holds + 1 /\ Drain /\ missed' = missed /\ phase = "held"
    BY <1>1 DEF HeldFinal
  <2> QED BY <2>1, TurnsTypedTurn DEF HeldFinal, TurnsTypeOK, Drain
<1>2. CASE stop \/ ~nudge
  <2> USE <1>2 DEF HeldFinal, End, Drain, userVars
  <2>1. TurnsTypeOK' BY DEF TurnsTypeOK, Agents
  <2>2. CountInv' BY DEF TurnsTypeOK, CountInv, Waits, Talks
  <2> QED BY <2>1, <2>2
<1> QED BY <1>1, <1>2 DEF TurnsTypeOK

LEMMA TurnsTypedTalk == ASSUME TurnsTyped, Talk PROVE TurnsTyped'
<1> USE DEF TurnsTyped
<1>1. PICK status \in Statuses, wish \in Agents \cup {NoWish, Unknown} :
         /\ NoteStatus(current, status)
         /\ \/ End("stopped") /\ UNCHANGED <<turn, current>>
            \/ TurnOf(SelectNext(current, wish, status, "ok"))
  BY DEF Talk
<1>2. phase = "model" /\ UNCHANGED <<team, previous, count, holds, streak, userVars>>
  BY DEF Talk
<1>3. review' \in {"none", "pending", "reported"} /\ owed' \in BOOLEAN
  BY <1>1, NoteTyped DEF TurnsTypeOK
<1>4. CASE End("stopped") /\ UNCHANGED <<turn, current>>
  <2>1. TurnsTypeOK' BY <1>2, <1>3, <1>4 DEF TurnsTypeOK, End, userVars, Agents
  <2>2. CountInv' BY <1>2, <1>4 DEF TurnsTypeOK, CountInv, Waits, Talks, End
  <2> QED BY <2>1, <2>2
<1>5. CASE TurnOf(SelectNext(current, wish, status, "ok"))
  BY <1>2, <1>3, <1>5, SelectFacts, TurnsTypedTurn DEF TurnsTypeOK, userVars
<1> QED BY <1>1, <1>4, <1>5

LEMMA TurnsTypedCalls == ASSUME TurnsTyped, RunCalls PROVE TurnsTyped'
<1> USE DEF TurnsTyped
<1>1. PICK status \in Statuses, wish \in Agents \cup {NoWish}, result \in Results :
         /\ NoteStatus(current, status)
         /\ IF result = "same failure" /\ streak[current] = 2
            THEN /\ streak' = [streak EXCEPT ![current] = 0]
                 /\ TurnOf(Elsewhere(current))
            ELSE /\ streak' = [streak EXCEPT ![current] =
                                  IF result = "same failure" THEN @ + 1
                                  ELSE IF result = "failure" THEN 1 ELSE 0]
                 /\ TurnOf(SelectNext(current, wish, status, result))
  BY DEF RunCalls
<1>2. phase = "model" /\ UNCHANGED <<team, previous, count, holds, userVars>>
  BY DEF RunCalls
<1>3. review' \in {"none", "pending", "reported"} /\ owed' \in BOOLEAN
  BY <1>1, NoteTyped DEF TurnsTypeOK
<1>4. streak' \in [Agents -> 0 .. 2]
  <2>1. /\ streak \in [Agents -> 0 .. 2] /\ current \in Agents
        /\ streak[current] \in {0, 1, 2}
    BY DEF TurnsTypeOK
  <2>2. CASE result = "same failure" /\ streak[current] # 2
    <3>1. streak' = [streak EXCEPT ![current] = streak[current] + 1] BY <1>1, <2>2
    <3>2. streak[current] = 0 \/ streak[current] = 1 BY <2>1, <2>2, Zenon
    <3>3. streak[current] + 1 \in 0 .. 2 BY <3>2
    <3> QED BY <2>1, <3>1, <3>3
  <2>3. CASE result = "same failure" /\ streak[current] = 2
    <3>1. streak' = [streak EXCEPT ![current] = 0] BY <1>1, <2>3
    <3> QED BY <2>1, <3>1
  <2>4. CASE result # "same failure"
    <3>1. streak' = [streak EXCEPT ![current] = IF result = "failure" THEN 1 ELSE 0]
      BY <1>1, <2>4
    <3> QED BY <2>1, <3>1
  <2> QED BY <2>2, <2>3, <2>4
<1>5. PICK b \in Agents : TurnOf(b)
  BY <1>1, SelectFacts, ElsewhereFacts DEF TurnsTypeOK
<1> QED BY <1>2, <1>3, <1>4, <1>5, TurnsTypedTurn DEF TurnsTypeOK, userVars

LEMMA TurnsTypedUser == ASSUME TurnsTyped, UserControl PROVE TurnsTyped'
<1> USE DEF TurnsTyped, UserControl, Pause, Resume, AddNudge, Cancel
<1>1. TurnsTypeOK' BY DEF TurnsTypeOK, Agents
<1>2. CountInv' BY DEF CountInv, Waits, Talks
<1> QED BY <1>1, <1>2

LEMMA TurnsTypedNext == ASSUME TurnsTyped, [TurnsNext]_turnVars PROVE TurnsTyped'
<1>1. CASE TurnsNext
  BY <1>1, TurnsTypedWait, TurnsTypedEnd, TurnsTypedRoute, TurnsTypedHeld, TurnsTypedTalk, TurnsTypedCalls, TurnsTypedUser
     DEF TurnsNext
<1>2. CASE UNCHANGED turnVars
  BY <1>2 DEF turnVars, TurnsTyped, TurnsTypeOK, CountInv, Waits, Talks, Agents
<1> QED BY <1>1, <1>2

LEMMA TurnsTypedAlways == TurnsSpec => []TurnsTyped
<1>1. TurnsInit => TurnsTyped BY TurnsTypedInit
<1>2. TurnsTyped /\ [TurnsNext]_turnVars => TurnsTyped' BY TurnsTypedNext
<1> QED BY <1>1, <1>2, PTL DEF TurnsSpec

\* Every variable of the loop keeps its type, for every team and limit: the run ends with its
\* last turn (runner.py:167-543).
THEOREM TurnsTypeCorrect == TurnsSpec => []TurnsTypeOK
<1>1. TurnsTyped => TurnsTypeOK BY DEF TurnsTyped
<1> QED BY <1>1, TurnsTypedAlways, PTL

-----------------------------------------------------------------------------
(* No agent hogs the run *)

\* Before its next turn an agent that goes on has had three in a row at most.
HogInv ==
    Len(team) > 1 /\ phase # "over" =>
        /\ count <= 4 + holds
        /\ Waits /\ current = previous => count <= 3 + holds

LEMMA HogInit == ASSUME TurnsInit PROVE HogInv
BY DEF TurnsInit, HogInv

\* A step to the next turn, of another agent or of the same one while it may go on.
LEMMA HogTurn ==
    ASSUME TurnsTyped, HogInv, NEW b \in Agents, TurnOf(b), phase \in {"model", "held"},
           UNCHANGED <<team, previous, count>>,
           \/ holds' = holds /\ (Len(team) > 1 => b # current \/ ~HasHadEnough(current))
           \/ holds' = holds + 1
    PROVE HogInv'
<1>1. current = previous /\ current' = b /\ count \in Nat /\ holds \in Nat
  BY TurnFacts DEF TurnsTyped, CountInv, Talks, TurnsTypeOK
<1>2. holds' \in Nat /\ holds' >= holds BY <1>1
<1>3. Len(team) > 1 => count <= 4 + holds BY DEF HogInv
<1>4. ASSUME Len(team) > 1, b = current PROVE count <= 3 + holds'
  <2>1. CASE holds' = holds + 1 BY <1>1, <1>3, <1>4, <2>1
  <2>2. CASE holds' = holds /\ ~HasHadEnough(current) BY <1>1, <2>2 DEF HasHadEnough
  <2> QED BY <1>4, <2>1, <2>2
<1>5. team' = team /\ count' = count /\ previous' = previous OBVIOUS
<1>6. ASSUME Len(team) > 1 PROVE count <= 4 + holds'
  <2>1. count <= 4 + holds BY <1>3, <1>6
  <2>2. count \in Nat /\ holds \in Nat BY <1>1
  <2>3. CASE holds' = holds BY <2>1, <2>3
  <2>4. CASE holds' = holds + 1 BY <2>1, <2>2, <2>4
  <2> QED BY <2>3, <2>4
<1> QED BY <1>1, <1>4, <1>5, <1>6 DEF HogInv

LEMMA HogNext == ASSUME TurnsTyped, HogInv, [TurnsNext]_turnVars PROVE HogInv'
<1>1. CASE TopOfLoop \/ Resumed
  BY <1>1 DEF TopOfLoop, Resumed, BeginTurn, End, HogInv, Waits, TurnsTyped, TurnsTypeOK
<1>2. CASE ModelFails \/ GiveFinal \/ CallsCancelled
  BY <1>2 DEF ModelFails, GiveFinal, CallsCancelled, End, HogInv, Waits
<1>3. CASE RouteFinal
  <2>1. PICK b \in Agents : TurnOf(b) /\ b # current
    BY <1>3, DeferredFacts, PendingFacts, AuthorityFacts DEF RouteFinal, TurnsTyped, TurnsTypeOK
  <2> QED BY <1>3, <2>1, HogTurn DEF RouteFinal
<1>4. CASE HeldFinal
  <2>1. current \in Agents BY DEF TurnsTyped, TurnsTypeOK
  <2>2. CASE ~stop /\ nudge BY <1>4, <2>1, <2>2, HogTurn DEF HeldFinal
  <2>3. CASE stop \/ ~nudge BY <1>4, <2>3 DEF HeldFinal, End, HogInv
  <2> QED BY <2>2, <2>3 DEF TurnsTyped, TurnsTypeOK
<1>5. CASE Talk
  <2>1. PICK status \in Statuses, wish \in Agents \cup {NoWish, Unknown} :
           End("stopped") \/ TurnOf(SelectNext(current, wish, status, "ok"))
    BY <1>5 DEF Talk
  <2>2. CASE End("stopped") BY <2>2 DEF End, HogInv
  <2>3. CASE TurnOf(SelectNext(current, wish, status, "ok"))
    BY <1>5, <2>3, SelectFacts, HogTurn DEF Talk, TurnsTyped, TurnsTypeOK
  <2> QED BY <2>1, <2>2, <2>3
<1>6. CASE RunCalls
  <2>1. PICK b \in Agents : TurnOf(b) /\ (Len(team) > 1 => b # current \/ ~HasHadEnough(current))
    <3>1. PICK status \in Statuses, wish \in Agents \cup {NoWish}, result \in Results :
             TurnOf(Elsewhere(current)) \/ TurnOf(SelectNext(current, wish, status, result))
      BY <1>6 DEF RunCalls
    <3>2. current \in Agents BY DEF TurnsTyped, TurnsTypeOK
    <3>3. CASE TurnOf(Elsewhere(current)) BY <3>2, <3>3, ElsewhereFacts DEF TurnsTyped
    <3>4. CASE TurnOf(SelectNext(current, wish, status, result))
      BY <3>2, <3>4, SelectFacts DEF TurnsTyped
    <3> QED BY <3>1, <3>3, <3>4
  <2> QED BY <1>6, <2>1, HogTurn DEF RunCalls
<1>7. CASE UserControl
  BY <1>7 DEF UserControl, HogInv, Waits
<1>8. CASE UNCHANGED turnVars
  BY <1>8 DEF turnVars, HogInv, Waits
<1> QED BY <1>1, <1>2, <1>3, <1>4, <1>5, <1>6, <1>7, <1>8 DEF TurnsNext

\* In every team of two or more no agent takes more than four turns in a row, but for those
\* that repeat a report the user had held (runner.py:2199-2206).
THEOREM NobodyHogs == TurnsSpec => []NoAgentHogsTheRun
<1>1. TurnsInit => HogInv BY HogInit
<1>2. TurnsTyped /\ HogInv /\ [TurnsNext]_turnVars => HogInv' BY HogNext
<1>3. HogInv => NoAgentHogsTheRun BY DEF HogInv, NoAgentHogsTheRun
<1> QED BY <1>1, <1>2, <1>3, TurnsTypedAlways, PTL DEF TurnsSpec

-----------------------------------------------------------------------------
(* An accepted report is due *)

\* Nobody is waited for: what a report needs to be accepted.
Due ==
    TheOne("coordinator") # 0 =>
        /\ current = TheOne("coordinator")
        /\ TheOne("reviewer") # 0 => ~owed

\* A review that is owed is pending; a report that is held was due, and a nudge that came since
\* is still in hand.
DueInv ==
    /\ owed => review = "pending"
    /\ phase = "held" => Due
    /\ phase = "model" => ~missed
    /\ missed /\ phase = "held" => nudge
    /\ phase # "over" => outcome = "none"
    /\ outcome = "accepted" => ~missed /\ Due

LEMMA DueInit == ASSUME TurnsInit PROVE DueInv
BY DEF TurnsInit, DueInv

\* What a status notes keeps a review that is owed pending.
LEMMA NoteDue ==
    ASSUME TurnsTypeOK, NEW status, NoteStatus(current, status), owed => review = "pending"
    PROVE owed' => review' = "pending"
<1>1. team[current].calledReviewer => team[current].role = "reviewer"
  BY TeamFacts DEF TurnsTypeOK
<1>2. CASE team[current].role = "reviewer"
  BY <1>2 DEF NoteStatus, ReportsReview, AsksForReview
<1>3. CASE team[current].role # "reviewer"
  BY <1>1, <1>3 DEF NoteStatus, ReportsReview, AsksForReview
<1> QED BY <1>2, <1>3

LEMMA DueNext == ASSUME TurnsTyped, DueInv, [TurnsNext]_turnVars PROVE DueInv'
<1> USE DEF DueInv
<1>1. CASE TopOfLoop \/ Resumed
  BY <1>1 DEF TopOfLoop, Resumed, BeginTurn, Drain, End, userVars
<1>2. CASE ModelFails \/ CallsCancelled
  BY <1>2 DEF ModelFails, CallsCancelled, End, userVars
<1>3. CASE GiveFinal
  <2>1. Due
    BY <1>3, TheOneFacts DEF GiveFinal, PendingReview, Authority, Due, TurnsTyped
  <2>2. UNCHANGED <<team, current, owed, review, missed, nudge>>
    BY <1>3 DEF GiveFinal, userVars
  <2>3. Due' BY <2>1, <2>2 DEF Due, TheOne, Agents
  <2> QED BY <1>3, <2>2, <2>3 DEF GiveFinal, End
<1>4. CASE HeldFinal
  <2>1. UNCHANGED <<team, owed, review, missed>> /\ phase = "held"
    BY <1>4 DEF HeldFinal, userVars
  <2>2. CASE stop BY <1>4, <2>1, <2>2 DEF HeldFinal, End
  <2>3. CASE ~stop /\ nudge
    BY <1>4, <2>1, <2>3, TurnFacts DEF HeldFinal, TurnsTyped, TurnsTypeOK
  <2>4. CASE ~stop /\ ~nudge
    <3>1. current' = current BY <1>4, <2>4 DEF HeldFinal
    <3>2. Due' BY <2>1, <3>1 DEF Due, TheOne, Agents
    <3> QED BY <1>4, <2>1, <2>4, <3>2 DEF HeldFinal, End
  <2> QED BY <2>2, <2>3, <2>4 DEF TurnsTyped, TurnsTypeOK
<1>5. CASE RouteFinal
  <2>1. PICK b \in Agents : TurnOf(b)
    BY <1>5, DeferredFacts, PendingFacts, AuthorityFacts DEF RouteFinal, TurnsTyped, TurnsTypeOK
  <2>2. phase = "model" /\ missed' = missed BY <1>5 DEF RouteFinal, userVars
  <2>3. owed' => review' = "pending" BY <1>5 DEF RouteFinal
  <2> QED BY <2>1, <2>2, <2>3, TurnFacts
<1>6. CASE Talk
  <2>1. PICK status \in Statuses, wish \in Agents \cup {NoWish, Unknown} :
           /\ NoteStatus(current, status)
           /\ End("stopped") \/ TurnOf(SelectNext(current, wish, status, "ok"))
    BY <1>6 DEF Talk
  <2>2. phase = "model" /\ missed' = missed BY <1>6 DEF Talk, userVars
  <2>3. owed' => review' = "pending" BY <2>1, NoteDue DEF TurnsTyped
  <2>4. CASE End("stopped") BY <2>2, <2>3, <2>4 DEF End
  <2>5. CASE TurnOf(SelectNext(current, wish, status, "ok"))
    BY <2>2, <2>3, <2>5, SelectFacts, TurnFacts DEF TurnsTyped, TurnsTypeOK
  <2> QED BY <2>1, <2>4, <2>5
<1>7. CASE RunCalls
  <2>1. PICK status \in Statuses : NoteStatus(current, status) BY <1>7 DEF RunCalls
  <2>2. PICK b \in Agents : TurnOf(b)
    BY <1>7, SelectFacts, ElsewhereFacts DEF RunCalls, TurnsTyped, TurnsTypeOK
  <2>3. phase = "model" /\ missed' = missed BY <1>7 DEF RunCalls, userVars
  <2>4. owed' => review' = "pending" BY <2>1, NoteDue DEF TurnsTyped
  <2> QED BY <2>2, <2>3, <2>4, TurnFacts
<1>8. CASE UserControl
  <2>1. /\ phase # "over"
        /\ UNCHANGED <<team, phase, current, review, owed, outcome>>
        /\ \/ missed' = missed /\ (nudge => nudge')
           \/ nudge' /\ missed' = (missed \/ phase = "held")
    BY <1>8 DEF UserControl, Pause, Resume, AddNudge, Cancel
  <2>2. Due' <=> Due BY <2>1 DEF Due, TheOne, Agents
  <2>3. /\ owed' => review' = "pending"
        /\ phase' # "over" /\ outcome' = "none"
    BY <2>1
  <2>4. phase' = "held" => Due' BY <2>1, <2>2
  <2>5. phase' = "model" => ~missed' BY <2>1
  <2>6. missed' /\ phase' = "held" => nudge' BY <2>1
  <2> QED BY <2>3, <2>4, <2>5, <2>6
<1>9. CASE UNCHANGED turnVars
  BY <1>9 DEF turnVars, Due, TheOne, Agents
<1> QED BY <1>1, <1>2, <1>3, <1>4, <1>5, <1>6, <1>7, <1>8, <1>9 DEF TurnsNext

\* The report of a coordinator is accepted only when the reviewer has reported on the last
\* review that was asked for, and no nudge waits, in every team where nobody but a reviewer is
\* called one (runner.py:329-423, 711-717, 1079-1085).
THEOREM DueWhenAccepted == TurnsSpec => []AcceptedIsDue
<1>1. TurnsInit => DueInv BY DueInit
<1>2. TurnsTyped /\ DueInv /\ [TurnsNext]_turnVars => DueInv' BY DueNext
<1>3. DueInv => AcceptedIsDue BY DEF DueInv, Due, AcceptedIsDue
<1> QED BY <1>1, <1>2, <1>3, TurnsTypedAlways, PTL DEF TurnsSpec

=============================================================================
