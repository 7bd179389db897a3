-------------------------- MODULE AddonHost_proofs --------------------------
(***************************************************************************)
(* What holds of an addon's host for any number of callers and faults: the *)
(* types, that a call is given its own result, that a process is lost only *)
(* where a start overlaps another start, a timeout or a stop, and that     *)
(* nobody is left waiting while no thread or process can move.             *)
(***************************************************************************)
EXTENDS AddonHost, FiniteSetTheorems, TLAPS

Runs(p) == p # 0 /\ mode[p] \in {"serving", "hung"}
Stopping == step[Stopper] \notin {"idle", "drop", "done"}

\* A thread that reads works on a call.
ReadingInv == reading # 0 => running \in HostThreads

\* Without a race: who is about to start, to forget or to clear does so when nothing runs that
\* the object refers to, and while the host is stopped nobody starts another.
StartInv == \A c \in HostThreads : step[c] = "spawn" => ~Polls(proc)
ForgetInv == \A c \in HostThreads : step[c] = "forget" => ~Runs(proc)
StopInv ==
    /\ Stopping => proc \in {0, held[Stopper]}
    /\ step[Stopper] = "clear" => ~Polls(held[Stopper])
NoneLost == \A p \in Hosts : Runs(p) => p = proc

Orderly == ~Overlap(step) /\ StartInv /\ ForgetInv /\ StopInv /\ NoneLost
RaceInv == ~raced => Orderly

AddonTyped == AddonTypeOK /\ ReadingInv

-----------------------------------------------------------------------------
(* Types *)

LEMMA HostNames ==
    /\ 0 \notin Hosts
    /\ Hosts \subseteq Nat
    /\ Stopper \in HostThreads
    /\ NoCall \notin HostThreads
    /\ HostThreads \cap WithoutResult = {} /\ "noise" \notin HostThreads
BY AddonAssumption DEF Hosts, HostThreads

LEMMA First ==
    ASSUME NEW S, NEW s \in Seq(S), s # <<>>
    PROVE  Head(s) \in S /\ Tail(s) \in Seq(S)
OBVIOUS

LEMMA Joined ==
    ASSUME NEW S, NEW s \in Seq(S), NEW t \in Seq(S)
    PROVE  s \o t \in Seq(S)
OBVIOUS

LEMMA Updated ==
    ASSUME NEW S, NEW T, NEW f \in [S -> T], NEW x, NEW y \in T
    PROVE  [f EXCEPT ![x] = y] \in [S -> T]
OBVIOUS

Modes == {"unborn", "serving", "hung", "killed", "ended"}
Line == HostThreads \cup {"noise"}

\* What the steps of a process leave of the types.
LEMMA ProcessTypes ==
    ASSUME AddonTyped, NEW p \in Hosts, Serve(p) \/ EndHost(p)
    PROVE  /\ mode' \in [Hosts -> Modes]
           /\ inbox' \in [Hosts -> Seq(HostThreads)]
           /\ output' \in [Hosts -> Seq(Line)]
           /\ faults' \in 0 .. MaxFaults
<1>1. /\ mode \in [Hosts -> Modes] /\ inbox \in [Hosts -> Seq(HostThreads)]
      /\ output \in [Hosts -> Seq(Line)] /\ faults \in 0 .. MaxFaults
  BY DEF AddonTyped, AddonTypeOK, Modes, Line
<1>2. faults' \in 0 .. MaxFaults
  BY <1>1, AddonAssumption DEF Serve, EndHost, Misbehaves
<1>3. mode' = mode \/ \E m \in Modes : mode' = [mode EXCEPT ![p] = m]
  BY DEF Serve, EndHost, Modes
<1>4. mode' \in [Hosts -> Modes]
  BY <1>1, <1>3, Updated
<1>5. CASE Serve(p)
  <2>1. inbox[p] \in Seq(HostThreads) /\ inbox[p] # <<>>
    BY <1>1, <1>5 DEF Serve
  <2>2. Head(inbox[p]) \in HostThreads /\ Tail(inbox[p]) \in Seq(HostThreads)
    BY <2>1, First
  <2>3. inbox' \in [Hosts -> Seq(HostThreads)]
    BY <1>1, <1>5, <2>2, Updated DEF Serve
  <2>4. output[p] \in Seq(Line) /\ Head(inbox[p]) \in Line /\ "noise" \in Line
    BY <1>1, <2>2 DEF Line
  <2>5. Append(output[p], Head(inbox[p])) \in Seq(Line)
    BY <2>4
  <2>6. <<"noise", Head(inbox[p])>> \in Seq(Line)
    BY <2>4
  <2>7. output[p] \o <<"noise", Head(inbox[p])>> \in Seq(Line)
    BY <2>4, <2>6, Joined
  <2>8. output' = output \/ \E o \in Seq(Line) : output' = [output EXCEPT ![p] = o]
    BY <1>5, <2>5, <2>7 DEF Serve
  <2> QED BY <1>1, <1>2, <1>4, <2>3, <2>8, Updated
<1>6. CASE EndHost(p)
  <2>1. <<>> \in Seq(HostThreads) /\ <<>> \in Seq(Line)
    OBVIOUS
  <2>2. inbox' = [inbox EXCEPT ![p] = <<>>] /\ (output' = output \/ output' = [output EXCEPT ![p] = <<>>])
    BY <1>6 DEF EndHost
  <2> QED BY <1>1, <1>2, <1>4, <2>1, <2>2, Updated
<1> QED BY <1>5, <1>6

\* What the executor and the callers do to its work queue.
LEMMA BacklogTypes ==
    ASSUME AddonTyped, NEW c \in HostThreads, Submit(c) \/ TakeCall \/ ShutExecutor
    PROVE  backlog' \in Seq(HostThreads) /\ inbox' \in [Hosts -> Seq(HostThreads)]
<1>1. backlog \in Seq(HostThreads) /\ inbox \in [Hosts -> Seq(HostThreads)] /\ proc \in Hosts \cup {0}
  BY DEF AddonTyped, AddonTypeOK
<1>2. Append(backlog, c) \in Seq(HostThreads)
  BY <1>1
<1>3. CASE Submit(c)
  BY <1>1, <1>2, <1>3 DEF Submit, hostVars
<1>4. CASE TakeCall
  <2>1. Head(backlog) \in HostThreads /\ backlog' \in Seq(HostThreads)
    BY <1>1, <1>4, First DEF TakeCall
  <2>2. proc \in Hosts => Append(inbox[proc], Head(backlog)) \in Seq(HostThreads)
    <3>1. proc \in Hosts => inbox[proc] \in Seq(HostThreads)
      BY <1>1
    <3> QED BY <2>1, <3>1
  <2>3. \/ inbox' = inbox
        \/ proc \in Hosts /\ inbox' = [inbox EXCEPT ![proc] = Append(inbox[proc], Head(backlog))]
    <3>1. CASE Polls(proc)
      BY <1>1, <1>4, <3>1 DEF TakeCall, Polls
    <3>2. CASE ~Polls(proc)
      BY <1>4, <3>2 DEF TakeCall
    <3> QED BY <3>1, <3>2
  <2> QED BY <1>1, <2>1, <2>2, <2>3, Updated
<1>5. CASE ShutExecutor
  <2>1. backlog' = <<>> /\ inbox' = inbox
    BY <1>5 DEF ShutExecutor, hostVars
  <2>2. <<>> \in Seq(HostThreads)
    OBVIOUS
  <2> QED BY <1>1, <2>1, <2>2
<1> QED BY <1>3, <1>4, <1>5

LEMMA AddonTypedInit == ASSUME AddonInit PROVE AddonTyped
<1>1. inbox \in [Hosts -> Seq(HostThreads)] /\ output \in [Hosts -> Seq(HostThreads \cup {"noise"})]
      /\ backlog \in Seq(HostThreads)
  BY DEF AddonInit
<1>2. faults \in 0 .. MaxFaults
  BY AddonAssumption DEF AddonInit
<1> QED BY <1>1, <1>2 DEF AddonInit, AddonTyped, AddonTypeOK, ReadingInv, WithoutResult

LEMMA AddonTypedNext == ASSUME AddonTyped, [AddonNext]_addonVars PROVE AddonTyped'
<1> USE HostNames DEF AddonTyped, AddonTypeOK, ReadingInv, WithoutResult, hostVars, poolVars, Goto
<1>1. ASSUME NEW c \in Callers, BeginCall(c) PROVE AddonTyped'
  BY <1>1 DEF BeginCall, HostThreads
<1>2. ASSUME NEW c \in HostThreads, StartCheck(c) PROVE AddonTyped'
  BY <1>2 DEF StartCheck
<1>3. ASSUME NEW c \in HostThreads, SpawnHost(c) PROVE AddonTyped'
  BY <1>3 DEF SpawnHost
<1>4. ASSUME NEW c \in HostThreads, Submit(c) PROVE AddonTyped'
  <2>1. backlog' \in Seq(HostThreads)
    BY <1>4, BacklogTypes
  <2>2. future' \in [HostThreads -> WithoutResult \cup HostThreads]
    BY <1>4 DEF Submit
  <2>3. step' \in [HostThreads -> {"idle", "check", "spawn", "submit", "waiting", "kill", "forget",
                                 "terminate", "reap", "clear", "shut down", "drop", "done"}]
        /\ raced' \in BOOLEAN
    BY <1>4 DEF Submit, AfterCall
  <2> QED BY <1>4, <2>1, <2>2, <2>3 DEF Submit
<1>5. ASSUME NEW c \in HostThreads, CallReturns(c) PROVE AddonTyped'
  BY <1>5 DEF CallReturns, AfterCall
<1>6. ASSUME NEW c \in HostThreads, CallExpires(c) PROVE AddonTyped'
  BY <1>6 DEF CallExpires
<1>7. ASSUME NEW c \in HostThreads, KillForTimeout(c) PROVE AddonTyped'
  BY <1>7 DEF KillForTimeout, Polls
<1>8. ASSUME NEW c \in HostThreads, Forget(c) PROVE AddonTyped'
  BY <1>8 DEF Forget, AfterCall
<1>9. CASE TakeCall
  <2>1. Head(backlog) \in HostThreads /\ Tail(backlog) \in Seq(HostThreads)
    BY <1>9, First DEF TakeCall
  <2>2. CASE Polls(proc)
    <3>1. inbox' \in [Hosts -> Seq(HostThreads)]
      BY <1>9, <2>1, BacklogTypes
    <3> QED BY <1>9, <2>1, <2>2, <3>1 DEF TakeCall, Polls
  <2>3. CASE ~Polls(proc)
    BY <1>9, <2>1, <2>3 DEF TakeCall, Settle
  <2> QED BY <2>2, <2>3
<1>10. CASE ReadLine
  <2> DEFINE line == Head(output[reading])
  <2>1. line \in HostThreads \cup {"noise"} /\ Tail(output[reading]) \in Seq(HostThreads \cup {"noise"})
    <3>1. output[reading] \in Seq(HostThreads \cup {"noise"}) /\ output[reading] # <<>>
      BY <1>10 DEF ReadLine
    <3> QED BY <3>1, First
  <2>2. output' \in [Hosts -> Seq(HostThreads \cup {"noise"})]
    BY <1>10, <2>1 DEF ReadLine
  <2>3. CASE UNCHANGED <<running, reading, future>>
    BY <1>10, <2>2, <2>3 DEF ReadLine
  <2>4. CASE Settle(running, IF line \in HostThreads THEN line ELSE "failed")
    BY <1>10, <2>1, <2>2, <2>4 DEF ReadLine, Settle
  <2> QED BY <1>10, <2>3, <2>4 DEF ReadLine
<1>11. CASE ReadHostEof
  BY <1>11 DEF ReadHostEof, Settle
<1>12. CASE StopHost
  BY <1>12 DEF StopHost
<1>13. CASE Terminate
  <2>1. mode' \in [Hosts -> {"unborn", "serving", "hung", "killed", "ended"}]
    BY <1>13 DEF Terminate, Polls
  <2>2. \E s \in {"reap", "clear"} : Goto(Stopper, s)
    BY <1>13 DEF Terminate
  <2>3. UNCHANGED <<proc, inbox, output, faults, poolVars, future, held, dropped>>
    BY <1>13 DEF Terminate
  <2> QED BY <2>1, <2>2, <2>3
<1>14. CASE Clear
  BY <1>14 DEF Clear
<1>15. CASE ShutExecutor
  <2>1. backlog' \in Seq(HostThreads)
    BY <1>15, BacklogTypes
  <2>2. future' \in [HostThreads -> WithoutResult \cup HostThreads]
    BY <1>15 DEF ShutExecutor
  <2> QED BY <1>15, <2>1, <2>2 DEF ShutExecutor
<1>16. CASE DropHost
  BY <1>16 DEF DropHost
<1>17. ASSUME NEW p \in Hosts, Serve(p) PROVE AddonTyped'
  BY <1>17, ProcessTypes DEF Serve, Modes, Line
<1>18. ASSUME NEW p \in Hosts, EndHost(p) PROVE AddonTyped'
  BY <1>18, ProcessTypes DEF EndHost, Modes, Line
<1>19. CASE UNCHANGED addonVars
  BY <1>19 DEF addonVars
<1> QED
  BY <1>1, <1>2, <1>3, <1>4, <1>5, <1>6, <1>7, <1>8, <1>9, <1>10, <1>11, <1>12, <1>13, <1>14,
     <1>15, <1>16, <1>17, <1>18, <1>19 DEF AddonNext, AddonUserStep, AddonSystemStep

-----------------------------------------------------------------------------
(* A call is given its own answer *)

LEMMA AnswerNext == ASSUME AddonTyped, OwnAnswer, [AddonNext]_addonVars PROVE OwnAnswer'
<1> USE HostNames DEF AddonTyped, AddonTypeOK, OwnAnswer, WithoutResult
<1>1. ASSUME NEW c \in HostThreads, NEW how \in WithoutResult,
             future' = [future EXCEPT ![c] = how]
      PROVE  OwnAnswer'
  BY <1>1
<1>2. CASE UNCHANGED future
  BY <1>2
<1>3. ASSUME NEW c \in HostThreads, Submit(c) PROVE OwnAnswer'
  BY <1>1, <1>3 DEF Submit
<1>4. ASSUME NEW c \in HostThreads, CallReturns(c) PROVE OwnAnswer'
  BY <1>1, <1>4 DEF CallReturns
<1>5. CASE TakeCall
  <2>1. Head(backlog) \in HostThreads
    BY <1>5, First DEF TakeCall
  <2> QED BY <1>1, <1>5, <2>1 DEF TakeCall, Settle
<1>6. CASE ReadLine
  <2> DEFINE line == Head(output[reading])
  <2>1. CASE UNCHANGED future
    BY <2>1
  <2>2. CASE ~Skips(line) /\ Settle(running, IF line \in HostThreads THEN line ELSE "failed")
    <3>1. running \in HostThreads
      BY <1>6 DEF ReadLine, ReadingInv
    <3>2. line \in HostThreads => line = running
      BY <2>2 DEF Skips
    <3> QED BY <2>2, <3>1, <3>2 DEF Settle
  <2> QED BY <1>6, <2>1, <2>2 DEF ReadLine
<1>7. CASE ReadHostEof
  BY <1>1, <1>7 DEF ReadHostEof, Settle, ReadingInv
<1>8. CASE ShutExecutor
  BY <1>8 DEF ShutExecutor
<1>9. ASSUME NEW c \in Callers, BeginCall(c) PROVE UNCHANGED future
  BY <1>9 DEF BeginCall
<1>10. ASSUME NEW c \in HostThreads,
              StartCheck(c) \/ SpawnHost(c) \/ CallExpires(c) \/ KillForTimeout(c) \/ Forget(c)
       PROVE  UNCHANGED future
  BY <1>10 DEF StartCheck, SpawnHost, CallExpires, KillForTimeout, Forget
<1>11. StopHost \/ Terminate \/ Clear \/ DropHost => UNCHANGED future
  BY DEF StopHost, Terminate, Clear, DropHost
<1>12. ASSUME NEW p \in Hosts, Serve(p) \/ EndHost(p) PROVE UNCHANGED future
  BY <1>12 DEF Serve, EndHost
<1> QED
  BY <1>2, <1>3, <1>4, <1>5, <1>6, <1>7, <1>8, <1>9, <1>10, <1>11, <1>12
  DEF AddonNext, AddonUserStep, AddonSystemStep, addonVars

-----------------------------------------------------------------------------
(* No process is lost without a race *)

\* A race is noticed, and never forgotten.
Noticed == raced' = (raced \/ Overlap(step')) \/ UNCHANGED <<step, raced>>

LEMMA RaceNoticed == ASSUME [AddonNext]_addonVars PROVE Noticed
<1> USE DEF Noticed, Goto
<1>1. ASSUME NEW c \in Callers, BeginCall(c) PROVE Noticed
  BY <1>1 DEF BeginCall
<1>2. ASSUME NEW c \in HostThreads, StartCheck(c) \/ SpawnHost(c) \/ Submit(c) \/ CallReturns(c)
                                    \/ CallExpires(c) \/ KillForTimeout(c) \/ Forget(c)
      PROVE  Noticed
  BY <1>2 DEF StartCheck, SpawnHost, Submit, CallReturns, CallExpires, KillForTimeout, Forget
<1>3. TakeCall \/ ReadLine \/ ReadHostEof => Noticed
  BY DEF TakeCall, ReadLine, ReadHostEof
<1>4. StopHost \/ Terminate \/ Clear \/ ShutExecutor \/ DropHost => Noticed
  BY DEF StopHost, Terminate, Clear, ShutExecutor, DropHost
<1>5. ASSUME NEW p \in Hosts, Serve(p) \/ EndHost(p) PROVE Noticed
  BY <1>5 DEF Serve, EndHost
<1> QED
  BY <1>1, <1>2, <1>3, <1>4, <1>5 DEF AddonNext, AddonUserStep, AddonSystemStep, addonVars

\* A step that starts no process and leaves the object's reference alone.
Calm ==
    /\ UNCHANGED <<proc, held>>
    /\ \A p \in Hosts : (Runs(p)' => Runs(p)) /\ (Polls(p)' => Polls(p))
    /\ \A c \in HostThreads :
          /\ step'[c] = "spawn" => step[c] = "spawn" \/ ~Polls(proc)
          /\ step'[c] = "forget" => step[c] = "forget" \/ ~Runs(proc)'
    /\ Stopping' => Stopping
    /\ step'[Stopper] = "clear" => step[Stopper] = "clear" \/ ~Polls(held[Stopper])

LEMMA CalmKeepsOrder ==
    ASSUME AddonTyped, Orderly, Calm, ~Overlap(step')
    PROVE  Orderly'
<1> USE HostNames
<1>1. UNCHANGED <<proc, held>> /\ proc \in Hosts \cup {0} /\ held[Stopper] \in Hosts \cup {0}
  BY DEF Calm, AddonTyped, AddonTypeOK
<1>2. /\ ~Polls(proc) => ~Polls(proc)'
      /\ ~Runs(proc) => ~Runs(proc)'
      /\ ~Polls(held[Stopper]) => ~Polls(held[Stopper])'
  BY <1>1 DEF Calm, Polls, Runs
<1>3. StartInv'
  BY <1>2 DEF StartInv, Orderly, Calm
<1>4. ForgetInv'
  BY <1>2 DEF ForgetInv, Orderly, Calm
<1>5. StopInv'
  BY <1>1, <1>2 DEF StopInv, Orderly, Calm
<1>6. NoneLost'
  BY <1>1 DEF NoneLost, Orderly, Calm
<1> QED BY <1>3, <1>4, <1>5, <1>6 DEF Orderly

\* Of a thread's step: it goes to `to`, and starts, forgets or clears nothing by that.
LEMMA CalmStep ==
    ASSUME AddonTyped, NEW c \in HostThreads, NEW to,
           step' = [step EXCEPT ![c] = to],
           UNCHANGED <<proc, held>>,
           \A p \in Hosts : (Runs(p)' => Runs(p)) /\ (Polls(p)' => Polls(p)),
           to = "spawn" => ~Polls(proc),
           to = "forget" => ~Runs(proc)',
           to = "clear" => c # Stopper \/ ~Polls(held[Stopper]),
           c = Stopper => Stopping \/ to \in {"drop", "done"}
    PROVE  Calm
<1>1. \A d \in HostThreads : step'[d] = IF d = c THEN to ELSE step[d]
  BY DEF AddonTyped, AddonTypeOK
<1> QED BY <1>1, HostNames DEF Calm, Stopping

LEMMA CallIsCalm ==
    ASSUME AddonTyped, NEW c \in HostThreads,
           \/ c # Stopper /\ BeginCall(c)
           \/ StartCheck(c) \/ Submit(c) \/ CallReturns(c) \/ CallExpires(c) \/ KillForTimeout(c)
    PROVE  Calm
<1> USE DEF Goto, AfterCall, hostVars, Stopping
<1>1. UNCHANGED mode => \A p \in Hosts : (Runs(p)' => Runs(p)) /\ (Polls(p)' => Polls(p))
  BY DEF Runs, Polls
<1>2. CASE c # Stopper /\ BeginCall(c)
  BY <1>1, <1>2, CalmStep DEF BeginCall
<1>3. CASE StartCheck(c)
  BY <1>1, <1>3, CalmStep DEF StartCheck, MaySpawnHost
<1>4. CASE Submit(c)
  BY <1>1, <1>4, CalmStep DEF Submit
<1>5. CASE CallReturns(c)
  BY <1>1, <1>5, CalmStep DEF CallReturns
<1>6. CASE CallExpires(c)
  BY <1>1, <1>6, CalmStep DEF CallExpires
<1>7. CASE KillForTimeout(c)
  <2>1. step[c] = "kill" /\ step' = [step EXCEPT ![c] = "forget"] /\ UNCHANGED <<proc, held>>
    BY <1>7 DEF KillForTimeout
  <2>2. \A p \in Hosts : (Runs(p)' => Runs(p)) /\ (Polls(p)' => Polls(p))
    BY <1>7 DEF KillForTimeout, Runs, Polls, AddonTyped, AddonTypeOK
  <2>3. ~Runs(proc)'
    BY <1>7 DEF KillForTimeout, Runs, Polls, AddonTyped, AddonTypeOK
  <2> QED BY <2>1, <2>2, <2>3, CalmStep
<1> QED BY <1>2, <1>3, <1>4, <1>5, <1>6, <1>7

LEMMA StoppingIsCalm ==
    ASSUME AddonTyped, Terminate \/ ShutExecutor \/ DropHost
    PROVE  Calm
<1> USE HostNames DEF Goto, hostVars
<1>1. UNCHANGED mode => \A p \in Hosts : (Runs(p)' => Runs(p)) /\ (Polls(p)' => Polls(p))
  BY DEF Runs, Polls
<1>2. CASE Terminate
  <2>1. \A p \in Hosts : (Runs(p)' => Runs(p)) /\ (Polls(p)' => Polls(p))
    BY <1>2, <1>1 DEF Terminate, Runs, Polls, AddonTyped, AddonTypeOK
  <2>2. UNCHANGED <<proc, held>> /\ Stopping
    BY <1>2 DEF Terminate, Stopping
  <2>3. \/ step' = [step EXCEPT ![Stopper] = "reap"]
        \/ ~Polls(held[Stopper]) /\ step' = [step EXCEPT ![Stopper] = "clear"]
    BY <1>2 DEF Terminate
  <2> QED BY <2>1, <2>2, <2>3, CalmStep
<1>3. CASE ShutExecutor
  BY <1>1, <1>3, CalmStep DEF ShutExecutor
<1>4. CASE DropHost
  BY <1>1, <1>4, CalmStep DEF DropHost
<1> QED BY <1>2, <1>3, <1>4

LEMMA OthersAreCalm ==
    ASSUME AddonTyped,
           \/ TakeCall \/ ReadLine \/ ReadHostEof
           \/ \E p \in Hosts : Serve(p) \/ EndHost(p)
           \/ UNCHANGED addonVars
    PROVE  Calm
<1>1. UNCHANGED <<proc, held, step>> => \/ Calm
                                        \/ ~ \A p \in Hosts : (Runs(p)' => Runs(p)) /\ (Polls(p)' => Polls(p))
  BY DEF Calm, Stopping
<1>2. CASE TakeCall \/ ReadLine \/ ReadHostEof \/ UNCHANGED addonVars
  <2>1. UNCHANGED <<proc, held, step, mode>>
    BY <1>2 DEF TakeCall, ReadLine, ReadHostEof, addonVars, hostVars
  <2> QED BY <1>1, <2>1 DEF Runs, Polls
<1>3. ASSUME NEW p \in Hosts, Serve(p) \/ EndHost(p) PROVE Calm
  <2>1. UNCHANGED <<proc, held, step>>
    BY <1>3 DEF Serve, EndHost
  <2>2. \A q \in Hosts : (Runs(q)' => Runs(q)) /\ (Polls(q)' => Polls(q))
    <3>1. CASE Serve(p)
      BY <2>1, <3>1 DEF Serve, Runs, Polls, AddonTyped, AddonTypeOK
    <3>2. CASE EndHost(p)
      BY <2>1, <3>2 DEF EndHost, Runs, Polls, AddonTyped, AddonTypeOK
    <3> QED BY <1>3, <3>1, <3>2
  <2> QED BY <1>1, <2>1, <2>2
<1> QED BY <1>2, <1>3

\* Who starts a process is alone: nothing that the object refers to runs.
LEMMA SpawnKeepsOrder ==
    ASSUME AddonTyped, Orderly, NEW c \in HostThreads, SpawnHost(c), ~Overlap(step')
    PROVE  Orderly'
<1> USE HostNames
<1>1. /\ step[c] = "spawn" /\ UNCHANGED held
      /\ step' = [step EXCEPT ![c] = "submit"]
      /\ step \in [HostThreads -> {"idle", "check", "spawn", "submit", "waiting", "kill", "forget",
                                   "terminate", "reap", "clear", "shut down", "drop", "done"}]
      /\ mode \in [Hosts -> {"unborn", "serving", "hung", "killed", "ended"}]
  BY DEF SpawnHost, Goto, AddonTyped, AddonTypeOK
<1>2. PICK p \in Hosts : proc' = p /\ mode' = [mode EXCEPT ![p] = "serving"]
  BY DEF SpawnHost
<1>3. /\ c # Stopper /\ ~Stopping
      /\ \A d \in HostThreads : d # c => step[d] \notin {"spawn", "forget"}
  BY <1>1 DEF Orderly, Overlap, Stopping
<1>4. \A q \in Hosts : ~Runs(q)
  BY <1>1 DEF Orderly, StartInv, NoneLost, Runs, Polls
<1>5. \A d \in HostThreads : step'[d] \notin {"spawn", "forget"}
  BY <1>1, <1>3
<1>6. NoneLost'
  BY <1>1, <1>2, <1>4 DEF NoneLost, Runs
<1>7. StartInv' /\ ForgetInv'
  BY <1>5 DEF StartInv, ForgetInv
<1>8. StopInv'
  BY <1>1, <1>3 DEF StopInv, Stopping
<1> QED BY <1>6, <1>7, <1>8 DEF Orderly

\* What is forgotten or cleared does not run.
LEMMA ForgetKeepsOrder ==
    ASSUME AddonTyped, Orderly, NEW c \in HostThreads,
           Forget(c) \/ (c = Stopper /\ Clear), ~Overlap(step')
    PROVE  Orderly'
<1> USE HostNames
<1>1. /\ proc' = 0 /\ UNCHANGED mode
      /\ proc \in Hosts \cup {0}
      /\ step \in [HostThreads -> {"idle", "check", "spawn", "submit", "waiting", "kill", "forget",
                                   "terminate", "reap", "clear", "shut down", "drop", "done"}]
  BY DEF Forget, Clear, hostVars, AddonTyped, AddonTypeOK
<1>2. \A q \in Hosts : ~Runs(q)
  <2>1. CASE Forget(c)
    BY <2>1 DEF Forget, Orderly, ForgetInv, NoneLost
  <2>2. CASE c = Stopper /\ Clear
    <3>1. step[Stopper] = "clear" /\ Stopping
      BY <2>2 DEF Clear, Stopping
    <3> QED BY <3>1 DEF Orderly, StopInv, NoneLost, Runs, Polls
  <2> QED BY <2>1, <2>2
<1>3. NoneLost'
  BY <1>1, <1>2 DEF NoneLost, Runs
<1>4. StartInv' /\ ForgetInv'
  BY <1>1 DEF StartInv, ForgetInv, Polls, Runs
<1>5. \/ step' = [step EXCEPT ![c] = AfterCall(c)] /\ held' = held
      \/ step' = [step EXCEPT ![Stopper] = "shut down"]
  BY DEF Forget, Clear, Goto
<1>6. step'[Stopper] = "clear" => step[Stopper] = "clear" /\ held' = held
  BY <1>1, <1>5 DEF AfterCall
<1>7. StopInv'
  BY <1>1, <1>6 DEF StopInv, Orderly, Polls
<1> QED BY <1>3, <1>4, <1>7 DEF Orderly

\* The process that stop() remembers is the one the object refers to.
LEMMA StopKeepsOrder ==
    ASSUME AddonTyped, Orderly, StopHost, ~Overlap(step')
    PROVE  Orderly'
<1> USE HostNames
<1>1. /\ UNCHANGED <<proc, mode>>
      /\ held'[Stopper] = proc
      /\ step[Stopper] = "idle"
      /\ step' = [step EXCEPT ![Stopper] = IF proc = 0 THEN "drop" ELSE IF Polls(proc) THEN "check" ELSE "clear"]
  BY DEF StopHost, hostVars, Goto, AddonTyped, AddonTypeOK
<1>2. \A c \in HostThreads : step'[c] \in {"spawn", "forget"} => step'[c] = step[c]
  BY <1>1 DEF AddonTyped, AddonTypeOK
<1>3. NoneLost'
  BY <1>1 DEF Orderly, NoneLost, Runs
<1>4. StartInv' /\ ForgetInv'
  BY <1>1, <1>2 DEF Orderly, StartInv, ForgetInv, Polls, Runs
<1>5. StopInv'
  <2>1. step'[Stopper] = "clear" => ~Polls(proc)
    BY <1>1 DEF AddonTyped, AddonTypeOK
  <2> QED BY <1>1, <2>1 DEF StopInv, Polls
<1> QED BY <1>3, <1>4, <1>5 DEF Orderly

LEMMA OrderlyInit == ASSUME AddonInit PROVE Orderly
BY HostNames DEF AddonInit, Orderly, Overlap, StartInv, ForgetInv, StopInv, Stopping, NoneLost, Runs

LEMMA RaceNext == ASSUME AddonTyped, RaceInv, [AddonNext]_addonVars PROVE RaceInv'
<1> SUFFICES ASSUME ~raced' PROVE Orderly'
  BY DEF RaceInv
<1>1. ~raced /\ Orderly /\ ~Overlap(step')
  <2>1. CASE UNCHANGED <<step, raced>>
    BY <2>1 DEF RaceInv, Orderly
  <2>2. CASE raced' = (raced \/ Overlap(step'))
    BY <2>2 DEF RaceInv
  <2> QED BY <2>1, <2>2, RaceNoticed DEF Noticed
<1>2. Calm => Orderly'
  BY <1>1, CalmKeepsOrder
<1>3. ASSUME NEW c \in Callers, BeginCall(c) PROVE Orderly'
  BY <1>2, <1>3, CallIsCalm, AddonAssumption DEF HostThreads
<1>4. ASSUME NEW c \in HostThreads,
             StartCheck(c) \/ Submit(c) \/ CallReturns(c) \/ CallExpires(c) \/ KillForTimeout(c)
      PROVE  Orderly'
  BY <1>2, <1>4, CallIsCalm
<1>5. ASSUME NEW c \in HostThreads, SpawnHost(c) PROVE Orderly'
  BY <1>1, <1>5, SpawnKeepsOrder
<1>6. ASSUME NEW c \in HostThreads, Forget(c) PROVE Orderly'
  BY <1>1, <1>6, ForgetKeepsOrder
<1>7. CASE Clear
  BY <1>1, <1>7, ForgetKeepsOrder, HostNames
<1>8. CASE StopHost
  BY <1>1, <1>8, StopKeepsOrder
<1>9. CASE Terminate \/ ShutExecutor \/ DropHost
  BY <1>2, <1>9, StoppingIsCalm
<1>10. CASE TakeCall \/ ReadLine \/ ReadHostEof \/ (\E p \in Hosts : Serve(p) \/ EndHost(p))
            \/ UNCHANGED addonVars
  BY <1>2, <1>10, OthersAreCalm
<1> QED
  BY <1>3, <1>4, <1>5, <1>6, <1>7, <1>8, <1>9, <1>10 DEF AddonNext, AddonUserStep, AddonSystemStep

LEMMA OrderlyLoses == ASSUME AddonTyped, RaceInv PROVE LostOnlyByARace
BY HostNames DEF RaceInv, Orderly, NoneLost, Runs, LostOnlyByARace, Lost, AddonTyped, AddonTypeOK

-----------------------------------------------------------------------------
(* Nobody is left waiting *)

Early == {"idle", "check", "spawn"}
Places == {"idle", "check", "spawn", "submit", "waiting", "kill", "forget", "terminate", "reap",
           "clear", "shut down", "drop", "done"}
Born == {p \in Hosts : mode[p] # "unborn"}
Yet == {c \in HostThreads : step[c] \in Early}

\* A thread that waits has a future.
WaitInv == \A c \in HostThreads : step[c] = "waiting" => future[c] # "none"

\* Only the stopping thread stops the host.
CallerInv == \A c \in Callers : step[c] \notin {"terminate", "reap", "clear", "shut down", "drop"}

\* Who is referred to was started, and the process that is waited for was killed.
BornInv == \A p \in Hosts : p = proc \/ (\E c \in HostThreads : held[c] = p) => mode[p] # "unborn"
ReapInv == step[Stopper] = "reap" => ~Polls(held[Stopper]) \/ mode[held[Stopper]] = "killed"

\* Every thread that has yet to start a process finds one that was never used.
SpareInv == Cardinality(Born) + Cardinality(Yet) <= Cardinality(HostThreads)

MoveInv == WaitInv /\ CallerInv /\ BornInv /\ ReapInv /\ SpareInv

LEMMA ThreadsFinite ==
    /\ IsFiniteSet(HostThreads) /\ Cardinality(HostThreads) \in Nat
    /\ IsFiniteSet(Hosts) /\ Cardinality(Hosts) = Cardinality(HostThreads)
<1>1. IsFiniteSet(HostThreads)
  BY AddonAssumption, FS_AddElement DEF HostThreads
<1>2. Cardinality(HostThreads) \in Nat
  BY <1>1, FS_CardinalityType
<1>3. IsFiniteSet(Hosts) /\ Cardinality(Hosts) = Cardinality(HostThreads)
  BY <1>2, FS_Interval DEF Hosts
<1> QED BY <1>1, <1>2, <1>3

LEMMA MoveInit == ASSUME AddonInit PROVE MoveInv
<1> USE HostNames
<1>1. WaitInv /\ CallerInv /\ BornInv /\ ReapInv
  BY DEF AddonInit, WaitInv, CallerInv, BornInv, ReapInv, HostThreads
<1>2. Born = {} /\ Yet = HostThreads
  BY DEF AddonInit, Born, Yet, Early
<1>3. SpareInv
  BY <1>2, ThreadsFinite, FS_EmptySet DEF SpareInv
<1> QED BY <1>1, <1>3 DEF MoveInv

\* What a step does to the place of a thread.
Steps(c, to) ==
    /\ step' = [step EXCEPT ![c] = to]
    /\ to \in Early => step[c] \in Early
    /\ to = "waiting" => future'[c] # "none"
    /\ to \in {"terminate", "reap", "clear", "shut down", "drop"} => c = Stopper

\* A step that starts nothing.
Steady ==
    /\ step' = step \/ \E c \in HostThreads, to \in Places : Steps(c, to)
    /\ \A c \in HostThreads : step[c] = "waiting" /\ future[c] # "none" => future'[c] # "none" \/ step'[c] # "waiting"
    /\ \A p \in Hosts : mode'[p] = "unborn" <=> mode[p] = "unborn"
    /\ proc' \in {0, proc}
    /\ \A c \in HostThreads : held'[c] \in {0, proc, held[c]}
    /\ step'[Stopper] = "reap" =>
          \/ /\ step[Stopper] = "reap"
             /\ held' = held
             /\ \A p \in Hosts : mode[p] \in {"killed", "ended"} => mode'[p] \in {"killed", "ended"}
          \/ ~Polls(held[Stopper])' \/ mode'[held'[Stopper]] = "killed"

LEMMA SteadyMoves == ASSUME AddonTyped, MoveInv, Steady PROVE MoveInv'
<1> USE HostNames
<1>0. /\ step \in [HostThreads -> Places] /\ proc \in Hosts \cup {0}
      /\ held \in [HostThreads -> Hosts \cup {0}]
      /\ mode \in [Hosts -> Modes]
  BY DEF AddonTyped, AddonTypeOK, Places, Modes
<1>1. WaitInv'
  BY <1>0 DEF MoveInv, WaitInv, Steady, Steps
<1>2. CallerInv'
  <2>1. CASE step' = step
    BY <2>1 DEF MoveInv, CallerInv
  <2>2. ASSUME NEW c \in HostThreads, NEW to \in Places, Steps(c, to) PROVE CallerInv'
    <3>1. \A d \in Callers : d # Stopper /\ d \in HostThreads
      BY AddonAssumption DEF HostThreads
    <3>2. \A d \in Callers : step'[d] = step[d] \/ (d = c /\ step'[d] = to)
      BY <1>0, <2>2, <3>1 DEF Steps
    <3> QED BY <2>2, <3>1, <3>2 DEF MoveInv, CallerInv, Steps
  <2> QED BY <2>1, <2>2 DEF Steady
<1>3. BornInv'
  BY <1>0 DEF MoveInv, BornInv, Steady
<1>4. ReapInv'
  <2> SUFFICES ASSUME step'[Stopper] = "reap", step[Stopper] = "reap", held' = held,
                      \A p \in Hosts : mode[p] \in {"killed", "ended"} => mode'[p] \in {"killed", "ended"}
               PROVE  ~Polls(held[Stopper])' \/ mode'[held'[Stopper]] = "killed"
    BY DEF Steady, ReapInv
  <2>1. held[Stopper] = 0 \/ mode[held[Stopper]] \in {"unborn", "killed", "ended"}
    BY DEF MoveInv, ReapInv, Polls
  <2> QED BY <1>0, <2>1 DEF Steady, Polls
<1>5. SpareInv'
  <2>1. Born' = Born
    BY DEF Born, Steady
  <2>2. Yet' \subseteq Yet
    BY <1>0 DEF Yet, Steady, Steps
  <2>3. Yet \subseteq HostThreads /\ Born \subseteq Hosts
    BY DEF Yet, Born
  <2>4. IsFiniteSet(Yet) /\ IsFiniteSet(Born)
    BY <2>3, ThreadsFinite, FS_Subset
  <2>5. Cardinality(Yet') <= Cardinality(Yet) /\ IsFiniteSet(Yet')
    BY <2>2, <2>4, FS_Subset
  <2>6. Cardinality(Yet') \in Nat /\ Cardinality(Yet) \in Nat /\ Cardinality(Born) \in Nat
    BY <2>4, <2>5, FS_CardinalityType
  <2> QED BY <2>1, <2>5, <2>6, ThreadsFinite DEF MoveInv, SpareInv
<1> QED BY <1>1, <1>2, <1>3, <1>4, <1>5 DEF MoveInv

LEMMA SpawnMoves == ASSUME AddonTyped, MoveInv, NEW c \in HostThreads, SpawnHost(c) PROVE MoveInv'
<1> USE HostNames
<1>0. /\ step \in [HostThreads -> Places] /\ proc \in Hosts \cup {0}
      /\ held \in [HostThreads -> Hosts \cup {0}]
      /\ mode \in [Hosts -> Modes]
  BY DEF AddonTyped, AddonTypeOK, Places, Modes
<1>1. PICK p \in Hosts : mode[p] = "unborn" /\ proc' = p /\ mode' = [mode EXCEPT ![p] = "serving"]
  BY DEF SpawnHost
<1>2. /\ step[c] = "spawn" /\ step' = [step EXCEPT ![c] = "submit"]
      /\ UNCHANGED <<future, held>>
  BY DEF SpawnHost, Goto
<1>3. WaitInv' /\ CallerInv'
  BY <1>0, <1>2, AddonAssumption DEF MoveInv, WaitInv, CallerInv, HostThreads
<1>4. BornInv'
  BY <1>0, <1>1, <1>2 DEF MoveInv, BornInv
<1>5. ReapInv'
  BY <1>0, <1>1, <1>2 DEF MoveInv, ReapInv, BornInv, Polls
<1>6. SpareInv'
  <2>1. Born' = Born \cup {p} /\ p \notin Born
    BY <1>0, <1>1 DEF Born
  <2>2. Yet' = Yet \ {c} /\ c \in Yet
    BY <1>0, <1>2 DEF Yet, Early
  <2>3. Yet \subseteq HostThreads /\ Born \subseteq Hosts
    BY DEF Yet, Born
  <2>4. IsFiniteSet(Yet) /\ IsFiniteSet(Born)
    BY <2>3, ThreadsFinite, FS_Subset
  <2>5. Cardinality(Born') = Cardinality(Born) + 1
    BY <2>1, <2>4, FS_AddElement
  <2>6. Cardinality(Yet') = Cardinality(Yet) - 1
    BY <2>2, <2>4, FS_RemoveElement
  <2>7. Cardinality(Yet) \in Nat /\ Cardinality(Born) \in Nat
    BY <2>4, FS_CardinalityType
  <2> QED BY <2>5, <2>6, <2>7, ThreadsFinite DEF MoveInv, SpareInv
<1> QED BY <1>3, <1>4, <1>5, <1>6 DEF MoveInv

\* A thread's step that changes no process but by killing it.
LEMMA ThreadSteady ==
    ASSUME AddonTyped, NEW c \in HostThreads, NEW to \in Places \ {"reap"}, Steps(c, to),
           c = Stopper \/ held' = held,
           \A d \in HostThreads : held'[d] \in {0, proc, held[d]},
           proc' \in {0, proc},
           \A d \in HostThreads : future'[d] \in {future[d], "cancelled"} \/ d = c,
           mode' = mode \/ \E p \in Hosts : mode[p] # "unborn" /\ mode' = [mode EXCEPT ![p] = "killed"]
    PROVE  Steady
<1> USE HostNames
<1>0. step \in [HostThreads -> Places] /\ mode \in [Hosts -> Modes]
  BY DEF AddonTyped, AddonTypeOK, Places, Modes
<1>1. \A d \in HostThreads : step[d] = "waiting" /\ future[d] # "none" => future'[d] # "none" \/ step'[d] # "waiting"
  BY <1>0 DEF Steps
<1>2. \A p \in Hosts : mode'[p] = "unborn" <=> mode[p] = "unborn"
  BY <1>0
<1>3. \A p \in Hosts : mode[p] \in {"killed", "ended"} => mode'[p] \in {"killed", "ended"}
  BY <1>0
<1>4. step'[Stopper] = "reap" => step[Stopper] = "reap" /\ held' = held
  BY <1>0 DEF Steps
<1> QED BY <1>1, <1>2, <1>3, <1>4 DEF Steady

LEMMA CallSteady ==
    ASSUME AddonTyped, MoveInv, NEW c \in HostThreads,
           \/ c # Stopper /\ BeginCall(c)
           \/ StartCheck(c) \/ Submit(c) \/ CallReturns(c) \/ CallExpires(c)
           \/ KillForTimeout(c) \/ Forget(c)
    PROVE  Steady
<1> USE HostNames DEF Goto, hostVars, poolVars, Places, Early
<1>0. /\ proc \in Hosts \cup {0}
      /\ future \in [HostThreads -> WithoutResult \cup HostThreads]
      /\ mode \in [Hosts -> Modes]
  BY DEF AddonTyped, AddonTypeOK, Modes
<1>1. CASE c # Stopper /\ BeginCall(c)
  <2>1. Steps(c, "check")
    BY <1>1 DEF BeginCall, Steps
  <2> QED BY <1>1, <2>1, ThreadSteady DEF BeginCall
<1>2. CASE StartCheck(c)
  <2>1. PICK to \in {"spawn", "submit"} : step' = [step EXCEPT ![c] = to]
    BY <1>2 DEF StartCheck
  <2>2. Steps(c, to)
    BY <1>2, <2>1 DEF StartCheck, Steps
  <2> QED BY <1>2, <2>2, ThreadSteady DEF StartCheck
<1>3. CASE Submit(c)
  <2>1. PICK to \in {"terminate", "done", "waiting"} :
           /\ step' = [step EXCEPT ![c] = to]
           /\ to = "terminate" => c = Stopper
           /\ to = "waiting" => future' = [future EXCEPT ![c] = "queued"]
    BY <1>3 DEF Submit, AfterCall
  <2>2. Steps(c, to)
    BY <1>0, <2>1 DEF Steps
  <2>3. \A d \in HostThreads : future'[d] \in {future[d], "cancelled"} \/ d = c
    BY <1>0, <1>3 DEF Submit
  <2> QED BY <1>3, <2>2, <2>3, ThreadSteady DEF Submit
<1>4. CASE CallReturns(c)
  <2>1. PICK to \in {"terminate", "done"} :
           step' = [step EXCEPT ![c] = to] /\ (to = "terminate" => c = Stopper)
    BY <1>4 DEF CallReturns, AfterCall
  <2>2. Steps(c, to)
    BY <2>1 DEF Steps
  <2>3. \A d \in HostThreads : future'[d] \in {future[d], "cancelled"} \/ d = c
    BY <1>0, <1>4 DEF CallReturns
  <2> QED BY <1>4, <2>2, <2>3, ThreadSteady DEF CallReturns
<1>5. CASE CallExpires(c)
  <2>1. Steps(c, "kill")
    BY <1>5 DEF CallExpires, Steps
  <2> QED BY <1>5, <2>1, ThreadSteady DEF CallExpires
<1>6. CASE KillForTimeout(c)
  <2>1. Steps(c, "forget")
    BY <1>6 DEF KillForTimeout, Steps
  <2>2. mode' = mode \/ \E p \in Hosts : mode[p] # "unborn" /\ mode' = [mode EXCEPT ![p] = "killed"]
    BY <1>0, <1>6 DEF KillForTimeout, Polls
  <2> QED BY <1>6, <2>1, <2>2, ThreadSteady DEF KillForTimeout
<1>7. CASE Forget(c)
  <2>1. PICK to \in {"terminate", "done"} :
           step' = [step EXCEPT ![c] = to] /\ (to = "terminate" => c = Stopper)
    BY <1>7 DEF Forget, AfterCall
  <2>2. Steps(c, to)
    BY <2>1 DEF Steps
  <2> QED BY <1>7, <2>2, ThreadSteady DEF Forget
<1> QED BY <1>1, <1>2, <1>3, <1>4, <1>5, <1>6, <1>7

LEMMA StopSteady ==
    ASSUME AddonTyped, MoveInv, StopHost \/ Terminate \/ Clear \/ ShutExecutor \/ DropHost
    PROVE  Steady
<1> USE HostNames DEF Goto, hostVars, poolVars, Places, Early
<1>0. /\ step \in [HostThreads -> Places] /\ proc \in Hosts \cup {0}
      /\ held \in [HostThreads -> Hosts \cup {0}]
      /\ mode \in [Hosts -> Modes]
  BY DEF AddonTyped, AddonTypeOK, Modes
<1>1. CASE StopHost
  <2>1. PICK to \in {"drop", "check", "clear"} : step' = [step EXCEPT ![Stopper] = to]
    BY <1>1 DEF StopHost
  <2>2. Steps(Stopper, to)
    BY <1>1, <2>1 DEF StopHost, Steps
  <2>3. \A d \in HostThreads : held'[d] \in {0, proc, held[d]}
    BY <1>0, <1>1 DEF StopHost
  <2> QED BY <1>1, <2>2, <2>3, ThreadSteady DEF StopHost
<1>2. CASE Terminate /\ step[Stopper] = "terminate"
  <2>1. /\ step' = [step EXCEPT ![Stopper] = "reap"] /\ UNCHANGED <<held, proc, future>>
        /\ mode' = IF Polls(held[Stopper]) THEN [mode EXCEPT ![held[Stopper]] = "killed"] ELSE mode
    BY <1>2 DEF Terminate
  <2>2. Steps(Stopper, "reap")
    BY <2>1 DEF Steps
  <2>3. ~Polls(held[Stopper])' \/ mode'[held'[Stopper]] = "killed"
    BY <1>0, <2>1 DEF Polls
  <2>4. \A p \in Hosts : mode'[p] = "unborn" <=> mode[p] = "unborn"
    BY <1>0, <2>1 DEF Polls
  <2>5. \A d \in HostThreads : step[d] = "waiting" /\ future[d] # "none" => future'[d] # "none" \/ step'[d] # "waiting"
    BY <2>1
  <2> QED BY <2>1, <2>2, <2>3, <2>4, <2>5 DEF Steady
<1>3. CASE Terminate /\ step[Stopper] = "reap"
  <2>1. Steps(Stopper, "clear")
    BY <1>3 DEF Terminate, Steps
  <2> QED BY <1>3, <2>1, ThreadSteady DEF Terminate
<1>4. CASE Clear
  <2>1. Steps(Stopper, "shut down")
    BY <1>4 DEF Clear, Steps
  <2>2. \A d \in HostThreads : held'[d] \in {0, proc, held[d]}
    BY <1>0, <1>4 DEF Clear
  <2> QED BY <1>4, <2>1, <2>2, ThreadSteady DEF Clear
<1>5. CASE ShutExecutor
  <2>1. Steps(Stopper, "drop")
    BY <1>5 DEF ShutExecutor, Steps
  <2>2. \A d \in HostThreads : future'[d] \in {future[d], "cancelled"}
    BY <1>5 DEF ShutExecutor
  <2> QED BY <1>5, <2>1, <2>2, ThreadSteady DEF ShutExecutor
<1>6. CASE DropHost
  <2>1. Steps(Stopper, "done")
    BY <1>6 DEF DropHost, Steps
  <2> QED BY <1>6, <2>1, ThreadSteady DEF DropHost
<1> QED BY <1>1, <1>2, <1>3, <1>4, <1>5, <1>6 DEF Terminate

LEMMA OthersSteady ==
    ASSUME AddonTyped, MoveInv,
           \/ TakeCall \/ ReadLine \/ ReadHostEof
           \/ \E p \in Hosts : Serve(p) \/ EndHost(p)
           \/ UNCHANGED addonVars
    PROVE  Steady
<1> USE HostNames DEF hostVars, poolVars
<1>0. /\ mode \in [Hosts -> Modes]
      /\ future \in [HostThreads -> WithoutResult \cup HostThreads]
      /\ "none" \notin HostThreads
  BY DEF AddonTyped, AddonTypeOK, Modes, WithoutResult
<1>1. UNCHANGED <<step, proc, held>>
  BY DEF TakeCall, ReadLine, ReadHostEof, Serve, EndHost, addonVars
<1>2. \A d \in HostThreads : future[d] # "none" => future'[d] # "none"
  <2>1. CASE TakeCall
    BY <1>0, <2>1 DEF TakeCall, Settle
  <2>2. CASE ReadLine \/ ReadHostEof
    <3>1. UNCHANGED future \/ \E how \in HostThreads \cup {"failed"} : future' = [future EXCEPT ![running] = how]
      BY <2>2 DEF ReadLine, ReadHostEof, Settle
    <3> QED BY <1>0, <3>1
  <2>3. CASE (\E p \in Hosts : Serve(p) \/ EndHost(p)) \/ UNCHANGED addonVars
    BY <2>3 DEF Serve, EndHost, addonVars
  <2> QED BY <2>1, <2>2, <2>3
<1>3. /\ \A p \in Hosts : mode'[p] = "unborn" <=> mode[p] = "unborn"
      /\ \A p \in Hosts : mode[p] \in {"killed", "ended"} => mode'[p] \in {"killed", "ended"}
  <2>1. CASE TakeCall \/ ReadLine \/ ReadHostEof \/ UNCHANGED addonVars
    BY <2>1 DEF TakeCall, ReadLine, ReadHostEof, addonVars
  <2>2. ASSUME NEW p \in Hosts, Serve(p)
        PROVE  mode' = mode \/ (mode[p] = "serving" /\ mode' = [mode EXCEPT ![p] = "hung"])
    BY <2>2 DEF Serve
  <2>3. ASSUME NEW p \in Hosts, EndHost(p)
        PROVE  mode[p] \in {"killed", "serving"} /\ mode' = [mode EXCEPT ![p] = "ended"]
    BY <2>3 DEF EndHost
  <2> QED BY <1>0, <2>1, <2>2, <2>3
<1> QED BY <1>1, <1>2, <1>3 DEF Steady

LEMMA MoveNext == ASSUME AddonTyped, MoveInv, [AddonNext]_addonVars PROVE MoveInv'
<1>1. ASSUME NEW c \in Callers, BeginCall(c) PROVE MoveInv'
  BY <1>1, CallSteady, SteadyMoves, AddonAssumption DEF HostThreads
<1>2. ASSUME NEW c \in HostThreads,
             \/ StartCheck(c) \/ Submit(c) \/ CallReturns(c) \/ CallExpires(c)
             \/ KillForTimeout(c) \/ Forget(c)
      PROVE  MoveInv'
  BY <1>2, CallSteady, SteadyMoves
<1>3. ASSUME NEW c \in HostThreads, SpawnHost(c) PROVE MoveInv'
  BY <1>3, SpawnMoves
<1>4. CASE StopHost \/ Terminate \/ Clear \/ ShutExecutor \/ DropHost
  BY <1>4, StopSteady, SteadyMoves
<1>5. CASE TakeCall \/ ReadLine \/ ReadHostEof \/ (\E p \in Hosts : Serve(p) \/ EndHost(p))
           \/ UNCHANGED addonVars
  BY <1>5, OthersSteady, SteadyMoves
<1> QED
  BY <1>1, <1>2, <1>3, <1>4, <1>5 DEF AddonNext, AddonUserStep, AddonSystemStep

\* Whoever is not at an end can move: a caller that starts finds a process that was never used,
\* one that waits has a future it may give up, and what is reaped was killed.
LEMMA ThreadsMove == ASSUME AddonTyped, MoveInv PROVE CallsEnd
<1> USE HostNames
<1>0. /\ step \in [HostThreads -> Places] /\ held \in [HostThreads -> Hosts \cup {0}]
      /\ future \in [HostThreads -> WithoutResult \cup HostThreads]
  BY DEF AddonTyped, AddonTypeOK, Places
<1> SUFFICES ASSUME NEW c \in HostThreads, step[c] \notin {"idle", "done"}
             PROVE  CallHasStep(c) \/ StopHasStep \/ \E p \in Hosts : HostHasStep(p)
  BY DEF CallsEnd
<1>1. CASE step[c] \in {"check", "submit", "kill", "forget"}
  BY <1>1 DEF CallHasStep
<1>2. CASE step[c] = "spawn"
  <2>1. Yet \subseteq HostThreads /\ Born \subseteq Hosts /\ c \in Yet
    BY <1>2 DEF Yet, Born, Early
  <2>2. IsFiniteSet(Yet) /\ IsFiniteSet(Born)
    BY <2>1, ThreadsFinite, FS_Subset
  <2>3. Cardinality(Yet) \in Nat /\ Cardinality(Yet) # 0 /\ Cardinality(Born) \in Nat
    BY <2>1, <2>2, FS_CardinalityType, FS_EmptySet
  <2>4. Cardinality(Born) < Cardinality(Hosts)
    BY <2>3, ThreadsFinite DEF MoveInv, SpareInv
  <2>5. Born # Hosts
    BY <2>3, <2>4
  <2>6. \E p \in Hosts : mode[p] = "unborn"
    BY <2>5 DEF Born
  <2> QED BY <1>2, <2>6 DEF CallHasStep
<1>3. CASE step[c] = "waiting"
  BY <1>0, <1>3 DEF CallHasStep, HasOutcome, MayExpire, MoveInv, WaitInv, WithoutResult
<1>4. CASE step[c] \in {"terminate", "reap", "clear", "shut down", "drop"}
  <2>1. c = Stopper
    BY <1>4 DEF MoveInv, CallerInv, HostThreads
  <2>2. CASE step[c] = "reap" /\ Polls(held[Stopper])
    <3>1. held[Stopper] \in Hosts /\ mode[held[Stopper]] = "killed"
      BY <1>0, <2>1, <2>2 DEF MoveInv, ReapInv, Polls
    <3> QED BY <3>1 DEF HostHasStep
  <2> QED BY <1>4, <2>1, <2>2 DEF StopHasStep
<1> QED BY <1>0, <1>1, <1>2, <1>3, <1>4 DEF Places

-----------------------------------------------------------------------------
(* Theorems *)

LEMMA AddonTypedAlways == AddonSpec => []AddonTyped
<1>1. AddonInit => AddonTyped
  BY AddonTypedInit
<1>2. AddonTyped /\ [AddonNext]_addonVars => AddonTyped'
  BY AddonTypedNext
<1> QED BY <1>1, <1>2, PTL DEF AddonSpec

\* Every variable keeps its type, however many threads call the addon and however often it
\* misbehaves (addon_manager.py:84-208).
THEOREM AddonTypeCorrect == AddonSpec => []AddonTypeOK
<1>1. AddonTyped => AddonTypeOK
  BY DEF AddonTyped
<1> QED BY <1>1, AddonTypedAlways, PTL

\* A call is given its own result: what an earlier call left in the pipe is skipped
\* (addon_manager.py:184-193).
THEOREM OwnAnswerHolds == AddonSpec => []OwnAnswer
<1>1. AddonInit => OwnAnswer
  BY HostNames DEF AddonInit, OwnAnswer, WithoutResult
<1>2. AddonTyped /\ OwnAnswer /\ [AddonNext]_addonVars => OwnAnswer'
  BY AnswerNext
<1> QED BY <1>1, <1>2, AddonTypedAlways, PTL DEF AddonSpec

\* As long as no start overlaps another start, the end of a timeout or a stop, every process
\* that runs is the one a timeout or a stop would end (addon_manager.py:107-122, 141-156,
\* 195-203).
THEOREM LostOnlyByARaceHolds == AddonSpec => []LostOnlyByARace
<1>1. AddonInit => RaceInv
  BY OrderlyInit DEF RaceInv
<1>2. AddonTyped /\ RaceInv /\ [AddonNext]_addonVars => RaceInv'
  BY RaceNext
<1>3. AddonTyped /\ RaceInv => LostOnlyByARace
  BY OrderlyLoses
<1> QED BY <1>1, <1>2, <1>3, AddonTypedAlways, PTL DEF AddonSpec

\* Nobody is left waiting for ever, however many threads call the addon, hang it and stop it:
\* as long as a call or a stop has not come to its end, some thread or process can move
\* (addon_manager.py:165-173, 191-203).
THEOREM CallsEndHolds == AddonSpec => []CallsEnd
<1>1. AddonInit => MoveInv
  BY MoveInit
<1>2. AddonTyped /\ MoveInv /\ [AddonNext]_addonVars => MoveInv'
  BY MoveNext
<1>3. AddonTyped /\ MoveInv => CallsEnd
  BY ThreadsMove
<1> QED BY <1>1, <1>2, <1>3, AddonTypedAlways, PTL DEF AddonSpec

=============================================================================
