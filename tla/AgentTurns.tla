----------------------------- MODULE AgentTurns -----------------------------
(***************************************************************************)
(* The turns of an agent run, core/agent/runner.py _run_agent_loop: which  *)
(* agent of a team speaks next, when a final report is accepted, and what  *)
(* the user's pause, nudge, resume and cancel do to it.                    *)
(*                                                                         *)
(* The answer of a model is any of those the loop tells apart.  An agent   *)
(* is known by its place in the team; the loop finds a reviewer by role    *)
(* when it routes, and by name when it notes that a review was reported.   *)
(***************************************************************************)
EXTENDS Integers, Sequences, FiniteSets

CONSTANTS
    Teams,      \* the teams a task may have: sequences of agents
    MaxTurns    \* max_turns of the task

Roles == {"coordinator", "implementer", "reviewer"}
Agent == [role : Roles, calledReviewer : BOOLEAN]

ASSUME TurnsAssumption ==
    /\ MaxTurns \in Nat \ {0}
    /\ \A t \in Teams :
          /\ t \in Seq(Agent) /\ t # <<>>
          /\ \A r \in Roles \ {"implementer"} :
                \A i, j \in DOMAIN t : t[i].role = r /\ t[j].role = r => i = j

\* Nobody but a reviewer is called one: the loop would take what it says for a review.
ASSUME NamesAssumption ==
    \A t \in Teams : \A i \in DOMAIN t : t[i].calledReviewer => t[i].role = "reviewer"

VARIABLES
    team,       \* the agents of the task, in their order
    phase,      \* where the loop is
    turn,       \* turn_idx
    current,    \* current_agent
    previous,   \* consecutive_agent
    count,      \* consecutive_turns
    holds,      \* finals of this agent held since its consecutive turns began
    streak,     \* repeated_failure_streaks: how often each agent's last failure repeated
    review,     \* review_status
    owed,       \* a review was asked for and the reviewer has not reported since
    paused,     \* the pause flag of AgentRunControl
    nudge,      \* a nudge that is not on the board yet waits in it
    missed,     \* one came while a final was held, and no turn has begun since
    stop,       \* its cancel flag
    outcome     \* how the run ended

turnVars == <<team, phase, turn, current, previous, count, holds, streak, review, owed,
              paused, nudge, missed, stop, outcome>>
userVars == <<paused, nudge, missed, stop>>

Agents == DOMAIN team

TurnsTypeOK ==
    /\ team \in Teams
    /\ phase \in {"top", "waiting", "model", "held", "over"}
    /\ turn \in 0 .. MaxTurns
    /\ current \in Agents
    /\ previous \in Agents
    /\ count \in 0 .. MaxTurns
    /\ holds \in 0 .. MaxTurns
    /\ streak \in [Agents -> 0 .. 2]
    /\ review \in {"none", "pending", "reported"}
    /\ owed \in BOOLEAN
    /\ paused \in BOOLEAN
    /\ nudge \in BOOLEAN
    /\ missed \in BOOLEAN
    /\ stop \in BOOLEAN
    /\ outcome \in {"none", "accepted", "stopped", "limit", "cancelled"}

TurnsInit ==
    /\ team \in Teams
    /\ phase = "top"
    /\ turn = 0
    /\ current = 1
    /\ previous = 1
    /\ count = 0
    /\ holds = 0
    /\ streak = [a \in Agents |-> 0]
    /\ review = "none"
    /\ owed = FALSE
    /\ paused = FALSE
    /\ nudge = FALSE
    /\ missed = FALSE
    /\ stop = FALSE
    /\ outcome = "none"

-----------------------------------------------------------------------------
(* Who is who *)

\* 0 where the team has no such agent.
TheOne(role) ==
    IF \E a \in Agents : team[a].role = role
    THEN CHOOSE a \in Agents : team[a].role = role
    ELSE 0

FirstImplementer(a) ==
    team[a].role = "implementer" /\ \A b \in Agents : team[b].role = "implementer" => a <= b

\* The index by role keeps the last one.
LastImplementer(a) ==
    team[a].role = "implementer" /\ \A b \in Agents : team[b].role = "implementer" => b <= a

AnImplementer ==
    IF \E a \in Agents : LastImplementer(a)
    THEN CHOOSE a \in Agents : LastImplementer(a)
    ELSE 0

RoundRobin(a) == (a % Len(team)) + 1

FirstOf(a, b) == IF a # 0 THEN a ELSE b

\* The coordinator, or whoever is next where that is the agent itself or nobody.
Elsewhere(a) ==
    IF TheOne("coordinator") \notin {0, a} THEN TheOne("coordinator") ELSE RoundRobin(a)

\* 0 where the agent decides itself.
Authority(a) ==
    IF TheOne("coordinator") # 0
    THEN IF TheOne("coordinator") # a THEN TheOne("coordinator") ELSE 0
    ELSE IF TheOne("reviewer") \notin {0, a} THEN TheOne("reviewer") ELSE 0

Deferred(a) ==
    IF team[a].role # "coordinator" \/ Len(team) < 2 \/ turn # 0 \/ turn + 1 >= MaxTurns THEN 0
    ELSE IF \E b \in Agents : FirstImplementer(b)
         THEN CHOOSE b \in Agents : FirstImplementer(b)
         ELSE RoundRobin(a)

PendingReview(a) ==
    IF team[a].role = "coordinator" /\ review = "pending" THEN TheOne("reviewer") ELSE 0

Statuses == {"", "continue", "ready_for_review", "review", "done", "changes_requested",
             "blocked", "other"}

\* What a status says of the next agent: "done" stands for "reviewed" too, "continue" for
\* "retry", "changes_requested" for "needs_changes", "blocked" for "coordination_needed".
ByStatus(a, status) ==
    IF status = "continue" THEN a
    ELSE IF status \in {"ready_for_review", "review"} THEN TheOne("reviewer")
    ELSE IF status = "changes_requested" THEN FirstOf(TheOne("coordinator"), AnImplementer)
    ELSE IF status = "blocked" \/ (status = "done" /\ team[a].role = "reviewer")
    THEN TheOne("coordinator")
    ELSE 0

HasHadEnough_Later(a) == count > 4

HasHadEnough(a) == count >= 4

\* A turn asks for no agent,
NoWish == 0

\* or for one the team does not have.
Unknown == Len(team) + 1

\* The agent that was asked for, by next_agent or by a message, then the one of the status;
\* who failed or has written goes on.
SelectNext(a, wish, status, result) ==
    LET asked == IF wish \in Agents THEN wish ELSE ByStatus(a, status)
        selected == IF asked # 0 THEN asked
                    ELSE IF result \in {"same failure", "failure", "wrote"} THEN a
                    ELSE RoundRobin(a)
    IN IF selected = a /\ HasHadEnough(a) THEN Elsewhere(a) ELSE selected

AsksForReview_Once(a, status) ==
    status \in {"ready_for_review", "review"} /\ ~team[a].calledReviewer /\ review = "none"

AsksForReview(a, status) ==
    status \in {"ready_for_review", "review"} /\ ~team[a].calledReviewer

ReportsReview(a, status) ==
    status \in {"done", "ready_for_review", "changes_requested"} /\ team[a].calledReviewer

\* _update_task_state, as far as the review goes.
NoteStatus(a, status) ==
    /\ review' = IF ReportsReview(a, status) THEN "reported"
                 ELSE IF AsksForReview(a, status) THEN "pending" ELSE review
    /\ owed' = IF team[a].role = "reviewer"
               THEN owed /\ status \notin {"done", "ready_for_review", "changes_requested"}
               ELSE owed \/ status \in {"ready_for_review", "review"}

-----------------------------------------------------------------------------
(* The loop *)

End(how) ==
    /\ phase' = "over"
    /\ outcome' = how

TurnOf_NoLimit(b) ==
    /\ current' = b
    /\ turn' = turn + 1
    /\ phase' = "top" /\ UNCHANGED outcome

\* The next turn is the one of agent b.
TurnOf(b) ==
    /\ current' = b
    /\ turn' = turn + 1
    /\ IF turn + 1 = MaxTurns THEN End("limit") ELSE phase' = "top" /\ UNCHANGED outcome

\* The nudges go to the board.
Drain ==
    /\ nudge' = FALSE
    /\ UNCHANGED <<paused, stop>>

BeginTurn ==
    /\ phase' = "model"
    /\ missed' = FALSE
    /\ previous' = current
    /\ count' = IF current = previous THEN count + 1 ELSE 1
    /\ holds' = IF current = previous THEN holds ELSE 0

\* raise_if_cancelled, the nudges, and the wait of a paused run.
TopOfLoop ==
    /\ phase = "top"
    /\ IF stop
       THEN End("cancelled") /\ UNCHANGED <<previous, count, holds, userVars>>
       ELSE /\ Drain
            /\ IF paused
               THEN phase' = "waiting" /\ UNCHANGED <<previous, count, holds, missed>>
               ELSE BeginTurn
            /\ UNCHANGED outcome
    /\ UNCHANGED <<team, turn, current, streak, review, owed>>

Resumed ==
    /\ phase = "waiting"
    /\ ~paused \/ stop
    /\ IF stop
       THEN End("cancelled") /\ UNCHANGED <<previous, count, holds, userVars>>
       ELSE BeginTurn /\ Drain /\ UNCHANGED outcome
    /\ UNCHANGED <<team, turn, current, streak, review, owed>>

\* The answer cannot be parsed, nor repaired, or the model's route is blocked for good.
ModelFails ==
    /\ phase = "model"
    /\ End("stopped")
    /\ UNCHANGED <<team, turn, current, previous, count, holds, streak, review, owed, userVars>>

\* A final report is sent on: one that only waits for others, to an implementer; one of the
\* coordinator, while a review is pending, to the reviewer; one of another agent, to whom it
\* takes to complete the task.
RouteFinal ==
    /\ phase = "model"
    /\ \/ /\ Deferred(current) # 0
          /\ TurnOf(Deferred(current))
          /\ UNCHANGED <<review, owed>>
       \/ /\ PendingReview(current) # 0
          /\ TurnOf(PendingReview(current))
          /\ UNCHANGED <<review, owed>>
       \/ /\ PendingReview(current) = 0
          /\ Authority(current) # 0
          /\ TurnOf(Authority(current))
          /\ IF team[current].role = "reviewer"
             THEN review' = "reported" /\ owed' = FALSE
             ELSE UNCHANGED <<review, owed>>
    /\ UNCHANGED <<team, previous, count, holds, streak, userVars>>

\* A final report of the agent that may give it: the pause comes before it is accepted.
GiveFinal ==
    /\ phase = "model"
    /\ PendingReview(current) = 0
    /\ Authority(current) = 0
    /\ IF paused THEN phase' = "held" /\ UNCHANGED outcome ELSE End("accepted")
    /\ UNCHANGED <<team, turn, current, previous, count, holds, streak, review, owed, userVars>>

\* A nudge that came meanwhile makes the report stale.
HeldFinal ==
    /\ phase = "held"
    /\ ~paused \/ stop
    /\ IF stop
       THEN End("cancelled") /\ UNCHANGED <<turn, current, holds, userVars>>
       ELSE /\ Drain /\ UNCHANGED missed
            /\ IF nudge
               THEN TurnOf(current) /\ holds' = holds + 1
               ELSE End("accepted") /\ UNCHANGED <<turn, current, holds>>
    /\ UNCHANGED <<team, previous, count, streak, review, owed>>

\* An answer without tool calls: the run ends where it says nothing of how to go on.
Talk ==
    /\ phase = "model"
    /\ \E status \in Statuses, wish \in Agents \cup {NoWish, Unknown} :
          LET next == SelectNext(current, wish, status, "ok") IN
          /\ NoteStatus(current, status)
          /\ IF next = current /\ wish = NoWish /\ status = ""
             THEN End("stopped") /\ UNCHANGED <<turn, current>>
             ELSE TurnOf(next)
    /\ UNCHANGED <<team, previous, count, holds, streak, userVars>>

Results == {"ok", "wrote", "same failure", "failure"}

\* The third equal failure in a row sends the run elsewhere.
RunCalls ==
    /\ phase = "model"
    /\ ~stop
    /\ \E status \in Statuses, wish \in Agents \cup {NoWish}, result \in Results :
          /\ result = "same failure" => streak[current] > 0
          /\ NoteStatus(current, status)
          /\ IF result = "same failure" /\ streak[current] = 2
             THEN /\ streak' = [streak EXCEPT ![current] = 0]
                  /\ TurnOf(Elsewhere(current))
             ELSE /\ streak' = [streak EXCEPT ![current] =
                                   IF result = "same failure" THEN @ + 1
                                   ELSE IF result = "failure" THEN 1 ELSE 0]
                  /\ TurnOf(SelectNext(current, wish, status, result))
    /\ UNCHANGED <<team, previous, count, holds, userVars>>

CallsCancelled ==
    /\ phase = "model"
    /\ stop
    /\ End("cancelled")
    /\ UNCHANGED <<team, turn, current, previous, count, holds, streak, review, owed, userVars>>

-----------------------------------------------------------------------------
(* The user: brain.agent.control and brain.cancel *)

Pause ==
    /\ paused' = TRUE
    /\ UNCHANGED <<nudge, missed, stop>>

Resume ==
    /\ paused' = FALSE
    /\ UNCHANGED <<nudge, missed, stop>>

\* One that repeats a message already on the board is dropped, and left out here.
AddNudge ==
    /\ nudge' = TRUE
    /\ missed' = (missed \/ phase = "held")
    /\ UNCHANGED <<paused, stop>>

Cancel ==
    /\ stop' = TRUE
    /\ UNCHANGED <<paused, nudge, missed>>

UserControl ==
    /\ phase # "over"
    /\ Pause \/ Resume \/ AddNudge \/ Cancel
    /\ UNCHANGED <<team, phase, turn, current, previous, count, holds, streak, review, owed, outcome>>

TurnsNext ==
    \/ TopOfLoop \/ Resumed \/ ModelFails \/ RouteFinal \/ GiveFinal \/ HeldFinal
    \/ Talk \/ RunCalls \/ CallsCancelled
    \/ UserControl

TurnsSpec == TurnsInit /\ [][TurnsNext]_turnVars

-----------------------------------------------------------------------------
(* Properties *)

\* In a team no agent takes more than four turns in a row, whatever the models answer and
\* whoever they ask for, but for those that repeat a final report the user had held
\* (runner.py:2196-2206; every other way to the next turn leads to another agent).
NoAgentHogsTheRun == Len(team) > 1 /\ phase # "over" => count <= 4 + holds

\* The report of a coordinator is accepted only when nobody is still waited for: the reviewer
\* has reported on the last review that was asked for, though reviews are noted by name and
\* routed by role, and a nudge given while the report was held is on the board
\* (runner.py:336-437, 711-717, 1078-1086).
AcceptedIsDue ==
    outcome = "accepted" =>
        /\ ~missed
        /\ TheOne("coordinator") # 0 =>
              /\ current = TheOne("coordinator")
              /\ TheOne("reviewer") # 0 => ~owed

=============================================================================
