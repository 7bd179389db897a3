------------------------------ MODULE MCBrain ------------------------------
(***************************************************************************)
(* Five components of the brain worker that share no state: the host of an *)
(* addon, the parallel round of an agent run, the turns of an agent run,   *)
(* the routes of a reply, the sign-in.  A behaviour is one of the          *)
(* component that part names; the others keep one initial state.           *)
(***************************************************************************)
EXTENDS AddonHost, AgentRound, AgentTurns, MCModelReply, MCSignIn, TLC

VARIABLE part

A(role, called) == [role |-> role, calledReviewer |-> called]

Solo == <<A("implementer", FALSE)>>

\* The default team; a coordinator with a reviewer of another name; a team without one.
MCTeams ==
    {Solo,
     <<A("coordinator", FALSE), A("implementer", FALSE), A("reviewer", TRUE)>>,
     <<A("coordinator", FALSE), A("reviewer", FALSE)>>,
     <<A("implementer", FALSE), A("implementer", FALSE), A("reviewer", TRUE)>>}

Init ==
    /\ part \in {"addon", "round", "turns", "reply", "signin"}
    /\ AddonInit
    /\ RoundInit
    /\ TurnsInit
    /\ ModelInit
    /\ SignInInit
    /\ \E f \in Files : content = [g \in Files |-> IF g = f THEN "original" ELSE "absent"]
    /\ part # "round" => asks = FALSE
    /\ part # "turns" => team = Solo
    /\ part # "reply" => cooling = {}

Next ==
    \/ part = "addon" /\ AddonNext /\ UNCHANGED <<part, roundVars, turnVars, modelVars, signInVars>>
    \/ part = "round" /\ RoundNext /\ UNCHANGED <<part, addonVars, turnVars, modelVars, signInVars>>
    \/ part = "turns" /\ TurnsNext /\ UNCHANGED <<part, addonVars, roundVars, modelVars, signInVars>>
    \/ part = "reply" /\ ModelNext /\ UNCHANGED <<part, addonVars, roundVars, turnVars, signInVars>>
    \/ part = "signin" /\ SignInNext /\ UNCHANGED <<part, addonVars, roundVars, turnVars, modelVars>>

Spec == Init /\ [][Next]_<<part, addonVars, roundVars, turnVars, modelVars, signInVars>>

TypeOK ==
    /\ part = "addon" => AddonTypeOK
    /\ part = "round" => RoundTypeOK
    /\ part = "turns" => TurnsTypeOK
    /\ part = "reply" => ReplyTypeOK
    /\ part = "signin" => SignInTypeOK

Symmetry == Permutations(Callers) \cup Permutations(Workers) \cup Permutations(Files)

=============================================================================
