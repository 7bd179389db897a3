-------------------------- MODULE RecorderContract --------------------------
(***************************************************************************)
(* What the recorder of the audio worker promises the flows that use it:   *)
(* the requests are served in any order but one at a time, a start replaces*)
(* the recording in progress even if its own stream does not open, and a   *)
(* stop ends the recording in progress and hands over all or nothing of it.*)
(* A start is served in two steps, for the old recording ends first.       *)
(***************************************************************************)
CONSTANTS Starts, Stops, None

VARIABLES
    rec,      \* the start request of the recording in progress, or None
    opener,   \* the start request that is being served, or None
    status,   \* how far each request is
    got       \* the recording each stop request took, None if it heard nothing
vars == <<rec, opener, status, got>>

Requests == Starts \cup Stops
Final == {"opened", "failed", "text", "empty", "error"}

TypeOK ==
    /\ rec \in Starts \cup {None}
    /\ opener \in Starts \cup {None}
    /\ status \in [Requests -> {"idle", "asked", "taken"} \cup Final]
    /\ got \in [Stops -> Starts \cup {None}]

Init ==
    /\ rec = None
    /\ opener = None
    /\ status = [r \in Requests |-> "idle"]
    /\ got = [r \in Stops |-> None]

Ask(r) ==
    /\ status[r] = "idle"
    /\ status' = [status EXCEPT ![r] = "asked"]
    /\ UNCHANGED <<rec, opener, got>>

(* A start is served: the old recording is over *)
Clear(s) ==
    /\ status[s] = "asked"
    /\ opener = None
    /\ opener' = s
    /\ rec' = None
    /\ UNCHANGED <<status, got>>

Open(s) ==
    /\ opener = s
    /\ opener' = None
    /\ rec' = s
    /\ status' = [status EXCEPT ![s] = "opened"]
    /\ UNCHANGED got

Fail(s) ==
    /\ opener = s
    /\ opener' = None
    /\ status' = [status EXCEPT ![s] = "failed"]
    /\ UNCHANGED <<rec, got>>

(* A stop takes the recording in progress, which may be too short to hold anything *)
Take(t) ==
    /\ status[t] = "asked"
    /\ opener = None
    /\ got' \in {[got EXCEPT ![t] = x] : x \in {rec, None}}
    /\ rec' = None
    /\ status' = [status EXCEPT ![t] = "taken"]
    /\ UNCHANGED opener

(* Only what was recorded gives text *)
Answer(t, result) ==
    /\ status[t] = "taken"
    /\ result = "text" => got[t] # None
    /\ status' = [status EXCEPT ![t] = result]
    /\ UNCHANGED <<rec, opener, got>>

Next ==
    \/ \E r \in Requests : Ask(r)
    \/ \E s \in Starts : Clear(s) \/ Open(s) \/ Fail(s)
    \/ \E t \in Stops : Take(t) \/ \E result \in {"text", "empty", "error"} : Answer(t, result)

Spec == Init /\ [][Next]_vars

=============================================================================
