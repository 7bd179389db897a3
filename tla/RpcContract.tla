---------------------------- MODULE RpcContract ----------------------------
(***************************************************************************)
(* What a WorkerClient promises its callers, one request at a time.  A     *)
(* request is run by at most one worker, and once at most; its result is   *)
(* returned only if it ran; an error that says it could not be written     *)
(* means it never runs.  After "timed out" or "worker exited" the caller   *)
(* cannot tell: the request may have run, and may even run later.          *)
(***************************************************************************)
CONSTANTS Requests, Workers

VARIABLES
    status,   \* what the caller knows of each request
    ran       \* the workers that ran it
vars == <<status, ran>>

Status == {"idle", "open", "answered", "rejected", "unknown", "posted"}

Init ==
    /\ status = [r \in Requests |-> "idle"]
    /\ ran = [r \in Requests |-> {}]

Moves(r, from, to) ==
    /\ status[r] = from
    /\ status' = [status EXCEPT ![r] = to]
    /\ UNCHANGED ran

Issue(r)  == Moves(r, "idle", "open")
Answer(r) == ran[r] # {} /\ Moves(r, "open", "answered")
Reject(r) == ran[r] = {} /\ Moves(r, "open", "rejected")
GiveUp(r) == Moves(r, "open", "unknown")
Post(r)   == Moves(r, "open", "posted")

Run(r, w) ==
    /\ status[r] \notin {"idle", "rejected"}
    /\ ran[r] = {}
    /\ ran' = [ran EXCEPT ![r] = {w}]
    /\ UNCHANGED status

Next ==
    \E r \in Requests :
        \/ Issue(r) \/ Answer(r) \/ Reject(r) \/ GiveUp(r) \/ Post(r)
        \/ \E w \in Workers : Run(r, w)

Spec == Init /\ [][Next]_vars

=============================================================================
