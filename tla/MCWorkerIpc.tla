---------------------------- MODULE MCWorkerIpc ----------------------------
(* Small instances of WorkerIpc: the cfg files give the constants. *)
EXTENDS WorkerIpc, TLC

(* The worker as start_all leaves it: one process, pinged and idle *)
StartedInit ==
    /\ proc = 1 /\ spawned = 1 /\ live = {1}
    /\ lock = Nobody /\ dying = NoProc /\ quitting = {}
    /\ restartCount = 0 /\ shuttingDown = FALSE /\ shutdowns = 0 /\ stop = "no"
    /\ rc = [p \in Procs |-> "none"]
    /\ pc = [t \in Threads |-> IF t \in Callers THEN "idle"
                               ELSE IF t = 1 THEN "reading" ELSE "unborn"]
    /\ kind = [t \in Threads |-> "call"]
    /\ target = [t \in Threads |-> NoProc]
    /\ slot = [t \in Threads |-> "empty"]
    /\ outcome = [t \in Threads |-> "none"]
    /\ stdin = [p \in Procs |-> {}]
    /\ stdout = [p \in Procs |-> <<>>]
    /\ served = [t \in Threads |-> {}]
    /\ pending = {} /\ scoped = {} /\ emitted = {} /\ delivered = {} /\ strayed = {}

StartedSpec == StartedInit /\ [][Next]_vars
StartedFairSpec == StartedSpec /\ Fairness

CallersSymmetry == Permutations(Callers)

=============================================================================
