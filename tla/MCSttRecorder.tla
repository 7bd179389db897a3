--------------------------- MODULE MCSttRecorder ---------------------------
(* Small instances of SttRecorder: the cfg files give the other constants. *)
EXTENDS SttRecorder, TLC

(* Two cadences that respect CadenceAssumption *)
TwoSettings ==
    {[first |-> 1, step |-> 1, overlap |-> 2, delay |-> 1],
     [first |-> 2, step |-> 2, overlap |-> 1, delay |-> 0]}

OneSetting == {[first |-> 1, step |-> 1, overlap |-> 0, delay |-> 1]}

=============================================================================
