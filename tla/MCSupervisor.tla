---------------------------- MODULE MCSupervisor ----------------------------
(***************************************************************************)
(* Three parts that share no state: the push-to-talk keys and the waits of *)
(* the reader threads, both of runtime/supervisor/flows.py, and the        *)
(* recorder behind the keys, whose contract they rely on.  A behaviour is  *)
(* one of the part that part names; the others keep their initial states.  *)
(***************************************************************************)
EXTENDS MCSttRecorder, PushToTalk, ReaderWaits

VARIABLE part

SupervisorInit ==
    /\ part \in {"recorder", "keys", "readers"}
    /\ Init /\ (part # "recorder" => settings = CHOOSE s \in Settings : TRUE)
    /\ KeysInit
    /\ ReaderInit

SupervisorNext ==
    \/ part = "recorder" /\ Next /\ UNCHANGED <<part, pttVars, readerVars>>
    \/ part = "keys" /\ KeysNext /\ UNCHANGED <<part, vars, readerVars>>
    \/ part = "readers" /\ ReadersNext /\ UNCHANGED <<part, vars, pttVars>>

\* No step of the other parts is enabled: their fairness asks for nothing.
SupervisorSpec ==
    /\ SupervisorInit
    /\ [][SupervisorNext]_<<part, vars, pttVars, readerVars>>
    /\ Fairness
    /\ KeysFairness
    /\ ReadersFairness

SupervisorTypeOK == TypeOK /\ PushToTalkTypeOK /\ ReaderTypeOK

=============================================================================
