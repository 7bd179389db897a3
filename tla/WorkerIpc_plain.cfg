\* A worker without an exit handler: native, audio, brain.
SPECIFICATION Spec
CONSTANTS
    Callers = {c1, c2}
    Kinds = {"call", "stream", "send"}
    MaxProcs = 2
    RestartLimit = 0
    MaxShutdowns = 1
    RestartOnExit = FALSE
    Main = Main
    Nobody = Nobody
SYMMETRY CallersSymmetry
INVARIANTS SlotsMatchWaiters StreamComplete ShutdownIsFinal
PROPERTIES AnswerIsFinal RefinesRpc
\* The client stops once every call has ended and the application is down.
CHECK_DEADLOCK FALSE
