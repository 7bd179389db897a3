\* The UI worker, whose exit handler restarts it, with liveness.
SPECIFICATION StartedFairSpec
CONSTANTS
    Callers = {c1}
    Kinds = {"call"}
    MaxProcs = 3
    RestartLimit = 1
    MaxShutdowns = 1
    RestartOnExit = TRUE
    Main = Main
    Nobody = Nobody
INVARIANTS TypeOK OneLiveWorker 
PROPERTIES EveryCallReturns CrashIsHandled StopShutsDown
\* The client stops once every call has ended and the application is down.
CHECK_DEADLOCK FALSE
