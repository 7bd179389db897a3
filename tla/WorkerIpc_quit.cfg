SPECIFICATION StartedSpec
CONSTANTS
    Callers = {c1}
    Kinds = {"call", "stream", "send"}
    MaxProcs = 3
    RestartLimit = 1
    MaxShutdowns = 2
    RestartOnExit = TRUE
    Main = Main
    Nobody = Nobody
INVARIANT OnlyTheUserQuits
CHECK_DEADLOCK FALSE
