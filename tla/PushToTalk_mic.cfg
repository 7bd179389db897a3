SPECIFICATION KeysSpec
CONSTANTS
    Keys = {"voice"}
    MaxPresses = 2
    MaxRepeats = 0
    Patient = TRUE
    MicMayFail = FALSE
    MayTimeOut = FALSE
INVARIANT MicClosedAtRest
\* The user presses a key a bounded number of times.
CHECK_DEADLOCK FALSE
