SPECIFICATION Spec
CONSTANTS
    Starts = {s1}
    Stops = {t1}
    Settings <- OneSetting
    MaxSamples = 4
    MayFail = TRUE
    None = None
INVARIANT EverythingHeard
CHECK_DEADLOCK FALSE
