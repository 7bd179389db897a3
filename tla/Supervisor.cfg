SPECIFICATION SupervisorSpec
CONSTANTS
    \* Two recordings, restarted or stopped twice, with a change of the settings.
    Starts = {s1, s2}
    Stops = {t1, t2}
    Settings <- TwoSettings
    MaxSamples = 2
    MayFail = FALSE
    None = None
    \* Both keys
    Keys = {"voice", "dictate"}
    MaxPresses = 2
    MaxRepeats = 1
    Patient = TRUE
    MicMayFail = TRUE
    MayTimeOut = TRUE
    \* Three reader threads and a flow
    Scheduled = {f1}
    MaxEvents = 2
INVARIANTS SupervisorTypeOK EverythingHeard TranscriptOfOneTake TranscribedOnce MicMatchesRecording
 
PROPERTIES RefinesContract RequestsReturn KeysComeBack WaitsUnwind
\* Each request is made once; keys are pressed and events come a bounded number of times.
CHECK_DEADLOCK FALSE
