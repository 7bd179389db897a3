SPECIFICATION ReadersSpec
CONSTANTS
    Scheduled = {f1}
    MaxEvents = 2
INVARIANT NoSelfWait
\* The workers emit a bounded number of events.
CHECK_DEADLOCK FALSE
