SPECIFICATION FairSpec
CONSTANTS
    NFlows = 2
    NSentences = 2
    Length <- MCLength
    MaxActs = 2
    Kinds = {"query", "read"}
    MayFail = TRUE
INVARIANTS TypeOK LateSpeechBounded  OwnerIsClosed
PROPERTIES ThreadsEnd 
\* The user acts a bounded number of times.
CHECK_DEADLOCK FALSE
