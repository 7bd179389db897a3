SPECIFICATION Spec
CONSTANTS
    Callers = {c1, c2}
    Stopper = stopper
    MaxFaults = 1
    Workers = {w1, w2}
    Files = {f1}
    Concurrency = 2
    MaxCalls = 2
    MaxEdits = 1
    Outside = outside
    Nobody = nobody
    Teams <- MCTeams
    MaxTurns = 5
    Queries = {q1, q2}
    WithTools = {q1}
    Guarded = {q2}
    Candidates <- MCCandidates
    ProviderOf <- MCProviderOf
    MaxRounds = 1
    MaxFailures = 2
    Askers = {"query", "agent", "probe"}
    Logins = {"login"}
    ProcessOf <- MCProcessOf
    MaxTokens = 3
    MaxMishaps = 1
SYMMETRY Symmetry
INVARIANTS TypeOK  LostOnlyByARace CallsEnd OneWriterPerFile ShownIsReplaced NothingUnapproved CancelledChangesLittle RunEnds NoAgentHogsTheRun  NoRouteLeftOut SpentTwiceOnlyIf
\* The calls and the runs come to their end.
CHECK_DEADLOCK FALSE
