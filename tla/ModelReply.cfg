SPECIFICATION ModelSpec
CONSTANTS
    Queries = {q1}
    WithTools = {}
    Guarded = {}
    Candidates <- MCCandidates
    ProviderOf <- MCProviderOf
    MaxRounds = 1
    MaxFailures = 1
INVARIANT OneVoice
CHECK_DEADLOCK FALSE
