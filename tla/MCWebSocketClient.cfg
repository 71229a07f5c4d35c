CONSTANTS
    Sends = {s1, s2}
    Retries = 1
    MaxSockets = 6
    MaxStarts = 2
SPECIFICATION FairSpec
INVARIANTS TypeOK AttemptsBounded ConnectionsAskedFor StartSettles
PROPERTY RetriesEnd
