CONSTANTS
    c1 = c1  c2 = c2  c3 = c3
    j1 = j1  j2 = j2  j3 = j3
    Calls = {c1, c2}
    Jobs = {j1, j2, j3}
    JobId <- OwnIds
    Passes = {p1}
    QueueLength = 2
    MaxTimers = 2
SPECIFICATION FairSpec
PROPERTY StaleJobsLeave
