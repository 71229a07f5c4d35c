CONSTANTS
    l1 = l1  j1 = j1  j2 = j2
    Peers = {p1}
    Jobs = {j1, j2}
    Cancels = {j1}
    None = None
    Walks = {l1, l2}
    Nodes <- MCNodes
    Code <- MCCode
    Children <- MCChildren
    Results <- MCResults
    Root <- MCRoot
    JobId <- MCJobId
    JobOf <- MCJobOf
    Last <- MCLast
SPECIFICATION FairSpec
INVARIANTS TypeOK OneAtATime JobsTrackWalks InterruptsLine
PROPERTIES  InOrder
CHECK_DEADLOCK FALSE
