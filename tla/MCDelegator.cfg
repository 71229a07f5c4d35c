CONSTANTS
    c1 = c1  j1 = j1  j2 = j2  p1 = p1
    Peers = {p1, p2}
    Calls = {c1}
    Jobs = {j1}
    Cancels = {j1}
    JobId <- MCJobId
    ClientTypes <- MCClientTypes
    StopRejects = {"stdio"}
    Manifests <- Three
    Remote <- MCRemote
    MaxClients = 4
    MaxUpdates = 1
    None = None
SPECIFICATION Spec
INVARIANTS TypeOK JobsTrackCalls CancelsFollowCalls AlwaysConnected ValidatorsCurrent
