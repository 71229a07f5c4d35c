CONSTANTS
    c1 = c1  j1 = j1  j2 = j2  p1 = p1
    Peers = {p1}
    Calls = {c1, c2}
    Jobs = {j1, j2}
    Cancels = {j1}
    JobId <- MCJobId
    ClientTypes <- MCClientTypes
    StopRejects = {"stdio"}
    Manifests <- Two
    Remote <- MCRemote
    MaxClients = 3
    MaxUpdates = 1
    None = None
SPECIFICATION FairSpec
PROPERTY CallsEnd ImplementsDelegation
