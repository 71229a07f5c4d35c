CONSTANTS
    Ids = {i1, i2}
    MaxConns = 2
    Signals = {"SIGINT"}
    Requests = {r1}
    Limits <- MCLimits
    MaxTime = 3
SPECIFICATION ListenerFairSpec
INVARIANTS ListenerTypeOK EntriesAreLive TcpOpenIsKnown StopEndsAll NotCutEarly
PROPERTY RunEnds
CHECK_DEADLOCK FALSE
