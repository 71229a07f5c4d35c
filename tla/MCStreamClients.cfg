CONSTANTS
    p1 = p1  p2 = p2  a = a  b = b  c1 = c1  r1 = r1
    Procs = {p1, p2}
    Clients = {a, b, c1}
    Proc <- MCProc
    Requests = {r1}
    ClientOf <- MCClientOf
    MaxStreams = 2
    None = None
    Empty = Empty
SPECIFICATION Spec
INVARIANTS TypeOK PendingIsServed NoOrphans LockExcludes
CHECK_DEADLOCK FALSE
