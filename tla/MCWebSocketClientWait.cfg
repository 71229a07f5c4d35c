CONSTANTS
    Sends = {s1, s2}
    Retries = 1
    MaxSockets = 4
    MaxStarts = 0
SPECIFICATION Spec
INVARIANT WaitersServed
