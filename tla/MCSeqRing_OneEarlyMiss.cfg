\* The documentation's table of entries lost at the wrap, for N = 4.
SPECIFICATION Spec
CONSTANTS
    N = 4
    Modulus = 16
    Start = 13
    UsizeMax = 1
    MaxPoll = 1
    MaxPush = 5
    MaxDrops = 1
INVARIANT OneEarlyMiss
