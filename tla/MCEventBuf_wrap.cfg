\* A capacity that does not divide the number of cursor values.
SPECIFICATION Spec
CONSTANTS
    a = a
    b = b
    c = c
    x = x
    y = y
    Uninit = Uninit
    N = 3
    Modulus = 4
    Start = 3
    Val <- Values
    Producers = {a}
    Consumers = {b}
    Observers = {}
    DrainMax = 1
    MaxPush = 3
INVARIANT NothingLost
