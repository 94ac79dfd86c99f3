\* An observer that may also consume calls len while the cursors move and wrap,
\* and the consumer handle changes hands.
SPECIFICATION FairSpec
CONSTANTS
    a = a
    b = b
    c = c
    x = x
    y = y
    Uninit = Uninit
    N = 1
    Modulus = 4
    Start = 3
    Val <- OneValue
    Producers = {a}
    Consumers = {b, c}
    Observers = {c}
    DrainMax = 1
    MaxPush = 2
INVARIANTS LenBounded LenBracketed
PROPERTIES EventuallyDelivered
