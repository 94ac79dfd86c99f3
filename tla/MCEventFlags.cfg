\* Both handles change hands between two threads; two conditions.
SPECIFICATION FairSpec
CONSTANTS
    a = a
    b = b
    Producers = {a, b}
    Consumers = {a, b}
    BITS = 2
    MaxWrite = 1
INVARIANTS TakeExact DoorbellHolds
PROPERTIES NoLostWakeup
