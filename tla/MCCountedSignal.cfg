\* Both handles change hands between two threads; the count saturates at 2.
SPECIFICATION Spec
CONSTANTS
    a = a
    b = b
    Producers = {a, b}
    Consumers = {a, b}
    MAX = 2
    MaxIncrement = 4
    MaxOps = 7
INVARIANTS CountExact
