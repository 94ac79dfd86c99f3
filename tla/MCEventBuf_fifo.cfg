\* Two threads that may each hold either handle, or both, over a cursor wrap.
SPECIFICATION Spec
SYMMETRY ValueSymmetry
CONSTANTS
    a = a
    b = b
    c = c
    x = x
    y = y
    Uninit = Uninit
    N = 2
    Modulus = 4
    Start = 3
    Val <- Values
    Producers = {a, b}
    Consumers = {b}
    Observers = {}
    DrainMax = 2
    MaxPush = 3
INVARIANTS TypeOK NoSlotRace OldestInPlace NothingLost
PROPERTIES ImplementsQueue AnswersJustified
