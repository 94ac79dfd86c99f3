\* The ring over the wrap of its sequence, N dividing the span; the producer can
\* get a whole span ahead of a read that has begun.
SPECIFICATION Spec
CONSTANTS
    N = 2
    Modulus = 5
    Start = 3
    UsizeMax = 3
    MaxPoll = 2
    MaxPush = 3
    MaxDrops = 2
INVARIANTS TypeOK GenuineItem CursorExact EveryPushCounted PollBounded NoEarlyMiss
PROPERTIES CursorNear JumpOverOne
