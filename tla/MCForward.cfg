\* Into an EventBuf, which refuses, or a SeqRing or RingBuf, which does not.
SPECIFICATION FairForwardSpec
CONSTANTS
    SrcCap = 2
    SnkCap = 2
    MaxCall = 3
    Tags = 5
INVARIANTS ForwardLossless TransferExact
PROPERTIES CallEnds
