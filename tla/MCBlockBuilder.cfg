\* Blocks of three through EventBuf<Block, 1> or LatestBuf<Block>; the sequence
\* wraps every 4 samples, and upstream may omit a whole span of them.
SPECIFICATION BlockSpec
CONSTANTS
    N = 3
    Modulus = 5
    Q = 1
    MaxGap = 4
    MaxSample = 11
INVARIANTS BlocksContiguous NoFalseGap SamplesConserved
