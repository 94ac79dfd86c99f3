\* The capacity is usize::MAX, as RingBuf<(), { usize::MAX }> makes it.
SPECIFICATION Spec
CONSTANTS
    N = 3
    UsizeMax = 3
    Val = {1, 2, 3}
    Uninit = 0
INVARIANTS ReadsInitialised
PROPERTIES ImplementsWindow
