\* Two threads race through take(), a third claims single handles.
SPECIFICATION FairSpec
CONSTANTS
    a = a
    b = b
    c = c
    Takers = {a, b}
    Users = {c}
    MaxWork = 2
INVARIANTS NothingStranded HandoffVisible
PROPERTIES TakeSucceeds
