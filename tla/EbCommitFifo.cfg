SPECIFICATION Spec
CONSTANTS
    Size = 4
    Word = {v1, v2}
INVARIANTS
    ShowAhead
PROPERTY
    KeepsPromise
