SPECIFICATION Spec
CONSTANTS
    MaxTime = 2
    Day = 1
    Followed = {1, 2}
    MaxOpens = 1
INVARIANT StoredIsPinned
