\* One account that is saved, removed and added again.
CONSTANTS
    Accounts = {a1}
    Sigs = {s1}
    Symbols = {x1}
    Specs = {c1, c2}
    MaxPublished = 2
    MaxRequests = 2
    MaxRemovals = 1
    MaxRestarts = 0
SPECIFICATION Spec
INVARIANT ReaddedStartsAfresh
CHECK_DEADLOCK FALSE
