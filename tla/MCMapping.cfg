\* Two accounts, two signatures, two sets of contract specifications: enough
\* for a shared file, for an account listed in two files, and for a file whose
\* specifications differ from those of the account that links to it.
CONSTANTS
    Accounts = {a1, a2}
    Sigs = {s1, s2}
    Symbols = {x1}
    Specs = {c1, c2}
    MaxPublished = 3
    MaxRequests = 3
    MaxRemovals = 1
    MaxRestarts = 1
SPECIFICATION Spec
SYMMETRY Symmetry
INVARIANTS
    TypeOK
    ActiveIsUsable
    LinkSurvives
    LinkedSpecMatches
PROPERTY RestartKeepsMapping
\* The bounds run out.
CHECK_DEADLOCK FALSE
