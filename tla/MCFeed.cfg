\* Two connections, two symbols and two timeframes (a chart may change either),
\* two quotes merged at once, two tasks raising the same alert.
CONSTANTS
    Viewers = {w1, w2}
    Symbols = {s1, s2}
    Frames = {m1, m5}
    Tasks = {t1, t2}
    Emitters = {e1, e2}
    Keys = {k1}
    MaxOperations = 4
    MaxFaults = 1
SPECIFICATION Spec
SYMMETRY Symmetry
INVARIANTS
    
    QuietCacheIsNewest
    CooldownTellsOnce
\* The bounds run out.
CHECK_DEADLOCK FALSE
