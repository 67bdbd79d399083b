\* A run cut short and the run after it.
SPECIFICATION Spec
CONSTANTS
    Writers = {w1, w2}
    Absent = Absent
    Torn = Torn
    ServerLife = 0
    MaxAge = 1
    MaxConcurrent = 1
    MaxCrashes = 1
    MaxRemovals = 0
SYMMETRY Symmetry
CHECK_DEADLOCK FALSE
PROPERTIES RunLeavesFittingTls
