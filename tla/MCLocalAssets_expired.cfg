\* A run long after the first.
SPECIFICATION Spec
CONSTANTS
    Writers = {w1, w2}
    Absent = Absent
    Torn = Torn
    ServerLife = 1
    MaxAge = 2
    MaxConcurrent = 1
    MaxCrashes = 0
    MaxRemovals = 0
SYMMETRY Symmetry
CHECK_DEADLOCK FALSE
PROPERTIES RunLeavesFreshTls
