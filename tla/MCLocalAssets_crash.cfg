\* Three runs, two at once, any of them cut short anywhere, and a TLS file removed.
SPECIFICATION Spec
CONSTANTS
    Writers = {w1, w2, w3}
    Absent = Absent
    Torn = Torn
    ServerLife = 0
    MaxAge = 1
    MaxConcurrent = 2
    MaxCrashes = 2
    MaxRemovals = 1
SYMMETRY Symmetry
CHECK_DEADLOCK FALSE
INVARIANTS TypeOK EnvironmentComesLast
PROPERTIES RerunRepairsJson RegeneratedTlsFits
