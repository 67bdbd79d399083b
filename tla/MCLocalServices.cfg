\* Two runs of the asset writer beside services that are started, interrupted up to
\* twice and started again.
SPECIFICATION ServicesFairSpec
CONSTANTS
    Writers = {w1, w2}
    Absent = Absent
    Torn = Torn
    ServerLife = 0
    MaxAge = 1
    MaxConcurrent = 1
    MaxCrashes = 0
    MaxRemovals = 2
    Runner = Runner
    Unloaded = Unloaded
    MaxInterrupts = 2
    MaxRequests = 1
CHECK_DEADLOCK FALSE
INVARIANTS ServicesTypeOK RerunKeepsTrust StartFindsTls AllOrNone ShutdownNotStuck
PROPERTIES RunLeavesFittingTls InterruptEnds OneInterruptDrains
