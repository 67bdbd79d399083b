\* One run with the recovery's data in full: two required event types and one
\* other, evidence below, at and above the expected count, every outcome.
SPECIFICATION FairSpec
CONSTANTS
    Runs = {r1}
    ExecutionIds = {e1}
    Events = {required1, required2, other}
    RequiredEvents = {required1, required2}
    MaxEvidence = 2
    ExpectedEvidence = 1
    Outcomes = {"SUCCEEDED", "FAILED", "CANCELLED", "REJECTED"}
    NoKey = NoKey
    NoExecution = NoExecution
CHECK_DEADLOCK FALSE
INVARIANTS TypeOK SuccessIsSound NoFalseAlarm BranchRejectionIsJust
PROPERTIES ImplementsContract EventuallyExits
