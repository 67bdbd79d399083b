\* The docstring of main() against what its except clause names.
SPECIFICATION Spec
CONSTANTS
    Runs = {r1}
    ExecutionIds = {e1}
    Events = {required1}
    RequiredEvents = {required1}
    MaxEvidence = 1
    ExpectedEvidence = 1
    Outcomes = {"SUCCEEDED"}
    NoKey = NoKey
    NoExecution = NoExecution
CHECK_DEADLOCK FALSE
INVARIANTS FailuresSanitized
