\* Two runs, of which one may be the rerun of the other, at any interleaving.
SPECIFICATION Spec
CONSTANTS
    Runs = {r1, r2}
    ExecutionIds = {e1, e2}
    Events = {required1}
    RequiredEvents = {required1}
    MaxEvidence = 1
    ExpectedEvidence = 1
    Outcomes = {"SUCCEEDED"}
    NoKey = NoKey
    NoExecution = NoExecution
SYMMETRY Symmetry
CHECK_DEADLOCK FALSE
INVARIANTS OwnExecution
PROPERTIES ImplementsContract
