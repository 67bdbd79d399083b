SPECIFICATION MCSpec
CONSTANTS
    init = init
    pyc = pyc
    yaml = yaml
    shadow = shadow
    rival = rival
    direct = direct
    metadata = metadata
    good = good
    other = other
    marker = marker
    link = link
    absent = absent
    Code = {init}
    Bytecode = {pyc}
    Data = {yaml}
    Shadows = {shadow}
    Rivals = {rival}
    Markers = {direct}
    Metadata = metadata
    Contents = {good, other, marker}
    Expected = {good}
    EditableMarks = {marker}
    Compiled = other
    Link = link
    Absent = absent
    NoRecord = NoRecord
    Malformed = Malformed
    NoWheel = NoWheel
    Wheels <- AllWheels
    Processes = {p1, p2, p3}
    Commands = {"attest", "launch", "smoke"}
    MaxChanges = 1
CHECK_DEADLOCK FALSE
SYMMETRY Symmetry
INVARIANTS
    TypeOK
    PassedIsClean
    RejectedIsFlawed
    RestartIsAccepted
PROPERTIES
    ImplementsContract
    PassedWasWitnessed
