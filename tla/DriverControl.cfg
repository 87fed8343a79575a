SPECIFICATION Spec
CONSTANTS
    Sessions = {a, b}
    Counts = {0, 2}
INVARIANTS
    TypeOK
    WaitFollowsStatus
    StepHaltsInit
PROPERTIES
    StepIsAnswered
    DriverProceeds
CHECK_DEADLOCK FALSE
