SPECIFICATION Spec
INVARIANTS
    ValidIsWellFormed
    CallsSayWhatWasSent
CHECK_DEADLOCK FALSE
