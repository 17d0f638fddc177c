SPECIFICATION TwoSpec
INVARIANTS
    ServesWithSafeLimits
    DoesWhatWasSaid
CHECK_DEADLOCK FALSE
