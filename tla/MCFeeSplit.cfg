CONSTANTS
    BPS_DENOMINATOR = 8
    I128_MAX = 127
    MaxBps = 9
    None = None
    Pending = Pending
SPECIFICATION Spec
INVARIANTS LegsConserveGross FeesAreCeilings OverflowIsExact SplittingNeverSavesFees
CHECK_DEADLOCK FALSE
