SPECIFICATION Spec
CONSTANTS
    NMap = 2
    NReduce = 3
    Worker = {w1, w2}
    Timings = {"prompt", "slow", "late"}
    MaxCrashes = 1
    MaxTimeouts = 2
INVARIANTS NothingMissing NothingTwice JobExact MasterServes
PROPERTY PhaseForward FinalOutput JobEnds
CHECK_DEADLOCK FALSE
