SPECIFICATION Spec
CONSTANTS
    NMap = 2
    NReduce = 1
    Worker = {w1, w2}
    Timings = {"late"}
    MaxCrashes = 0
    MaxTimeouts = 0
INVARIANT AllFilesHanded
CHECK_DEADLOCK FALSE
