CONSTANTS
    Server = {s1, s2, s3}
    Command = {c1}
    Nil = Nil
    LateReplies = FALSE
    MaxTerm = 3
    MaxIndex = 2
    MaxCalls = 1
    MaxRestarts = 0
SPECIFICATION Spec
INVARIANTS LogMatching StateMachineSafety CommittedOnMajority LeaderCompleteness NoSnapshotYet ConflictProgress
SYMMETRY Symmetry
VIEW LiveView
CHECK_DEADLOCK FALSE
