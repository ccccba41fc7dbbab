CONSTANTS
    Server = {s0, s1, s2}
    Zero = s0
    A = s1
    C = s2
    Command = {c1}
    Nil = Nil
    LateReplies = TRUE
    MaxTerm = 2
    MaxIndex = 2
    MaxCalls = 2
    MaxRestarts = 1
    MaxSnapCalls = 1
SPECIFICATION SnapSpec
CHECK_DEADLOCK FALSE
INVARIANTS ElectionSafety
CONSTRAINT NarrowVote
