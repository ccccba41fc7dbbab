CONSTANTS
    Server = {s0, s1, s2}
    Zero = s0
    Elected = s1
    Laggard = s2
    Command = {c1}
    Nil = Nil
    LateReplies = TRUE
    MaxTerm = 3
    MaxIndex = 3
    MaxCalls = 1
    MaxRestarts = 0
    MaxSnapCalls = 1
SPECIFICATION FairSpec
CHECK_DEADLOCK FALSE
PROPERTY CaughtUp
