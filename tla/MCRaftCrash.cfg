CONSTANTS
    Server = {s1, s2, s3}
    Command = {c1}
    Nil = Nil
    LateReplies = TRUE
    MaxTerm = 2
    MaxIndex = 1
    MaxCalls = 2
    MaxRestarts = 1
SPECIFICATION Spec
INVARIANTS PersisterCurrent VotesHeld ElectionSafety MatchIndexTrue
PROPERTY VoteKept CommittedKept
SYMMETRY Symmetry
VIEW LiveView
CONSTRAINT AfterCrash
CHECK_DEADLOCK FALSE
