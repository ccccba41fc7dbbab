CONSTANTS
    A = A
    B = B
    C = C
    Server = {A, B, C}
    Command = {c1}
    Nil = Nil
    LateReplies = TRUE
    MaxTerm = 6
    MaxIndex = 2
    MaxCalls = 2
    MaxRestarts = 0
SPECIFICATION Spec
INVARIANT StateMachineSafety
CONSTRAINT Narrow
CHECK_DEADLOCK FALSE
