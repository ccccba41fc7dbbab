CONSTANTS
    Command = {0, 1, 2, 3}
    Nil = Nil
    SnapShotInterval = 1
    MaxIndex = 3
    MaxSenders = 1
    MaxCrashes = 1
SPECIFICATION Spec
INVARIANTS AppliedInOrder AppliedCommitted SavedInSync InStep
PROPERTY ServiceNeverBack CommittedApplied
CHECK_DEADLOCK FALSE
