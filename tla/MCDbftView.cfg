\* Three of four validators run; timeouts, missing
\* transactions and rejected blocks may take them to view 1.
CONSTANTS
    N = 4
    Active = {0, 1, 2}
    Proposals = {1}
    Outcomes <- Unready
    Nil = Nil
    MaxHeight = 1
    MaxView = 1
    MaxRequests = 1
    MaxRecovery = 0
    MaxCrashes = 0
    MaxFaults = 1
    MaxLoose = 1
SPECIFICATION Spec
INVARIANTS CommitIsPrepared ViewIsAgreed OneCommitPerHeight
PROPERTIES CommitKeepsView
CHECK_DEADLOCK FALSE
