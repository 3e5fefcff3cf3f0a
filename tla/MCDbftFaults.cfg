\* Three of four validators run; a crash or a recovery message in view 0, and a
\* restarted primary may propose something else.
CONSTANTS
    N = 4
    Active = {0, 1, 2}
    Proposals = {1, 2}
    Outcomes <- AllGood
    Nil = Nil
    MaxHeight = 1
    MaxView = 0
    MaxRequests = 0
    MaxRecovery = 1
    MaxCrashes = 1
    MaxFaults = 1
    MaxLoose = 1
SPECIFICATION Spec
INVARIANTS Agreement SignedInv
PROPERTIES RecoveryFills
CHECK_DEADLOCK FALSE
