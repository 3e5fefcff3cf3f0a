\* One stop at any moment.
CONSTANTS
    MaxHeight = 2
    HeaderBatch = 2
    MaxTraceableBlocks = 2
    MaxCrashes = 1
    Nil = Nil
SPECIFICATION Spec
INVARIANTS NodeRestarts
CHECK_DEADLOCK FALSE
