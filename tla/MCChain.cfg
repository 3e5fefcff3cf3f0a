\* Two batches of header hashes, one stop.
CONSTANTS
    MaxHeight = 3
    HeaderBatch = 2
    MaxTraceableBlocks = 2
    MaxCrashes = 1
    Nil = Nil
SPECIFICATION Spec
INVARIANTS HeightIsComplete
PROPERTIES BlocksAreKept EventuallyStored
CHECK_DEADLOCK FALSE
