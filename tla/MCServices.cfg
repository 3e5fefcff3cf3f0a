\* The store has one key, one seek and one restart.
CONSTANTS
    Key = {k1}
    Value = {v1}
    None = None
    Absent = Absent
    Nil = Nil
    Seeker = {t1}
    MaxCrashes = 1
SPECIFICATION ServicesSpec
INVARIANTS SeekSees
PROPERTIES StoreSpec EventuallyDurable EveryoneHears CallsReturn
CHECK_DEADLOCK FALSE
