\* The RPC server and one client; only the block queue adds blocks.
CONSTANTS
    Services = {"rpc"}
    Clients = {c1}
    Adds = FALSE
    Stops = FALSE
    MaxBlocks = 3
    MaxRestarts = 0
    Nil = Nil
    c1 = c1
SPECIFICATION FairSpec
PROPERTY AddBlockReturns
CHECK_DEADLOCK FALSE
