\* The parts of Node; their bounds are in the instances.
CONSTANTS
    StateValidators <- RootValidators
    Nil = Nil
    \* two lists of keys; no index reaches the second byte of its key
    Committee = {{"a"}, {"a", "b"}}
    Standby = {"a"}
    Prices = {1, 2}
    DefaultPrice = 1
    Accounts = {"a", "b"}
    MaxHeight = 3
    Radix = 8
SPECIFICATION NodeSpec
INVARIANTS  SubscribersFollow HandledOnce HandshakeIsChecked RootsAreSigned ClientsAreTold
PROPERTIES BlocksInOrder
CHECK_DEADLOCK FALSE
