\* The parts of Ledger; their bounds are in the instances.
CONSTANTS
    PoolTx <- TwoSenders
    NextConsensus <- MainConsensus
    StateSigners <- MainSigners
    StateDesignated <- MainStateDesignated
    Designated <- MainDesignated
    Deposit <- MainDeposits
    \* one contract, one native contract and one address to create; a write that
    \* sets a slot costs more than one that clears it gives back
    Sender = "u"
    Validator = "v"
    Contracts = {"c"}
    Natives = {"g"}
    New = {"n"}
    Slot = {1}
    Value = {0, 1, 2}
    Balance = 9
    MaxTxs = 2
    MaxSteps = 4
    CallCreateDepth = 2
    ClearRefund = 4
    SetRefund = 19
    ResetRefund = 2
    RefundQuotient = 2
    TxGas = 4
    NetFee = 1
    GasPrice = 1
    Amount = {0, 1}
    GasLeft = {0, 3}
    \* the gas of instructions in proportion to that of protocol_params.go
    StackLimit = 17
    JumpdestGas = 1
    Keccak256Gas = 6
    CreateGas = 14
    Create2Gas = 14
    WarmStorageReadCost = 2
    SelfdestructGas = 10
    U64 = 2048
    MaxMemory = 1440
    MaxGas = 42
    Operands <- SomeOperands
    CallGasFraction = 4
    MemoryGas = 1
    QuadCoeffDiv = 8
    CopyGas = 3
    LogGas = 4
    LogTopicGas = 4
    LogDataGas = 1
    Keccak256WordGas = 3
    ExpGas = 4
    ExpByte = 5
    ColdSloadCost = 8
    ColdAccountAccessCost = 9
    SstoreSentryGas = 5
    SstoreSetGas = 20
    SstoreResetGas = 12
    CallNewAccountGas = 15
    CallValueTransferGas = 12
    CallStipend = 5
    CreateBySelfdestructGas = 15
    Nil = Nil
SPECIFICATION LedgerSpec
INVARIANTS   SupplyIsSum
PROPERTIES RevertRestores LoopIsPaid AssetsFollowMain
CHECK_DEADLOCK FALSE
