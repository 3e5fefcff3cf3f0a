---------------------------- MODULE Instructions ----------------------------
(* The instructions of the EVM: the table that the node uses (jump_table.go,  *)
(* eips.go, stack_table.go; interop.NewEVM switches on every fork up to the   *)
(* merge), and, apart from it, what the execute functions of instructions.go  *)
(* take from the stack and touch in memory.  The table speaks for the         *)
(* functions: Run checks stack, memory and gas by the table alone.            *)
(*                                                                            *)
(* Costs that come from the params package are constants; see Interpreter for *)
(* the units.                                                                 *)
EXTENDS Integers, Sequences, FiniteSets, TLC

CONSTANTS
    StackLimit,
    JumpdestGas, Keccak256Gas, CreateGas, Create2Gas,
    WarmStorageReadCost, SelfdestructGas

PUSH == << "PUSH1", "PUSH2", "PUSH3", "PUSH4", "PUSH5", "PUSH6", "PUSH7", "PUSH8",
           "PUSH9", "PUSH10", "PUSH11", "PUSH12", "PUSH13", "PUSH14", "PUSH15", "PUSH16",
           "PUSH17", "PUSH18", "PUSH19", "PUSH20", "PUSH21", "PUSH22", "PUSH23", "PUSH24",
           "PUSH25", "PUSH26", "PUSH27", "PUSH28", "PUSH29", "PUSH30", "PUSH31", "PUSH32" >>
DUP  == << "DUP1", "DUP2", "DUP3", "DUP4", "DUP5", "DUP6", "DUP7", "DUP8",
           "DUP9", "DUP10", "DUP11", "DUP12", "DUP13", "DUP14", "DUP15", "DUP16" >>
SWAP == << "SWAP1", "SWAP2", "SWAP3", "SWAP4", "SWAP5", "SWAP6", "SWAP7", "SWAP8",
           "SWAP9", "SWAP10", "SWAP11", "SWAP12", "SWAP13", "SWAP14", "SWAP15", "SWAP16" >>
LOG  == << "LOG0", "LOG1", "LOG2", "LOG3", "LOG4" >>

Of(family) == {family[n] : n \in DOMAIN family}

GasQuickStep   == 2
GasFastestStep == 3
GasFastStep    == 5
GasMidStep     == 8
GasSlowStep    == 10
GasExtStep     == 20

minStack(pops, push) == pops
maxStack(pops, push) == StackLimit + pops - push

----------------------------------------------------------------------------
(* Entries.  dynamicGas and memorySize are the names of functions, or "nil".  *)

Entry(pops, push, price) ==
    [minStack |-> minStack(pops, push), maxStack |-> maxStack(pops, push),
     constantGas |-> price, dynamicGas |-> "nil", memorySize |-> "nil"]

Entries(ops, pops, push, price) == [op \in ops |-> Entry(pops, push, price)]

Costly(ops, pops, push, price, dynamicGas, memorySize) ==
    [op \in ops |-> [Entry(pops, push, price) EXCEPT !.dynamicGas = dynamicGas, !.memorySize = memorySize]]

frontierArithmetic ==
    Entries({"STOP"}, 0, 0, 0)
    @@ Entries({"ADD", "SUB", "LT", "GT", "SLT", "SGT", "EQ", "AND", "XOR", "OR", "BYTE"}, 2, 1, GasFastestStep)
    @@ Entries({"MUL", "DIV", "SDIV", "MOD", "SMOD", "SIGNEXTEND"}, 2, 1, GasFastStep)
    @@ Entries({"ADDMOD", "MULMOD"}, 3, 1, GasMidStep)
    @@ Costly({"EXP"}, 2, 1, 0, "gasExp", "nil")
    @@ Entries({"ISZERO", "NOT"}, 1, 1, GasFastestStep)
    @@ Costly({"KECCAK256"}, 2, 1, Keccak256Gas, "gasKeccak256", "memoryKeccak256")

frontierContext ==
    Entries({"ADDRESS", "ORIGIN", "CALLER", "CALLVALUE", "CALLDATASIZE", "CODESIZE", "GASPRICE",
             "COINBASE", "TIMESTAMP", "NUMBER", "DIFFICULTY", "GASLIMIT"}, 0, 1, GasQuickStep)
    @@ Entries({"CALLDATALOAD"}, 1, 1, GasFastestStep)
    @@ Costly({"CALLDATACOPY", "CODECOPY"}, 3, 0, GasFastestStep, "gasCopy2", "memoryCopy")
    @@ Entries({"BLOCKHASH"}, 1, 1, GasExtStep)
    @@ Entries({"BALANCE", "EXTCODESIZE"}, 1, 1, 0)
    @@ Costly({"EXTCODECOPY"}, 4, 0, 0, "gasExtCodeCopy", "memoryExtCodeCopy")

frontierStorage ==
    Entries({"POP"}, 1, 0, GasQuickStep)
    @@ Costly({"MLOAD"}, 1, 1, GasFastestStep, "gasMemory", "memory32")
    @@ Costly({"MSTORE"}, 2, 0, GasFastestStep, "gasMemory", "memory32")
    @@ Costly({"MSTORE8"}, 2, 0, GasFastestStep, "gasMemory", "memoryMStore8")
    @@ Entries({"SLOAD"}, 1, 1, 0)
    @@ Costly({"SSTORE"}, 2, 0, 0, "gasSStore", "nil")
    @@ Entries({"JUMP"}, 1, 0, GasMidStep)
    @@ Entries({"JUMPI"}, 2, 0, GasSlowStep)
    @@ Entries({"PC", "MSIZE", "GAS"}, 0, 1, GasQuickStep)
    @@ Entries({"JUMPDEST"}, 0, 0, JumpdestGas)

frontierPush == Entries(Of(PUSH), 0, 1, GasFastestStep)

frontierDup ==
    [op \in Of(DUP) |-> LET n == CHOOSE i \in DOMAIN DUP : DUP[i] = op IN Entry(n, n + 1, GasFastestStep)]

frontierSwap ==
    [op \in Of(SWAP) |-> LET n == CHOOSE i \in DOMAIN SWAP : SWAP[i] = op IN Entry(n + 1, n + 1, GasFastestStep)]

frontierCalls ==
    [op \in Of(LOG) |-> LET n == CHOOSE i \in DOMAIN LOG : LOG[i] = op
                        IN  [Entry(n + 1, 0, 0) EXCEPT !.dynamicGas = "gasLog", !.memorySize = "memoryLog"]]
    @@ Costly({"CREATE"}, 3, 1, CreateGas, "gasMemory", "memoryCreate")
    @@ Costly({"CALL"}, 7, 1, 0, "gasCall", "memoryCall")
    @@ Costly({"CALLCODE"}, 7, 1, 0, "gasCallCode", "memoryCall")
    @@ Costly({"RETURN"}, 2, 0, 0, "gasMemory", "memoryReturn")
    @@ Costly({"SELFDESTRUCT"}, 1, 0, 0, "gasSelfdestruct", "nil")

\* Homestead to Constantinople.
forks ==
    Costly({"DELEGATECALL", "STATICCALL"}, 6, 1, 0, "gasDelegateCall", "memoryDelegateCall")
    @@ Entries({"RETURNDATASIZE"}, 0, 1, GasQuickStep)
    @@ Costly({"RETURNDATACOPY"}, 3, 0, GasFastestStep, "gasCopy2", "memoryCopy")
    @@ Costly({"REVERT"}, 2, 0, 0, "gasMemory", "memoryReturn")
    @@ Entries({"SHL", "SHR", "SAR"}, 2, 1, GasFastestStep)
    @@ Entries({"EXTCODEHASH"}, 1, 1, 0)
    @@ Costly({"CREATE2"}, 4, 1, Create2Gas, "gasCreate2", "memoryCreate")

\* Istanbul to the merge: new opcodes, then new prices.
newOpcodes ==
    Entries({"SELFBALANCE"}, 0, 1, GasFastStep)
    @@ Entries({"CHAINID", "BASEFEE", "DIFFICULTY"}, 0, 1, GasQuickStep)

Defined ==
    newOpcodes @@ forks @@ frontierArithmetic @@ frontierContext @@ frontierStorage
    @@ frontierPush @@ frontierDup @@ frontierSwap @@ frontierCalls

\* EIP-2929: what reads the state is charged warm or cold.
enable2929(jt) ==
    [op \in DOMAIN jt |->
        CASE op = "SLOAD" -> [jt[op] EXCEPT !.constantGas = 0, !.dynamicGas = "gasSLoad"]
          [] op \in {"EXTCODESIZE", "EXTCODEHASH", "BALANCE"}
               -> [jt[op] EXCEPT !.constantGas = WarmStorageReadCost, !.dynamicGas = "gasAccountCheck"]
          [] op \in {"EXTCODECOPY", "CALL", "CALLCODE", "STATICCALL", "DELEGATECALL"}
               -> [jt[op] EXCEPT !.constantGas = WarmStorageReadCost]
          [] op = "SELFDESTRUCT" -> [jt[op] EXCEPT !.constantGas = SelfdestructGas]
          [] OTHER -> jt[op]]

\* The rest of the 256 codes is one undefined instruction.
instructionSet == Entries({"INVALID"}, 0, 0, 0) @@ enable2929(Defined)

Opcode == DOMAIN instructionSet

----------------------------------------------------------------------------
(* What the execute functions do: how many items they pop, how many they      *)
(* change in place below those, how many they push, which operands are the    *)
(* bounds of a piece of memory that they read or write.                       *)

Sized(offset, size)   == [offset |-> offset, size |-> size, length |-> 0]
Fixed(offset, length) == [offset |-> offset, size |-> -1, length |-> length]

Does(ops, pops, peeks, pushes, regions) ==
    [op \in ops |-> [pops |-> pops, peeks |-> peeks, pushes |-> pushes, regions |-> regions]]

executeArithmetic ==
    Does({"ADD", "SUB", "MUL", "DIV", "SDIV", "MOD", "SMOD", "EXP", "SIGNEXTEND"}, 1, 1, 0, {})
    @@ Does({"NOT", "ISZERO"}, 0, 1, 0, {})
    @@ Does({"LT", "GT", "SLT", "SGT", "EQ", "AND", "OR", "XOR", "BYTE"}, 1, 1, 0, {})

executeWords ==
    Does({"ADDMOD", "MULMOD"}, 2, 1, 0, {})
    @@ Does({"SHL", "SHR", "SAR"}, 1, 1, 0, {})
    @@ Does({"KECCAK256"}, 1, 1, 0, {Sized(0, 1)})

executeContext ==
    Does({"ADDRESS", "ORIGIN", "CALLER", "CALLVALUE", "CALLDATASIZE", "RETURNDATASIZE", "CODESIZE"}, 0, 0, 1, {})
    @@ Does({"BALANCE", "CALLDATALOAD", "EXTCODESIZE"}, 0, 1, 0, {})
    @@ Does({"CALLDATACOPY", "RETURNDATACOPY", "CODECOPY"}, 3, 0, 0, {Sized(0, 2)})
    @@ Does({"EXTCODECOPY"}, 4, 0, 0, {Sized(1, 3)})

executeBlock ==
    Does({"EXTCODEHASH", "BLOCKHASH", "SLOAD"}, 0, 1, 0, {})
    @@ Does({"MLOAD"}, 0, 1, 0, {Fixed(0, 32)})
    @@ Does({"GASPRICE", "COINBASE", "TIMESTAMP", "NUMBER", "DIFFICULTY", "GASLIMIT"}, 0, 0, 1, {})
    @@ Does({"POP"}, 1, 0, 0, {})
    @@ Does({"MSTORE"}, 2, 0, 0, {Fixed(0, 32)})
    @@ Does({"MSTORE8"}, 2, 0, 0, {Fixed(0, 1)})
    @@ Does({"SSTORE", "JUMPI"}, 2, 0, 0, {})
    @@ Does({"JUMP"}, 1, 0, 0, {})
    @@ Does({"JUMPDEST"}, 0, 0, 0, {})
    @@ Does({"PC", "MSIZE", "GAS"}, 0, 0, 1, {})

executeNew ==
    Does({"CHAINID", "SELFBALANCE", "BASEFEE"}, 0, 0, 1, {})

executeCreate ==
    Does({"CREATE"}, 3, 0, 1, {Sized(1, 2)}) @@ Does({"CREATE2"}, 4, 0, 1, {Sized(1, 2)})

executeCalls ==
    Does({"CALL", "CALLCODE"}, 7, 0, 1, {Sized(3, 4), Sized(5, 6)})
    @@ Does({"DELEGATECALL", "STATICCALL"}, 6, 0, 1, {Sized(2, 3), Sized(4, 5)})

executeEnd ==
    Does({"RETURN", "REVERT"}, 2, 0, 0, {Sized(0, 1)})
    @@ Does({"STOP", "INVALID"}, 0, 0, 0, {})
    @@ Does({"SELFDESTRUCT"}, 1, 0, 0, {})

executeStack ==
    [op \in Of(LOG) |-> LET n == CHOOSE i \in DOMAIN LOG : LOG[i] = op
                        IN  [pops |-> n + 1, peeks |-> 0, pushes |-> 0, regions |-> {Sized(0, 1)}]]
    @@ Does(Of(PUSH), 0, 0, 1, {})
    @@ [op \in Of(DUP) |-> LET n == CHOOSE i \in DOMAIN DUP : DUP[i] = op
                           IN  [pops |-> 0, peeks |-> n, pushes |-> 1, regions |-> {}]]
    @@ [op \in Of(SWAP) |-> LET n == CHOOSE i \in DOMAIN SWAP : SWAP[i] = op
                            IN  [pops |-> 0, peeks |-> n + 1, pushes |-> 0, regions |-> {}]]

execute ==
    executeArithmetic @@ executeWords @@ executeContext @@ executeBlock @@ executeNew
    @@ executeCreate @@ executeCalls @@ executeEnd @@ executeStack
=============================================================================
