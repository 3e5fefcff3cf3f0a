---------------------------- MODULE Interpreter ----------------------------
(* One call of EVMInterpreter.Run: the height of the stack, the memory, and   *)
(* the gas of the contract, through instructions taken in any order.  The     *)
(* values on the stack are arbitrary: Operands is the set of choices for the  *)
(* seven topmost ones.  A callee is seen through the gas it gives back.       *)
(*                                                                            *)
(* Numbers are scaled.  2^64 is the constant U64, and a stack item that does  *)
(* not fit is represented by U64 itself; a word of memory keeps its 32 bytes; *)
(* MaxMemory stands for 0x1FFFFFFFE0, the last size whose squared number of   *)
(* words fits; 1/CallGasFraction of the gas stays with a caller (64 in the    *)
(* code).                                                                     *)
EXTENDS Instructions, FiniteSetsExt

CONSTANTS
    U64, MaxMemory, MaxGas, Operands, CallGasFraction,
    MemoryGas, QuadCoeffDiv, CopyGas, LogGas, LogTopicGas, LogDataGas,
    Keccak256WordGas, ExpGas, ExpByte,
    ColdSloadCost, ColdAccountAccessCost,
    SstoreSentryGas, SstoreSetGas, SstoreResetGas,
    CallNewAccountGas, CallValueTransferGas, CallStipend, CreateBySelfdestructGas

VARIABLES
    height,       \* stack.len()
    memory,       \* mem.Len()
    lastGasCost,  \* mem.lastGasCost
    gas,          \* contract.Gas
    status        \* "run", or how Run ended; "outside" is an access that memory cannot serve

runVars == <<height, memory, lastGasCost, gas, status>>

Overflow == -1

SafeAdd(a, b) == IF a < 0 \/ b < 0 \/ a + b >= U64 THEN Overflow ELSE a + b
SafeMul(a, b) == IF a < 0 \/ b < 0 \/ a * b >= U64 THEN Overflow ELSE a * b
Wrap(a)       == a % U64
IsUint64(a)   == a < U64

----------------------------------------------------------------------------
(* Memory: common.go, memory_table.go, memory.go.                             *)

calcMemSize64WithUint_bug(off, length) ==
    IF length = 0 THEN 0 ELSE IF ~IsUint64(off) THEN Overflow ELSE Wrap(off + length)

calcMemSize64WithUint(off, length) ==
    IF length = 0 THEN 0
    ELSE IF ~IsUint64(off) THEN Overflow
    ELSE LET val == Wrap(off + length) IN IF val < off THEN Overflow ELSE val

calcMemSize64(off, length) ==
    IF ~IsUint64(length) THEN Overflow ELSE calcMemSize64WithUint(off, length)

\* ceil(size / 32), without the sum that could overflow.
toWordSize(size) ==
    IF size > U64 - 1 - 31 THEN (U64 - 1) \div 32 + 1 ELSE (size + 31) \div 32

Larger(x, y) == IF x < 0 \/ y < 0 THEN Overflow ELSE Max({x, y})

\* The bytes an instruction needs, by the function its table entry names.
memorySize(name, x) ==
    CASE name \in {"memoryKeccak256", "memoryReturn", "memoryLog"} -> calcMemSize64(x[0], x[1])
      [] name = "memoryCopy"         -> calcMemSize64(x[0], x[2])
      [] name = "memoryExtCodeCopy"  -> calcMemSize64(x[1], x[3])
      [] name = "memory32"           -> calcMemSize64WithUint(x[0], 32)
      [] name = "memoryMStore8"      -> calcMemSize64WithUint(x[0], 1)
      [] name = "memoryCreate"       -> calcMemSize64(x[1], x[2])
      [] name = "memoryCall"         -> Larger(calcMemSize64(x[5], x[6]), calcMemSize64(x[3], x[4]))
      [] name = "memoryDelegateCall" -> Larger(calcMemSize64(x[4], x[5]), calcMemSize64(x[2], x[3]))
      [] name = "nil"                -> 0

\* Set, Set32, GetCopy and GetPtr find offset .. offset + size in the store.
Inside(region, x, len) ==
    LET size == Wrap(IF region.size < 0 THEN region.length ELSE x[region.size])
    IN  size = 0 \/ Wrap(x[region.offset]) + size <= len

----------------------------------------------------------------------------
(* Gas: gas_table.go, gas.go and operations_acl.go.  An error is Overflow.    *)

\* The fee of all the memory there will be; unchanged when memory does not grow.
totalFee(size) ==
    LET words == toWordSize(size)
    IN  IF size = 0 \/ Wrap(words * 32) <= memory
        THEN lastGasCost
        ELSE Wrap(Wrap(words * MemoryGas) + Wrap(words * words) \div QuadCoeffDiv)

memoryGasCost(size) ==
    IF size > MaxMemory THEN Overflow ELSE Wrap(totalFee(size) - lastGasCost)

\* A price per word of the operand that is a size.
PerWord(operand, price) ==
    IF ~IsUint64(operand) THEN Overflow ELSE SafeMul(toWordSize(operand), price)

gasLog(topics, x, size) ==
    IF ~IsUint64(x[1]) THEN Overflow
    ELSE SafeAdd(SafeAdd(SafeAdd(memoryGasCost(size), LogGas), topics * LogTopicGas),
                 SafeMul(x[1], LogDataGas))

\* The exponent's bytes: all of them for the value that stands for the large ones.
expByteLen(e) == CASE e = 0 -> 0 [] e \in 1..255 -> 1 [] e > 255 /\ IsUint64(e) -> 2 [] OTHER -> 3

gasExp(x) == SafeAdd(expByteLen(x[1]) * ExpByte, ExpGas)

cold2929 == ColdAccountAccessCost - WarmStorageReadCost

\* Everything but the gas that goes to the callee.
callBase(op, x, size, fresh) ==
    LET transfers == op \in {"CALL", "CALLCODE"} /\ x[2] # 0
        value     == IF transfers THEN CallValueTransferGas ELSE 0
        account   == IF transfers /\ op = "CALL" /\ fresh THEN CallNewAccountGas ELSE 0
    IN  SafeAdd(account + value, memoryGasCost(size))

callGas(available, base, requested) ==
    LET rest  == Wrap(available - base)
        given == rest - rest \div CallGasFraction
    IN  IF ~IsUint64(requested) \/ given < requested THEN given ELSE requested

\* evm.callGasTemp: what a call of the instruction hands over, `left` being the
\* gas after the constant part.
callGasTemp(op, x, size, cold, fresh, left) ==
    LET available == IF cold THEN left - cold2929 ELSE left
        base      == callBase(op, x, size, fresh)
    IN  IF available < 0 \/ base < 0 THEN Overflow ELSE callGas(available, base, x[0])

callCost(op, x, size, cold, fresh, left) ==
    LET sum == SafeAdd(callBase(op, x, size, fresh), callGasTemp(op, x, size, cold, fresh, left))
    IN  IF sum < 0 THEN Overflow ELSE Wrap(sum + (IF cold THEN cold2929 ELSE 0))

gasSStore(cold, write, left) ==
    IF left <= SstoreSentryGas THEN Overflow
    ELSE (IF cold THEN ColdSloadCost ELSE 0)
         + (CASE write = "same or dirty" -> WarmStorageReadCost
              [] write = "create"        -> SstoreSetGas
              [] write = "change"        -> SstoreResetGas - ColdSloadCost)

gasSelfdestruct(cold, fresh) ==
    (IF cold THEN ColdAccountAccessCost ELSE 0) + (IF fresh THEN CreateBySelfdestructGas ELSE 0)

dynamicGas(op, x, size, cold, fresh, write, left) ==
    LET name == instructionSet[op].dynamicGas
    IN  CASE name = "gasMemory"    -> memoryGasCost(size)
          [] name = "gasCopy2"     -> SafeAdd(memoryGasCost(size), PerWord(x[2], CopyGas))
          [] name = "gasExtCodeCopy"
               -> SafeAdd(SafeAdd(memoryGasCost(size), PerWord(x[3], CopyGas)), IF cold THEN cold2929 ELSE 0)
          [] name = "gasKeccak256" -> SafeAdd(memoryGasCost(size), PerWord(x[1], Keccak256WordGas))
          [] name = "gasCreate2"   -> SafeAdd(memoryGasCost(size), PerWord(x[2], Keccak256WordGas))
          [] name = "gasLog"       -> gasLog(instructionSet[op].minStack - 2, x, size)
          [] name = "gasExp"       -> gasExp(x)
          [] name = "gasSLoad"     -> IF cold THEN ColdSloadCost ELSE WarmStorageReadCost
          [] name = "gasAccountCheck" -> IF cold THEN cold2929 ELSE 0
          [] name = "gasSStore"    -> gasSStore(cold, write, left)
          [] name = "gasSelfdestruct" -> gasSelfdestruct(cold, fresh)
          [] name \in {"gasCall", "gasCallCode", "gasDelegateCall"}
               -> callCost(op, x, size, cold, fresh, left)
          [] name = "nil"          -> 0

----------------------------------------------------------------------------
(* Run.                                                                       *)

Calls   == {"CALL", "CALLCODE", "DELEGATECALL", "STATICCALL"}
Creates == {"CREATE", "CREATE2"}
Memless == {op \in Opcode : instructionSet[op].dynamicGas = "nil"}

RunInit ==
    /\ height = 0 /\ memory = 0 /\ lastGasCost = 0
    /\ gas \in 0..MaxGas
    /\ status = "run"

End(how) == status' = how /\ UNCHANGED <<height, memory, lastGasCost, gas>>

\* How an execute function leaves the loop, apart from going on.
Result(op) ==
    CASE op \in {"STOP", "RETURN", "SELFDESTRUCT"} -> {"done"}
      [] op = "REVERT"  -> {"reverted"}
      [] op = "INVALID" -> {"error"}
      \* a bad destination, evm.abort; a frame that may not write; too little return data
      [] op \in {"JUMP", "JUMPI"} -> {"run", "done", "error"}
      [] op \in {"SSTORE", "CALL", "RETURNDATACOPY"} \cup Creates \cup Of(LOG) -> {"run", "error"}
      [] OTHER -> {"run"}

\* The gas an instruction gives away for a time: to a callee, to a constructor.
HandedOver(op, x, temp, left) ==
    CASE op \in Creates -> left - left \div CallGasFraction
      [] op \in Calls   -> temp + (IF op \in {"CALL", "CALLCODE"} /\ x[2] # 0 THEN CallStipend ELSE 0)
      [] OTHER          -> 0

Executed(op, x, size, total, cost, temp, left) ==
    LET len == Max({memory, size})
    IN  /\ memory' = len
        /\ lastGasCost' = total
        /\ IF ~(height >= execute[op].pops + execute[op].peeks
                /\ \A region \in execute[op].regions : Inside(region, x, len))
           THEN status' = "outside" /\ UNCHANGED <<height, gas>>
           ELSE \E result \in Result(op) :
                \E back \in {0, HandedOver(op, x, temp, left - cost)} :
                    /\ status' = result
                    /\ height' = height - execute[op].pops + execute[op].pushes
                    /\ gas' = left - cost + back
                                - (IF op \in Creates THEN HandedOver(op, x, temp, left - cost) ELSE 0)

\* One turn of the loop with instruction op.
Turn(op, x, cold, fresh, write) ==
    LET entry == instructionSet[op]
        left  == gas - entry.constantGas
        need  == memorySize(entry.memorySize, x)
        size  == SafeMul(toWordSize(need), 32)
        cost  == dynamicGas(op, x, size, cold, fresh, write, left)
        temp  == IF op \in Calls THEN callGasTemp(op, x, size, cold, fresh, left) ELSE 0
    IN  /\ status = "run"
        /\ IF \/ height < entry.minStack
              \/ height > entry.maxStack
              \/ left < 0
              \/ need < 0
              \/ size < 0
              \/ cost < 0
              \/ cost > left
           THEN End("error")
           ELSE Executed(op, x, size, totalFee(size), cost, temp, left)

Zeros == [i \in 0..6 |-> 0]

Plain(op) == Turn(op, Zeros, FALSE, FALSE, "same or dirty")

Writes(op) == IF op = "SSTORE" THEN {"same or dirty", "create", "change"} ELSE {"same or dirty"}

Priced(op) ==
    \E x \in Operands, cold, fresh \in BOOLEAN, write \in Writes(op) : Turn(op, x, cold, fresh, write)

RunNext ==
    \/ \E op \in Memless : Plain(op)
    \/ \E op \in Opcode \ Memless : Priced(op)

RunSpec == RunInit /\ [][RunNext]_runVars

----------------------------------------------------------------------------
(* Properties.                                                                *)

\* The stack stays within its limit whatever the instructions: maxStack of the
\* table takes into account what execute pushes.
RunTypeOK ==
    /\ height \in 0..StackLimit
    /\ memory \in 0..MaxMemory /\ memory % 32 = 0
    /\ lastGasCost \in Nat
    /\ gas \in 0..MaxGas
    /\ status \in {"run", "done", "reverted", "error", "outside"}

\* The table keeps its word for instructions.go: no execute function pops or
\* reads below the bottom of the stack, and every piece of memory it reads or
\* writes is there, resized and paid for before it runs.  (Set panics when it
\* is not: "The store should be resized PRIOR to setting the memory".)
FindsItsOperands == status # "outside"

\* The memory in use has been charged for, to the unit: lastGasCost is the
\* full linear and quadratic price of its length, with no sum or square of
\* memoryGasCost having wrapped.
MemoryPaid ==
    LET words == memory \div 32
    IN  status = "run" => lastGasCost = words * MemoryGas + (words * words) \div QuadCoeffDiv

\* A step that lets Run go on leaves less gas than it found.
Costs == status' = "run" => gas' < gas

\* Every turn of the loop costs: a step that lets Run go on leaves less gas
\* than it found, calls with a stipend and creations that give back all they
\* got included.  This is what ends every execution, and every recursion.
EveryStepCosts == [][Costs]_runVars
=============================================================================
