------------------------------ MODULE Ledger -------------------------------
(* The parts of a node that decide what the ledger becomes: the transactions  *)
(* it pools, their execution and the loop that runs a contract's code (the    *)
(* modules this one extends), and the contract for assets of the main chain.  *)
(* They do not share state that matters to their properties, so a behaviour   *)
(* is a behaviour of one of them: part names it, the others stay.             *)
EXTENDS EVM, Interpreter

CONSTANTS
    PoolTx,                                        \* Mempool
    NextConsensus, StateSigners, StateDesignated,  \* Bridge
    Designated, Deposit,
    Nil

VARIABLES
    part,
    ledger, pool, calls,
    headers, stateRoots, addresses, joints, syncedIndex, designated, minted,
    balance, locks, lockId, crashed

----------------------------------------------------------------------------
(* The instances *)

Make(id, sender, nonce, price, cost) ==
    [id |-> id, from |-> sender, nonce |-> nonce, price |-> price, cost |-> cost]

\* Two senders; both transactions of b may be replaced, and cost so little that
\* b can always pay for them.  Of a sender's transactions the one with the lower
\* nonce has the greater hash: only then does removeInternal find it.  A balance
\* of 2 drops the first transaction of a and leaves the other two.
TwoSenders ==
    {Make(7, "a", 0, 2, 3), Make(4, "a", 1, 3, 1), Make(1, "a", 2, 2, 1),
     Make(5, "b", 0, 1, 1), Make(6, "b", 0, 3, 1),
     Make(2, "b", 1, 1, 1), Make(3, "b", 1, 2, 1)}

Txs == INSTANCE Mempool WITH Sender <- {"a", "b"}, Tx <- PoolTx, Balance <- {2, 4},
           GasPrice <- {1, 2}, Foreign <- FALSE, Capacity <- 5, MaxBlocks <- 2, MaxCalls <- 2,
           chain <- ledger

\* Memory offsets and sizes, values and gas: none, some, the largest memory,
\* nearly and exactly the largest number; every instruction sees several of
\* them in every place.
Items == <<0, 33, 1440, 2016, U64>>
SomeOperands == {[p \in 0 .. 6 |-> Items[((a * p + b) % 5) + 1]] : a \in {0, 2}, b \in 0 .. 4}

\* The main chain changes its committee, its state validators and the side chain's.
MainConsensus == [i \in 0 .. 3 |-> IF i < 2 THEN "A" ELSE "B"]
MainSigners == [i \in 0 .. 3 |-> IF i < 3 THEN "S" ELSE "T"]
MainStateDesignated == [i \in {2} |-> "T"]
MainDesignated == [i \in {1, 2} |-> IF i = 1 THEN "P" ELSE "Q"]
MainDeposits ==
    {[id |-> 1, block |-> 1, amount |-> 3, to |-> "x"],
     [id |-> 2, block |-> 2, amount |-> 1, to |-> "y"],
     [id |-> 3, block |-> 2, amount |-> 2, to |-> "y"]}

Assets == INSTANCE Bridge WITH MainHeight <- 3, StandbyState <- "S", MintThreshold <- 2,
              BaseBonus <- 1, GWei10 <- 2, Account <- {"x", "y"}, Initial <- 5,
              LockValue <- {4, 5}, MaxLocks <- 2

----------------------------------------------------------------------------
txsVars == <<ledger, pool, calls>>
assetsVars == <<headers, stateRoots, addresses, joints, syncedIndex, designated, minted, balance,
                locks, lockId, crashed>>
ledgerVars == <<part, txsVars, vars, runVars, assetsVars>>

\* The state of a part that does not run.
NoTxs ==
    /\ ledger = Nil /\ pool = Nil /\ calls = Nil
NoLoop ==
    height = Nil /\ memory = Nil /\ lastGasCost = Nil /\ gas = Nil /\ status = Nil
NoAssets ==
    /\ headers = Nil /\ stateRoots = Nil /\ addresses = Nil /\ joints = Nil
    /\ syncedIndex = Nil /\ designated = Nil /\ minted = Nil /\ balance = Nil /\ locks = Nil
    /\ lockId = Nil /\ crashed = Nil

LedgerInit ==
    /\ part \in {"txs", "machine", "loop", "assets"}
    /\ IF part = "txs" THEN Txs!Init ELSE NoTxs
    /\ Init
    /\ IF part = "loop" THEN RunInit ELSE NoLoop
    /\ IF part = "assets" THEN Assets!Init ELSE NoAssets

LedgerNext ==
    /\ UNCHANGED part
    /\ \/ /\ part = "txs" /\ Txs!Next
          /\ UNCHANGED <<vars, runVars, assetsVars>>
       \/ /\ part = "machine" /\ Next
          /\ UNCHANGED <<txsVars, runVars, assetsVars>>
       \/ /\ part = "loop" /\ RunNext
          /\ UNCHANGED <<txsVars, vars, assetsVars>>
       \/ /\ part = "assets" /\ Assets!Next
          /\ UNCHANGED <<txsVars, vars, runVars>>

LedgerSpec == LedgerInit /\ [][LedgerNext]_ledgerVars

----------------------------------------------------------------------------
\* Pool.Add, removeInternal and RemoveStale: the sorted list and the maps of the
\* pool agree and stay within its capacity, the nonces of a sender continue
\* those of the ledger in an executable order, and after every block the
\* senders can pay for all they have pooled.
PoolIsExecutable ==
    part = "txs" => /\ Txs!TypeOK /\ Txs!PoolConsistent /\ Txs!NoncesContinue
                    /\ Txs!ExecutableOrder /\ Txs!PayersCanPay /\ Txs!StillExecutable

\* Run, jump_table.go and memoryGasCost: the stack stays within its limit, no
\* execute function reads below it or beyond memory, the memory in use has been
\* charged for, to the unit, and every turn of the loop costs gas.
LoopIsPaid ==
    /\ [](part = "loop" => RunTypeOK /\ FindsItsOperands /\ MemoryPaid)
    /\ [][part = "loop" => Costs]_runVars

\* syncHeader, requestMint, syncValidators and lock: stored headers are those of
\* the main chain, a deposit is minted once and only with a state root of its
\* block or later, there is no way back to a committee the main chain has
\* replaced, and a record of a lock stays.
AssetsFollowMain ==
    /\ [](part = "assets" => /\ Assets!HeadersAreMain /\ Assets!MintsDepositsOnce
                             /\ Assets!MintsAreFinal)
    /\ [][part = "assets" => Assets!Forward /\ Assets!LocksKept]_assetsVars
=============================================================================
