-------------------------------- MODULE EVM --------------------------------
(* The execution of transactions: the call frames of evm.go and of the        *)
(* instructions that open and close them, over the stack of stores of         *)
(* StateDB, and the settling of a transaction in storeBlock.                  *)
(*                                                                            *)
(* A frame is one interpreter.Run.  Gas is left to Interpreter: a frame may   *)
(* run out of it at any time (Fail), and what a transaction has left at its   *)
(* end is any possible amount.  Addresses are partitioned into accounts       *)
(* without code, Contracts, Natives (contracts implemented in Go) and New,    *)
(* where a contract can be created.                                           *)
EXTENDS Integers, Sequences, FiniteSets, FiniteSetsExt

CONSTANTS
    Sender, Validator,       \* accounts without code
    Contracts, Natives, New, \* sets of addresses
    Slot, Value,             \* storage of a contract; 0 is the empty value
    Balance,                 \* initial balance of the sender and of each contract
    MaxTxs, MaxSteps,        \* bounds: transactions; transactions and instructions
    CallCreateDepth,
    ClearRefund, SetRefund, ResetRefund, RefundQuotient,
    TxGas, NetFee, GasPrice,
    Amount,                  \* what a call or a transaction may transfer
    GasLeft                  \* what a call that ran may leave of the gas

\* The sender of the transactions has no code.
ASSUME AccountsAssumption ==
    /\ IsFiniteSet(Contracts) /\ IsFiniteSet(Natives) /\ IsFiniteSet(New) /\ IsFiniteSet(Slot)
    /\ Sender \notin Contracts \cup Natives \cup New

\* The fee of the network is part of the gas of a transaction.
ASSUME AmountsAssumption ==
    /\ Balance \in Nat /\ CallCreateDepth \in Nat
    /\ ClearRefund \in Nat /\ SetRefund \in Nat /\ ResetRefund \in Nat
    /\ RefundQuotient \in Nat \ {0}
    /\ TxGas \in Nat /\ NetFee \in 0 .. TxGas /\ GasPrice \in Nat
    /\ Amount \subseteq Nat /\ GasLeft \subseteq 0 .. TxGas - NetFee

VARIABLES
    stores,    \* ps, then memStores
    frames,    \* the running frames, outermost first
    readOnly,  \* interpreter.readOnly
    tx,        \* the transaction being executed
    txs, steps

vars == <<stores, frames, readOnly, tx, txs, steps>>

Coded == Contracts \cup New
Addr  == {Sender, Validator} \cup Coded \cup Natives

----------------------------------------------------------------------------
(* access_list.go.  An address is absent, there without slots, or has an      *)
(* index into the sequence of sets of slots.                                  *)

absent  == -1
noSlots == 0

newAccessList == [addresses |-> [a \in Addr |-> absent], slots |-> <<>>]

AddAddress(al, a) ==
    IF al.addresses[a] # absent THEN al ELSE [al EXCEPT !.addresses[a] = noSlots]

AddSlot(al, a, s) ==
    IF al.addresses[a] \in {absent, noSlots}
    THEN [addresses |-> [al.addresses EXCEPT ![a] = Len(al.slots) + 1], slots |-> Append(al.slots, {s})]
    ELSE [al EXCEPT !.slots[al.addresses[a]] = @ \cup {s}]

ContainsAddress(al, a) == al.addresses[a] # absent
ContainsSlot(al, a, s) == al.addresses[a] \notin {absent, noSlots} /\ s \in al.slots[al.addresses[a]]

----------------------------------------------------------------------------
(* StateDB.                                                                   *)

CurrentStore == stores[Len(stores)]

SetTop(stack, store) == [stack EXCEPT ![Len(stack)] = store]

\* Snapshot: a clone of the given current store on top; the result is the clone's
\* index in memStores.
Snapshot(store) == Append(SetTop(stores, store), store)
revision == Len(stores) - 1

RevertToSnapshot_bug(revid) == SubSeq(stores, 1, revid + 2)

RevertToSnapshot(revid) == SubSeq(stores, 1, revid + 1)

\* GAS.addTokens, whose error no caller looks at.
addTokens_bug(store, a, amount) ==
    IF store.balance[a] + amount < 0 THEN store
    ELSE IF store.balance[a] + amount = 0 THEN [store EXCEPT !.balance[a] = 0]
    ELSE [store EXCEPT !.balance[a] = @ + amount, !.supply = @ + amount]

addTokens(store, a, amount) ==
    IF store.balance[a] + amount < 0 THEN store
    ELSE [store EXCEPT !.balance[a] = @ + amount, !.supply = @ + amount]

AddBalance(store, a, amount) == addTokens(store, a, amount)
SubBalance(store, a, amount) == addTokens(store, a, -amount)

CanTransfer(store, from, amount) == store.balance[from] >= amount

Transfer(store, from, to, amount) == AddBalance(AddBalance(store, from, -amount), to, amount)

SetNonce(store, a, nonce) == [store EXCEPT !.nonce[a] = nonce]

SetCode(store, a) == [store EXCEPT !.code = @ \cup {a}]

\* Management.Destroy deletes a key of the contract's own storage that nothing
\* was ever stored at: the contract stays.
Suicide(store, a) == store

Empty(store, a) == store.balance[a] = 0 /\ a \notin store.code /\ store.nonce[a] = 0

AddLog(store) == [store EXCEPT !.logs = @ + 1]

Touch(store, a) == [store EXCEPT !.access = AddAddress(@, a)]

\* PrepareAccessList: dest has the destination if there is one, list is the
\* transaction's own access list.
PrepareAccessList(store, sender, dest, list) ==
    LET addresses == FoldSet(LAMBDA a, al : AddAddress(al, a), newAccessList, {sender} \cup dest)
    IN  [store EXCEPT !.access = FoldSet(LAMBDA p, al : AddSlot(AddAddress(al, p[1]), p[1], p[2]), addresses, list),
                      !.accessed = list]

\* Commit: every store persists into the one below; what they hold besides the
\* data goes with them.
Commit(stack) ==
    <<[stack[Len(stack)] EXCEPT !.fund = stack[1].fund, !.logs = stack[1].logs,
                          !.access = stack[1].access, !.accessed = stack[1].accessed]>>

----------------------------------------------------------------------------
(* SSTORE: the refund of makeGasSStoreFunc, then SetState.                    *)

refundSStore_bug(fund, original, current, value) ==
    fund + (CASE value = current                 -> 0
              [] value # current /\ original = current
                   -> 0
              [] value # current /\ original # current
                   -> (CASE original # 0 /\ current = 0 -> -ClearRefund
                         [] original # 0 /\ current # 0 /\ value = 0 -> ClearRefund
                         [] OTHER -> 0)
                      + (IF original # value THEN 0 ELSE IF original = 0 THEN SetRefund ELSE ResetRefund))

\* The refund counter after a write of value over current; original is what the
\* slot held when the transaction began.
refundSStore(fund, original, current, value) ==
    fund + (CASE value = current                 -> 0
              [] value # current /\ original = current
                   -> (IF original # 0 /\ value = 0 THEN ClearRefund ELSE 0)
              [] value # current /\ original # current
                   -> (CASE original # 0 /\ current = 0 -> -ClearRefund
                         [] original # 0 /\ current # 0 /\ value = 0 -> ClearRefund
                         [] OTHER -> 0)
                      + (IF original # value THEN 0 ELSE IF original = 0 THEN SetRefund ELSE ResetRefund))

GetCommittedState(a, s) == stores[1].slots[a][s]

Running == frames # <<>>
Frame   == frames[Len(frames)]
self    == Frame.self
Step    == Running /\ steps + 2 * txs <= MaxSteps /\ steps' = steps + 1

WriteTop(store) == stores' = SetTop(stores, store)

\* Instructions that change the state fail in a frame that may not: Fail.
MayWrite == ~readOnly

SStore ==
    /\ Step /\ MayWrite
    /\ \E s \in Slot, value \in Value :
        WriteTop([CurrentStore EXCEPT
            !.access = AddSlot(@, self, s),
            !.accessed = @ \cup {<<self, s>>},
            !.fund = refundSStore(@, GetCommittedState(self, s), CurrentStore.slots[self][s], value),
            !.slots[self][s] = value])
    /\ UNCHANGED <<frames, readOnly, tx, txs>>

SLoad ==
    /\ Step
    /\ \E s \in Slot : WriteTop([CurrentStore EXCEPT !.access = AddSlot(@, self, s),
                                                     !.accessed = @ \cup {<<self, s>>}])
    /\ UNCHANGED <<frames, readOnly, tx, txs>>

Log ==
    /\ Step /\ MayWrite
    /\ WriteTop(AddLog(CurrentStore))
    /\ UNCHANGED <<frames, readOnly, tx, txs>>

----------------------------------------------------------------------------
(* Frames.                                                                    *)

\* The call of the transaction itself, or that of an instruction, is over; now
\* is the transaction as it was called.
Finished(now, result) ==
    tx' = IF frames = <<>> THEN [now EXCEPT !.phase = "settle", !.result = result] ELSE now

TooDeep == Len(frames) > CallCreateDepth

\* What evm.Call and its variants do once gas and access list are settled;
\* below is the state in which the snapshot is taken.
DoCall(now, kind, below, from, to, value) ==
    LET base   == SetTop(stores, below)
        pushed == Snapshot(below)
        moved  == IF kind = "CALL" THEN Transfer(below, from, to, value) ELSE below
        target == IF kind \in {"CALL", "STATICCALL"} THEN to ELSE from
    IN  CASE \/ TooDeep
             \/ kind \in {"CALL", "CALLCODE"} /\ value # 0 /\ ~CanTransfer(below, from, value)
               -> /\ stores' = base
                  /\ Finished(now, "refused") /\ UNCHANGED <<frames, readOnly>>
          [] OTHER
               -> IF kind = "CALL" /\ Empty(below, to) /\ to \notin Natives /\ value = 0
                  THEN /\ stores' = pushed
                       /\ Finished(now, "ok") /\ UNCHANGED <<frames, readOnly>>
                  ELSE IF to \in Natives
                  THEN \* RunNativeContract: an error is rolled back
                       /\ \/ \E store \in {moved, [moved EXCEPT !.native = @ + 1]} :
                                stores' = SetTop(pushed, store) /\ Finished(now, "ok")
                          \/ stores' = base /\ Finished(now, "error")
                       /\ UNCHANGED <<frames, readOnly>>
                  ELSE IF to \notin below.code
                  THEN /\ stores' = SetTop(pushed, moved)
                       /\ Finished(now, "ok") /\ UNCHANGED <<frames, readOnly>>
                  ELSE /\ stores' = SetTop(pushed, moved)
                       /\ frames' = Append(frames,
                            [self |-> target, kind |-> kind, static |-> kind = "STATICCALL",
                             setsReadOnly |-> kind = "STATICCALL" /\ ~readOnly,
                             revid |-> revision, saved |-> below])
                       /\ readOnly' = (readOnly \/ kind = "STATICCALL")
                       /\ tx' = now

Kinds == {"CALL", "CALLCODE", "DELEGATECALL", "STATICCALL"}

\* CALL, CALLCODE, DELEGATECALL and STATICCALL.
Call ==
    /\ Step
    /\ \E kind \in Kinds, to \in Addr, value \in Amount :
        /\ kind \in {"DELEGATECALL", "STATICCALL"} => value = 0
        /\ kind = "CALL" /\ value # 0 => MayWrite
        /\ DoCall(tx, kind, Touch(CurrentStore, to), self, to, value)
    /\ UNCHANGED txs

\* evm.create; the nonce and the access list change before the snapshot.
DoCreate(now, from, a, value) ==
    LET below  == Touch(SetNonce(CurrentStore, from, CurrentStore.nonce[from] + 1), a)
        moved  == Transfer(SetNonce(below, a, 1), from, a, value)
    IN  IF TooDeep \/ ~CanTransfer(CurrentStore, from, value)
        THEN Finished(now, "refused") /\ UNCHANGED <<stores, frames, readOnly>>
        ELSE IF below.nonce[a] # 0 \/ a \in below.code
        THEN /\ WriteTop(below)
             /\ Finished(now, "error") /\ UNCHANGED <<frames, readOnly>>
        ELSE /\ stores' = SetTop(Snapshot(below), moved)
             /\ frames' = Append(frames, [self |-> a, kind |-> "CREATE", static |-> FALSE, setsReadOnly |-> FALSE,
                                          revid |-> revision, saved |-> below])
             /\ tx' = now
             /\ UNCHANGED readOnly

Create ==
    /\ Step /\ MayWrite
    /\ \E a \in New, value \in Amount : DoCreate(tx, self, a, value)
    /\ UNCHANGED txs

----------------------------------------------------------------------------
(* The end of a frame.                                                        *)

Leave(result) ==
    /\ frames' = SubSeq(frames, 1, Len(frames) - 1)
    /\ readOnly' = (readOnly /\ ~Frame.setsReadOnly)
    /\ tx' = IF Len(frames) = 1 THEN [tx EXCEPT !.phase = "settle", !.result = result] ELSE tx
    /\ UNCHANGED <<txs, steps>>

\* STOP, RETURN; a constructor's result becomes code.
Return ==
    /\ Running
    /\ WriteTop(IF Frame.kind = "CREATE" THEN SetCode(CurrentStore, self) ELSE CurrentStore)
    /\ Leave("ok")

\* SELFDESTRUCT: the balance goes to the beneficiary, and stays.
SelfDestruct ==
    /\ Running /\ MayWrite
    /\ \E a \in Addr :
        LET amount == CurrentStore.balance[self]
            paid   == Suicide(AddBalance(Touch(CurrentStore, a), a, amount), self)
            minted == [paid EXCEPT !.minted = @ + amount]
        IN  WriteTop(IF Frame.kind = "CREATE" THEN SetCode(minted, self) ELSE minted)
    /\ Leave("ok")

\* REVERT, or any error of the interpreter.
Fail ==
    /\ Running
    /\ stores' = RevertToSnapshot(Frame.revid)
    /\ \E result \in {"error", "reverted"} : Leave(result)

----------------------------------------------------------------------------
(* Transactions of a block.                                                   *)

NoTx == [phase |-> "none", result |-> "none", nonce |-> 0, dest |-> {}, value |-> 0]

Init ==
    /\ stores = <<[slots    |-> [a \in Coded |-> [s \in Slot |-> IF a \in Contracts THEN 1 ELSE 0]],
                   balance  |-> [a \in Addr |-> CASE a = Sender -> Balance
                                                  [] a \in Contracts -> 1
                                                  [] OTHER -> 0],
                   supply   |-> Balance + Cardinality(Contracts),
                   minted   |-> 0,
                   nonce    |-> [a \in Addr |-> IF a \in Contracts THEN 1 ELSE 0],
                   code     |-> Contracts \cup Natives,
                   native   |-> 0, fund |-> 0, logs |-> 0,
                   access   |-> newAccessList, accessed |-> {}]>>
    /\ frames = <<>> /\ readOnly = FALSE
    /\ tx = NoTx /\ txs = 0 /\ steps = 0

\* The pool and the block's verification leave only transactions whose sender
\* can pay Cost(), the value and all the gas.  No destination is a creation.
\* To bound the instance one that counted no instruction is followed by another.
Begin ==
    /\ tx.phase = "none" /\ txs < MaxTxs /\ (txs > 0 => steps = 0)
    /\ txs' = txs + 1
    /\ \E dest \in {{}} \cup {{a} : a \in Addr}, value \in Amount, list \in {{}, Contracts \X Slot} :
        /\ value = 0 \/ list = {}
        /\ CurrentStore.balance[Sender] >= value + TxGas * GasPrice
        /\ WriteTop(PrepareAccessList(CurrentStore, Sender, dest, list))
        /\ tx' = [phase |-> "start", result |-> "none", nonce |-> CurrentStore.nonce[Sender],
                  dest |-> dest, value |-> value]
    /\ UNCHANGED <<frames, readOnly, steps>>

\* vm.Call or vm.Create of the transaction.
Execute ==
    /\ tx.phase = "start"
    /\ LET started == [tx EXCEPT !.phase = "run"]
       IN  IF tx.dest = {}
           THEN \E a \in New : DoCreate(started, Sender, a, tx.value)
           ELSE \A to \in tx.dest : DoCall(started, "CALL", CurrentStore, Sender, to, tx.value)
    /\ UNCHANGED <<txs, steps>>

\* The gas that is left: none after an error, all if the call was refused.
leftAfter(result) ==
    CASE result = "error"   -> {0}
      [] result = "refused" -> {TxGas - NetFee}
      [] OTHER              -> GasLeft

\* What storeBlock does after the call.  The validator stands for the coinbase,
\* which gets the network fee, and the consensus address, which gets the gas;
\* both get their share of all the gas used, the sender pays less the refund.
Settle ==
    /\ tx.phase = "settle"
    /\ \E left \in leftAfter(tx.result) :
        LET gas     == TxGas - NetFee
            gasUsed == TxGas - left
            refund  == Min({CurrentStore.fund, gasUsed \div RefundQuotient})
            counted == SetNonce(CurrentStore, Sender, CurrentStore.nonce[Sender] + 1)
            earned  == AddBalance(AddBalance(counted, Validator, NetFee * GasPrice),
                                  Validator, (gas - left) * GasPrice)
            paid    == SubBalance(earned, Sender, (gasUsed - refund) * GasPrice)
        IN  stores' = Commit(SetTop(stores, [paid EXCEPT !.minted = @ + refund * GasPrice]))
    /\ tx' = [tx EXCEPT !.phase = "none"]
    /\ UNCHANGED <<frames, readOnly, txs, steps>>

Next ==
    \/ Begin \/ Execute \/ Settle
    \/ SStore \/ SLoad \/ Log \/ Call \/ Create
    \/ Return \/ SelfDestruct \/ Fail

Spec == Init /\ [][Next]_vars

----------------------------------------------------------------------------
(* Properties.                                                                *)

TypeOK ==
    /\ \A i \in DOMAIN stores :
        /\ stores[i].balance \in [Addr -> Nat]
        /\ stores[i].supply \in Nat
        /\ stores[i].code \subseteq Addr
    /\ Len(frames) <= CallCreateDepth + 1
    /\ readOnly \in BOOLEAN
    /\ tx.phase \in {"none", "start", "run", "settle"}
    /\ tx.phase = "run" <=> Running

\* The store after a failure is the one that was current at the snapshot.
Restored == Fail => stores'[Len(stores')] = Frame.saved

\* A frame that fails leaves the state as it found it: whatever the frame and
\* its callees did, and whichever of those failed, RevertToSnapshot uncovers the
\* store that was current when the snapshot was taken.
RevertRestores == [][Restored]_vars

\* "We can prove that refund counter will never go below 0" (gas_table.go): in
\* every store the counter covers each slot that was cleared and that a later
\* write may take back, across frames and their reverts.
RefundCovers ==
    \A i \in DOMAIN stores :
        LET cleared == {p \in Coded \X Slot : /\ GetCommittedState(p[1], p[2]) # 0
                                              /\ stores[i].slots[p[1]][p[2]] = 0}
        IN  stores[i].fund >= ClearRefund * Cardinality(cleared)

\* The address whose storage a frame uses is in the access list, so the panic
\* of SSTORE ("impossible case") is not reached: whoever opened the frame had
\* listed the address before the snapshot.
SelfIsListed == Running => ContainsAddress(CurrentStore.access, self)

\* The access list answers for each slot whether the transaction has used it,
\* after any number of copies and rollbacks.
AccessListExact ==
    \A i \in DOMAIN stores : \A a \in Coded, s \in Slot :
        ContainsSlot(stores[i].access, a, s) <=> <<a, s>> \in stores[i].accessed

Visible(store) == <<store.slots, store.balance, store.nonce, store.code, store.logs>>

\* While a static call is on the stack, however deep below it the frames go,
\* the contracts' state and the logs are what they were when it started
\* (evm.StaticCall: "disallowing any modifications to the state during the
\* call").  Contracts implemented in Go are not held to it by this code.
StaticChangesNothing ==
    \A i \in DOMAIN frames : frames[i].static => Visible(CurrentStore) = Visible(frames[i].saved)

\* The balances add up to the total supply that addTokens maintains, in every
\* store of the stack.
SupplyIsSum ==
    \A i \in DOMAIN stores :
        stores[i].supply = MapThenSumSet(LAMBDA a : stores[i].balance[a], Addr)

\* Calls and creations only move tokens: what the supply grew by is what
\* SELFDESTRUCT paid out and, for a settled transaction, the refund, so the
\* sender was always able to pay for the gas used.
TransfersConserve ==
    \A i \in DOMAIN stores :
        stores[i].supply = Balance + Cardinality(Contracts) + stores[i].minted

\* A transaction never leaves its sender's nonce where it was, not even if it
\* failed, and so cannot be executed again.
NonceMoves == tx.phase = "none" /\ txs > 0 => CurrentStore.nonce[Sender] > tx.nonce

\* Nothing of a transaction is left for the next one but the data: one store,
\* no refund, no log.
NothingLeaks == tx.phase = "none" => Len(stores) = 1 /\ CurrentStore.fund = 0 /\ CurrentStore.logs = 0

\* makeGasSStoreFunc, accessList and evm.StaticCall, evm.Call and evm.create,
\* storeBlock: at every moment of a transaction the refund covers what is taken
\* from it, the list has the address a frame runs for and exactly the slots that
\* were used, nothing changes below a static call and tokens only move; after it
\* nothing is left for the next one but the data, and the nonce has moved.
FramesAreSound ==
    /\ TypeOK /\ RefundCovers /\ SelfIsListed /\ AccessListExact /\ StaticChangesNothing
    /\ TransfersConserve /\ NonceMoves /\ NothingLeaks

----------------------------------------------------------------------------
(* What holds between all steps.                                              *)

AccessList == [addresses : [Addr -> Nat \cup {absent}], slots : Seq(SUBSET Slot)]

\* An index leads to the slots of one address.
Indexed(al) ==
    /\ \A a \in Addr : al.addresses[a] <= Len(al.slots)
    /\ \A a, b \in Addr : al.addresses[a] = al.addresses[b] /\ al.addresses[a] > 0 => a = b

Store == [slots : [Coded -> [Slot -> Value \cup {0, 1}]], balance : [Addr -> Nat], supply : Nat,
          minted : Nat, nonce : [Addr -> Nat], code : SUBSET (Coded \cup Natives), native : Nat,
          fund : Int, logs : Nat, access : AccessList, accessed : SUBSET (Coded \X Slot)]

Listed(store, a) == ContainsAddress(store.access, a)

Exact(store) ==
    \A a \in Addr, s \in Slot : ContainsSlot(store.access, a, s) <=> <<a, s>> \in store.accessed

\* The slots a transaction has cleared, if the storage was this when it began.
Cleared(original, store) ==
    {p \in Coded \X Slot : original[p[1]][p[2]] # 0 /\ store.slots[p[1]][p[2]] = 0}

TotalOf(balances) == MapThenSumSet(LAMBDA a : balances[a], Addr)

StoreFits(original, store) ==
    /\ Indexed(store.access) /\ Exact(store)
    /\ store.fund >= ClearRefund * Cardinality(Cleared(original, store))
    /\ store.supply = Balance + Cardinality(Contracts) + store.minted
    /\ store.supply = TotalOf(store.balance)

\* What a transaction leaves in every store until it is settled: the gas its
\* sender has bought, and the nonce it was checked with.
Pays(t, store) ==
    /\ store.balance[Sender] >= TxGas * GasPrice
    /\ store.nonce[Sender] >= t.nonce

FrameRecord == [self : Coded, kind : Kinds \cup {"CREATE"}, static : BOOLEAN, setsReadOnly : BOOLEAN,
                revid : Nat, saved : Store]

\* A frame's snapshot is below the current store and holds what the frame found.
FrameFits(stack, f) == f.revid + 1 < Len(stack) /\ stack[f.revid + 1] = f.saved

\* Of two frames the inner one has the later snapshot, knows whom the outer one
\* runs for and, below a static call, has found what that has found.
FramesNest(fs) ==
    \A i, j \in DOMAIN fs : i < j =>
        /\ fs[i].revid < fs[j].revid
        /\ Listed(fs[j].saved, fs[i].self)
        /\ fs[i].static => fs[j].kind # "CREATE" /\ Visible(fs[j].saved) = Visible(fs[i].saved)

\* The current store against the frames that run.
TopFits(store, fs) ==
    \A i \in DOMAIN fs : /\ Listed(store, fs[i].self)
                         /\ fs[i].static => Visible(store) = Visible(fs[i].saved)

\* The outermost static call makes the interpreter read only, and ends that.
StaticFits(fs, ro) ==
    /\ ro <=> \E i \in DOMAIN fs : fs[i].static
    /\ \A i \in DOMAIN fs : /\ fs[i].static <=> fs[i].kind = "STATICCALL"
                            /\ fs[i].setsReadOnly <=> /\ fs[i].static
                                                      /\ \A j \in DOMAIN fs : j < i => ~fs[j].static
                            /\ Listed(fs[i].saved, fs[i].self)

\* The stores, the frames that run on them and the flag.
StackFits(stack, fs, ro) ==
    /\ stack \in Seq(Store) /\ stack # <<>>
    /\ fs \in Seq(FrameRecord) /\ Len(fs) <= CallCreateDepth + 1
    /\ ro \in BOOLEAN
    /\ stack[1].fund = 0 /\ stack[1].logs = 0
    /\ \A i \in DOMAIN stack : StoreFits(stack[1].slots, stack[i])
    /\ \A i \in DOMAIN fs : FrameFits(stack, fs[i])
    /\ FramesNest(fs) /\ TopFits(stack[Len(stack)], fs) /\ StaticFits(fs, ro)

TxRecord == [phase : {"none", "start", "run", "settle"}, nonce : Nat, dest : SUBSET Addr, value : Nat,
             result : {"none", "ok", "refused", "error", "reverted"}]

TxFits ==
    /\ tx \in TxRecord /\ txs \in Nat
    /\ tx.phase = "run" <=> frames # <<>>
    /\ tx.phase \in {"none", "start"} => Len(stores) = 1
    /\ tx.phase = "start" => /\ tx.dest = {} \/ \E a \in Addr : tx.dest = {a}
                             /\ \A a \in tx.dest : Listed(stores[1], a)
                             /\ stores[1].balance[Sender] >= tx.value + TxGas * GasPrice
    /\ IF tx.phase = "none" THEN txs > 0 => stores[1].nonce[Sender] > tx.nonce
                            ELSE \A i \in DOMAIN stores : Pays(tx, stores[i])

ExecInv ==
    /\ StackFits(stores, frames, readOnly)
    /\ TxFits
=============================================================================
