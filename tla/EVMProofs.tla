----------------------------- MODULE EVMProofs ------------------------------
(* ExecInv is an inductive invariant of the execution of transactions, for    *)
(* any sets of contracts and slots, any depth of calls and any prices: every  *)
(* step changes the stack of stores as the lemmas of EVMStoreProofs allow.    *)
EXTENDS EVMStoreProofs

----------------------------------------------------------------------------
(* The steps                                                                  *)

\* What the steps of a running frame find.
LEMMA RunningFacts ==
    ASSUME ExecInv, Running
    PROVE  /\ stores \in Seq(Store) /\ Len(stores) \in Nat /\ Len(stores) > 1
           /\ frames \in Seq(FrameRecord) /\ Len(frames) \in Nat \ {0}
           /\ Frame \in FrameRecord /\ self \in Coded /\ self \in Addr /\ self # Sender
           /\ Sender \in Addr /\ readOnly \in BOOLEAN
           /\ Top(stores) = CurrentStore /\ CurrentStore \in Store
           /\ StoreFits(stores[1].slots, CurrentStore) /\ Listed(CurrentStore, self)
           /\ tx \in TxRecord /\ tx.phase = "run" /\ txs \in Nat
           /\ \A i \in DOMAIN stores : Pays(tx, stores[i])
           /\ Pays(tx, CurrentStore)
<1>1. /\ stores \in Seq(Store) /\ Len(stores) \in Nat \ {0} /\ frames \in Seq(FrameRecord)
      /\ Len(frames) \in Nat \ {0} /\ readOnly \in BOOLEAN
  BY DEF ExecInv, StackFits, Running
<1>2. Len(frames) \in 1 .. Len(frames) /\ Len(stores) \in 1 .. Len(stores)
  BY <1>1
<1>3. Frame \in FrameRecord /\ self \in Coded /\ self \in Addr /\ Frame.revid \in Nat
  BY <1>1, <1>2, FrameFields, Zenon DEF Frame, self
<1>4. self # Sender /\ Sender \in Addr
  BY <1>3, AccountsAssumption, Zenon DEF Coded, Addr
<1>5. Frame.revid + 1 < Len(stores)
  BY <1>1, <1>2 DEF ExecInv, StackFits, FrameFits, Frame
<1>6. CurrentStore \in Store /\ StoreFits(stores[1].slots, CurrentStore)
  BY <1>1, <1>2 DEF ExecInv, StackFits, CurrentStore
<1>7. Listed(CurrentStore, self)
  BY <1>1, <1>2 DEF ExecInv, StackFits, TopFits, CurrentStore, self, Frame
<1>8. tx \in TxRecord /\ tx.phase = "run" /\ txs \in Nat /\ \A i \in DOMAIN stores : Pays(tx, stores[i])
  BY Zenon DEF ExecInv, TxFits, Running
<1>9. Pays(tx, CurrentStore)
  BY <1>1, <1>2, <1>8 DEF CurrentStore
<1>. QED BY <1>1, <1>3, <1>4, <1>5, <1>6, <1>7, <1>8, <1>9, SMTT(30) DEF Top, CurrentStore

\* A step of a frame that writes to the current store.
LEMMA WriteKeeps ==
    ASSUME ExecInv, Running, NEW n, Grows(stores[1].slots, CurrentStore, n), Pays(tx, n),
           readOnly => Visible(n) = Visible(CurrentStore),
           WriteTop(n), UNCHANGED <<frames, readOnly, tx, txs>>
    PROVE  ExecInv'
<1>1. /\ stores \in Seq(Store) /\ Len(stores) \in Nat /\ Len(stores) > 1 /\ Top(stores) = CurrentStore
      /\ tx.phase = "run" /\ \A i \in DOMAIN stores : Pays(tx, stores[i])
  BY RunningFacts, Zenon
<1>2. StackFits(stores, frames, readOnly)
  BY Zenon DEF ExecInv
<1>3. /\ StackFits(SetTop(stores, n), frames, readOnly)
      /\ Len(SetTop(stores, n)) = Len(stores) /\ Top(SetTop(stores, n)) = n
      /\ \A i \in DOMAIN stores : i # Len(stores) => SetTop(stores, n)[i] = stores[i]
  BY <1>1, <1>2, SetTopFits
<1>4. StackFits(stores, frames, readOnly)'
  BY <1>3, Zenon DEF WriteTop
<1>5. \A i \in DOMAIN stores' : Pays(tx', stores'[i])
  <2>1. stores' \in Seq(Store) /\ Len(stores') = Len(stores) /\ stores'[Len(stores)] = n
    BY <1>3, <1>4, Zenon DEF WriteTop, StackFits, Top
  <2>2. \A i \in 1 .. Len(stores) : i # Len(stores) => stores'[i] = stores[i]
    BY <1>1, <1>3 DEF WriteTop
  <2>3. \A i \in 1 .. Len(stores) : Pays(tx, stores[i])
    BY <1>1
  <2>4. tx' = tx /\ DOMAIN stores' = 1 .. Len(stores)
    BY <2>1
  <2>. QED BY <2>1, <2>2, <2>3, <2>4, Zenon
<1>6. TxFits'
  BY <1>1, <1>5, Zenon DEF ExecInv, TxFits
<1>. QED BY <1>4, <1>6, Zenon DEF ExecInv

\* A store that shows the same sender's account is as good for the settlement.
LEMMA PaysOn ==
    ASSUME NEW t, NEW st, NEW n, Pays(t, st), n.balance = st.balance, n.nonce = st.nonce
    PROVE  Pays(t, n)
BY Zenon DEF Pays

\* opSstore with the refund of makeGasSStoreFunc.
LEMMA SStoreKeeps == ASSUME ExecInv, SStore PROVE ExecInv'
<1>1. PICK s \in Slot, value \in Value :
        WriteTop([CurrentStore EXCEPT
            !.access = AddSlot(@, self, s),
            !.accessed = @ \cup {<<self, s>>},
            !.fund = refundSStore(@, GetCommittedState(self, s), CurrentStore.slots[self][s], value),
            !.slots[self][s] = value])
  BY Zenon DEF SStore
<1>. DEFINE n == Stored(CurrentStore, stores[1].slots, self, s, value)
<1>2. Running /\ ~readOnly /\ UNCHANGED <<frames, readOnly, tx, txs>>
  BY Zenon DEF SStore, Step, MayWrite
<1>3. /\ self \in Coded /\ CurrentStore \in Store /\ StoreFits(stores[1].slots, CurrentStore)
      /\ Pays(tx, CurrentStore)
  BY <1>2, RunningFacts, Zenon
<1>4. Grows(stores[1].slots, CurrentStore, n) /\ n.nonce = CurrentStore.nonce /\ n.balance = CurrentStore.balance
  BY <1>3, SStoreFits, Zenon
<1>5. WriteTop(n)
  BY <1>1, Zenon DEF GetCommittedState, Stored
<1>. HIDE DEF n
<1>6. Pays(tx, n)
  BY <1>3, <1>4, PaysOn, Zenon
<1>. QED BY <1>2, <1>4, <1>5, <1>6, WriteKeeps, Zenon

\* opSload: the slot is in the access list from now on.
LEMMA SLoadKeeps == ASSUME ExecInv, SLoad PROVE ExecInv'
<1>1. PICK s \in Slot : WriteTop([CurrentStore EXCEPT !.access = AddSlot(@, self, s),
                                                      !.accessed = @ \cup {<<self, s>>}])
  BY Zenon DEF SLoad
<1>. DEFINE n == [CurrentStore EXCEPT !.access = AddSlot(@, self, s), !.accessed = @ \cup {<<self, s>>}]
<1>2. Running /\ UNCHANGED <<frames, readOnly, tx, txs>>
  BY Zenon DEF SLoad, Step
<1>3. /\ self \in Coded /\ CurrentStore \in Store /\ StoreFits(stores[1].slots, CurrentStore)
      /\ Pays(tx, CurrentStore)
  BY <1>2, RunningFacts, Zenon
<1>4. Grows(stores[1].slots, CurrentStore, n) /\ Same(CurrentStore, n)
  BY <1>3, UseFits, Zenon
<1>5. WriteTop(n)
  BY <1>1, Zenon
<1>. HIDE DEF n
<1>6. Pays(tx, n)
  BY <1>3, <1>4, PaysOn, Zenon DEF Same
<1>7. Visible(n) = Visible(CurrentStore)
  BY <1>4, SameIsVisible, Zenon
<1>. QED BY <1>2, <1>4, <1>5, <1>6, <1>7, WriteKeeps, Zenon

\* makeLog.
LEMMA LogKeeps == ASSUME ExecInv, Log PROVE ExecInv'
<1>. DEFINE n == AddLog(CurrentStore)
<1>1. Running /\ ~readOnly /\ WriteTop(n) /\ UNCHANGED <<frames, readOnly, tx, txs>>
  BY Zenon DEF Log, Step, MayWrite
<1>2. CurrentStore \in Store /\ StoreFits(stores[1].slots, CurrentStore) /\ Pays(tx, CurrentStore)
  BY <1>1, RunningFacts, Zenon
<1>3. Grows(stores[1].slots, CurrentStore, n) /\ n.nonce = CurrentStore.nonce /\ n.balance = CurrentStore.balance
  BY <1>2, LogFits, Zenon
<1>. HIDE DEF n
<1>4. Pays(tx, n)
  BY <1>2, <1>3, PaysOn, Zenon
<1>. QED BY <1>1, <1>3, <1>4, WriteKeeps, Zenon

\* The end of a frame, given the stack it leaves.
LEMMA LeaveKeeps ==
    ASSUME ExecInv, Running, NEW result \in {"ok", "error", "reverted"}, Leave(result),
           StackFits(stores', SubSeq(frames, 1, Len(frames) - 1), readOnly /\ ~Frame.setsReadOnly),
           \A i \in DOMAIN stores' : Pays(tx, stores'[i])
    PROVE  ExecInv'
<1>1. /\ frames' = SubSeq(frames, 1, Len(frames) - 1) /\ readOnly' = (readOnly /\ ~Frame.setsReadOnly)
      /\ tx' = IF Len(frames) = 1 THEN [tx EXCEPT !.phase = "settle", !.result = result] ELSE tx
      /\ txs' = txs
  BY Zenon DEF Leave
<1>2. StackFits(stores, frames, readOnly)'
  BY <1>1, Zenon
<1>3. tx \in TxRecord /\ tx.phase = "run" /\ txs \in Nat /\ StackFits(stores, frames, readOnly) /\ frames # <<>>
  BY RunningFacts, Zenon DEF ExecInv, Running
<1>4. frames' = <<>> <=> Len(frames) = 1
  BY <1>1, <1>3, PopFits, Zenon
<1>5. CASE Len(frames) = 1
  <2>1. tx' \in TxRecord /\ tx'.phase = "settle" /\ tx'.nonce = tx.nonce
    BY <1>1, <1>3, <1>5, Zenon DEF TxRecord
  <2>2. \A i \in DOMAIN stores' : Pays(tx', stores'[i])
    BY <2>1, Zenon DEF Pays
  <2>3. TxFits'
    BY <1>1, <1>3, <1>4, <1>5, <2>1, <2>2, Zenon DEF TxFits
  <2>. QED BY <1>2, <2>3, Zenon DEF ExecInv
<1>6. CASE Len(frames) # 1
  <2>1. tx' = tx
    BY <1>1, <1>6, Zenon
  <2>2. \A i \in DOMAIN stores' : Pays(tx', stores'[i])
    BY <2>1, Zenon
  <2>3. TxFits'
    BY <1>1, <1>3, <1>4, <1>6, <2>1, <2>2, Zenon DEF TxFits
  <2>. QED BY <1>2, <2>3, Zenon DEF ExecInv
<1>. QED BY <1>5, <1>6, Zenon

\* No contract is created below a static call.
LEMMA CreatesWrite ==
    ASSUME ExecInv, Running, Frame.kind = "CREATE" PROVE ~readOnly
<1>. DEFINE l == Len(frames)
<1>1. frames \in Seq(FrameRecord) /\ l \in Nat \ {0} /\ DOMAIN frames = 1 .. l /\ l \in 1 .. l
  BY RunningFacts
<1>2. FramesNest(frames) /\ StaticFits(frames, readOnly)
  BY Zenon DEF ExecInv, StackFits
<1>3. ASSUME NEW i \in 1 .. l, frames[i].static PROVE FALSE
  <2>1. CASE i = l
    BY <1>1, <1>2, <1>3, <2>1, Zenon DEF StaticFits, Frame
  <2>2. CASE i < l
    BY <1>1, <1>2, <1>3, <2>2, Zenon DEF FramesNest, Frame
  <2>3. i = l \/ i < l
    <3>. HIDE DEF l
    <3>. QED BY <1>1
  <2>. QED BY <2>1, <2>2, <2>3, Zenon
<1>. QED BY <1>1, <1>2, <1>3, Zenon DEF StaticFits

\* A frame writes and ends.
LEMMA WriteAndLeave ==
    ASSUME ExecInv, Running, NEW n, Grows(stores[1].slots, CurrentStore, n), Pays(tx, n),
           readOnly => Visible(n) = Visible(CurrentStore),
           WriteTop(n), Leave("ok")
    PROVE  ExecInv'
<1>1. /\ stores \in Seq(Store) /\ Len(stores) \in Nat /\ Len(stores) > 1 /\ Top(stores) = CurrentStore
      /\ \A i \in DOMAIN stores : Pays(tx, stores[i])
  BY RunningFacts, Zenon
<1>2. StackFits(stores, frames, readOnly) /\ frames # <<>>
  BY Zenon DEF ExecInv, Running
<1>3. /\ StackFits(SetTop(stores, n), frames, readOnly)
      /\ Len(SetTop(stores, n)) = Len(stores) /\ Top(SetTop(stores, n)) = n
      /\ \A i \in DOMAIN stores : i # Len(stores) => SetTop(stores, n)[i] = stores[i]
  BY <1>1, <1>2, SetTopFits
<1>4. StackFits(stores', SubSeq(frames, 1, Len(frames) - 1), readOnly /\ ~Frame.setsReadOnly)
  BY <1>2, <1>3, LeaveFits, Zenon DEF WriteTop, Frame
<1>5. \A i \in DOMAIN stores' : Pays(tx, stores'[i])
  <2>1. stores' \in Seq(Store) /\ Len(stores') = Len(stores) /\ stores'[Len(stores)] = n
    BY <1>3, <1>4, Zenon DEF WriteTop, StackFits, Top
  <2>2. \A i \in 1 .. Len(stores) : i # Len(stores) => stores'[i] = stores[i]
    BY <1>1, <1>3 DEF WriteTop
  <2>3. \A i \in 1 .. Len(stores) : Pays(tx, stores[i])
    BY <1>1
  <2>4. DOMAIN stores' = 1 .. Len(stores)
    BY <2>1
  <2>. QED BY <2>1, <2>2, <2>3, <2>4, ZenonT(40)
<1>. QED BY <1>4, <1>5, LeaveKeeps, Zenon

\* opStop and opReturn: the frame ends and its snapshot is kept.
LEMMA ReturnKeeps == ASSUME ExecInv, Return PROVE ExecInv'
<1>1. /\ Running /\ Leave("ok")
      /\ WriteTop(IF Frame.kind = "CREATE" THEN SetCode(CurrentStore, self) ELSE CurrentStore)
  BY Zenon DEF Return
<1>2. /\ self \in Coded /\ CurrentStore \in Store /\ StoreFits(stores[1].slots, CurrentStore)
      /\ Pays(tx, CurrentStore)
  BY <1>1, RunningFacts, Zenon
<1>3. CASE Frame.kind = "CREATE"
  <2>. DEFINE n == SetCode(CurrentStore, self)
  <2>1. Grows(stores[1].slots, CurrentStore, n) /\ n.nonce = CurrentStore.nonce /\ n.balance = CurrentStore.balance
    BY <1>2, CodeFits, Zenon
  <2>2. WriteTop(n) /\ ~readOnly
    BY <1>1, <1>3, CreatesWrite, Zenon
  <2>. HIDE DEF n
  <2>3. Pays(tx, n)
    BY <1>2, <2>1, PaysOn, Zenon
  <2>. QED BY <1>1, <2>1, <2>2, <2>3, WriteAndLeave, Zenon
<1>4. CASE Frame.kind # "CREATE"
  <2>1. Grows(stores[1].slots, CurrentStore, CurrentStore)
    BY <1>2, Zenon DEF Grows
  <2>2. WriteTop(CurrentStore)
    BY <1>1, <1>4, Zenon
  <2>. QED BY <1>1, <1>2, <2>1, <2>2, WriteAndLeave, Zenon
<1>. QED BY <1>3, <1>4, Zenon

\* An error or opRevert: the frame ends with RevertToSnapshot.
LEMMA FailKeeps == ASSUME ExecInv, Fail PROVE ExecInv'
<1>1. PICK result \in {"error", "reverted"} : Leave(result)
  BY Zenon DEF Fail
<1>2. Running /\ stores' = SubSeq(stores, 1, Frame.revid + 1)
  BY Zenon DEF Fail, RevertToSnapshot
<1>3. StackFits(stores, frames, readOnly) /\ frames # <<>>
  BY <1>2, Zenon DEF ExecInv, Running
<1>4. /\ StackFits(stores', SubSeq(frames, 1, Len(frames) - 1), readOnly /\ ~Frame.setsReadOnly)
      /\ \A i \in DOMAIN stores' : i \in DOMAIN stores /\ stores'[i] = stores[i]
  BY <1>2, <1>3, RevertFits, ZenonT(40) DEF Frame
<1>5. \A i \in DOMAIN stores : Pays(tx, stores[i])
  BY <1>2, RunningFacts, Zenon
<1>6. \A i \in DOMAIN stores' : Pays(tx, stores'[i])
  BY <1>4, <1>5, Zenon
<1>. QED BY <1>1, <1>2, <1>4, <1>6, LeaveKeeps, Zenon

\* Tokens that nobody paid are accounted for.
Minted(st, amount) == [st EXCEPT !.minted = @ + amount]

\* SELFDESTRUCT on the current store: the beneficiary's tokens are new ones.
LEMMA DestructFits ==
    ASSUME NEW o, NEW st \in Store, StoreFits(o, st), NEW a \in Addr, NEW amount \in Nat
    PROVE  LET n == Minted(AddBalance(Touch(st, a), a, amount), amount)
           IN  Grows(o, st, n) /\ n.nonce = st.nonce /\ n.balance[Sender] >= st.balance[Sender]
<1>. DEFINE u == Touch(st, a)
            m == addTokens(u, a, amount)
            n == Minted(m, amount)
<1>1. Grows(o, st, u) /\ Same(st, u)
  BY TouchFits, Zenon
<1>2. u \in Store /\ StoreFits(o, u) /\ u.balance = st.balance /\ u.nonce = st.nonce
  BY <1>1, Zenon DEF Grows, Same
<1>. HIDE DEF u
<1>3. u.balance \in [Addr -> Nat] /\ u.supply \in Nat /\ u.minted \in Nat /\ Sender \in Addr
  BY <1>2, StoreFields, Zenon DEF Addr
<1>4. u.supply = TotalOf(u.balance) /\ u.supply = Balance + Cardinality(Contracts) + u.minted
  BY <1>2, Zenon DEF StoreFits
<1>5. /\ m \in Store /\ m.supply = TotalOf(m.balance) /\ m.supply = u.supply + amount
      /\ m.balance = [u.balance EXCEPT ![a] = @ + amount]
      /\ m.slots = u.slots /\ m.minted = u.minted /\ m.nonce = u.nonce /\ m.code = u.code
      /\ m.logs = u.logs /\ m.fund = u.fund /\ m.access = u.access /\ m.accessed = u.accessed
  <2>1. amount \in Int /\ u.balance[a] + amount >= 0
    BY <1>3
  <2>. QED BY <1>2, <1>4, <2>1, AddTokensFits, ZenonT(40)
<1>. HIDE DEF m
<1>6. m.minted + amount \in Nat
  BY <1>3, <1>5
<1>7. n \in Store /\ n.minted = m.minted + amount
  <2>. DEFINE k == m.minted + amount
  <2>1. n = [m EXCEPT !.minted = k]
    BY Zenon DEF Minted
  <2>. HIDE DEF k, n
  <2>2. n = [slots |-> m.slots, balance |-> m.balance, supply |-> m.supply, minted |-> k,
             nonce |-> m.nonce, code |-> m.code, native |-> m.native, fund |-> m.fund,
             logs |-> m.logs, access |-> m.access, accessed |-> m.accessed]
    BY <1>5, <2>1, Zenon DEF Store
  <2>3. k \in Nat
    BY <1>6, Zenon DEF k
  <2>. QED BY <1>5, <2>2, <2>3, StoreFields, Zenon DEF Store, k
<1>8. /\ n.slots = m.slots /\ n.balance = m.balance /\ n.supply = m.supply /\ n.nonce = m.nonce
      /\ n.fund = m.fund /\ n.access = m.access /\ n.accessed = m.accessed
  BY <1>5, Zenon DEF Store, Minted
<1>. HIDE DEF n
<1>9. StoreFits(o, n)
  <2>1. Cleared(o, n) = Cleared(o, u)
    BY <1>5, <1>8, ZenonT(40) DEF Cleared
  <2>2. Exact(n)
    BY <1>2, <1>5, <1>8, Zenon DEF StoreFits, Exact
  <2>3. Cardinality(Contracts) \in Nat /\ Balance \in Nat
    BY AccountsAssumption, AmountsAssumption, FS_CardinalityType, Zenon
  <2>4. n.supply = Balance + Cardinality(Contracts) + n.minted
    BY <1>3, <1>4, <1>5, <1>7, <1>8, <2>3
  <2>5. n.supply = TotalOf(n.balance)
    BY <1>5, <1>8, Zenon
  <2>. QED BY <1>2, <1>5, <1>8, <2>1, <2>2, <2>4, <2>5, Zenon DEF StoreFits
<1>10. n.balance[Sender] >= st.balance[Sender]
  BY <1>2, <1>3, <1>5, <1>8
<1>11. Grows(o, st, n) /\ n.nonce = st.nonce
  BY <1>1, <1>2, <1>5, <1>7, <1>8, <1>9, Zenon DEF Grows, Listed
<1>. QED BY <1>10, <1>11, Zenon DEF n, m, u, AddBalance

\* opSelfdestruct pays the beneficiary and ends the frame.
LEMMA SelfDestructKeeps == ASSUME ExecInv, SelfDestruct PROVE ExecInv'
<1>1. PICK a \in Addr :
        WriteTop(IF Frame.kind = "CREATE"
                 THEN SetCode(Minted(AddBalance(Touch(CurrentStore, a), a, CurrentStore.balance[self]),
                                     CurrentStore.balance[self]), self)
                 ELSE Minted(AddBalance(Touch(CurrentStore, a), a, CurrentStore.balance[self]),
                             CurrentStore.balance[self]))
  BY Zenon DEF SelfDestruct, Suicide, Minted
<1>2. Running /\ Leave("ok") /\ ~readOnly
  BY Zenon DEF SelfDestruct, MayWrite
<1>3. /\ self \in Coded /\ self \in Addr /\ CurrentStore \in Store
      /\ StoreFits(stores[1].slots, CurrentStore) /\ Pays(tx, CurrentStore) /\ tx \in TxRecord /\ Sender \in Addr
  BY <1>2, RunningFacts, Zenon
<1>. DEFINE amount == CurrentStore.balance[self]
            m == Minted(AddBalance(Touch(CurrentStore, a), a, amount), amount)
<1>4. amount \in Nat
  BY <1>3, StoreFields, Zenon
<1>. HIDE DEF amount
<1>5. /\ Grows(stores[1].slots, CurrentStore, m) /\ m.nonce = CurrentStore.nonce
      /\ m.balance[Sender] >= CurrentStore.balance[Sender]
  BY <1>3, <1>4, DestructFits, Zenon
<1>6. WriteTop(IF Frame.kind = "CREATE" THEN SetCode(m, self) ELSE m)
  BY <1>1, Zenon DEF amount
<1>. HIDE DEF m
<1>7. m \in Store /\ StoreFits(stores[1].slots, m) /\ m.balance[Sender] \in Nat /\ CurrentStore.balance[Sender] \in Nat
  BY <1>3, <1>5, StoreFields, Zenon DEF Grows
<1>8. Pays(tx, m)
  <2>1. TxGas * GasPrice \in Nat
    BY AmountsAssumption
  <2>. HIDE DEF Store
  <2>. QED BY <1>3, <1>5, <1>7, <2>1, SMTT(30) DEF Pays
<1>9. CASE Frame.kind = "CREATE"
  <2>. DEFINE n == SetCode(m, self)
  <2>1. Grows(stores[1].slots, m, n) /\ n.nonce = m.nonce /\ n.balance = m.balance
    BY <1>3, <1>7, CodeFits, Zenon
  <2>2. WriteTop(n)
    BY <1>6, <1>9, Zenon
  <2>. HIDE DEF n
  <2>3. Grows(stores[1].slots, CurrentStore, n)
    BY <1>5, <2>1, Zenon DEF Grows
  <2>4. Pays(tx, n)
    BY <1>8, <2>1, PaysOn, Zenon
  <2>. QED BY <1>2, <2>2, <2>3, <2>4, WriteAndLeave, Zenon
<1>10. CASE Frame.kind # "CREATE"
  <2>1. WriteTop(m)
    BY <1>6, <1>10, Zenon
  <2>. QED BY <1>2, <1>5, <1>8, <2>1, WriteAndLeave, Zenon
<1>. QED BY <1>9, <1>10, Zenon

\* The state in which a call or a creation takes its snapshot.
Opens(now, below) ==
    /\ tx.phase \in {"start", "run"}
    /\ now \in TxRecord /\ now.phase = "run" /\ now.nonce = tx.nonce
    /\ Grows(stores[1].slots, CurrentStore, below) /\ Pays(now, below)
    /\ readOnly => Visible(below) = Visible(CurrentStore)
    /\ below.slots = CurrentStore.slots /\ below.fund = CurrentStore.fund /\ below.logs = CurrentStore.logs

\* It fits.
LEMMA OpensFits ==
    ASSUME ExecInv, NEW now, NEW below, Opens(now, below)
    PROVE  LET k == SetTop(stores, below)
           IN  /\ StackFits(k, frames, readOnly) /\ k[1].slots = stores[1].slots
               /\ k \in Seq(Store) /\ Len(k) = Len(stores) /\ Len(k) \in Nat \ {0} /\ Top(k) = below
               /\ below \in Store /\ StoreFits(stores[1].slots, below)
               /\ \A i \in 1 .. Len(k) : Pays(now, k[i])
               /\ txs \in Nat /\ tx \in TxRecord
<1>. DEFINE k == SetTop(stores, below)
<1>1. StackFits(stores, frames, readOnly) /\ Top(stores) = CurrentStore
  BY Zenon DEF ExecInv, Top, CurrentStore
<1>2. stores \in Seq(Store) /\ Len(stores) \in Nat \ {0}
  BY <1>1, SMTT(30) DEF StackFits
<1>3. \/ Len(stores) > 1
      \/ below.slots = stores[1].slots /\ below.fund = stores[1].fund /\ below.logs = stores[1].logs
  BY <1>2 DEF Opens, CurrentStore
<1>4. Grows(stores[1].slots, Top(stores), below) /\ (readOnly => Visible(below) = Visible(Top(stores)))
  BY <1>1, Zenon DEF Opens
<1>5. /\ StackFits(k, frames, readOnly) /\ k[1].slots = stores[1].slots
      /\ Len(k) = Len(stores) /\ Top(k) = below
      /\ \A i \in DOMAIN stores : i # Len(stores) => k[i] = stores[i]
  BY <1>1, <1>3, <1>4, SetTopFits, Zenon
<1>6. \A i \in 1 .. Len(stores) : Pays(now, stores[i])
  <2>1. \A i \in DOMAIN stores : Pays(tx, stores[i])
    BY Zenon DEF ExecInv, TxFits, Opens
  <2>. QED BY <1>2, <2>1, SMTT(30) DEF Pays, Opens
<1>7. \A i \in 1 .. Len(k) : Pays(now, k[i])
  BY <1>2, <1>5, <1>6, SMTT(30) DEF Opens, Top
<1>8. txs \in Nat /\ tx \in TxRecord
  BY Zenon DEF ExecInv, TxFits
<1>9. k \in Seq(Store) /\ below \in Store /\ StoreFits(stores[1].slots, below)
  BY <1>5, Zenon DEF StackFits, Opens, Grows
<1>. QED BY <1>2, <1>5, <1>7, <1>8, <1>9, Zenon

\* A call that is over at once, given the stack it leaves.
LEMMA FinishedKeeps ==
    ASSUME ExecInv, NEW now, NEW below, Opens(now, below), NEW result \in {"ok", "refused", "error"},
           Finished(now, result), UNCHANGED <<frames, readOnly, txs>>,
           StackFits(stores', frames, readOnly), \A i \in DOMAIN stores' : Pays(now, stores'[i])
    PROVE  ExecInv'
<1>1. now \in TxRecord /\ now.phase = "run" /\ txs \in Nat
  BY OpensFits, Zenon DEF Opens
<1>2. StackFits(stores, frames, readOnly)'
  BY Zenon
<1>3. CASE frames = <<>>
  <2>1. tx' = [now EXCEPT !.phase = "settle", !.result = result]
    BY <1>3, Zenon DEF Finished
  <2>2. tx' \in TxRecord /\ tx'.phase = "settle" /\ tx'.nonce = now.nonce
    BY <1>1, <2>1, Zenon DEF TxRecord
  <2>3. \A i \in DOMAIN stores' : Pays(tx', stores'[i])
    BY <2>2, Zenon DEF Pays
  <2>4. TxFits'
    BY <1>1, <1>3, <2>2, <2>3, Zenon DEF TxFits
  <2>. QED BY <1>2, <2>4, Zenon DEF ExecInv
<1>4. CASE frames # <<>>
  <2>1. tx' = now
    BY <1>4, Zenon DEF Finished
  <2>2. TxFits'
    BY <1>1, <1>4, <2>1, Zenon DEF TxFits
  <2>. QED BY <1>2, <2>2, Zenon DEF ExecInv
<1>. QED BY <1>3, <1>4, Zenon

\* It was refused, or rolled back.
LEMMA RefusedKeeps ==
    ASSUME ExecInv, NEW now, NEW below, Opens(now, below), NEW result \in {"ok", "refused", "error"},
           stores' = SetTop(stores, below), Finished(now, result), UNCHANGED <<frames, readOnly, txs>>
    PROVE  ExecInv'
<1>1. /\ StackFits(stores', frames, readOnly) /\ stores' \in Seq(Store)
      /\ \A i \in 1 .. Len(stores') : Pays(now, stores'[i])
  BY OpensFits, Zenon
<1>2. \A i \in DOMAIN stores' : Pays(now, stores'[i])
  BY <1>1
<1>. QED BY <1>1, <1>2, FinishedKeeps, Zenon

\* It ran no code of a contract.
LEMMA PushedKeeps ==
    ASSUME ExecInv, NEW now, NEW below, Opens(now, below),
           NEW n, Grows(stores[1].slots, below, n), Pays(now, n), readOnly => Visible(n) = Visible(below),
           stores' = Append(SetTop(stores, below), n), Finished(now, "ok"), UNCHANGED <<frames, readOnly, txs>>
    PROVE  ExecInv'
<1>. DEFINE k == SetTop(stores, below)
<1>1. /\ StackFits(k, frames, readOnly) /\ k[1].slots = stores[1].slots
      /\ k \in Seq(Store) /\ Len(k) \in Nat \ {0} /\ Top(k) = below
      /\ \A i \in 1 .. Len(k) : Pays(now, k[i])
  BY OpensFits, Zenon
<1>2. stores' = Append(k, n)
  BY Zenon
<1>. HIDE DEF k
<1>3. StackFits(stores', frames, readOnly)
  BY <1>1, <1>2, PushFits, Zenon
<1>4. \A i \in DOMAIN stores' : Pays(now, stores'[i])
  BY <1>1, <1>2 DEF Grows
<1>. QED BY <1>3, <1>4, FinishedKeeps, Zenon

\* It runs code of a contract.
LEMMA EnteredKeeps ==
    ASSUME ExecInv, NEW now, NEW below, Opens(now, below),
           NEW n, Grows(stores[1].slots, below, n), Pays(now, n),
           stores' = Append(SetTop(stores, below), n),
           NEW f \in FrameRecord, frames' = Append(frames, f), readOnly' = (readOnly \/ f.static),
           tx' = now, txs' = txs,
           Len(frames) <= CallCreateDepth, f.revid = Len(stores) - 1, f.saved = below, Listed(below, f.self),
           f.static <=> f.kind = "STATICCALL", f.setsReadOnly <=> f.static /\ ~readOnly,
           readOnly \/ f.static => Visible(n) = Visible(below),
           readOnly => f.kind # "CREATE"
    PROVE  ExecInv'
<1>. DEFINE k == SetTop(stores, below)
<1>1. /\ StackFits(k, frames, readOnly) /\ k[1].slots = stores[1].slots
      /\ k \in Seq(Store) /\ Len(k) = Len(stores) /\ Len(k) \in Nat \ {0} /\ Top(k) = below
      /\ \A i \in 1 .. Len(k) : Pays(now, k[i])
      /\ txs \in Nat /\ tx \in TxRecord
  BY OpensFits, Zenon
<1>2. stores' = Append(k, n)
  BY Zenon
<1>. HIDE DEF k
<1>3. StackFits(Append(k, n), Append(frames, f), readOnly \/ f.static)
  BY <1>1, EnterFits
<1>4. StackFits(stores, frames, readOnly)'
  BY <1>2, <1>3, Zenon
<1>5. \A i \in DOMAIN stores' : Pays(tx', stores'[i])
  BY <1>1, <1>2, SMTT(30) DEF Grows
<1>6. frames' # <<>>
  <2>1. frames \in Seq(FrameRecord)
    BY <1>1, Zenon DEF StackFits
  <2>. QED BY <2>1, SMTT(30)
<1>7. TxFits'
  BY <1>1, <1>5, <1>6, Zenon DEF TxFits, Opens
<1>. QED BY <1>4, <1>7, Zenon DEF ExecInv

\* The clone on top of the snapshot is the store that is written next.
LEMMA SetTopOfPush ==
    ASSUME NEW k \in Seq(Store), NEW b \in Store, NEW n \in Store
    PROVE  SetTop(Append(k, b), n) = Append(k, n)
<1>. DEFINE a == Append(k, b)
            q == Append(k, n)
<1>1. /\ a \in Seq(Store) /\ Len(a) = Len(k) + 1 /\ Len(k) \in Nat
      /\ q \in Seq(Store) /\ Len(q) = Len(k) + 1 /\ q[Len(k) + 1] = n
      /\ \A i \in 1 .. Len(k) : a[i] = q[i]
  OBVIOUS
<1>. HIDE DEF a, q
<1>. DEFINE p == [a EXCEPT ![Len(a)] = n]
<1>2. p \in Seq(Store) /\ Len(p) = Len(k) + 1
  BY <1>1
<1>3. \A i \in 1 .. Len(k) + 1 : p[i] = q[i]
  BY <1>1
<1>. HIDE DEF p
<1>4. p = q
  BY <1>1, <1>2, <1>3, SMTT(30)
<1>. QED BY <1>4, Zenon DEF p, q, a, SetTop

\* Call, CallCode, DelegateCall and StaticCall of evm.go.
LEMMA DoCallKeeps ==
    ASSUME ExecInv, NEW now, NEW kind \in Kinds, NEW below, NEW from \in Addr, NEW to \in Addr, NEW value \in Nat,
           Opens(now, below), Listed(below, to),
           kind \in {"CALLCODE", "DELEGATECALL"} => from \in Coded /\ Listed(below, from),
           readOnly /\ kind = "CALL" => value = 0,
           kind = "CALL" /\ below.balance[from] >= value => Pays(now, Transfer(below, from, to, value)),
           DoCall(now, kind, below, from, to, value), txs' = txs
    PROVE  ExecInv'
<1>. DEFINE moved  == IF kind = "CALL" THEN Transfer(below, from, to, value) ELSE below
            target == IF kind \in {"CALL", "STATICCALL"} THEN to ELSE from
            f == [self |-> target, kind |-> kind, static |-> kind = "STATICCALL",
                  setsReadOnly |-> kind = "STATICCALL" /\ ~readOnly,
                  revid |-> revision, saved |-> below]
            o == stores[1].slots
<1>1. /\ SetTop(stores, below) \in Seq(Store) /\ Len(stores) \in Nat \ {0}
      /\ below \in Store /\ StoreFits(o, below) /\ Pays(now, below)
  <2>1. /\ SetTop(stores, below) \in Seq(Store)
        /\ Len(SetTop(stores, below)) = Len(stores) /\ Len(SetTop(stores, below)) \in Nat \ {0}
        /\ below \in Store /\ StoreFits(o, below)
    BY OpensFits, Zenon
  <2>. QED BY <2>1, Zenon DEF Opens
<1>2. Grows(o, below, below)
  BY <1>1, Zenon DEF Grows
<1>3. CASE \/ TooDeep
           \/ kind \in {"CALL", "CALLCODE"} /\ value # 0 /\ ~CanTransfer(below, from, value)
  <2>1. stores' = SetTop(stores, below) /\ Finished(now, "refused") /\ UNCHANGED <<frames, readOnly>>
    BY <1>3, Zenon DEF DoCall
  <2>. QED BY <2>1, RefusedKeeps, Zenon
<1>4. CASE /\ ~TooDeep
           /\ ~(kind \in {"CALL", "CALLCODE"} /\ value # 0 /\ ~CanTransfer(below, from, value))
  <2>1. Grows(o, below, moved) /\ Pays(now, moved) /\ (readOnly \/ kind = "STATICCALL" => Visible(moved) = Visible(below))
    <3>1. CASE kind = "CALL"
      <4>. DEFINE t == Transfer(below, from, to, value)
      <4>1. below.balance[from] >= value
        <5>1. below.balance[from] \in Nat
          BY <1>1, StoreFields, Zenon
        <5>. QED BY <1>4, <3>1, <5>1, SMTT(30) DEF CanTransfer
      <4>2. Grows(o, below, t) /\ (value = 0 => Same(below, t))
        BY <1>1, <4>1, TransferFits, Zenon
      <4>3. Pays(now, t)
        BY <3>1, <4>1, Zenon
      <4>. HIDE DEF t
      <4>4. readOnly => Visible(t) = Visible(below)
        BY <3>1, <4>2, SameIsVisible, Zenon
      <4>. QED BY <3>1, <4>2, <4>3, <4>4, Zenon DEF t
    <3>2. CASE kind # "CALL"
      BY <1>1, <1>2, <3>2, Zenon
    <3>. QED BY <3>1, <3>2, Zenon
  <2>2. \/ /\ stores' = Snapshot(below)
           /\ Finished(now, "ok") /\ UNCHANGED <<frames, readOnly>>
        \/ /\ \E store \in {moved, [moved EXCEPT !.native = @ + 1]} :
                 stores' = SetTop(Snapshot(below), store) /\ Finished(now, "ok")
           /\ UNCHANGED <<frames, readOnly>>
        \/ stores' = SetTop(stores, below) /\ Finished(now, "error") /\ UNCHANGED <<frames, readOnly>>
        \/ /\ stores' = SetTop(Snapshot(below), moved)
           /\ Finished(now, "ok") /\ UNCHANGED <<frames, readOnly>>
        \/ /\ to \notin Natives /\ to \in below.code
           /\ stores' = SetTop(Snapshot(below), moved)
           /\ frames' = Append(frames, f)
           /\ readOnly' = (readOnly \/ kind = "STATICCALL")
           /\ tx' = now
    BY <1>4, ZenonT(40) DEF DoCall
  <2>3. /\ Snapshot(below) = Append(SetTop(stores, below), below)
        /\ \A n \in Store : SetTop(Snapshot(below), n) = Append(SetTop(stores, below), n)
    BY <1>1, SetTopOfPush, Zenon DEF Snapshot
  <2>4. moved \in Store /\ StoreFits(o, moved)
    BY <2>1, Zenon DEF Grows
  <2>. HIDE DEF moved
  <2>5. CASE /\ stores' = Snapshot(below)
             /\ Finished(now, "ok") /\ UNCHANGED <<frames, readOnly>>
    BY <1>1, <1>2, <2>3, <2>5, PushedKeeps, Zenon
  <2>6. CASE /\ \E store \in {moved, [moved EXCEPT !.native = @ + 1]} :
                   stores' = SetTop(Snapshot(below), store) /\ Finished(now, "ok")
             /\ UNCHANGED <<frames, readOnly>>
    <3>1. PICK store \in {moved, [moved EXCEPT !.native = @ + 1]} :
                   stores' = SetTop(Snapshot(below), store) /\ Finished(now, "ok")
      BY <2>6, Zenon
    <3>. DEFINE n == [moved EXCEPT !.native = @ + 1]
    <3>2. Grows(o, moved, n) /\ Same(moved, n)
      BY <2>4, NativeFits, Zenon
    <3>. HIDE DEF n
    <3>3. Grows(o, below, n) /\ Pays(now, n) /\ Visible(n) = Visible(moved)
      <4>1. Grows(o, below, n)
        BY <2>1, <3>2, Zenon DEF Grows
      <4>2. Pays(now, n)
        BY <2>1, <3>2, PaysOn, Zenon DEF Same
      <4>. QED BY <3>2, <4>1, <4>2, SameIsVisible, Zenon
    <3>4. store = moved \/ store = n
      BY <3>1, Zenon DEF n
    <3>5. Grows(o, below, store) /\ Pays(now, store) /\ (readOnly => Visible(store) = Visible(below))
      BY <2>1, <3>3, <3>4, Zenon
    <3>6. store \in Store
      BY <3>5, Zenon DEF Grows
    <3>. QED BY <2>3, <2>6, <3>1, <3>5, <3>6, PushedKeeps, Zenon
  <2>7. CASE stores' = SetTop(stores, below) /\ Finished(now, "error") /\ UNCHANGED <<frames, readOnly>>
    BY <2>7, RefusedKeeps, Zenon
  <2>8. CASE /\ stores' = SetTop(Snapshot(below), moved)
             /\ Finished(now, "ok") /\ UNCHANGED <<frames, readOnly>>
    BY <2>1, <2>3, <2>4, <2>8, PushedKeeps, Zenon
  <2>9. CASE /\ to \notin Natives /\ to \in below.code
             /\ stores' = SetTop(Snapshot(below), moved)
             /\ frames' = Append(frames, f)
             /\ readOnly' = (readOnly \/ kind = "STATICCALL")
             /\ tx' = now
    <3>1. to \in Coded
      BY <1>1, <2>9, StoreFields, Zenon
    <3>2. target \in Coded /\ Listed(below, target)
      BY <3>1, Zenon DEF Kinds
    <3>3. readOnly \in BOOLEAN /\ revision \in Nat /\ revision = Len(stores) - 1
      BY <1>1, SMTT(30) DEF ExecInv, StackFits, revision
    <3>. HIDE DEF target
    <3>4. f \in FrameRecord
      BY <1>1, <3>2, <3>3, Zenon DEF FrameRecord
    <3>5. /\ f.self = target /\ f.kind = kind /\ f.static = (kind = "STATICCALL")
          /\ f.setsReadOnly = (kind = "STATICCALL" /\ ~readOnly) /\ f.revid = Len(stores) - 1 /\ f.saved = below
      BY <3>3, Zenon
    <3>. HIDE DEF f
    <3>6. Len(frames) <= CallCreateDepth
      BY <1>4, AmountsAssumption, SMTT(30) DEF TooDeep, ExecInv, StackFits
    <3>7. stores' = Append(SetTop(stores, below), moved)
      BY <2>3, <2>4, <2>9, Zenon
    <3>8. kind # "CREATE"
      BY Zenon DEF Kinds
    <3>. QED BY <2>1, <2>9, <3>2, <3>4, <3>5, <3>6, <3>7, <3>8, EnteredKeeps, ZenonT(40)
  <2>. QED BY <2>2, <2>5, <2>6, <2>7, <2>8, <2>9, Zenon
<1>. QED BY <1>3, <1>4, Zenon

\* A call opened by an instruction.
LEMMA CallKeeps == ASSUME ExecInv, Call PROVE ExecInv'
<1>1. PICK kind \in Kinds, to \in Addr, value \in Amount :
        /\ kind \in {"DELEGATECALL", "STATICCALL"} => value = 0
        /\ kind = "CALL" /\ value # 0 => MayWrite
        /\ DoCall(tx, kind, Touch(CurrentStore, to), self, to, value)
  BY Zenon DEF Call
<1>. DEFINE below == Touch(CurrentStore, to)
            o == stores[1].slots
<1>2. Running /\ txs' = txs
  BY Zenon DEF Call, Step
<1>3. /\ self \in Coded /\ self \in Addr /\ self # Sender /\ Sender \in Addr
      /\ CurrentStore \in Store /\ StoreFits(o, CurrentStore) /\ Listed(CurrentStore, self)
      /\ tx \in TxRecord /\ tx.phase = "run" /\ stores \in Seq(Store) /\ Len(stores) \in Nat /\ Len(stores) > 1
      /\ \A i \in DOMAIN stores : Pays(tx, stores[i])
  BY <1>2, RunningFacts, Zenon
<1>4. Pays(tx, CurrentStore)
  BY <1>3 DEF CurrentStore
<1>5. Grows(o, CurrentStore, below) /\ Same(CurrentStore, below) /\ Listed(below, to)
  BY <1>3, TouchFits, Zenon
<1>. HIDE DEF below
<1>6. below \in Store /\ StoreFits(o, below) /\ Listed(below, self)
  BY <1>3, <1>5, Zenon DEF Grows
<1>7. Pays(tx, below) /\ Visible(below) = Visible(CurrentStore)
  BY <1>4, <1>5, PaysOn, SameIsVisible, Zenon DEF Same
<1>8. Opens(tx, below)
  BY <1>3, <1>5, <1>7, Zenon DEF Opens, Same
<1>9. ASSUME below.balance[self] >= value PROVE Pays(tx, Transfer(below, self, to, value))
  <2>. DEFINE n == Transfer(below, self, to, value)
  <2>1. value \in Nat
    BY AmountsAssumption, Zenon
  <2>2. Grows(o, below, n) /\ n.nonce = below.nonce
        /\ n.balance[Sender] >= below.balance[Sender] - (IF self = Sender THEN value ELSE 0)
    BY <1>3, <1>6, <1>9, <2>1, TransferFits, SMTT(30)
  <2>. HIDE DEF n
  <2>3. n \in Store
    BY <2>2, Zenon DEF Grows
  <2>4. n.balance[Sender] \in Nat /\ below.balance[Sender] \in Nat
    BY <1>3, <1>6, <2>3, StoreFields, Zenon
  <2>5. n.balance[Sender] >= below.balance[Sender]
    BY <1>3, <2>2, <2>4
  <2>6. TxGas * GasPrice \in Nat
    BY AmountsAssumption, SMTT(30)
  <2>7. Pays(tx, n)
    BY <1>7, <2>2, <2>4, <2>5, <2>6, SMTT(30) DEF Pays
  <2>. QED BY <2>7, Zenon DEF n
<1>10. value \in Nat /\ (readOnly /\ kind = "CALL" => value = 0)
  BY <1>1, AmountsAssumption, Zenon DEF MayWrite
<1>11. DoCall(tx, kind, below, self, to, value)
  BY <1>1, Zenon DEF below
<1>. QED BY <1>2, <1>3, <1>5, <1>6, <1>8, <1>9, <1>10, <1>11, DoCallKeeps, Zenon

\* evm.create.
LEMMA DoCreateKeeps ==
    ASSUME ExecInv, NEW now, NEW from \in Addr, NEW a \in New, NEW value \in Nat,
           Opens(now, CurrentStore), ~readOnly,
           CurrentStore.balance[from] >= value =>
             CurrentStore.balance[Sender] - (IF from = Sender THEN value ELSE 0) >= TxGas * GasPrice,
           DoCreate(now, from, a, value), txs' = txs
    PROVE  ExecInv'
<1>. DEFINE o == stores[1].slots
            cur == CurrentStore
            counted == SetNonce(cur, from, cur.nonce[from] + 1)
            below == Touch(counted, a)
            fresh == SetNonce(below, a, 1)
            moved == Transfer(fresh, from, a, value)
            f == [self |-> a, kind |-> "CREATE", static |-> FALSE, setsReadOnly |-> FALSE,
                  revid |-> revision, saved |-> below]
<1>1. /\ stores \in Seq(Store) /\ Len(stores) \in Nat \ {0} /\ cur \in Store /\ StoreFits(o, cur)
      /\ SetTop(stores, cur) \in Seq(Store)
  <2>1. Len(SetTop(stores, cur)) = Len(stores) /\ Len(SetTop(stores, cur)) \in Nat \ {0}
        /\ cur \in Store /\ StoreFits(o, cur) /\ SetTop(stores, cur) \in Seq(Store)
    BY OpensFits, Zenon
  <2>2. stores \in Seq(Store)
    BY Zenon DEF ExecInv, StackFits
  <2>. QED BY <2>1, <2>2, Zenon
<1>2. a \in Addr /\ a \in Coded /\ a # Sender /\ Sender \in Addr
  BY AccountsAssumption, Zenon DEF Addr, Coded
<1>3. cur.nonce \in [Addr -> Nat] /\ cur.balance \in [Addr -> Nat]
  BY <1>1, StoreFields, Zenon
<1>4. Pays(now, cur) /\ now \in TxRecord /\ now.nonce \in Nat
  BY Zenon DEF Opens, TxRecord
<1>5. CASE TooDeep \/ ~CanTransfer(cur, from, value)
  <2>1. Finished(now, "refused") /\ UNCHANGED <<stores, frames, readOnly>>
    BY <1>5, Zenon DEF DoCreate
  <2>2. stores' = SetTop(stores, cur)
    <3>. DEFINE p == SetTop(stores, cur)
    <3>1. p \in Seq(Store) /\ Len(p) = Len(stores) /\ \A i \in 1 .. Len(stores) : p[i] = stores[i]
      BY <1>1, SMTT(30) DEF SetTop, CurrentStore
    <3>. HIDE DEF p
    <3>2. p = stores
      BY <1>1, <3>1, SMTT(30)
    <3>. QED BY <2>1, <3>2, Zenon DEF p
  <2>. QED BY <2>1, <2>2, RefusedKeeps, ZenonT(40)
<1>6. CASE ~(TooDeep \/ ~CanTransfer(cur, from, value))
  <2>1. /\ Grows(o, cur, counted) /\ counted.nonce = [cur.nonce EXCEPT ![from] = cur.nonce[from] + 1]
        /\ counted.slots = cur.slots /\ counted.balance = cur.balance /\ counted.fund = cur.fund
        /\ counted.logs = cur.logs
    BY <1>1, <1>3, NonceFits, SMTT(30)
  <2>. HIDE DEF counted
  <2>2. counted \in Store /\ StoreFits(o, counted)
    BY <2>1, Zenon DEF Grows
  <2>3. Grows(o, counted, below) /\ Same(counted, below) /\ Listed(below, a)
    BY <1>2, <2>2, TouchFits, Zenon
  <2>. HIDE DEF below
  <2>4. below \in Store /\ StoreFits(o, below) /\ Grows(o, cur, below)
    BY <2>1, <2>3, Zenon DEF Grows
  <2>5. /\ below.nonce = [cur.nonce EXCEPT ![from] = cur.nonce[from] + 1] /\ below.balance = cur.balance
        /\ below.slots = cur.slots /\ below.fund = cur.fund /\ below.logs = cur.logs
    BY <2>1, <2>3, Zenon DEF Same
  <2>6. Pays(now, below)
    <3>1. below.nonce[Sender] \in Nat /\ below.nonce[Sender] >= cur.nonce[Sender]
      BY <1>2, <1>3, <2>5, SMTT(30)
    <3>. QED BY <1>2, <1>3, <1>4, <2>5, <3>1, SMTT(30) DEF Pays
  <2>7. Opens(now, below)
    BY <2>4, <2>5, <2>6, Zenon DEF Opens
  <2>8. CASE below.nonce[a] # 0 \/ a \in below.code
    <3>1. stores' = SetTop(stores, below) /\ Finished(now, "error") /\ UNCHANGED <<frames, readOnly>>
      BY <1>6, <2>8, ZenonT(40) DEF DoCreate, WriteTop, below, counted
    <3>. QED BY <2>7, <3>1, RefusedKeeps, ZenonT(40)
  <2>9. CASE ~(below.nonce[a] # 0 \/ a \in below.code)
    <3>1. /\ stores' = SetTop(Snapshot(below), moved) /\ frames' = Append(frames, f) /\ tx' = now
          /\ UNCHANGED readOnly
      BY <1>6, <2>9, Zenon DEF DoCreate, below, counted
    <3>2. Grows(o, below, fresh) /\ fresh.nonce = [below.nonce EXCEPT ![a] = 1] /\ fresh.balance = below.balance
      BY <1>2, <2>4, NonceFits, SMTT(30)
    <3>. HIDE DEF fresh
    <3>3. fresh \in Store /\ StoreFits(o, fresh)
      BY <3>2, Zenon DEF Grows
    <3>4. fresh.balance[from] >= value
      BY <1>6, <2>5, <3>2, Zenon DEF CanTransfer
    <3>5. /\ Grows(o, fresh, moved) /\ moved.nonce = fresh.nonce
          /\ moved.balance[Sender] >= fresh.balance[Sender] - (IF from = Sender THEN value ELSE 0)
      BY <1>2, <3>3, <3>4, TransferFits, SMTT(30)
    <3>. HIDE DEF moved
    <3>6. Grows(o, below, moved) /\ moved \in Store
      BY <3>2, <3>5, ZenonT(40) DEF Grows
    <3>7. Pays(now, moved)
      <4>1. moved.balance[Sender] \in Nat
        BY <1>2, <3>6, StoreFields, Zenon
      <4>2. moved.balance[Sender] >= TxGas * GasPrice
        <5>1. cur.balance[Sender] \in Nat /\ TxGas * GasPrice \in Nat
          BY <1>2, <1>3, AmountsAssumption, SMTT(30)
        <5>2. cur.balance[Sender] - (IF from = Sender THEN value ELSE 0) >= TxGas * GasPrice
          BY <1>6, Zenon DEF CanTransfer
        <5>3. moved.balance[Sender] >= cur.balance[Sender] - (IF from = Sender THEN value ELSE 0)
          BY <2>5, <3>2, <3>5, Zenon
        <5>. QED BY <4>1, <5>1, <5>2, <5>3, SMTT(30)
      <4>3. moved.nonce[Sender] = below.nonce[Sender]
        BY <1>2, <1>3, <2>5, <3>2, <3>5, Zenon
      <4>. QED BY <2>6, <4>2, <4>3, Zenon DEF Pays
    <3>8. SetTop(stores, below) \in Seq(Store)
      BY <2>7, OpensFits, Zenon
    <3>9. stores' = Append(SetTop(stores, below), moved)
      BY <2>4, <3>1, <3>6, <3>8, SetTopOfPush, Zenon DEF Snapshot
    <3>10. readOnly = FALSE /\ revision = Len(stores) - 1 /\ revision \in Nat
      BY <1>1, SMTT(30) DEF ExecInv, StackFits, revision
    <3>11. f \in FrameRecord
      BY <1>2, <2>4, <3>10, Zenon DEF FrameRecord
    <3>12. /\ f.self = a /\ f.kind = "CREATE" /\ f.static = FALSE /\ f.setsReadOnly = FALSE
           /\ f.revid = Len(stores) - 1 /\ f.saved = below
      BY <3>10, Zenon
    <3>. HIDE DEF f
    <3>13. Len(frames) <= CallCreateDepth
      BY <1>6, AmountsAssumption, SMTT(30) DEF TooDeep, ExecInv, StackFits
    <3>. QED BY <2>3, <2>7, <3>1, <3>6, <3>7, <3>9, <3>10, <3>11, <3>12, <3>13, EnteredKeeps, ZenonT(40)
  <2>. QED BY <2>8, <2>9, Zenon
<1>. QED BY <1>5, <1>6, Zenon

\* A creation opened by an instruction.
LEMMA CreateKeeps == ASSUME ExecInv, Create PROVE ExecInv'
<1>1. PICK a \in New, value \in Amount : DoCreate(tx, self, a, value)
  BY Zenon DEF Create
<1>2. Running /\ txs' = txs /\ ~readOnly
  BY Zenon DEF Create, Step, MayWrite
<1>3. /\ self \in Addr /\ self # Sender /\ Sender \in Addr
      /\ CurrentStore \in Store /\ StoreFits(stores[1].slots, CurrentStore)
      /\ tx \in TxRecord /\ tx.phase = "run" /\ stores \in Seq(Store) /\ Len(stores) \in Nat /\ Len(stores) > 1
      /\ \A i \in DOMAIN stores : Pays(tx, stores[i])
  BY <1>2, RunningFacts, Zenon
<1>4. Pays(tx, CurrentStore)
  BY <1>3 DEF CurrentStore
<1>5. Grows(stores[1].slots, CurrentStore, CurrentStore)
  BY <1>3, Zenon DEF Grows
<1>6. Opens(tx, CurrentStore)
  BY <1>3, <1>4, <1>5, Zenon DEF Opens
<1>7. value \in Nat /\ CurrentStore.balance[Sender] - (IF self = Sender THEN value ELSE 0) >= TxGas * GasPrice
  <2>1. CurrentStore.balance[Sender] \in Nat
    BY <1>3, StoreFields, Zenon
  <2>. QED BY <1>3, <1>4, <2>1, AmountsAssumption, SMTT(30) DEF Pays
<1>. QED BY <1>1, <1>2, <1>3, <1>6, <1>7, DoCreateKeeps, Zenon

\* Between transactions, and before the first call of one, there is one store and
\* no frame.
LEMMA OutsideFacts ==
    ASSUME ExecInv, tx.phase \in {"none", "start"}
    PROVE  /\ stores \in Seq(Store) /\ Len(stores) = 1 /\ CurrentStore = stores[1] /\ Top(stores) = stores[1]
           /\ CurrentStore \in Store /\ StoreFits(stores[1].slots, CurrentStore)
           /\ frames = <<>> /\ readOnly = FALSE /\ tx \in TxRecord /\ txs \in Nat /\ Sender \in Addr
           /\ CurrentStore.fund = 0 /\ CurrentStore.logs = 0
<1>1. /\ stores \in Seq(Store) /\ Len(stores) = 1 /\ frames = <<>> /\ tx \in TxRecord /\ txs \in Nat
      /\ readOnly \in BOOLEAN /\ StaticFits(frames, readOnly)
      /\ \A i \in DOMAIN stores : StoreFits(stores[1].slots, stores[i])
      /\ stores[1].fund = 0 /\ stores[1].logs = 0
  BY Zenon DEF ExecInv, StackFits, TxFits
<1>2. readOnly = FALSE
  BY <1>1 DEF StaticFits
<1>3. 1 \in DOMAIN stores /\ stores[1] \in Store
  <2>1. stores \in Seq(Store) /\ Len(stores) = 1
    BY <1>1, Zenon
  <2>. QED BY <2>1, SMTT(30)
<1>4. CurrentStore = stores[1] /\ Top(stores) = stores[1] /\ Sender \in Addr
  BY <1>1, Zenon DEF CurrentStore, Top, Addr
<1>. QED BY <1>1, <1>2, <1>3, <1>4, Zenon

\* vm.Call and vm.Create of the transaction.
LEMMA ExecuteKeeps == ASSUME ExecInv, Execute PROVE ExecInv'
<1>. DEFINE started == [tx EXCEPT !.phase = "run"]
            cur == CurrentStore
            o == stores[1].slots
<1>1. tx.phase = "start" /\ txs' = txs
  BY Zenon DEF Execute
<1>2. /\ stores \in Seq(Store) /\ Len(stores) = 1 /\ cur = stores[1] /\ cur \in Store /\ StoreFits(o, cur)
      /\ frames = <<>> /\ readOnly = FALSE /\ tx \in TxRecord /\ Sender \in Addr
  BY <1>1, OutsideFacts, Zenon
<1>3. /\ tx.dest = {} \/ \E a \in Addr : tx.dest = {a}
      /\ \A a \in tx.dest : Listed(cur, a)
      /\ cur.balance[Sender] >= tx.value + TxGas * GasPrice
      /\ Pays(tx, cur)
  BY <1>1, <1>2, SMTT(30) DEF ExecInv, TxFits
<1>4. /\ started \in TxRecord /\ started.phase = "run" /\ started.nonce = tx.nonce
      /\ tx.value \in Nat
  BY <1>2, Zenon DEF TxRecord
<1>5. IF tx.dest = {} THEN \E a \in New : DoCreate(started, Sender, a, tx.value)
                      ELSE \A to \in tx.dest : DoCall(started, "CALL", cur, Sender, to, tx.value)
  BY Zenon DEF Execute
<1>. HIDE DEF started
<1>6. cur.balance[Sender] \in Nat /\ TxGas * GasPrice \in Nat
  BY <1>2, StoreFields, AmountsAssumption, SMTT(30)
<1>7. Pays(started, cur)
  BY <1>3, <1>4, Zenon DEF Pays
<1>8. Grows(o, cur, cur)
  BY <1>2, Zenon DEF Grows
<1>9. Opens(started, cur)
  BY <1>1, <1>2, <1>4, <1>7, <1>8, Zenon DEF Opens
<1>10. CASE tx.dest = {}
  <2>1. PICK a \in New : DoCreate(started, Sender, a, tx.value)
    BY <1>5, <1>10, Zenon
  <2>2. cur.balance[Sender] - (IF Sender = Sender THEN tx.value ELSE 0) >= TxGas * GasPrice
    BY <1>3, <1>4, <1>6, SMTT(30)
  <2>. QED BY <1>1, <1>2, <1>4, <1>9, <2>1, <2>2, DoCreateKeeps, Zenon
<1>11. CASE tx.dest # {}
  <2>1. PICK to \in Addr : tx.dest = {to}
    BY <1>3, <1>11, Zenon
  <2>2. DoCall(started, "CALL", cur, Sender, to, tx.value) /\ Listed(cur, to)
    BY <1>3, <1>5, <2>1, Zenon
  <2>. DEFINE n == Transfer(cur, Sender, to, tx.value)
  <2>3. cur.balance[Sender] >= tx.value
    BY <1>3, <1>4, <1>6, SMTT(30)
  <2>4. Grows(o, cur, n) /\ n.nonce = cur.nonce
        /\ n.balance[Sender] >= cur.balance[Sender] - (IF Sender = Sender THEN tx.value ELSE 0)
    BY <1>2, <1>4, <2>3, TransferFits, SMTT(30)
  <2>. HIDE DEF n
  <2>5. n.balance[Sender] \in Nat
    BY <1>2, <2>4, StoreFields, Zenon DEF Grows
  <2>6. n.balance[Sender] >= TxGas * GasPrice
    BY <1>3, <1>4, <1>6, <2>4, <2>5, SMTT(30)
  <2>7. Pays(started, n)
    BY <1>7, <2>4, <2>6, Zenon DEF Pays
  <2>8. "CALL" \in Kinds
    BY Zenon DEF Kinds
  <2>9. Pays(started, Transfer(cur, Sender, to, tx.value))
    BY <2>7, Zenon DEF n
  <2>. QED BY <1>1, <1>2, <1>4, <1>9, <2>2, <2>8, <2>9, DoCallKeeps, Zenon
<1>. QED BY <1>10, <1>11, Zenon

\* Against its own storage a store has cleared nothing.
LEMMA NothingCleared ==
    ASSUME NEW st PROVE Cardinality(Cleared(st.slots, st)) = 0
<1>1. Cleared(st.slots, st) = {}
  BY Zenon DEF Cleared
<1>. QED BY <1>1, FS_EmptySet, Zenon

\* The stack of StateDB outside of calls.
LEMMA OneFits ==
    ASSUME NEW n \in Store, n.fund = 0, n.logs = 0, StoreFits(n.slots, n)
    PROVE  StackFits(<<n>>, <<>>, FALSE)
<1>. DEFINE k == <<n>>
<1>1. k \in Seq(Store) /\ k # <<>> /\ k[1] = n /\ DOMAIN k = {1}
  OBVIOUS
<1>2. <<>> \in Seq(FrameRecord) /\ Len(<<>>) = 0 /\ DOMAIN <<>> = {}
  OBVIOUS
<1>. HIDE DEF k
<1>3. FramesNest(<<>>) /\ TopFits(k[Len(k)], <<>>) /\ StaticFits(<<>>, FALSE)
  BY <1>2, Zenon DEF FramesNest, TopFits, StaticFits
<1>4. Len(<<>>) <= CallCreateDepth + 1
  BY <1>2, AmountsAssumption
<1>5. \A i \in DOMAIN k : StoreFits(k[1].slots, k[i])
  BY <1>1, Zenon
<1>6. StackFits(k, <<>>, FALSE)
  BY <1>1, <1>2, <1>3, <1>4, <1>5, Zenon DEF StackFits
<1>. QED BY <1>6, Zenon DEF k

\* PrepareAccessList: the list of the transaction before replaced by its own.
LEMMA PrepareFits ==
    ASSUME NEW st \in Store, StoreFits(st.slots, st), st.fund = 0,
           NEW dest \in SUBSET Addr, NEW list \in SUBSET (Coded \X Slot), IsFiniteSet(list)
    PROVE  LET n == PrepareAccessList(st, Sender, dest, list)
           IN  /\ n \in Store /\ StoreFits(n.slots, n) /\ n.fund = 0 /\ n.logs = st.logs
               /\ n.balance = st.balance /\ n.nonce = st.nonce
               /\ \A a \in dest : Listed(n, a)
<1>. DEFINE D == {Sender} \cup dest
            base == FoldSet(LAMBDA a, l : AddAddress(l, a), newAccessList, D)
            al == FoldSet(LAMBDA p, l : AddSlot(AddAddress(l, p[1]), p[1], p[2]), base, list)
            n == WithAccess(st, al, list)
<1>1. PrepareAccessList(st, Sender, dest, list) = n
  BY Zenon DEF PrepareAccessList, WithAccess
<1>2. D \in SUBSET Addr /\ dest \subseteq D
  BY Zenon DEF Addr
<1>3. list \in SUBSET (Addr \X Slot)
  BY Zenon DEF Addr
<1>. HIDE DEF D
<1>4. /\ base \in Lists /\ \A a \in D : ContainsAddress(base, a)
      /\ \A a \in Addr, s \in Slot : ~ContainsSlot(base, a, s)
  BY <1>2, ListsAddresses, Zenon
<1>. HIDE DEF base
<1>5. /\ al \in Lists
      /\ \A a \in Addr : ContainsAddress(base, a) => ContainsAddress(al, a)
      /\ \A a \in Addr, s \in Slot : ContainsSlot(al, a, s) <=> <<a, s>> \in list
  BY <1>3, <1>4, ListsSlots, Zenon
<1>. HIDE DEF al
<1>6. al \in AccessList /\ Indexed(al)
  BY <1>5, Zenon DEF Lists
<1>7. /\ n \in Store /\ n.access = al /\ n.accessed = list
      /\ n.slots = st.slots /\ n.balance = st.balance /\ n.supply = st.supply /\ n.minted = st.minted
      /\ n.nonce = st.nonce /\ n.code = st.code /\ n.logs = st.logs /\ n.fund = st.fund
  BY <1>6, AccessChanges, Zenon
<1>. HIDE DEF n
<1>8. StoreFits(n.slots, n)
  <2>1. Exact(n)
    BY <1>5, <1>7, Zenon DEF Exact
  <2>2. Cardinality(Cleared(n.slots, n)) = 0
    BY NothingCleared, Zenon
  <2>3. n.fund >= ClearRefund * Cardinality(Cleared(n.slots, n))
    BY <1>7, <2>2, AmountsAssumption, SMTT(30)
  <2>. QED BY <1>6, <1>7, <2>1, <2>3, Zenon DEF StoreFits
<1>9. \A a \in dest : Listed(n, a)
  BY <1>2, <1>4, <1>5, <1>7, Zenon DEF Listed
<1>. QED BY <1>1, <1>7, <1>8, <1>9, Zenon

\* A stack of one is replaced.
LEMMA SetOnly ==
    ASSUME NEW k \in Seq(Store), Len(k) = 1, NEW n \in Store PROVE SetTop(k, n) = <<n>>
<1>. DEFINE p == SetTop(k, n)
<1>1. p \in Seq(Store) /\ Len(p) = 1 /\ p[1] = n
  <2>1. p = [k EXCEPT ![1] = n]
    BY Zenon DEF SetTop
  <2>. HIDE DEF p
  <2>2. p \in Seq(Store) /\ Len(p) = Len(k)
    BY <2>1
  <2>3. 1 \in DOMAIN k
    OBVIOUS
  <2>. QED BY <2>1, <2>2, <2>3, Zenon
<1>. DEFINE q == <<n>>
<1>2. q \in Seq(Store) /\ Len(q) = 1 /\ q[1] = n
  OBVIOUS
<1>. HIDE DEF p, q
<1>3. \A i \in 1 .. 1 : p[i] = q[i]
  BY <1>1, <1>2
<1>4. p = q
  BY <1>1, <1>2, <1>3, SMTT(30)
<1>. QED BY <1>4, Zenon DEF p, q

\* A transaction begins.
LEMMA BeginKeeps == ASSUME ExecInv, Begin PROVE ExecInv'
<1>. DEFINE cur == CurrentStore
<1>1. PICK dest \in {{}} \cup {{a} : a \in Addr}, value \in Amount, list \in {{}, Contracts \X Slot} :
        /\ cur.balance[Sender] >= value + TxGas * GasPrice
        /\ WriteTop(PrepareAccessList(cur, Sender, dest, list))
        /\ tx' = [phase |-> "start", result |-> "none", nonce |-> cur.nonce[Sender],
                  dest |-> dest, value |-> value]
  BY ZenonT(40) DEF Begin
<1>2. tx.phase = "none" /\ txs' = txs + 1 /\ UNCHANGED <<frames, readOnly>>
  BY Zenon DEF Begin
<1>3. /\ stores \in Seq(Store) /\ Len(stores) = 1 /\ cur = stores[1] /\ cur \in Store
      /\ StoreFits(stores[1].slots, cur) /\ cur.fund = 0 /\ cur.logs = 0
      /\ frames = <<>> /\ readOnly = FALSE /\ txs \in Nat /\ Sender \in Addr
  BY <1>2, OutsideFacts, Zenon
<1>. DEFINE n == PrepareAccessList(cur, Sender, dest, list)
<1>4. stores' = SetTop(stores, n)
  BY <1>1, Zenon DEF WriteTop
<1>5. dest \in SUBSET Addr /\ (dest = {} \/ \E a \in Addr : dest = {a})
  BY <1>1, Zenon
<1>6. list \in SUBSET (Coded \X Slot) /\ IsFiniteSet(list)
  <2>1. IsFiniteSet(Contracts \X Slot) /\ IsFiniteSet({})
    BY AccountsAssumption, FS_Product, FS_EmptySet, Zenon
  <2>2. Contracts \X Slot \in SUBSET (Coded \X Slot)
    BY Zenon DEF Coded
  <2>. QED BY <1>1, <2>1, <2>2, Zenon
<1>7. StoreFits(cur.slots, cur)
  BY <1>3, Zenon
<1>. HIDE DEF cur
<1>8. /\ n \in Store /\ StoreFits(n.slots, n) /\ n.fund = 0 /\ n.logs = cur.logs
      /\ n.balance = cur.balance /\ n.nonce = cur.nonce
      /\ \A a \in dest : Listed(n, a)
  BY <1>3, <1>5, <1>6, <1>7, PrepareFits, ZenonT(40)
<1>. HIDE DEF n
<1>9. stores' = <<n>>
  BY <1>3, <1>4, <1>8, SetOnly, Zenon
<1>10. StackFits(<<n>>, <<>>, FALSE)
  BY <1>3, <1>8, OneFits, Zenon
<1>11. StackFits(stores, frames, readOnly)'
  BY <1>2, <1>3, <1>9, <1>10, ZenonT(40)
<1>12. cur.nonce[Sender] \in Nat
  BY <1>3, StoreFields, Zenon
<1>13. /\ tx' \in TxRecord /\ tx'.phase = "start" /\ tx'.nonce = cur.nonce[Sender]
       /\ tx'.dest = dest /\ tx'.value = value
  BY <1>1, <1>5, <1>12, AmountsAssumption, Zenon DEF TxRecord
<1>14. Pays(tx', n)
  <2>1. cur.balance[Sender] \in Nat /\ TxGas * GasPrice \in Nat
    BY <1>3, StoreFields, AmountsAssumption
  <2>2. value \in Nat
    BY AmountsAssumption, Zenon
  <2>. QED BY <1>1, <1>8, <1>12, <1>13, <2>1, <2>2 DEF Pays
<1>15. Len(stores') = 1 /\ stores'[1] = n /\ DOMAIN stores' = {1}
  BY <1>9
<1>16. TxFits'
  <2>1. stores'[1].balance[Sender] >= tx'.value + TxGas * GasPrice
    BY <1>1, <1>8, <1>13, <1>15, Zenon
  <2>2. \A i \in DOMAIN stores' : Pays(tx', stores'[i])
    BY <1>14, <1>15, Zenon
  <2>3. txs' \in Nat /\ frames' = <<>>
    BY <1>2, <1>3, SMTT(30)
  <2>. QED BY <1>5, <1>8, <1>13, <1>15, <2>1, <2>2, <2>3, Zenon DEF TxFits
<1>. QED BY <1>11, <1>16, Zenon DEF ExecInv

\* The refund and what is left of the gas: what the sender pays less the refund
\* is what the validator gets, and is covered by what the sender bought.
LEMMA GasAddsUp ==
    ASSUME NEW fund \in Nat, NEW left \in 0 .. TxGas - NetFee
    PROVE  LET gasUsed == TxGas - left
               refund  == Min({fund, gasUsed \div RefundQuotient})
           IN  /\ refund \in Nat /\ refund * GasPrice \in Nat
               /\ NetFee * GasPrice \in Nat /\ (TxGas - NetFee - left) * GasPrice \in Nat
               /\ (gasUsed - refund) * GasPrice \in Int
               /\ (gasUsed - refund) * GasPrice <= TxGas * GasPrice
               /\ NetFee * GasPrice + (TxGas - NetFee - left) * GasPrice - (gasUsed - refund) * GasPrice
                    = refund * GasPrice
<1>. DEFINE gasUsed == TxGas - left
            share   == gasUsed \div RefundQuotient
            refund  == Min({fund, share})
<1>1. gasUsed \in Nat /\ left \in Nat /\ RefundQuotient \in Nat \ {0} /\ TxGas \in Nat /\ GasPrice \in Nat
      /\ NetFee \in Nat /\ TxGas - NetFee - left \in Nat
  BY AmountsAssumption
<1>. HIDE DEF gasUsed
<1>2. share \in Nat
  BY <1>1
<1>. HIDE DEF share
<1>3. refund \in Nat
  <2>1. \E x \in {fund, share} : \A y \in {fund, share} : x <= y
    BY <1>2
  <2>. QED BY <1>2, <2>1, Zenon DEF Min
<1>. HIDE DEF refund
<1>4. refund * GasPrice \in Nat /\ NetFee * GasPrice \in Nat /\ (TxGas - NetFee - left) * GasPrice \in Nat
      /\ (left + refund) * GasPrice \in Nat
  BY <1>1, <1>3
<1>5. (gasUsed - refund) * GasPrice = TxGas * GasPrice - (left + refund) * GasPrice
  BY <1>1, <1>3 DEF gasUsed
<1>6. (gasUsed - refund) * GasPrice \in Int /\ TxGas * GasPrice \in Nat
  BY <1>1, <1>3
<1>7. (gasUsed - refund) * GasPrice <= TxGas * GasPrice
  BY <1>4, <1>5, <1>6, SMTT(30)
<1>8. NetFee * GasPrice + (TxGas - NetFee - left) * GasPrice - (gasUsed - refund) * GasPrice
        = refund * GasPrice
  BY <1>1, <1>3, SMTT(30) DEF gasUsed
<1>. QED BY <1>3, <1>4, <1>6, <1>7, <1>8, Zenon DEF refund, share, gasUsed

\* The current store after storeBlock has paid everybody; A and B are what the
\* validator gets, C what the sender pays and R the refund.
LEMMA PaidFits ==
    ASSUME NEW o, NEW st \in Store, StoreFits(o, st),
           NEW A \in Nat, NEW B \in Nat, NEW C \in Int, NEW R \in Nat,
           A + B - C = R, C <= st.balance[Sender]
    PROVE  LET n == Minted(SubBalance(AddBalance(AddBalance(st, Validator, A), Validator, B), Sender, C), R)
           IN  /\ n \in Store /\ n.nonce = st.nonce /\ n.fund = st.fund /\ n.logs = st.logs
               /\ Indexed(n.access) /\ Exact(n)
               /\ n.supply = TotalOf(n.balance)
               /\ n.supply = Balance + Cardinality(Contracts) + n.minted
<1>. DEFINE a == addTokens(st, Validator, A)
            b == addTokens(a, Validator, B)
            c == addTokens(b, Sender, -C)
            n == Minted(c, R)
<1>1. Validator \in Addr /\ Sender \in Addr
  BY Zenon DEF Addr
<1>2. st.supply = TotalOf(st.balance) /\ st.supply = Balance + Cardinality(Contracts) + st.minted
  BY Zenon DEF StoreFits
<1>3. st.balance \in [Addr -> Nat] /\ st.supply \in Nat /\ st.minted \in Nat
  BY StoreFields, ZenonT(40)
<1>4. /\ a \in Store /\ a.supply = TotalOf(a.balance) /\ a.supply = st.supply + A
      /\ a.balance = [st.balance EXCEPT ![Validator] = @ + A]
      /\ a.slots = st.slots /\ a.minted = st.minted /\ a.nonce = st.nonce /\ a.code = st.code
      /\ a.logs = st.logs /\ a.fund = st.fund /\ a.access = st.access /\ a.accessed = st.accessed
  <2>1. A \in Int /\ st.balance[Validator] + A >= 0
    BY <1>1, <1>3
  <2>. QED BY <1>1, <1>2, <2>1, AddTokensFits, ZenonT(40)
<1>. HIDE DEF a
<1>5. a.balance \in [Addr -> Nat] /\ a.balance[Sender] >= st.balance[Sender]
  BY <1>1, <1>3, <1>4, SMTT(30)
<1>6. /\ b \in Store /\ b.supply = TotalOf(b.balance) /\ b.supply = a.supply + B
      /\ b.balance = [a.balance EXCEPT ![Validator] = @ + B]
      /\ b.slots = a.slots /\ b.minted = a.minted /\ b.nonce = a.nonce /\ b.code = a.code
      /\ b.logs = a.logs /\ b.fund = a.fund /\ b.access = a.access /\ b.accessed = a.accessed
  <2>1. B \in Int /\ a.balance[Validator] + B >= 0
    BY <1>1, <1>5
  <2>2. a \in Store /\ a.supply = TotalOf(a.balance)
    BY <1>4, ZenonT(40)
  <2>. QED BY <1>1, <2>1, <2>2, AddTokensFits, ZenonT(40)
<1>. HIDE DEF b
<1>7. b.balance \in [Addr -> Nat] /\ b.balance[Sender] >= a.balance[Sender]
  BY <1>1, <1>5, <1>6, SMTT(30)
<1>8. /\ c \in Store /\ c.supply = TotalOf(c.balance) /\ c.supply = b.supply + (-C)
      /\ c.balance = [b.balance EXCEPT ![Sender] = @ + (-C)]
      /\ c.slots = b.slots /\ c.minted = b.minted /\ c.nonce = b.nonce /\ c.code = b.code
      /\ c.logs = b.logs /\ c.fund = b.fund /\ c.access = b.access /\ c.accessed = b.accessed
  <2>1. -C \in Int /\ b.balance[Sender] + (-C) >= 0
    BY <1>1, <1>3, <1>5, <1>7, SMTT(30)
  <2>2. b \in Store /\ b.supply = TotalOf(b.balance)
    BY <1>6, ZenonT(40)
  <2>. QED BY <1>1, <2>1, <2>2, AddTokensFits, ZenonT(40)
<1>. HIDE DEF c
<1>9. n \in Store /\ n.minted = c.minted + R
  <2>. DEFINE k == c.minted + R
  <2>1. n = [c EXCEPT !.minted = k]
    BY Zenon DEF Minted
  <2>2. k \in Nat
    BY <1>8, StoreFields
  <2>. HIDE DEF k, n
  <2>3. n = [slots |-> c.slots, balance |-> c.balance, supply |-> c.supply, minted |-> k,
             nonce |-> c.nonce, code |-> c.code, native |-> c.native, fund |-> c.fund,
             logs |-> c.logs, access |-> c.access, accessed |-> c.accessed]
    BY <1>8, <2>1, Zenon DEF Store
  <2>. QED BY <1>8, <2>2, <2>3, StoreFields, ZenonT(40) DEF Store, k
<1>10. /\ n.balance = c.balance /\ n.supply = c.supply /\ n.nonce = c.nonce /\ n.fund = c.fund /\ n.logs = c.logs
       /\ n.access = c.access /\ n.accessed = c.accessed
  BY <1>8, Zenon DEF Store, Minted
<1>. HIDE DEF n
<1>11. n.supply = TotalOf(n.balance)
  BY <1>8, <1>10, Zenon
<1>12. n.supply = Balance + Cardinality(Contracts) + n.minted
  <2>1. Cardinality(Contracts) \in Nat /\ Balance \in Nat
    BY AccountsAssumption, AmountsAssumption, FS_CardinalityType, Zenon
  <2>. QED BY <1>2, <1>3, <1>4, <1>6, <1>8, <1>9, <1>10, <2>1
<1>13. n.access = st.access /\ n.accessed = st.accessed /\ n.nonce = st.nonce /\ n.fund = st.fund /\ n.logs = st.logs
  BY <1>4, <1>6, <1>8, <1>10, Zenon
<1>14. Indexed(n.access) /\ Exact(n)
  BY <1>13, Zenon DEF StoreFits, Exact
<1>. QED BY <1>9, <1>11, <1>12, <1>13, <1>14, ZenonT(40) DEF n, c, b, a, AddBalance, SubBalance

\* Commit: of the current store the data stays, of the lowest one the rest.
LEMMA CommitFits ==
    ASSUME NEW k, NEW fs, NEW ro, StackFits(k, fs, ro), NEW m \in Store, Indexed(m.access), Exact(m),
           m.fund = Top(k).fund, m.logs = Top(k).logs, m.supply = TotalOf(m.balance),
           m.supply = Balance + Cardinality(Contracts) + m.minted
    PROVE  \E n \in Store : /\ Commit(SetTop(k, m)) = <<n>>
                            /\ n.fund = 0 /\ n.logs = 0 /\ StoreFits(n.slots, n) /\ n.nonce = m.nonce
<1>. DEFINE p == SetTop(k, m)
            f == p[1]
<1>1. /\ k \in Seq(Store) /\ Len(k) \in Nat \ {0} /\ k[1] \in Store
      /\ k[1].fund = 0 /\ k[1].logs = 0 /\ StoreFits(k[1].slots, k[1])
  BY DEF StackFits
<1>2. /\ p \in Seq(Store) /\ Len(p) = Len(k) /\ p[Len(k)] = m
      /\ Len(k) # 1 => p[1] = k[1]
  BY <1>1, SMTT(30) DEF SetTop
<1>3. f \in Store /\ f.fund = 0 /\ f.logs = 0 /\ Indexed(f.access) /\ Exact(f)
  <2>1. CASE Len(k) = 1
    <3>1. f = m
      BY <1>2, <2>1, Zenon
    <3>2. m.fund = 0 /\ m.logs = 0
      BY <1>1, <2>1, Zenon DEF Top
    <3>. QED BY <3>1, <3>2, ZenonT(40)
  <2>2. CASE Len(k) # 1
    <3>1. f = k[1]
      BY <1>2, <2>2, Zenon
    <3>. QED BY <1>1, <3>1, ZenonT(40) DEF StoreFits
  <2>. QED BY <2>1, <2>2, Zenon
<1>4. Commit(p) = <<[m EXCEPT !.fund = f.fund, !.logs = f.logs, !.access = f.access, !.accessed = f.accessed]>>
  BY <1>2, ZenonT(40) DEF Commit
<1>. HIDE DEF f, p
<1>. DEFINE n == [m EXCEPT !.fund = f.fund, !.logs = f.logs, !.access = f.access, !.accessed = f.accessed]
<1>5. f.fund \in Int /\ f.logs \in Nat /\ f.access \in AccessList /\ f.accessed \in SUBSET (Coded \X Slot)
  BY <1>3, StoreFields, Zenon
<1>6. n \in Store
  BY <1>5, Zenon DEF Store
<1>7. /\ n.slots = m.slots /\ n.balance = m.balance /\ n.supply = m.supply /\ n.minted = m.minted
      /\ n.nonce = m.nonce /\ n.fund = f.fund /\ n.logs = f.logs /\ n.access = f.access /\ n.accessed = f.accessed
  BY Zenon DEF Store
<1>. HIDE DEF n
<1>8. StoreFits(n.slots, n)
  <2>1. Exact(n)
    BY <1>3, <1>7, Zenon DEF Exact
  <2>2. Cardinality(Cleared(n.slots, n)) = 0
    BY NothingCleared, Zenon
  <2>3. n.fund >= ClearRefund * Cardinality(Cleared(n.slots, n))
    BY <1>3, <1>7, <2>2, AmountsAssumption, SMTT(30)
  <2>. QED BY <1>3, <1>7, <2>1, <2>3, ZenonT(40) DEF StoreFits
<1>9. Commit(p) = <<n>>
  BY <1>4, Zenon DEF n
<1>. QED BY <1>3, <1>6, <1>7, <1>8, <1>9, Zenon DEF p

\* The end of a transaction in storeBlock.
LEMMA SettleKeeps == ASSUME ExecInv, Settle PROVE ExecInv'
<1>. DEFINE cur == CurrentStore
            o == stores[1].slots
            counted == SetNonce(cur, Sender, cur.nonce[Sender] + 1)
            A == NetFee * GasPrice
            B(left) == (TxGas - NetFee - left) * GasPrice
            R(left) == Min({cur.fund, (TxGas - left) \div RefundQuotient})
            C(left) == (TxGas - left - R(left)) * GasPrice
            m(left) == Minted(SubBalance(AddBalance(AddBalance(counted, Validator, A), Validator, B(left)),
                                         Sender, C(left)), R(left) * GasPrice)
<1>1. PICK left \in leftAfter(tx.result) : stores' = Commit(SetTop(stores, m(left)))
  BY Zenon DEF Settle, Minted
<1>2. tx.phase = "settle" /\ tx' = [tx EXCEPT !.phase = "none"] /\ UNCHANGED <<frames, readOnly, txs>>
  BY Zenon DEF Settle
<1>3. /\ StackFits(stores, frames, readOnly) /\ stores \in Seq(Store) /\ Len(stores) \in Nat \ {0}
      /\ Top(stores) = cur /\ cur \in Store /\ StoreFits(o, cur) /\ Pays(tx, cur)
      /\ frames = <<>> /\ readOnly \in BOOLEAN /\ StaticFits(frames, readOnly)
      /\ tx \in TxRecord /\ txs \in Nat
  BY <1>2 DEF ExecInv, StackFits, TxFits, Top, CurrentStore
<1>4. readOnly = FALSE
  BY <1>3 DEF StaticFits
<1>5. Sender \in Addr /\ cur.nonce \in [Addr -> Nat] /\ cur.balance \in [Addr -> Nat]
  BY <1>3, StoreFields, ZenonT(40) DEF Addr
<1>6. left \in 0 .. TxGas - NetFee
  BY AmountsAssumption DEF leftAfter
<1>7. cur.fund \in Nat
  <2>1. Cardinality(Cleared(o, cur)) \in Nat /\ cur.fund \in Int
    BY <1>3, ClearedFinite, StoreFields, Zenon
  <2>2. ClearRefund * Cardinality(Cleared(o, cur)) \in Nat
    BY <2>1, AmountsAssumption, SMTT(30)
  <2>3. cur.fund >= ClearRefund * Cardinality(Cleared(o, cur))
    BY <1>3, Zenon DEF StoreFits
  <2>. QED BY <2>1, <2>2, <2>3
<1>. HIDE DEF cur
<1>8. /\ A \in Nat /\ B(left) \in Nat /\ C(left) \in Int /\ R(left) * GasPrice \in Nat
      /\ A + B(left) - C(left) = R(left) * GasPrice /\ C(left) <= TxGas * GasPrice
  BY <1>6, <1>7, GasAddsUp, Zenon
<1>9. /\ counted \in Store /\ StoreFits(o, counted) /\ counted.balance = cur.balance
      /\ counted.nonce = [cur.nonce EXCEPT ![Sender] = cur.nonce[Sender] + 1]
      /\ counted.fund = cur.fund /\ counted.logs = cur.logs
  <2>1. /\ Grows(o, cur, counted) /\ counted.nonce = [cur.nonce EXCEPT ![Sender] = cur.nonce[Sender] + 1]
        /\ counted.balance = cur.balance /\ counted.fund = cur.fund /\ counted.logs = cur.logs
    BY <1>3, <1>5, NonceFits, SMTT(30)
  <2>. QED BY <2>1, ZenonT(40) DEF Grows
<1>10. C(left) <= counted.balance[Sender]
  <2>1. TxGas * GasPrice \in Nat /\ cur.balance[Sender] \in Nat /\ cur.balance[Sender] >= TxGas * GasPrice
    BY <1>3, <1>5, AmountsAssumption, SMTT(30) DEF Pays
  <2>. HIDE DEF C
  <2>. QED BY <1>8, <1>9, <2>1
<1>. DEFINE r == R(left) * GasPrice
            b == B(left)
            c == C(left)
            n == Minted(SubBalance(AddBalance(AddBalance(counted, Validator, A), Validator, b), Sender, c), r)
<1>11. /\ A \in Nat /\ b \in Nat /\ c \in Int /\ r \in Nat /\ A + b - c = r /\ c <= counted.balance[Sender]
       /\ stores' = Commit(SetTop(stores, n))
  BY <1>1, <1>8, <1>10, ZenonT(40)
<1>. HIDE DEF A, b, c, r, counted
<1>12. /\ n \in Store /\ n.nonce = counted.nonce /\ n.fund = counted.fund /\ n.logs = counted.logs
       /\ Indexed(n.access) /\ Exact(n) /\ n.supply = TotalOf(n.balance)
       /\ n.supply = Balance + Cardinality(Contracts) + n.minted
  <2>1. counted \in Store /\ StoreFits(o, counted)
    BY <1>9, Zenon
  <2>2. A \in Nat /\ b \in Nat /\ c \in Int /\ r \in Nat /\ A + b - c = r /\ c <= counted.balance[Sender]
    BY <1>11, Zenon
  <2>. QED BY <2>1, <2>2, PaidFits, SMTT(30)
<1>. HIDE DEF n
<1>13. n.fund = Top(stores).fund /\ n.logs = Top(stores).logs
  BY <1>3, <1>9, <1>12, ZenonT(40)
<1>14. PICK z \in Store : /\ Commit(SetTop(stores, n)) = <<z>>
                          /\ z.fund = 0 /\ z.logs = 0 /\ StoreFits(z.slots, z) /\ z.nonce = n.nonce
  BY <1>3, <1>12, <1>13, CommitFits, ZenonT(40)
<1>15. StackFits(<<z>>, <<>>, FALSE)
  BY <1>14, OneFits, Zenon
<1>16. StackFits(stores, frames, readOnly)'
  BY <1>2, <1>3, <1>4, <1>11, <1>14, <1>15, ZenonT(40)
<1>17. tx' \in TxRecord /\ tx'.phase = "none" /\ tx'.nonce = tx.nonce /\ tx.nonce \in Nat
  BY <1>2, <1>3, Zenon DEF TxRecord
<1>18. stores'[1].nonce[Sender] > tx'.nonce /\ Len(stores') = 1
  <2>1. z.nonce[Sender] = cur.nonce[Sender] + 1 /\ cur.nonce[Sender] \in Nat
    BY <1>5, <1>9, <1>12, <1>14, ZenonT(40)
  <2>2. stores' = <<z>>
    BY <1>11, <1>14, Zenon
  <2>. QED BY <1>3, <1>17, <2>1, <2>2, SMTT(30) DEF Pays
<1>19. TxFits'
  BY <1>2, <1>3, <1>17, <1>18, Zenon DEF TxFits
<1>. QED BY <1>16, <1>19, Zenon DEF ExecInv

\* The genesis state.
LEMMA InitHolds == ASSUME Init PROVE ExecInv
<1>. DEFINE slots == [a \in Coded |-> [s \in Slot |-> IF a \in Contracts THEN 1 ELSE 0]]
            balance == [a \in Addr |-> CASE a = Sender -> Balance [] a \in Contracts -> 1 [] OTHER -> 0]
            supply == Balance + Cardinality(Contracts)
            nonce == [a \in Addr |-> IF a \in Contracts THEN 1 ELSE 0]
            n == [slots |-> slots, balance |-> balance, supply |-> supply, minted |-> 0, nonce |-> nonce,
                  code |-> Contracts \cup Natives, native |-> 0, fund |-> 0, logs |-> 0,
                  access |-> newAccessList, accessed |-> {}]
<1>1. stores = <<n>> /\ frames = <<>> /\ readOnly = FALSE /\ tx = NoTx /\ txs = 0
  BY Zenon DEF Init
<1>2. slots \in [Coded -> [Slot -> Value \cup {0, 1}]]
  BY Zenon
<1>3. balance \in [Addr -> Nat]
  BY AmountsAssumption, Zenon
<1>4. nonce \in [Addr -> Nat]
  BY Zenon
<1>5. supply \in Nat /\ supply = TotalOf(balance)
  BY AmountsAssumption, AccountsAssumption, FS_CardinalityType, TotalAtFirst, SMTT(30)
<1>6. /\ newAccessList \in AccessList /\ Indexed(newAccessList)
      /\ \A a \in Addr, s \in Slot : ~ContainsSlot(newAccessList, a, s)
  BY NewListFits, Zenon DEF Lists
<1>7. Contracts \cup Natives \in SUBSET (Coded \cup Natives)
  BY Zenon DEF Coded
<1>8. supply = Balance + Cardinality(Contracts) + 0
  BY <1>5, SMTT(30)
<1>. HIDE DEF slots, balance, supply, nonce
<1>9. n \in Store
  <2>1. 0 \in Nat /\ 0 \in Int /\ {} \in SUBSET (Coded \X Slot)
    OBVIOUS
  <2>. QED BY <1>2, <1>3, <1>4, <1>5, <1>6, <1>7, <2>1, Zenon DEF Store
<1>10. /\ n.balance = balance /\ n.supply = supply /\ n.minted = 0 /\ n.fund = 0 /\ n.logs = 0
       /\ n.access = newAccessList /\ n.accessed = {}
  BY Zenon
<1>. HIDE DEF n
<1>11. StoreFits(n.slots, n)
  <2>1. Exact(n)
    BY <1>6, <1>10, Zenon DEF Exact
  <2>2. Cardinality(Cleared(n.slots, n)) = 0
    BY NothingCleared, Zenon
  <2>3. n.fund >= ClearRefund * Cardinality(Cleared(n.slots, n))
    BY <1>10, <2>2, AmountsAssumption, SMTT(30)
  <2>. QED BY <1>5, <1>6, <1>8, <1>10, <2>1, <2>3, ZenonT(40) DEF StoreFits
<1>12. StackFits(<<n>>, <<>>, FALSE)
  BY <1>9, <1>10, <1>11, OneFits, Zenon
<1>13. StackFits(stores, frames, readOnly)
  BY <1>1, <1>12, ZenonT(40)
<1>14. tx \in TxRecord /\ tx.phase = "none"
  BY <1>1, Zenon DEF NoTx, TxRecord
<1>15. TxFits
  BY <1>1, <1>14, SMTT(30) DEF TxFits
<1>. QED BY <1>13, <1>15, Zenon DEF ExecInv

\* Every step of an instruction, of a call and of a transaction keeps what holds
\* between all steps.
LEMMA NextKeeps == ASSUME ExecInv, [Next]_vars PROVE ExecInv'
<1>1. CASE UNCHANGED vars
  <2>1. UNCHANGED <<stores, frames, readOnly, tx, txs>>
    BY <1>1, Zenon DEF vars
  <2>2. StackFits(stores, frames, readOnly)'
    BY <2>1, Zenon DEF ExecInv
  <2>3. TxFits'
    BY <2>1, Zenon DEF ExecInv, TxFits
  <2>. QED BY <2>2, <2>3, Zenon DEF ExecInv
<1>2. CASE Next
  BY <1>2, BeginKeeps, ExecuteKeeps, SettleKeeps, SStoreKeeps, SLoadKeeps, LogKeeps, CallKeeps, CreateKeeps,
     ReturnKeeps, SelfDestructKeeps, FailKeeps, ZenonT(40) DEF Next
<1>. QED BY <1>1, <1>2, Zenon

\* What holds between all steps says that the frames are sound.
LEMMA ExecIsSound == ASSUME ExecInv PROVE FramesAreSound /\ SupplyIsSum
<1>. DEFINE o == stores[1].slots
<1>1. /\ stores \in Seq(Store) /\ Len(stores) \in Nat \ {0} /\ DOMAIN stores = 1 .. Len(stores)
      /\ frames \in Seq(FrameRecord) /\ Len(frames) \in Nat /\ Len(frames) <= CallCreateDepth + 1
      /\ DOMAIN frames = 1 .. Len(frames) /\ readOnly \in BOOLEAN
      /\ stores[1].fund = 0 /\ stores[1].logs = 0
      /\ \A i \in DOMAIN stores : stores[i] \in Store /\ StoreFits(o, stores[i])
      /\ TopFits(CurrentStore, frames) /\ tx \in TxRecord /\ (tx.phase = "run" <=> frames # <<>>)
  BY SMTT(30) DEF ExecInv, StackFits, TxFits, CurrentStore
<1>2. TypeOK
  <2>1. \A i \in DOMAIN stores : /\ stores[i].balance \in [Addr -> Nat] /\ stores[i].supply \in Nat
                                 /\ stores[i].code \subseteq Addr
    BY <1>1, StoreFields, Zenon DEF Addr
  <2>2. tx.phase \in {"none", "start", "run", "settle"}
    BY <1>1, Zenon DEF TxRecord
  <2>. QED BY <1>1, <2>1, <2>2, Zenon DEF TypeOK, Running
<1>3. RefundCovers
  <2>1. \A i \in DOMAIN stores : stores[i].fund >= ClearRefund * Cardinality(Cleared(o, stores[i]))
    BY <1>1, Zenon DEF StoreFits
  <2>. QED BY <2>1, ZenonT(40) DEF RefundCovers, Cleared, GetCommittedState
<1>4. SelfIsListed
  BY <1>1 DEF SelfIsListed, TopFits, Running, self, Frame, Listed
<1>5. AccessListExact
  <2>1. \A i \in DOMAIN stores : Exact(stores[i])
    BY <1>1, Zenon DEF StoreFits
  <2>2. Coded \subseteq Addr
    BY Zenon DEF Addr
  <2>. QED BY <2>1, <2>2, ZenonT(40) DEF AccessListExact, Exact
<1>6. StaticChangesNothing
  BY <1>1, Zenon DEF StaticChangesNothing, TopFits
<1>7. TransfersConserve /\ SupplyIsSum
  <2>1. \A i \in DOMAIN stores : /\ stores[i].supply = Balance + Cardinality(Contracts) + stores[i].minted
                                 /\ stores[i].supply = TotalOf(stores[i].balance)
    BY <1>1, ZenonT(40) DEF StoreFits
  <2>. QED BY <2>1, Zenon DEF TransfersConserve, SupplyIsSum, TotalOf
<1>8. NonceMoves /\ NothingLeaks
  <2>1. ASSUME tx.phase = "none"
        PROVE  Len(stores) = 1 /\ CurrentStore = stores[1] /\ (txs > 0 => stores[1].nonce[Sender] > tx.nonce)
    BY <2>1, Zenon DEF ExecInv, TxFits, CurrentStore
  <2>. QED BY <1>1, <2>1, Zenon DEF NonceMoves, NothingLeaks
<1>. QED BY <1>2, <1>3, <1>4, <1>5, <1>6, <1>7, <1>8, Zenon DEF FramesAreSound

\* The invariant of the execution of transactions (evm.go, instructions.go,
\* StateDB, storeBlock): the stack of stores fits the frames that run on it.
THEOREM ExecutionFits == Spec => []ExecInv
<1>1. Init => ExecInv
  BY InitHolds, Zenon
<1>2. ExecInv /\ [Next]_vars => ExecInv'
  BY NextKeeps, Zenon
<1>. QED BY <1>1, <1>2, PTL DEF Spec

\* For any contracts, storage, gas costs and depth of calls, and for any number of
\* transactions and instructions: the refund counter covers what is taken from it
\* and never goes below zero, the list has the address a frame runs for and
\* exactly the slots that were used, nothing changes below a static call, tokens
\* only move, the nonce moves, and nothing is left for the next transaction.
THEOREM FramesStaySound == Spec => []FramesAreSound
<1>1. ExecInv => FramesAreSound
  BY ExecIsSound, Zenon
<1>. QED BY <1>1, ExecutionFits, PTL

\* The supply that addTokens maintains is the sum of the balances in every store
\* of the stack, whatever was paid, transferred, refunded or rolled back.
THEOREM SupplyStaysSum == Spec => []SupplyIsSum
<1>1. ExecInv => SupplyIsSum
  BY ExecIsSound, Zenon
<1>. QED BY <1>1, ExecutionFits, PTL

\* RevertToSnapshot after a failure uncovers the store in which the snapshot was
\* taken, however many snapshots the frame and its callees took above it.
THEOREM RevertAlwaysRestores == Spec => RevertRestores
<1>1. ExecInv /\ [Next]_vars => [Restored]_vars
  <2>1. ASSUME ExecInv, Fail PROVE stores'[Len(stores')] = Frame.saved
    <3>1. StackFits(stores, frames, readOnly) /\ frames # <<>>
      BY <2>1, Zenon DEF ExecInv, Fail, Running
    <3>2. Top(SubSeq(stores, 1, frames[Len(frames)].revid + 1)) = frames[Len(frames)].saved
      BY <3>1, RevertFits, Zenon
    <3>. QED BY <2>1, <3>2, Zenon DEF Fail, RevertToSnapshot, Frame, Top
  <2>. QED BY <2>1, Zenon DEF Restored
<1>. QED BY <1>1, ExecutionFits, PTL DEF Spec, RevertRestores
=============================================================================
