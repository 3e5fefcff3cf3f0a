------------------------------- MODULE Mempool ------------------------------
(***************************************************************************)
(* The pool of verified transactions: PoolTx with its checks of nonces and *)
(* balances, replacement by a better paid transaction of the same nonce,   *)
(* eviction at capacity, and the refresh after a block.  PoolTx runs under *)
(* the read lock of Blockchain, so several calls are under way together,   *)
(* and storeBlock under its write lock, so none is.                        *)
(***************************************************************************)
EXTENDS Integers, Sequences, SequencesExt, FiniteSetsExt

CONSTANTS
    Sender,
    Tx,            \* records [id, from, nonce, price, cost]; id is the hash
    Balance,       \* the balances a sender may have
    GasPrice,      \* the gas prices of the policy
    Foreign,       \* whether blocks hold transactions this pool does not have
    Capacity,      \* mp.capacity
    MaxBlocks,     \* bound: blocks
    MaxCalls,      \* bound: PoolTx calls under way together
    Nil

VARIABLES
    chain,   \* nonces, balances, gas price and transactions of the ledger
    pool,    \* the fields of Pool
    calls    \* transactions whose PoolTx call is before Pool.Add

vars == <<chain, pool, calls>>

\* A priority is the gas price of a transaction.
Item == [tx : Tx, priority : {t.price : t \in Tx}]

NoFees == [s \in Sender |-> Nil]

Init ==
    /\ chain = [nonce |-> [s \in Sender |-> 0], balance |-> [s \in Sender |-> Max(Balance)],
                price |-> Min(GasPrice), txs |-> {}, height |-> 0]
    /\ pool = [list |-> <<>>,                                \* verifiedTxes
               map |-> {},                                   \* verifiedMap
               senderMap |-> {},                             \* as a set of items
               pending |-> [s \in Sender |-> 0],             \* pendingNonces
               db |-> [s \in Sender |-> 0],                  \* dbNonces
               fees |-> NoFees,
               price |-> Nil,                                \* gasPrice
               panic |-> FALSE]
    /\ calls = {}

-----------------------------------------------------------------------------
(* Order and search *)

\* The second test of nonces repeats the first.
CompareTo(a, b) ==
    IF a.priority # b.priority THEN a.priority - b.priority
    ELSE IF a.tx.nonce > b.tx.nonce THEN -1
    ELSE a.tx.id - b.tx.id

\* sort.Search: the position, counted from 0, a binary search comes to when the
\* tests of the positions are these.
Search(tests) ==
    LET range[i \in 0..Len(tests), j \in 0..Len(tests)] ==
            IF i >= j THEN i
            ELSE LET h == (i + j) \div 2
                 IN IF tests[h + 1] THEN range[i, h] ELSE range[h + 1, j]
    IN range[0, Len(tests)]

\* senderMap[s][n], if there is one.
ItemsAt(p, s, n) == {i \in p.senderMap : i.tx.from = s /\ i.tx.nonce = n}

ItemsOf(p, s) == {i \in p.senderMap : i.tx.from = s}

-----------------------------------------------------------------------------
(* Removal *)

\* The entry of mp.fees, or the one made from the balance the Feer c gives.
Fee(p, s, c) == IF p.fees[s] = Nil THEN [balance |-> c.balance[s], sum |-> 0] ELSE p.fees[s]

Uncounted(fee, t) == [balance |-> fee.balance, sum |-> fee.sum - t.cost]

\* num is counted from 1; beyond the list, the process panics.  An absent entry
\* of mp.fees reads as the zero value.
removeItemByIndex(p, num) ==
    IF num > Len(p.list) THEN [p EXCEPT !.panic = TRUE]
    ELSE LET t   == p.list[num].tx
             fee == IF p.fees[t.from] = Nil THEN [balance |-> 0, sum |-> 0] ELSE p.fees[t.from]
         IN [p EXCEPT !.map = @ \ {t},
                      !.senderMap = @ \ ItemsAt(p, t.from, t.nonce),
                      !.list = RemoveAt(p.list, num),
                      !.fees[t.from] = Uncounted(fee, t)]

\* The binary search finds where the linear one begins; if that finds nothing,
\* the item at the beginning goes.
removeInternal(p, item) ==
    LET num  == 1 + Search([i \in DOMAIN p.list |-> CompareTo(item, p.list[i]) >= 0])
        here == {i \in num..Len(p.list) : p.list[i].tx = item.tx}
    IN IF p.panic THEN p
       ELSE removeItemByIndex(p, IF here = {} THEN num ELSE Max(here))

NotContinuing(p, s, dbNonce, pending) ==
    {i \in ItemsOf(p, s) : i.tx.nonce < dbNonce \/ i.tx.nonce > pending}

\* The pools RefreshNonce may leave: nonces from dbNonce to the first gap stay,
\* the others go in the order of a Go map, which is any; what is gone when its
\* turn comes is passed over.  An absent nonce reads as 0.
RefreshNonce(p, s, dbNonce) ==
    LET gaps    == {i \in dbNonce..(p.pending[s] - 1) : ItemsAt(p, s, i) = {}}
        pending == IF gaps = {} THEN p.pending[s] ELSE Min(gaps)
        start   == [p EXCEPT !.db[s] = dbNonce, !.pending[s] = pending]
        cut     == NotContinuing(p, s, dbNonce, pending)
        after[I \in SUBSET cut] ==
            IF I = {} THEN {start}
            ELSE UNION {{IF i \in q.senderMap THEN removeInternal(q, i) ELSE q :
                            q \in after[I \ {i}]} : i \in I}
    IN {IF ItemsOf(q, s) = {} /\ ~q.panic
        THEN [q EXCEPT !.db[s] = 0, !.pending[s] = 0] ELSE q : q \in after[cut]}

checkBalance(t, fee) == fee.balance >= t.cost /\ fee.balance >= t.cost + fee.sum

\* Variant of Relevant: the transactions of the block stay.
Relevant_bug(p, t, block, changed) == changed => t.price >= p.price

\* isOK and checkPolicy: not in the block, and paid enough if the price changed.
Relevant(p, t, block, changed) == t \notin block /\ (changed => t.price >= p.price)

Kept(p, item) ==
    [p EXCEPT !.list = Append(@, item), !.fees[item.tx.from].sum = @ + item.tx.cost]

Dropped(p, t) == [p EXCEPT !.map = @ \ {t}, !.senderMap = @ \ ItemsAt(p, t.from, t.nonce)]

\* The fees are counted anew with the balances after the block; a sender gets
\* an entry when the balance is asked for, after the other two tests.
RemoveStale(p, block) ==
    LET changed == p.price # chain'.price
        start == [p EXCEPT !.list = <<>>, !.fees = NoFees, !.price = chain'.price]
        Filter(q, item) ==
            LET t   == item.tx
                fee == Fee(q, t.from, chain')
                r   == [q EXCEPT !.fees[t.from] = fee]
            IN IF ~Relevant(q, t, block, changed) THEN Dropped(q, t)
               ELSE IF checkBalance(t, fee) THEN Kept(r, item) ELSE Dropped(r, t)
    IN FoldLeft(Filter, start, p.list)

-----------------------------------------------------------------------------
(* Add *)

\* What expectedSenderFee.feeSum.Sub leaves in mp.fees: the digits of the two
\* copies are shared, sign and length are not.
InPlaceSub(x, y) ==
    IF x < 0 THEN {x - y} ELSE IF x = 0 THEN {0, y} ELSE {IF x > y THEN x - y ELSE y - x}

\* The list with the item at position n, counted from 0.  At capacity the last
\* item is removed and nothing appended, so that the shift loses another one.
\* Slicing beyond the end panics.
Inserted(p, item, n) ==
    LET len == Len(p.list)
    IN IF Len(p.list) < Capacity THEN [p EXCEPT !.list = InsertAt(@, n + 1, item)]
       ELSE LET u == p.list[len].tx
                q == removeItemByIndex(p, len)
                r == [q EXCEPT !.pending[u.from] = IF ItemsOf(q, u.from) = {} THEN 0 ELSE @ - 1]
            IN CASE n = len - 1 -> [r EXCEPT !.panic = TRUE]
                 [] n = len - 2 -> r
                 [] n < len - 2 -> [r EXCEPT !.list = Front(InsertAt(@, n + 1, item))]

\* The gas price, but not more than the priority of the transaction before it.
Priority(p, t) ==
    LET pre == {i.priority : i \in ItemsAt(p, t.from, t.nonce - 1)}
    IN Min(pre \cup {t.price})

Replaced(p, old) == FoldSet(LAMBDA i, q : removeInternal(q, i), p, old)

\* Only a new transaction changes the pending nonce.
PendingAfter(p, t, old) == IF old = {} THEN t.nonce + 1 ELSE p.pending[t.from]

\* Add after its checks; old is the item that is replaced, if any.
AddChecked(p, t, old) ==
    LET p1   == Replaced(p, old)
        item == [tx |-> t, priority |-> Priority(p1, t)]
        n    == Search([i \in DOMAIN p1.list |-> CompareTo(item, p1.list[i]) > 0])
        p2   == Inserted(p1, item, n)
    IN IF p1.panic \/ (Len(p1.list) = Capacity /\ n = Capacity) THEN p1
       ELSE IF p2.panic THEN p2
       ELSE [p2 EXCEPT !.map = @ \cup {t},
                       !.senderMap = @ \cup {item},
                       !.pending[t.from] = PendingAfter(p2, t, old),
                       !.fees[t.from] = [Fee(p2, t.from, chain) EXCEPT !.sum = @ + t.cost]]

\* Add of a transaction whose checks in verifyAndPoolTx have passed.
Add(t) ==
    LET old == ItemsAt(pool, t.from, t.nonce)
        fee == Fee(pool, t.from, chain)
    IN /\ t \in calls
       /\ calls' = calls \ {t}
       /\ UNCHANGED chain
       /\ \/ /\ t \in pool.map \/ \E i \in old : i.tx.price >= t.price
             /\ UNCHANGED pool
          \/ /\ t \notin pool.map /\ old = {}
             /\ pool' = IF checkBalance(t, fee) THEN AddChecked(pool, t, {}) ELSE pool
          \/ /\ t \notin pool.map
             /\ \E i \in old : \E sum \in InPlaceSub(fee.sum, i.tx.cost) :
                   LET p == [pool EXCEPT !.fees[t.from] = [fee EXCEPT !.sum = sum]]
                   IN /\ i.tx.price < t.price
                      /\ pool' = IF checkBalance(t, [fee EXCEPT !.sum = @ - i.tx.cost])
                                 THEN AddChecked(p, t, old) ELSE p

\* verifyAndPoolTx before Add: the nonces from the one of the ledger on.
CheckTx(t) ==
    /\ Cardinality(calls) < MaxCalls /\ t \notin calls /\ ~pool.panic
    /\ t.price >= chain.price /\ t \notin chain.txs
    /\ LET db == IF pool.db[t.from] = 0 THEN chain.nonce[t.from] ELSE pool.db[t.from]
       IN /\ pool' = [pool EXCEPT !.db[t.from] = db]
          /\ calls' = IF /\ t.nonce >= db
                         /\ \A i \in db..(t.nonce - 1) : ItemsAt(pool, t.from, i) # {}
                      THEN calls \cup {t} ELSE calls
    /\ UNCHANGED chain

-----------------------------------------------------------------------------
(* A block *)

\* The transactions of a block continue the nonces of their senders.
Blocks ==
    {b \in SUBSET (IF Foreign THEN Tx ELSE pool.map) :
        \A t \in b : /\ t.nonce >= chain.nonce[t.from]
                     /\ \A u \in b : u.from = t.from /\ u.nonce = t.nonce => u = t
                     /\ \A n \in chain.nonce[t.from]..t.nonce :
                           \E u \in b : u.from = t.from /\ u.nonce = n}

\* storeBlock: the ledger changes, then the pool is cleaned.
StoreBlock(b) ==
    /\ calls = {} /\ ~pool.panic /\ chain.height < MaxBlocks
    /\ \E price \in GasPrice, balance \in [Sender -> Balance] :
          chain' = [nonce |-> [s \in Sender |->
                                 chain.nonce[s] + Cardinality({t \in b : t.from = s})],
                    balance |-> balance, price |-> price, txs |-> chain.txs \cup b,
                    height |-> chain.height + 1]
    /\ LET p == RemoveStale(pool, b)
           senders == {t.from : t \in pool.map \ p.map}
           after[S \in SUBSET senders] ==
               IF S = {} THEN {p}
               ELSE UNION {UNION {RefreshNonce(q, s, chain'.nonce[s]) : q \in after[S \ {s}]} :
                              s \in S}
       IN pool' \in after[senders]
    /\ UNCHANGED calls

Next ==
    \/ \E t \in Tx : CheckTx(t) \/ Add(t)
    \/ \E b \in Blocks : StoreBlock(b)

Spec == Init /\ [][Next]_vars

-----------------------------------------------------------------------------
(* Properties *)

\* The values of the fields; the list never outgrows the capacity, and a sum of
\* fees may be negative, a balance may not.
TypeOK ==
    /\ chain \in [nonce : [Sender -> Nat], balance : [Sender -> Balance], price : GasPrice,
                  txs : SUBSET Tx, height : 0..MaxBlocks]
    /\ pool.list \in Seq(Item) /\ Len(pool.list) <= Capacity
    /\ pool.map \subseteq Tx /\ pool.senderMap \subseteq Item
    /\ pool.pending \in [Sender -> Nat] /\ pool.db \in [Sender -> Nat]
    /\ pool.fees \in [Sender -> [balance : Nat, sum : Int] \cup {Nil}]
    /\ pool.price \in GasPrice \cup {Nil}
    /\ pool.panic \in BOOLEAN
    /\ calls \subseteq Tx

\* The sorted list and the two maps hold the same transactions, each once, and
\* no search ran past the list (Add, removeInternal, RemoveStale).
PoolConsistent ==
    /\ ~pool.panic
    /\ {pool.list[i].tx : i \in DOMAIN pool.list} = pool.map
    /\ {i.tx : i \in pool.senderMap} = pool.map
    /\ Len(pool.list) = Cardinality(pool.map)

\* The nonces of a sender run from that of the ledger, without a gap, up to
\* the pending nonce that is offered for the next transaction (RefreshNonce:
\* "remove transactions not continue").
NoncesContinue ==
    \A s \in Sender :
        LET nonces == {i.tx.nonce : i \in ItemsOf(pool, s)}
        IN nonces # {} => nonces = pool.db[s]..(pool.pending[s] - 1)

\* Proposals take the list in its order: each transaction comes after the one
\* with the nonce before (CompareTo: "nonce lower with higher priority").
ExecutableOrder ==
    \A i, j \in DOMAIN pool.list :
        LET t == pool.list[i].tx
            u == pool.list[j].tx
        IN t.from = u.from /\ t.nonce < u.nonce => i < j

\* A sender can pay for all its transactions together (Verify: "checks if a
\* Sender of tx is able to pay for it (and all the other transactions in the
\* pool)").
PayersCanPay ==
    \A s \in Sender :
        MapThenSumSet(LAMBDA t : t.cost, {t \in pool.map : t.from = s}) <= chain.balance[s]

\* After a block the pool holds no transaction that can no longer be executed
\* (RemoveStale: drops the "part of the mempool that is now invalid after the
\* block acceptance").
StillExecutable ==
    \A t \in pool.map : t.nonce >= chain.nonce[t.from]

=============================================================================
