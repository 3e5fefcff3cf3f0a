------------------------------ MODULE TxRelay ------------------------------
(* How a transaction that reaches the server is pooled and announced:         *)
(* handleTxCmd of the goroutines of the peers, RelayTxn of the RPC server and *)
(* broadcastTxLoop, pkg/network/server.go.  PoolTx is one step (Mempool.tla); *)
(* it takes a transaction that is neither pooled nor in a block.              *)
EXTENDS Integers, Sequences, FiniteSets

CONSTANTS
    Tx,
    Handler,      \* handleIncoming goroutines of peers, which get CMDTX messages
    Rpc,          \* RPC calls that relay a transaction
    ChanSize,     \* capacity of s.transactions
    batchSize

VARIABLES
    txInMap,
    pool,         \* transactions in the memory pool
    packed,       \* transactions that were in the pool and are in a block
    call,         \* handlers and RPC calls: their place and transaction
    transactions, \* the channel
    loop,         \* broadcastTxLoop: its batch and its timer
    announced,    \* transactions sent in an inv message
    quit          \* s.quit is closed

vars == <<txInMap, pool, packed, call, transactions, loop, announced, quit>>

Caller == Handler \cup Rpc

TypeOK ==
    /\ txInMap \subseteq Tx /\ pool \subseteq Tx /\ packed \subseteq Tx /\ announced \subseteq Tx
    /\ call \in [Caller -> {[pc |-> "idle"]} \cup [pc : {"pool", "send", "clear"}, tx : Tx]]
    /\ transactions \in Seq(Tx) /\ Len(transactions) <= ChanSize
    /\ loop \in [pc : {"select", "end"}, txs : Seq(Tx), timer : {"nil", "armed", "fired", "stopped"}]
    /\ Len(loop.txs) < batchSize
    /\ quit \in BOOLEAN

Idle == [pc |-> "idle"]

Init ==
    /\ txInMap = {} /\ pool = {} /\ packed = {} /\ announced = {}
    /\ call = [c \in Caller |-> Idle]
    /\ transactions = <<>>
    /\ loop = [pc |-> "select", txs |-> <<>>, timer |-> "nil"]
    /\ quit = FALSE

----------------------------------------------------------------------------
(* handleTxCmd and RelayTxn *)

\* Under txInLock: another handler has it in hand, or it is pooled.
inProgress(t) == t \in txInMap \/ t \in pool

\* A CMDTX message.  One that is known changes nothing.
HandleTx(h, t) ==
    /\ call[h] = Idle /\ ~inProgress(t)
    /\ txInMap' = txInMap \cup {t}
    /\ call' = [call EXCEPT ![h] = [pc |-> "pool", tx |-> t]]
    /\ UNCHANGED <<pool, packed, transactions, loop, announced, quit>>

RelayTxn(r, t) ==
    /\ call[r] = Idle
    /\ call' = [call EXCEPT ![r] = [pc |-> "pool", tx |-> t]]
    /\ UNCHANGED <<txInMap, pool, packed, transactions, loop, announced, quit>>

\* verifyAndPoolTX; verification may fail.
VerifyAndPool(c) ==
    /\ call[c].pc = "pool"
    /\ \/ /\ call[c].tx \notin pool \cup packed
          /\ pool' = pool \cup {call[c].tx}
          /\ call' = [call EXCEPT ![c].pc = "send"]
       \/ /\ UNCHANGED pool
          /\ call' = [call EXCEPT ![c].pc = "clear"]
    /\ UNCHANGED <<txInMap, packed, transactions, loop, announced, quit>>

\* broadcastTX waits for a place in the channel, or for the server to quit.
BroadcastTX(c) ==
    /\ call[c].pc = "send"
    /\ \/ Len(transactions) < ChanSize /\ transactions' = Append(transactions, call[c].tx)
       \/ quit /\ UNCHANGED transactions
    /\ call' = [call EXCEPT ![c].pc = "clear"]
    /\ UNCHANGED <<txInMap, pool, packed, loop, announced, quit>>

Return(c) ==
    /\ call[c].pc = "clear"
    /\ call' = [call EXCEPT ![c] = Idle]
    /\ txInMap' = IF c \in Handler THEN txInMap \ {call[c].tx} ELSE txInMap
    /\ UNCHANGED <<pool, packed, transactions, loop, announced, quit>>

\* A block takes transactions out of the pool.
AddBlock(t) ==
    /\ t \in pool
    /\ pool' = pool \ {t} /\ packed' = packed \cup {t}
    /\ UNCHANGED <<txInMap, call, transactions, loop, announced, quit>>

----------------------------------------------------------------------------
(* broadcastTxLoop *)

\* broadcast sends the batch and stops the timer, which stays set.
broadcast(txs, timer) ==
    /\ announced' = announced \cup {txs[i] : i \in DOMAIN txs}
    /\ loop' = [loop EXCEPT !.txs = <<>>, !.timer = IF timer = "armed" THEN "stopped" ELSE timer]

Collect_bug ==
    /\ loop.pc = "select" /\ transactions # <<>>
    /\ LET txs   == Append(loop.txs, Head(transactions))
           timer == IF loop.timer = "nil" THEN "armed" ELSE loop.timer
       IN  IF Len(txs) = batchSize THEN broadcast(txs, timer)
           ELSE loop' = [loop EXCEPT !.txs = txs, !.timer = timer] /\ UNCHANGED announced
    /\ transactions' = Tail(transactions)
    /\ UNCHANGED <<txInMap, pool, packed, call, quit>>

\* The first transaction of a batch sets a new timer.
Collect ==
    /\ loop.pc = "select" /\ transactions # <<>>
    /\ LET txs   == Append(loop.txs, Head(transactions))
           timer == IF loop.txs = <<>> THEN "armed" ELSE loop.timer
       IN  IF Len(txs) = batchSize THEN broadcast(txs, timer)
           ELSE loop' = [loop EXCEPT !.txs = txs, !.timer = timer] /\ UNCHANGED announced
    /\ transactions' = Tail(transactions)
    /\ UNCHANGED <<txInMap, pool, packed, call, quit>>

TimerFires ==
    /\ loop.timer = "armed"
    /\ loop' = [loop EXCEPT !.timer = "fired"]
    /\ UNCHANGED <<txInMap, pool, packed, call, transactions, announced, quit>>

\* A timer that went off while the batch was sent finds none.
BatchTime ==
    /\ loop.pc = "select" /\ loop.timer = "fired"
    /\ IF loop.txs # <<>> THEN broadcast(loop.txs, "stopped")
       ELSE loop' = [loop EXCEPT !.timer = "stopped"] /\ UNCHANGED announced
    /\ UNCHANGED <<txInMap, pool, packed, call, transactions, quit>>

LoopEnds ==
    /\ loop.pc = "select" /\ quit
    /\ transactions' = <<>>
    /\ loop' = [loop EXCEPT !.pc = "end"]
    /\ UNCHANGED <<txInMap, pool, packed, call, announced, quit>>

Shutdown ==
    /\ ~quit
    /\ quit' = TRUE
    /\ UNCHANGED <<txInMap, pool, packed, call, transactions, loop, announced>>

----------------------------------------------------------------------------
Next ==
    \/ \E h \in Handler, t \in Tx : HandleTx(h, t)
    \/ \E r \in Rpc, t \in Tx : RelayTxn(r, t)
    \/ \E c \in Caller : VerifyAndPool(c) \/ BroadcastTX(c) \/ Return(c)
    \/ \E t \in Tx : AddBlock(t)
    \/ Collect \/ TimerFires \/ BatchTime \/ LoopEnds \/ Shutdown

\* Goroutines run and timers go off; select serves every ready case in the end.
Fairness ==
    /\ \A c \in Caller : WF_vars(VerifyAndPool(c)) /\ SF_vars(BroadcastTX(c)) /\ WF_vars(Return(c))
    /\ SF_vars(Collect) /\ WF_vars(TimerFires) /\ SF_vars(BatchTime) /\ WF_vars(LoopEnds)

Spec == Init /\ [][Next]_vars /\ Fairness

\* A transaction is in the hands of one handler at a time: it is not verified
\* by the goroutines of two peers that send it together.
OneHandler ==
    \A h, g \in Handler : call[h] # Idle /\ call[g] # Idle /\ call[h].tx = call[g].tx => h = g

\* Whatever the pool took is announced, full batch or not, unless the server
\* quits first: no transaction is left behind by a timer that was stopped.
PooledIsAnnounced == \A t \in Tx : t \in pool \cup packed ~> t \in announced \/ quit

\* A caller is never left waiting on the channel, not by a loop that has ended.
CallReturns == \A c \in Caller : call[c] # Idle ~> call[c] = Idle
============================================================================
