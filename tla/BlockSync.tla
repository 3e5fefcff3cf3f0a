----------------------------- MODULE BlockSync -----------------------------
(* Fetching blocks from peers: the ring buffer of pkg/network/blockqueue.go   *)
(* with its goroutine, the requests of pkg/network/server.go and the answers  *)
(* of the peers, which run the same code.  A block is its index, and whether  *)
(* the chain will take it: chain.AddBlock takes the next index only.          *)
(*                                                                            *)
(* putBlock and requestBlocks read the height of the chain without a lock and *)
(* use it later, so each is two steps.  Consensus adds blocks on its own.     *)
EXTENDS Integers, Sequences, FiniteSets

CONSTANTS
    Peer,             \* connected peers that are ahead of this node
    PeerHeight,       \* their height
    blockCacheSize,   \* slots of the ring
    MaxHashesCount,   \* blocks in an answer, a divisor of blockCacheSize
    Fault,            \* what happens beside the plan: "failed", a block AddBlock refuses for a
                      \* passing reason, "lost", an unanswered request, "own", a block of consensus
    MaxFaults,        \* bound: how often that happens
    Stops,            \* whether the server is shut down
    MaxInFlight       \* bound: blocks on the way from one peer

ASSUME SizesAssumption ==
    /\ PeerHeight \in Nat /\ blockCacheSize \in Nat \ {0} /\ MaxHashesCount \in Nat \ {0}
    /\ MaxFaults \in Nat /\ MaxInFlight \in Nat

VARIABLES
    height,           \* chain.BlockHeight()
    queue,            \* slot -> index of the block in it, or Nil
    lastQ,            \* bq.lastQ
    checkBlocks,      \* 0 or 1 signals in the channel, -1 when it is closed
    runner,           \* goroutine bq.run: its place and its locals
    lastRequestedBlock,
    inbox,            \* blocks on their way from a peer, in order (TCP)
    handler,          \* handleIncoming of a peer: its place and its locals
    asking,           \* StartProtocol of a peer: the height it has read, or -1
    faults            \* how often a fault has happened

vars == <<height, queue, lastQ, checkBlocks, runner, lastRequestedBlock, inbox, handler, asking, faults>>

Nil == 0
Slot == 0 .. blockCacheSize - 1
Index == 0 .. PeerHeight

indexToPosition(i) == i % blockCacheSize

MayHappen(f) == f \in Fault /\ faults < MaxFaults

TypeOK ==
    /\ height \in Index
    /\ queue \in [Slot -> Index]
    /\ lastQ \in Index
    /\ checkBlocks \in {-1, 0, 1}
    /\ runner \in [pc : {"wait", "look", "add", "gone"}, b : Index]
    /\ lastRequestedBlock \in Index
    /\ inbox \in [Peer -> Seq(Index \ {Nil})] /\ \A p \in Peer : Len(inbox[p]) <= MaxInFlight
    /\ handler \in [Peer -> [pc : {"idle", "put", "signal", "panic"}, h : Index, b : Index]]
    /\ asking \in [Peer -> -1 .. PeerHeight]
    /\ faults \in 0 .. MaxFaults

\* newBlockQueue and the start of run; a node that has just started.
Init ==
    /\ height = 0
    /\ queue = [s \in Slot |-> Nil]
    /\ lastQ = 0
    /\ checkBlocks = 0
    /\ runner = [pc |-> "wait", b |-> Nil]
    /\ lastRequestedBlock = 0
    /\ inbox = [p \in Peer |-> <<>>]
    /\ handler = [p \in Peer |-> [pc |-> "idle", h |-> 0, b |-> Nil]]
    /\ asking = [p \in Peer |-> -1]
    /\ faults = 0

----------------------------------------------------------------------------
(* bq.run *)

\* The channel is closed: the goroutine ends.
RunEnds ==
    /\ runner.pc = "wait" /\ checkBlocks = -1
    /\ runner' = [runner EXCEPT !.pc = "gone"]
    /\ UNCHANGED <<height, queue, lastQ, checkBlocks, lastRequestedBlock, inbox, handler, asking, faults>>

RunWakes ==
    /\ runner.pc = "wait" /\ checkBlocks = 1
    /\ checkBlocks' = 0
    /\ runner' = [runner EXCEPT !.pc = "look"]
    /\ UNCHANGED <<height, queue, lastQ, lastRequestedBlock, inbox, handler, asking, faults>>

\* One turn of the inner loop up to AddBlock.  The loop that drops blocks the
\* chain got from elsewhere looks for index i in the slot of i + 1, so it never
\* finds one; such a block stays until another takes its slot.
RunLooks ==
    /\ runner.pc = "look"
    /\ LET b == queue[indexToPosition(height + 1)]
       IN  runner' = [pc |-> IF b = Nil THEN "wait" ELSE "add", b |-> b]
    /\ UNCHANGED <<height, queue, lastQ, checkBlocks, lastRequestedBlock, inbox, handler, asking, faults>>

\* A slot is emptied only when it still holds the block that was tried.
emptied == [queue EXCEPT ![indexToPosition(runner.b)] = IF @ = runner.b THEN Nil ELSE @]

\* AddBlock and the rest of the turn.  A block that was refused leaves the
\* queue like one that was added; the relay function starts the services.
RunAdds ==
    /\ runner.pc = "add"
    /\ \E ok \in BOOLEAN :
        /\ ok \/ runner.b # height + 1 \/ MayHappen("failed")
        /\ height' = IF ok /\ runner.b = height + 1 THEN height + 1 ELSE height
        /\ faults' = IF ok \/ runner.b # height + 1 THEN faults ELSE faults + 1
    /\ queue' = emptied
    /\ runner' = [runner EXCEPT !.pc = "look", !.b = Nil]
    /\ UNCHANGED <<lastQ, checkBlocks, lastRequestedBlock, inbox, handler, asking>>

\* Consensus adds the next block itself.
ConsensusAdds ==
    /\ MayHappen("own") /\ height < PeerHeight
    /\ height' = height + 1
    /\ faults' = faults + 1
    /\ UNCHANGED <<queue, lastQ, checkBlocks, runner, lastRequestedBlock, inbox, handler, asking>>

----------------------------------------------------------------------------
(* putBlock, run by the goroutine that handles the messages of a peer *)

\* handleBlockCmd, and the height is read.
ReceiveBlock(p) ==
    /\ handler[p].pc = "idle" /\ inbox[p] # <<>>
    /\ handler' = [handler EXCEPT ![p] = [pc |-> "put", h |-> height, b |-> Head(inbox[p])]]
    /\ inbox' = [inbox EXCEPT ![p] = Tail(@)]
    /\ UNCHANGED <<height, queue, lastQ, checkBlocks, runner, lastRequestedBlock, asking, faults>>

lastQueuedAfter_bug(q, b) == IF b > lastQ THEN b ELSE lastQ

\* The index up to which blocks follow lastQ without a gap, from the slot of
\* the new block to the end of the ring; the loop does not go round.
lastQueuedAfter(q, b) ==
    LET run == {i \in Index : i >= b /\ indexToPosition(b) + (i - b) < blockCacheSize
                               /\ \A j \in b .. i : q[indexToPosition(j)] = j}
    IN  IF lastQ + 1 = b THEN CHOOSE i \in run : \A j \in run : j <= i ELSE lastQ

\* The part under the lock.  A block that is too old or too far ahead of the
\* height read before is dropped, and nobody is told.
PutBlock(p) ==
    LET b == handler[p].b
        new == queue[indexToPosition(b)] < b
        q == IF new THEN [queue EXCEPT ![indexToPosition(b)] = b] ELSE queue
    IN  /\ handler[p].pc = "put"
        /\ IF b <= handler[p].h \/ handler[p].h + blockCacheSize < b
             THEN /\ handler' = [handler EXCEPT ![p] = [pc |-> "idle", h |-> 0, b |-> Nil]]
                  /\ UNCHANGED <<queue, lastQ>>
             ELSE /\ handler' = [handler EXCEPT ![p] = [pc |-> "signal", h |-> 0, b |-> Nil]]
                  /\ queue' = q
                  /\ lastQ' = IF new THEN lastQueuedAfter(q, b) ELSE lastQ
        /\ UNCHANGED <<height, checkBlocks, runner, lastRequestedBlock, inbox, asking, faults>>

\* The goroutine of the queue is told, unless a signal is waiting already.
Signal(p) ==
    /\ handler[p].pc = "signal"
    /\ checkBlocks' = IF checkBlocks = -1 THEN -1 ELSE 1
    /\ handler' = [handler EXCEPT ![p].pc = IF checkBlocks = -1 THEN "panic" ELSE "idle"]
    /\ UNCHANGED <<height, queue, lastQ, runner, lastRequestedBlock, inbox, asking, faults>>

\* Shutdown of the server: the channel is closed and the ring emptied.
discard ==
    /\ Stops /\ checkBlocks # -1
    /\ checkBlocks' = -1
    /\ queue' = [s \in Slot |-> Nil]
    /\ UNCHANGED <<height, lastQ, runner, lastRequestedBlock, inbox, handler, asking, faults>>

----------------------------------------------------------------------------
(* requestBlocks, called at every tick of the protocol and for every pong *)

Tick(p) ==
    /\ asking[p] = -1 /\ height < PeerHeight
    /\ Len(inbox[p]) + MaxHashesCount <= MaxInFlight
    /\ asking' = [asking EXCEPT ![p] = height]
    /\ UNCHANGED <<height, queue, lastQ, checkBlocks, runner, lastRequestedBlock, inbox, handler, faults>>

Random == 0 .. blockCacheSize \div MaxHashesCount - 1

\* getRequestBlocksPayload with the chain at h: the height to ask for and the
\* new lastRequestedBlock; i is the number mrand.Intn gives.  A failed CAS starts
\* again, so this is one step.
getRequestBlocksPayload(h, i) ==
    LET old == lastRequestedBlock
    IN  IF old <= h
        THEN [need |-> h + 1, last |-> h + 1]
        ELSE IF old < h + (blockCacheSize - MaxHashesCount)
        THEN IF PeerHeight > old + MaxHashesCount
             THEN [need |-> old + MaxHashesCount, last |-> old + MaxHashesCount]
             ELSE [need |-> h + 1, last |-> old]
        ELSE [need |-> h + 1 + i * MaxHashesCount, last |-> old]

\* What is sent: blocks that are queued up to lastQ are skipped.
request(h, need) ==
    IF lastQ > need
    THEN [start |-> lastQ + 1,
          count |-> LET c == h + blockCacheSize - lastQ IN IF c < MaxHashesCount THEN c ELSE -1]
    ELSE [start |-> need, count |-> -1]

\* GetBlockByIndex.DecodeBinary at the peer refuses some counts.
decodes(r) == r.count >= -1 /\ r.count # 0

\* handleGetBlockByIndexCmd at the peer.
answer(r) ==
    LET count == IF r.count < 0 \/ r.count > MaxHashesCount THEN MaxHashesCount ELSE r.count
        n == IF r.start > PeerHeight THEN 0
             ELSE IF r.start + count - 1 > PeerHeight THEN PeerHeight - r.start + 1 ELSE count
    IN  [i \in 1 .. n |-> r.start + i - 1]

\* The request is answered, or lost with what was on the way: the peer drops a
\* connection with a request it cannot decode, and may drop it at any time.
RequestBlocks(p, i, lost) ==
    /\ asking[p] # -1
    /\ lost => MayHappen("lost")
    /\ LET pl == getRequestBlocksPayload(asking[p], i)
           r  == request(asking[p], pl.need)
       IN  /\ lastRequestedBlock' = pl.last
           /\ inbox' = [inbox EXCEPT ![p] = IF lost \/ ~decodes(r) THEN <<>> ELSE @ \o answer(r)]
    /\ faults' = IF lost THEN faults + 1 ELSE faults
    /\ asking' = [asking EXCEPT ![p] = -1]
    /\ UNCHANGED <<height, queue, lastQ, checkBlocks, runner, handler>>

----------------------------------------------------------------------------
Next ==
    \/ RunEnds \/ RunWakes \/ RunLooks \/ RunAdds \/ ConsensusAdds \/ discard
    \/ \E p \in Peer : ReceiveBlock(p) \/ PutBlock(p) \/ Signal(p) \/ Tick(p)
    \/ \E p \in Peer, i \in Random, lost \in BOOLEAN : RequestBlocks(p, i, lost)

\* The goroutines run; ticks come again and again, and every height a request
\* may pick at random is picked in the end.
Fairness ==
    /\ WF_vars(RunEnds) /\ WF_vars(RunWakes) /\ WF_vars(RunLooks) /\ WF_vars(RunAdds)
    /\ \A p \in Peer : /\ WF_vars(ReceiveBlock(p)) /\ WF_vars(PutBlock(p)) /\ WF_vars(Signal(p))
                       /\ WF_vars(Tick(p))
                       /\ \A i \in Random : SF_vars(RequestBlocks(p, i, FALSE))

Spec == Init /\ [][Next]_vars /\ Fairness

\* blockqueue.go: what requestBlocks skips is there.  Every block up to lastQ that
\* the chain does not have is in the ring or in the hands of bq.run, though
\* putBlock compares with a height that is older than the lock it takes and slots
\* are reused.
SkippedIsQueued ==
    /\ TypeOK
    /\ checkBlocks # -1 => \A i \in height + 1 .. lastQ : queue[indexToPosition(i)] = i \/ runner.b = i

\* The node catches up with its peers: lost answers, blocks that consensus added
\* first and requests that were skipped never leave a block that is not fetched.
CatchesUp == <>(height = PeerHeight \/ checkBlocks = -1)

----------------------------------------------------------------------------
(* The inductive invariant behind SkippedIsQueued.                            *)

\* A slot holds a block that belongs there, at most one round ahead of the chain.
RingFits ==
    \A s \in Slot : queue[s] # Nil =>
        indexToPosition(queue[s]) = s /\ queue[s] <= height + blockCacheSize

\* bq.run has taken no block beyond the next one.
RunnerFits ==
    IF runner.pc = "add" THEN runner.b \in 1 .. height + 1 ELSE runner.b = Nil

\* What a peer's goroutines have read of the chain is not ahead of it, and an
\* answer they have asked for has room.
PeersFit ==
    \A p \in Peer :
        /\ handler[p].h <= height
        /\ handler[p].pc = "put" => handler[p].b # Nil
        /\ asking[p] # -1 => asking[p] < PeerHeight /\ Len(inbox[p]) + MaxHashesCount <= MaxInFlight

SyncInv == SkippedIsQueued /\ RingFits /\ RunnerFits /\ PeersFit
=============================================================================
