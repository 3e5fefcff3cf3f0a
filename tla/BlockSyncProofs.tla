-------------------------- MODULE BlockSyncProofs ---------------------------
(* SyncInv is an inductive invariant of BlockSync, for any number of peers,   *)
(* any height of theirs and any size of the ring and of answers, as long as   *)
(* AddBlock refuses no block for a passing reason.  From it: the blocks that  *)
(* requestBlocks skips are queued.                                            *)
EXTENDS BlockSync, SequenceTheorems, WellFoundedInduction, TLAPS

----------------------------------------------------------------------------
(* The ring *)

\* An index is a number of whole rounds and its slot.
LEMMA Rounds ==
    ASSUME NEW a \in Nat
    PROVE  /\ indexToPosition(a) \in Slot
           /\ a \div blockCacheSize \in Nat
           /\ a = blockCacheSize * (a \div blockCacheSize) + indexToPosition(a)
BY SizesAssumption DEF indexToPosition, Slot

\* Two indices of one slot are at least one round apart.
LEMMA OneRoundApart ==
    ASSUME NEW a \in Nat, NEW b \in Nat, indexToPosition(a) = indexToPosition(b), a < b
    PROVE  a + blockCacheSize <= b
<1>. DEFINE n == blockCacheSize
            x == a \div n
            y == b \div n
            c == indexToPosition(a)
<1>1. n \in Nat \ {0} /\ x \in Nat /\ y \in Nat /\ c \in Nat
  <2>1. n \in Nat \ {0}
    BY SizesAssumption
  <2>2. x \in Nat /\ y \in Nat /\ c \in Slot
    BY Rounds
  <2>3. Slot \subseteq Nat
    BY <2>1 DEF Slot
  <2>. QED BY <2>1, <2>2, <2>3, Zenon
<1>2. a = n * x + c /\ b = n * y + c
  BY Rounds
<1>. HIDE DEF n, x, y, c
<1>3. n * x < n * y
  BY <1>1, <1>2
<1>4. x < y
  <2>. SUFFICES ASSUME y <= x PROVE FALSE
    BY <1>1
  <2>1. PICK d \in Nat : x = y + d
    <3>1. x - y \in Nat /\ x = y + (x - y)
      BY <1>1
    <3>. QED BY <3>1
  <2>2. n * x = n * y + n * d /\ n * d \in Nat
    BY <1>1, <2>1
  <2>3. n * x \in Nat /\ n * y \in Nat
    BY <1>1
  <2>. QED BY <1>3, <2>2, <2>3
<1>5. PICK d \in Nat : y = x + 1 + d
  <2>1. y - x - 1 \in Nat /\ y = x + 1 + (y - x - 1)
    BY <1>1, <1>4
  <2>. QED BY <2>1
<1>6. n * y = n * x + n + n * d /\ n * d \in Nat /\ n * x \in Nat
  BY <1>1, <1>5
<1>. QED BY <1>1, <1>2, <1>6 DEF n

\* A bounded set of numbers has a greatest element.
LEMMA Greatest ==
    ASSUME NEW N \in Nat, NEW S, S \subseteq 0 .. N, S # {}
    PROVE  \E i \in S : \A j \in S : j <= i
<1>. DEFINE T == {N - i : i \in S}
            R == {ss \in Nat \X Nat : ss[1] < ss[2]}
<1>1. T \subseteq Nat /\ T # {}
  <2>1. \A i \in S : N - i \in Nat
    OBVIOUS
  <2>2. PICK i \in S : TRUE
    BY Zenon
  <2>. QED BY <2>1, <2>2
<1>2. IsWellFoundedOn(R, Nat)
  BY NatLessThanWellFounded, Zenon DEF OpToRel
<1>3. \A x, y \in Nat : y < x => <<y, x>> \in R
  OBVIOUS
<1>4. PICK x \in T : \A y \in T : ~(<<y, x>> \in R)
  <2>. HIDE DEF T, R
  <2>. QED BY <1>1, <1>2, WFMin, Zenon
<1>5. ASSUME NEW y \in T PROVE x <= y
  <2>. HIDE DEF T, R
  <2>1. x \in Nat /\ y \in Nat
    BY <1>1
  <2>2. ~(y < x)
    BY <1>3, <1>4, <2>1, Zenon
  <2>. QED BY <2>1, <2>2
<1>6. PICK i \in S : x = N - i
  BY <1>4
<1>7. ASSUME NEW j \in S PROVE j <= i
  <2>1. x <= N - j
    BY <1>5
  <2>. QED BY <1>6, <2>1
<1>. QED BY <1>7

\* The loop of putBlock: beyond the block that is put, lastQ reaches only
\* blocks that are in their slots.
LEMMA LastQueuedAfter ==
    ASSUME lastQ \in Index, NEW b \in Index, NEW q \in [Slot -> Index], q[indexToPosition(b)] = b
    PROVE  /\ lastQueuedAfter(q, b) \in Index
           /\ \A i \in lastQ + 1 .. lastQueuedAfter(q, b) : q[indexToPosition(i)] = i
<1>. DEFINE run == {i \in Index : i >= b /\ indexToPosition(b) + (i - b) < blockCacheSize
                                  /\ \A j \in b .. i : q[indexToPosition(j)] = j}
            top == CHOOSE i \in run : \A j \in run : j <= i
<1>1. b \in Nat /\ PeerHeight \in Nat /\ Index = 0 .. PeerHeight
  BY SizesAssumption DEF Index
<1>2. b \in run
  <2>1. indexToPosition(b) \in Slot
    BY <1>1, Rounds
  <2>2. indexToPosition(b) + (b - b) < blockCacheSize /\ \A j \in b .. b : j = b
    BY <1>1, <2>1, SizesAssumption DEF Slot
  <2>. QED BY <1>1, <2>2
<1>3. \E i \in run : \A j \in run : j <= i
  <2>1. run \subseteq 0 .. PeerHeight /\ run # {}
    BY <1>1, <1>2
  <2>. HIDE DEF run
  <2>. QED BY <1>1, <2>1, Greatest, Zenon
<1>4. top \in run
  <2>. HIDE DEF run
  <2>. QED BY <1>3
<1>5. CASE lastQ + 1 = b
  <2>1. lastQueuedAfter(q, b) = top
    BY <1>5 DEF lastQueuedAfter
  <2>. QED BY <1>1, <1>4, <1>5, <2>1, Zenon
<1>6. CASE lastQ + 1 # b
  <2>1. lastQueuedAfter(q, b) = lastQ
    BY <1>6 DEF lastQueuedAfter
  <2>2. \A i \in lastQ + 1 .. lastQ : FALSE
    BY <1>1
  <2>. QED BY <2>1, <2>2
<1>. QED BY <1>5, <1>6

----------------------------------------------------------------------------
(* The steps *)

\* The numbers of the ring and the chain.
LEMMA Types ==
    ASSUME TypeOK
    PROVE  /\ PeerHeight \in Nat /\ blockCacheSize \in Nat \ {0} /\ Index = 0 .. PeerHeight
           /\ height \in Index /\ height \in Nat /\ lastQ \in Index /\ lastQ \in Nat
           /\ queue \in [Slot -> Index] /\ runner.b \in Index
           /\ handler \in [Peer -> [pc : {"idle", "put", "signal", "panic"}, h : Index, b : Index]]
           /\ asking \in [Peer -> -1 .. PeerHeight] /\ inbox \in [Peer -> Seq(Index \ {Nil})]
           /\ \A i \in Index : i \in Nat /\ indexToPosition(i) \in Slot
<1>1. PeerHeight \in Nat /\ blockCacheSize \in Nat \ {0} /\ Index = 0 .. PeerHeight
  BY SizesAssumption DEF Index
<1>2. /\ height \in Index /\ lastQ \in Index /\ queue \in [Slot -> Index]
      /\ runner \in [pc : {"wait", "look", "add", "gone"}, b : Index]
      /\ handler \in [Peer -> [pc : {"idle", "put", "signal", "panic"}, h : Index, b : Index]]
      /\ asking \in [Peer -> -1 .. PeerHeight] /\ inbox \in [Peer -> Seq(Index \ {Nil})]
  BY DEF TypeOK
<1>3. \A i \in Index : i \in Nat /\ indexToPosition(i) \in Slot
  BY <1>1, Rounds
<1>. QED BY <1>1, <1>2, <1>3, Zenon

\* The same for the numbers alone.
LEMMA Numbers ==
    ASSUME TypeOK
    PROVE  /\ PeerHeight \in Nat /\ blockCacheSize \in Nat /\ Index = 0 .. PeerHeight
           /\ height \in 0 .. PeerHeight /\ height \in Nat /\ lastQ \in 0 .. PeerHeight
<1>1. TypeOK
  OBVIOUS
<1>. QED BY <1>1, Types

\* A chain that has grown from g to h lacks fewer of the blocks up to l.
LEMMA Missing ==
    ASSUME NEW N \in Nat, NEW g \in Nat, NEW h \in Nat, g <= h, NEW l \in 0 .. N
    PROVE  \A i \in h + 1 .. l : i \in 0 .. N /\ i \in g + 1 .. l /\ i > h
OBVIOUS

\* The goroutine of the queue ends, wakes up, or looks at the slot of the next
\* block, which holds that block or an older one.
LEMMA RunInv ==
    ASSUME SyncInv, RunEnds \/ RunWakes \/ RunLooks
    PROVE  SyncInv'
<1>0. TypeOK /\ RingFits /\ RunnerFits /\ PeersFit /\ SkippedIsQueued
  BY DEF SyncInv, SkippedIsQueued
<1>1. /\ UNCHANGED <<height, queue, lastQ, lastRequestedBlock, inbox, handler, asking, faults>>
      /\ checkBlocks' \in {checkBlocks, 0}
      /\ runner.pc \in {"wait", "look"}
  BY DEF RunEnds, RunWakes, RunLooks
<1>2. runner.b = Nil /\ runner \in [pc : {"wait", "look", "add", "gone"}, b : Index]
  BY <1>0, <1>1 DEF RunnerFits, TypeOK
<1>3. /\ runner' \in [pc : {"wait", "look", "add", "gone"}, b : Index]
      /\ IF runner'.pc = "add" THEN runner'.b \in 1 .. height + 1 ELSE runner'.b = Nil
  <2>1. CASE RunEnds \/ RunWakes
    BY <1>2, <2>1 DEF RunEnds, RunWakes
  <2>2. CASE RunLooks
    <3>. DEFINE b == queue[indexToPosition(height + 1)]
    <3>1. runner' = [pc |-> IF b = Nil THEN "wait" ELSE "add", b |-> b]
      BY <2>2 DEF RunLooks
    <3>2. height + 1 \in Nat /\ indexToPosition(height + 1) \in Slot
      <4>1. height + 1 \in Nat
        BY <1>0, Numbers
      <4>. QED BY <4>1, Rounds
    <3>3. b \in Index /\ b \in Nat
      BY <1>0, <3>2, Types
    <3>4. b # Nil => b \in 1 .. height + 1
      <4>. SUFFICES ASSUME b # Nil PROVE b \in 1 .. height + 1
        OBVIOUS
      <4>1. indexToPosition(b) = indexToPosition(height + 1) /\ b <= height + blockCacheSize
        BY <1>0, <3>2 DEF RingFits
      <4>. HIDE DEF b
      <4>2. ~(height + 1 < b)
        BY <1>0, <3>2, <3>3, <4>1, Types, OneRoundApart
      <4>. QED BY <1>0, <3>3, <4>2, Types DEF Nil
    <3>. HIDE DEF b
    <3>. QED BY <3>1, <3>3, <3>4
  <2>. QED BY <2>1, <2>2
<1>4. TypeOK'
  BY <1>0, <1>1, <1>3 DEF TypeOK
<1>5. checkBlocks' # -1 => \A i \in height' + 1 .. lastQ' : queue'[indexToPosition(i)] = i
  <2>1. \A i \in height + 1 .. lastQ : i # runner.b
    BY <1>0, <1>2, Types DEF Nil
  <2>2. checkBlocks # -1 => \A i \in height + 1 .. lastQ : queue[indexToPosition(i)] = i
    BY <1>0, <2>1 DEF SkippedIsQueued
  <2>3. checkBlocks' # -1 => checkBlocks # -1
    BY DEF RunEnds, RunWakes, RunLooks
  <2>. QED BY <1>1, <2>2, <2>3
<1>. QED BY <1>0, <1>1, <1>3, <1>4, <1>5 DEF SyncInv, SkippedIsQueued, RingFits, RunnerFits, PeersFit

\* The block that bq.run has tried leaves the ring, and the chain has it: only
\* the next block is added, and older ones the chain has already.
LEMMA RunAddsInv ==
    ASSUME SyncInv, "failed" \notin Fault, RunAdds
    PROVE  SyncInv'
<1>0. TypeOK /\ RingFits /\ RunnerFits /\ PeersFit /\ SkippedIsQueued
  BY DEF SyncInv, SkippedIsQueued
<1>. DEFINE b == runner.b
<1>1. /\ UNCHANGED <<lastQ, checkBlocks, lastRequestedBlock, inbox, handler, asking, faults>>
      /\ height' = IF b = height + 1 THEN height + 1 ELSE height
      /\ queue' = [queue EXCEPT ![indexToPosition(b)] = IF queue[indexToPosition(b)] = b THEN Nil ELSE queue[indexToPosition(b)]]
      /\ runner' = [runner EXCEPT !.pc = "look", !.b = Nil]
  BY DEF RunAdds, MayHappen, emptied
<1>2. b \in 1 .. height + 1 /\ b \in Index
  BY <1>0, Types DEF RunAdds, RunnerFits
<1>3. Nil \in Index /\ Nil = 0
  BY SizesAssumption DEF Nil, Index
<1>4. runner' \in [pc : {"wait", "look", "add", "gone"}, b : Index] /\ runner'.pc = "look" /\ runner'.b = Nil
  BY <1>0, <1>1, <1>3, Zenon DEF TypeOK
<1>. HIDE DEF b
<1>5. /\ queue' \in [Slot -> Index]
      /\ \A s \in Slot : queue'[s] = IF s = indexToPosition(b) /\ queue[s] = b THEN Nil ELSE queue[s]
  BY <1>0, <1>1, <1>2, <1>3, Types, Zenon
<1>6. height' \in Index /\ height' \in Nat /\ height <= height' /\ b <= height'
  <2>1. /\ PeerHeight \in Nat /\ Index = 0 .. PeerHeight /\ height \in 0 .. PeerHeight
        /\ height' = IF b = height + 1 THEN height + 1 ELSE height
    BY <1>0, <1>1, Numbers
  <2>. QED BY <1>2, <2>1
<1>7. TypeOK'
  BY <1>0, <1>1, <1>4, <1>5, <1>6 DEF TypeOK
<1>8. checkBlocks' # -1 => \A i \in height' + 1 .. lastQ' : queue'[indexToPosition(i)] = i
  <2>1. lastQ \in 0 .. PeerHeight /\ height \in Nat /\ Index = 0 .. PeerHeight /\ PeerHeight \in Nat
    BY <1>0, Numbers
  <2>2. \A i \in height' + 1 .. lastQ : i \in 0 .. PeerHeight /\ i \in height + 1 .. lastQ /\ i # b
    <3>1. height' \in Nat /\ height <= height' /\ b \in Nat /\ b <= height'
      BY <1>2, <1>6, <2>1
    <3>2. \A i \in height' + 1 .. lastQ : i \in 0 .. PeerHeight /\ i \in height + 1 .. lastQ /\ i > height'
      BY <2>1, <3>1, Missing, Zenon
    <3>3. \A i \in 0 .. PeerHeight : i > height' => i # b
      BY <2>1, <3>1
    <3>. QED BY <3>2, <3>3
  <2>3. \A i \in height' + 1 .. lastQ : indexToPosition(i) \in Slot
    BY <1>0, <2>1, <2>2, Types
  <2>4. checkBlocks # -1 => \A i \in height' + 1 .. lastQ : queue[indexToPosition(i)] = i
    BY <1>0, <2>2 DEF SkippedIsQueued, b
  <2>. QED BY <1>1, <1>5, <2>2, <2>3, <2>4
<1>9. RingFits'
  <2>1. \A s \in Slot : queue[s] \in Nat
    BY <1>0, Types
  <2>. QED BY <1>0, <1>5, <1>6, <2>1, Types DEF RingFits
<1>10. PeersFit'
  <2>1. \A p \in Peer : handler[p].h \in Nat /\ height \in Nat
    BY <1>0, Types
  <2>2. UNCHANGED <<handler, inbox, asking>>
    BY <1>1
  <2>. QED BY <1>0, <1>6, <2>1, <2>2 DEF PeersFit
<1>. QED BY <1>4, <1>7, <1>8, <1>9, <1>10 DEF SyncInv, SkippedIsQueued, RunnerFits

\* Consensus gives the chain a block that may be in the ring as well.
LEMMA ConsensusAddsInv ==
    ASSUME SyncInv, ConsensusAdds
    PROVE  SyncInv'
<1>0. TypeOK /\ RingFits /\ RunnerFits /\ PeersFit /\ SkippedIsQueued
  BY DEF SyncInv, SkippedIsQueued
<1>1. /\ height < PeerHeight /\ height' = height + 1 /\ faults < MaxFaults /\ faults' = faults + 1
      /\ UNCHANGED <<queue, lastQ, checkBlocks, runner, lastRequestedBlock, inbox, handler, asking>>
  BY DEF ConsensusAdds, MayHappen
<1>2. height' \in Index /\ height' \in Nat
  BY <1>0, <1>1, Numbers
<1>3. faults' \in 0 .. MaxFaults
  <2>1. faults \in 0 .. MaxFaults
    BY <1>0 DEF TypeOK
  <2>. QED BY <1>1, <2>1, SizesAssumption
<1>4. TypeOK'
  BY <1>0, <1>1, <1>2, <1>3 DEF TypeOK
<1>5. SkippedIsQueued'
  <2>1. \A i \in height' + 1 .. lastQ : i \in height + 1 .. lastQ
    BY <1>0, <1>1, Types
  <2>. QED BY <1>0, <1>1, <1>4, <2>1 DEF SkippedIsQueued
<1>6. RingFits'
  <2>1. \A s \in Slot : queue[s] \in Nat
    BY <1>0, Types
  <2>. QED BY <1>0, <1>1, <2>1, Types DEF RingFits
<1>7. RunnerFits'
  <2>1. height \in Nat /\ \A b \in 1 .. height + 1 : b \in 1 .. height + 2
    BY <1>0, Numbers
  <2>2. height' + 1 = height + 2 /\ runner' = runner
    BY <1>1, <2>1
  <2>. QED BY <1>0, <2>1, <2>2 DEF RunnerFits
<1>8. PeersFit'
  BY <1>0, <1>1, Types, SMTT(30) DEF PeersFit
<1>. QED BY <1>5, <1>6, <1>7, <1>8 DEF SyncInv

\* A step that leaves the chain, the ring and the goroutine of the queue alone
\* is one of a peer's goroutines, and only they have to fit.
LEMMA PeerStepInv ==
    ASSUME SyncInv, TypeOK', PeersFit', UNCHANGED <<height, queue, lastQ, runner>>,
           checkBlocks' # -1 => checkBlocks # -1
    PROVE  SyncInv'
BY DEF SyncInv, SkippedIsQueued, RingFits, RunnerFits

\* A handler takes the next block of its peer and reads the height.
LEMMA ReceiveBlockInv ==
    ASSUME SyncInv, NEW p \in Peer, ReceiveBlock(p)
    PROVE  SyncInv'
<1>0. TypeOK /\ PeersFit
  BY DEF SyncInv, SkippedIsQueued
<1>. DEFINE b == Head(inbox[p])
            t == Tail(inbox[p])
            Handlers == [pc : {"idle", "put", "signal", "panic"}, h : Index, b : Index]
<1>1. /\ UNCHANGED <<height, queue, lastQ, checkBlocks, runner, lastRequestedBlock, asking, faults>>
      /\ handler' = [handler EXCEPT ![p] = [pc |-> "put", h |-> height, b |-> b]]
      /\ inbox' = [inbox EXCEPT ![p] = t]
      /\ inbox[p] # <<>>
  BY DEF ReceiveBlock
<1>2. /\ inbox \in [Peer -> Seq(Index \ {Nil})] /\ \A q \in Peer : Len(inbox[q]) <= MaxInFlight
      /\ inbox[p] \in Seq(Index \ {Nil})
  BY <1>0 DEF TypeOK
<1>3. b \in Index \ {Nil} /\ t \in Seq(Index \ {Nil}) /\ Len(t) = Len(inbox[p]) - 1
  BY <1>1, <1>2, HeadTailProperties
<1>4. Len(inbox[p]) \in Nat /\ \A q \in Peer : Len(inbox[q]) \in Nat
  BY <1>2, LenProperties
<1>. HIDE DEF b, t
<1>5. /\ inbox' \in [Peer -> Seq(Index \ {Nil})]
      /\ inbox'[p] = t /\ \A q \in Peer : q # p => inbox'[q] = inbox[q]
  BY <1>1, <1>2, <1>3
<1>6. \A q \in Peer : Len(inbox'[q]) <= Len(inbox[q]) /\ Len(inbox'[q]) \in Nat
  <2>1. Len(t) <= Len(inbox[p]) /\ Len(t) \in Nat
    BY <1>3, <1>4, LenProperties
  <2>. QED BY <1>4, <1>5, <2>1
<1>7. \A q \in Peer : Len(inbox'[q]) <= MaxInFlight
  BY <1>2, <1>4, <1>6, SizesAssumption
<1>8. handler \in [Peer -> Handlers] /\ [pc |-> "put", h |-> height, b |-> b] \in Handlers
  BY <1>0, <1>3, Types
<1>9. /\ handler' \in [Peer -> Handlers]
      /\ handler'[p].h = height /\ handler'[p].b # Nil
      /\ \A q \in Peer : q # p => handler'[q] = handler[q]
  BY <1>1, <1>3, <1>8, Zenon
<1>10. TypeOK'
  BY <1>0, <1>1, <1>5, <1>7, <1>9 DEF TypeOK
<1>11. PeersFit'
  <2>1. height \in Nat
    BY <1>0, Numbers
  <2>2. \A q \in Peer : handler'[q].h <= height /\ (handler'[q].pc = "put" => handler'[q].b # Nil)
    BY <1>0, <1>9, <2>1 DEF PeersFit
  <2>3. \A q \in Peer : asking[q] # -1 => asking[q] < PeerHeight /\ Len(inbox'[q]) + MaxHashesCount <= MaxInFlight
    BY <1>0, <1>4, <1>6, SizesAssumption DEF PeersFit
  <2>. QED BY <1>1, <2>2, <2>3 DEF PeersFit
<1>. QED BY <1>1, <1>10, <1>11, PeerStepInv

\* The send to the channel, which panics when the channel is closed.
LEMMA SignalInv ==
    ASSUME SyncInv, NEW p \in Peer, Signal(p)
    PROVE  SyncInv'
<1>0. TypeOK /\ PeersFit
  BY DEF SyncInv, SkippedIsQueued
<1>. DEFINE Handlers == [pc : {"idle", "put", "signal", "panic"}, h : Index, b : Index]
            pc == IF checkBlocks = -1 THEN "panic" ELSE "idle"
<1>1. /\ UNCHANGED <<height, queue, lastQ, runner, lastRequestedBlock, inbox, asking, faults>>
      /\ handler' = [handler EXCEPT ![p].pc = pc]
      /\ checkBlocks' = IF checkBlocks = -1 THEN -1 ELSE 1
  BY DEF Signal
<1>2. checkBlocks' \in {-1, 0, 1} /\ (checkBlocks' # -1 => checkBlocks # -1)
  BY <1>1
<1>3. handler \in [Peer -> Handlers] /\ pc \in {"idle", "panic"}
  BY <1>0, Types
<1>. HIDE DEF pc
<1>4. /\ handler' \in [Peer -> Handlers]
      /\ handler'[p].h = handler[p].h /\ handler'[p].pc # "put"
      /\ \A q \in Peer : q # p => handler'[q] = handler[q]
  BY <1>1, <1>3
<1>5. TypeOK'
  BY <1>0, <1>1, <1>2, <1>4 DEF TypeOK
<1>6. PeersFit'
  BY <1>0, <1>1, <1>4 DEF PeersFit
<1>. QED BY <1>1, <1>2, <1>5, <1>6, PeerStepInv

\* Shutdown: the ring is emptied and the channel says so.
LEMMA DiscardInv ==
    ASSUME SyncInv, discard
    PROVE  SyncInv'
<1>0. TypeOK /\ RunnerFits /\ PeersFit
  BY DEF SyncInv, SkippedIsQueued
<1>1. /\ UNCHANGED <<height, lastQ, runner, lastRequestedBlock, inbox, handler, asking, faults>>
      /\ checkBlocks' = -1 /\ queue' = [s \in Slot |-> Nil]
  BY DEF discard
<1>2. Nil \in Index
  BY SizesAssumption DEF Nil, Index
<1>3. TypeOK'
  BY <1>0, <1>1, <1>2 DEF TypeOK
<1>. QED BY <1>0, <1>1, <1>3 DEF SyncInv, SkippedIsQueued, RingFits, RunnerFits, PeersFit

\* A tick reads a height below that of the peer, when an answer has room.
LEMMA TickInv ==
    ASSUME SyncInv, NEW p \in Peer, Tick(p)
    PROVE  SyncInv'
<1>0. TypeOK /\ PeersFit
  BY DEF SyncInv, SkippedIsQueued
<1>1. /\ UNCHANGED <<height, queue, lastQ, checkBlocks, runner, lastRequestedBlock, inbox, handler, faults>>
      /\ asking' = [asking EXCEPT ![p] = height]
      /\ height < PeerHeight /\ Len(inbox[p]) + MaxHashesCount <= MaxInFlight
  BY DEF Tick
<1>2. asking \in [Peer -> -1 .. PeerHeight] /\ height \in -1 .. PeerHeight
  <2>1. height \in -1 .. PeerHeight
    BY <1>0, Numbers
  <2>. QED BY <1>0, <2>1 DEF TypeOK
<1>3. asking' \in [Peer -> -1 .. PeerHeight] /\ asking'[p] = height /\ \A q \in Peer : q # p => asking'[q] = asking[q]
  BY <1>1, <1>2
<1>4. TypeOK'
  BY <1>0, <1>1, <1>3, Zenon DEF TypeOK
<1>5. PeersFit'
  BY <1>0, <1>1, <1>3, Zenon DEF PeersFit
<1>. QED BY <1>1, <1>4, <1>5, PeerStepInv

\* The part of putBlock under the lock.  A block is accepted at most one round
\* above a height the chain has reached, so what it replaces the chain has.
LEMMA PutBlockInv ==
    ASSUME SyncInv, NEW p \in Peer, PutBlock(p)
    PROVE  SyncInv'
<1>0. TypeOK /\ RingFits /\ RunnerFits /\ PeersFit /\ SkippedIsQueued
  BY DEF SyncInv, SkippedIsQueued
<1>. DEFINE b == handler[p].b
            h == handler[p].h
            s == indexToPosition(b)
            new == queue[s] < b
            q == IF new THEN [queue EXCEPT ![s] = b] ELSE queue
            Handlers == [pc : {"idle", "put", "signal", "panic"}, h : Index, b : Index]
<1>1. /\ UNCHANGED <<height, checkBlocks, runner, lastRequestedBlock, inbox, asking, faults>>
      /\ \E pc \in {"idle", "signal"} : handler' = [handler EXCEPT ![p] = [pc |-> pc, h |-> 0, b |-> Nil]]
      /\ \/ UNCHANGED <<queue, lastQ>>
         \/ /\ new /\ ~(h + blockCacheSize < b)
            /\ queue' = q /\ lastQ' = lastQueuedAfter(q, b)
  BY DEF PutBlock
<1>2. b \in Index /\ b \in Nat /\ h \in Nat /\ s \in Slot /\ b # Nil /\ h <= height
  <2>1. handler[p] \in Handlers /\ handler[p].pc = "put"
    BY <1>0, Types DEF PutBlock
  <2>2. b \in Index /\ h \in Index
    BY <2>1
  <2>3. b # Nil /\ h <= height
    BY <1>0, <2>1 DEF PeersFit
  <2>. QED BY <1>0, <2>2, <2>3, Types, Zenon
<1>3. /\ handler' \in [Peer -> Handlers]
      /\ handler'[p].h = 0 /\ handler'[p].pc # "put"
      /\ \A r \in Peer : r # p => handler'[r] = handler[r]
  <2>1. PICK pc \in {"idle", "signal"} : handler' = [handler EXCEPT ![p] = [pc |-> pc, h |-> 0, b |-> Nil]]
    BY <1>1, ZenonT(40)
  <2>2. [pc |-> pc, h |-> 0, b |-> Nil] \in Handlers
    BY <2>1, SizesAssumption DEF Nil, Index
  <2>3. handler \in [Peer -> Handlers]
    BY <1>0, Types
  <2>. QED BY <2>1, <2>2, <2>3
<1>4. PeersFit'
  <2>1. height \in Nat /\ UNCHANGED <<height, inbox, asking>>
    BY <1>0, <1>1, Numbers
  <2>. QED BY <1>0, <1>3, <2>1 DEF PeersFit
<1>5. CASE UNCHANGED <<queue, lastQ>>
  <2>1. TypeOK'
    BY <1>0, <1>1, <1>3, <1>5, Zenon DEF TypeOK
  <2>. QED BY <1>1, <1>4, <1>5, <2>1, PeerStepInv
<1>6. CASE new /\ ~(h + blockCacheSize < b) /\ queue' = q /\ lastQ' = lastQueuedAfter(q, b)
  <2>. HIDE DEF b, h
  <2>1. /\ q \in [Slot -> Index] /\ q[s] = b
        /\ \A t \in Slot : t # s => q[t] = queue[t]
    BY <1>0, <1>2, <1>6, Types
  <2>. HIDE DEF q
  <2>2. lastQ' \in Index /\ \A i \in lastQ + 1 .. lastQ' : q[indexToPosition(i)] = i
    <3>1. lastQ \in Index
      BY <1>0, Types
    <3>. QED BY <1>2, <1>6, <2>1, <3>1, LastQueuedAfter
  <2>3. TypeOK'
    BY <1>0, <1>1, <1>3, <1>6, <2>1, <2>2 DEF TypeOK
  <2>4. ASSUME NEW i \in height + 1 .. lastQ, queue[indexToPosition(i)] = i
        PROVE  q[indexToPosition(i)] = i
    <3>1. i \in Nat /\ i > height
      BY <1>0, Numbers
    <3>2. ~(indexToPosition(i) = s)
      <4>. SUFFICES ASSUME indexToPosition(i) = s PROVE FALSE
        OBVIOUS
      <4>1. i < b
        BY <1>6, <2>4
      <4>2. i + blockCacheSize <= b
        BY <1>2, <3>1, <4>1, OneRoundApart
      <4>3. height \in Nat /\ blockCacheSize \in Nat
        BY <1>0, Numbers
      <4>. QED BY <1>2, <1>6, <3>1, <4>2, <4>3
    <3>. QED BY <2>1, <2>4, <3>1, <3>2, Rounds
  <2>5. checkBlocks # -1 => \A i \in height + 1 .. lastQ' : q[indexToPosition(i)] = i \/ runner.b = i
    <3>. SUFFICES ASSUME checkBlocks # -1, NEW i \in height + 1 .. lastQ'
                  PROVE  q[indexToPosition(i)] = i \/ runner.b = i
      OBVIOUS
    <3>1. i \in height + 1 .. lastQ \/ i \in lastQ + 1 .. lastQ'
      <4>1. height \in Nat /\ lastQ \in 0 .. PeerHeight /\ lastQ' \in 0 .. PeerHeight /\ PeerHeight \in Nat
        BY <1>0, <2>2, Numbers
      <4>. QED BY <4>1
    <3>2. CASE i \in height + 1 .. lastQ
      BY <1>0, <2>4, <3>2 DEF SkippedIsQueued
    <3>. QED BY <2>2, <3>1, <3>2
  <2>6. RingFits'
    <3>1. b <= height + blockCacheSize
      <4>1. height \in Nat /\ blockCacheSize \in Nat
        BY <1>0, Numbers
      <4>. QED BY <1>2, <1>6, <4>1
    <3>2. \A t \in Slot : q[t] # Nil => indexToPosition(q[t]) = t /\ q[t] <= height + blockCacheSize
      BY <1>0, <2>1, <3>1 DEF RingFits
    <3>. QED BY <1>1, <1>6, <3>2 DEF RingFits
  <2>. QED BY <1>0, <1>1, <1>4, <1>6, <2>3, <2>5, <2>6, Zenon DEF SyncInv, SkippedIsQueued, RunnerFits
<1>. QED BY <1>1, <1>5, <1>6

\* What getRequestBlocksPayload asks for and remembers: a block the chain lacks,
\* and an index the peer has.
LEMMA Payload ==
    ASSUME NEW h \in Nat, h < PeerHeight, lastRequestedBlock \in Index, NEW i \in Random
    PROVE  /\ getRequestBlocksPayload(h, i).need \in Nat \ {0}
           /\ getRequestBlocksPayload(h, i).last \in Index
<1>1. PeerHeight \in Nat /\ MaxHashesCount \in Nat \ {0} /\ blockCacheSize \in Nat /\ Index = 0 .. PeerHeight
  BY SizesAssumption DEF Index
<1>2. i \in Nat
  BY <1>1 DEF Random
<1>. DEFINE k == i * MaxHashesCount
<1>3. k \in Nat
  BY <1>1, <1>2
<1>. HIDE DEF k
<1>4. h + 1 \in Nat \ {0} /\ h + 1 \in Index /\ h + 1 + k \in Nat \ {0}
  BY <1>1, <1>3
<1>5. lastRequestedBlock + MaxHashesCount \in Nat \ {0}
  BY <1>1
<1>6. PeerHeight > lastRequestedBlock + MaxHashesCount => lastRequestedBlock + MaxHashesCount \in Index
  BY <1>1
<1>. QED BY <1>4, <1>5, <1>6 DEF getRequestBlocksPayload, k

\* The answer of a peer: no more than MaxHashesCount blocks, none of them the
\* genesis block or one the peer lacks.
LEMMA Answer ==
    ASSUME NEW start \in Nat \ {0}, NEW count \in Int, NEW r, r = [start |-> start, count |-> count], decodes(r)
    PROVE  answer(r) \in Seq(Index \ {Nil}) /\ Len(answer(r)) <= MaxHashesCount
<1>. DEFINE c == IF count < 0 \/ count > MaxHashesCount THEN MaxHashesCount ELSE count
            n == IF start > PeerHeight THEN 0
                 ELSE IF start + c - 1 > PeerHeight THEN PeerHeight - start + 1 ELSE c
            a == [k \in 1 .. n |-> start + k - 1]
<1>1. PeerHeight \in Nat /\ MaxHashesCount \in Nat \ {0} /\ Index \ {Nil} = 1 .. PeerHeight
  BY SizesAssumption DEF Index, Nil
<1>2. answer(r) = a
  BY DEF answer
<1>3. c \in 1 .. MaxHashesCount
  BY <1>1 DEF decodes
<1>. HIDE DEF c
<1>4. n \in Nat /\ n <= MaxHashesCount /\ \A k \in 1 .. n : start + k - 1 \in 1 .. PeerHeight
  BY <1>1, <1>3
<1>. HIDE DEF n
<1>5. a \in [1 .. n -> Index \ {Nil}]
  BY <1>1, <1>4
<1>. HIDE DEF a
<1>6. a \in Seq(Index \ {Nil}) /\ Len(a) = n
  BY <1>4, <1>5, SeqDef, LenProperties
<1>. QED BY <1>2, <1>4, <1>6

\* A request is sent with the height that the tick has read, and answered.
LEMMA RequestBlocksInv ==
    ASSUME SyncInv, NEW p \in Peer, NEW i \in Random, NEW lost \in BOOLEAN, RequestBlocks(p, i, lost)
    PROVE  SyncInv'
<1>0. TypeOK /\ PeersFit
  BY DEF SyncInv, SkippedIsQueued
<1>. DEFINE h == asking[p]
            pl == getRequestBlocksPayload(h, i)
            r == request(h, pl.need)
            Blocks == Seq(Index \ {Nil})
            new == IF lost \/ ~decodes(r) THEN <<>> ELSE inbox[p] \o answer(r)
<1>1. /\ UNCHANGED <<height, queue, lastQ, checkBlocks, runner, handler>>
      /\ h # -1 /\ (lost => MayHappen("lost"))
      /\ lastRequestedBlock' = pl.last
      /\ inbox' = [inbox EXCEPT ![p] = new]
      /\ faults' = IF lost THEN faults + 1 ELSE faults
      /\ asking' = [asking EXCEPT ![p] = -1]
  BY DEF RequestBlocks
<1>2. faults' \in 0 .. MaxFaults
  <2>1. faults \in 0 .. MaxFaults
    BY <1>0, Zenon DEF TypeOK
  <2>. QED BY <1>1, <2>1, SizesAssumption DEF MayHappen
<1>3. h \in Nat /\ h < PeerHeight /\ Len(inbox[p]) + MaxHashesCount <= MaxInFlight
  <2>1. asking \in [Peer -> -1 .. PeerHeight] /\ PeerHeight \in Nat
    BY <1>0, SizesAssumption DEF TypeOK
  <2>2. h \in -1 .. PeerHeight
    BY <2>1
  <2>. QED BY <1>0, <1>1, <2>1, <2>2 DEF PeersFit
<1>4. pl.need \in Nat \ {0} /\ pl.last \in Index
  <2>1. lastRequestedBlock \in Index
    BY <1>0 DEF TypeOK
  <2>. HIDE DEF h
  <2>. QED BY <1>3, <2>1, Payload
<1>5. \E start \in Nat \ {0}, count \in Int : r = [start |-> start, count |-> count]
  <2>. DEFINE c == h + blockCacheSize - lastQ
              d == IF c < MaxHashesCount THEN c ELSE -1
  <2>1. lastQ \in Nat /\ blockCacheSize \in Nat
    BY <1>0, Numbers
  <2>2. lastQ + 1 \in Nat \ {0} /\ d \in Int /\ -1 \in Int
    BY <1>3, <2>1
  <2>. HIDE DEF h, pl
  <2>3. r = IF lastQ > pl.need THEN [start |-> lastQ + 1, count |-> d] ELSE [start |-> pl.need, count |-> -1]
    BY DEF request
  <2>. HIDE DEF d
  <2>. QED BY <1>4, <2>2, <2>3, Zenon
<1>. HIDE DEF h, pl, r
<1>6. inbox \in [Peer -> Blocks] /\ inbox[p] \in Blocks /\ \A q \in Peer : Len(inbox[q]) <= MaxInFlight
  BY <1>0 DEF TypeOK
<1>7. new \in Blocks /\ Len(new) <= MaxInFlight
  <2>1. CASE lost \/ ~decodes(r)
    <3>1. new = <<>> /\ <<>> \in Blocks /\ Len(<<>>) = 0
      BY <2>1, EmptySeq
    <3>2. 0 <= MaxInFlight
      BY SizesAssumption
    <3>. HIDE DEF new
    <3>. QED BY <3>1, <3>2
  <2>2. CASE ~(lost \/ ~decodes(r))
    <3>1. answer(r) \in Blocks /\ Len(answer(r)) <= MaxHashesCount
      BY <1>5, <2>2, Answer
    <3>2. new = inbox[p] \o answer(r)
      BY <2>2
    <3>3. new \in Blocks /\ Len(new) = Len(inbox[p]) + Len(answer(r))
      BY <1>6, <3>1, <3>2, ConcatProperties
    <3>4. Len(inbox[p]) \in Nat /\ Len(answer(r)) \in Nat
      BY <1>6, <3>1, LenProperties
    <3>5. Len(inbox[p]) + Len(answer(r)) <= MaxInFlight
      <4>. DEFINE x == Len(inbox[p])
                  y == Len(answer(r))
      <4>1. x \in Nat /\ y \in Nat /\ y <= MaxHashesCount /\ x + MaxHashesCount <= MaxInFlight
        BY <1>3, <3>1, <3>4
      <4>2. MaxHashesCount \in Nat /\ MaxInFlight \in Nat
        BY SizesAssumption
      <4>. HIDE DEF x, y
      <4>3. x + y <= MaxInFlight
        BY <4>1, <4>2
      <4>. QED BY <4>3 DEF x, y
    <3>. HIDE DEF new
    <3>. QED BY <3>3, <3>5
  <2>. QED BY <2>1, <2>2
<1>. HIDE DEF new
<1>8. /\ inbox' \in [Peer -> Blocks] /\ \A q \in Peer : Len(inbox'[q]) <= MaxInFlight
      /\ \A q \in Peer : q # p => inbox'[q] = inbox[q]
  BY <1>1, <1>6, <1>7
<1>9. /\ asking' \in [Peer -> -1 .. PeerHeight]
      /\ asking'[p] = -1 /\ \A q \in Peer : q # p => asking'[q] = asking[q]
  <2>1. asking \in [Peer -> -1 .. PeerHeight]
    BY <1>0 DEF TypeOK
  <2>2. -1 \in -1 .. PeerHeight
    BY SizesAssumption
  <2>. QED BY <1>1, <2>1, <2>2
<1>10. TypeOK'
  BY <1>0, <1>1, <1>2, <1>4, <1>8, <1>9, Zenon DEF TypeOK
<1>11. PeersFit'
  BY <1>0, <1>1, <1>8, <1>9 DEF PeersFit
<1>. QED BY <1>1, <1>10, <1>11, PeerStepInv

----------------------------------------------------------------------------
(* The theorem *)

\* A queue that was just made fits.
LEMMA InitInv == Init => SyncInv
<1>. SUFFICES ASSUME Init PROVE SyncInv
  OBVIOUS
<1>1. /\ PeerHeight \in Nat /\ MaxFaults \in Nat /\ MaxInFlight \in Nat
      /\ Nil = 0 /\ 0 \in Index /\ 0 \in 0 .. MaxFaults /\ -1 \in -1 .. PeerHeight
  BY SizesAssumption DEF Nil, Index
<1>2. \A p \in Peer : inbox[p] = <<>> /\ <<>> \in Seq(Index \ {Nil}) /\ Len(<<>>) = 0
  BY EmptySeq DEF Init
<1>3. inbox \in [Peer -> Seq(Index \ {Nil})] /\ \A p \in Peer : Len(inbox[p]) <= MaxInFlight
  BY <1>1, <1>2 DEF Init
<1>4. TypeOK
  BY <1>1, <1>3 DEF Init, TypeOK
<1>5. \A i \in height + 1 .. lastQ : FALSE
  BY DEF Init
<1>6. RingFits /\ RunnerFits
  BY DEF Init, RingFits, RunnerFits
<1>7. PeersFit
  BY DEF Init, PeersFit
<1>. QED BY <1>4, <1>5, <1>6, <1>7 DEF SyncInv, SkippedIsQueued

\* Every step keeps the invariant, when AddBlock fails for no passing reason.
LEMMA NextInv ==
    ASSUME SyncInv, "failed" \notin Fault, [Next]_vars
    PROVE  SyncInv'
<1>1. CASE UNCHANGED vars
  BY <1>1 DEF vars, SyncInv, SkippedIsQueued, TypeOK, RingFits, RunnerFits, PeersFit
<1>2. CASE RunEnds \/ RunWakes \/ RunLooks
  BY <1>2, RunInv
<1>3. CASE RunAdds
  BY <1>3, RunAddsInv
<1>4. CASE ConsensusAdds
  BY <1>4, ConsensusAddsInv
<1>5. CASE discard
  BY <1>5, DiscardInv
<1>6. CASE \E p \in Peer : ReceiveBlock(p) \/ PutBlock(p) \/ Signal(p) \/ Tick(p)
  BY <1>6, ReceiveBlockInv, PutBlockInv, SignalInv, TickInv
<1>7. CASE \E p \in Peer, i \in Random, lost \in BOOLEAN : RequestBlocks(p, i, lost)
  BY <1>7, RequestBlocksInv
<1>. QED BY <1>1, <1>2, <1>3, <1>4, <1>5, <1>6, <1>7, ZenonT(40) DEF Next

\* blockqueue.go: for any number of peers and any size of the ring, every block
\* up to lastQ that the chain lacks is in the ring or in the hands of bq.run, so
\* requestBlocks may start behind lastQ.  The hypothesis is what the code relies
\* on: run empties the slot of a block also when AddBlock has failed, so after a
\* failure for a passing reason lastQ counts a block that is gone.
THEOREM SkippedAreQueued == "failed" \notin Fault => (Spec => []SkippedIsQueued)
<1>. SUFFICES ASSUME "failed" \notin Fault PROVE Spec => []SkippedIsQueued
  OBVIOUS
<1>1. Init => SyncInv
  BY InitInv
<1>2. SyncInv /\ [Next]_vars => SyncInv'
  BY NextInv
<1>3. SyncInv => SkippedIsQueued
  BY DEF SyncInv
<1>. QED BY <1>1, <1>2, <1>3, PTL DEF Spec

=============================================================================
