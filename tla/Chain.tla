------------------------------- MODULE Chain --------------------------------
(***************************************************************************)
(* The ledger of a node (Blockchain): headers and blocks are added, the    *)
(* Run loop persists the database, the process crashes or is closed, and   *)
(* init restores the chain from the database.                              *)
(*                                                                         *)
(* The database is the store KVStore specifies.  Its contents are a record *)
(* of the keys init and the two writers touch.  A header or block is its   *)
(* height: all verified ones of a height are the same.  The trie of the    *)
(* state, and its root, is the set of heights whose changes it holds.      *)
(***************************************************************************)
EXTENDS Naturals, FiniteSets

CONSTANTS
    MaxHeight,
    HeaderBatch,         \* headerBatchCount
    MaxTraceableBlocks,
    MaxCrashes,          \* bound on crashes and clean restarts
    Nil

Height == 0 .. MaxHeight

Contents ==
    [version : BOOLEAN, header : Height, hashes : 0 .. MaxHeight + 1, current : Height,
     block : [Height -> {"none", "header", "full"}], tx : SUBSET Height,
     state : SUBSET Height, root : [Height -> (SUBSET Height) \cup {Nil}]]

Caller == {"AddBlock", "AddHeaders"}

ASSUME SizesAssumption ==
    /\ MaxHeight \in Nat /\ HeaderBatch \in Nat \ {0}
    /\ MaxTraceableBlocks \in Nat /\ MaxCrashes \in Nat

ASSUME NilAssumption == Nil \notin Contents /\ Nil \notin Caller /\ \A s \in SUBSET Height : s # Nil

VARIABLES
    kv, disk, pending,   \* of KVStore
    node,                \* "down", "up", or why init failed
    headers,             \* Len(headerHashes)
    storedHeaderCount,
    blockHeight, persistedHeight,
    mpt,                 \* the trie of the state root module
    lock,                \* holder of headerHashesLock
    call,                \* AddBlock under addLock, and AddHeaders
    crashes

vars == <<kv, disk, pending, node, headers, storedHeaderCount, blockHeight,
          persistedHeight, mpt, lock, call, crashes>>

Store == INSTANCE KVStore WITH Key <- {}, Value <- {}, None <- Nil, tick <- FALSE

memory == <<headers, storedHeaderCount, blockHeight, persistedHeight, mpt>>

\* block: per height what the block key holds; tx: transactions stored;
\* state and root: whose changes the storage holds, and the local state roots.
NoContents == [version |-> FALSE, header |-> 0, hashes |-> 0, current |-> 0,
               block |-> [h \in Height |-> "none"], tx |-> {}, state |-> {},
               root |-> [h \in Height |-> Nil]]

\* init on an empty database: the genesis block is stored before Run starts.
Genesis == [NoContents EXCEPT !.version = TRUE, !.block[0] = "full", !.tx = {0},
                              !.state = {0}, !.root[0] = {0}]

\* first .. last: the headers handed to addHeaders.
NoCall == [pc |-> "idle", first |-> 0, last |-> 0, good |-> TRUE]

Init ==
    /\ kv = NoContents /\ disk = NoContents /\ pending = Nil
    /\ node = "down"
    /\ headers = 0 /\ storedHeaderCount = 0
    /\ blockHeight = 0 /\ persistedHeight = 0 /\ mpt = {}
    /\ lock = Nil
    /\ call = [c \in Caller |-> NoCall]
    /\ crashes = 0

-----------------------------------------------------------------------------
(* init *)

StartGenesis ==
    /\ node = "down" /\ ~disk.version
    /\ kv' = Genesis
    /\ node' = "up"
    /\ headers' = 1 /\ storedHeaderCount' = 0
    /\ blockHeight' = 0 /\ persistedHeight' = 0 /\ mpt' = {0}
    /\ UNCHANGED <<disk, pending, lock, call, crashes>>

\* Where init begins to walk back from the current header.
FirstUnstored == IF disk.hashes = 0 THEN 1 ELSE disk.hashes

HeadersFound == \A h \in FirstUnstored .. disk.header : disk.block[h] # "none"

\* stateRoot.Init takes an empty trie at height 0.
StateRootInit(height) == IF height = 0 THEN {} ELSE disk.root[height]

\* Variant of Restore: a missing state root is not an error.
Restore_bug ==
    /\ node = "down" /\ disk.version
    /\ kv' = disk
    /\ storedHeaderCount' = disk.hashes
    /\ headers' = disk.header + 1
    /\ blockHeight' = disk.current /\ persistedHeight' = disk.current
    /\ mpt' = {}
    /\ node' = "up"
    /\ UNCHANGED <<disk, pending, lock, call, crashes>>

Restore ==
    /\ node = "down" /\ disk.version
    /\ kv' = disk
    /\ storedHeaderCount' = disk.hashes
    /\ headers' = IF disk.header >= disk.hashes THEN disk.header + 1 ELSE disk.hashes
    /\ blockHeight' = disk.current /\ persistedHeight' = disk.current
    /\ mpt' = StateRootInit(disk.current)
    /\ node' = IF disk.header >= disk.hashes /\ ~HeadersFound THEN "no header"
               ELSE IF mpt' = Nil THEN "no state root" ELSE "up"
    /\ UNCHANGED <<disk, pending, lock, call, crashes>>

-----------------------------------------------------------------------------
(* addHeaders, for AddBlock and AddHeaders *)

Goto(c, pc) == call' = [call EXCEPT ![c].pc = pc]

Call(c, pc, first, last, good) ==
    call' = [call EXCEPT ![c] = [pc |-> pc, first |-> first, last |-> last, good |-> good]]

Return(c) == call' = [call EXCEPT ![c] = NoCall]

\* Where the caller goes on after addHeaders.
AfterHeaders(c) == IF c = "AddBlock" THEN Goto(c, "verify") ELSE Return(c)

AddHeaders(first, last) ==
    /\ node = "up" /\ call["AddHeaders"].pc = "idle"
    /\ Call("AddHeaders", "check", first, last, TRUE)
    /\ UNCHANGED <<kv, disk, pending, node, memory, lock, crashes>>

\* Headers up to the header height are skipped, but never all of them; the
\* rest must follow a header that is known.
CheckHeaders(c) ==
    LET first == IF call[c].first >= headers THEN call[c].first
                 ELSE IF call[c].last >= headers THEN headers ELSE call[c].last
    IN /\ node = "up" /\ call[c].pc = "check" /\ lock = Nil
       /\ IF kv.block[first - 1] # "none"
          THEN Call(c, "store", first, call[c].last, call[c].good)
          ELSE Return(c)
       /\ UNCHANGED <<kv, disk, pending, node, memory, lock, crashes>>

\* Variant of StoreHeaders: the index of a header is not compared again once
\* the lock is taken.
StoreHeaders_bug(c) ==
    /\ node = "up" /\ call[c].pc = "store" /\ lock = Nil
    /\ lock' = c /\ Goto(c, "current")
    /\ headers' = call[c].last + 1
    /\ kv' = [kv EXCEPT !.block = [h \in Height |->
                 IF h \in call[c].first .. call[c].last THEN "header" ELSE @[h]]]
    /\ UNCHANGED <<disk, pending, node, storedHeaderCount, blockHeight,
                   persistedHeight, mpt, crashes>>

\* headerHashesLock is taken; each header that is next by then is stored.
StoreHeaders(c) ==
    LET new == {h \in call[c].first .. call[c].last : h >= headers}
    IN /\ node = "up" /\ call[c].pc = "store" /\ lock = Nil
       /\ IF headers \in new
          THEN /\ lock' = c /\ Goto(c, "current")
               /\ headers' = call[c].last + 1
               /\ kv' = [kv EXCEPT !.block = [h \in Height |->
                            IF h \in new THEN "header" ELSE @[h]]]
          ELSE AfterHeaders(c) /\ UNCHANGED <<lock, headers, kv>>
       /\ UNCHANGED <<disk, pending, node, storedHeaderCount, blockHeight,
                      persistedHeight, mpt, crashes>>

\* How many header hashes are stored, in batches, with header last.
StoredWith(last) ==
    IF last < storedHeaderCount + HeaderBatch THEN storedHeaderCount
    ELSE storedHeaderCount
         + HeaderBatch * ((last - storedHeaderCount) \div HeaderBatch)

\* batch.Persist: the hashes and the current header, in one change set.
StoreCurrentHeader(c) ==
    /\ node = "up" /\ call[c].pc = "current"
    /\ storedHeaderCount' = StoredWith(headers - 1)
    /\ kv' = [kv EXCEPT !.header = headers - 1, !.hashes = storedHeaderCount']
    /\ lock' = Nil
    /\ AfterHeaders(c)
    /\ UNCHANGED <<disk, pending, node, headers, blockHeight, persistedHeight, mpt, crashes>>

-----------------------------------------------------------------------------
(* AddBlock *)

\* Variant of AddBlock: a block whose header is known is not taken.
AddBlock_bug(h, good) ==
    /\ node = "up" /\ call["AddBlock"].pc = "idle" /\ lock = Nil
    /\ h = blockHeight + 1 /\ h = headers
    /\ Call("AddBlock", "check", h, h, good)
    /\ UNCHANGED <<kv, disk, pending, node, memory, lock, crashes>>

\* addLock is taken, and headerHashesLock for the height of the headers.
\* good: the transactions match the header and verify.
AddBlock(h, good) ==
    /\ node = "up" /\ call["AddBlock"].pc = "idle" /\ lock = Nil
    /\ h = blockHeight + 1
    /\ Call("AddBlock", IF h = headers THEN "check" ELSE "verify", h, h, good)
    /\ UNCHANGED <<kv, disk, pending, node, memory, lock, crashes>>

VerifyBlock ==
    /\ node = "up" /\ call["AddBlock"].pc = "verify"
    /\ IF call["AddBlock"].good THEN Goto("AddBlock", "execute") ELSE Return("AddBlock")
    /\ UNCHANGED <<kv, disk, pending, node, memory, lock, crashes>>

\* storeBlock up to the two change sets; an error ends it with no trace.  (One
\* of AddMPTBatch would leave the trie half applied, "a bug somewhere in code".)
ExecuteBlock ==
    /\ node = "up" /\ call["AddBlock"].pc = "execute"
    /\ Goto("AddBlock", "blocks") \/ Return("AddBlock")
    /\ UNCHANGED <<kv, disk, pending, node, memory, lock, crashes>>

\* The hash of the transactions of a block; that of the block is its height.
TxHash(h) == MaxHeight + 1 + h

\* DeleteBlock writes the hash of a transaction over that of the block in the
\* block key and deletes that key.
DeleteBlock(contents, h) ==
    [contents EXCEPT !.block = [k \in Height |-> IF k = TxHash(h) THEN "none" ELSE @[k]]]

\* aerCache.Persist: the block, its receipts and the current block.
StoreBlockData ==
    LET h == call["AddBlock"].last
        new == [kv EXCEPT !.current = h, !.block[h] = "full", !.tx = @ \cup {h}]
    IN /\ node = "up" /\ call["AddBlock"].pc = "blocks"
       /\ kv' = IF h > MaxTraceableBlocks THEN DeleteBlock(new, h - MaxTraceableBlocks)
                                          ELSE new
       /\ Goto("AddBlock", "state")
       /\ UNCHANGED <<disk, pending, node, memory, lock, crashes>>

\* cache.Persist: the storage changes, the trie and its root; then the fields
\* of Blockchain.
StoreBlockState ==
    LET h == call["AddBlock"].last
    IN /\ node = "up" /\ call["AddBlock"].pc = "state"
       /\ mpt' = mpt \cup {h}
       /\ kv' = [kv EXCEPT !.state = @ \cup {h}, !.root[h] = mpt']
       /\ blockHeight' = h
       /\ Return("AddBlock")
       /\ UNCHANGED <<disk, pending, node, headers, storedHeaderCount, persistedHeight,
                      lock, crashes>>

-----------------------------------------------------------------------------
(* Run and Close *)

PersistBegin ==
    /\ node = "up" /\ kv # disk
    /\ Store!Begin
    /\ UNCHANGED <<node, memory, lock, call, crashes>>

\* persist reads persistedHeight back from the database.
PersistWrite ==
    /\ node = "up" /\ Store!Commit
    /\ persistedHeight' = disk'.current
    /\ UNCHANGED <<node, headers, storedHeaderCount, blockHeight, mpt, lock, call, crashes>>

PersistFail ==
    /\ node = "up" /\ Store!Abort
    /\ UNCHANGED <<node, memory, lock, call, crashes>>

\* What a stop of the process leaves.
Stopped ==
    /\ node' = "down" /\ lock' = Nil
    /\ call' = [c \in Caller |-> NoCall]
    /\ pending' = Nil
    /\ headers' = 0 /\ storedHeaderCount' = 0
    /\ blockHeight' = 0 /\ persistedHeight' = 0 /\ mpt' = {}
    /\ crashes' = crashes + 1

\* Close waits for AddBlock; Run ends with a last PersistSync, which may fail.
Close ==
    /\ node = "up" /\ crashes < MaxCrashes
    /\ call["AddBlock"].pc = "idle" /\ pending = Nil
    /\ Stopped
    /\ disk' \in {kv, disk} /\ kv' = disk'

Crash ==
    /\ node # "down" /\ crashes < MaxCrashes
    /\ Stopped
    /\ kv' = disk /\ UNCHANGED disk

AddGood == \E h \in Height : AddBlock(h, TRUE)

AddBlockSteps ==
    \/ CheckHeaders("AddBlock") \/ StoreHeaders("AddBlock") \/ StoreCurrentHeader("AddBlock")
    \/ VerifyBlock \/ StoreBlockData \/ StoreBlockState

AddHeadersSteps ==
    CheckHeaders("AddHeaders") \/ StoreHeaders("AddHeaders") \/ StoreCurrentHeader("AddHeaders")

Next ==
    \/ StartGenesis
    \/ Restore
    \/ \E first, last \in Height \ {0} : first <= last /\ AddHeaders(first, last)
    \/ AddHeadersSteps
    \/ \E h \in Height, good \in BOOLEAN : AddBlock(h, good)
    \/ AddBlockSteps
    \/ ExecuteBlock
    \/ PersistBegin
    \/ PersistWrite
    \/ PersistFail
    \/ Close
    \/ Crash

\* Peers send each block again until it is stored, no step blocks for ever,
\* and neither the execution of a block nor the database fails for ever.
Fairness ==
    /\ WF_vars(StartGenesis \/ Restore)
    /\ WF_vars(AddHeadersSteps) /\ WF_vars(AddBlockSteps)
    /\ SF_vars(AddGood) /\ WF_vars(ExecuteBlock) /\ SF_vars(ExecuteBlock /\ Goto("AddBlock", "blocks"))
    /\ WF_vars(PersistBegin) /\ WF_vars(PersistWrite \/ PersistFail) /\ SF_vars(PersistWrite)

Spec == Init /\ [][Next]_vars /\ Fairness

-----------------------------------------------------------------------------
\* The lock is held exactly while a caller stores headers.
TypeOK ==
    /\ kv \in Contents /\ disk \in Contents /\ pending \in Contents \cup {Nil}
    /\ node \in {"down", "up", "no header", "no state root"}
    /\ headers \in 0 .. MaxHeight + 1 /\ storedHeaderCount \in 0 .. MaxHeight + 1
    /\ blockHeight \in Height /\ persistedHeight \in Height
    /\ mpt \in (SUBSET Height) \cup {Nil}
    /\ \A c \in Caller : call[c].pc = "current" <=> lock = c
    /\ crashes \in 0 .. MaxCrashes

\* Whatever was persisted before a crash, init finds every header it needs
\* ("Via the currentHeaders stored we can sync that with stored blocks").  A
\* running node that is not adding a block has the header, the body, the state
\* and a state root of every block up to its height, and no others.
HeightIsComplete ==
    /\ TypeOK /\ node # "no header"
    /\ node = "up" /\ call["AddBlock"].pc = "idle" =>
        /\ kv.current = blockHeight /\ blockHeight < headers
        /\ kv.state = 0 .. blockHeight
        /\ \A h \in 0 .. blockHeight : kv.block[h] = "full" /\ kv.root[h] # Nil
        /\ \A h \in Height : h > blockHeight => kv.block[h] # "full" /\ kv.root[h] = Nil

\* AddHeaders does not take addLock.  However it interleaves with AddBlock, a
\* stored block is not replaced by its bare header, and the database never goes
\* back, also if the node does.
BlocksAreKept ==
    [][/\ node = "up" /\ node' = "up" =>
             \A h \in Height : kv.block[h] = "full" => kv'.block[h] = "full"
       /\ disk'.current >= disk.current /\ disk'.header >= disk.header
       /\ disk.state \subseteq disk'.state]_vars

\* "Eventually it will be persisted to the backing storage": all blocks the
\* peers have become durable, unless init fails.
EventuallyStored ==
    <>(disk.current = MaxHeight \/ node \in {"no header", "no state root"})

\* What the comment on restoring the chain promises of any moment of a stop.
NodeRestarts == node \in {"down", "up"}

-----------------------------------------------------------------------------
(* The inductive invariant behind HeightIsComplete and BlocksAreKept.       *)

Calls ==
    [pc : {"idle", "check", "store", "current", "verify", "execute", "blocks", "state"},
     first : Height, last : Height, good : BOOLEAN]

\* What the database may hold at any moment: the block data of a height
\* without its state at most for the current height, and every header up to
\* the current one.
Sound(c) ==
    \/ c = NoContents
    \/ /\ c.version /\ c.hashes <= c.header /\ c.current <= c.header
       /\ c.state = 0 .. c.current \/ (c.current > 0 /\ c.state = 0 .. c.current - 1)
       /\ \A h \in Height : c.root[h] # Nil <=> h \in c.state
       /\ \A h \in Height : c.block[h] = "full" <=> h <= c.current
       /\ \A h \in Height : h <= c.header => c.block[h] # "none"

\* b is not behind a.
Behind(a, b) == a.current <= b.current /\ a.header <= b.header /\ a.state \subseteq b.state

\* The fields of Blockchain fit the store: only who holds headerHashesLock has
\* headers the store does not call current.
FieldsFit ==
    /\ kv.version /\ mpt # Nil /\ storedHeaderCount = kv.hashes
    /\ kv.header < headers /\ (lock = Nil => kv.header = headers - 1)
    /\ \A h \in Height : h < headers => kv.block[h] # "none"
    /\ kv.current = IF call["AddBlock"].pc = "state" THEN blockHeight + 1 ELSE blockHeight
    /\ kv.state = 0 .. blockHeight

\* AddBlock is at the next height, whose header is stored from verify on.
CallFits(c) ==
    /\ c.pc # "idle" => 1 <= c.first /\ c.first <= c.last /\ c.last = blockHeight + 1
    /\ c.pc \in {"check", "store"} => c.last <= headers
    /\ c.pc = "current" => c.last < headers
    /\ c.pc \in {"verify", "execute", "blocks", "state"} => c.last <= kv.header

ChainInv ==
    /\ TypeOK
    /\ call \in [Caller -> Calls]
    /\ call["AddHeaders"].pc \in {"idle", "check", "store", "current"}
    /\ call["AddHeaders"].pc # "idle" => 1 <= call["AddHeaders"].first /\ call["AddHeaders"].first <= call["AddHeaders"].last
    /\ lock \in Caller \cup {Nil}
    /\ Sound(kv) /\ Sound(disk) /\ Behind(disk, kv)
    /\ pending # Nil => Sound(pending) /\ Behind(disk, pending) /\ Behind(pending, kv)
    /\ node # "no header"
    /\ node # "up" => kv = disk /\ pending = Nil /\ lock = Nil /\ call = [c \in Caller |-> NoCall]
    /\ node = "up" => FieldsFit /\ CallFits(call["AddBlock"])

=============================================================================
