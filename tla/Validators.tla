----------------------------- MODULE Validators -----------------------------
(* Who may produce the next block: the Designate and Policy contracts with    *)
(* their caches, as storeBlock, consensus and a restart use them.             *)
(*                                                                            *)
(* Blocks are executed one at a time by storeBlock on a copy of the state     *)
(* (work); PostPersist renews the caches from the copy before the copy is     *)
(* the chain's state.  Consensus reads the chain at any time.  A committee    *)
(* stands for a sorted list of keys and for the address made of it.           *)
EXTENDS Integers, Sequences, FiniteSets, FiniteSetsExt

CONSTANTS
    Committee, Standby,   \* lists of keys; the one of the genesis block
    Prices, DefaultPrice,
    Accounts,             \* addresses that a committee may block
    MaxHeight,            \* bound
    Radix                 \* values of a byte; an index has two

\* Indices are made of two bytes.
ASSUME BoundsAssumption ==
    MaxHeight \in Nat /\ Radix \in Nat \ {0} /\ MaxHeight + 2 < Radix * Radix

VARIABLES
    height,   \* blockHeight
    dao,      \* state of the chain: designations by role and index, price, blocked accounts
    work,     \* state of the block that is being executed
    phase,    \* "idle", "run" or "post": what storeBlock is at
    cache,    \* DesignationCache and policyCache
    next,     \* next[h + 1]: NextConsensus of block h
    allowed,  \* committees of extensibleWhitelist
    disk      \* what was flushed: height and state

vars == <<height, dao, work, phase, cache, next, allowed, disk>>

Role == {"Validator", "StateValidator"}
None == {}  \* an empty list of keys

----------------------------------------------------------------------------
(* Designate.                                                                 *)

\* Keys are the role and the index in little endian, the store sorts bytes.
littleEndian(index) == (index % Radix) * Radix + (index \div Radix)

\* The last stored designation, in key order, that is not after index.
GetDesignatedByRoleFromStorage(d, r, index) ==
    LET upTo == {i \in DOMAIN d.roles[r] : i <= index}
    IN  IF upTo = {} THEN [nodes |-> None, height |-> 0]
        ELSE LET last == CHOOSE i \in upTo : \A j \in upTo : littleEndian(j) <= littleEndian(i)
             IN  [nodes |-> d.roles[r][last], height |-> last]

GetDesignatedByRole(d, r, index) ==
    IF cache.roles[r].height <= index THEN cache.roles[r] ELSE GetDesignatedByRoleFromStorage(d, r, index)

GetValidators(d, index) == GetDesignatedByRole(d, "Validator", index).nodes

MaxUint32 == Radix * Radix - 1

UpdateCache(d) ==
    [roles |-> [r \in Role |-> GetDesignatedByRoleFromStorage(d, r, MaxUint32)], price |-> d.price]

effective_bug(block) == block + 1

effective(block) == block + 2

designateAsRole(d, r, nodes) ==
    [d EXCEPT !.roles[r] = [i \in DOMAIN @ \cup {effective(height + 1)} |->
                                IF i = effective(height + 1) THEN nodes ELSE @[i]]]

\* updateExtensibleWhitelist
whitelist(c, d, h) ==
    {IF c.roles[r].height <= h + 1 THEN c.roles[r].nodes
     ELSE GetDesignatedByRoleFromStorage(d, r, h + 1).nodes : r \in Role}

----------------------------------------------------------------------------
(* storeBlock.                                                                *)

genesis ==
    [roles   |-> [r \in Role |-> IF r = "Validator" THEN [i \in {0} |-> Standby] ELSE [i \in {} |-> None]],
     price   |-> DefaultPrice,
     blocked |-> {}]

Init ==
    /\ height = 0 /\ dao = genesis /\ work = genesis /\ phase = "idle"
    /\ cache = UpdateCache(genesis)
    /\ next = <<Standby>>
    /\ allowed = whitelist(cache, genesis, 0)
    /\ disk = [height |-> 0, dao |-> genesis]

\* A block agreed on at this height: its proposer has filled in NextConsensus
\* and signed it, verifyHeaderWitness finds the signers in the previous header.
BeginBlock ==
    /\ phase = "idle" /\ height < MaxHeight
    /\ GetValidators(dao, height + 1) = next[height + 1]
    /\ next' = Append(next, GetValidators(dao, height + 2))
    /\ work' = dao /\ phase' = "run"
    /\ UNCHANGED <<height, dao, cache, allowed, disk>>

\* Bridge.syncValidators.
Designate ==
    /\ phase = "run"
    /\ \E nodes \in Committee :
        work' = designateAsRole(designateAsRole(work, "Validator", nodes), "StateValidator", nodes)
    /\ UNCHANGED <<height, dao, phase, cache, next, allowed, disk>>

\* checkConsensus: the sender is the committee of the block.
Sender == GetValidators(work, height + 1)

SetPrice ==
    /\ phase = "run"
    /\ \E sender \in Committee, price \in Prices : sender = Sender /\ work' = [work EXCEPT !.price = price]
    /\ UNCHANGED <<height, dao, phase, cache, next, allowed, disk>>

\* blockAccount and unblockAccount, refused for the addresses of the committee.
BlockAccount ==
    /\ phase = "run"
    /\ \E sender \in Committee, a \in Accounts :
        /\ sender = Sender /\ a \notin Sender
        /\ work' = [work EXCEPT !.blocked = IF a \in @ THEN @ \ {a} ELSE @ \cup {a}]
    /\ UNCHANGED <<height, dao, phase, cache, next, allowed, disk>>

PostPersist ==
    /\ phase = "run"
    /\ cache' = UpdateCache(work) /\ phase' = "post"
    /\ UNCHANGED <<height, dao, work, next, allowed, disk>>

StoreBlock ==
    /\ phase = "post"
    /\ dao' = work /\ height' = height + 1 /\ phase' = "idle"
    /\ allowed' = whitelist(cache, work, height + 1)
    /\ UNCHANGED <<work, cache, next, disk>>

\* The block is refused before PostPersist: its copy of the state is dropped.
Refuse ==
    /\ phase = "run"
    /\ phase' = "idle" /\ work' = dao
    /\ next' = SubSeq(next, 1, height + 1)
    /\ UNCHANGED <<height, dao, cache, allowed, disk>>

Flush ==
    /\ disk # [height |-> height, dao |-> dao]
    /\ disk' = [height |-> height, dao |-> dao]
    /\ UNCHANGED <<height, dao, work, phase, cache, next, allowed>>

\* The process stops at any time and starts from what was flushed.
Restart ==
    /\ height' = disk.height /\ dao' = disk.dao /\ work' = disk.dao /\ phase' = "idle"
    /\ cache' = UpdateCache(disk.dao)
    /\ next' = SubSeq(next, 1, disk.height + 1)
    /\ allowed' = whitelist(UpdateCache(disk.dao), disk.dao, disk.height)
    /\ UNCHANGED disk

Next ==
    \/ BeginBlock \/ Designate \/ SetPrice \/ BlockAccount
    \/ PostPersist \/ StoreBlock \/ Refuse \/ Flush \/ Restart

Spec == Init /\ [][Next]_vars

----------------------------------------------------------------------------
(* Properties.                                                                *)

\* "NextConsensus is a hash of the validators which will be accepting the next
\* block" (dbft/context.go): what the header of the last block promised before
\* the block was executed is the committee that consensus then works with, also
\* while the block after it is executed and its designations are already in the
\* cache, and after a restart.  Otherwise no block can be accepted any more.
NextConsensusHolds == GetValidators(dao, height + 1) = next[height + 1]

\* For any index that consensus asks about, up to that of the block after the
\* one it works on, the cache never answers differently from the state of the
\* chain, whatever is designated by the block that storeBlock is executing.
CacheAgrees ==
    \A r \in Role : \A i \in 0..(height + 2) :
        GetDesignatedByRole(dao, r, i) = GetDesignatedByRoleFromStorage(dao, r, i)

\* All transactions of a block are charged by the price in force before it,
\* on every node: the cached price is the one of the state at its height, also
\* for a node that has restarted.
PriceIsOfHeight == phase # "post" => cache.price = dao.price

\* The committee of the next block and its state validators are let through to
\* the services that take extensible payloads.
CommitteeIsHeard ==
    \A r \in Role : GetDesignatedByRole(dao, r, height + 1).nodes \in allowed

\* storeBlock, DesignationCache, policyCache and updateExtensibleWhitelist: the
\* committee a header promised is the one consensus works with and listens to,
\* and the caches answer like the state of the chain at their height.
CommitteeIsKnown == NextConsensusHolds /\ CommitteeIsHeard /\ CacheAgrees /\ PriceIsOfHeight

----------------------------------------------------------------------------
(* The inductive invariant behind CommitteeIsKnown.                           *)

\* A state with designations for indices up to last.
State(last) ==
    [roles   : [Role -> UNION {[D -> Committee \cup {Standby}] : D \in SUBSET (0 .. last)}],
     price   : Prices \cup {DefaultPrice},
     blocked : SUBSET Accounts]

\* Two states designate the same for the indices up to last.
SameUpTo(d, e, last) ==
    \A r \in Role : /\ \A i \in 0 .. last : i \in DOMAIN d.roles[r] <=> i \in DOMAIN e.roles[r]
                    /\ \A i \in DOMAIN d.roles[r] : i <= last => d.roles[r][i] = e.roles[r][i]

\* The keys of a state's designations sort like their indices: so they do until
\* an index outgrows its first byte.
InOrder(d) ==
    \A r \in Role : \A i, j \in DOMAIN d.roles[r] : i < j => littleEndian(i) < littleEndian(j)

KeysInOrder == InOrder(dao) /\ InOrder(work) /\ InOrder(disk.dao)

\* What headers promise and what services are told comes from the stored
\* designations for that index.
Stored(d, r, index) == GetDesignatedByRoleFromStorage(d, r, index).nodes

\* The block that is executed designates for later blocks only, and the cache is
\* that of one of the two states.
WorkFits ==
    /\ height \in 0 .. MaxHeight
    /\ phase \in {"idle", "run", "post"} /\ (phase # "idle" => height < MaxHeight)
    /\ dao \in State(height + 2) /\ work \in State(height + 3)
    /\ phase = "idle" => work = dao
    /\ SameUpTo(dao, work, height + 2)
    /\ cache = UpdateCache(IF phase = "post" THEN work ELSE dao)

\* Promises made by the headers of this chain, up to the block that is executed.
PromisesFit ==
    /\ next \in Seq(Committee \cup {Standby, None})
    /\ Len(next) = height + IF phase = "idle" THEN 1 ELSE 2
    /\ next[height + 1] = Stored(dao, "Validator", height + 1)
    /\ phase # "idle" => next[height + 2] = Stored(dao, "Validator", height + 2)

\* What was flushed is an earlier state of this chain.
DiskFits ==
    /\ disk \in [height : 0 .. height, dao : State(disk.height + 2)]
    /\ next[disk.height + 1] = Stored(disk.dao, "Validator", disk.height + 1)

CommitteeInv ==
    /\ WorkFits /\ PromisesFit /\ DiskFits
    /\ \A r \in Role : Stored(dao, r, height + 1) \in allowed
=============================================================================
