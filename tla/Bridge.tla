------------------------------- MODULE Bridge -------------------------------
(* The Bridge contract: headers and state roots of the main chain that anyone *)
(* may hand in, and what is done on the strength of them - minting for the    *)
(* deposits of the main chain, following its designation of validators.       *)
(*                                                                            *)
(* The main chain is external: a history of headers, state roots and          *)
(* transactions whose committees sign nothing else.  A Merkle proof or an MPT *)
(* proof verifies for what the header or the root commits to, and only then.  *)
EXTENDS Integers, Sequences, FiniteSets, SequencesExt, FiniteSetsExt

CONSTANTS
    MainHeight,      \* of the main chain
    NextConsensus,   \* committee by main block
    StateSigners,    \* committee that signs the state root, by main block
    StandbyState,    \* mainStandbyStateValidatorsScriptHash
    StateDesignated, \* main blocks that designate state validators, with the committee
    Designated,      \* main blocks that designate the side chain's validators, with the committee
    Deposit,         \* deposits: main block, amount, receiver
    MintThreshold, BaseBonus,
    GWei10,          \* wei in a unit of the bridge
    Account, Initial, LockValue,
    MaxLocks         \* bound

VARIABLES
    headers,       \* main headers by index
    stateRoots,    \* indices of the state roots
    addresses,     \* state validators' committee by index
    joints,        \* joint headers and joint state roots
    syncedIndex, designated,
    minted, balance,
    locks, lockId,
    crashed        \* index out of range

vars == <<headers, stateRoots, addresses, joints, syncedIndex, designated, minted, balance, locks, lockId, crashed>>

Index     == 0..MainHeight
Committee == {NextConsensus[i] : i \in Index}
Main(i)   == [nextConsensus |-> NextConsensus[i], signer |-> IF i = 0 THEN "none" ELSE NextConsensus[i - 1]]

----------------------------------------------------------------------------
(* Joints: the indices at which a committee changes.                          *)

\* The loops of lastJoint and addJoint count up from the last element: they
\* look at it alone, and run out of the sequence if it is not the one.
lastJoint(js, index) == IF Len(js) < 2 THEN 0 ELSE Last(js)
findsJoint(js, index) == Len(js) < 2 \/ Last(js) <= index

addJoint(js, index) ==
    CASE Len(js) = 0 -> <<index>>
      [] Len(js) = 1 -> <<0, 0>>
      [] OTHER       -> Append(js, index)
addsJoint(js, index) == Len(js) < 2 \/ Last(js) < index

Put(f, i, v) == [k \in DOMAIN f \cup {i} |-> IF k = i THEN v ELSE f[k]]

Crash == crashed' = TRUE /\ UNCHANGED <<headers, stateRoots, addresses, joints, syncedIndex, designated,
                                        minted, balance, locks, lockId>>

----------------------------------------------------------------------------
(* Headers and state roots.                                                   *)

verified(last, h, valid) == h.signer = last.nextConsensus /\ valid

\* The header is the main chain's, or one that names a committee which has not
\* signed it.  Whoever sets up the bridge hands in the genesis header.
syncHeader ==
    /\ ~crashed
    /\ \E i \in Index, forged \in BOOLEAN, nc \in Committee, signer \in Committee :
        LET h     == IF forged THEN [nextConsensus |-> nc, signer |-> signer] ELSE Main(i)
            js    == joints.headers
            joint == lastJoint(js, i)
        IN  /\ ~forged => nc = Main(i).nextConsensus /\ signer = nc
            /\ forged => i # 0
            /\ i \notin DOMAIN headers
            /\ IF ~findsJoint(js, i) THEN Crash
               ELSE /\ joint \in DOMAIN headers \/ i = 0
                    /\ joint \in DOMAIN headers => verified(headers[joint], h, ~forged)
                    /\ LET changes == i = 0 \/ h.nextConsensus # headers[joint].nextConsensus
                       IN  IF changes /\ ~addsJoint(js, i) THEN Crash
                           ELSE /\ headers' = Put(headers, i, h)
                                /\ joints' = IF changes THEN [joints EXCEPT !.headers = addJoint(js, i)] ELSE joints
                                /\ UNCHANGED <<stateRoots, addresses, syncedIndex, designated, minted, balance,
                                               locks, lockId, crashed>>

validatorsOf(index) == IF index \in DOMAIN addresses THEN addresses[index] ELSE StandbyState

syncStateRoot ==
    /\ ~crashed
    /\ \E i \in Index :
        /\ i \notin stateRoots
        /\ IF ~findsJoint(joints.stateRoots, i) THEN Crash
           ELSE /\ StateSigners[i] = validatorsOf(lastJoint(joints.stateRoots, i))
                /\ stateRoots' = stateRoots \cup {i}
                /\ UNCHANGED <<headers, addresses, joints, syncedIndex, designated, minted, balance,
                               locks, lockId, crashed>>

\* verifyState: a transaction of main block header, a key of the state at root.
verifyState(header, root) == header \in DOMAIN headers /\ root >= header /\ root \in stateRoots

syncStateRootValidatorsAddress ==
    /\ ~crashed
    /\ \E header \in DOMAIN StateDesignated, root \in Index :
        LET committee == StateDesignated[header]
            js        == joints.stateRoots
        IN  /\ header \notin DOMAIN addresses
            /\ verifyState(header, root)
            /\ IF ~findsJoint(js, header) THEN Crash
               ELSE /\ committee \notin {addresses[j] : j \in DOMAIN addresses \cap {lastJoint(js, header)}}
                    /\ IF ~addsJoint(js, header + 1) THEN Crash
                       ELSE /\ addresses' = Put(addresses, header + 1, committee)
                            /\ joints' = [joints EXCEPT !.stateRoots = addJoint(js, header + 1)]
                            /\ UNCHANGED <<headers, stateRoots, syncedIndex, designated, minted, balance,
                                           locks, lockId, crashed>>

----------------------------------------------------------------------------
(* What rests on them.                                                        *)

outdated(header) == syncedIndex > 0 /\ syncedIndex >= header

\* The state at root names the transaction of the last designation up to there.
syncValidators ==
    /\ ~crashed
    /\ \E header \in DOMAIN Designated, root \in Index :
        /\ ~outdated(header)
        /\ verifyState(header, root)
        /\ \A b \in DOMAIN Designated : b <= root => b <= header
        /\ syncedIndex' = header /\ designated' = Designated[header]
    /\ UNCHANGED <<headers, stateRoots, addresses, joints, minted, balance, locks, lockId, crashed>>

Mint(b, a, amount) == [b EXCEPT ![a] = @ + amount * GWei10]

fresh_bug(d) == TRUE

fresh(d) == d \notin minted

requestMint ==
    /\ ~crashed
    /\ \E d \in Deposit, root \in Index, sender \in Account :
        /\ verifyState(d.block, root)
        /\ fresh(d)
        /\ d.amount >= MintThreshold
        /\ balance' = Mint(Mint(balance, d.to, d.amount - BaseBonus), sender, BaseBonus)
        /\ minted' = minted \cup {d}
    /\ UNCHANGED <<headers, stateRoots, addresses, joints, syncedIndex, designated, locks, lockId, crashed>>

newLockId == lockId + 1

\* lock: the value of the transaction has gone to the contract before; what is
\* burned besides is the value in units of the bridge, if the sender has it.
lock ==
    /\ ~crashed /\ Cardinality(DOMAIN locks) < MaxLocks
    /\ \E from \in Account, value \in LockValue :
        LET amount == value \div GWei10
        IN  /\ balance[from] >= value
            /\ amount >= MintThreshold
            /\ lockId' = newLockId
            /\ locks' = Put(locks, newLockId, [from |-> from, amount |-> amount])
            /\ LET left == balance[from] - value
               IN  balance' = [balance EXCEPT ![from] = IF left >= amount THEN left - amount ELSE left]
    /\ UNCHANGED <<headers, stateRoots, addresses, joints, syncedIndex, designated, minted, crashed>>

Init ==
    /\ headers = [i \in {} |-> Main(0)] /\ stateRoots = {} /\ addresses = [i \in {} |-> StandbyState]
    /\ joints = [headers |-> <<>>, stateRoots |-> <<>>]
    /\ syncedIndex = 0 /\ designated = "standby"
    /\ minted = {} /\ balance = [a \in Account |-> Initial]
    /\ locks = [i \in {} |-> 0] /\ lockId = -1
    /\ crashed = FALSE

Next ==
    \/ syncHeader \/ syncStateRoot \/ syncStateRootValidatorsAddress
    \/ syncValidators \/ requestMint \/ lock

Spec == Init /\ [][Next]_vars

----------------------------------------------------------------------------
(* Properties.                                                                *)

\* From the genesis header on trust reaches as far as the main chain and no
\* further: a header that syncHeader has stored is the main chain's header of
\* that index, however the headers were ordered and the joints recorded.
HeadersAreMain == \A i \in DOMAIN headers : headers[i] = Main(i)

\* Designations are taken over in the order of their main blocks.
Forward == /\ syncedIndex' >= syncedIndex
           /\ syncedIndex' # syncedIndex => designated' = Designated[syncedIndex']

\* The side chain's validators are those the newest main block handed in has
\* designated: with old proofs syncValidators does not go back to a committee
\* that the main chain has replaced.
NeverBack == [][Forward]_vars

\* What exists on the side chain beyond what it started with is what deposits
\* were minted for, each of them once however often and with whatever roots the
\* request is repeated, and never more.
MintsDepositsOnce ==
    LET total == MapThenSumSet(LAMBDA a : balance[a], Account)
    IN  total <= Initial * Cardinality(Account) + GWei10 * MapThenSumSet(LAMBDA d : d.amount, minted)

\* The locks there are stay what they are.
LocksKept == \A i \in DOMAIN locks : i \in DOMAIN locks' /\ locks'[i] = locks[i]

\* The record of a lock, from which the main chain pays out, stays: no later
\* lock takes its id.
LocksStay == [][LocksKept]_vars

\* Nothing is done for a transaction of the main chain before a state root that
\* its committee signed, of that block or a later one, is there.
MintsAreFinal == \A d \in minted : \E root \in stateRoots : root >= d.block
=============================================================================
