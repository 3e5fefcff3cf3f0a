-------------------------------- MODULE Dbft --------------------------------
(***************************************************************************)
(* The dBFT 2.0 consensus of pkg/dbft, with the callbacks pkg/consensus    *)
(* gives it (processBlock, verifyBlock, verifyRequest, handleChainBlock).  *)
(*                                                                         *)
(* node[n] is the state of validator n: its dbft.Context, its ledger and   *)
(* every payload it has broadcast.  A payload in node[i].out may reach any *)
(* validator late, out of order, twice or never.  A Go method that updates *)
(* the context is an operator from node states to node states with the     *)
(* method's name, so that a handler is the composition of the methods it   *)
(* calls; e holds the answers the rest of the program gives on the way.    *)
(*                                                                         *)
(* A timer event can happen at any time for the current height and view.   *)
(* The validator list is the same at every height.                         *)
(***************************************************************************)
EXTENDS Integers, FiniteSets, Sequences

CONSTANTS
    N,            \* number of validators, known by index: 0..N-1
    Active,       \* the validators that run; the others are down for good
    Proposals,    \* contents (nonce, timestamp, transactions) a primary may propose
    Outcomes,     \* answers of ledger and memory pool to explore, see Answer
    Nil,          \* an empty slot
    MaxHeight,    \* bound: blocks decided
    MaxView,      \* bound: views entered
    MaxRequests,  \* bound: recovery requests broadcast
    MaxRecovery,  \* bound: recovery messages broadcast
    MaxCrashes,   \* bound: crashes of all validators together
    MaxFaults,    \* bound: these three together
    MaxLoose      \* bound: loose validators, see below

Validator == 0..(N - 1)

F == (N - 1) \div 3

\* Variant of M: one validator too few.
M_bug == N - F - 1

M == N - F

(***************************************************************************)
(* What the rest of the node answers during one handler: the contents a    *)
(* primary proposes (Fill), whether verifyRequest accepts a proposal,      *)
(* whether all of its transactions are at hand (processMissingTx), whether *)
(* verifyBlock accepts the block, and whether AddBlock stores a block      *)
(* whose index and witness are right.                                      *)
(***************************************************************************)
Answer == [val : Proposals, reqOk : BOOLEAN, have : BOOLEAN, blockOk : BOOLEAN, stored : BOOLEAN]

\* A block is known by the view it was proposed in and its contents.
Header == [view : Nat, val : Proposals]

PrepSlot == [kind : {"req", "resp"}, val : Proposals] \cup {Nil}

\* view is the label of the payload that carried the signature of hdr.
CommitSlot == [view : Nat, hdr : Header] \cup {Nil}

SeenSlot == [height : Nat, view : Nat] \cup {Nil}

RecoveryPayload ==
    [type : {"RecoveryMessage"}, height : Nat, view : Nat,
     req : Proposals \cup {Nil}, hash : Proposals \cup {Nil}, preps : SUBSET Validator,
     cvs : [Validator -> Nat], commits : [Validator -> Header \cup {Nil}]]

Payload ==
    [type : {"PrepareRequest", "PrepareResponse"}, height : Nat, view : Nat, val : Proposals]
    \cup [type : {"Commit"}, height : Nat, view : Nat, hdr : Header]
    \cup [type : {"ChangeView", "RecoveryRequest"}, height : Nat, view : Nat]
    \cup RecoveryPayload

\* Where onRecoveryMessage is in its three loops over a message's payloads.
Loop == [msg : RecoveryPayload, phase : {"cv", "resp", "commit"}, left : SUBSET Validator] \cup {Nil}

NodeState ==
    [up : BOOLEAN, height : Nat, view : Nat,
     prep : [Validator -> PrepSlot], commit : [Validator -> CommitSlot],
     cv : [Validator -> Nat], lastCv : [Validator -> Nat],   \* new view asked for, 0 if none
     seen : [Validator -> SeenSlot],
     txs : {"none", "missing", "found", "made"},
     loop : Loop,
     chain : Seq(Header),
     out : SUBSET Payload,
     loose : BOOLEAN]   \* ghost: it forgot a block it signed, or signed one it had not prepared

ASSUME NAssumption == N \in Nat \ {0}

ASSUME ConstantsAssumption ==
    /\ Active \subseteq Validator
    /\ Outcomes \subseteq Answer
    /\ MaxHeight \in Nat /\ MaxView \in Nat /\ MaxRequests \in Nat /\ MaxRecovery \in Nat /\ MaxCrashes \in Nat
    /\ MaxFaults \in Nat /\ MaxLoose \in Nat

ASSUME NilAssumption ==
    /\ Nil \notin Proposals
    /\ Nil \notin Header
    /\ Nil \notin [kind : {"req", "resp"}, val : Proposals]
    /\ Nil \notin [view : Nat, hdr : Header]
    /\ Nil \notin [msg : RecoveryPayload, phase : {"cv", "resp", "commit"}, left : SUBSET Validator]

VARIABLES
    node,     \* validator -> NodeState
    crashes   \* number of crashes so far

vars == <<node, crashes>>

-----------------------------------------------------------------------------
(* Context: who leads, what has been seen, what has been sent. *)

GetPrimaryIndex(h, v) == (h - v) % N

PrimaryIndex(s) == GetPrimaryIndex(s.height, s.view)

CountCommitted(s) == Cardinality({i \in Validator : s.commit[i] # Nil})

CountFailed(s) ==
    Cardinality({i \in Validator :
        \/ s.seen[i] = Nil
        \/ s.seen[i].height < s.height
        \/ s.seen[i].view < s.view})

RequestSentOrReceived(s) == s.prep[PrimaryIndex(s)] # Nil

ResponseSent(n, s) == s.prep[n] # Nil

CommitSent(n, s) == s.commit[n] # Nil

BlockSent(s) == s.txs = "made"

ViewChanging(n, s) == s.cv[n] > s.view

MoreThanFNodesCommittedOrLost(s) == CountCommitted(s) + CountFailed(s) > F

NotAcceptingPayloadsDueToViewChanging(n, s) ==
    ViewChanging(n, s) /\ ~MoreThanFNodesCommittedOrLost(s)

\* txs: no proposal known / transactions missing / all found, block not
\* created yet / block created (on a primary: proposed).
hasAllTransactions(s) == s.txs # "missing"

MakeHeader(s) ==
    IF RequestSentOrReceived(s) THEN [view |-> s.view, val |-> s.prep[PrimaryIndex(s)].val] ELSE Nil

\* The validator has signed a block its ledger does not have.
Forgets(s) == \E m \in s.out : m.type = "Commit" /\ m.height > Len(s.chain)

\* reset and InitializeConsensus.  Moving to view 0 takes the height from
\* the ledger; whatever was signed for that height is forgotten.
InitializeConsensus(n, s, view) ==
    LET h == IF view = 0 THEN Len(s.chain) + 1 ELSE s.height
    IN [up |-> s.up, height |-> h, view |-> view,
        prep |-> [i \in Validator |-> Nil], commit |-> [i \in Validator |-> Nil],
        cv |-> [i \in Validator |-> 0],
        lastCv |-> [i \in Validator |-> IF view # 0 /\ s.cv[i] < view THEN s.cv[i] ELSE 0],
        seen |-> [s.seen EXCEPT ![n] = [height |-> h, view |-> view]],
        txs |-> "none", loop |-> s.loop, chain |-> s.chain, out |-> s.out,
        loose |-> s.loose \/ (view = 0 /\ Forgets(s))]

broadcast(s, m) == [s EXCEPT !.out = @ \cup {m}]

-----------------------------------------------------------------------------
(* check.go and send.go *)

\* getBlockWitness puts the first M signatures of the view in the witness;
\* it verifies when they all sign the block.
WitnessValid(s) ==
    LET signers == {i \in Validator : s.commit[i] # Nil /\ s.commit[i].view = s.view}
    IN \E Q \in SUBSET signers :
          /\ Cardinality(Q) = M
          /\ \A i \in Q : s.commit[i].hdr = MakeHeader(s)
          /\ \A i \in Q, j \in signers \ Q : i < j

\* An error of AddBlock is only logged.
processBlock(s, e) ==
    IF Len(s.chain) = s.height - 1 /\ WitnessValid(s) /\ e.stored
    THEN [s EXCEPT !.chain = Append(@, MakeHeader(s))]
    ELSE s

checkCommit(n, s, e) ==
    IF /\ hasAllTransactions(s)
       /\ Cardinality({i \in Validator : s.commit[i] # Nil /\ s.commit[i].view = s.view}) >= M
    THEN InitializeConsensus(n, processBlock(s, e), 0)
    ELSE s

makeCommit(n, s) ==
    IF CommitSent(n, s) THEN s.commit[n] ELSE [view |-> s.view, hdr |-> MakeHeader(s)]

sendCommit(n, s) ==
    LET c == makeCommit(n, s)
    IN broadcast([s EXCEPT !.commit[n] = c, !.loose = @ \/ ~ResponseSent(n, s)],
                 [type |-> "Commit", height |-> s.height, view |-> c.view, hdr |-> c.hdr])

\* Variant of checkPrepare: one preparation too few.
checkPrepare_bug(n, s, e) ==
    IF /\ hasAllTransactions(s)
       /\ \E i \in Validator : s.prep[i] # Nil /\ s.prep[i].kind = "req"
       /\ Cardinality({i \in Validator : s.prep[i] # Nil}) + 1 >= M
    THEN checkCommit(n, sendCommit(n, s), e)
    ELSE s

\* Variant of checkPrepare: M + 1 preparations.
checkPrepare_late(n, s, e) ==
    IF /\ hasAllTransactions(s)
       /\ \E i \in Validator : s.prep[i] # Nil /\ s.prep[i].kind = "req"
       /\ Cardinality({i \in Validator : s.prep[i] # Nil}) > M
    THEN checkCommit(n, sendCommit(n, s), e)
    ELSE s

checkPrepare(n, s, e) ==
    IF /\ hasAllTransactions(s)
       /\ \E i \in Validator : s.prep[i] # Nil /\ s.prep[i].kind = "req"
       /\ Cardinality({i \in Validator : s.prep[i] # Nil}) >= M
    THEN checkCommit(n, sendCommit(n, s), e)
    ELSE s

sendPrepareRequest(n, s, e) ==
    LET asked == [s EXCEPT !.prep[n] = [kind |-> "req", val |-> e.val], !.txs = "made"]
        m == [type |-> "PrepareRequest", height |-> s.height, view |-> s.view, val |-> e.val]
    IN checkPrepare(n, broadcast(asked, m), e)

sendPrepareResponse(n, s) ==
    LET v == s.prep[PrimaryIndex(s)].val
    IN broadcast([s EXCEPT !.prep[n] = [kind |-> "resp", val |-> v]],
                 [type |-> "PrepareResponse", height |-> s.height, view |-> s.view, val |-> v])

\* makeChangeView and its broadcast.
askChangeView(n, s) ==
    broadcast([s EXCEPT !.cv[n] = s.view + 1],
              [type |-> "ChangeView", height |-> s.height, view |-> s.view])

\* Variant of checkChangeView: F + 1 votes are enough.
checkChangeView_bug(n, s, view) ==
    IF s.view < view /\ Cardinality({i \in Validator : s.cv[i] >= view}) > F
    THEN InitializeConsensus(n, s, view)
    ELSE s

checkChangeView(n, s, view) ==
    IF s.view < view /\ Cardinality({i \in Validator : s.cv[i] >= view}) >= M
    THEN InitializeConsensus(n, IF s.cv[n] # 0 /\ s.cv[n] < view THEN askChangeView(n, s) ELSE s, view)
    ELSE s

sendRecoveryRequest(n, s, e) ==
    broadcast([s EXCEPT !.txs = IF RequestSentOrReceived(s) /\ ~hasAllTransactions(s) /\ e.have
                                THEN "found" ELSE @],
              [type |-> "RecoveryRequest", height |-> s.height, view |-> s.view])

sendChangeView(n, s, e) ==
    IF MoreThanFNodesCommittedOrLost(s)
    THEN sendRecoveryRequest(n, s, e)
    ELSE checkChangeView(n, askChangeView(n, s), s.view + 1)

\* Variant of makeRecoveryMessage: a signature is reported for the validator before.
makeRecoveryMessage_bug(n, s) ==
    LET known == {i \in Validator : s.prep[i] # Nil}
        requests == {i \in known : s.prep[i].kind = "req"}
        req == IF requests = {} THEN Nil ELSE s.prep[CHOOSE i \in requests : TRUE].val
        hash == IF req # Nil \/ known = {}
                THEN req
                ELSE s.prep[CHOOSE i \in known : \A j \in known : i <= j].val
    IN [type |-> "RecoveryMessage", height |-> s.height, view |-> s.view,
        req |-> req, hash |-> hash, preps |-> known, cvs |-> s.lastCv,
        commits |-> [i \in Validator |->
            LET j == (i + 1) % N
            IN IF CommitSent(n, s) /\ s.commit[j] # Nil THEN s.commit[j].hdr ELSE Nil]]

\* AddPayload: every response is filed under one hash, the request's or else
\* that of the response with the lowest index.
makeRecoveryMessage(n, s) ==
    LET known == {i \in Validator : s.prep[i] # Nil}
        requests == {i \in known : s.prep[i].kind = "req"}
        req == IF requests = {} THEN Nil ELSE s.prep[CHOOSE i \in requests : TRUE].val
        hash == IF req # Nil \/ known = {}
                THEN req
                ELSE s.prep[CHOOSE i \in known : \A j \in known : i <= j].val
    IN [type |-> "RecoveryMessage", height |-> s.height, view |-> s.view,
        req |-> req, hash |-> hash, preps |-> known, cvs |-> s.lastCv,
        commits |-> [i \in Validator |->
            IF CommitSent(n, s) /\ s.commit[i] # Nil THEN s.commit[i].hdr ELSE Nil]]

sendRecoveryMessage(n, s) == broadcast(s, makeRecoveryMessage(n, s))

-----------------------------------------------------------------------------
(* dbft.go: the handlers *)

\* addTransaction once every transaction is there: createAndCheckBlock, then
\* either the response or a request to change view.
addTransaction(n, s, e) ==
    LET made == [s EXCEPT !.txs = "made"]
    IN IF e.blockOk /\ Len(s.chain) < s.height
       THEN checkPrepare(n, sendPrepareResponse(n, made), e)
       ELSE sendChangeView(n, made, e)

\* updateExistingPayloads drops the responses to another proposal.  It runs
\* before the request is stored, so MakeHeader is still nil there and no
\* early commit is verified.
acceptRequest(s, i, m, e) ==
    [s EXCEPT
       !.prep = [j \in Validator |->
           IF j = i THEN [kind |-> "req", val |-> m.val]
           ELSE IF s.prep[j] # Nil /\ s.prep[j].kind = "resp" /\ s.prep[j].val # m.val THEN Nil
           ELSE s.prep[j]],
       !.txs = IF e.have THEN "found" ELSE "missing"]

onPrepareRequest(n, s, i, m, e) ==
    IF RequestSentOrReceived(s) \/ m.view # s.view \/ i # PrimaryIndex(s) THEN s
    ELSE IF ~e.reqOk THEN sendChangeView(n, s, e)
    ELSE IF e.have THEN addTransaction(n, acceptRequest(s, i, m, e), e)
    ELSE acceptRequest(s, i, m, e)

\* GetPrepareRequest panics when the primary's slot holds a response.
onPrepareResponse(n, s, i, m, e) ==
    LET primary == PrimaryIndex(s)
        stored == [s EXCEPT !.prep[i] = [kind |-> "resp", val |-> m.val]]
    IN IF \/ m.view # s.view \/ i = primary \/ s.prep[i] # Nil
          \/ NotAcceptingPayloadsDueToViewChanging(n, s)
       THEN s
       ELSE IF ~RequestSentOrReceived(s) THEN stored
       ELSE IF s.prep[primary].kind = "resp" THEN [s EXCEPT !.up = FALSE]
       ELSE IF s.prep[primary].val # m.val THEN s
       ELSE IF CommitSent(n, s) THEN stored
       ELSE checkPrepare(n, stored, e)

\* Limit recoveries to the F validators after the one that asks.
onRecoveryRequest(n, s, i) ==
    IF CommitSent(n, s) \/ \E k \in 1..F : (i + k) % N = n
    THEN sendRecoveryMessage(n, s)
    ELSE s

\* Variant of onChangeView: a validator that has signed still counts votes.
onChangeView_bug(n, s, i, m) ==
    LET newView == m.view + 1
    IN IF newView <= s.view THEN onRecoveryRequest(n, s, i)
       ELSE IF newView < s.cv[i] THEN s
       ELSE checkChangeView(n, [s EXCEPT !.cv[i] = newView], newView)

onChangeView(n, s, i, m) ==
    LET newView == m.view + 1
    IN IF newView <= s.view THEN onRecoveryRequest(n, s, i)
       ELSE IF CommitSent(n, s) THEN sendRecoveryMessage(n, s)
       ELSE IF newView < s.cv[i] THEN s
       ELSE checkChangeView(n, [s EXCEPT !.cv[i] = newView], newView)

\* A commit of another view, or one that comes before the request, is kept
\* unverified.
onCommit(n, s, i, m, e) ==
    LET stored == [s EXCEPT !.commit[i] = [view |-> m.view, hdr |-> m.hdr]]
    IN IF m.view # s.view \/ MakeHeader(s) = Nil THEN stored
       ELSE IF m.hdr = MakeHeader(s) THEN checkCommit(n, stored, e)
       ELSE s

\* The loops over the message's payloads are the steps of Recover below.
onRecoveryMessage(n, s, m) ==
    IF m.view > s.view /\ CommitSent(n, s) THEN s
    ELSE [s EXCEPT !.loop = [msg |-> m, phase |-> "cv",
              left |-> IF m.view > s.view THEN {i \in Validator : m.cvs[i] # 0} ELSE {}]]

see(s, i, m) ==
    IF s.seen[i] = Nil \/ s.seen[i].height < m.height \/ s.seen[i].view < m.view
    THEN [s EXCEPT !.seen[i] = [height |-> m.height, view |-> m.view]]
    ELSE s

\* A message of a later height or of the next view goes to d.cache.  Only
\* start reads it, and only Start calls start, after emptying the cache: the
\* message has no effect.
OnReceive(n, s, i, m, e) ==
    IF \/ m.height # s.height
       \/ m.view = s.view + 1 /\ m.type # "RecoveryMessage"
    THEN s
    ELSE LET t == see(s, i, m)
         IN CASE m.type = "ChangeView" -> onChangeView(n, t, i, m)
              [] m.type = "PrepareRequest" -> onPrepareRequest(n, t, i, m, e)
              [] m.type = "PrepareResponse" -> onPrepareResponse(n, t, i, m, e)
              [] m.type = "Commit" -> onCommit(n, t, i, m, e)
              [] m.type = "RecoveryRequest" -> onRecoveryRequest(n, t, i)
              [] m.type = "RecoveryMessage" -> onRecoveryMessage(n, t, m)

(* The loops of onRecoveryMessage: change views, then the request and the  *)
(* responses, then commits, one payload per step, in validator order.  The *)
(* validator does nothing else until they end.                             *)

\* GetChangeViews, GetPrepareResponses and GetCommits: all but the change
\* views are labelled with the view of the recovery message.
recoveredPayload(loop, i) ==
    LET m == loop.msg
    IN CASE loop.phase = "cv" ->
              [type |-> "ChangeView", height |-> m.height, view |-> m.cvs[i] - 1]
         [] loop.phase = "resp" ->
              [type |-> "PrepareResponse", height |-> m.height, view |-> m.view, val |-> m.hash]
         [] loop.phase = "commit" ->
              [type |-> "Commit", height |-> m.height, view |-> m.view, hdr |-> m.commits[i]]

recoverPreparations(n, s, e) ==
    LET m == s.loop.msg
        t == [s EXCEPT !.loop = [msg |-> m, phase |-> "resp",
                                 left |-> IF m.hash = Nil THEN {} ELSE m.preps]]
        req == [type |-> "PrepareRequest", height |-> m.height, view |-> m.view, val |-> m.req]
    IN IF RequestSentOrReceived(s) THEN t
       ELSE IF m.req # Nil THEN OnReceive(n, t, PrimaryIndex(s), req, e)
       ELSE IF n = PrimaryIndex(s) THEN sendPrepareRequest(n, t, e)
       ELSE t

\* Variant of recoverCommits: only of lower views, as its comment may be read.
recoverCommits_bug(s) ==
    LET m == s.loop.msg
    IN [s EXCEPT !.loop =
          IF m.view < s.view
          THEN [msg |-> m, phase |-> "commit", left |-> {i \in Validator : m.commits[i] # Nil}]
          ELSE Nil]

recoverCommits(s) ==
    LET m == s.loop.msg
    IN [s EXCEPT !.loop =
          IF m.view <= s.view
          THEN [msg |-> m, phase |-> "commit", left |-> {i \in Validator : m.commits[i] # Nil}]
          ELSE Nil]

recoverNext(n, s, e) ==
    LET l == s.loop
        i == CHOOSE i \in l.left : \A j \in l.left : i <= j
    IN CASE l.left # {} ->
              OnReceive(n, [s EXCEPT !.loop.left = @ \ {i}], i, recoveredPayload(l, i), e)
         [] l.left = {} /\ l.phase = "cv" ->
              IF /\ l.msg.view = s.view
                 /\ ~NotAcceptingPayloadsDueToViewChanging(n, s)
                 /\ ~CommitSent(n, s)
              THEN recoverPreparations(n, s, e)
              ELSE recoverCommits(s)
         [] l.left = {} /\ l.phase = "resp" -> recoverCommits(s)
         [] l.left = {} /\ l.phase = "commit" -> [s EXCEPT !.loop = Nil]

-----------------------------------------------------------------------------
(* Actions *)

\* A validator whose process is not running, with what survives it.
Stopped(chain, out, loose) ==
    [up |-> FALSE, height |-> 0, view |-> 0,
     prep |-> [i \in Validator |-> Nil], commit |-> [i \in Validator |-> Nil],
     cv |-> [i \in Validator |-> 0], lastCv |-> [i \in Validator |-> 0],
     seen |-> [i \in Validator |-> Nil], txs |-> "none", loop |-> Nil,
     chain |-> chain, out |-> out, loose |-> loose]

Init ==
    /\ node = [n \in Validator |-> Stopped(<<>>, {}, FALSE)]
    /\ crashes = 0

\* How many payloads of a type have been broadcast.
Broadcasts(type) ==
    Cardinality(UNION {{<<i, m>> : m \in {x \in node[i].out : x.type = type}} : i \in Validator})

Loose == {n \in Validator : node[n].loose}

Bounded ==
    /\ \A n \in Validator : node[n].view <= MaxView
    /\ Broadcasts("RecoveryRequest") <= MaxRequests
    /\ Broadcasts("RecoveryMessage") <= MaxRecovery
    /\ crashes + Broadcasts("RecoveryRequest") + Broadcasts("RecoveryMessage") <= MaxFaults
    /\ Cardinality(Loose) <= MaxLoose

Become(n, s) ==
    /\ s # node[n]
    /\ node' = [node EXCEPT ![n] = s]
    /\ UNCHANGED crashes
    /\ Bounded'

\* The consensus goroutine of n waits for an event.
Waiting(n) == node[n].up /\ node[n].loop = Nil /\ node[n].height <= MaxHeight

\* Start: a first start or a restart.  A primary proposes at once.
Start(n) == \E e \in Outcomes :
    LET s == node[n]
        t == InitializeConsensus(n, Stopped(s.chain, s.out, s.loose), 0)
        started == [t EXCEPT !.up = TRUE]
    IN /\ ~s.up
       /\ Len(s.chain) < MaxHeight
       /\ Become(n, IF n = PrimaryIndex(t) THEN sendPrepareRequest(n, started, e) ELSE started)

Receive(n) == \E i \in Validator, e \in Outcomes : \E m \in node[i].out :
    /\ Waiting(n)
    /\ Become(n, OnReceive(n, node[n], i, m, e))

Recover(n) == \E e \in Outcomes :
    /\ node[n].up /\ node[n].loop # Nil
    /\ Become(n, recoverNext(n, node[n], e))

OnTimeout(n) == \E e \in Outcomes :
    LET s == node[n]
    IN /\ Waiting(n)
       /\ Become(n, IF n = PrimaryIndex(s) /\ ~RequestSentOrReceived(s) THEN sendPrepareRequest(n, s, e)
                    ELSE IF CommitSent(n, s) THEN sendRecoveryMessage(n, s)
                    ELSE sendChangeView(n, s, e))

\* The last missing transaction comes in.
OnTransaction(n) == \E e \in Outcomes :
    LET s == node[n]
    IN /\ Waiting(n)
       /\ n # PrimaryIndex(s)
       /\ ~NotAcceptingPayloadsDueToViewChanging(n, s)
       /\ RequestSentOrReceived(s) /\ ~ResponseSent(n, s) /\ ~BlockSent(s)
       /\ s.txs \in {"missing", "found"}
       /\ Become(n, addTransaction(n, [s EXCEPT !.txs = "found"], e))

\* The block queue stores the next block another validator has.  This is
\* another goroutine: it may run while onRecoveryMessage does.
SyncBlock(n) == \E i \in Validator :
    LET s == node[n]
        h == Len(s.chain) + 1
    IN /\ s.up
       /\ h <= Len(node[i].chain)
       /\ Become(n, [s EXCEPT !.chain = Append(@, node[i].chain[h])])

handleChainBlock(n) ==
    /\ Waiting(n)
    /\ node[n].height <= Len(node[n].chain)
    /\ Become(n, InitializeConsensus(n, node[n], 0))

\* Only the blocks Run has persisted survive; nothing of the context does.
Crash(n) == \E k \in 0..Len(node[n].chain) :
    LET s == node[n]
        stored == SubSeq(s.chain, 1, k)
    IN /\ s.up
       /\ crashes < MaxCrashes
       /\ crashes' = crashes + 1
       /\ node' = [node EXCEPT ![n] =
             Stopped(stored, s.out, s.loose \/ Forgets([s EXCEPT !.chain = stored]))]
       /\ Bounded'

Next == \E n \in Active :
    \/ Start(n)
    \/ Receive(n)
    \/ Recover(n)
    \/ OnTimeout(n)
    \/ OnTransaction(n)
    \/ SyncBlock(n)
    \/ handleChainBlock(n)
    \/ Crash(n)

Spec == Init /\ [][Next]_vars

-----------------------------------------------------------------------------
(* Properties *)

\* The context of every validator keeps the shape of dbft.Context: slots hold
\* payloads of their kind, of known validators, or are empty.
TypeOK ==
    /\ node \in [Validator -> NodeState]
    /\ crashes \in Nat

\* Validator n has signed block b for height h (makeCommit).
Signed(n, h, b) == \E m \in node[n].out : m.type = "Commit" /\ m.height = h /\ m.hdr = b

\* Two ledgers hold the same block at every height both have, as long as at
\* most F validators are loose.
Agreement ==
    Cardinality(Loose) <= F =>
        \A i, j \in Validator : \A h \in 1..Len(node[i].chain) :
            h <= Len(node[j].chain) => node[i].chain[h] = node[j].chain[h]

\* A validator that is not loose signs at most one block per height, in
\* whatever views it has been and whatever recovery messages it has handled.
OneCommitPerHeight ==
    \A n \in Validator \ Loose : \A a, b \in node[n].out :
        a.type = "Commit" /\ b.type = "Commit" /\ a.height = b.height => a.hdr = b.hdr

\* A validator that prepared and signed a block does not move to a later view
\* of that height: CommitSent stops timeouts and ChangeView payloads, and
\* ResponseSent stops OnTransaction.
CommitKeepsView ==
    [][\A n \in Validator :
         node[n].up /\ ~node[n].loose /\ CommitSent(n, node[n]) =>
             ~(node'[n].height = node[n].height /\ node'[n].view > node[n].view)]_vars

\* Validator n has sent a request or a response for block b at height h.
Prepared(n, h, b) ==
    \E m \in node[n].out :
        /\ m.type \in {"PrepareRequest", "PrepareResponse"}
        /\ m.height = h /\ m.view = b.view /\ m.val = b.val

\* No primary has proposed two blocks in one view of a height.  One that
\* restarts may, and so may one whose ledger refused the block M others signed.
OneProposal ==
    \A n \in Validator : \A a, b \in node[n].out :
        /\ a.type = "PrepareRequest" /\ b.type = "PrepareRequest"
        /\ a.height = b.height /\ a.view = b.view
        => a.val = b.val

\* As long as every primary proposed one block per view, whoever signs a block
\* does so after M validators prepared it, also when the preparations came out
\* of a recovery message, which files all of them under one hash, or arrived
\* before the request (checkPrepare).
CommitIsPrepared ==
    OneProposal =>
        \A n \in Validator : \A m \in node[n].out :
            m.type = "Commit" =>
                Cardinality({i \in Validator : Prepared(i, m.height, m.hdr)}) >= M

\* A validator is in a later view only if M validators asked for that view
\* or a later one at its height (checkChangeView).
ViewIsAgreed ==
    \A n \in Validator : node[n].view > 0 =>
        Cardinality({i \in Validator : \E m \in node[i].out :
            m.type = "ChangeView" /\ m.height = node[n].height /\ m.view + 1 >= node[n].view}) >= M

\* When onRecoveryMessage comes to the commits of a message of its own view,
\* a validator that is not changing view knows the request and every
\* preparation the message reports, unless it had already signed or knows
\* another request of that view, as a restarted primary may make one.
RecoveryFillsPreparations ==
    \A n \in Validator :
        LET s == node[n]
            known == s.prep[PrimaryIndex(s)]
        IN /\ s.loop # Nil /\ s.loop.phase = "commit" /\ s.loop.msg.req # Nil
           /\ s.loop.msg.height = s.height /\ s.loop.msg.view = s.view
           /\ ~ViewChanging(n, s) /\ ~CommitSent(n, s)
           /\ known = Nil \/ known.val = s.loop.msg.req
           => \A i \in s.loop.msg.preps : s.prep[i] # Nil

\* When it is done with a message of its own height and view, it knows every
\* commit the message reports, even if it still misses the request; only a
\* commit to another request than the one it knows is left out.
RecoveryFillsCommits ==
    [][\A n \in Validator :
         LET m == node[n].loop.msg
             t == node'[n]
             known == t.prep[PrimaryIndex(t)]
         IN node[n].loop # Nil /\ t.loop = Nil /\ t.up
            => (m.height = t.height /\ m.view = t.view
                => \A i \in Validator :
                     m.commits[i] # Nil /\ (known = Nil \/ known.val = m.commits[i].val)
                     => t.commit[i] # Nil)]_vars

\* onRecoveryMessage leaves out nothing of a message that the validator may
\* take: neither preparations nor commits.
RecoveryFills == []RecoveryFillsPreparations /\ RecoveryFillsCommits

-----------------------------------------------------------------------------
(* The inductive invariant behind Agreement and OneCommitPerHeight.  Each   *)
(* part speaks of one validator n in state s and the set sigs of all        *)
(* signatures <<signer, height, block>> sent before.                        *)

Commits(s) == {m \in s.out : m.type = "Commit"}

HasSigned(s, h, b) == \E m \in Commits(s) : m.height = h /\ m.hdr = b

Known(n, s, sigs, i, h, b) == IF i = n THEN HasSigned(s, h, b) ELSE <<i, h, b>> \in sigs

\* The commits a recovery message reports are real.
RecoveryTrue(n, s, sigs, m) ==
    \A i \in Validator : m.commits[i] # Nil => Known(n, s, sigs, i, m.height, m.commits[i])

\* Only the primary's slot holds a request.
RequestPlaced(s) ==
    \A i \in Validator : s.prep[i] # Nil => (s.prep[i].kind = "req" => i = PrimaryIndex(s))

\* What is left of a recovery message is there.
LoopFits(l) ==
    \A i \in l.left :
        /\ l.phase = "cv" => l.msg.cvs[i] # 0
        /\ l.phase = "resp" => l.msg.hash # Nil /\ i \in l.msg.preps
        /\ l.phase = "commit" => l.msg.commits[i] # Nil

\* Every signature n has or passes on is real.
SignaturesReal(n, s, sigs) ==
    /\ \A i \in Validator : s.commit[i] # Nil => Known(n, s, sigs, i, s.height, s.commit[i].hdr)
    /\ \A m \in s.out : m.type = "RecoveryMessage" => RecoveryTrue(n, s, sigs, m)
    /\ s.loop # Nil => RecoveryTrue(n, s, sigs, s.loop.msg) /\ LoopFits(s.loop)

\* M validators signed block b for height h.
Backed(n, s, sigs, h, b) ==
    \E Q \in SUBSET Validator :
        Cardinality(Q) = M /\ \A i \in Q : Known(n, s, sigs, i, h, b)

ChainBacked(n, s, sigs) == \A h \in 1..Len(s.chain) : Backed(n, s, sigs, h, s.chain[h])

\* n has not signed two blocks of a height, and knows what it signed for its
\* current height.
Locked(n, s) ==
    /\ \A a, b \in Commits(s) : a.height = b.height => a.hdr = b.hdr
    /\ s.up => \A m \in Commits(s) :
          /\ m.height <= s.height
          /\ m.height = s.height =>
                /\ CommitSent(n, s) /\ s.commit[n].hdr = m.hdr
                /\ ResponseSent(n, s) /\ RequestSentOrReceived(s)

LocalInv(n, s, sigs) ==
    /\ s \in NodeState
    /\ s.height <= Len(s.chain) + 1
    /\ RequestPlaced(s)
    /\ SignaturesReal(n, s, sigs)
    /\ ChainBacked(n, s, sigs)
    /\ s.loose \/ Locked(n, s)

Signatures == UNION {{<<i, m.height, m.hdr>> : m \in Commits(node[i])} : i \in Validator}

\* Every validator knows only real signatures, holds only blocks M validators
\* signed, and is bound by what it signed unless it is loose.
SignedInv ==
    /\ node \in [Validator -> NodeState]
    /\ crashes \in Nat
    /\ \A n \in Validator : LocalInv(n, node[n], Signatures)

-----------------------------------------------------------------------------
(* The inductive invariant behind ViewIsAgreed and CommitIsPrepared: what   *)
(* validator n, in state s, says of the others is backed by payloads they   *)
(* have sent.                                                               *)

\* What validator i has sent, if n is in state s.
Sent(n, s, i) == IF i = n THEN s.out ELSE node[i].out

\* i has asked for view v of height h, or for a later one.
Asked(n, s, i, h, v) ==
    \E m \in Sent(n, s, i) : m.type = "ChangeView" /\ m.height = h /\ m.view + 1 >= v

\* i has prepared some block in view v of height h.
PreparedAt(n, s, i, h, v) ==
    \E m \in Sent(n, s, i) :
        m.type \in {"PrepareRequest", "PrepareResponse"} /\ m.height = h /\ m.view = v

\* The primary of view v of height h has proposed x.
Requested(n, s, h, v, x) ==
    \E m \in Sent(n, s, GetPrimaryIndex(h, v)) :
        m.type = "PrepareRequest" /\ m.height = h /\ m.view = v /\ m.val = x

\* The slots of the context, and the view it is in.
ContextReal(n, s) ==
    /\ \A i \in Validator : s.cv[i] # 0 => Asked(n, s, i, s.height, s.cv[i])
    /\ \A i \in Validator : s.lastCv[i] # 0 => Asked(n, s, i, s.height, s.lastCv[i])
    /\ s.view > 0 =>
          \E Q \in SUBSET Validator :
              Cardinality(Q) >= M /\ \A i \in Q : Asked(n, s, i, s.height, s.view)
    /\ \A i \in Validator : s.prep[i] # Nil =>
          /\ PreparedAt(n, s, i, s.height, s.view)
          /\ Requested(n, s, s.height, s.view, s.prep[i].val)

\* The votes and preparations a recovery message reports.
ReportReal(n, s, m) ==
    /\ \A i \in Validator : m.cvs[i] # 0 => Asked(n, s, i, m.height, m.cvs[i])
    /\ m.req # Nil => Requested(n, s, m.height, m.view, m.req)
    /\ m.hash # Nil => Requested(n, s, m.height, m.view, m.hash)
    /\ \A i \in m.preps : PreparedAt(n, s, i, m.height, m.view)

\* A response follows a request, a commit the preparations of M validators.
PayloadReal(n, s, m) ==
    /\ m.type \in {"PrepareRequest", "PrepareResponse"} => Requested(n, s, m.height, m.view, m.val)
    /\ m.type = "Commit" =>
          /\ Requested(n, s, m.height, m.hdr.view, m.hdr.val)
          /\ \E Q \in SUBSET Validator :
                Cardinality(Q) >= M /\ \A i \in Q : PreparedAt(n, s, i, m.height, m.hdr.view)
    /\ m.type = "RecoveryMessage" => ReportReal(n, s, m)

ClaimsReal(n, s) ==
    /\ ContextReal(n, s)
    /\ \A m \in s.out : PayloadReal(n, s, m)
    /\ s.loop # Nil => ReportReal(n, s, s.loop.msg)

\* Every validator says only what the others have sent.
ClaimsInv == \A n \in Validator : ClaimsReal(n, node[n])

-----------------------------------------------------------------------------
(* A quiet period: no timer fires but the one that makes a primary propose, *)
(* nobody crashes, and every goroutine keeps running.                       *)

Propose(n) == n = PrimaryIndex(node[n]) /\ ~RequestSentOrReceived(node[n]) /\ OnTimeout(n)

QuietNext == \E n \in Active :
    \/ Start(n)
    \/ Receive(n)
    \/ Propose(n)
    \/ OnTransaction(n)
    \/ SyncBlock(n)
    \/ handleChainBlock(n)

QuietSpec ==
    /\ Init
    /\ [][QuietNext]_vars
    /\ \A n \in Active :
         /\ WF_vars(Start(n))
         /\ WF_vars(Receive(n))
         /\ WF_vars(Propose(n))
         /\ WF_vars(OnTransaction(n))
         /\ WF_vars(handleChainBlock(n))

\* If M validators run, a quiet period decides block after block.
Progress == \A h \in 1..MaxHeight : <>(\A n \in Active : Len(node[n].chain) >= h)

=============================================================================
