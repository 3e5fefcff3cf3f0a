----------------------------- MODULE StateRoot -----------------------------
(***************************************************************************)
(* State validation at one node: the state root module's list of validator *)
(* keys and validated roots, and the state root service that collects the  *)
(* validators' signatures, sends the finished root and resends its vote.   *)
(*                                                                         *)
(* The chain stores blocks, which may replace the validators; the service  *)
(* learns of a block later, through its channel.  Votes and finished roots *)
(* of the other validators arrive in any order, before or after the block  *)
(* they are about, each once (the extensible pool drops repetitions).  A   *)
(* signature is the pair of its signer and the root it signs; a witness is *)
(* a list of validators and the set of signatures.                         *)
(***************************************************************************)
EXTENDS Integers, FiniteSets, Sequences, SequencesExt, TLC

CONSTANTS Designated,            \* designation index -> list of validators
          Me,                    \* the validator whose key this node's wallet has
          MaxHeight, MaxRestarts,
          voteValidEndInc        \* 10 in the code, also the number of retries

VARIABLES height,                \* blocks stored, each with its local root
          local,                 \* height -> root
          pending,               \* blocks the service has not seen yet
          keys,                  \* Module.keys
          acc,                   \* index of the account, none without one
          incomplete,            \* incompleteRoots
          timers,                \* votes with a timer to resend them
          witness,               \* height -> witness of the stored root
          validatedHeight,
          seen,                  \* payloads handled
          sent,                  \* roots this node has sent
          restarts

module == <<height, local, keys, witness, validatedHeight>>
vars == <<height, local, pending, keys, acc, incomplete, timers, witness,
          validatedHeight, seen, sent, restarts>>

Height == 1 .. MaxHeight
Right == "r"                     \* the root of the other validators
Wrong == "w"                     \* that of this node when its state has diverged
none == -1
NoWitness == [list |-> <<>>, sigs |-> {}]

GetDefaultHonestNodeCount(n) == n - ((n - 1) \div 3)

\* the validators of a height, and the index of their designation
IndexFor(h) == CHOOSE i \in DOMAIN Designated :
                 i <= h /\ \A j \in DOMAIN Designated : j <= h => j <= i
Validators(h) == Designated[IndexFor(h)]

\* a multi-signature witness of a list: enough of its members have signed
Signs(w, root) == Cardinality({v \in Range(w.list) : [by |-> v, root |-> root] \in w.sigs})
                    >= GetDefaultHonestNodeCount(Len(w.list))

----------------------------------------------------------------------------
\* the module

getKeyCacheForHeight(h) ==
  LET found == {i \in DOMAIN keys : keys[i].height <= h /\
                                    (i = Len(keys) \/ keys[i + 1].height < h)} IN
  IF found = {} THEN <<>> ELSE keys[CHOOSE i \in found : \A j \in found : j <= i].list

\* UpdateStateValidators: the list of a block, appended when it is new
UpdatedKeys(index, list) ==
  IF getKeyCacheForHeight(index) = list THEN keys
  ELSE Append(keys, [height |-> index, list |-> list])

IndexIn(list) == IF Me \in Range(list) THEN (CHOOSE i \in DOMAIN list : list[i] = Me) - 1
                                       ELSE none

\* VerifyStateRoot of a root for h with witness w
Verified(h, root, w) ==
  /\ h - 1 <= height
  /\ w.list # <<>>
  /\ w.list = getKeyCacheForHeight(h) /\ Signs(w, root)

AddStateRoot(h, root, w) ==
  IF Verified(h, root, w) /\ h <= height /\ local[h] = root /\ witness[h] = NoWitness
  THEN /\ witness' = [witness EXCEPT ![h] = w]
       /\ validatedHeight' = h
  ELSE UNCHANGED <<witness, validatedHeight>>

Mismatch(h, root, w) == Verified(h, root, w) /\ h <= height /\ local[h] # root

----------------------------------------------------------------------------
\* the service

getIncompleteRoot(h, myIndex) ==
  IF h \in DOMAIN incomplete THEN incomplete[h]
  ELSE [svList |-> getKeyCacheForHeight(h), myIndex |-> myIndex, root |-> "",
        sigs |-> <<>>, isSent |-> FALSE, retries |-> 0]

\* a signature is verified when it comes in, or when the root is known
addSignature(ir, pub, sig) ==
  [ir EXCEPT !.sigs = (pub :> [sig |-> sig, ok |-> ir.root # ""]) @@ @]

VerifyHashable(pub, sig, root) == sig = [by |-> pub, root |-> root]

reverify(ir) ==
  [ir EXCEPT !.sigs = [p \in DOMAIN @ |->
     [@[p] EXCEPT !.ok = @ \/ VerifyHashable(p, ir.sigs[p].sig, ir.root)]]]

isSenderNow_bug(h, ir) ==
  /\ ir.root # "" /\ ir.svList # <<>>
  /\ (h - (IF ir.retries < 0 THEN 0 ELSE ir.retries)) % Len(ir.svList) = ir.myIndex

isSenderNow(h, ir) ==
  /\ ir.root # "" /\ ~ir.isSent /\ ir.svList # <<>>
  /\ (h - (IF ir.retries < 0 THEN 0 ELSE ir.retries)) % Len(ir.svList) = ir.myIndex

\* finalize: the first signatures, in the order of the list
Usable(ir) == SelectSeq(ir.svList, LAMBDA p : p \in DOMAIN ir.sigs /\ ir.sigs[p].ok)
finalize(ir) ==
  LET m == GetDefaultHonestNodeCount(Len(ir.svList)) IN
  [ready |-> Len(Usable(ir)) >= m,
   witness |-> [list |-> ir.svList, sigs |-> {ir.sigs[Usable(ir)[i]].sig :
                                                i \in 1 .. IF Len(Usable(ir)) < m THEN 0 ELSE m}]]

\* trySendRoot: the root is sent whether or not the module took it
Sends(h, ir) == isSenderNow(h, ir) /\ finalize(ir).ready

trySendRoot(h, ir) ==
  IF Sends(h, ir)
  THEN /\ AddStateRoot(h, ir.root, finalize(ir).witness)
       /\ sent' = Append(sent, [height |-> h, root |-> ir.root, witness |-> finalize(ir).witness])
  ELSE UNCHANGED <<witness, validatedHeight, sent>>

Tried(h, ir) == [ir EXCEPT !.isSent = @ \/ Sends(h, ir)]

Set(f, x, v) == (x :> v) @@ f
Without(f, x) == [y \in DOMAIN f \ {x} |-> f[y]]

\* whether sendVote goes on: the vote is still wanted and valid
WantsVote(h, ir) == /\ ~ir.isSent /\ ir.retries < voteValidEndInc
                    /\ height < h + voteValidEndInc

Init ==
  /\ height = 0 /\ local = <<>> /\ pending = <<>>
  /\ keys = <<[height |-> 0, list |-> Designated[0]]>>
  /\ acc = 0
  /\ incomplete = <<>> /\ timers = {}
  /\ witness = [h \in Height |-> NoWitness] /\ validatedHeight = 0
  /\ seen = {} /\ sent = <<>> /\ restarts = 0

\* storeBlock: the validators of the block are told to the module and the
\* service, the local root is stored, the block goes to the subscribers
storeBlock(root) ==
  LET h == height + 1 IN
  /\ h <= MaxHeight
  /\ height' = h
  /\ local' = Append(local, root)
  /\ keys' = UpdatedKeys(IndexFor(h), Validators(h))
  /\ acc' = IndexIn(Validators(h))
  /\ pending' = Append(pending, h)
  /\ UNCHANGED <<incomplete, timers, witness, validatedHeight, seen, sent, restarts>>

\* the run loop on a block: signAndSend, and the oldest root is forgotten
onBlock ==
  /\ pending # <<>>
  /\ LET h == Head(pending)
         old == h - voteValidEndInc
         signed == addSignature([getIncompleteRoot(h, acc) EXCEPT !.root = local[h]],
                                Me, [by |-> Me, root |-> local[h]])
         ir == reverify(signed)
         voted == [Tried(h, ir) EXCEPT !.retries = -1] IN
     IF acc = none
     THEN /\ incomplete' = Without(incomplete, old)
          /\ UNCHANGED <<timers, witness, validatedHeight, sent>>
     ELSE /\ trySendRoot(h, ir)
          /\ incomplete' = Without(Set(incomplete, h,
               IF WantsVote(h, voted) THEN [voted EXCEPT !.retries = 0] ELSE voted), old)
          /\ timers' = IF WantsVote(h, voted) THEN timers \union {h} ELSE timers
  /\ pending' = Tail(pending)
  /\ UNCHANGED <<height, local, keys, acc, seen, restarts>>

\* the timer of a vote: sendVote, which sets the next one
resend(h) ==
  /\ h \in timers
  /\ h \in DOMAIN incomplete
  /\ LET go == WantsVote(h, incomplete[h]) IN
     /\ incomplete' = IF go THEN [incomplete EXCEPT ![h].retries = @ + 1] ELSE incomplete
     /\ timers' = IF go THEN timers ELSE timers \ {h}
  /\ UNCHANGED <<height, local, pending, keys, acc, witness, validatedHeight, seen, sent, restarts>>

\* AddSignature with the vote of the validator at index i of the list for h
AddSignature(h, i) ==
  LET by == Validators(h)[i + 1]
      sig == [by |-> by, root |-> Right]
      ir == getIncompleteRoot(h, acc)
      pub == ir.svList[i + 1]
      ok == i < Len(ir.svList) /\ (ir.root # "" => VerifyHashable(pub, sig, ir.root))
      ir1 == addSignature(ir, pub, sig) IN
  /\ <<"vote", h, by>> \notin seen
  /\ seen' = seen \union {<<"vote", h, by>>}
  /\ IF acc # none /\ ok
     THEN /\ trySendRoot(h, ir1)
          /\ incomplete' = Set(incomplete, h, Tried(h, ir1))
     ELSE /\ incomplete' = IF acc = none THEN incomplete ELSE Set(incomplete, h, ir)
          /\ UNCHANGED <<witness, validatedHeight, sent>>
  /\ UNCHANGED <<height, local, pending, keys, acc, timers, restarts>>

\* OnPayload with a finished root of another validator
OnRoot(h, w) ==
  /\ <<"root", h, w.list>> \notin seen
  /\ seen' = seen \union {<<"root", h, w.list>>}
  /\ AddStateRoot(h, Right, w)
  /\ incomplete' = IF h \in DOMAIN incomplete /\ ~Mismatch(h, Right, w)
                   THEN [incomplete EXCEPT ![h].isSent = TRUE] ELSE incomplete
  /\ UNCHANGED <<height, local, pending, keys, acc, timers, sent, restarts>>

\* the node is stopped and started: the stored roots stay
restart ==
  /\ restarts < MaxRestarts
  /\ restarts' = restarts + 1
  /\ pending' = <<>> /\ keys' = <<>> /\ acc' = 0
  /\ incomplete' = <<>> /\ timers' = {} /\ seen' = {}
  /\ UNCHANGED <<height, local, witness, validatedHeight, sent>>

\* the witness another validator finishes: of the list it had for h, which may
\* be that of the designation before
Finished(h) ==
  {[list |-> l, sigs |-> {[by |-> v, root |-> Right] : v \in Range(l)}] :
     l \in {Validators(h), Validators(h - 1)}}

Next ==
  \/ \E root \in {Right, Wrong} : storeBlock(root)
  \/ onBlock
  \/ \E h \in Height : resend(h)
  \/ \E h \in Height : \E i \in 0 .. Len(Validators(h)) - 1 :
       Validators(h)[i + 1] # Me /\ AddSignature(h, i)
  \/ \E h \in Height : \E w \in Finished(h) : OnRoot(h, w)
  \/ restart

Spec == Init /\ [][Next]_vars

----------------------------------------------------------------------------
\* A root is marked validated only when enough of the validators designated
\* for its height have signed the very root this node computed: the list the
\* witness is checked against is the right one whatever late roots and restarts
\* came before (VerifyStateRoot, getKeyCacheForHeight).  With at most two
\* designations: getKeyCacheForHeight wants the next list to begin before the
\* height, and so takes the first of three lists for a height of the second.
ValidatedIsSigned ==
  \A h \in Height : witness[h] # NoWitness =>
    /\ h <= height
    /\ witness[h].list = Validators(h)
    /\ Signs(witness[h], local[h])

\* Every root this node sends carries enough signatures of its list that hold
\* for the root, those that came before the root was known included (reverify,
\* finalize).
SentHasQuorum ==
  \A i \in DOMAIN sent : Signs(sent[i].witness, sent[i].root) /\ sent[i].root = local[sent[i].height]

\* A node sends the root of a height at most once, although every retry makes
\* another validator the sender and forgotten roots come back with late votes.
SentOnce ==
  \A i, j \in DOMAIN sent : sent[i].height = sent[j].height => i = j

=============================================================================
