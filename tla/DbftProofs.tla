----------------------------- MODULE DbftProofs -----------------------------
(***************************************************************************)
(* SignedInv is an inductive invariant of Dbft: the methods of send.go,    *)
(* check.go and context.go and the handlers of dbft.go preserve LocalInv,  *)
(* the loops of onRecoveryMessage included, and every action changes the   *)
(* state of one validator as they do.  From it: types, one commit per      *)
(* height, agreement of the ledgers, and that a signature keeps its view.  *)
(*                                                                         *)
(* Each method is an operator on the state s of one validator n, so each   *)
(* gets a lemma: it preserves LocalInv and drops nothing n has broadcast.  *)
(* sigs stands for the signatures sent so far.                             *)
(***************************************************************************)
EXTENDS Dbft, TLAPS, FiniteSetTheorems, WellFoundedInduction

-----------------------------------------------------------------------------
(* Counting *)

\* A quorum is not empty, and two quorums share more than F validators.
LEMMA QuorumSize == F \in Nat /\ M \in Nat /\ M >= 1 /\ M <= N /\ 2 * M - N > F
BY NAssumption DEF F, M

\* The primary of a height and view is a validator.
LEMMA PrimaryIsValidator ==
    ASSUME NEW s \in NodeState
    PROVE  PrimaryIndex(s) \in Validator
<1>1. s.height - s.view \in Int
  BY DEF NodeState
<1> QED
  BY <1>1, NAssumption DEF PrimaryIndex, GetPrimaryIndex, Validator

\* A non-empty set of validators has a lowest index: CHOOSE finds it.
LEMMA LowestIndex ==
    ASSUME NEW S \in SUBSET Validator, S # {}
    PROVE  (CHOOSE i \in S : \A j \in S : i <= j) \in S
<1>1. S \subseteq Nat
  BY NAssumption DEF Validator
<1>2. PICK i \in S : \A j \in S : ~(<<j, i>> \in OpToRel(<, Nat))
  BY <1>1, NatLessThanWellFounded, WFMin, Zenon
<1>3. \A j \in S : ~(j < i)
  BY <1>1, <1>2, Zenon DEF OpToRel
<1>4. \A j \in S : i <= j
  BY <1>1, <1>3
<1> QED BY <1>4, Zenon

\* What a Commit payload carries.
LEMMA CommitType ==
    ASSUME NEW s \in NodeState, NEW m \in Commits(s)
    PROVE  m.height \in Nat /\ m.hdr \in Header
<1>1. m \in Payload /\ m.type = "Commit"
  BY Zenon DEF Commits, NodeState
<1> HIDE DEF Header
<1>2. m \in [type : {"Commit"}, height : Nat, view : Nat, hdr : Header]
  BY <1>1, Zenon DEF Payload, RecoveryPayload
<1> QED BY <1>2, Zenon

-----------------------------------------------------------------------------
(* Changes that do not touch what was signed *)

\* A change of the other fields, and a broadcast of a payload that is no
\* Commit, preserve the invariant as long as n still knows the request and
\* its own preparation.
LEMMA Frame ==
    ASSUME NEW n \in Validator, NEW sigs, NEW s, LocalInv(n, s, sigs),
           NEW t \in NodeState,
           t.up => s.up,
           t.height = s.height, t.chain = s.chain, t.commit = s.commit, t.loose = s.loose,
           s.out \subseteq t.out, Commits(t) = Commits(s),
           \A m \in t.out \ s.out : m.type = "RecoveryMessage" => RecoveryTrue(n, s, sigs, m),
           t.loop # Nil => (t.loop = s.loop \/ (RecoveryTrue(n, s, sigs, t.loop.msg) /\ LoopFits(t.loop))),
           RequestPlaced(t),
           ~s.loose /\ ResponseSent(n, s) /\ RequestSentOrReceived(s)
               => ResponseSent(n, t) /\ RequestSentOrReceived(t)
    PROVE  LocalInv(n, t, sigs)
<1>1. \A i, h, b : Known(n, t, sigs, i, h, b) <=> Known(n, s, sigs, i, h, b)
  BY Zenon DEF Known, HasSigned
<1>2. \A m : RecoveryTrue(n, t, sigs, m) <=> RecoveryTrue(n, s, sigs, m)
  BY <1>1, Zenon DEF RecoveryTrue
<1>3. SignaturesReal(n, t, sigs)
  <2>1. \A i \in Validator : t.commit[i] # Nil => Known(n, t, sigs, i, t.height, t.commit[i].hdr)
    BY <1>1, Zenon DEF LocalInv, SignaturesReal
  <2>2. \A m \in t.out : m.type = "RecoveryMessage" => RecoveryTrue(n, t, sigs, m)
    BY <1>2, Zenon DEF LocalInv, SignaturesReal
  <2>3. t.loop # Nil => RecoveryTrue(n, t, sigs, t.loop.msg) /\ LoopFits(t.loop)
    BY <1>2, Zenon DEF LocalInv, SignaturesReal
  <2> QED BY <2>1, <2>2, <2>3, Zenon DEF SignaturesReal
<1>4. ChainBacked(n, t, sigs)
  BY <1>1, Zenon DEF LocalInv, ChainBacked, Backed
<1>5. t.loose \/ Locked(n, t)
  BY Zenon DEF LocalInv, Locked, CommitSent
<1> QED BY <1>3, <1>4, <1>5, Zenon DEF LocalInv

-----------------------------------------------------------------------------
(* InitializeConsensus *)

\* A context that was reset has its type.
LEMMA InitializeConsensusType ==
    ASSUME NEW n \in Validator, NEW s \in NodeState, NEW v \in Nat
    PROVE  InitializeConsensus(n, s, v) \in NodeState
<1> DEFINE h == IF v = 0 THEN Len(s.chain) + 1 ELSE s.height
           lc == [i \in Validator |-> IF v # 0 /\ s.cv[i] < v THEN s.cv[i] ELSE 0]
           lo == s.loose \/ (v = 0 /\ Forgets(s))
<1>1. h \in Nat BY DEF NodeState
<1>2. lc \in [Validator -> Nat] BY Zenon DEF NodeState
<1>3. lo \in BOOLEAN BY Zenon
<1>4. InitializeConsensus(n, s, v) =
       [up |-> s.up, height |-> h, view |-> v,
        prep |-> [i \in Validator |-> Nil], commit |-> [i \in Validator |-> Nil],
        cv |-> [i \in Validator |-> 0], lastCv |-> lc,
        seen |-> [s.seen EXCEPT ![n] = [height |-> h, view |-> v]],
        txs |-> "none", loop |-> s.loop, chain |-> s.chain, out |-> s.out,
        loose |-> lo]
   BY Zenon DEF InitializeConsensus
<1> HIDE DEF h, lc, lo
<1> QED BY <1>1, <1>2, <1>3, <1>4 DEF NodeState, SeenSlot, CommitSlot, PrepSlot

\* n may only leave a view for a later one if it signed nothing at its height.
LEMMA InitializeConsensusInv ==
    ASSUME NEW n \in Validator, NEW sigs, NEW s, LocalInv(n, s, sigs), NEW v \in Nat,
           v = 0 \/ s.loose \/ \A m \in Commits(s) : m.height # s.height
    PROVE  /\ LocalInv(n, InitializeConsensus(n, s, v), sigs)
           /\ InitializeConsensus(n, s, v).out = s.out
           /\ InitializeConsensus(n, s, v).up = s.up
<1> DEFINE t == InitializeConsensus(n, s, v)
<1>0. s \in NodeState BY Zenon DEF LocalInv
<1>1. t \in NodeState BY <1>0, InitializeConsensusType, Zenon
<1>2. /\ t.up = s.up /\ t.out = s.out /\ t.chain = s.chain /\ t.loop = s.loop
      /\ t.height = IF v = 0 THEN Len(s.chain) + 1 ELSE s.height
      /\ t.prep = [i \in Validator |-> Nil] /\ t.commit = [i \in Validator |-> Nil]
      /\ t.loose = (s.loose \/ (v = 0 /\ Forgets(s)))
  BY Zenon DEF InitializeConsensus
<1> HIDE DEF t
<1>3. t.height <= Len(t.chain) + 1
  BY <1>0, <1>1, <1>2, SMTT(30) DEF LocalInv, NodeState
<1>4. RequestPlaced(t)
  BY <1>2, Zenon DEF RequestPlaced
<1>5. Commits(t) = Commits(s)
  BY <1>2, Zenon DEF Commits
<1>6. \A i, h, b : Known(n, t, sigs, i, h, b) <=> Known(n, s, sigs, i, h, b)
  BY <1>5, Zenon DEF Known, HasSigned
<1>7. SignaturesReal(n, t, sigs)
  BY <1>2, <1>6, Zenon DEF LocalInv, SignaturesReal, RecoveryTrue
<1>8. ChainBacked(n, t, sigs)
  BY <1>2, <1>6, Zenon DEF LocalInv, ChainBacked, Backed
<1>9. ASSUME ~t.loose PROVE Locked(n, t)
  <2>1. ~s.loose /\ Locked(n, s)
    BY <1>2, <1>9, Zenon DEF LocalInv
  <2>2. ASSUME t.up, NEW m \in Commits(t) PROVE m.height < t.height
    <3>1. m \in s.out /\ m.type = "Commit" /\ m.height \in Nat
      BY <1>0, <1>5, <2>2, CommitType, Zenon DEF Commits
    <3>2. CASE v = 0
      <4>1. ~Forgets(s)
        BY <1>2, <1>9, <3>2, Zenon
      <4>2. ~(m.height > Len(s.chain))
        BY <3>1, <4>1, Zenon DEF Forgets
      <4>3. Len(s.chain) \in Nat /\ t.height = Len(s.chain) + 1
        BY <1>0, <1>2, <3>2 DEF NodeState
      <4> QED BY <3>1, <4>2, <4>3
    <3>3. CASE v # 0
      BY <1>0, <1>2, <1>5, <2>1, <2>2, <3>1, <3>3, SMTT(30) DEF Locked, NodeState
    <3> QED BY <3>2, <3>3, Zenon
  <2>3. \A a, b \in Commits(t) : a.height = b.height => a.hdr = b.hdr
    BY <1>5, <2>1, Zenon DEF Locked
  <2>4. ASSUME t.up, NEW m \in Commits(t) PROVE m.height <= t.height /\ m.height # t.height
    <3>1. m.height \in Nat /\ t.height \in Nat
      BY <1>1, <2>4, CommitType, Zenon DEF NodeState
    <3> QED BY <3>1, <2>2, <2>4
  <2> QED BY <2>3, <2>4, Zenon DEF Locked
<1> QED BY <1>1, <1>2, <1>3, <1>4, <1>7, <1>8, <1>9, Zenon DEF LocalInv, t

-----------------------------------------------------------------------------
(* check.go and send.go: commits *)

\* Signing needs a request; its block is the one of the request.
LEMMA MakeHeaderType ==
    ASSUME NEW s \in NodeState, RequestSentOrReceived(s)
    PROVE  MakeHeader(s) \in Header
BY PrimaryIsValidator, Zenon DEF MakeHeader, NodeState, PrepSlot, Header, RequestSentOrReceived

\* A new Commit payload has its type.
LEMMA MakeCommitType ==
    ASSUME NEW n \in Validator, NEW s \in NodeState, RequestSentOrReceived(s)
    PROVE  makeCommit(n, s) \in [view : Nat, hdr : Header]
BY MakeHeaderType, Zenon DEF makeCommit, CommitSent, NodeState, CommitSlot

\* A validator that is bound signs the block it signed before, and one that
\* signs a first block is bound by it, or loose.
LEMMA SendCommitInv ==
    ASSUME NEW n \in Validator, NEW sigs, NEW s, LocalInv(n, s, sigs), s.up,
           RequestSentOrReceived(s)
    PROVE  /\ LocalInv(n, sendCommit(n, s), sigs)
           /\ s.out \subseteq sendCommit(n, s).out
           /\ sendCommit(n, s).up
<1> DEFINE c == makeCommit(n, s)
           msg == [type |-> "Commit", height |-> s.height, view |-> c.view, hdr |-> c.hdr]
           t == sendCommit(n, s)
<1>0. s \in NodeState BY Zenon DEF LocalInv
<1>1. c \in [view : Nat, hdr : Header]
  BY <1>0, MakeCommitType, Zenon
<1>2. t = [s EXCEPT !.commit[n] = c, !.loose = @ \/ ~ResponseSent(n, s), !.out = @ \cup {msg}]
  BY <1>0, Zenon DEF sendCommit, broadcast, NodeState
<1>3. msg \in Payload /\ msg.type = "Commit" /\ msg.height = s.height /\ msg.hdr = c.hdr
  <2> HIDE DEF c, Header
  <2> QED BY <1>0, <1>1, Zenon DEF Payload, NodeState
<1>4. CommitSent(n, s) => c = s.commit[n]
  BY Zenon DEF makeCommit
<1> HIDE DEF c, msg, t
<1>5. t \in NodeState
  BY <1>0, <1>1, <1>2, <1>3, Zenon DEF NodeState, CommitSlot
<1>6. /\ t.up = s.up /\ t.height = s.height /\ t.chain = s.chain /\ t.loop = s.loop
      /\ t.prep = s.prep /\ t.view = s.view
      /\ t.commit = [s.commit EXCEPT ![n] = c] /\ t.out = s.out \cup {msg}
      /\ ~t.loose => ~s.loose /\ ResponseSent(n, s)
  BY <1>0, <1>2, Zenon DEF NodeState
<1>7. Commits(t) = Commits(s) \cup {msg}
  BY <1>3, <1>6, Zenon DEF Commits
<1>8. \A i, h, b : Known(n, s, sigs, i, h, b) => Known(n, t, sigs, i, h, b)
  BY <1>7, Zenon DEF Known, HasSigned
<1>9. Known(n, t, sigs, n, s.height, c.hdr)
  BY <1>3, <1>7, Zenon DEF Known, HasSigned
<1>10. RequestPlaced(t)
  BY <1>6, ZenonT(40) DEF LocalInv, RequestPlaced, PrimaryIndex
<1>11. SignaturesReal(n, t, sigs)
  <2>1. \A i \in Validator : t.commit[i] # Nil => Known(n, t, sigs, i, t.height, t.commit[i].hdr)
    BY <1>0, <1>6, <1>8, <1>9, ZenonT(40) DEF LocalInv, SignaturesReal, NodeState
  <2>2. \A m \in t.out : m.type = "RecoveryMessage" => RecoveryTrue(n, t, sigs, m)
    BY <1>3, <1>6, <1>8, Zenon DEF LocalInv, SignaturesReal, RecoveryTrue
  <2>3. t.loop # Nil => RecoveryTrue(n, t, sigs, t.loop.msg) /\ LoopFits(t.loop)
    BY <1>6, <1>8, Zenon DEF LocalInv, SignaturesReal, RecoveryTrue
  <2> QED BY <2>1, <2>2, <2>3, Zenon DEF SignaturesReal
<1>12. ChainBacked(n, t, sigs)
  BY <1>6, <1>8, Zenon DEF LocalInv, ChainBacked, Backed
<1>13. ASSUME ~t.loose PROVE Locked(n, t)
  <2>1. Locked(n, s) /\ ResponseSent(n, s)
    BY <1>6, <1>13, Zenon DEF LocalInv
  <2>2. ASSUME NEW m \in Commits(s), m.height = s.height PROVE m.hdr = c.hdr
    <3>1. CommitSent(n, s) /\ s.commit[n].hdr = m.hdr
      BY <2>1, <2>2, Zenon DEF Locked
    <3> QED BY <3>1, <1>4, Zenon
  <2>3. \A a, b \in Commits(t) : a.height = b.height => a.hdr = b.hdr
    BY <1>3, <1>7, <2>1, <2>2, Zenon DEF Locked
  <2>4. ASSUME NEW m \in Commits(t) PROVE m.height <= t.height
    BY <1>0, <1>3, <1>6, <1>7, <2>1, SMTT(30) DEF Locked, NodeState
  <2>5. CommitSent(n, t) /\ t.commit[n] = c
    BY <1>0, <1>1, <1>6, NilAssumption, SMTT(30) DEF CommitSent, NodeState
  <2>6. ResponseSent(n, t) /\ RequestSentOrReceived(t)
    BY <1>6, <2>1, Zenon DEF ResponseSent, RequestSentOrReceived, PrimaryIndex
  <2>7. \A m \in Commits(t) : m.height = t.height => m.hdr = c.hdr
    BY <1>3, <1>6, <1>7, <2>2, Zenon
  <2> QED BY <2>3, <2>4, <2>5, <2>6, <2>7, Zenon DEF Locked
<1> QED BY <1>5, <1>6, <1>10, <1>11, <1>12, <1>13, Zenon DEF LocalInv, t

\* The next block enters the ledger with M signatures.
LEMMA AppendInv ==
    ASSUME NEW n \in Validator, NEW sigs, NEW s, LocalInv(n, s, sigs), NEW b \in Header,
           Backed(n, s, sigs, Len(s.chain) + 1, b)
    PROVE  LET t == [s EXCEPT !.chain = Append(@, b)]
           IN LocalInv(n, t, sigs) /\ t.out = s.out /\ t.up = s.up
<1> DEFINE t == [s EXCEPT !.chain = Append(@, b)]
<1>0. s \in NodeState BY Zenon DEF LocalInv
<1>1. Append(s.chain, b) \in Seq(Header) /\ s.chain \in Seq(Header)
  BY <1>0 DEF NodeState
<1> HIDE DEF Header
<1>2. t \in NodeState
  BY <1>0, <1>1, ZenonT(40) DEF NodeState
<1>3. /\ t.up = s.up /\ t.height = s.height /\ t.view = s.view /\ t.loop = s.loop /\ t.prep = s.prep
      /\ t.commit = s.commit /\ t.out = s.out /\ t.loose = s.loose
      /\ t.chain = Append(s.chain, b)
  BY <1>0, Zenon DEF NodeState
<1> HIDE DEF t
<1>4. Commits(t) = Commits(s)
  BY <1>3, Zenon DEF Commits
<1>5. \A i, h, x : Known(n, t, sigs, i, h, x) <=> Known(n, s, sigs, i, h, x)
  BY <1>4, Zenon DEF Known, HasSigned
<1>6. Len(t.chain) = Len(s.chain) + 1 /\ Len(s.chain) \in Nat /\ s.height \in Nat
  BY <1>0, <1>1, <1>3, SMTT(30) DEF NodeState
<1>7. RequestPlaced(t) /\ SignaturesReal(n, t, sigs)
  BY <1>3, <1>5, Zenon DEF LocalInv, RequestPlaced, PrimaryIndex, SignaturesReal, RecoveryTrue
<1>8. ASSUME NEW h \in 1..Len(t.chain) PROVE Backed(n, t, sigs, h, t.chain[h])
  <2>1. CASE h \in 1..Len(s.chain)
    <3>1. t.chain[h] = s.chain[h]
      BY <1>1, <1>3, <2>1
    <3> QED BY <1>5, <2>1, <3>1, Zenon DEF LocalInv, ChainBacked, Backed
  <2>2. CASE h = Len(s.chain) + 1
    <3>1. t.chain[h] = b
      BY <1>1, <1>3, <1>6, <2>2, SMTT(30)
    <3> QED BY <1>5, <2>2, <3>1, Zenon DEF Backed
  <2> QED BY <1>6, <1>8, <2>1, <2>2
<1>9. t.loose \/ Locked(n, t)
  BY <1>3, <1>4, Zenon DEF LocalInv, Locked, CommitSent, ResponseSent, RequestSentOrReceived, PrimaryIndex
<1>10. t.height <= Len(t.chain) + 1
  BY <1>3, <1>6 DEF LocalInv
<1> QED BY <1>2, <1>3, <1>7, <1>8, <1>9, <1>10, Zenon DEF LocalInv, ChainBacked, t

\* The block of a valid witness is signed by M validators.
LEMMA ProcessBlockInv ==
    ASSUME NEW n \in Validator, NEW sigs, NEW s, LocalInv(n, s, sigs), NEW e
    PROVE  /\ LocalInv(n, processBlock(s, e), sigs)
           /\ processBlock(s, e).out = s.out
           /\ processBlock(s, e).up = s.up
<1> DEFINE b == MakeHeader(s)
           t == [s EXCEPT !.chain = Append(@, b)]
<1>0. s \in NodeState BY Zenon DEF LocalInv
<1> SUFFICES ASSUME Len(s.chain) = s.height - 1, WitnessValid(s)
             PROVE  LocalInv(n, t, sigs) /\ t.out = s.out /\ t.up = s.up
  BY Zenon DEF processBlock
<1>1. PICK Q \in SUBSET Validator :
        /\ Cardinality(Q) = M
        /\ \A i \in Q : s.commit[i] # Nil /\ s.commit[i].hdr = b
  BY Zenon DEF WitnessValid
<1>2. PICK q : q \in Q
  BY <1>1, QuorumSize, FS_EmptySet
<1>3. b \in Header
  <2>1. s.commit[q] \in CommitSlot /\ s.commit[q] # Nil /\ s.commit[q].hdr = b
    BY <1>0, <1>1, <1>2, Zenon DEF NodeState
  <2> HIDE DEF b, Header
  <2> QED BY <2>1, Zenon DEF CommitSlot
<1> HIDE DEF b
<1>4. \A i \in Q : Known(n, s, sigs, i, s.height, b)
  BY <1>1, Zenon DEF LocalInv, SignaturesReal
<1>5. Len(s.chain) + 1 = s.height
  BY <1>0 DEF NodeState
<1>6. Backed(n, s, sigs, Len(s.chain) + 1, b)
  BY <1>1, <1>4, <1>5, Zenon DEF Backed
<1> QED BY <1>3, <1>6, AppendInv

\* M commits make a block.
LEMMA CheckCommitInv ==
    ASSUME NEW n \in Validator, NEW sigs, NEW s, LocalInv(n, s, sigs), NEW e
    PROVE  /\ LocalInv(n, checkCommit(n, s, e), sigs)
           /\ checkCommit(n, s, e).out = s.out
           /\ checkCommit(n, s, e).up = s.up
BY ProcessBlockInv, InitializeConsensusInv, SMTT(30) DEF checkCommit

\* M preparations make a validator sign.
LEMMA CheckPrepareInv ==
    ASSUME NEW n \in Validator, NEW sigs, NEW s, LocalInv(n, s, sigs), s.up, NEW e
    PROVE  /\ LocalInv(n, checkPrepare(n, s, e), sigs)
           /\ s.out \subseteq checkPrepare(n, s, e).out
           /\ checkPrepare(n, s, e).up
<1>1. CASE \E i \in Validator : s.prep[i] # Nil /\ s.prep[i].kind = "req"
  <2>1. RequestSentOrReceived(s)
    BY <1>1, Zenon DEF LocalInv, RequestPlaced, RequestSentOrReceived
  <2> QED BY <2>1, SendCommitInv, CheckCommitInv, SMTT(30) DEF checkPrepare
<1>2. CASE ~\E i \in Validator : s.prep[i] # Nil /\ s.prep[i].kind = "req"
  BY <1>2, Zenon DEF checkPrepare
<1> QED BY <1>1, <1>2, Zenon

-----------------------------------------------------------------------------
(* send.go: the other payloads *)

\* A payload that is neither a Commit nor a recovery message can be broadcast
\* together with a change of the preparations and the change views.
LEMMA BroadcastInv ==
    ASSUME NEW n \in Validator, NEW sigs, NEW s, LocalInv(n, s, sigs),
           NEW t \in NodeState, NEW m \in Payload,
           m.type # "Commit", m.type = "RecoveryMessage" => RecoveryTrue(n, s, sigs, m),
           t.up = s.up, t.height = s.height, t.chain = s.chain, t.commit = s.commit,
           t.loose = s.loose, t.loop = s.loop, t.out = s.out \cup {m},
           RequestPlaced(t),
           ~s.loose /\ ResponseSent(n, s) /\ RequestSentOrReceived(s)
               => ResponseSent(n, t) /\ RequestSentOrReceived(t)
    PROVE  LocalInv(n, t, sigs)
<1>1. Commits(t) = Commits(s)
  BY Zenon DEF Commits
<1>2. \A x \in t.out \ s.out : x.type = "RecoveryMessage" => RecoveryTrue(n, s, sigs, x)
  BY Zenon
<1> QED BY <1>1, <1>2, Frame, Zenon

\* The state in which sendPrepareRequest calls checkPrepare.
proposed(n, s, v) ==
    broadcast([s EXCEPT !.prep[n] = [kind |-> "req", val |-> v], !.txs = "made"],
              [type |-> "PrepareRequest", height |-> s.height, view |-> s.view, val |-> v])

\* The primary files its own request.
LEMMA ProposedInv ==
    ASSUME NEW n \in Validator, NEW sigs, NEW s, LocalInv(n, s, sigs),
           n = PrimaryIndex(s), NEW v \in Proposals
    PROVE  /\ LocalInv(n, proposed(n, s, v), sigs)
           /\ s.out \subseteq proposed(n, s, v).out
           /\ proposed(n, s, v).up = s.up
<1> DEFINE m == [type |-> "PrepareRequest", height |-> s.height, view |-> s.view, val |-> v]
           r == [kind |-> "req", val |-> v]
           t == [s EXCEPT !.prep[n] = r, !.txs = "made", !.out = @ \cup {m}]
<1>0. s \in NodeState BY Zenon DEF LocalInv
<1>1. m \in Payload /\ m.type = "PrepareRequest"
  BY <1>0, Zenon DEF Payload, NodeState
<1>2. r \in PrepSlot /\ r # Nil
  BY NilAssumption DEF PrepSlot
<1>3. proposed(n, s, v) = t
  BY <1>0, Zenon DEF proposed, broadcast, NodeState
<1> HIDE DEF m, r
<1>4. t \in NodeState
  BY <1>0, <1>1, <1>2, ZenonT(40) DEF NodeState
<1>5. /\ t.up = s.up /\ t.height = s.height /\ t.view = s.view /\ t.chain = s.chain /\ t.commit = s.commit
      /\ t.loose = s.loose /\ t.loop = s.loop /\ t.out = s.out \cup {m}
      /\ t.prep = [s.prep EXCEPT ![n] = r] /\ t.cv = s.cv /\ t.lastCv = s.lastCv
  BY <1>0, Zenon DEF NodeState
<1> HIDE DEF t
<1>6. s.prep \in [Validator -> PrepSlot]
  BY <1>0, Zenon DEF NodeState
<1>7. RequestPlaced(t)
  BY <1>5, <1>6, ZenonT(40) DEF LocalInv, RequestPlaced, PrimaryIndex
<1>8. ResponseSent(n, t) /\ RequestSentOrReceived(t)
  BY <1>2, <1>5, <1>6, SMTT(30) DEF ResponseSent, RequestSentOrReceived, PrimaryIndex
<1>9. LocalInv(n, t, sigs)
  BY <1>1, <1>4, <1>5, <1>7, <1>8, BroadcastInv, Zenon
<1> QED BY <1>5, <1>9, <1>3, Zenon DEF m, r

\* The primary proposes, and signs if it is alone.
LEMMA SendPrepareRequestInv ==
    ASSUME NEW n \in Validator, NEW sigs, NEW s, LocalInv(n, s, sigs), s.up,
           n = PrimaryIndex(s), NEW e \in Answer
    PROVE  /\ LocalInv(n, sendPrepareRequest(n, s, e), sigs)
           /\ s.out \subseteq sendPrepareRequest(n, s, e).out
           /\ sendPrepareRequest(n, s, e).up
<1> DEFINE v == e.val
           t == proposed(n, s, v)
<1>1. sendPrepareRequest(n, s, e) = checkPrepare(n, t, e)
  BY Zenon DEF sendPrepareRequest, proposed
<1>2. v \in Proposals
  BY Zenon DEF Answer
<1> HIDE DEF v
<1>3. LocalInv(n, t, sigs) /\ t.up = s.up /\ s.out \subseteq t.out
  BY <1>2, ProposedInv, ZenonT(40)
<1> HIDE DEF t
<1>4. LocalInv(n, checkPrepare(n, t, e), sigs) /\ t.out \subseteq checkPrepare(n, t, e).out /\ checkPrepare(n, t, e).up
  BY <1>3, CheckPrepareInv, Zenon
<1> QED BY <1>1, <1>3, <1>4, Zenon

\* A backup files its own response.
LEMMA SendPrepareResponseInv ==
    ASSUME NEW n \in Validator, NEW sigs, NEW s, LocalInv(n, s, sigs), RequestSentOrReceived(s)
    PROVE  /\ LocalInv(n, sendPrepareResponse(n, s), sigs)
           /\ s.out \subseteq sendPrepareResponse(n, s).out
           /\ sendPrepareResponse(n, s).up = s.up
<1> DEFINE v == s.prep[PrimaryIndex(s)].val
           m == [type |-> "PrepareResponse", height |-> s.height, view |-> s.view, val |-> v]
           r == [kind |-> "resp", val |-> v]
           t == [s EXCEPT !.prep[n] = r, !.out = @ \cup {m}]
<1>0. s \in NodeState BY Zenon DEF LocalInv
<1>1. v \in Proposals
  BY <1>0, PrimaryIsValidator, Zenon DEF RequestSentOrReceived, NodeState, PrepSlot
<1> HIDE DEF v
<1>2. m \in Payload /\ m.type = "PrepareResponse"
  BY <1>0, <1>1, Zenon DEF Payload, NodeState
<1>3. r \in PrepSlot /\ r # Nil /\ r.kind = "resp"
  BY <1>1, NilAssumption DEF PrepSlot
<1>4. sendPrepareResponse(n, s) = t
  BY <1>0, Zenon DEF sendPrepareResponse, broadcast, NodeState, v
<1> HIDE DEF m, r
<1>5. t \in NodeState
  BY <1>0, <1>2, <1>3, Zenon DEF NodeState
<1>6. /\ t.up = s.up /\ t.height = s.height /\ t.view = s.view /\ t.chain = s.chain /\ t.commit = s.commit
      /\ t.loose = s.loose /\ t.loop = s.loop /\ t.out = s.out \cup {m}
      /\ t.prep = [s.prep EXCEPT ![n] = r]
  BY <1>0, Zenon DEF NodeState
<1> HIDE DEF t
<1>7. s.prep \in [Validator -> PrepSlot] /\ PrimaryIndex(s) \in Validator /\ PrimaryIndex(t) = PrimaryIndex(s)
  BY <1>0, <1>6, PrimaryIsValidator, ZenonT(40) DEF NodeState, PrimaryIndex
<1>8. RequestPlaced(t)
  BY <1>3, <1>6, <1>7, Zenon DEF LocalInv, RequestPlaced
<1>9. ResponseSent(n, t) /\ RequestSentOrReceived(t)
  BY <1>3, <1>6, <1>7, Zenon DEF ResponseSent, RequestSentOrReceived
<1>10. LocalInv(n, t, sigs)
  BY <1>2, <1>5, <1>6, <1>8, <1>9, BroadcastInv, Zenon
<1> QED BY <1>4, <1>6, <1>10, Zenon

\* A validator files its own vote for a later view.
LEMMA AskChangeViewInv ==
    ASSUME NEW n \in Validator, NEW sigs, NEW s, LocalInv(n, s, sigs)
    PROVE  /\ LocalInv(n, askChangeView(n, s), sigs)
           /\ s.out \subseteq askChangeView(n, s).out
           /\ Commits(askChangeView(n, s)) = Commits(s)
           /\ askChangeView(n, s).height = s.height
           /\ askChangeView(n, s).loose = s.loose
           /\ askChangeView(n, s).up = s.up
<1> DEFINE m == [type |-> "ChangeView", height |-> s.height, view |-> s.view]
           t == [s EXCEPT !.cv[n] = s.view + 1, !.out = @ \cup {m}]
<1>0. s \in NodeState BY Zenon DEF LocalInv
<1>1. m \in Payload /\ m.type = "ChangeView"
  BY <1>0, Zenon DEF Payload, NodeState
<1>2. askChangeView(n, s) = t
  BY <1>0, Zenon DEF askChangeView, broadcast, NodeState
<1> HIDE DEF m
<1>3. t \in NodeState
  <2>1. s.view + 1 \in Nat BY <1>0 DEF NodeState
  <2> QED BY <1>0, <1>1, <2>1, Zenon DEF NodeState
<1>4. /\ t.up = s.up /\ t.height = s.height /\ t.view = s.view /\ t.chain = s.chain /\ t.commit = s.commit
      /\ t.loose = s.loose /\ t.loop = s.loop /\ t.out = s.out \cup {m} /\ t.prep = s.prep
  BY <1>0, Zenon DEF NodeState
<1> HIDE DEF t
<1>5. RequestPlaced(t) /\ (ResponseSent(n, s) /\ RequestSentOrReceived(s)
                            => ResponseSent(n, t) /\ RequestSentOrReceived(t))
  BY <1>4, Zenon DEF LocalInv, RequestPlaced, PrimaryIndex, ResponseSent, RequestSentOrReceived
<1>6. LocalInv(n, t, sigs)
  BY <1>1, <1>3, <1>4, <1>5, BroadcastInv, Zenon
<1>7. Commits(t) = Commits(s)
  BY <1>1, <1>4, Zenon DEF Commits
<1> QED BY <1>2, <1>4, <1>6, <1>7, Zenon

-----------------------------------------------------------------------------
(* View changes and recovery *)

\* n is not bound to a block at its height.
Free(s) == s.loose \/ \A m \in Commits(s) : m.height # s.height

\* A validator that did not do all of prepare, sign and learn the request is
\* free.
LEMMA NotBound ==
    ASSUME NEW n, NEW sigs, NEW s, LocalInv(n, s, sigs), s.up,
           ~CommitSent(n, s) \/ ~ResponseSent(n, s) \/ ~RequestSentOrReceived(s)
    PROVE  Free(s)
BY Zenon DEF LocalInv, Locked, Free

\* M votes move an unbound validator to the view.
LEMMA CheckChangeViewInv ==
    ASSUME NEW n \in Validator, NEW sigs, NEW s, LocalInv(n, s, sigs), s.up, Free(s), NEW v \in Nat
    PROVE  /\ LocalInv(n, checkChangeView(n, s, v), sigs)
           /\ s.out \subseteq checkChangeView(n, s, v).out
           /\ checkChangeView(n, s, v).up
<1> DEFINE t == IF s.cv[n] # 0 /\ s.cv[n] < v THEN askChangeView(n, s) ELSE s
<1>1. LocalInv(n, t, sigs) /\ s.out \subseteq t.out /\ t.up /\ Free(t)
  <2>1. /\ LocalInv(n, askChangeView(n, s), sigs) /\ s.out \subseteq askChangeView(n, s).out
        /\ askChangeView(n, s).up /\ Free(askChangeView(n, s))
    BY AskChangeViewInv, ZenonT(40) DEF Free
  <2>2. t = s \/ t = askChangeView(n, s)
    BY Zenon
  <2> HIDE DEF t
  <2> QED BY <2>1, <2>2, Zenon
<1>2. checkChangeView(n, s, v) = InitializeConsensus(n, t, v) \/ checkChangeView(n, s, v) = s
  BY Zenon DEF checkChangeView
<1> HIDE DEF t
<1>3. /\ LocalInv(n, InitializeConsensus(n, t, v), sigs)
      /\ InitializeConsensus(n, t, v).out = t.out
      /\ InitializeConsensus(n, t, v).up = t.up
  BY <1>1, InitializeConsensusInv, ZenonT(40) DEF Free
<1> QED BY <1>1, <1>2, <1>3, Zenon

\* A recovery request first looks for the missing transactions.
LEMMA SendRecoveryRequestInv ==
    ASSUME NEW n \in Validator, NEW sigs, NEW s, LocalInv(n, s, sigs), NEW e
    PROVE  /\ LocalInv(n, sendRecoveryRequest(n, s, e), sigs)
           /\ s.out \subseteq sendRecoveryRequest(n, s, e).out
           /\ sendRecoveryRequest(n, s, e).up = s.up
<1> DEFINE m == [type |-> "RecoveryRequest", height |-> s.height, view |-> s.view]
           x == IF RequestSentOrReceived(s) /\ ~hasAllTransactions(s) /\ e.have THEN "found" ELSE s.txs
           t == [s EXCEPT !.txs = x, !.out = @ \cup {m}]
<1>0. s \in NodeState BY Zenon DEF LocalInv
<1>1. m \in Payload /\ m.type = "RecoveryRequest"
  BY <1>0, Zenon DEF Payload, NodeState
<1>2. x \in {"none", "missing", "found", "made"}
  BY <1>0, Zenon DEF NodeState
<1>3. sendRecoveryRequest(n, s, e) = t
  BY <1>0, Zenon DEF sendRecoveryRequest, broadcast, NodeState
<1> HIDE DEF m, x
<1>4. t \in NodeState
  BY <1>0, <1>1, <1>2, ZenonT(40) DEF NodeState
<1>5. /\ t.up = s.up /\ t.height = s.height /\ t.view = s.view /\ t.chain = s.chain /\ t.commit = s.commit
      /\ t.loose = s.loose /\ t.loop = s.loop /\ t.out = s.out \cup {m} /\ t.prep = s.prep
  BY <1>0, Zenon DEF NodeState
<1> HIDE DEF t
<1>6. RequestPlaced(t) /\ (ResponseSent(n, s) /\ RequestSentOrReceived(s)
                            => ResponseSent(n, t) /\ RequestSentOrReceived(t))
  BY <1>5, Zenon DEF LocalInv, RequestPlaced, PrimaryIndex, ResponseSent, RequestSentOrReceived
<1>7. LocalInv(n, t, sigs)
  BY <1>1, <1>4, <1>5, <1>6, BroadcastInv, Zenon
<1> QED BY <1>3, <1>5, <1>7, Zenon

\* A change view, or a recovery request if too many are committed or lost.
LEMMA SendChangeViewInv ==
    ASSUME NEW n \in Validator, NEW sigs, NEW s, LocalInv(n, s, sigs), s.up, Free(s), NEW e
    PROVE  /\ LocalInv(n, sendChangeView(n, s, e), sigs)
           /\ s.out \subseteq sendChangeView(n, s, e).out
           /\ sendChangeView(n, s, e).up
<1> DEFINE t == askChangeView(n, s)
<1>1. s.view + 1 \in Nat
  BY DEF LocalInv, NodeState
<1>2. LocalInv(n, t, sigs) /\ s.out \subseteq t.out /\ t.up /\ Free(t)
  BY AskChangeViewInv, ZenonT(40) DEF Free
<1> HIDE DEF t
<1>3. /\ LocalInv(n, checkChangeView(n, t, s.view + 1), sigs)
      /\ t.out \subseteq checkChangeView(n, t, s.view + 1).out
      /\ checkChangeView(n, t, s.view + 1).up
  BY <1>1, <1>2, CheckChangeViewInv, Zenon
<1>4. \/ sendChangeView(n, s, e) = checkChangeView(n, t, s.view + 1)
      \/ sendChangeView(n, s, e) = sendRecoveryRequest(n, s, e)
  BY Zenon DEF sendChangeView, t
<1> QED BY <1>2, <1>3, <1>4, SendRecoveryRequestInv, SMTT(30)

\* A recovery message reports signatures its sender has.
LEMMA SendRecoveryMessageInv ==
    ASSUME NEW n \in Validator, NEW sigs, NEW s, LocalInv(n, s, sigs)
    PROVE  /\ LocalInv(n, sendRecoveryMessage(n, s), sigs)
           /\ s.out \subseteq sendRecoveryMessage(n, s).out
           /\ sendRecoveryMessage(n, s).up = s.up
<1> DEFINE known == {i \in Validator : s.prep[i] # Nil}
           requests == {i \in known : s.prep[i].kind = "req"}
           req == IF requests = {} THEN Nil ELSE s.prep[CHOOSE i \in requests : TRUE].val
           low == CHOOSE i \in known : \A j \in known : i <= j
           hash == IF req # Nil \/ known = {} THEN req ELSE s.prep[low].val
           commits == [i \in Validator |->
               IF CommitSent(n, s) /\ s.commit[i] # Nil THEN s.commit[i].hdr ELSE Nil]
           m == [type |-> "RecoveryMessage", height |-> s.height, view |-> s.view,
                 req |-> req, hash |-> hash, preps |-> known, cvs |-> s.lastCv, commits |-> commits]
           t == [s EXCEPT !.out = @ \cup {m}]
<1>0. s \in NodeState BY Zenon DEF LocalInv
<1>1. \A i \in known : s.prep[i].val \in Proposals
  BY <1>0, Zenon DEF NodeState, PrepSlot
<1>2. req \in Proposals \cup {Nil}
  <2>1. CASE requests = {}
    BY <2>1, Zenon
  <2>2. CASE requests # {}
    <3>1. (CHOOSE i \in requests : TRUE) \in requests
      BY <2>2, Zenon
    <3> QED BY <1>1, <2>2, <3>1, Zenon
  <2> QED BY <2>1, <2>2, Zenon
<1>3. hash \in Proposals \cup {Nil}
  <2>1. CASE req # Nil \/ known = {}
    BY <1>2, <2>1, Zenon
  <2>2. CASE ~(req # Nil \/ known = {})
    <3>1. low \in known
      <4>1. known \in SUBSET Validator /\ known # {}
        BY <2>2, Zenon
      <4> HIDE DEF known
      <4> QED BY <4>1, LowestIndex, Zenon
    <3> QED BY <1>1, <2>2, <3>1, ZenonT(40)
  <2> QED BY <2>1, <2>2, Zenon
<1>4. commits \in [Validator -> Header \cup {Nil}]
  <2>1. \A i \in Validator : s.commit[i] # Nil => s.commit[i].hdr \in Header
    BY <1>0, Zenon DEF NodeState, CommitSlot
  <2> HIDE DEF Header
  <2> QED BY <2>1, Zenon
<1>5. known \in SUBSET Validator
  BY Zenon
<1>6. sendRecoveryMessage(n, s) = t
  BY Zenon DEF sendRecoveryMessage, makeRecoveryMessage, broadcast
<1>7. RecoveryTrue(n, s, sigs, m)
  <2>1. \A i \in Validator : commits[i] # Nil => s.commit[i] # Nil /\ commits[i] = s.commit[i].hdr
    BY Zenon
  <2> HIDE DEF commits
  <2> QED BY <2>1, ZenonT(40) DEF RecoveryTrue, LocalInv, SignaturesReal
<1> HIDE DEF known, requests, req, hash, commits
<1>8. m \in RecoveryPayload /\ m.type = "RecoveryMessage"
  BY <1>0, <1>2, <1>3, <1>4, <1>5, ZenonT(40) DEF RecoveryPayload, NodeState
<1> HIDE DEF m
<1>9. m \in Payload
  BY <1>8, Zenon DEF Payload
<1>10. t \in NodeState
  BY <1>0, <1>9, Zenon DEF NodeState
<1>11. /\ t.up = s.up /\ t.height = s.height /\ t.view = s.view /\ t.chain = s.chain /\ t.commit = s.commit
      /\ t.loose = s.loose /\ t.loop = s.loop /\ t.out = s.out \cup {m} /\ t.prep = s.prep
  BY <1>0, Zenon DEF NodeState
<1> HIDE DEF t
<1>12. RequestPlaced(t) /\ (ResponseSent(n, s) /\ RequestSentOrReceived(s)
                            => ResponseSent(n, t) /\ RequestSentOrReceived(t))
  BY <1>11, ZenonT(40) DEF LocalInv, RequestPlaced, PrimaryIndex, ResponseSent, RequestSentOrReceived
<1>13. LocalInv(n, t, sigs)
  BY <1>7, <1>8, <1>9, <1>10, <1>11, <1>12, BroadcastInv, Zenon
<1> QED BY <1>6, <1>11, <1>13, Zenon


-----------------------------------------------------------------------------
(* dbft.go: the handlers *)

\* A change of other fields only: seen, cv, lastCv, txs and loop.
LEMMA SameInv ==
    ASSUME NEW n \in Validator, NEW sigs, NEW s, LocalInv(n, s, sigs), NEW t \in NodeState,
           t.up = s.up, t.height = s.height, t.view = s.view, t.chain = s.chain,
           t.commit = s.commit, t.prep = s.prep, t.loose = s.loose, t.out = s.out,
           t.loop # Nil => (t.loop = s.loop \/ (RecoveryTrue(n, s, sigs, t.loop.msg) /\ LoopFits(t.loop)))
    PROVE  /\ LocalInv(n, t, sigs)
           /\ Free(t) <=> Free(s)
           /\ CommitSent(n, t) <=> CommitSent(n, s)
           /\ ResponseSent(n, t) <=> ResponseSent(n, s)
           /\ RequestSentOrReceived(t) <=> RequestSentOrReceived(s)
           /\ PrimaryIndex(t) = PrimaryIndex(s)
<1>1. Commits(t) = Commits(s)
  BY Zenon DEF Commits
<1>2. PrimaryIndex(t) = PrimaryIndex(s)
  BY Zenon DEF PrimaryIndex
<1>3. /\ Free(t) <=> Free(s)
      /\ CommitSent(n, t) <=> CommitSent(n, s)
      /\ ResponseSent(n, t) <=> ResponseSent(n, s)
      /\ RequestSentOrReceived(t) <=> RequestSentOrReceived(s)
  BY <1>1, <1>2, Zenon DEF Free, CommitSent, ResponseSent, RequestSentOrReceived
<1>4. RequestPlaced(t)
  BY <1>2, Zenon DEF LocalInv, RequestPlaced
<1>5. LocalInv(n, t, sigs)
  BY <1>1, <1>3, <1>4, Frame, Zenon
<1> QED BY <1>2, <1>3, <1>5, Zenon

\* The last transaction may lead to a response or to a change view.
LEMMA AddTransactionInv ==
    ASSUME NEW n \in Validator, NEW sigs, NEW s, LocalInv(n, s, sigs), s.up, Free(s),
           RequestSentOrReceived(s), NEW e
    PROVE  /\ LocalInv(n, addTransaction(n, s, e), sigs)
           /\ s.out \subseteq addTransaction(n, s, e).out
           /\ addTransaction(n, s, e).up
<1> DEFINE made == [s EXCEPT !.txs = "made"]
           sent == sendPrepareResponse(n, made)
<1>0. s \in NodeState BY Zenon DEF LocalInv
<1>1. /\ made \in NodeState
      /\ made.up = s.up /\ made.height = s.height /\ made.view = s.view /\ made.chain = s.chain
      /\ made.commit = s.commit /\ made.prep = s.prep /\ made.loose = s.loose /\ made.out = s.out
      /\ made.loop = s.loop
  BY <1>0, Zenon DEF NodeState
<1>2. addTransaction(n, s, e) \in {checkPrepare(n, sent, e), sendChangeView(n, made, e)}
  BY Zenon DEF addTransaction
<1> HIDE DEF made
<1>3. LocalInv(n, made, sigs) /\ Free(made) /\ RequestSentOrReceived(made) /\ made.up
  BY <1>1, SameInv, Zenon
<1>4. LocalInv(n, sent, sigs) /\ s.out \subseteq sent.out /\ sent.up
  BY <1>1, <1>3, SendPrepareResponseInv, Zenon
<1> HIDE DEF sent
<1>5. LocalInv(n, checkPrepare(n, sent, e), sigs) /\ sent.out \subseteq checkPrepare(n, sent, e).out
      /\ checkPrepare(n, sent, e).up
  BY <1>4, CheckPrepareInv, Zenon
<1>6. LocalInv(n, sendChangeView(n, made, e), sigs) /\ made.out \subseteq sendChangeView(n, made, e).out
      /\ sendChangeView(n, made, e).up
  BY <1>3, SendChangeViewInv, Zenon
<1> QED BY <1>1, <1>2, <1>4, <1>5, <1>6, Zenon

\* The payloads that do not match the request are dropped.
LEMMA AcceptRequestInv ==
    ASSUME NEW n \in Validator, NEW sigs, NEW s, LocalInv(n, s, sigs), s.up,
           ~RequestSentOrReceived(s), NEW m, m.val \in Proposals, NEW e,
           NEW i, i = PrimaryIndex(s)
    PROVE  /\ LocalInv(n, acceptRequest(s, i, m, e), sigs)
           /\ acceptRequest(s, i, m, e).out = s.out
           /\ acceptRequest(s, i, m, e).up
           /\ Free(acceptRequest(s, i, m, e))
           /\ RequestSentOrReceived(acceptRequest(s, i, m, e))
<1> DEFINE r == [kind |-> "req", val |-> m.val]
           p == [j \in Validator |->
                   IF j = i THEN r
                   ELSE IF s.prep[j] # Nil /\ s.prep[j].kind = "resp" /\ s.prep[j].val # m.val THEN Nil
                   ELSE s.prep[j]]
           x == IF e.have THEN "found" ELSE "missing"
           t == [s EXCEPT !.prep = p, !.txs = x]
<1>0. s \in NodeState BY Zenon DEF LocalInv
<1>1. acceptRequest(s, i, m, e) = t
  BY Zenon DEF acceptRequest
<1>2. r \in PrepSlot /\ r # Nil /\ Nil \in PrepSlot /\ i \in Validator
  BY <1>0, NilAssumption, PrimaryIsValidator DEF PrepSlot
<1> HIDE DEF r
<1>3. p \in [Validator -> PrepSlot] /\ p[i] = r
  BY <1>0, <1>2, Zenon DEF NodeState
<1>4. \A j \in Validator : (p[j] = r /\ j = i) \/ p[j] = Nil \/ p[j] = s.prep[j]
  BY Zenon
<1>5. x \in {"none", "missing", "found", "made"}
  BY Zenon
<1> HIDE DEF p, x
<1>6. /\ t \in NodeState
      /\ t.up = s.up /\ t.height = s.height /\ t.view = s.view /\ t.chain = s.chain
      /\ t.commit = s.commit /\ t.prep = p /\ t.loose = s.loose /\ t.out = s.out
      /\ t.loop = s.loop
  BY <1>0, <1>3, <1>5, Zenon DEF NodeState
<1> HIDE DEF t
<1>7. Commits(t) = Commits(s) /\ PrimaryIndex(t) = i
  BY <1>6, Zenon DEF Commits, PrimaryIndex
<1>8. RequestPlaced(t)
  BY <1>4, <1>6, <1>7, Zenon DEF LocalInv, RequestPlaced
<1>9. LocalInv(n, t, sigs)
  BY <1>6, <1>7, <1>8, Frame, Zenon
<1>10. Free(s)
  BY NotBound, Zenon
<1>11. Free(t) /\ RequestSentOrReceived(t) /\ t.up
  BY <1>2, <1>3, <1>6, <1>7, <1>10, Zenon DEF Free, RequestSentOrReceived
<1> QED BY <1>1, <1>6, <1>9, <1>11, Zenon

\* A request is filed only if none is known.
LEMMA OnPrepareRequestInv ==
    ASSUME NEW n \in Validator, NEW sigs, NEW s, LocalInv(n, s, sigs), s.up,
           NEW m, m.val \in Proposals, NEW e, NEW i
    PROVE  /\ LocalInv(n, onPrepareRequest(n, s, i, m, e), sigs)
           /\ s.out \subseteq onPrepareRequest(n, s, i, m, e).out
<1> DEFINE t == acceptRequest(s, i, m, e)
<1>1. CASE RequestSentOrReceived(s) \/ i # PrimaryIndex(s)
  BY <1>1, Zenon DEF onPrepareRequest
<1>2. CASE ~RequestSentOrReceived(s) /\ i = PrimaryIndex(s)
  <2>1. LocalInv(n, t, sigs) /\ t.out = s.out /\ t.up /\ Free(t) /\ RequestSentOrReceived(t)
    BY <1>2, AcceptRequestInv, ZenonT(40)
  <2>2. onPrepareRequest(n, s, i, m, e) \in {s, sendChangeView(n, s, e), addTransaction(n, t, e), t}
    BY Zenon DEF onPrepareRequest
  <2> HIDE DEF t
  <2>3. LocalInv(n, addTransaction(n, t, e), sigs) /\ t.out \subseteq addTransaction(n, t, e).out
    BY <2>1, AddTransactionInv, Zenon
  <2>4. Free(s)
    BY <1>2, NotBound, Zenon
  <2>5. LocalInv(n, sendChangeView(n, s, e), sigs) /\ s.out \subseteq sendChangeView(n, s, e).out
    BY <2>4, SendChangeViewInv, Zenon
  <2> QED BY <2>1, <2>2, <2>3, <2>5, Zenon
<1> QED BY <1>1, <1>2, Zenon

\* The state in which onPrepareResponse has filed the response.
responded(s, i, v) == [s EXCEPT !.prep[i] = [kind |-> "resp", val |-> v]]

\* A response goes to an empty slot that is not the primary's.
LEMMA RespondedInv ==
    ASSUME NEW n \in Validator, NEW sigs, NEW s, LocalInv(n, s, sigs), s.up,
           NEW v \in Proposals, NEW i \in Validator, i # PrimaryIndex(s), s.prep[i] = Nil
    PROVE  /\ LocalInv(n, responded(s, i, v), sigs)
           /\ responded(s, i, v).out = s.out
           /\ responded(s, i, v).up
<1> DEFINE r == [kind |-> "resp", val |-> v]
           t == responded(s, i, v)
<1>0. s \in NodeState BY Zenon DEF LocalInv
<1>1. r \in PrepSlot /\ r # Nil /\ r.kind = "resp"
  BY NilAssumption DEF PrepSlot
<1>2. t = [s EXCEPT !.prep[i] = r]
  BY Zenon DEF responded
<1> HIDE DEF r, t
<1>3. /\ t \in NodeState
      /\ t.up = s.up /\ t.height = s.height /\ t.view = s.view /\ t.chain = s.chain
      /\ t.commit = s.commit /\ t.prep = [s.prep EXCEPT ![i] = r] /\ t.loose = s.loose
      /\ t.out = s.out /\ t.loop = s.loop /\ t.cv = s.cv /\ t.lastCv = s.lastCv
  BY <1>0, <1>1, <1>2, ZenonT(40) DEF NodeState
<1>4. Commits(t) = Commits(s)
  BY <1>3, Zenon DEF Commits
<1>5. PrimaryIndex(t) = PrimaryIndex(s) /\ s.prep \in [Validator -> PrepSlot]
  BY <1>0, <1>3, Zenon DEF PrimaryIndex, NodeState
<1>6. RequestPlaced(t)
  BY <1>1, <1>3, <1>5, Zenon DEF LocalInv, RequestPlaced
<1>7. ResponseSent(n, s) /\ RequestSentOrReceived(s) => ResponseSent(n, t) /\ RequestSentOrReceived(t)
  BY <1>3, <1>5 DEF ResponseSent, RequestSentOrReceived
<1>8. LocalInv(n, t, sigs)
  BY <1>3, <1>4, <1>6, <1>7, Frame, Zenon
<1> QED BY <1>3, <1>8, Zenon DEF r, t

\* A response never replaces a preparation of the request.
LEMMA OnPrepareResponseInv ==
    ASSUME NEW n \in Validator, NEW sigs, NEW s, LocalInv(n, s, sigs), s.up,
           NEW m, m.val \in Proposals, NEW e, NEW i \in Validator
    PROVE  /\ LocalInv(n, onPrepareResponse(n, s, i, m, e), sigs)
           /\ s.out \subseteq onPrepareResponse(n, s, i, m, e).out
<1> DEFINE v == m.val
           t == responded(s, i, v)
           d == [s EXCEPT !.up = FALSE]
<1>0. s \in NodeState BY Zenon DEF LocalInv
<1>1. CASE i = PrimaryIndex(s) \/ s.prep[i] # Nil
  BY <1>1, Zenon DEF onPrepareResponse
<1>2. CASE i # PrimaryIndex(s) /\ s.prep[i] = Nil
  <2>1. onPrepareResponse(n, s, i, m, e) \in {s, t, d, checkPrepare(n, t, e)}
    BY Zenon DEF onPrepareResponse, responded
  <2>2. LocalInv(n, t, sigs) /\ t.up /\ t.out = s.out
    <3>1. v \in Proposals
      BY Zenon
    <3> HIDE DEF v
    <3> QED BY <1>2, <3>1, RespondedInv
  <2>3. /\ d \in NodeState /\ ~d.up
        /\ d.height = s.height /\ d.view = s.view /\ d.chain = s.chain
        /\ d.commit = s.commit /\ d.prep = s.prep /\ d.loose = s.loose
        /\ d.out = s.out /\ d.loop = s.loop
    BY <1>0, Zenon DEF NodeState
  <2> HIDE DEF t, d
  <2>4. Commits(d) = Commits(s) /\ PrimaryIndex(d) = PrimaryIndex(s)
    BY <2>3, Zenon DEF Commits, PrimaryIndex
  <2>5. RequestPlaced(d)
    BY <2>3, <2>4, Zenon DEF LocalInv, RequestPlaced
  <2>6. LocalInv(n, d, sigs)
    BY <2>3, <2>4, <2>5, Frame, Zenon DEF ResponseSent, RequestSentOrReceived
  <2>7. LocalInv(n, checkPrepare(n, t, e), sigs) /\ t.out \subseteq checkPrepare(n, t, e).out
    BY <2>2, CheckPrepareInv, Zenon
  <2> QED BY <2>1, <2>2, <2>3, <2>6, <2>7, Zenon
<1> QED BY <1>1, <1>2, Zenon

\* Answering a recovery request changes nothing but what was sent.
LEMMA OnRecoveryRequestInv ==
    ASSUME NEW n \in Validator, NEW sigs, NEW s, LocalInv(n, s, sigs), NEW i
    PROVE  /\ LocalInv(n, onRecoveryRequest(n, s, i), sigs)
           /\ s.out \subseteq onRecoveryRequest(n, s, i).out
BY SendRecoveryMessageInv, Zenon DEF onRecoveryRequest

\* Only a validator that has not signed counts votes for a view.
LEMMA OnChangeViewInv ==
    ASSUME NEW n \in Validator, NEW sigs, NEW s, LocalInv(n, s, sigs), s.up,
           NEW i \in Validator, NEW m, m.view \in Nat
    PROVE  /\ LocalInv(n, onChangeView(n, s, i, m), sigs)
           /\ s.out \subseteq onChangeView(n, s, i, m).out
<1> DEFINE v == m.view + 1
           t == [s EXCEPT !.cv[i] = v]
<1>0. s \in NodeState /\ v \in Nat BY DEF LocalInv
<1>1. /\ onChangeView(n, s, i, m) \in
            {s, onRecoveryRequest(n, s, i), sendRecoveryMessage(n, s), checkChangeView(n, t, v)}
      /\ onChangeView(n, s, i, m) = checkChangeView(n, t, v) =>
            \/ ~CommitSent(n, s)
            \/ onChangeView(n, s, i, m) \in {s, onRecoveryRequest(n, s, i), sendRecoveryMessage(n, s)}
  BY Zenon DEF onChangeView
<1> HIDE DEF v
<1>2. /\ t \in NodeState
      /\ t.up = s.up /\ t.height = s.height /\ t.view = s.view /\ t.chain = s.chain
      /\ t.commit = s.commit /\ t.prep = s.prep /\ t.loose = s.loose /\ t.out = s.out
      /\ t.loop = s.loop
  BY <1>0, Zenon DEF NodeState
<1> HIDE DEF t
<1>3. LocalInv(n, t, sigs) /\ (Free(t) <=> Free(s)) /\ t.up
  BY <1>2, SameInv, Zenon
<1>4. ASSUME ~CommitSent(n, s)
      PROVE  LocalInv(n, checkChangeView(n, t, v), sigs) /\ t.out \subseteq checkChangeView(n, t, v).out
  <2>1. Free(t)
    BY <1>3, <1>4, NotBound, Zenon
  <2> QED BY <1>0, <1>3, <2>1, CheckChangeViewInv, Zenon
<1>5. LocalInv(n, onRecoveryRequest(n, s, i), sigs) /\ s.out \subseteq onRecoveryRequest(n, s, i).out
  BY OnRecoveryRequestInv, Zenon
<1>6. LocalInv(n, sendRecoveryMessage(n, s), sigs) /\ s.out \subseteq sendRecoveryMessage(n, s).out
  BY SendRecoveryMessageInv, Zenon
<1>7. CASE onChangeView(n, s, i, m) \in {s, onRecoveryRequest(n, s, i), sendRecoveryMessage(n, s)}
  BY <1>5, <1>6, <1>7, Zenon
<1>8. CASE ~CommitSent(n, s) /\ onChangeView(n, s, i, m) = checkChangeView(n, t, v)
  BY <1>2, <1>4, <1>8, Zenon
<1> QED BY <1>1, <1>7, <1>8, Zenon

\* A commit that really was signed can be filed, also one of n itself.
LEMMA StoreCommitInv ==
    ASSUME NEW n \in Validator, NEW sigs, NEW s, LocalInv(n, s, sigs),
           NEW i \in Validator, NEW c \in [view : Nat, hdr : Header],
           Known(n, s, sigs, i, s.height, c.hdr)
    PROVE  /\ LocalInv(n, [s EXCEPT !.commit[i] = c], sigs)
           /\ [s EXCEPT !.commit[i] = c].out = s.out
<1> DEFINE t == [s EXCEPT !.commit[i] = c]
<1>0. s \in NodeState BY Zenon DEF LocalInv
<1>1. /\ t \in NodeState
      /\ t.up = s.up /\ t.height = s.height /\ t.view = s.view /\ t.chain = s.chain
      /\ t.commit = [s.commit EXCEPT ![i] = c] /\ t.prep = s.prep /\ t.loose = s.loose
      /\ t.out = s.out /\ t.loop = s.loop
  BY <1>0, ZenonT(40) DEF NodeState, CommitSlot
<1> HIDE DEF t
<1>2. Commits(t) = Commits(s) /\ PrimaryIndex(t) = PrimaryIndex(s) /\ s.commit \in [Validator -> CommitSlot]
  BY <1>0, <1>1, Zenon DEF Commits, PrimaryIndex, NodeState
<1>3. \A j, h, b : Known(n, t, sigs, j, h, b) <=> Known(n, s, sigs, j, h, b)
  BY <1>2, Zenon DEF Known, HasSigned
<1>4. SignaturesReal(n, t, sigs)
  <2>1. \A j \in Validator : t.commit[j] # Nil => Known(n, t, sigs, j, t.height, t.commit[j].hdr)
    BY <1>1, <1>2, <1>3, ZenonT(40) DEF LocalInv, SignaturesReal
  <2>2. \A m \in t.out : m.type = "RecoveryMessage" => RecoveryTrue(n, t, sigs, m)
    BY <1>1, <1>3, ZenonT(40) DEF LocalInv, SignaturesReal, RecoveryTrue
  <2>3. t.loop # Nil => RecoveryTrue(n, t, sigs, t.loop.msg) /\ LoopFits(t.loop)
    BY <1>1, <1>3, ZenonT(40) DEF LocalInv, SignaturesReal, RecoveryTrue
  <2> QED BY <2>1, <2>2, <2>3, Zenon DEF SignaturesReal
<1>5. ChainBacked(n, t, sigs)
  BY <1>1, <1>3, ZenonT(40) DEF LocalInv, ChainBacked, Backed
<1>6. RequestPlaced(t)
  BY <1>1, <1>2, ZenonT(40) DEF LocalInv, RequestPlaced
<1>7. ASSUME ~t.loose PROVE Locked(n, t)
  <2>1. Locked(n, s)
    BY <1>1, <1>7, Zenon DEF LocalInv
  <2>2. \A a, b \in Commits(t) : a.height = b.height => a.hdr = b.hdr
    BY <1>2, <2>1, Zenon DEF Locked
  <2>3. ASSUME t.up, NEW m \in Commits(t)
        PROVE  /\ m.height <= t.height
               /\ m.height = t.height => /\ CommitSent(n, t) /\ t.commit[n].hdr = m.hdr
                                         /\ ResponseSent(n, t) /\ RequestSentOrReceived(t)
    <3>1. /\ m.height <= s.height
          /\ m.height = s.height => /\ CommitSent(n, s) /\ s.commit[n].hdr = m.hdr
                                    /\ ResponseSent(n, s) /\ RequestSentOrReceived(s)
      BY <1>1, <1>2, <2>1, <2>3, Zenon DEF Locked
    <3>2. ResponseSent(n, t) = ResponseSent(n, s) /\ RequestSentOrReceived(t) = RequestSentOrReceived(s)
      BY <1>1, <1>2, Zenon DEF ResponseSent, RequestSentOrReceived
    <3>3. CASE i # n
      BY <1>1, <1>2, <3>1, <3>2, <3>3, ZenonT(40) DEF CommitSent
    <3>4. CASE i = n
      <4>1. t.commit[n] = c /\ c # Nil
        BY <1>1, <1>2, <3>4, NilAssumption, Zenon
      <4>2. ASSUME m.height = s.height PROVE m.hdr = c.hdr
        <5>1. PICK a \in Commits(s) : a.height = s.height /\ a.hdr = c.hdr
          BY <3>4, Zenon DEF Known, HasSigned
        <5> QED BY <1>2, <2>1, <2>3, <4>2, <5>1, ZenonT(40) DEF Locked
      <4> QED BY <1>1, <3>1, <3>2, <4>1, <4>2, Zenon DEF CommitSent
    <3> QED BY <3>3, <3>4, Zenon
  <2> QED BY <2>2, <2>3, Zenon DEF Locked
<1>8. t.height <= Len(t.chain) + 1
  BY <1>1, Zenon DEF LocalInv
<1> QED BY <1>1, <1>4, <1>5, <1>6, <1>7, <1>8, ZenonT(40) DEF LocalInv, t

\* A commit of the own view is counted, one of another view is kept.
LEMMA OnCommitInv ==
    ASSUME NEW n \in Validator, NEW sigs, NEW s, LocalInv(n, s, sigs),
           NEW i \in Validator, NEW m, m.view \in Nat, m.hdr \in Header,
           Known(n, s, sigs, i, s.height, m.hdr), NEW e
    PROVE  /\ LocalInv(n, onCommit(n, s, i, m, e), sigs)
           /\ s.out \subseteq onCommit(n, s, i, m, e).out
<1> DEFINE c == [view |-> m.view, hdr |-> m.hdr]
           t == [s EXCEPT !.commit[i] = c]
<1>1. c \in [view : Nat, hdr : Header] /\ c.hdr = m.hdr
  BY Zenon
<1>2. onCommit(n, s, i, m, e) \in {s, t, checkCommit(n, t, e)}
  BY Zenon DEF onCommit
<1> HIDE DEF c
<1>3. LocalInv(n, t, sigs) /\ t.out = s.out
  BY <1>1, StoreCommitInv
<1> HIDE DEF t
<1>4. LocalInv(n, checkCommit(n, t, e), sigs) /\ checkCommit(n, t, e).out = t.out
  BY <1>3, CheckCommitInv, SMTT(30)
<1> QED BY <1>2, <1>3, <1>4, Zenon

\* A recovery message starts the loops, or the view change it proves.
LEMMA OnRecoveryMessageInv ==
    ASSUME NEW n \in Validator, NEW sigs, NEW s, LocalInv(n, s, sigs),
           NEW m \in RecoveryPayload, RecoveryTrue(n, s, sigs, m)
    PROVE  /\ LocalInv(n, onRecoveryMessage(n, s, m), sigs)
           /\ onRecoveryMessage(n, s, m).out = s.out
<1> DEFINE left == IF m.view > s.view THEN {i \in Validator : m.cvs[i] # 0} ELSE {}
           l == [msg |-> m, phase |-> "cv", left |-> left]
           t == [s EXCEPT !.loop = l]
<1>0. s \in NodeState BY Zenon DEF LocalInv
<1>1. left \in SUBSET Validator /\ \A i \in left : m.cvs[i] # 0
  BY Zenon
<1>2. onRecoveryMessage(n, s, m) \in {s, t}
  BY Zenon DEF onRecoveryMessage
<1> HIDE DEF left
<1>3. l \in Loop /\ l.msg = m /\ LoopFits(l)
  BY <1>1, Zenon DEF Loop, LoopFits
<1> HIDE DEF l
<1>4. /\ t \in NodeState
      /\ t.up = s.up /\ t.height = s.height /\ t.view = s.view /\ t.chain = s.chain
      /\ t.commit = s.commit /\ t.prep = s.prep /\ t.loose = s.loose /\ t.out = s.out
      /\ t.loop = l
  BY <1>0, <1>3, Zenon DEF NodeState
<1> HIDE DEF t
<1>5. LocalInv(n, t, sigs)
  BY <1>3, <1>4, SameInv, Zenon
<1> QED BY <1>2, <1>4, <1>5, Zenon

\* A payload of i that n may handle: well formed, with real signatures.
Handled(n, s, sigs, i, m) ==
    /\ m.height \in Nat /\ m.view \in Nat
    /\ \/ m.type \in {"PrepareRequest", "PrepareResponse"} /\ m.val \in Proposals
       \/ m.type = "Commit" /\ m.hdr \in Header /\ Known(n, s, sigs, i, m.height, m.hdr)
       \/ m.type \in {"ChangeView", "RecoveryRequest"}
       \/ m.type = "RecoveryMessage" /\ m \in RecoveryPayload /\ RecoveryTrue(n, s, sigs, m)

\* OnReceive calls the handler of the payload's type.
LEMMA OnReceiveInv ==
    ASSUME NEW n \in Validator, NEW sigs, NEW s, LocalInv(n, s, sigs), s.up,
           NEW i \in Validator, NEW m, Handled(n, s, sigs, i, m), NEW e
    PROVE  /\ LocalInv(n, OnReceive(n, s, i, m, e), sigs)
           /\ s.out \subseteq OnReceive(n, s, i, m, e).out
<1> DEFINE t == see(s, i, m)
<1>0. s \in NodeState BY Zenon DEF LocalInv
<1>1. /\ t \in NodeState
      /\ t.up = s.up /\ t.height = s.height /\ t.view = s.view /\ t.chain = s.chain
      /\ t.commit = s.commit /\ t.prep = s.prep /\ t.loose = s.loose /\ t.out = s.out
      /\ t.loop = s.loop
  <2> DEFINE x == [height |-> m.height, view |-> m.view]
  <2>1. x \in SeenSlot
    BY Zenon DEF SeenSlot, Handled
  <2>2. t \in {s, [s EXCEPT !.seen[i] = x]}
    BY Zenon DEF see
  <2> HIDE DEF t, x
  <2>3. CASE t = s
    BY <1>0, <2>3, Zenon
  <2>4. CASE t = [s EXCEPT !.seen[i] = x]
    BY <1>0, <2>1, <2>4, ZenonT(40) DEF NodeState
  <2> QED BY <2>2, <2>3, <2>4, Zenon
<1>2. CASE m.height # s.height
  BY <1>2, Zenon DEF OnReceive
<1>3. CASE m.height = s.height
  <2>1. OnReceive(n, s, i, m, e) = s \/ OnReceive(n, s, i, m, e) =
          CASE m.type = "ChangeView" -> onChangeView(n, t, i, m)
            [] m.type = "PrepareRequest" -> onPrepareRequest(n, t, i, m, e)
            [] m.type = "PrepareResponse" -> onPrepareResponse(n, t, i, m, e)
            [] m.type = "Commit" -> onCommit(n, t, i, m, e)
            [] m.type = "RecoveryRequest" -> onRecoveryRequest(n, t, i)
            [] m.type = "RecoveryMessage" -> onRecoveryMessage(n, t, m)
    BY Zenon DEF OnReceive
  <2> HIDE DEF t
  <2>2. LocalInv(n, t, sigs) /\ t.up
    BY <1>1, SameInv, Zenon
  <2>3. \A j, h, b : Known(n, t, sigs, j, h, b) <=> Known(n, s, sigs, j, h, b)
    BY <1>1, Zenon DEF Known, HasSigned, Commits
  <2>4. CASE m.type = "ChangeView"
    <3>1. LocalInv(n, onChangeView(n, t, i, m), sigs) /\ t.out \subseteq onChangeView(n, t, i, m).out
      BY <2>2, OnChangeViewInv, Zenon DEF Handled
    <3> QED BY <1>1, <2>1, <2>4, <3>1, ZenonT(40)
  <2>5. CASE m.type = "PrepareRequest"
    <3>1. LocalInv(n, onPrepareRequest(n, t, i, m, e), sigs) /\ t.out \subseteq onPrepareRequest(n, t, i, m, e).out
      BY <2>2, <2>5, OnPrepareRequestInv, Zenon DEF Handled
    <3> QED BY <1>1, <2>1, <2>5, <3>1, ZenonT(40)
  <2>6. CASE m.type = "PrepareResponse"
    <3>1. LocalInv(n, onPrepareResponse(n, t, i, m, e), sigs) /\ t.out \subseteq onPrepareResponse(n, t, i, m, e).out
      BY <2>2, <2>6, OnPrepareResponseInv, Zenon DEF Handled
    <3> QED BY <1>1, <2>1, <2>6, <3>1, ZenonT(40)
  <2>7. CASE m.type = "Commit"
    <3>1. LocalInv(n, onCommit(n, t, i, m, e), sigs) /\ t.out \subseteq onCommit(n, t, i, m, e).out
      BY <1>1, <1>3, <2>2, <2>3, <2>7, OnCommitInv, ZenonT(40) DEF Handled
    <3> QED BY <1>1, <2>1, <2>7, <3>1, Zenon
  <2>8. CASE m.type = "RecoveryRequest"
    <3>1. LocalInv(n, onRecoveryRequest(n, t, i), sigs) /\ t.out \subseteq onRecoveryRequest(n, t, i).out
      BY <2>2, OnRecoveryRequestInv, Zenon
    <3> QED BY <1>1, <2>1, <2>8, <3>1, ZenonT(40)
  <2>9. CASE m.type = "RecoveryMessage"
    <3>1. m \in RecoveryPayload /\ RecoveryTrue(n, t, sigs, m)
      BY <2>3, <2>9, Zenon DEF Handled, RecoveryTrue
    <3>2. LocalInv(n, onRecoveryMessage(n, t, m), sigs) /\ onRecoveryMessage(n, t, m).out = t.out
      BY <2>2, <3>1, OnRecoveryMessageInv, ZenonT(40)
    <3> QED BY <1>1, <2>1, <2>9, <3>2, ZenonT(40)
  <2> QED BY <2>4, <2>5, <2>6, <2>7, <2>8, <2>9, ZenonT(40) DEF Handled
<1> QED BY <1>2, <1>3, Zenon

-----------------------------------------------------------------------------
(* The loops of onRecoveryMessage *)

\* Moving on in the loops only changes loop.
LEMMA SetLoopInv ==
    ASSUME NEW n \in Validator, NEW sigs, NEW s, LocalInv(n, s, sigs), s.up,
           NEW l \in Loop, l # Nil => RecoveryTrue(n, s, sigs, l.msg) /\ LoopFits(l)
    PROVE  LET t == [s EXCEPT !.loop = l]
           IN /\ LocalInv(n, t, sigs) /\ t.out = s.out /\ t.up
              /\ t.height = s.height /\ PrimaryIndex(t) = PrimaryIndex(s)
              /\ Commits(t) = Commits(s)
<1> DEFINE t == [s EXCEPT !.loop = l]
<1>0. s \in NodeState BY Zenon DEF LocalInv
<1>1. /\ t \in NodeState
      /\ t.up = s.up /\ t.height = s.height /\ t.view = s.view /\ t.chain = s.chain
      /\ t.commit = s.commit /\ t.prep = s.prep /\ t.loose = s.loose /\ t.out = s.out
      /\ t.loop = l
  BY <1>0, Zenon DEF NodeState
<1> HIDE DEF t
<1>2. LocalInv(n, t, sigs) /\ PrimaryIndex(t) = PrimaryIndex(s)
  BY <1>1, SameInv, ZenonT(40)
<1> QED BY <1>1, <1>2, Zenon DEF Commits, t

\* The request or the responses of a recovery message are queued.
LEMMA RecoverPreparationsInv ==
    ASSUME NEW n \in Validator, NEW sigs, NEW s, LocalInv(n, s, sigs), s.up, s.loop # Nil,
           NEW e \in Answer
    PROVE  /\ LocalInv(n, recoverPreparations(n, s, e), sigs)
           /\ s.out \subseteq recoverPreparations(n, s, e).out
<1> DEFINE m == s.loop.msg
           left == IF m.hash = Nil THEN {} ELSE m.preps
           l == [msg |-> m, phase |-> "resp", left |-> left]
           t == [s EXCEPT !.loop = l]
           req == [type |-> "PrepareRequest", height |-> m.height, view |-> m.view, val |-> m.req]
<1>0. s \in NodeState BY Zenon DEF LocalInv
<1>1. m \in RecoveryPayload /\ RecoveryTrue(n, s, sigs, m)
  BY <1>0, ZenonT(40) DEF NodeState, Loop, LocalInv, SignaturesReal
<1>2. left \in SUBSET Validator /\ \A i \in left : m.hash # Nil /\ i \in m.preps
  BY <1>1, Zenon DEF RecoveryPayload
<1>3. \/ recoverPreparations(n, s, e) = t
      \/ recoverPreparations(n, s, e) = OnReceive(n, t, PrimaryIndex(s), req, e) /\ m.req # Nil
      \/ recoverPreparations(n, s, e) = sendPrepareRequest(n, t, e) /\ n = PrimaryIndex(s)
  BY Zenon DEF recoverPreparations
<1>4. m.req # Nil => Handled(n, t, sigs, PrimaryIndex(s), req)
  BY <1>1, Zenon DEF Handled, RecoveryPayload
<1> HIDE DEF m, left, req
<1>5. l \in Loop /\ l.msg = m /\ LoopFits(l)
  BY <1>1, <1>2, Zenon DEF Loop, LoopFits
<1> HIDE DEF l
<1>6. LocalInv(n, t, sigs) /\ t.out = s.out /\ t.up /\ PrimaryIndex(t) = PrimaryIndex(s)
  BY <1>1, <1>5, SetLoopInv
<1> HIDE DEF t
<1>7. PrimaryIndex(s) \in Validator
  BY <1>0, PrimaryIsValidator, Zenon
<1>8. CASE recoverPreparations(n, s, e) = t
  BY <1>6, <1>8, Zenon
<1>9. CASE recoverPreparations(n, s, e) = OnReceive(n, t, PrimaryIndex(s), req, e) /\ m.req # Nil
  BY <1>4, <1>6, <1>7, <1>9, OnReceiveInv, ZenonT(40)
<1>10. CASE recoverPreparations(n, s, e) = sendPrepareRequest(n, t, e) /\ n = PrimaryIndex(s)
  BY <1>6, <1>10, SendPrepareRequestInv, Zenon
<1> QED BY <1>3, <1>8, <1>9, <1>10, Zenon

\* The commits of a recovery message are queued.
LEMMA RecoverCommitsInv ==
    ASSUME NEW n \in Validator, NEW sigs, NEW s, LocalInv(n, s, sigs), s.up, s.loop # Nil
    PROVE  /\ LocalInv(n, recoverCommits(s), sigs)
           /\ recoverCommits(s).out = s.out
<1> DEFINE m == s.loop.msg
           left == {i \in Validator : m.commits[i] # Nil}
           l == IF m.view <= s.view THEN [msg |-> m, phase |-> "commit", left |-> left] ELSE Nil
<1>0. s \in NodeState BY Zenon DEF LocalInv
<1>1. m \in RecoveryPayload /\ RecoveryTrue(n, s, sigs, m)
  BY <1>0, Zenon DEF NodeState, Loop, LocalInv, SignaturesReal
<1>2. left \in SUBSET Validator /\ \A i \in left : m.commits[i] # Nil
  BY Zenon
<1>3. recoverCommits(s) = [s EXCEPT !.loop = l]
  BY Zenon DEF recoverCommits
<1> HIDE DEF m, left
<1>4. l \in Loop /\ (l # Nil => l.msg = m /\ LoopFits(l))
  BY <1>1, <1>2, Zenon DEF Loop, LoopFits
<1> HIDE DEF l
<1> QED BY <1>1, <1>3, <1>4, SetLoopInv, SMTT(30)

\* A payload out of a recovery message can be handled.
LEMMA RecoveredHandled ==
    ASSUME NEW n, NEW sigs, NEW s, NEW l \in Loop, l # Nil, NEW i \in l.left, i \in Validator,
           RecoveryTrue(n, s, sigs, l.msg), LoopFits(l)
    PROVE  Handled(n, s, sigs, i, recoveredPayload(l, i))
<1> DEFINE m == l.msg
           x == recoveredPayload(l, i)
<1>1. m \in RecoveryPayload /\ l.phase \in {"cv", "resp", "commit"}
  BY Zenon DEF Loop
<1>2. m.height \in Nat /\ m.view \in Nat /\ m.cvs[i] \in Nat
  BY <1>1, Zenon DEF RecoveryPayload
<1>3. CASE l.phase = "cv"
  <2>1. x = [type |-> "ChangeView", height |-> m.height, view |-> m.cvs[i] - 1]
    BY <1>3, Zenon DEF recoveredPayload
  <2>2. m.cvs[i] - 1 \in Nat
    BY <1>2, <1>3, SMTT(30) DEF LoopFits
  <2> HIDE DEF m, x
  <2> QED BY <1>2, <2>1, <2>2 DEF Handled, x
<1>4. CASE l.phase = "resp"
  <2>1. x = [type |-> "PrepareResponse", height |-> m.height, view |-> m.view, val |-> m.hash]
    BY <1>4, Zenon DEF recoveredPayload
  <2>2. m.hash \in Proposals
    BY <1>1, <1>4, ZenonT(40) DEF LoopFits, RecoveryPayload
  <2> HIDE DEF m, x
  <2> QED BY <1>2, <2>1, <2>2 DEF Handled, x
<1>5. CASE l.phase = "commit"
  <2>1. x = [type |-> "Commit", height |-> m.height, view |-> m.view, hdr |-> m.commits[i]]
    BY <1>5, Zenon DEF recoveredPayload
  <2>2. m.commits[i] \in Header /\ Known(n, s, sigs, i, m.height, m.commits[i])
    <3> HIDE DEF Header
    <3> QED BY <1>1, <1>5, Zenon DEF LoopFits, RecoveryPayload, RecoveryTrue
  <2> HIDE DEF m, x
  <2> QED BY <1>2, <2>1, <2>2 DEF Handled, x
<1> QED BY <1>1, <1>3, <1>4, <1>5, Zenon

\* One round of the loops handles one payload.
LEMMA RecoverNextInv ==
    ASSUME NEW n \in Validator, NEW sigs, NEW s, LocalInv(n, s, sigs), s.up, s.loop # Nil,
           NEW e \in Answer
    PROVE  /\ LocalInv(n, recoverNext(n, s, e), sigs)
           /\ s.out \subseteq recoverNext(n, s, e).out
<1> DEFINE l == s.loop
           i == CHOOSE i \in l.left : \A j \in l.left : i <= j
           l2 == [msg |-> l.msg, phase |-> l.phase, left |-> l.left \ {i}]
           t == [s EXCEPT !.loop = l2]
           x == recoveredPayload(l, i)
<1>0. s \in NodeState BY Zenon DEF LocalInv
<1>1. l \in Loop /\ l # Nil /\ RecoveryTrue(n, s, sigs, l.msg) /\ LoopFits(l)
  BY <1>0, ZenonT(40) DEF NodeState, LocalInv, SignaturesReal
<1>2. /\ l \in [msg : RecoveryPayload, phase : {"cv", "resp", "commit"}, left : SUBSET Validator]
      /\ l.left \in SUBSET Validator /\ l.phase \in {"cv", "resp", "commit"}
  BY <1>1, Zenon DEF Loop
<1>3. CASE l.left # {}
  <2>1. i \in l.left /\ i \in Validator
    BY <1>2, <1>3, LowestIndex, Zenon
  <2>2. [s EXCEPT !.loop.left = @ \ {i}] = t
    <3>1. [l EXCEPT !.left = @ \ {i}] = l2
      BY <1>2, SMTT(30)
    <3> QED BY <3>1, Zenon
  <2>3. recoverNext(n, s, e) = OnReceive(n, t, i, x, e)
    BY <1>3, <2>2, Zenon DEF recoverNext
  <2>4. l2 \in Loop /\ RecoveryTrue(n, s, sigs, l2.msg) /\ LoopFits(l2)
    <3> HIDE DEF i, l
    <3> QED BY <1>1, <1>2, Zenon DEF Loop, LoopFits
  <2> HIDE DEF l2, i, l
  <2>5. LocalInv(n, t, sigs) /\ t.out = s.out /\ t.up /\ Commits(t) = Commits(s)
    BY <2>4, SetLoopInv, SMTT(30)
  <2> HIDE DEF t
  <2>6. RecoveryTrue(n, t, sigs, l.msg)
    BY <1>1, <2>5, Zenon DEF RecoveryTrue, Known, HasSigned
  <2>7. Handled(n, t, sigs, i, x)
    BY <1>1, <2>1, <2>6, RecoveredHandled, Zenon
  <2> HIDE DEF x
  <2> QED BY <2>1, <2>3, <2>5, <2>7, OnReceiveInv, ZenonT(40)
<1>4. CASE l.left = {} /\ l.phase = "cv"
  <2>1. recoverNext(n, s, e) \in {recoverPreparations(n, s, e), recoverCommits(s)}
    BY <1>4, Zenon DEF recoverNext
  <2> QED BY <2>1, RecoverPreparationsInv, RecoverCommitsInv, Zenon
<1>5. CASE l.left = {} /\ l.phase = "resp"
  BY <1>5, RecoverCommitsInv, Zenon DEF recoverNext
<1>6. CASE l.left = {} /\ l.phase = "commit"
  <2>1. recoverNext(n, s, e) = [s EXCEPT !.loop = Nil]
    BY <1>6, Zenon DEF recoverNext
  <2>2. Nil \in Loop
    BY Zenon DEF Loop
  <2> QED BY <2>1, <2>2, SetLoopInv
<1> QED BY <1>2, <1>3, <1>4, <1>5, <1>6, ZenonT(40)

-----------------------------------------------------------------------------
(* Stopping and starting *)

\* A stopped validator with a prefix of its ledger.
LEMMA StoppedInv ==
    ASSUME NEW n \in Validator, NEW sigs, NEW s, LocalInv(n, s, sigs),
           NEW ch \in Seq(Header), Len(ch) <= Len(s.chain),
           \A h \in 1..Len(ch) : ch[h] = s.chain[h],
           NEW lo \in BOOLEAN, s.loose => lo
    PROVE  /\ LocalInv(n, Stopped(ch, s.out, lo), sigs)
           /\ Stopped(ch, s.out, lo).out = s.out
           /\ Stopped(ch, s.out, lo).chain = ch
           /\ Stopped(ch, s.out, lo).loose = lo
<1> DEFINE t == Stopped(ch, s.out, lo)
<1>0. s \in NodeState BY Zenon DEF LocalInv
<1>1. s.out \in SUBSET Payload
  BY <1>0, Zenon DEF NodeState
<1> HIDE DEF Header
<1>2. t \in NodeState
  BY <1>1, Zenon DEF Stopped, NodeState, PrepSlot, CommitSlot, SeenSlot, Loop
<1>3. /\ ~t.up /\ t.height = 0 /\ t.prep = [i \in Validator |-> Nil] /\ t.commit = [i \in Validator |-> Nil]
      /\ t.loop = Nil /\ t.chain = ch /\ t.out = s.out /\ t.loose = lo
  BY Zenon DEF Stopped
<1> HIDE DEF t
<1>4. Commits(t) = Commits(s)
  BY <1>3, Zenon DEF Commits
<1>5. \A i, h, x : Known(n, t, sigs, i, h, x) <=> Known(n, s, sigs, i, h, x)
  BY <1>4, Zenon DEF Known, HasSigned
<1>6. RequestPlaced(t)
  BY <1>3, ZenonT(40) DEF RequestPlaced
<1>7. SignaturesReal(n, t, sigs)
  BY <1>3, <1>5, ZenonT(40) DEF LocalInv, SignaturesReal, RecoveryTrue
<1>8. Len(ch) \in Nat /\ Len(s.chain) \in Nat
  <2>1. s.chain \in Seq(Header)
    BY <1>0, ZenonT(40) DEF NodeState
  <2> QED BY <2>1, SMTT(30)
<1>9. ChainBacked(n, t, sigs)
  <2>1. SUFFICES ASSUME NEW h \in 1..Len(ch) PROVE Backed(n, t, sigs, h, ch[h])
    BY <1>3, Zenon DEF ChainBacked
  <2>2. h \in 1..Len(s.chain) /\ ch[h] = s.chain[h]
    BY <1>8, <2>1, SMTT(30)
  <2> QED BY <1>5, <2>2, ZenonT(40) DEF LocalInv, ChainBacked, Backed
<1>10. t.loose \/ Locked(n, t)
  BY <1>3, <1>4, ZenonT(40) DEF LocalInv, Locked
<1>11. t.height <= Len(t.chain) + 1
  BY <1>3, <1>8, SMTT(30)
<1> QED BY <1>2, <1>3, <1>6, <1>7, <1>9, <1>10, <1>11, ZenonT(40) DEF LocalInv, t

\* A validator that starts is bound by nothing at its height, or loose.
LEMMA StartedInv ==
    ASSUME NEW n \in Validator, NEW sigs, NEW s, LocalInv(n, s, sigs)
    PROVE  LET t == InitializeConsensus(n, Stopped(s.chain, s.out, s.loose), 0)
               started == [t EXCEPT !.up = TRUE]
           IN /\ LocalInv(n, started, sigs) /\ started.out = s.out /\ started.up
              /\ PrimaryIndex(started) = PrimaryIndex(t)
<1> DEFINE d == Stopped(s.chain, s.out, s.loose)
           t == InitializeConsensus(n, d, 0)
           u == [t EXCEPT !.up = TRUE]
<1>0. s \in NodeState /\ s.chain \in Seq(Header) /\ s.loose \in BOOLEAN /\ Len(s.chain) \in Nat
  BY SMTT(30) DEF LocalInv, NodeState
<1>1. LocalInv(n, d, sigs) /\ d.out = s.out /\ d.chain = s.chain /\ d.loose = s.loose
  BY <1>0, StoppedInv, SMTT(30)
<1> HIDE DEF d
<1>2. LocalInv(n, t, sigs) /\ t.out = s.out
  BY <1>1, InitializeConsensusInv, ZenonT(40)
<1>3. /\ t.height = Len(s.chain) + 1 /\ t.prep = [i \in Validator |-> Nil]
      /\ t.chain = s.chain /\ (~t.loose => ~Forgets(d))
  BY <1>1, Zenon DEF InitializeConsensus
<1> HIDE DEF t
<1>4. t \in NodeState
  BY <1>2, Zenon DEF LocalInv
<1>5. /\ u \in NodeState /\ u.up = TRUE
      /\ u.height = t.height /\ u.view = t.view /\ u.chain = t.chain /\ u.commit = t.commit
      /\ u.prep = t.prep /\ u.loose = t.loose /\ u.out = t.out /\ u.loop = t.loop
  BY <1>4, Zenon DEF NodeState
<1> HIDE DEF u
<1>6. Commits(u) = Commits(t) /\ Commits(t) = Commits(s) /\ PrimaryIndex(u) = PrimaryIndex(t)
  BY <1>2, <1>5, Zenon DEF Commits, PrimaryIndex
<1>7. \A i, h, x : Known(n, u, sigs, i, h, x) <=> Known(n, t, sigs, i, h, x)
  BY <1>6, Zenon DEF Known, HasSigned
<1>8. RequestPlaced(u) /\ SignaturesReal(n, u, sigs) /\ ChainBacked(n, u, sigs)
  <2>0. RequestPlaced(t) /\ SignaturesReal(n, t, sigs)
    BY <1>2, Zenon DEF LocalInv
  <2>1. RequestPlaced(u)
    BY <1>5, <1>6, <2>0, ZenonT(40) DEF RequestPlaced
  <2>2. SignaturesReal(n, u, sigs)
    <3>1. \A m : RecoveryTrue(n, u, sigs, m) <=> RecoveryTrue(n, t, sigs, m)
      BY <1>7, Zenon DEF RecoveryTrue
    <3>2. \A i \in Validator : u.commit[i] # Nil => Known(n, u, sigs, i, u.height, u.commit[i].hdr)
      BY <1>5, <1>7, <2>0, ZenonT(40) DEF SignaturesReal
    <3>3. \A m \in u.out : m.type = "RecoveryMessage" => RecoveryTrue(n, u, sigs, m)
      BY <1>5, <2>0, <3>1, ZenonT(40) DEF SignaturesReal
    <3>4. u.loop # Nil => RecoveryTrue(n, u, sigs, u.loop.msg) /\ LoopFits(u.loop)
      BY <1>5, <2>0, <3>1, ZenonT(40) DEF SignaturesReal
    <3> QED BY <3>2, <3>3, <3>4, ZenonT(40) DEF SignaturesReal
  <2>3. ChainBacked(n, u, sigs)
    BY <1>2, <1>5, <1>7, ZenonT(40) DEF LocalInv, ChainBacked, Backed
  <2> QED BY <2>1, <2>2, <2>3, Zenon
<1>9. ASSUME ~u.loose PROVE Locked(n, u)
  <2>1. ~Forgets(d) /\ Locked(n, t)
    BY <1>2, <1>3, <1>5, <1>9, ZenonT(40) DEF LocalInv
  <2>2. ASSUME NEW m \in Commits(u) PROVE m.height <= u.height /\ m.height # u.height
    <3>1. m \in d.out /\ m.type = "Commit" /\ m.height \in Nat
      BY <1>0, <1>1, <1>6, <2>2, CommitType, Zenon DEF Commits
    <3>2. ~(m.height > Len(s.chain))
      BY <1>1, <2>1, <3>1, Zenon DEF Forgets
    <3> QED BY <1>0, <1>3, <1>5, <3>1, <3>2, SMTT(30)
  <2>3. \A a, b \in Commits(u) : a.height = b.height => a.hdr = b.hdr
    BY <1>6, <2>1, Zenon DEF Locked
  <2> QED BY <2>2, <2>3, Zenon DEF Locked
<1>10. u.height <= Len(u.chain) + 1
  BY <1>2, <1>5, Zenon DEF LocalInv
<1> QED BY <1>2, <1>5, <1>6, <1>8, <1>9, <1>10, ZenonT(40) DEF LocalInv, u, t, d

-----------------------------------------------------------------------------
(* All validators together *)

\* Signatures only grow, and what was known stays known.
LEMMA MoreSignatures ==
    ASSUME NEW n, NEW s, NEW sigs, NEW more, sigs \subseteq more, LocalInv(n, s, sigs)
    PROVE  LocalInv(n, s, more)
<1>1. \A i, h, b : Known(n, s, sigs, i, h, b) => Known(n, s, more, i, h, b)
  BY Zenon DEF Known
<1>2. SignaturesReal(n, s, more)
  BY <1>1, ZenonT(40) DEF LocalInv, SignaturesReal, RecoveryTrue
<1>3. ChainBacked(n, s, more)
  BY <1>1, Zenon DEF LocalInv, ChainBacked, Backed
<1> QED BY <1>2, <1>3, Zenon DEF LocalInv

\* What one validator knows is known of all of them.
LEMMA KnownToAll ==
    ASSUME NEW i \in Validator, NEW n \in Validator, NEW j \in Validator, NEW h, NEW b,
           Known(i, node[i], Signatures, j, h, b)
    PROVE  Known(n, node[n], Signatures, j, h, b) /\ HasSigned(node[j], h, b)
<1>1. HasSigned(node[j], h, b)
  BY DEF Known, HasSigned, Signatures
<1>2. <<j, h, b>> \in Signatures
  BY <1>1 DEF HasSigned, Signatures
<1> QED BY <1>1, <1>2, Zenon DEF Known

\* Every payload some validator has broadcast can be handled by any other.
LEMMA BroadcastHandled ==
    ASSUME SignedInv, NEW n \in Validator, NEW i \in Validator, NEW m \in node[i].out
    PROVE  Handled(n, node[n], Signatures, i, m)
<1>1. node[i] \in NodeState /\ LocalInv(i, node[i], Signatures)
  BY Zenon DEF SignedInv
<1>2. m \in Payload
  BY <1>1, Zenon DEF NodeState
<1>3. CASE m \in [type : {"PrepareRequest", "PrepareResponse"}, height : Nat, view : Nat, val : Proposals]
  BY <1>3, Zenon DEF Handled
<1>4. CASE m \in [type : {"ChangeView", "RecoveryRequest"}, height : Nat, view : Nat]
  BY <1>4, Zenon DEF Handled
<1>5. CASE m \in [type : {"Commit"}, height : Nat, view : Nat, hdr : Header]
  <2> HIDE DEF Header
  <2>1. m.type = "Commit" /\ m.height \in Nat /\ m.view \in Nat /\ m.hdr \in Header
    BY <1>5, Zenon
  <2>2. HasSigned(node[i], m.height, m.hdr)
    BY <2>1, Zenon DEF HasSigned, Commits
  <2>3. Known(i, node[i], Signatures, i, m.height, m.hdr)
    BY <2>2, Zenon DEF Known
  <2>4. Known(n, node[n], Signatures, i, m.height, m.hdr)
    BY <2>3, KnownToAll, Zenon
  <2> QED BY <2>1, <2>4, Zenon DEF Handled
<1>6. CASE m \in RecoveryPayload
  <2>1. m.type = "RecoveryMessage" /\ m.height \in Nat /\ m.view \in Nat
    BY <1>6, Zenon DEF RecoveryPayload
  <2>2. RecoveryTrue(i, node[i], Signatures, m)
    BY <1>1, <2>1, ZenonT(40) DEF LocalInv, SignaturesReal
  <2>3. RecoveryTrue(n, node[n], Signatures, m)
    BY <2>2, KnownToAll, ZenonT(40) DEF RecoveryTrue
  <2> QED BY <1>6, <2>1, <2>3, Zenon DEF Handled
<1> QED BY <1>2, <1>3, <1>4, <1>5, <1>6, Zenon DEF Payload

\* One validator moves to a state that satisfies the local invariant.
LEMMA StepInv ==
    ASSUME SignedInv, NEW n \in Validator, NEW t, LocalInv(n, t, Signatures),
           node[n].out \subseteq t.out, node' = [node EXCEPT ![n] = t], crashes' \in Nat
    PROVE  SignedInv'
<1>1. node \in [Validator -> NodeState] /\ t \in NodeState
  BY Zenon DEF SignedInv, LocalInv
<1>2. node' \in [Validator -> NodeState]
  BY <1>1, Zenon
<1>3. \A k \in Validator : node[k].out \subseteq node'[k].out
  BY <1>1, Zenon
<1>4. Signatures \subseteq Signatures'
  BY <1>3 DEF Signatures, Commits
<1>5. ASSUME NEW k \in Validator PROVE LocalInv(k, node'[k], Signatures')
  <2>1. LocalInv(k, node'[k], Signatures)
    BY <1>1, <1>5, Zenon DEF SignedInv
  <2> QED BY <1>4, <2>1, MoreSignatures, Zenon
<1> QED BY <1>2, <1>5, ZenonT(40) DEF SignedInv, LocalInv, Locked, ChainBacked, Backed, SignaturesReal,
      RecoveryTrue, RequestPlaced, LoopFits, Known, HasSigned, Commits

\* The invariant holds when no validator has started.
LEMMA InitInv == Init => SignedInv
<1> SUFFICES ASSUME Init PROVE SignedInv
  BY Zenon
<1> DEFINE d == Stopped(<<>>, {}, FALSE)
<1>1. /\ ~d.up /\ d.height = 0 /\ d.prep = [i \in Validator |-> Nil] /\ d.commit = [i \in Validator |-> Nil]
      /\ d.loop = Nil /\ d.chain = <<>> /\ d.out = {} /\ d.loose = FALSE
  BY Zenon DEF Stopped
<1>2. d \in NodeState
  <2>1. <<>> \in Seq(Header)
    OBVIOUS
  <2> HIDE DEF Header
  <2> QED BY <2>1, Zenon DEF Stopped, NodeState, PrepSlot, CommitSlot, SeenSlot, Loop
<1>3. \A n \in Validator : node[n] = d
  BY Zenon DEF Init
<1>4. node \in [Validator -> NodeState]
  BY <1>2, Zenon DEF Init
<1> HIDE DEF d
<1>5. Len(d.chain) = 0 /\ Commits(d) = {}
  BY <1>1, Zenon DEF Commits
<1>6. ASSUME NEW n \in Validator PROVE LocalInv(n, d, Signatures)
  <2>1. RequestPlaced(d)
    BY <1>1, Zenon DEF RequestPlaced
  <2>2. SignaturesReal(n, d, Signatures)
    BY <1>1, Zenon DEF SignaturesReal
  <2>3. ChainBacked(n, d, Signatures)
    BY <1>5 DEF ChainBacked
  <2>4. Locked(n, d)
    BY <1>1, <1>5, Zenon DEF Locked
  <2>5. d.height <= Len(d.chain) + 1
    BY <1>1, <1>5
  <2> QED BY <1>2, <2>1, <2>2, <2>3, <2>4, <2>5, ZenonT(40) DEF LocalInv
<1> QED BY <1>3, <1>4, <1>6, Zenon DEF SignedInv, Init

\* Every action preserves the invariant.
LEMMA NextInv == SignedInv /\ [Next]_vars => SignedInv'
<1> SUFFICES ASSUME SignedInv, [Next]_vars PROVE SignedInv'
  BY ZenonT(40)
<1>1. CASE UNCHANGED vars
  <2>1. node' = node /\ crashes' = crashes
    BY <1>1, Zenon DEF vars
  <2>2. Signatures' = Signatures
    BY <2>1 DEF Signatures, Commits
  <2>3. \A k \in Validator : LocalInv(k, node'[k], Signatures')
    BY <2>1, <2>2, Zenon DEF SignedInv
  <2> QED BY <2>1, <2>3, ZenonT(40) DEF SignedInv, LocalInv, Locked, ChainBacked, Backed, SignaturesReal,
        RecoveryTrue, RequestPlaced, LoopFits, Known, HasSigned, Commits
<1>2. CASE Next
  <2>1. PICK n \in Active :
          \/ Start(n) \/ Receive(n) \/ Recover(n) \/ OnTimeout(n)
          \/ OnTransaction(n) \/ SyncBlock(n) \/ handleChainBlock(n) \/ Crash(n)
    BY <1>2, Zenon DEF Next
  <2> DEFINE s == node[n]
  <2>2. n \in Validator /\ LocalInv(n, s, Signatures) /\ s \in NodeState /\ crashes \in Nat
    BY ConstantsAssumption, Zenon DEF SignedInv
  <2> HIDE DEF s
  <2>3. ASSUME NEW t, Become(n, t), LocalInv(n, t, Signatures), s.out \subseteq t.out
        PROVE  SignedInv'
    BY <2>2, <2>3, StepInv, ZenonT(40) DEF Become, s
  <2>4. Outcomes \subseteq Answer
    BY ConstantsAssumption, Zenon
  <2>5. CASE Start(n)
    <3> DEFINE t == InitializeConsensus(n, Stopped(s.chain, s.out, s.loose), 0)
               u == [t EXCEPT !.up = TRUE]
    <3>1. PICK e \in Outcomes : Become(n, IF n = PrimaryIndex(t) THEN sendPrepareRequest(n, u, e) ELSE u)
      BY <2>5, Zenon DEF Start, s
    <3>2. LocalInv(n, u, Signatures) /\ u.out = s.out /\ u.up /\ PrimaryIndex(u) = PrimaryIndex(t)
      BY <2>2, StartedInv, Zenon
    <3> HIDE DEF u, t
    <3>3. CASE n = PrimaryIndex(t)
      <4>1. LocalInv(n, sendPrepareRequest(n, u, e), Signatures) /\ u.out \subseteq sendPrepareRequest(n, u, e).out
        BY <2>2, <2>4, <3>1, <3>2, <3>3, SendPrepareRequestInv, ZenonT(40)
      <4> QED BY <2>3, <3>1, <3>2, <3>3, <4>1, ZenonT(40)
    <3>4. CASE n # PrimaryIndex(t)
      BY <2>3, <3>1, <3>2, <3>4, ZenonT(40)
    <3> QED BY <3>3, <3>4, Zenon
  <2>6. CASE Receive(n)
    <3>1. PICK i \in Validator, e \in Outcomes : \E m \in node[i].out :
            s.up /\ Become(n, OnReceive(n, s, i, m, e))
      BY <2>6, Zenon DEF Receive, Waiting, s
    <3>2. PICK m \in node[i].out : s.up /\ Become(n, OnReceive(n, s, i, m, e))
      BY <3>1, Zenon
    <3>3. Handled(n, s, Signatures, i, m)
      BY <2>2, BroadcastHandled, Zenon DEF s
    <3>4. LocalInv(n, OnReceive(n, s, i, m, e), Signatures) /\ s.out \subseteq OnReceive(n, s, i, m, e).out
      BY <2>2, <3>2, <3>3, OnReceiveInv, ZenonT(40)
    <3> QED BY <2>3, <3>2, <3>4, ZenonT(40)
  <2>7. CASE Recover(n)
    <3>1. PICK e \in Outcomes : s.up /\ s.loop # Nil /\ Become(n, recoverNext(n, s, e))
      BY <2>7, Zenon DEF Recover, s
    <3>2. LocalInv(n, recoverNext(n, s, e), Signatures) /\ s.out \subseteq recoverNext(n, s, e).out
      BY <2>2, <2>4, <3>1, RecoverNextInv, ZenonT(40)
    <3> QED BY <2>3, <3>1, <3>2, Zenon
  <2>8. CASE OnTimeout(n)
    <3>1. PICK e \in Outcomes :
            /\ s.up
            /\ \/ n = PrimaryIndex(s) /\ Become(n, sendPrepareRequest(n, s, e))
               \/ Become(n, sendRecoveryMessage(n, s))
               \/ ~CommitSent(n, s) /\ Become(n, sendChangeView(n, s, e))
      BY <2>8, Zenon DEF OnTimeout, Waiting, s
    <3>2. CASE n = PrimaryIndex(s) /\ Become(n, sendPrepareRequest(n, s, e))
      BY <2>2, <2>3, <2>4, <3>1, <3>2, SendPrepareRequestInv, ZenonT(40)
    <3>3. CASE Become(n, sendRecoveryMessage(n, s))
      BY <2>2, <2>3, <3>3, SendRecoveryMessageInv, ZenonT(40)
    <3>4. CASE ~CommitSent(n, s) /\ Become(n, sendChangeView(n, s, e))
      <4>1. Free(s)
        BY <2>2, <3>1, <3>4, NotBound, ZenonT(40)
      <4> QED BY <2>2, <2>3, <3>1, <3>4, <4>1, SendChangeViewInv, ZenonT(40)
    <3> QED BY <3>1, <3>2, <3>3, <3>4, ZenonT(40)
  <2>9. CASE OnTransaction(n)
    <3> DEFINE t == [s EXCEPT !.txs = "found"]
    <3>1. PICK e \in Outcomes :
            /\ s.up /\ RequestSentOrReceived(s) /\ ~ResponseSent(n, s)
            /\ Become(n, addTransaction(n, t, e))
      BY <2>9, Zenon DEF OnTransaction, Waiting, s
    <3>2. /\ t \in NodeState
          /\ t.up = s.up /\ t.height = s.height /\ t.view = s.view /\ t.chain = s.chain
          /\ t.commit = s.commit /\ t.prep = s.prep /\ t.loose = s.loose /\ t.out = s.out
          /\ t.loop = s.loop
      BY <2>2, Zenon DEF NodeState
    <3> HIDE DEF t
    <3>3. Free(s)
      BY <2>2, <3>1, NotBound, Zenon
    <3>4. LocalInv(n, t, Signatures) /\ Free(t) /\ RequestSentOrReceived(t) /\ t.up
      BY <2>2, <3>1, <3>2, <3>3, SameInv, ZenonT(40)
    <3>5. LocalInv(n, addTransaction(n, t, e), Signatures) /\ t.out \subseteq addTransaction(n, t, e).out
      BY <2>2, <3>4, AddTransactionInv, Zenon
    <3> QED BY <2>3, <3>1, <3>2, <3>5, ZenonT(40)
  <2>10. CASE SyncBlock(n)
    <3> DEFINE h == Len(s.chain) + 1
    <3>1. PICK i \in Validator :
            h <= Len(node[i].chain) /\ Become(n, [s EXCEPT !.chain = Append(@, node[i].chain[h])])
      BY <2>10, Zenon DEF SyncBlock, s
    <3> DEFINE b == node[i].chain[h]
    <3>2. /\ LocalInv(i, node[i], Signatures) /\ node[i].chain \in Seq(Header)
          /\ Len(s.chain) \in Nat /\ Len(node[i].chain) \in Nat
      <4>1. LocalInv(i, node[i], Signatures) /\ node[i] \in NodeState
        BY Zenon DEF SignedInv
      <4> QED BY <2>2, <4>1, SMTT(30) DEF NodeState
    <3>3. h \in 1..Len(node[i].chain)
      BY <3>1, <3>2
    <3>4. b \in Header
      BY <3>2, <3>3, SMTT(30)
    <3>5. Backed(i, node[i], Signatures, h, b)
      BY <3>2, <3>3, Zenon DEF LocalInv, ChainBacked
    <3>6. Backed(n, s, Signatures, h, b)
      BY <2>2, <3>5, KnownToAll, Zenon DEF Backed, s
    <3> HIDE DEF b
    <3> DEFINE t == [s EXCEPT !.chain = Append(@, b)]
    <3>7. LocalInv(n, t, Signatures) /\ t.out = s.out
      BY <2>2, <3>4, <3>6, AppendInv, SMTT(30)
    <3>8. Become(n, t)
      BY <3>1, Zenon DEF b
    <3> HIDE DEF t
    <3> QED BY <2>3, <3>7, <3>8, ZenonT(40)
  <2>11. CASE handleChainBlock(n)
    <3>1. Become(n, InitializeConsensus(n, s, 0))
      BY <2>11, Zenon DEF handleChainBlock, s
    <3>2. LocalInv(n, InitializeConsensus(n, s, 0), Signatures) /\ InitializeConsensus(n, s, 0).out = s.out
      BY <2>2, InitializeConsensusInv
    <3> QED BY <2>3, <3>1, <3>2, Zenon
  <2>12. CASE Crash(n)
    <3>1. PICK k \in 0..Len(s.chain) :
            /\ crashes' = crashes + 1
            /\ node' = [node EXCEPT ![n] = Stopped(SubSeq(s.chain, 1, k), s.out,
                  s.loose \/ Forgets([s EXCEPT !.chain = SubSeq(s.chain, 1, k)]))]
      BY <2>12, Zenon DEF Crash, s
    <3> DEFINE ch == SubSeq(s.chain, 1, k)
               lo == s.loose \/ Forgets([s EXCEPT !.chain = SubSeq(s.chain, 1, k)])
               t == Stopped(ch, s.out, lo)
    <3>2. s.chain \in Seq(Header) /\ Len(s.chain) \in Nat /\ s.loose \in BOOLEAN
      BY <2>2 DEF NodeState
    <3>3. k \in Nat /\ k <= Len(s.chain)
      BY <3>2
    <3>4. ch \in Seq(Header) /\ Len(ch) = k /\ \A h \in 1..k : ch[h] = s.chain[h]
      <4> HIDE DEF Header
      <4> QED BY <3>2, <3>3
    <3>5. lo \in BOOLEAN /\ (s.loose => lo)
      BY <3>2, Zenon
    <3> HIDE DEF ch, lo
    <3>6. LocalInv(n, t, Signatures) /\ t.out = s.out
      BY <2>2, <3>3, <3>4, <3>5, StoppedInv, SMTT(30)
    <3>7. node' = [node EXCEPT ![n] = t] /\ crashes' \in Nat
      BY <2>2, <3>1 DEF ch, lo
    <3> HIDE DEF t
    <3> QED BY <2>2, <3>6, <3>7, StepInv, Zenon DEF s
  <2> QED BY <2>1, <2>5, <2>6, <2>7, <2>8, <2>9, <2>10, <2>11, <2>12, ZenonT(40)
<1> QED BY <1>1, <1>2, Zenon

\* SignedInv holds in every behaviour, for any number of validators, whatever
\* subset of them runs, and whatever the bounds.
THEOREM SignaturesBind == Spec => []SignedInv
BY InitInv, NextInv, PTL DEF Spec

-----------------------------------------------------------------------------
(* What follows *)

\* Every state of every validator has the fields of dbft.Context with values
\* of their types: no handler reads a request, a header or a slot that is not
\* there.
THEOREM TypeCorrect == Spec => []TypeOK
<1>1. SignedInv => TypeOK
  BY Zenon DEF SignedInv, TypeOK
<1> QED BY <1>1, SignaturesBind, PTL

\* A validator that is not loose signs at most one block per height, whatever
\* timeouts, view changes and recovery messages it goes through.
THEOREM CommitOnce == Spec => []OneCommitPerHeight
<1>1. SignedInv => OneCommitPerHeight
  <2> SUFFICES ASSUME SignedInv, NEW n \in Validator \ Loose, NEW a \in node[n].out, NEW b \in node[n].out,
                      a.type = "Commit", b.type = "Commit", a.height = b.height
               PROVE  a.hdr = b.hdr
    BY Zenon DEF OneCommitPerHeight
  <2>1. Locked(n, node[n])
    BY Zenon DEF SignedInv, LocalInv, Loose
  <2>2. a \in Commits(node[n]) /\ b \in Commits(node[n])
    BY Zenon DEF Commits
  <2> QED BY <2>1, <2>2, Zenon DEF Locked
<1> QED BY <1>1, SignaturesBind, PTL

\* Two sets of M validators have one in common that is not loose, if at most
\* F are.
LEMMA QuorumsMeet ==
    ASSUME NEW P \in SUBSET Validator, Cardinality(P) = M,
           NEW Q \in SUBSET Validator, Cardinality(Q) = M,
           NEW L \in SUBSET Validator, Cardinality(L) <= F
    PROVE  \E k \in P \cap Q : k \notin L
<1>1. IsFiniteSet(Validator) /\ Cardinality(Validator) = N
  BY NAssumption, FS_Interval DEF Validator
<1>2. IsFiniteSet(P) /\ IsFiniteSet(Q) /\ IsFiniteSet(L) /\ IsFiniteSet(P \cap Q)
  BY <1>1, FS_Subset, Zenon
<1>3. IsFiniteSet(P \cup Q) /\ Cardinality(P \cup Q) = M + M - Cardinality(P \cap Q)
  BY <1>2, FS_Union, Zenon
<1>4. Cardinality(P \cup Q) <= N
  <2>1. P \cup Q \in SUBSET Validator
    BY Zenon
  <2> QED BY <1>1, <2>1, FS_Subset, Zenon
<1>5. Cardinality(P \cap Q) \in Nat /\ Cardinality(P \cup Q) \in Nat /\ Cardinality(L) \in Nat
  BY <1>2, <1>3, FS_CardinalityType, ZenonT(40)
<1>6. Cardinality(P \cap Q) > F
  BY <1>3, <1>4, <1>5, QuorumSize, NAssumption, SMTT(30)
<1>7. ASSUME P \cap Q \subseteq L PROVE FALSE
  <2>1. Cardinality(P \cap Q) <= Cardinality(L)
    BY <1>2, <1>7, FS_Subset, ZenonT(40)
  <2> QED BY <1>5, <1>6, <2>1, QuorumSize, SMTT(30)
<1> QED BY <1>7, Zenon

\* Ledgers agree: for any number N of validators, as long as at most
\* F = (N-1)/3 of them are loose, no two ledgers differ at a height.
THEOREM LedgersAgree == Spec => []Agreement
<1>1. SignedInv => Agreement
  <2> SUFFICES ASSUME SignedInv, Cardinality(Loose) <= F, NEW i \in Validator, NEW j \in Validator,
                      NEW h \in 1..Len(node[i].chain), h <= Len(node[j].chain)
               PROVE  node[i].chain[h] = node[j].chain[h]
    BY Zenon DEF Agreement
  <2>1. LocalInv(i, node[i], Signatures) /\ LocalInv(j, node[j], Signatures) /\ node[j] \in NodeState
    BY Zenon DEF SignedInv
  <2>2. h \in 1..Len(node[j].chain)
    BY <2>1, SMTT(30) DEF NodeState
  <2>3. PICK P \in SUBSET Validator :
          Cardinality(P) = M /\ \A k \in P : Known(i, node[i], Signatures, k, h, node[i].chain[h])
    BY <2>1, Zenon DEF LocalInv, ChainBacked, Backed
  <2>4. PICK Q \in SUBSET Validator :
          Cardinality(Q) = M /\ \A k \in Q : Known(j, node[j], Signatures, k, h, node[j].chain[h])
    BY <2>1, <2>2, ZenonT(40) DEF LocalInv, ChainBacked, Backed
  <2>5. Loose \in SUBSET Validator
    BY Zenon DEF Loose
  <2>6. PICK k \in P \cap Q : k \notin Loose
    BY <2>3, <2>4, <2>5, QuorumsMeet, Zenon
  <2>7. k \in Validator /\ HasSigned(node[k], h, node[i].chain[h]) /\ HasSigned(node[k], h, node[j].chain[h])
    BY <2>3, <2>4, <2>6, KnownToAll, Zenon
  <2>8. Locked(k, node[k])
    BY <2>6, <2>7, ZenonT(40) DEF SignedInv, LocalInv, Loose
  <2> QED BY <2>7, <2>8, Zenon DEF HasSigned, Locked
<1> QED BY <1>1, SignaturesBind, PTL

-----------------------------------------------------------------------------
(* A validator bound by a signature keeps its view *)

\* n is bound by a block it signed: it knows the request and has prepared.
Bound(n, s) == s \in NodeState /\ CommitSent(n, s) /\ ResponseSent(n, s) /\ RequestSentOrReceived(s)

\* The view stays, or the context starts over with a view 0.
KeepsView(s, t) == t.view = s.view \/ t.view = 0

\* A block ends the height, or nothing happens.
LEMMA CheckCommitView ==
    ASSUME NEW n, NEW s \in NodeState, NEW e
    PROVE  KeepsView(s, checkCommit(n, s, e))
BY Zenon DEF checkCommit, InitializeConsensus, KeepsView

\* Answering a recovery request only sends.
LEMMA RecoveryAnswerView ==
    ASSUME NEW n, NEW s \in NodeState, NEW i
    PROVE  KeepsView(s, sendRecoveryMessage(n, s)) /\ KeepsView(s, onRecoveryRequest(n, s, i))
<1>1. sendRecoveryMessage(n, s).view = s.view
  <2> DEFINE m == makeRecoveryMessage(n, s)
  <2>1. [s EXCEPT !.out = @ \cup {m}].view = s.view
    <3> HIDE DEF m
    <3> QED BY Zenon DEF NodeState
  <2> QED BY <2>1, Zenon DEF sendRecoveryMessage, broadcast
<1> QED BY <1>1, Zenon DEF onRecoveryRequest, KeepsView

\* No handler takes a bound validator to a later view: CommitSent turns change
\* views away, the request is known, and the response counted.
LEMMA OnReceiveView ==
    ASSUME NEW n \in Validator, NEW sigs, NEW s, Bound(n, s),
           NEW i \in Validator, NEW m, Handled(n, s, sigs, i, m), NEW e
    PROVE  KeepsView(s, OnReceive(n, s, i, m, e))
<1> DEFINE t == see(s, i, m)
<1>1. t \in NodeState /\ t.view = s.view /\ t.height = s.height /\ t.prep = s.prep /\ t.commit = s.commit
  <2> DEFINE x == [height |-> m.height, view |-> m.view]
  <2>1. x \in SeenSlot
    BY Zenon DEF SeenSlot, Handled
  <2>2. t \in {s, [s EXCEPT !.seen[i] = x]}
    BY Zenon DEF see
  <2> HIDE DEF t, x
  <2>3. CASE t = s
    BY <2>3, Zenon DEF Bound
  <2>4. CASE t = [s EXCEPT !.seen[i] = x]
    BY <2>1, <2>4, Zenon DEF NodeState, Bound
  <2> QED BY <2>2, <2>3, <2>4, ZenonT(40)
<1>2. OnReceive(n, s, i, m, e) = s \/ OnReceive(n, s, i, m, e) =
        CASE m.type = "ChangeView" -> onChangeView(n, t, i, m)
          [] m.type = "PrepareRequest" -> onPrepareRequest(n, t, i, m, e)
          [] m.type = "PrepareResponse" -> onPrepareResponse(n, t, i, m, e)
          [] m.type = "Commit" -> onCommit(n, t, i, m, e)
          [] m.type = "RecoveryRequest" -> onRecoveryRequest(n, t, i)
          [] m.type = "RecoveryMessage" -> onRecoveryMessage(n, t, m)
  BY Zenon DEF OnReceive
<1> HIDE DEF t
<1>3. CommitSent(n, t) /\ RequestSentOrReceived(t)
  BY <1>1, Zenon DEF Bound, CommitSent, RequestSentOrReceived, PrimaryIndex
<1>4. CASE m.type = "ChangeView"
  <2>1. onChangeView(n, t, i, m) \in {onRecoveryRequest(n, t, i), sendRecoveryMessage(n, t)}
    BY <1>3, Zenon DEF onChangeView
  <2>2. KeepsView(t, onRecoveryRequest(n, t, i)) /\ KeepsView(t, sendRecoveryMessage(n, t))
    BY <1>1, RecoveryAnswerView, Zenon
  <2>3. KeepsView(t, onChangeView(n, t, i, m))
    BY <2>1, <2>2, Zenon
  <2> QED BY <1>1, <1>2, <1>4, <2>3, ZenonT(40) DEF KeepsView
<1>5. CASE m.type = "PrepareRequest"
  <2>1. onPrepareRequest(n, t, i, m, e) = t
    BY <1>3, Zenon DEF onPrepareRequest
  <2> QED BY <1>1, <1>2, <1>5, <2>1, ZenonT(40) DEF KeepsView
<1>6. CASE m.type = "PrepareResponse"
  <2> DEFINE r == [kind |-> "resp", val |-> m.val]
             u == [t EXCEPT !.prep[i] = r]
             d == [t EXCEPT !.up = FALSE]
  <2>1. onPrepareResponse(n, t, i, m, e) \in {t, u, d}
    BY <1>3, Zenon DEF onPrepareResponse
  <2> HIDE DEF r
  <2>2. u.view = t.view /\ d.view = t.view
    BY <1>1, Zenon DEF NodeState
  <2> HIDE DEF u, d
  <2> QED BY <1>1, <1>2, <1>6, <2>1, <2>2, ZenonT(40) DEF KeepsView
<1>7. CASE m.type = "Commit"
  <2> DEFINE c == [view |-> m.view, hdr |-> m.hdr]
             u == [t EXCEPT !.commit[i] = c]
  <2>1. onCommit(n, t, i, m, e) \in {t, u, checkCommit(n, u, e)}
    BY Zenon DEF onCommit
  <2>2. c \in CommitSlot
    BY <1>7, Zenon DEF Handled, CommitSlot
  <2> HIDE DEF c
  <2>3. u \in NodeState /\ u.view = t.view
    BY <1>1, <2>2, Zenon DEF NodeState
  <2> HIDE DEF u
  <2>4. KeepsView(u, checkCommit(n, u, e))
    BY <2>3, CheckCommitView, Zenon
  <2> QED BY <1>1, <1>2, <1>7, <2>1, <2>3, <2>4, ZenonT(40) DEF KeepsView
<1>8. CASE m.type = "RecoveryRequest"
  BY <1>1, <1>2, <1>8, RecoveryAnswerView, SMTT(30) DEF KeepsView
<1>9. CASE m.type = "RecoveryMessage"
  <2> DEFINE l == [msg |-> m, phase |-> "cv",
                   left |-> IF m.view > t.view THEN {j \in Validator : m.cvs[j] # 0} ELSE {}]
             u == [t EXCEPT !.loop = l]
  <2>1. onRecoveryMessage(n, t, m) \in {t, u}
    BY Zenon DEF onRecoveryMessage
  <2> HIDE DEF l
  <2>2. u.view = t.view
    BY <1>1, Zenon DEF NodeState
  <2> HIDE DEF u
  <2> QED BY <1>1, <1>2, <1>9, <2>1, <2>2, Zenon DEF KeepsView
<1> QED BY <1>2, <1>4, <1>5, <1>6, <1>7, <1>8, <1>9, ZenonT(40) DEF Handled, KeepsView

\* Neither does a round of the recovery loops.
LEMMA RecoverNextView ==
    ASSUME NEW n \in Validator, NEW sigs, NEW s, LocalInv(n, s, sigs), s.up, Bound(n, s), s.loop # Nil,
           NEW e \in Answer
    PROVE  KeepsView(s, recoverNext(n, s, e))
<1> DEFINE l == s.loop
           i == CHOOSE i \in l.left : \A j \in l.left : i <= j
           l2 == [msg |-> l.msg, phase |-> l.phase, left |-> l.left \ {i}]
           t == [s EXCEPT !.loop = l2]
           x == recoveredPayload(l, i)
<1>0. s \in NodeState BY Zenon DEF LocalInv
<1>1. l \in Loop /\ l # Nil /\ RecoveryTrue(n, s, sigs, l.msg) /\ LoopFits(l)
  BY <1>0, Zenon DEF NodeState, LocalInv, SignaturesReal
<1>2. /\ l \in [msg : RecoveryPayload, phase : {"cv", "resp", "commit"}, left : SUBSET Validator]
      /\ l.left \in SUBSET Validator /\ l.phase \in {"cv", "resp", "commit"}
  BY <1>1, Zenon DEF Loop
<1>3. CASE l.left # {}
  <2>1. i \in l.left /\ i \in Validator
    BY <1>2, <1>3, LowestIndex, ZenonT(40)
  <2>2. [s EXCEPT !.loop.left = @ \ {i}] = t
    <3>1. [l EXCEPT !.left = @ \ {i}] = l2
      BY <1>2
    <3> QED BY <3>1, Zenon
  <2>3. recoverNext(n, s, e) = OnReceive(n, t, i, x, e)
    BY <1>3, <2>2, ZenonT(40) DEF recoverNext
  <2>4. l2 \in Loop /\ l2.msg = l.msg /\ LoopFits(l2)
    <3> HIDE DEF i, l
    <3> QED BY <1>1, <1>2, Zenon DEF Loop, LoopFits
  <2> HIDE DEF l2, i, l
  <2>5. LocalInv(n, t, sigs) /\ Commits(t) = Commits(s) /\ PrimaryIndex(t) = PrimaryIndex(s)
    BY <1>1, <2>4, SetLoopInv, SMTT(30)
  <2>6. t.view = s.view /\ t.prep = s.prep /\ t.commit = s.commit
    BY <1>0, Zenon DEF NodeState
  <2> HIDE DEF t
  <2>7. RecoveryTrue(n, t, sigs, l.msg)
    BY <1>1, <2>5, Zenon DEF RecoveryTrue, Known, HasSigned
  <2>8. Handled(n, t, sigs, i, x)
    BY <1>1, <2>1, <2>7, RecoveredHandled, Zenon
  <2>9. Bound(n, t)
    BY <2>5, <2>6, Zenon DEF Bound, CommitSent, ResponseSent, RequestSentOrReceived, LocalInv
  <2> HIDE DEF x
  <2>10. KeepsView(t, OnReceive(n, t, i, x, e))
    BY <2>1, <2>8, <2>9, OnReceiveView, Zenon
  <2> QED BY <2>3, <2>6, <2>10, ZenonT(40) DEF KeepsView
<1>4. CASE l.left = {}
  <2>1. recoverNext(n, s, e) \in {recoverCommits(s), [s EXCEPT !.loop = Nil]}
    BY <1>2, <1>4, Zenon DEF recoverNext, Bound
  <2>2. recoverCommits(s).view = s.view /\ [s EXCEPT !.loop = Nil].view = s.view
    BY <1>0, Zenon DEF NodeState, recoverCommits
  <2> QED BY <2>1, <2>2, ZenonT(40) DEF KeepsView
<1> QED BY <1>3, <1>4, Zenon

\* A signature that is filed was sent, so it binds unless the validator is loose.
LEMMA SignedIsBound ==
    ASSUME NEW n \in Validator, NEW sigs, NEW s, LocalInv(n, s, sigs), s.up, ~s.loose, CommitSent(n, s)
    PROVE  Bound(n, s)
<1>1. Known(n, s, sigs, n, s.height, s.commit[n].hdr)
  BY Zenon DEF LocalInv, SignaturesReal, CommitSent
<1>2. PICK m \in Commits(s) : m.height = s.height
  BY <1>1, Zenon DEF Known, HasSigned
<1> QED BY <1>2, ZenonT(40) DEF LocalInv, Locked, Bound

\* A validator that signed a block of its height does not leave the view for
\* a later one of that height, whatever it receives or recovers and whichever
\* timer fires.
THEOREM SignersStay == Spec => CommitKeepsView
<1>1. SignedInv /\ [Next]_vars =>
        \A n \in Validator :
           node[n].up /\ ~node[n].loose /\ CommitSent(n, node[n]) =>
              ~(node'[n].height = node[n].height /\ node'[n].view > node[n].view)
  <2> SUFFICES ASSUME SignedInv, [Next]_vars, NEW n \in Validator, node[n].up, ~node[n].loose,
                      CommitSent(n, node[n])
               PROVE  ~(node'[n].height = node[n].height /\ node'[n].view > node[n].view)
    BY Zenon
  <2> SUFFICES ASSUME node'[n] # node[n] PROVE KeepsView(node[n], node'[n])
    <3>1. node[n] \in NodeState
      BY Zenon DEF SignedInv
    <3>2. node[n].view \in Nat
      BY <3>1, Zenon DEF NodeState
    <3> QED BY <3>2 DEF KeepsView
  <2> DEFINE s == node[n]
  <2>1. PICK k \in Active :
          \/ Start(k) \/ Receive(k) \/ Recover(k) \/ OnTimeout(k)
          \/ OnTransaction(k) \/ SyncBlock(k) \/ handleChainBlock(k) \/ Crash(k)
    BY Zenon DEF Next, vars
  <2>2. /\ LocalInv(n, s, Signatures) /\ s \in NodeState /\ s.up /\ ~s.loose /\ CommitSent(n, s)
        /\ node \in [Validator -> NodeState]
    BY Zenon DEF SignedInv
  <2>3. \A t : node' = [node EXCEPT ![k] = t] => k = n /\ node'[n] = t
    BY <2>2, ConstantsAssumption, Zenon
  <2>4. \A t : Become(k, t) => k = n /\ node'[n] = t
    BY <2>3, Zenon DEF Become
  <2> HIDE DEF s
  <2>5. Bound(n, s)
    BY <2>2, SignedIsBound, Zenon
  <2>6. Outcomes \subseteq Answer
    BY ConstantsAssumption, Zenon
  <2>7. SUFFICES KeepsView(s, node'[n])
    BY Zenon DEF s
  <2>8. CASE Start(k)
    BY <2>2, <2>4, <2>8, Zenon DEF Start, s
  <2>9. CASE Receive(k)
    <3>1. PICK i \in Validator, e \in Outcomes : \E m \in node[i].out : Become(k, OnReceive(k, node[k], i, m, e))
      BY <2>9, Zenon DEF Receive
    <3>2. PICK m \in node[i].out : Become(k, OnReceive(k, node[k], i, m, e))
      BY <3>1, Zenon
    <3>3. k = n /\ node'[n] = OnReceive(n, s, i, m, e)
      BY <2>4, <3>2, Zenon DEF s
    <3>4. Handled(n, s, Signatures, i, m)
      BY <3>2, BroadcastHandled, Zenon DEF s
    <3> QED BY <2>5, <3>3, <3>4, OnReceiveView, ZenonT(40)
  <2>10. CASE Recover(k)
    <3>1. PICK e \in Outcomes : node[k].loop # Nil /\ Become(k, recoverNext(k, node[k], e))
      BY <2>10, Zenon DEF Recover
    <3>2. k = n /\ s.loop # Nil /\ node'[n] = recoverNext(n, s, e)
      BY <2>4, <3>1, Zenon DEF s
    <3> QED BY <2>2, <2>5, <2>6, <3>2, RecoverNextView, ZenonT(40)
  <2>11. CASE OnTimeout(k)
    <3>1. k = n
      BY <2>4, <2>11, ZenonT(40) DEF OnTimeout
    <3>2. Become(n, sendRecoveryMessage(n, s))
      BY <2>5, <2>11, <3>1, ZenonT(40) DEF OnTimeout, Bound, s
    <3> QED BY <2>2, <2>4, <3>1, <3>2, RecoveryAnswerView, SMTT(30)
  <2>12. CASE OnTransaction(k)
    <3>1. k = n
      BY <2>4, <2>12, Zenon DEF OnTransaction
    <3> QED BY <2>5, <2>12, <3>1, Zenon DEF OnTransaction, Bound, s
  <2>13. CASE SyncBlock(k)
    <3>1. PICK c : Become(k, [node[k] EXCEPT !.chain = c])
      BY <2>13, ZenonT(40) DEF SyncBlock
    <3>2. node'[n] = [s EXCEPT !.chain = c]
      BY <2>4, <3>1, Zenon DEF s
    <3>3. [s EXCEPT !.chain = c].view = s.view
      BY <2>2, ZenonT(40) DEF NodeState
    <3> QED BY <3>2, <3>3, ZenonT(40) DEF KeepsView
  <2>14. CASE handleChainBlock(k)
    <3>1. node'[n] = InitializeConsensus(n, s, 0)
      BY <2>4, <2>14, ZenonT(40) DEF handleChainBlock, s
    <3> QED BY <3>1 DEF InitializeConsensus, KeepsView
  <2>15. CASE Crash(k)
    <3>1. PICK ch, lo : node' = [node EXCEPT ![k] = Stopped(ch, node[k].out, lo)]
      BY <2>15, Zenon DEF Crash
    <3>2. node'[n] = Stopped(ch, s.out, lo)
      BY <2>3, <3>1, Zenon DEF s
    <3> QED BY <3>2 DEF Stopped, KeepsView
  <2> QED BY <2>1, <2>8, <2>9, <2>10, <2>11, <2>12, <2>13, <2>14, <2>15, ZenonT(40)
<1> QED BY <1>1, SignaturesBind, PTL DEF Spec, CommitKeepsView

=============================================================================
