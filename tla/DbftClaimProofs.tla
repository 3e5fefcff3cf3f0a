-------------------------- MODULE DbftClaimProofs ---------------------------
(***************************************************************************)
(* ClaimsInv is an invariant of Dbft: what a validator files or reports of *)
(* the others is backed by payloads they have sent.  From it: a view is    *)
(* entered, and a block signed, only with M validators behind it.  The     *)
(* lemmas follow the methods as those of DbftProofs do, and take LocalInv  *)
(* from them.                                                              *)
(***************************************************************************)
EXTENDS DbftProofs

-----------------------------------------------------------------------------
(* What was sent stays sent *)

\* Sending more takes no backing away.
LEMMA BackingStays ==
    ASSUME NEW n, NEW s, NEW t, s.out \subseteq t.out
    PROVE  /\ \A i, h, v : Asked(n, s, i, h, v) => Asked(n, t, i, h, v)
           /\ \A i, h, v : PreparedAt(n, s, i, h, v) => PreparedAt(n, t, i, h, v)
           /\ \A h, v, x : Requested(n, s, h, v, x) => Requested(n, t, h, v, x)
           /\ \A m : ReportReal(n, s, m) => ReportReal(n, t, m)
           /\ \A m : PayloadReal(n, s, m) => PayloadReal(n, t, m)
<1>1. \A i : Sent(n, s, i) \subseteq Sent(n, t, i)
  BY Zenon DEF Sent
<1>2. \A i, h, v : Asked(n, s, i, h, v) => Asked(n, t, i, h, v)
  BY <1>1, Zenon DEF Asked
<1>3. \A i, h, v : PreparedAt(n, s, i, h, v) => PreparedAt(n, t, i, h, v)
  BY <1>1, Zenon DEF PreparedAt
<1>4. \A h, v, x : Requested(n, s, h, v, x) => Requested(n, t, h, v, x)
  BY <1>1, Zenon DEF Requested
<1>5. \A m : ReportReal(n, s, m) => ReportReal(n, t, m)
  BY <1>2, <1>3, <1>4, Zenon DEF ReportReal
<1>6. \A m : PayloadReal(n, s, m) => PayloadReal(n, t, m)
  BY <1>3, <1>4, <1>5, Zenon DEF PayloadReal
<1> QED BY <1>2, <1>3, <1>4, <1>5, <1>6, Zenon

\* A context that did not change is still backed.
LEMMA SameContext ==
    ASSUME NEW n, NEW s, NEW t, ContextReal(n, s), s.out \subseteq t.out,
           t.height = s.height, t.view = s.view, t.cv = s.cv, t.lastCv = s.lastCv, t.prep = s.prep
    PROVE  ContextReal(n, t)
BY BackingStays, Zenon DEF ContextReal

\* It is enough to look at what is new.
LEMMA ClaimsFrame ==
    ASSUME NEW n, NEW s, NEW t, ClaimsReal(n, s), s.out \subseteq t.out, ContextReal(n, t),
           \A m \in t.out \ s.out : PayloadReal(n, t, m),
           t.loop # Nil => (t.loop = s.loop \/ ReportReal(n, t, t.loop.msg))
    PROVE  ClaimsReal(n, t)
<1>1. \A m \in t.out : PayloadReal(n, t, m)
  BY BackingStays, Zenon DEF ClaimsReal
<1>2. t.loop # Nil => ReportReal(n, t, t.loop.msg)
  BY BackingStays, Zenon DEF ClaimsReal
<1> QED BY <1>1, <1>2, Zenon DEF ClaimsReal

\* The slots that changed have their backing, and so have the payloads sent.
LEMMA SlotsClaims ==
    ASSUME NEW n, NEW s, NEW t, ClaimsReal(n, s), s.out \subseteq t.out,
           t.height = s.height, t.view = s.view, t.lastCv = s.lastCv, t.loop = s.loop,
           \A i \in Validator :
               t.cv[i] = 0 \/ t.cv[i] = s.cv[i] \/ Asked(n, t, i, t.height, t.cv[i]),
           \A i \in Validator :
               \/ t.prep[i] = Nil \/ t.prep[i] = s.prep[i]
               \/ /\ PreparedAt(n, t, i, t.height, t.view)
                  /\ Requested(n, t, t.height, t.view, t.prep[i].val),
           \A m \in t.out \ s.out : PayloadReal(n, t, m)
    PROVE  ClaimsReal(n, t)
<1>0. ContextReal(n, s)
  BY Zenon DEF ClaimsReal
<1>1. \A i \in Validator : t.cv[i] # 0 => Asked(n, t, i, t.height, t.cv[i])
  BY <1>0, BackingStays, Zenon DEF ContextReal
<1>2. \A i \in Validator : t.lastCv[i] # 0 => Asked(n, t, i, t.height, t.lastCv[i])
  BY <1>0, BackingStays, Zenon DEF ContextReal
<1>3. t.view > 0 => \E Q \in SUBSET Validator :
                       Cardinality(Q) >= M /\ \A i \in Q : Asked(n, t, i, t.height, t.view)
  BY <1>0, BackingStays, Zenon DEF ContextReal
<1>4. \A i \in Validator : t.prep[i] # Nil =>
          PreparedAt(n, t, i, t.height, t.view) /\ Requested(n, t, t.height, t.view, t.prep[i].val)
  <2> SUFFICES ASSUME NEW i \in Validator, t.prep[i] # Nil, t.prep[i] = s.prep[i]
               PROVE  /\ PreparedAt(n, t, i, t.height, t.view)
                      /\ Requested(n, t, t.height, t.view, t.prep[i].val)
    BY Zenon
  <2>1. /\ PreparedAt(n, s, i, s.height, s.view)
        /\ Requested(n, s, s.height, s.view, s.prep[i].val)
    BY <1>0, Zenon DEF ContextReal
  <2> QED BY <2>1, BackingStays, Zenon
<1>5. ContextReal(n, t)
  BY <1>1, <1>2, <1>3, <1>4, Zenon DEF ContextReal
<1> QED BY <1>5, ClaimsFrame, Zenon

\* A change of other fields only.
LEMMA SameClaims ==
    ASSUME NEW n, NEW s, NEW t, ClaimsReal(n, s), t.out = s.out,
           t.height = s.height, t.view = s.view, t.cv = s.cv, t.lastCv = s.lastCv, t.prep = s.prep,
           t.loop # Nil => (t.loop = s.loop \/ ReportReal(n, s, t.loop.msg))
    PROVE  ClaimsReal(n, t)
<1>1. ContextReal(n, t)
  BY SameContext, Zenon DEF ClaimsReal
<1>2. t.loop # Nil => (t.loop = s.loop \/ ReportReal(n, t, t.loop.msg))
  BY BackingStays, Zenon
<1> QED BY <1>1, <1>2, ClaimsFrame, Zenon

-----------------------------------------------------------------------------
(* context.go, check.go and send.go *)

\* A reset context claims its view, and of the others only their old votes.
LEMMA InitializeConsensusClaims ==
    ASSUME NEW n \in Validator, NEW s \in NodeState, ClaimsReal(n, s), NEW v \in Nat,
           v > 0 => \E Q \in SUBSET Validator :
                        Cardinality(Q) >= M /\ \A i \in Q : Asked(n, s, i, s.height, v)
    PROVE  ClaimsReal(n, InitializeConsensus(n, s, v))
<1> DEFINE t == InitializeConsensus(n, s, v)
<1>1. /\ t.out = s.out /\ t.loop = s.loop /\ t.view = v
      /\ t.height = IF v = 0 THEN Len(s.chain) + 1 ELSE s.height
      /\ t.prep = [i \in Validator |-> Nil] /\ t.cv = [i \in Validator |-> 0]
      /\ t.lastCv = [i \in Validator |-> IF v # 0 /\ s.cv[i] < v THEN s.cv[i] ELSE 0]
  BY Zenon DEF InitializeConsensus
<1> HIDE DEF t
<1>2. \A i, h, w : Asked(n, s, i, h, w) => Asked(n, t, i, h, w)
  BY <1>1, BackingStays, Zenon
<1>3. v # 0 => t.height = s.height
  BY <1>1, Zenon
<1>4. \A i \in Validator : t.lastCv[i] # 0 => v # 0 /\ s.cv[i] # 0 /\ t.lastCv[i] = s.cv[i]
  BY <1>1, Zenon
<1>5. \A i \in Validator : t.lastCv[i] # 0 => Asked(n, t, i, t.height, t.lastCv[i])
  BY <1>2, <1>3, <1>4, ZenonT(40) DEF ClaimsReal, ContextReal
<1>6. t.view > 0 => \E Q \in SUBSET Validator :
                       Cardinality(Q) >= M /\ \A i \in Q : Asked(n, t, i, t.height, t.view)
  BY <1>1, <1>2, <1>3
<1>7. \A i \in Validator : t.prep[i] = Nil /\ t.cv[i] = 0
  BY <1>1, Zenon
<1>8. ContextReal(n, t)
  BY <1>5, <1>6, <1>7, Zenon DEF ContextReal
<1> QED BY <1>1, <1>8, ClaimsFrame, ZenonT(40) DEF t

\* M commits make a block; the context starts over.
LEMMA CheckCommitClaims ==
    ASSUME NEW n \in Validator, NEW sigs, NEW s, LocalInv(n, s, sigs), ClaimsReal(n, s), NEW e
    PROVE  ClaimsReal(n, checkCommit(n, s, e))
<1> DEFINE t == processBlock(s, e)
<1>1. t \in NodeState
  BY ProcessBlockInv, Zenon DEF LocalInv
<1>2. ClaimsReal(n, t)
  <2>1. s \in NodeState
    BY Zenon DEF LocalInv
  <2>2. /\ t.out = s.out /\ t.height = s.height /\ t.view = s.view /\ t.cv = s.cv
        /\ t.lastCv = s.lastCv /\ t.prep = s.prep /\ t.loop = s.loop
    BY <2>1, Zenon DEF processBlock, NodeState
  <2> QED BY <2>2, SameClaims, Zenon
<1>3. checkCommit(n, s, e) = InitializeConsensus(n, t, 0) \/ checkCommit(n, s, e) = s
  BY Zenon DEF checkCommit
<1> HIDE DEF t
<1> QED BY <1>1, <1>2, <1>3, InitializeConsensusClaims, SMTT(30)

\* A first signature follows M preparations of the request; a later one of
\* the height repeats it.
LEMMA SendCommitClaims ==
    ASSUME NEW n \in Validator, NEW sigs, NEW s, LocalInv(n, s, sigs), ClaimsReal(n, s),
           RequestSentOrReceived(s),
           Cardinality({i \in Validator : s.prep[i] # Nil}) >= M
    PROVE  ClaimsReal(n, sendCommit(n, s))
<1> DEFINE c == makeCommit(n, s)
           m == [type |-> "Commit", height |-> s.height, view |-> c.view, hdr |-> c.hdr]
           t == sendCommit(n, s)
<1>0. s \in NodeState BY Zenon DEF LocalInv
<1>1. /\ t.out = s.out \cup {m} /\ t.height = s.height /\ t.view = s.view /\ t.cv = s.cv
      /\ t.lastCv = s.lastCv /\ t.prep = s.prep /\ t.loop = s.loop
  BY <1>0, Zenon DEF sendCommit, broadcast, NodeState
<1>2. m.type = "Commit" /\ m.height = s.height /\ m.hdr = c.hdr
  BY Zenon
<1>3. PayloadReal(n, s, m)
  <2>1. CASE CommitSent(n, s)
    <3>1. s.commit[n] # Nil /\ c = s.commit[n]
      BY <2>1, Zenon DEF CommitSent, makeCommit
    <3>2. PICK a \in Commits(s) : a.height = s.height /\ a.hdr = c.hdr
      BY <3>1, ZenonT(40) DEF LocalInv, SignaturesReal, Known, HasSigned
    <3>3. a.type = "Commit" /\ PayloadReal(n, s, a)
      BY <3>2, Zenon DEF ClaimsReal, Commits
    <3> HIDE DEF m, c
    <3> QED BY <1>2, <3>2, <3>3, Zenon DEF PayloadReal
  <2>2. CASE ~CommitSent(n, s)
    <3> DEFINE p == PrimaryIndex(s)
               Q == {i \in Validator : s.prep[i] # Nil}
    <3>1. c.hdr = [view |-> s.view, val |-> s.prep[p].val]
      BY <2>2, Zenon DEF makeCommit, MakeHeader
    <3>2. c.hdr.view = s.view /\ c.hdr.val = s.prep[p].val
      BY <3>1
    <3>3. p \in Validator /\ s.prep[p] # Nil
      BY <1>0, PrimaryIsValidator, Zenon DEF RequestSentOrReceived
    <3>4. Requested(n, s, s.height, s.view, s.prep[p].val)
      BY <3>3, ZenonT(40) DEF ClaimsReal, ContextReal
    <3>5. Q \in SUBSET Validator /\ Cardinality(Q) >= M /\ \A i \in Q : PreparedAt(n, s, i, s.height, s.view)
      BY Zenon DEF ClaimsReal, ContextReal
    <3> HIDE DEF m, c, p, Q
    <3> QED BY <1>2, <3>2, <3>4, <3>5, ZenonT(40) DEF PayloadReal
  <2> QED BY <2>1, <2>2, Zenon
<1> HIDE DEF m, t
<1>4. ContextReal(n, t)
  BY <1>1, SameContext, Zenon DEF ClaimsReal
<1>5. \A x \in t.out \ s.out : PayloadReal(n, t, x)
  BY <1>1, <1>3, BackingStays, ZenonT(40)
<1> QED BY <1>1, <1>4, <1>5, ClaimsFrame, ZenonT(40) DEF t

\* M preparations make a validator sign.
LEMMA CheckPrepareClaims ==
    ASSUME NEW n \in Validator, NEW sigs, NEW s, LocalInv(n, s, sigs), s.up, ClaimsReal(n, s), NEW e
    PROVE  ClaimsReal(n, checkPrepare(n, s, e))
<1>1. CASE /\ \E i \in Validator : s.prep[i] # Nil /\ s.prep[i].kind = "req"
           /\ Cardinality({i \in Validator : s.prep[i] # Nil}) >= M
  <2>1. RequestSentOrReceived(s)
    BY <1>1, Zenon DEF LocalInv, RequestPlaced, RequestSentOrReceived
  <2>2. LocalInv(n, sendCommit(n, s), sigs) /\ ClaimsReal(n, sendCommit(n, s))
    BY <1>1, <2>1, SendCommitInv, SendCommitClaims, ZenonT(40)
  <2> QED BY <2>2, CheckCommitClaims, Zenon DEF checkPrepare
<1>2. CASE ~(/\ \E i \in Validator : s.prep[i] # Nil /\ s.prep[i].kind = "req"
             /\ Cardinality({i \in Validator : s.prep[i] # Nil}) >= M)
  BY <1>2, Zenon DEF checkPrepare
<1> QED BY <1>1, <1>2, Zenon

\* The primary's own request backs its slot.
LEMMA ProposedClaims ==
    ASSUME NEW n \in Validator, NEW s \in NodeState, ClaimsReal(n, s), n = PrimaryIndex(s),
           NEW v
    PROVE  ClaimsReal(n, proposed(n, s, v))
<1> DEFINE m == [type |-> "PrepareRequest", height |-> s.height, view |-> s.view, val |-> v]
           r == [kind |-> "req", val |-> v]
           t == [s EXCEPT !.prep[n] = r, !.txs = "made", !.out = @ \cup {m}]
<1>1. proposed(n, s, v) = t
  BY Zenon DEF proposed, broadcast, NodeState
<1>2. m.type = "PrepareRequest" /\ m.height = s.height /\ m.view = s.view /\ m.val = v /\ r.val = v
  BY Zenon
<1> HIDE DEF m, r
<1>3. /\ t.out = s.out \cup {m} /\ t.height = s.height /\ t.view = s.view /\ t.cv = s.cv
      /\ t.lastCv = s.lastCv /\ t.loop = s.loop /\ t.prep = [s.prep EXCEPT ![n] = r]
  BY Zenon DEF NodeState
<1> HIDE DEF t
<1>4. GetPrimaryIndex(t.height, t.view) = n /\ s.prep \in [Validator -> PrepSlot]
  BY <1>3, Zenon DEF PrimaryIndex, NodeState
<1>5. m \in Sent(n, t, n)
  BY <1>3, Zenon DEF Sent
<1>6. Requested(n, t, t.height, t.view, v) /\ PreparedAt(n, t, n, t.height, t.view)
  BY <1>2, <1>3, <1>4, <1>5, ZenonT(40) DEF Requested, PreparedAt
<1>7. PayloadReal(n, t, m)
  BY <1>2, <1>3, <1>6, Zenon DEF PayloadReal
<1>8. \A i \in Validator : t.prep[i] = s.prep[i] \/ (i = n /\ t.prep[i] = r)
  BY <1>3, <1>4, Zenon
<1>9. \A i \in Validator :
         \/ t.prep[i] = Nil \/ t.prep[i] = s.prep[i]
         \/ /\ PreparedAt(n, t, i, t.height, t.view)
            /\ Requested(n, t, t.height, t.view, t.prep[i].val)
  BY <1>2, <1>6, <1>8, Zenon
<1>10. \A x \in t.out \ s.out : PayloadReal(n, t, x)
  BY <1>3, <1>7, Zenon
<1>11. ClaimsReal(n, t)
  BY <1>3, <1>9, <1>10, SlotsClaims, ZenonT(40)
<1> QED BY <1>1, <1>11, Zenon

\* A primary that proposes may sign at once.
LEMMA SendPrepareRequestClaims ==
    ASSUME NEW n \in Validator, NEW sigs, NEW s, LocalInv(n, s, sigs), s.up, ClaimsReal(n, s),
           n = PrimaryIndex(s), NEW e \in Answer
    PROVE  ClaimsReal(n, sendPrepareRequest(n, s, e))
<1> DEFINE v == e.val
           t == proposed(n, s, v)
<1>1. sendPrepareRequest(n, s, e) = checkPrepare(n, t, e)
  BY Zenon DEF sendPrepareRequest, proposed
<1>2. v \in Proposals /\ s \in NodeState
  BY Zenon DEF Answer, LocalInv
<1> HIDE DEF v
<1>3. LocalInv(n, t, sigs) /\ t.up = s.up /\ ClaimsReal(n, t)
  BY <1>2, ProposedInv, ProposedClaims, ZenonT(40)
<1> HIDE DEF t
<1> QED BY <1>1, <1>3, CheckPrepareClaims, ZenonT(40)

\* A response repeats the request it answers.
LEMMA SendPrepareResponseClaims ==
    ASSUME NEW n \in Validator, NEW s \in NodeState, ClaimsReal(n, s), RequestSentOrReceived(s)
    PROVE  ClaimsReal(n, sendPrepareResponse(n, s))
<1> DEFINE v == s.prep[PrimaryIndex(s)].val
           m == [type |-> "PrepareResponse", height |-> s.height, view |-> s.view, val |-> v]
           r == [kind |-> "resp", val |-> v]
           t == [s EXCEPT !.prep[n] = r, !.out = @ \cup {m}]
<1>1. sendPrepareResponse(n, s) = t
  BY Zenon DEF sendPrepareResponse, broadcast, NodeState
<1>2. Requested(n, s, s.height, s.view, v)
  BY PrimaryIsValidator, Zenon DEF RequestSentOrReceived, ClaimsReal, ContextReal
<1> HIDE DEF v
<1>3. m.type = "PrepareResponse" /\ m.height = s.height /\ m.view = s.view /\ m.val = v /\ r.val = v
  BY Zenon
<1> HIDE DEF m, r
<1>4. /\ t.out = s.out \cup {m} /\ t.height = s.height /\ t.view = s.view /\ t.cv = s.cv
      /\ t.lastCv = s.lastCv /\ t.loop = s.loop /\ t.prep = [s.prep EXCEPT ![n] = r]
  BY Zenon DEF NodeState
<1> HIDE DEF t
<1>5. s.prep \in [Validator -> PrepSlot]
  BY Zenon DEF NodeState
<1>6. Requested(n, t, t.height, t.view, v)
  BY <1>2, <1>4, BackingStays, Zenon
<1>7. PreparedAt(n, t, n, t.height, t.view)
  BY <1>3, <1>4, Zenon DEF PreparedAt, Sent
<1>8. PayloadReal(n, t, m)
  BY <1>3, <1>4, <1>6, Zenon DEF PayloadReal
<1>9. \A i \in Validator : t.prep[i] = s.prep[i] \/ (i = n /\ t.prep[i] = r)
  BY <1>4, <1>5, Zenon
<1>10. \A i \in Validator :
         \/ t.prep[i] = Nil \/ t.prep[i] = s.prep[i]
         \/ /\ PreparedAt(n, t, i, t.height, t.view)
            /\ Requested(n, t, t.height, t.view, t.prep[i].val)
  BY <1>3, <1>6, <1>7, <1>9, ZenonT(40)
<1>11. \A x \in t.out \ s.out : PayloadReal(n, t, x)
  BY <1>4, <1>8, Zenon
<1>12. ClaimsReal(n, t)
  BY <1>4, <1>10, <1>11, SlotsClaims, ZenonT(40)
<1> QED BY <1>1, <1>12, Zenon

-----------------------------------------------------------------------------
(* View changes and recovery *)

\* Every payload has a view.
LEMMA PayloadView ==
    ASSUME NEW m \in Payload
    PROVE  m.view \in Nat
<1>1. CASE m \in RecoveryPayload
  BY <1>1, Zenon DEF RecoveryPayload
<1>2. CASE m \notin RecoveryPayload
  <2> HIDE DEF RecoveryPayload
  <2> QED BY <1>2, Zenon DEF Payload
<1> QED BY <1>1, <1>2, Zenon

\* A vote for a view is one for every view before it.
LEMMA AskedEarlier ==
    ASSUME node \in [Validator -> NodeState], NEW n, NEW s \in NodeState, NEW i \in Validator,
           NEW h, NEW v \in Nat, NEW w \in Nat, v <= w, Asked(n, s, i, h, w)
    PROVE  Asked(n, s, i, h, v)
<1>1. PICK m \in Sent(n, s, i) : m.type = "ChangeView" /\ m.height = h /\ m.view + 1 >= w
  BY Zenon DEF Asked
<1>2. m \in Payload
  BY <1>1, Zenon DEF Sent, NodeState
<1>3. m.view \in Nat
  BY <1>2, PayloadView, Zenon
<1>4. m.view + 1 >= v
  BY <1>1, <1>3, SMTT(30)
<1> QED BY <1>1, <1>4, Zenon DEF Asked

\* A validator's own vote backs its slot.
LEMMA AskChangeViewClaims ==
    ASSUME NEW n \in Validator, NEW s \in NodeState, ClaimsReal(n, s)
    PROVE  /\ ClaimsReal(n, askChangeView(n, s))
           /\ askChangeView(n, s).height = s.height
           /\ \A i \in Validator : askChangeView(n, s).cv[i] = s.cv[i] \/ i = n
<1> DEFINE m == [type |-> "ChangeView", height |-> s.height, view |-> s.view]
           t == [s EXCEPT !.cv[n] = s.view + 1, !.out = @ \cup {m}]
<1>1. askChangeView(n, s) = t
  BY Zenon DEF askChangeView, broadcast, NodeState
<1>2. m.type = "ChangeView" /\ m.height = s.height /\ m.view = s.view
  BY Zenon
<1> HIDE DEF m
<1>3. /\ t.out = s.out \cup {m} /\ t.height = s.height /\ t.view = s.view
      /\ t.cv = [s.cv EXCEPT ![n] = s.view + 1]
      /\ t.lastCv = s.lastCv /\ t.loop = s.loop /\ t.prep = s.prep
  BY Zenon DEF NodeState
<1> HIDE DEF t
<1>4. s.cv \in [Validator -> Nat] /\ s.view \in Nat
  BY Zenon DEF NodeState
<1>5. Asked(n, t, n, t.height, s.view + 1)
  <2>1. m \in Sent(n, t, n)
    BY <1>3, Zenon DEF Sent
  <2>2. m.view + 1 >= s.view + 1
    BY <1>2, <1>4, SMTT(30)
  <2> QED BY <1>2, <1>3, <2>1, <2>2, ZenonT(40) DEF Asked
<1>6. \A i \in Validator : t.cv[i] = s.cv[i] \/ (i = n /\ t.cv[i] = s.view + 1)
  BY <1>3, <1>4, Zenon
<1>7. \A i \in Validator : t.cv[i] = 0 \/ t.cv[i] = s.cv[i] \/ Asked(n, t, i, t.height, t.cv[i])
  BY <1>5, <1>6, Zenon
<1>8. \A x \in t.out \ s.out : PayloadReal(n, t, x)
  BY <1>2, <1>3, Zenon DEF PayloadReal
<1>9. ClaimsReal(n, t)
  BY <1>3, <1>7, <1>8, SlotsClaims, ZenonT(40)
<1> QED BY <1>1, <1>3, <1>6, <1>9, ZenonT(40)

\* M votes take a validator to a view.
LEMMA CheckChangeViewClaims ==
    ASSUME node \in [Validator -> NodeState],
           NEW n \in Validator, NEW sigs, NEW s, LocalInv(n, s, sigs), ClaimsReal(n, s), NEW v \in Nat
    PROVE  ClaimsReal(n, checkChangeView(n, s, v))
<1> DEFINE t == IF s.cv[n] # 0 /\ s.cv[n] < v THEN askChangeView(n, s) ELSE s
           Q == {i \in Validator : s.cv[i] >= v}
<1> SUFFICES ASSUME s.view < v, Cardinality(Q) >= M
             PROVE  ClaimsReal(n, InitializeConsensus(n, t, v))
  BY Zenon DEF checkChangeView
<1>0. s \in NodeState /\ s.view \in Nat /\ s.cv \in [Validator -> Nat]
  BY Zenon DEF LocalInv, NodeState
<1>1. /\ LocalInv(n, askChangeView(n, s), sigs) /\ ClaimsReal(n, askChangeView(n, s))
      /\ askChangeView(n, s).height = s.height /\ s.out \subseteq askChangeView(n, s).out
  BY <1>0, AskChangeViewInv, AskChangeViewClaims, ZenonT(40)
<1>2. t \in NodeState /\ ClaimsReal(n, t) /\ t.height = s.height /\ s.out \subseteq t.out
  BY <1>0, <1>1, ZenonT(40) DEF LocalInv
<1> HIDE DEF t
<1>3. ASSUME NEW i \in Q PROVE Asked(n, t, i, t.height, v)
  <2>1. i \in Validator /\ s.cv[i] \in Nat /\ v <= s.cv[i] /\ s.cv[i] # 0
    BY <1>0, SMTT(30)
  <2>2. Asked(n, s, i, s.height, s.cv[i])
    BY <2>1, Zenon DEF ClaimsReal, ContextReal
  <2>3. Asked(n, s, i, s.height, v)
    BY <1>0, <2>1, <2>2, AskedEarlier, ZenonT(40)
  <2> QED BY <1>2, <2>3, BackingStays, ZenonT(40)
<1>4. Q \in SUBSET Validator
  BY Zenon
<1> HIDE DEF Q
<1> QED BY <1>2, <1>3, <1>4, InitializeConsensusClaims, ZenonT(40)

\* A request for recovery claims nothing.
LEMMA SendRecoveryRequestClaims ==
    ASSUME NEW n \in Validator, NEW s \in NodeState, ClaimsReal(n, s), NEW e
    PROVE  ClaimsReal(n, sendRecoveryRequest(n, s, e))
<1> DEFINE m == [type |-> "RecoveryRequest", height |-> s.height, view |-> s.view]
           x == IF RequestSentOrReceived(s) /\ ~hasAllTransactions(s) /\ e.have THEN "found" ELSE s.txs
           t == [s EXCEPT !.txs = x, !.out = @ \cup {m}]
<1>1. sendRecoveryRequest(n, s, e) = t
  BY Zenon DEF sendRecoveryRequest, broadcast, NodeState
<1>2. m.type = "RecoveryRequest"
  BY Zenon
<1> HIDE DEF m, x
<1>3. /\ t.out = s.out \cup {m} /\ t.height = s.height /\ t.view = s.view /\ t.cv = s.cv
      /\ t.lastCv = s.lastCv /\ t.loop = s.loop /\ t.prep = s.prep
  BY Zenon DEF NodeState
<1> HIDE DEF t
<1>4. \A y \in t.out \ s.out : PayloadReal(n, t, y)
  BY <1>2, <1>3, Zenon DEF PayloadReal
<1>5. ContextReal(n, t)
  BY <1>3, SameContext, Zenon DEF ClaimsReal
<1>6. ClaimsReal(n, t)
  BY <1>3, <1>4, <1>5, ClaimsFrame, ZenonT(40)
<1> QED BY <1>1, <1>6, Zenon

\* A vote, and the view change it may complete.
LEMMA SendChangeViewClaims ==
    ASSUME node \in [Validator -> NodeState],
           NEW n \in Validator, NEW sigs, NEW s, LocalInv(n, s, sigs), ClaimsReal(n, s), NEW e
    PROVE  ClaimsReal(n, sendChangeView(n, s, e))
<1> DEFINE t == askChangeView(n, s)
           v == s.view + 1
<1>0. s \in NodeState /\ v \in Nat
  BY SMTT(30) DEF LocalInv, NodeState
<1>1. LocalInv(n, t, sigs) /\ ClaimsReal(n, t)
  BY <1>0, AskChangeViewInv, AskChangeViewClaims, Zenon
<1>2. ClaimsReal(n, sendRecoveryRequest(n, s, e))
  BY <1>0, SendRecoveryRequestClaims, Zenon
<1>3. sendChangeView(n, s, e) = checkChangeView(n, t, v) \/ sendChangeView(n, s, e) = sendRecoveryRequest(n, s, e)
  BY Zenon DEF sendChangeView
<1> HIDE DEF t, v
<1>4. ClaimsReal(n, checkChangeView(n, t, v))
  BY <1>0, <1>1, CheckChangeViewClaims, Zenon
<1> QED BY <1>2, <1>3, <1>4, ZenonT(40)

\* A recovery message reports what its sender has filed.
LEMMA SendRecoveryMessageClaims ==
    ASSUME NEW n \in Validator, NEW s \in NodeState, ClaimsReal(n, s)
    PROVE  ClaimsReal(n, sendRecoveryMessage(n, s))
<1> DEFINE known == {i \in Validator : s.prep[i] # Nil}
           requests == {i \in known : s.prep[i].kind = "req"}
           req == IF requests = {} THEN Nil ELSE s.prep[CHOOSE i \in requests : TRUE].val
           low == CHOOSE i \in known : \A j \in known : i <= j
           hash == IF req # Nil \/ known = {} THEN req ELSE s.prep[low].val
           m == makeRecoveryMessage(n, s)
           t == [s EXCEPT !.out = @ \cup {m}]
<1>1. /\ m.type = "RecoveryMessage" /\ m.height = s.height /\ m.view = s.view
      /\ m.req = req /\ m.hash = hash /\ m.preps = known /\ m.cvs = s.lastCv
  BY Zenon DEF makeRecoveryMessage
<1>2. sendRecoveryMessage(n, s) = t
  BY Zenon DEF sendRecoveryMessage, broadcast
<1>3. \A i \in known : /\ PreparedAt(n, s, i, s.height, s.view)
                       /\ Requested(n, s, s.height, s.view, s.prep[i].val)
  BY Zenon DEF ClaimsReal, ContextReal
<1>4. req # Nil => Requested(n, s, s.height, s.view, req)
  <2> SUFFICES ASSUME requests # {} PROVE Requested(n, s, s.height, s.view, req)
    BY Zenon
  <2>1. (CHOOSE i \in requests : TRUE) \in requests
    BY Zenon
  <2> QED BY <1>3, <2>1, ZenonT(40)
<1>5. hash # Nil => Requested(n, s, s.height, s.view, hash)
  <2>1. CASE req # Nil \/ known = {}
    BY <1>4, <2>1, ZenonT(40)
  <2>2. CASE ~(req # Nil \/ known = {})
    <3>1. low \in known
      <4>1. known \in SUBSET Validator /\ known # {}
        BY <2>2, Zenon
      <4> HIDE DEF known
      <4> QED BY <4>1, LowestIndex, Zenon
    <3> QED BY <1>3, <2>2, <3>1, ZenonT(40)
  <2> QED BY <2>1, <2>2, ZenonT(40)
<1>6. \A i \in Validator : s.lastCv[i] # 0 => Asked(n, s, i, s.height, s.lastCv[i])
  BY Zenon DEF ClaimsReal, ContextReal
<1> HIDE DEF known, requests, req, low, hash, m
<1>7. ReportReal(n, s, m)
  BY <1>1, <1>3, <1>4, <1>5, <1>6, ZenonT(40) DEF ReportReal
<1>8. /\ t.out = s.out \cup {m} /\ t.height = s.height /\ t.view = s.view /\ t.cv = s.cv
      /\ t.lastCv = s.lastCv /\ t.loop = s.loop /\ t.prep = s.prep
  BY Zenon DEF NodeState
<1> HIDE DEF t
<1>9. PayloadReal(n, t, m)
  <2>1. ReportReal(n, t, m)
    BY <1>7, <1>8, BackingStays, ZenonT(40)
  <2> QED BY <1>1, <2>1, ZenonT(40) DEF PayloadReal
<1>10. ContextReal(n, t)
  BY <1>8, SameContext, Zenon DEF ClaimsReal
<1>11. ClaimsReal(n, t)
  BY <1>8, <1>9, <1>10, ClaimsFrame, ZenonT(40)
<1> QED BY <1>2, <1>11, Zenon

-----------------------------------------------------------------------------
(* dbft.go: the handlers *)

\* The last transaction may lead to a response or to a change view.
LEMMA AddTransactionClaims ==
    ASSUME node \in [Validator -> NodeState],
           NEW n \in Validator, NEW sigs, NEW s, LocalInv(n, s, sigs), s.up, ClaimsReal(n, s),
           RequestSentOrReceived(s), NEW e
    PROVE  ClaimsReal(n, addTransaction(n, s, e))
<1> DEFINE made == [s EXCEPT !.txs = "made"]
           sent == sendPrepareResponse(n, made)
<1>0. s \in NodeState BY Zenon DEF LocalInv
<1>1. /\ made \in NodeState
      /\ made.up = s.up /\ made.height = s.height /\ made.view = s.view /\ made.chain = s.chain
      /\ made.commit = s.commit /\ made.prep = s.prep /\ made.loose = s.loose /\ made.out = s.out
      /\ made.loop = s.loop /\ made.cv = s.cv /\ made.lastCv = s.lastCv
  BY <1>0, Zenon DEF NodeState
<1>2. addTransaction(n, s, e) \in {checkPrepare(n, sent, e), sendChangeView(n, made, e)}
  BY Zenon DEF addTransaction
<1> HIDE DEF made
<1>3. LocalInv(n, made, sigs) /\ RequestSentOrReceived(made)
  BY <1>1, SameInv, ZenonT(40)
<1>4. ClaimsReal(n, made)
  BY <1>1, SameClaims, Zenon
<1>5. LocalInv(n, sent, sigs) /\ sent.up /\ ClaimsReal(n, sent)
  BY <1>1, <1>3, <1>4, SendPrepareResponseInv, SendPrepareResponseClaims, ZenonT(40)
<1> HIDE DEF sent
<1>6. ClaimsReal(n, checkPrepare(n, sent, e))
  BY <1>5, CheckPrepareClaims, ZenonT(40)
<1>7. ClaimsReal(n, sendChangeView(n, made, e))
  BY <1>3, <1>4, SendChangeViewClaims, ZenonT(40)
<1> QED BY <1>2, <1>6, <1>7, ZenonT(40)

\* A request its primary sent can be filed; the responses that stay agree.
LEMMA AcceptRequestClaims ==
    ASSUME NEW n \in Validator, NEW s \in NodeState, ClaimsReal(n, s), NEW m, NEW e, NEW i,
           PreparedAt(n, s, i, s.height, s.view), Requested(n, s, s.height, s.view, m.val)
    PROVE  ClaimsReal(n, acceptRequest(s, i, m, e))
<1> DEFINE r == [kind |-> "req", val |-> m.val]
           p == [j \in Validator |->
                   IF j = i THEN r
                   ELSE IF s.prep[j] # Nil /\ s.prep[j].kind = "resp" /\ s.prep[j].val # m.val THEN Nil
                   ELSE s.prep[j]]
           x == IF e.have THEN "found" ELSE "missing"
           t == [s EXCEPT !.prep = p, !.txs = x]
<1>1. acceptRequest(s, i, m, e) = t
  BY Zenon DEF acceptRequest
<1>2. r.val = m.val
  BY ZenonT(40)
<1> HIDE DEF r
<1>3. \A j \in Validator : (p[j] = r /\ j = i) \/ p[j] = Nil \/ p[j] = s.prep[j]
  BY Zenon
<1> HIDE DEF p, x
<1>4. /\ t.out = s.out /\ t.height = s.height /\ t.view = s.view /\ t.cv = s.cv
      /\ t.lastCv = s.lastCv /\ t.loop = s.loop /\ t.prep = p
  BY Zenon DEF NodeState
<1> HIDE DEF t
<1>5. \A j \in Validator :
         \/ t.prep[j] = Nil \/ t.prep[j] = s.prep[j]
         \/ /\ PreparedAt(n, t, j, t.height, t.view)
            /\ Requested(n, t, t.height, t.view, t.prep[j].val)
  <2>1. PreparedAt(n, t, i, t.height, t.view) /\ Requested(n, t, t.height, t.view, m.val)
    BY <1>4, BackingStays, Zenon
  <2> QED BY <1>2, <1>3, <1>4, <2>1, ZenonT(40)
<1>6. \A y \in t.out \ s.out : PayloadReal(n, t, y)
  BY <1>4, Zenon
<1>7. ClaimsReal(n, t)
  BY <1>4, <1>5, <1>6, SlotsClaims, ZenonT(40)
<1> QED BY <1>1, <1>7, Zenon

\* What m, a payload of i, says is backed.
Credible(n, s, i, m) ==
    /\ m.type = "ChangeView" => Asked(n, s, i, m.height, m.view + 1)
    /\ m.type \in {"PrepareRequest", "PrepareResponse"} =>
          PreparedAt(n, s, i, m.height, m.view) /\ Requested(n, s, m.height, m.view, m.val)
    /\ m.type = "RecoveryMessage" => ReportReal(n, s, m)

\* A request is filed, and may be answered.
LEMMA OnPrepareRequestClaims ==
    ASSUME node \in [Validator -> NodeState],
           NEW n \in Validator, NEW sigs, NEW s, LocalInv(n, s, sigs), s.up, ClaimsReal(n, s),
           NEW m, m.val \in Proposals, m.type = "PrepareRequest", m.height = s.height, NEW e, NEW i,
           Credible(n, s, i, m)
    PROVE  ClaimsReal(n, onPrepareRequest(n, s, i, m, e))
<1> DEFINE t == acceptRequest(s, i, m, e)
<1>0. s \in NodeState BY Zenon DEF LocalInv
<1>1. CASE RequestSentOrReceived(s) \/ m.view # s.view \/ i # PrimaryIndex(s)
  BY <1>1, Zenon DEF onPrepareRequest
<1>2. CASE ~RequestSentOrReceived(s) /\ m.view = s.view /\ i = PrimaryIndex(s)
  <2>1. LocalInv(n, t, sigs) /\ t.up /\ RequestSentOrReceived(t)
    BY <1>2, AcceptRequestInv, Zenon
  <2>2. PreparedAt(n, s, i, s.height, s.view) /\ Requested(n, s, s.height, s.view, m.val)
    BY <1>2, Zenon DEF Credible
  <2>3. ClaimsReal(n, t)
    BY <1>0, <2>2, AcceptRequestClaims, ZenonT(40)
  <2>4. onPrepareRequest(n, s, i, m, e) \in {s, sendChangeView(n, s, e), addTransaction(n, t, e), t}
    BY Zenon DEF onPrepareRequest
  <2> HIDE DEF t
  <2>5. ClaimsReal(n, addTransaction(n, t, e))
    BY <2>1, <2>3, AddTransactionClaims, ZenonT(40)
  <2>6. ClaimsReal(n, sendChangeView(n, s, e))
    BY SendChangeViewClaims, Zenon
  <2> QED BY <2>3, <2>4, <2>5, <2>6, ZenonT(40)
<1> QED BY <1>1, <1>2, ZenonT(40)

\* A response can be filed.
LEMMA RespondedClaims ==
    ASSUME NEW n \in Validator, NEW s \in NodeState, ClaimsReal(n, s), NEW v, NEW i \in Validator,
           PreparedAt(n, s, i, s.height, s.view), Requested(n, s, s.height, s.view, v)
    PROVE  ClaimsReal(n, responded(s, i, v))
<1> DEFINE r == [kind |-> "resp", val |-> v]
           t == responded(s, i, v)
<1>1. t = [s EXCEPT !.prep[i] = r] /\ r.val = v
  BY Zenon DEF responded
<1> HIDE DEF r, t
<1>2. /\ t.out = s.out /\ t.height = s.height /\ t.view = s.view /\ t.cv = s.cv
      /\ t.lastCv = s.lastCv /\ t.loop = s.loop /\ t.prep = [s.prep EXCEPT ![i] = r]
      /\ s.prep \in [Validator -> PrepSlot]
  BY <1>1, ZenonT(40) DEF NodeState
<1>3. \A j \in Validator : t.prep[j] = s.prep[j] \/ (j = i /\ t.prep[j] = r)
  BY <1>2, Zenon
<1>4. \A j \in Validator :
         \/ t.prep[j] = Nil \/ t.prep[j] = s.prep[j]
         \/ /\ PreparedAt(n, t, j, t.height, t.view)
            /\ Requested(n, t, t.height, t.view, t.prep[j].val)
  <2>1. PreparedAt(n, t, i, t.height, t.view) /\ Requested(n, t, t.height, t.view, v)
    BY <1>2, BackingStays, ZenonT(40)
  <2> QED BY <1>1, <1>3, <2>1, ZenonT(40)
<1>5. \A y \in t.out \ s.out : PayloadReal(n, t, y)
  BY <1>2, Zenon
<1> QED BY <1>2, <1>4, <1>5, SlotsClaims, ZenonT(40) DEF t

\* A response is filed, and may be the last one that was missing.
LEMMA OnPrepareResponseClaims ==
    ASSUME NEW n \in Validator, NEW sigs, NEW s, LocalInv(n, s, sigs), s.up, ClaimsReal(n, s),
           NEW m, m.val \in Proposals, m.type = "PrepareResponse", m.height = s.height, NEW e,
           NEW i \in Validator, Credible(n, s, i, m)
    PROVE  ClaimsReal(n, onPrepareResponse(n, s, i, m, e))
<1> DEFINE v == m.val
           t == responded(s, i, v)
           d == [s EXCEPT !.up = FALSE]
<1>0. s \in NodeState BY Zenon DEF LocalInv
<1>1. CASE m.view # s.view \/ i = PrimaryIndex(s) \/ s.prep[i] # Nil
  BY <1>1, Zenon DEF onPrepareResponse
<1>2. CASE m.view = s.view /\ i # PrimaryIndex(s) /\ s.prep[i] = Nil
  <2>1. onPrepareResponse(n, s, i, m, e) \in {s, t, d, checkPrepare(n, t, e)}
    BY Zenon DEF onPrepareResponse, responded
  <2>2. /\ d.out = s.out /\ d.height = s.height /\ d.view = s.view /\ d.cv = s.cv
        /\ d.lastCv = s.lastCv /\ d.loop = s.loop /\ d.prep = s.prep
    BY <1>0, ZenonT(40) DEF NodeState
  <2> HIDE DEF d
  <2>3. ClaimsReal(n, d)
    BY <2>2, SameClaims, ZenonT(40)
  <2>4. /\ v \in Proposals
        /\ PreparedAt(n, s, i, s.height, s.view) /\ Requested(n, s, s.height, s.view, v)
    BY <1>2, ZenonT(40) DEF Credible
  <2> HIDE DEF v
  <2>5. LocalInv(n, t, sigs) /\ t.up
    BY <1>2, <2>4, RespondedInv, ZenonT(40)
  <2>6. ClaimsReal(n, t)
    BY <1>0, <2>4, RespondedClaims, ZenonT(40)
  <2> HIDE DEF t
  <2>7. ClaimsReal(n, checkPrepare(n, t, e))
    BY <2>5, <2>6, CheckPrepareClaims, ZenonT(40)
  <2> QED BY <2>1, <2>3, <2>6, <2>7, ZenonT(40)
<1> QED BY <1>1, <1>2, ZenonT(40)

\* A vote is counted, or answered with a recovery message.
LEMMA OnChangeViewClaims ==
    ASSUME node \in [Validator -> NodeState],
           NEW n \in Validator, NEW sigs, NEW s, LocalInv(n, s, sigs), s.up, ClaimsReal(n, s),
           NEW i \in Validator, NEW m, m.view \in Nat, m.type = "ChangeView", m.height = s.height,
           Credible(n, s, i, m)
    PROVE  ClaimsReal(n, onChangeView(n, s, i, m))
<1> DEFINE v == m.view + 1
           t == [s EXCEPT !.cv[i] = v]
<1>0. s \in NodeState /\ v \in Nat BY DEF LocalInv
<1>1. onChangeView(n, s, i, m) \in {s, sendRecoveryMessage(n, s), checkChangeView(n, t, v)}
  BY ZenonT(40) DEF onChangeView, onRecoveryRequest
<1>2. Asked(n, s, i, s.height, v)
  BY Zenon DEF Credible
<1> HIDE DEF v
<1>3. /\ t \in NodeState
      /\ t.up = s.up /\ t.height = s.height /\ t.view = s.view /\ t.chain = s.chain
      /\ t.commit = s.commit /\ t.prep = s.prep /\ t.loose = s.loose /\ t.out = s.out
      /\ t.loop = s.loop /\ t.lastCv = s.lastCv /\ t.cv = [s.cv EXCEPT ![i] = v]
      /\ s.cv \in [Validator -> Nat]
  BY <1>0, ZenonT(40) DEF NodeState
<1> HIDE DEF t
<1>4. LocalInv(n, t, sigs)
  BY <1>3, SameInv, ZenonT(40)
<1>5. \A j \in Validator : t.cv[j] = 0 \/ t.cv[j] = s.cv[j] \/ Asked(n, t, j, t.height, t.cv[j])
  <2>1. Asked(n, t, i, t.height, v)
    BY <1>2, <1>3, BackingStays, ZenonT(40)
  <2>2. \A j \in Validator : t.cv[j] = s.cv[j] \/ (j = i /\ t.cv[j] = v)
    BY <1>3, Zenon
  <2> QED BY <2>1, <2>2, ZenonT(40)
<1>6. \A y \in t.out \ s.out : PayloadReal(n, t, y)
  BY <1>3, Zenon
<1>7. ClaimsReal(n, t)
  BY <1>3, <1>5, <1>6, SlotsClaims, SMTT(30)
<1>8. ClaimsReal(n, checkChangeView(n, t, v))
  BY <1>0, <1>4, <1>7, CheckChangeViewClaims, Zenon
<1>9. ClaimsReal(n, sendRecoveryMessage(n, s))
  BY <1>0, SendRecoveryMessageClaims, Zenon
<1> QED BY <1>1, <1>8, <1>9, ZenonT(40)

\* A commit is filed, and may be the last one that was missing.
LEMMA OnCommitClaims ==
    ASSUME NEW n \in Validator, NEW sigs, NEW s, LocalInv(n, s, sigs), ClaimsReal(n, s),
           NEW i \in Validator, NEW m, m.view \in Nat, m.hdr \in Header,
           Known(n, s, sigs, i, s.height, m.hdr), NEW e
    PROVE  ClaimsReal(n, onCommit(n, s, i, m, e))
<1> DEFINE c == [view |-> m.view, hdr |-> m.hdr]
           t == [s EXCEPT !.commit[i] = c]
<1>0. s \in NodeState BY Zenon DEF LocalInv
<1>1. c \in [view : Nat, hdr : Header] /\ c.hdr = m.hdr
  BY Zenon
<1>2. onCommit(n, s, i, m, e) \in {s, t, checkCommit(n, t, e)}
  BY Zenon DEF onCommit
<1> HIDE DEF c
<1>3. LocalInv(n, t, sigs)
  BY <1>1, StoreCommitInv, Zenon
<1>4. /\ t.out = s.out /\ t.height = s.height /\ t.view = s.view /\ t.cv = s.cv
      /\ t.lastCv = s.lastCv /\ t.loop = s.loop /\ t.prep = s.prep
  BY <1>0, ZenonT(40) DEF NodeState
<1> HIDE DEF t
<1>5. ClaimsReal(n, t)
  BY <1>4, SameClaims, ZenonT(40)
<1>6. ClaimsReal(n, checkCommit(n, t, e))
  BY <1>3, <1>5, CheckCommitClaims, ZenonT(40)
<1> QED BY <1>2, <1>5, <1>6, Zenon

\* The loops start with a message whose reports are backed.
LEMMA SetLoopClaims ==
    ASSUME NEW n, NEW s \in NodeState, ClaimsReal(n, s), NEW l, l # Nil => ReportReal(n, s, l.msg)
    PROVE  ClaimsReal(n, [s EXCEPT !.loop = l])
<1> DEFINE t == [s EXCEPT !.loop = l]
<1>1. /\ t.out = s.out /\ t.height = s.height /\ t.view = s.view /\ t.cv = s.cv
      /\ t.lastCv = s.lastCv /\ t.loop = l /\ t.prep = s.prep
  BY Zenon DEF NodeState
<1> HIDE DEF t
<1>2. t.loop # Nil => (t.loop = s.loop \/ ReportReal(n, s, t.loop.msg))
  BY <1>1, Zenon
<1> QED BY <1>1, <1>2, SameClaims, ZenonT(40) DEF t

\* onRecoveryMessage only starts the loops.
LEMMA OnRecoveryMessageClaims ==
    ASSUME NEW n \in Validator, NEW s \in NodeState, ClaimsReal(n, s), NEW m, ReportReal(n, s, m)
    PROVE  ClaimsReal(n, onRecoveryMessage(n, s, m))
<1> DEFINE left == IF m.view > s.view THEN {i \in Validator : m.cvs[i] # 0} ELSE {}
           l == [msg |-> m, phase |-> "cv", left |-> left]
<1>1. onRecoveryMessage(n, s, m) \in {s, [s EXCEPT !.loop = l]}
  BY ZenonT(40) DEF onRecoveryMessage
<1>2. l.msg = m
  BY Zenon
<1> HIDE DEF l
<1>3. ClaimsReal(n, [s EXCEPT !.loop = l])
  BY <1>2, SetLoopClaims, ZenonT(40)
<1> QED BY <1>1, <1>3, Zenon

\* OnReceive calls the handler of the payload's type.
LEMMA OnReceiveClaims ==
    ASSUME node \in [Validator -> NodeState],
           NEW n \in Validator, NEW sigs, NEW s, LocalInv(n, s, sigs), s.up, ClaimsReal(n, s),
           NEW i \in Validator, NEW m, Handled(n, s, sigs, i, m), NEW e,
           m.height = s.height => Credible(n, s, i, m)
    PROVE  ClaimsReal(n, OnReceive(n, s, i, m, e))
<1> DEFINE t == see(s, i, m)
<1>0. s \in NodeState BY Zenon DEF LocalInv
<1>1. /\ t \in NodeState
      /\ t.up = s.up /\ t.height = s.height /\ t.view = s.view /\ t.chain = s.chain
      /\ t.commit = s.commit /\ t.prep = s.prep /\ t.loose = s.loose /\ t.out = s.out
      /\ t.loop = s.loop /\ t.cv = s.cv /\ t.lastCv = s.lastCv
  <2> DEFINE x == [height |-> m.height, view |-> m.view]
  <2>1. x \in SeenSlot
    BY Zenon DEF SeenSlot, Handled
  <2>2. t \in {s, [s EXCEPT !.seen[i] = x]}
    BY Zenon DEF see
  <2> HIDE DEF t, x
  <2>3. CASE t = s
    BY <1>0, <2>3, Zenon
  <2>4. CASE t = [s EXCEPT !.seen[i] = x]
    BY <1>0, <2>1, <2>4, ZenonT(40) DEF NodeState
  <2> QED BY <2>2, <2>3, <2>4, ZenonT(40)
<1>2. CASE m.height # s.height
  BY <1>2, ZenonT(40) DEF OnReceive
<1>3. CASE m.height = s.height
  <2>1. OnReceive(n, s, i, m, e) = s \/ OnReceive(n, s, i, m, e) =
          CASE m.type = "ChangeView" -> onChangeView(n, t, i, m)
            [] m.type = "PrepareRequest" -> onPrepareRequest(n, t, i, m, e)
            [] m.type = "PrepareResponse" -> onPrepareResponse(n, t, i, m, e)
            [] m.type = "Commit" -> onCommit(n, t, i, m, e)
            [] m.type = "RecoveryRequest" -> onRecoveryRequest(n, t, i)
            [] m.type = "RecoveryMessage" -> onRecoveryMessage(n, t, m)
    BY ZenonT(40) DEF OnReceive
  <2> HIDE DEF t
  <2>2. LocalInv(n, t, sigs) /\ t.up
    BY <1>1, SameInv, ZenonT(40)
  <2>3. ClaimsReal(n, t) /\ m.height = t.height
    BY <1>1, <1>3, SameClaims, ZenonT(40)
  <2>4. Credible(n, t, i, m)
    BY <1>1, <1>3, BackingStays, ZenonT(40) DEF Credible
  <2>5. \A j, h, b : Known(n, t, sigs, j, h, b) <=> Known(n, s, sigs, j, h, b)
    BY <1>1, Zenon DEF Known, HasSigned, Commits
  <2>6. CASE m.type = "ChangeView"
    <3>1. ClaimsReal(n, onChangeView(n, t, i, m))
      BY <2>2, <2>3, <2>4, <2>6, OnChangeViewClaims, ZenonT(40) DEF Handled
    <3> QED BY <2>1, <2>6, <3>1, ZenonT(40)
  <2>7. CASE m.type = "PrepareRequest"
    <3>1. ClaimsReal(n, onPrepareRequest(n, t, i, m, e))
      BY <2>2, <2>3, <2>4, <2>7, OnPrepareRequestClaims, ZenonT(40) DEF Handled
    <3> QED BY <2>1, <2>7, <3>1, ZenonT(40)
  <2>8. CASE m.type = "PrepareResponse"
    <3>1. ClaimsReal(n, onPrepareResponse(n, t, i, m, e))
      BY <2>2, <2>3, <2>4, <2>8, OnPrepareResponseClaims, ZenonT(40) DEF Handled
    <3> QED BY <2>1, <2>8, <3>1, ZenonT(40)
  <2>9. CASE m.type = "Commit"
    <3>1. ClaimsReal(n, onCommit(n, t, i, m, e))
      BY <1>1, <1>3, <2>2, <2>3, <2>5, <2>9, OnCommitClaims, ZenonT(40) DEF Handled
    <3> QED BY <2>1, <2>9, <3>1, ZenonT(40)
  <2>10. CASE m.type = "RecoveryRequest"
    <3>1. ClaimsReal(n, onRecoveryRequest(n, t, i))
      BY <1>1, <2>3, SendRecoveryMessageClaims, ZenonT(40) DEF onRecoveryRequest
    <3> QED BY <2>1, <2>10, <3>1, ZenonT(40)
  <2>11. CASE m.type = "RecoveryMessage"
    <3>1. ReportReal(n, t, m)
      BY <2>4, <2>11, ZenonT(40) DEF Credible
    <3>2. ClaimsReal(n, onRecoveryMessage(n, t, m))
      BY <1>1, <2>3, <3>1, OnRecoveryMessageClaims, ZenonT(40)
    <3> QED BY <2>1, <2>11, <3>2, ZenonT(40)
  <2> QED BY <2>6, <2>7, <2>8, <2>9, <2>10, <2>11, ZenonT(40) DEF Handled
<1> QED BY <1>2, <1>3, ZenonT(40)

\* The request of a recovery message comes from the primary of its view.
LEMMA RecoverPreparationsClaims ==
    ASSUME node \in [Validator -> NodeState],
           NEW n \in Validator, NEW sigs, NEW s, LocalInv(n, s, sigs), s.up, ClaimsReal(n, s),
           s.loop # Nil, s.loop.msg.view = s.view, NEW e \in Answer
    PROVE  ClaimsReal(n, recoverPreparations(n, s, e))
<1> DEFINE m == s.loop.msg
           left == IF m.hash = Nil THEN {} ELSE m.preps
           l == [msg |-> m, phase |-> "resp", left |-> left]
           t == [s EXCEPT !.loop = l]
           req == [type |-> "PrepareRequest", height |-> m.height, view |-> m.view, val |-> m.req]
<1>0. s \in NodeState BY ZenonT(40) DEF LocalInv
<1>1. m \in RecoveryPayload /\ RecoveryTrue(n, s, sigs, m) /\ ReportReal(n, s, m)
  BY <1>0, ZenonT(40) DEF NodeState, Loop, LocalInv, SignaturesReal, ClaimsReal
<1>2. left \in SUBSET Validator /\ \A i \in left : m.hash # Nil /\ i \in m.preps
  BY <1>1, Zenon DEF RecoveryPayload
<1>3. \/ recoverPreparations(n, s, e) = t
      \/ recoverPreparations(n, s, e) = OnReceive(n, t, PrimaryIndex(s), req, e) /\ m.req # Nil
      \/ recoverPreparations(n, s, e) = sendPrepareRequest(n, t, e) /\ n = PrimaryIndex(s)
  BY Zenon DEF recoverPreparations
<1>4. m.req # Nil => Handled(n, t, sigs, PrimaryIndex(s), req)
  BY <1>1, Zenon DEF Handled, RecoveryPayload
<1>5. /\ req.type = "PrepareRequest" /\ req.height = m.height /\ req.view = m.view /\ req.val = m.req
      /\ m.view = s.view
  BY Zenon
<1> HIDE DEF m, left, req
<1>6. l \in Loop /\ l.msg = m /\ LoopFits(l)
  BY <1>1, <1>2, ZenonT(40) DEF Loop, LoopFits
<1> HIDE DEF l
<1>7. /\ LocalInv(n, t, sigs) /\ t.out = s.out /\ t.up /\ PrimaryIndex(t) = PrimaryIndex(s)
      /\ t.height = s.height
  BY <1>1, <1>6, SetLoopInv, SMTT(30)
<1>8. ClaimsReal(n, t)
  BY <1>0, <1>1, <1>6, SetLoopClaims, Zenon
<1> HIDE DEF t
<1>9. PrimaryIndex(s) \in Validator
  BY <1>0, PrimaryIsValidator, Zenon
<1>10. CASE recoverPreparations(n, s, e) = t
  BY <1>8, <1>10, Zenon
<1>11. CASE recoverPreparations(n, s, e) = OnReceive(n, t, PrimaryIndex(s), req, e) /\ m.req # Nil
  <2>1. ReportReal(n, t, m)
    BY <1>1, <1>7, BackingStays, ZenonT(40)
  <2>2. Requested(n, t, m.height, m.view, m.req)
    BY <1>11, <2>1, ZenonT(40) DEF ReportReal
  <2>3. PreparedAt(n, t, GetPrimaryIndex(m.height, m.view), m.height, m.view)
    BY <2>2, ZenonT(40) DEF Requested, PreparedAt
  <2>4. req.height = t.height => GetPrimaryIndex(m.height, m.view) = PrimaryIndex(s)
    BY <1>5, <1>7, ZenonT(40) DEF PrimaryIndex
  <2>5. req.height = t.height => Credible(n, t, PrimaryIndex(s), req)
    BY <1>5, <2>2, <2>3, <2>4, ZenonT(40) DEF Credible
  <2> QED BY <1>4, <1>7, <1>8, <1>9, <1>11, <2>5, OnReceiveClaims, Zenon
<1>12. CASE recoverPreparations(n, s, e) = sendPrepareRequest(n, t, e) /\ n = PrimaryIndex(s)
  BY <1>7, <1>8, <1>12, SendPrepareRequestClaims, ZenonT(40)
<1> QED BY <1>3, <1>10, <1>11, <1>12, ZenonT(40)

\* The loops go on to the commits.
LEMMA RecoverCommitsClaims ==
    ASSUME NEW n \in Validator, NEW s \in NodeState, ClaimsReal(n, s), s.loop # Nil
    PROVE  ClaimsReal(n, recoverCommits(s))
<1> DEFINE m == s.loop.msg
           left == {i \in Validator : m.commits[i] # Nil}
           l == IF m.view <= s.view THEN [msg |-> m, phase |-> "commit", left |-> left] ELSE Nil
<1>1. ReportReal(n, s, m)
  BY Zenon DEF ClaimsReal
<1>2. recoverCommits(s) = [s EXCEPT !.loop = l]
  BY Zenon DEF recoverCommits
<1>3. l # Nil => l.msg = m
  BY Zenon
<1> HIDE DEF m, l
<1>4. l # Nil => ReportReal(n, s, l.msg)
  BY <1>1, <1>3, ZenonT(40)
<1>5. ClaimsReal(n, [s EXCEPT !.loop = l])
  BY <1>4, SetLoopClaims, ZenonT(40)
<1> QED BY <1>2, <1>5, ZenonT(40)

\* A payload out of a recovery message says what the message reports.
LEMMA RecoveredCredible ==
    ASSUME NEW n, NEW s, NEW l \in Loop, l # Nil, NEW i \in l.left, i \in Validator,
           ReportReal(n, s, l.msg), LoopFits(l)
    PROVE  Credible(n, s, i, recoveredPayload(l, i))
<1> DEFINE m == l.msg
           x == recoveredPayload(l, i)
<1>1. m \in RecoveryPayload /\ l.phase \in {"cv", "resp", "commit"}
  BY Zenon DEF Loop
<1>2. m.height \in Nat /\ m.view \in Nat /\ m.cvs[i] \in Nat
  BY <1>1, Zenon DEF RecoveryPayload
<1>3. CASE l.phase = "cv"
  <2>1. x = [type |-> "ChangeView", height |-> m.height, view |-> m.cvs[i] - 1]
    BY <1>3, Zenon DEF recoveredPayload
  <2>2. Asked(n, s, i, m.height, m.cvs[i])
    BY <1>3, Zenon DEF LoopFits, ReportReal
  <2>3. x.type = "ChangeView" /\ x.height = m.height /\ x.view + 1 = m.cvs[i]
    BY <1>2, <2>1, SMTT(30)
  <2> HIDE DEF m, x
  <2> QED BY <2>2, <2>3, ZenonT(40) DEF Credible, x
<1>4. CASE l.phase = "resp"
  <2>1. x = [type |-> "PrepareResponse", height |-> m.height, view |-> m.view, val |-> m.hash]
    BY <1>4, ZenonT(40) DEF recoveredPayload
  <2>2. PreparedAt(n, s, i, m.height, m.view) /\ Requested(n, s, m.height, m.view, m.hash)
    BY <1>4, ZenonT(40) DEF LoopFits, ReportReal
  <2> HIDE DEF m, x
  <2> QED BY <2>1, <2>2, SMTT(30) DEF Credible, x
<1>5. CASE l.phase = "commit"
  <2>1. x = [type |-> "Commit", height |-> m.height, view |-> m.view, hdr |-> m.commits[i]]
    BY <1>5, ZenonT(40) DEF recoveredPayload
  <2>2. x.type = "Commit"
    BY <2>1, SMTT(30)
  <2> HIDE DEF m, x
  <2> QED BY <2>2, Zenon DEF Credible, x
<1> QED BY <1>1, <1>3, <1>4, <1>5, ZenonT(40)

\* One round of the loops handles one payload.
LEMMA RecoverNextClaims ==
    ASSUME node \in [Validator -> NodeState],
           NEW n \in Validator, NEW sigs, NEW s, LocalInv(n, s, sigs), s.up, ClaimsReal(n, s),
           s.loop # Nil, NEW e \in Answer
    PROVE  ClaimsReal(n, recoverNext(n, s, e))
<1> DEFINE l == s.loop
           i == CHOOSE i \in l.left : \A j \in l.left : i <= j
           l2 == [msg |-> l.msg, phase |-> l.phase, left |-> l.left \ {i}]
           t == [s EXCEPT !.loop = l2]
           x == recoveredPayload(l, i)
<1>0. s \in NodeState BY ZenonT(40) DEF LocalInv
<1>1. /\ l \in Loop /\ l # Nil /\ RecoveryTrue(n, s, sigs, l.msg) /\ LoopFits(l)
      /\ ReportReal(n, s, l.msg)
  BY <1>0, ZenonT(40) DEF NodeState, LocalInv, SignaturesReal, ClaimsReal
<1>2. /\ l \in [msg : RecoveryPayload, phase : {"cv", "resp", "commit"}, left : SUBSET Validator]
      /\ l.left \in SUBSET Validator /\ l.phase \in {"cv", "resp", "commit"}
  BY <1>1, ZenonT(40) DEF Loop
<1>3. CASE l.left # {}
  <2>1. i \in l.left /\ i \in Validator
    BY <1>2, <1>3, LowestIndex, ZenonT(40)
  <2>2. [s EXCEPT !.loop.left = @ \ {i}] = t
    <3>1. [l EXCEPT !.left = @ \ {i}] = l2
      BY <1>2, SMTT(30)
    <3> QED BY <3>1, Zenon
  <2>3. recoverNext(n, s, e) = OnReceive(n, t, i, x, e)
    BY <1>3, <2>2, Zenon DEF recoverNext
  <2>4. l2 \in Loop /\ l2.msg = l.msg /\ LoopFits(l2)
    <3> HIDE DEF i, l
    <3> QED BY <1>1, <1>2, ZenonT(40) DEF Loop, LoopFits
  <2> HIDE DEF l2, i, l
  <2>5. LocalInv(n, t, sigs) /\ t.out = s.out /\ t.up /\ Commits(t) = Commits(s)
    BY <1>1, <2>4, SetLoopInv, SMTT(30)
  <2>6. ClaimsReal(n, t)
    BY <1>0, <1>1, <2>4, SetLoopClaims, Zenon
  <2> HIDE DEF t
  <2>7. RecoveryTrue(n, t, sigs, l.msg)
    BY <1>1, <2>5, ZenonT(40) DEF RecoveryTrue, Known, HasSigned
  <2>8. ReportReal(n, t, l.msg)
    BY <1>1, <2>5, BackingStays, ZenonT(40)
  <2>9. Handled(n, t, sigs, i, x)
    BY <1>1, <2>1, <2>7, RecoveredHandled, ZenonT(40)
  <2>10. Credible(n, t, i, x)
    BY <1>1, <2>1, <2>8, RecoveredCredible, ZenonT(40)
  <2> HIDE DEF x
  <2> QED BY <2>1, <2>3, <2>5, <2>6, <2>9, <2>10, OnReceiveClaims, ZenonT(40)
<1>4. CASE l.left = {} /\ l.phase = "cv"
  <2>1. \/ recoverNext(n, s, e) = recoverPreparations(n, s, e) /\ s.loop.msg.view = s.view
        \/ recoverNext(n, s, e) = recoverCommits(s)
    BY <1>4, ZenonT(40) DEF recoverNext
  <2>2. CASE recoverNext(n, s, e) = recoverPreparations(n, s, e) /\ s.loop.msg.view = s.view
    BY <2>2, RecoverPreparationsClaims, ZenonT(40)
  <2>3. CASE recoverNext(n, s, e) = recoverCommits(s)
    BY <1>0, <2>3, RecoverCommitsClaims, ZenonT(40)
  <2> QED BY <2>1, <2>2, <2>3, ZenonT(40)
<1>5. CASE l.left = {} /\ l.phase = "resp"
  BY <1>0, <1>5, RecoverCommitsClaims, ZenonT(40) DEF recoverNext
<1>6. CASE l.left = {} /\ l.phase = "commit"
  <2>1. recoverNext(n, s, e) = [s EXCEPT !.loop = Nil]
    BY <1>6, Zenon DEF recoverNext
  <2> QED BY <1>0, <2>1, SetLoopClaims, SMTT(30)
<1> QED BY <1>2, <1>3, <1>4, <1>5, <1>6, ZenonT(40)

\* A stopped validator claims nothing but what it has sent.
LEMMA StoppedClaims ==
    ASSUME NEW n \in Validator, NEW s, ClaimsReal(n, s), NEW ch, NEW lo
    PROVE  ClaimsReal(n, Stopped(ch, s.out, lo))
<1> DEFINE t == Stopped(ch, s.out, lo)
<1>1. /\ t.out = s.out /\ t.view = 0 /\ t.loop = Nil /\ t.prep = [i \in Validator |-> Nil]
      /\ t.cv = [i \in Validator |-> 0] /\ t.lastCv = [i \in Validator |-> 0]
  BY Zenon DEF Stopped
<1> HIDE DEF t
<1>2. ContextReal(n, t)
  BY <1>1, SMTT(30) DEF ContextReal
<1> QED BY <1>1, <1>2, ClaimsFrame, Zenon DEF t

\* A validator that starts claims nothing either.
LEMMA StartedClaims ==
    ASSUME NEW n \in Validator, NEW sigs, NEW s, LocalInv(n, s, sigs), ClaimsReal(n, s)
    PROVE  ClaimsReal(n, [InitializeConsensus(n, Stopped(s.chain, s.out, s.loose), 0) EXCEPT !.up = TRUE])
<1> DEFINE d == Stopped(s.chain, s.out, s.loose)
           t == InitializeConsensus(n, d, 0)
           u == [t EXCEPT !.up = TRUE]
<1>0. s \in NodeState /\ s.chain \in Seq(Header) /\ s.loose \in BOOLEAN /\ Len(s.chain) \in Nat
  BY DEF LocalInv, NodeState
<1>1. LocalInv(n, d, sigs) /\ ClaimsReal(n, d)
  <2>1. LocalInv(n, d, sigs)
    BY <1>0, StoppedInv, SMTT(30)
  <2>2. ClaimsReal(n, d)
    BY StoppedClaims, Zenon
  <2> QED BY <2>1, <2>2, ZenonT(40)
<1> HIDE DEF d
<1>2. LocalInv(n, t, sigs)
  BY <1>1, InitializeConsensusInv, Zenon
<1>3. ClaimsReal(n, t)
  BY <1>1, InitializeConsensusClaims, SMTT(30) DEF LocalInv
<1> HIDE DEF t
<1>4. /\ u.height = t.height /\ u.view = t.view /\ u.prep = t.prep /\ u.out = t.out /\ u.loop = t.loop
      /\ u.cv = t.cv /\ u.lastCv = t.lastCv
  <2>1. t \in NodeState
    BY <1>2, ZenonT(40) DEF LocalInv
  <2> QED BY <2>1, Zenon DEF NodeState
<1> HIDE DEF u
<1> QED BY <1>3, <1>4, SameClaims, ZenonT(40) DEF u, t, d

-----------------------------------------------------------------------------
(* All validators together *)

\* What has been sent does not depend on who looks.
LEMMA SameForAll ==
    ASSUME NEW k \in Validator, NEW n \in Validator
    PROVE  /\ \A i, h, v : Asked(k, node[k], i, h, v) <=> Asked(n, node[n], i, h, v)
           /\ \A i, h, v : PreparedAt(k, node[k], i, h, v) <=> PreparedAt(n, node[n], i, h, v)
           /\ \A h, v, x : Requested(k, node[k], h, v, x) <=> Requested(n, node[n], h, v, x)
           /\ \A m : ReportReal(k, node[k], m) <=> ReportReal(n, node[n], m)
<1>1. \A i : Sent(k, node[k], i) = Sent(n, node[n], i)
  BY Zenon DEF Sent
<1>2. \A i, h, v : Asked(k, node[k], i, h, v) <=> Asked(n, node[n], i, h, v)
  BY <1>1, Zenon DEF Asked
<1>3. \A i, h, v : PreparedAt(k, node[k], i, h, v) <=> PreparedAt(n, node[n], i, h, v)
  BY <1>1, ZenonT(40) DEF PreparedAt
<1>4. \A h, v, x : Requested(k, node[k], h, v, x) <=> Requested(n, node[n], h, v, x)
  BY <1>1, ZenonT(40) DEF Requested
<1>5. \A m : ReportReal(k, node[k], m) <=> ReportReal(n, node[n], m)
  BY <1>2, <1>3, <1>4, ZenonT(40) DEF ReportReal
<1> QED BY <1>2, <1>3, <1>4, <1>5, ZenonT(40)

\* Every payload some validator has broadcast is credible to any other.
LEMMA BroadcastCredible ==
    ASSUME ClaimsInv, NEW n \in Validator, NEW i \in Validator, NEW m \in node[i].out, m.view \in Nat
    PROVE  Credible(n, node[n], i, m)
<1>1. PayloadReal(i, node[i], m)
  BY Zenon DEF ClaimsInv, ClaimsReal
<1>2. Sent(n, node[n], i) = node[i].out
  BY Zenon DEF Sent
<1>3. m.type = "ChangeView" => Asked(n, node[n], i, m.height, m.view + 1)
  <2>1. m.view + 1 >= m.view + 1
    BY SMTT(30)
  <2> QED BY <1>2, <2>1, ZenonT(40) DEF Asked
<1>4. m.type \in {"PrepareRequest", "PrepareResponse"} => PreparedAt(n, node[n], i, m.height, m.view)
  BY <1>2, ZenonT(40) DEF PreparedAt
<1>5. m.type \in {"PrepareRequest", "PrepareResponse"} => Requested(n, node[n], m.height, m.view, m.val)
  BY <1>1, SameForAll, ZenonT(40) DEF PayloadReal
<1>6. m.type = "RecoveryMessage" => ReportReal(n, node[n], m)
  BY <1>1, SameForAll, ZenonT(40) DEF PayloadReal
<1> QED BY <1>3, <1>4, <1>5, <1>6, ZenonT(40) DEF Credible

\* The height of a payload, and the view of a commit's header.
LEMMA PayloadHeight ==
    ASSUME NEW m \in Payload
    PROVE  m.height \in Nat /\ (m.type = "Commit" => m.hdr.view \in Nat)
<1>1. CASE m \in RecoveryPayload
  BY <1>1, Zenon DEF RecoveryPayload
<1>2. CASE m \in [type : {"PrepareRequest", "PrepareResponse"}, height : Nat, view : Nat, val : Proposals]
  BY <1>2, Zenon
<1>3. CASE m \in [type : {"ChangeView", "RecoveryRequest"}, height : Nat, view : Nat]
  BY <1>3, Zenon
<1>4. CASE m \in [type : {"Commit"}, height : Nat, view : Nat, hdr : Header]
  BY <1>4, Zenon DEF Header
<1> QED BY <1>1, <1>2, <1>3, <1>4, ZenonT(40) DEF Payload

\* What the others have sent stays sent when n moves on to t.
LEMMA SentStays ==
    ASSUME SignedInv, NEW n \in Validator, NEW t, node[n].out \subseteq t.out,
           node' = [node EXCEPT ![n] = t], NEW k \in Validator
    PROVE  /\ \A i \in Validator : \A h, v : Asked(k, node'[k], i, h, v) => Asked(k, node[k], i, h, v)'
           /\ \A i \in Validator : \A h, v : PreparedAt(k, node'[k], i, h, v) => PreparedAt(k, node[k], i, h, v)'
           /\ \A h \in Nat, v \in Nat : \A x : Requested(k, node'[k], h, v, x) => Requested(k, node[k], h, v, x)'
<1>1. node \in [Validator -> NodeState]
  BY Zenon DEF SignedInv
<1>2. \A i \in Validator : node[i].out \subseteq node'[i].out
  BY <1>1, Zenon
<1>3. \A i \in Validator : Sent(k, node'[k], i) \subseteq Sent(k, node[k], i)'
  BY <1>2, ZenonT(40) DEF Sent
<1>4. \A i \in Validator : \A h, v : Asked(k, node'[k], i, h, v) => Asked(k, node[k], i, h, v)'
  BY <1>3, ZenonT(40) DEF Asked
<1>5. \A i \in Validator : \A h, v : PreparedAt(k, node'[k], i, h, v) => PreparedAt(k, node[k], i, h, v)'
  BY <1>3, ZenonT(40) DEF PreparedAt
<1>6. ASSUME NEW h \in Nat, NEW v \in Nat, NEW x, Requested(k, node'[k], h, v, x)
      PROVE  Requested(k, node[k], h, v, x)'
  <2>1. GetPrimaryIndex(h, v) \in Validator
    BY NAssumption, SMTT(30) DEF GetPrimaryIndex, Validator
  <2> QED BY <1>3, <1>6, <2>1, ZenonT(40) DEF Requested
<1> QED BY <1>4, <1>5, <1>6, ZenonT(40)

\* So do the claims made of it.
LEMMA ClaimsStay ==
    ASSUME SignedInv, NEW n \in Validator, NEW t, node[n].out \subseteq t.out,
           node' = [node EXCEPT ![n] = t], NEW k \in Validator, node'[k] \in NodeState,
           ClaimsReal(k, node'[k])
    PROVE  ClaimsReal(k, node[k])'
<1> DEFINE s == node'[k]
<1>1. /\ \A i \in Validator : \A h, v : Asked(k, s, i, h, v) => Asked(k, node[k], i, h, v)'
      /\ \A i \in Validator : \A h, v : PreparedAt(k, s, i, h, v) => PreparedAt(k, node[k], i, h, v)'
      /\ \A h \in Nat, v \in Nat : \A x : Requested(k, s, h, v, x) => Requested(k, node[k], h, v, x)'
  BY SentStays, ZenonT(40)
<1>2. ASSUME NEW m \in RecoveryPayload, ReportReal(k, s, m) PROVE ReportReal(k, node[k], m)'
  <2>1. m.height \in Nat /\ m.view \in Nat /\ m.preps \subseteq Validator
    BY Zenon DEF RecoveryPayload
  <2> QED BY <1>1, <1>2, <2>1, ZenonT(40) DEF ReportReal
<1>3. ASSUME NEW m \in Payload, PayloadReal(k, s, m) PROVE PayloadReal(k, node[k], m)'
  <2>1. m.height \in Nat /\ m.view \in Nat /\ (m.type = "Commit" => m.hdr.view \in Nat)
    BY PayloadView, PayloadHeight, ZenonT(40)
  <2>2. m.type = "RecoveryMessage" => m \in RecoveryPayload
    BY Zenon DEF Payload
  <2>3. m.type = "RecoveryMessage" => ReportReal(k, node[k], m)'
    BY <1>2, <1>3, <2>2, ZenonT(40) DEF PayloadReal
  <2>4. m.type \in {"PrepareRequest", "PrepareResponse"} => Requested(k, node[k], m.height, m.view, m.val)'
    BY <1>1, <1>3, <2>1, ZenonT(40) DEF PayloadReal
  <2>5. m.type = "Commit" => Requested(k, node[k], m.height, m.hdr.view, m.hdr.val)'
    BY <1>1, <1>3, <2>1, ZenonT(40) DEF PayloadReal
  <2>6. m.type = "Commit" => \E Q \in SUBSET Validator :
                                Cardinality(Q) >= M /\ \A i \in Q : PreparedAt(k, node[k], i, m.height, m.hdr.view)'
    BY <1>1, <1>3, ZenonT(40) DEF PayloadReal
  <2> QED BY <2>3, <2>4, <2>5, <2>6, ZenonT(40) DEF PayloadReal
<1>4. s.height \in Nat /\ s.view \in Nat /\ s.out \subseteq Payload /\ s.loop \in Loop
  BY ZenonT(40) DEF NodeState
<1>5. ContextReal(k, node[k])'
  <2>0. ContextReal(k, s)
    BY Zenon DEF ClaimsReal
  <2>1. \A i \in Validator : s.cv[i] # 0 => Asked(k, node[k], i, node[k].height, node[k].cv[i])'
    BY <1>1, <2>0, ZenonT(40) DEF ContextReal
  <2>2. \A i \in Validator : s.lastCv[i] # 0 => Asked(k, node[k], i, node[k].height, node[k].lastCv[i])'
    BY <1>1, <2>0, ZenonT(40) DEF ContextReal
  <2>3. s.view > 0 =>
          \E Q \in SUBSET Validator :
              Cardinality(Q) >= M /\ \A i \in Q : Asked(k, node[k], i, node[k].height, node[k].view)'
    BY <1>1, <2>0, ZenonT(40) DEF ContextReal
  <2>4. \A i \in Validator : s.prep[i] # Nil =>
          /\ PreparedAt(k, node[k], i, node[k].height, node[k].view)'
          /\ Requested(k, node[k], node[k].height, node[k].view, node[k].prep[i].val)'
    BY <1>1, <1>4, <2>0, ZenonT(40) DEF ContextReal
  <2> QED BY <2>1, <2>2, <2>3, <2>4, ZenonT(40) DEF ContextReal
<1>6. s.loop # Nil => ReportReal(k, node[k], node[k].loop.msg)'
  <2>1. s.loop # Nil => s.loop.msg \in RecoveryPayload
    BY <1>4, ZenonT(40) DEF Loop
  <2> QED BY <1>2, <2>1, ZenonT(40) DEF ClaimsReal
<1>7. \A m \in s.out : PayloadReal(k, node[k], m)'
  BY <1>3, <1>4, ZenonT(40) DEF ClaimsReal
<1> QED BY <1>5, <1>6, <1>7, ZenonT(40) DEF ClaimsReal

\* One validator moves to a state whose claims are backed.
LEMMA StepClaims ==
    ASSUME SignedInv, SignedInv', ClaimsInv, NEW n \in Validator, NEW t, ClaimsReal(n, t),
           node[n].out \subseteq t.out, node' = [node EXCEPT ![n] = t]
    PROVE  ClaimsInv'
<1>1. node \in [Validator -> NodeState] /\ node' \in [Validator -> NodeState]
  BY Zenon DEF SignedInv
<1>2. ASSUME NEW k \in Validator PROVE ClaimsReal(k, node[k])'
  <2>1. node'[k] \in NodeState
    BY <1>1, ZenonT(40)
  <2>2. CASE k = n
    <3>1. node'[k] = t
      BY <1>1, <2>2, ZenonT(40)
    <3> QED BY <2>1, <2>2, <3>1, ClaimsStay, ZenonT(40)
  <2>3. CASE k # n
    <3>1. node'[k] = node[k]
      BY <1>1, <2>3, ZenonT(40)
    <3>2. ClaimsReal(k, node[k])
      BY ZenonT(40) DEF ClaimsInv
    <3> QED BY <2>1, <3>1, <3>2, ClaimsStay, ZenonT(40)
  <2> QED BY <2>2, <2>3, ZenonT(40)
<1> QED BY <1>2, ZenonT(40) DEF ClaimsInv

\* Nobody has said anything when no validator has started.
LEMMA InitClaims == Init => ClaimsInv
<1> SUFFICES ASSUME Init, NEW n \in Validator PROVE ClaimsReal(n, node[n])
  BY Zenon DEF ClaimsInv
<1> DEFINE d == node[n]
<1>1. d = Stopped(<<>>, {}, FALSE)
  BY Zenon DEF Init
<1>2. /\ d.out = {} /\ d.view = 0 /\ d.loop = Nil /\ d.prep = [i \in Validator |-> Nil]
      /\ d.cv = [i \in Validator |-> 0] /\ d.lastCv = [i \in Validator |-> 0]
  BY <1>1, SMTT(30) DEF Stopped
<1> HIDE DEF d
<1> QED BY <1>2, SMTT(30) DEF ClaimsReal, ContextReal, d

\* Every action preserves the claims.
LEMMA NextClaims == SignedInv /\ ClaimsInv /\ [Next]_vars => ClaimsInv'
<1> SUFFICES ASSUME SignedInv, ClaimsInv, [Next]_vars PROVE ClaimsInv'
  BY Zenon
<1>0. SignedInv'
  BY NextInv, Zenon
<1>1. CASE UNCHANGED vars
  <2>1. node' = node
    BY <1>1, Zenon DEF vars
  <2>2. 0 \in Validator
    BY NAssumption DEF Validator
  <2>3. node' = [node EXCEPT ![0] = node[0]]
    BY <2>1, <2>2, ZenonT(40) DEF SignedInv
  <2>4. ClaimsReal(0, node[0])
    BY <2>2, ZenonT(40) DEF ClaimsInv
  <2> QED BY <1>0, <2>2, <2>3, <2>4, StepClaims, ZenonT(40)
<1>2. CASE Next
  <2>1. PICK n \in Active :
          \/ Start(n) \/ Receive(n) \/ Recover(n) \/ OnTimeout(n)
          \/ OnTransaction(n) \/ SyncBlock(n) \/ handleChainBlock(n) \/ Crash(n)
    BY <1>2, ZenonT(40) DEF Next
  <2> DEFINE s == node[n]
  <2>2. /\ n \in Validator /\ LocalInv(n, s, Signatures) /\ s \in NodeState
        /\ ClaimsReal(n, s) /\ node \in [Validator -> NodeState]
    BY ConstantsAssumption, Zenon DEF SignedInv, ClaimsInv
  <2> HIDE DEF s
  <2>3. ASSUME NEW t, Become(n, t), ClaimsReal(n, t), s.out \subseteq t.out
        PROVE  ClaimsInv'
    BY <1>0, <2>2, <2>3, StepClaims, ZenonT(40) DEF Become, s
  <2>4. Outcomes \subseteq Answer
    BY ConstantsAssumption, Zenon
  <2>5. CASE Start(n)
    <3> DEFINE t == InitializeConsensus(n, Stopped(s.chain, s.out, s.loose), 0)
               u == [t EXCEPT !.up = TRUE]
    <3>1. PICK e \in Outcomes : Become(n, IF n = PrimaryIndex(t) THEN sendPrepareRequest(n, u, e) ELSE u)
      BY <2>5, ZenonT(40) DEF Start, s
    <3>2. LocalInv(n, u, Signatures) /\ u.out = s.out /\ u.up /\ PrimaryIndex(u) = PrimaryIndex(t)
      BY <2>2, StartedInv, ZenonT(40)
    <3>3. ClaimsReal(n, u)
      BY <2>2, StartedClaims, ZenonT(40)
    <3> HIDE DEF u, t
    <3>4. CASE n = PrimaryIndex(t)
      <4>1. u.out \subseteq sendPrepareRequest(n, u, e).out
        BY <2>2, <2>4, <3>1, <3>2, <3>4, SendPrepareRequestInv, ZenonT(40)
      <4>2. ClaimsReal(n, sendPrepareRequest(n, u, e))
        BY <2>2, <2>4, <3>1, <3>2, <3>3, <3>4, SendPrepareRequestClaims, ZenonT(40)
      <4> QED BY <2>3, <3>1, <3>2, <3>4, <4>1, <4>2, ZenonT(40)
    <3>5. CASE n # PrimaryIndex(t)
      BY <2>3, <3>1, <3>2, <3>3, <3>5, ZenonT(40)
    <3> QED BY <3>4, <3>5, ZenonT(40)
  <2>6. CASE Receive(n)
    <3>1. PICK i \in Validator, e \in Outcomes : \E m \in node[i].out :
            s.up /\ Become(n, OnReceive(n, s, i, m, e))
      BY <2>6, ZenonT(40) DEF Receive, Waiting, s
    <3>2. PICK m \in node[i].out : s.up /\ Become(n, OnReceive(n, s, i, m, e))
      BY <3>1, ZenonT(40)
    <3>3. Handled(n, s, Signatures, i, m)
      BY <2>2, BroadcastHandled, ZenonT(40) DEF s
    <3>4. m.view \in Nat
      BY <3>3, ZenonT(40) DEF Handled
    <3>5. Credible(n, s, i, m)
      BY <2>2, <3>4, BroadcastCredible, ZenonT(40) DEF s
    <3>6. s.out \subseteq OnReceive(n, s, i, m, e).out
      BY <2>2, <3>2, <3>3, OnReceiveInv, ZenonT(40)
    <3>7. ClaimsReal(n, OnReceive(n, s, i, m, e))
      BY <2>2, <3>2, <3>3, <3>5, OnReceiveClaims, ZenonT(40)
    <3> QED BY <2>3, <3>2, <3>6, <3>7, ZenonT(40)
  <2>7. CASE Recover(n)
    <3>1. PICK e \in Outcomes : s.up /\ s.loop # Nil /\ Become(n, recoverNext(n, s, e))
      BY <2>7, ZenonT(40) DEF Recover, s
    <3>2. s.out \subseteq recoverNext(n, s, e).out
      BY <2>2, <2>4, <3>1, RecoverNextInv, ZenonT(40)
    <3>3. ClaimsReal(n, recoverNext(n, s, e))
      BY <2>2, <2>4, <3>1, RecoverNextClaims, ZenonT(40)
    <3> QED BY <2>3, <3>1, <3>2, <3>3, ZenonT(40)
  <2>8. CASE OnTimeout(n)
    <3>1. PICK e \in Outcomes :
            /\ s.up
            /\ \/ n = PrimaryIndex(s) /\ Become(n, sendPrepareRequest(n, s, e))
               \/ Become(n, sendRecoveryMessage(n, s))
               \/ ~CommitSent(n, s) /\ Become(n, sendChangeView(n, s, e))
      BY <2>8, ZenonT(40) DEF OnTimeout, Waiting, s
    <3>2. CASE n = PrimaryIndex(s) /\ Become(n, sendPrepareRequest(n, s, e))
      <4>1. s.out \subseteq sendPrepareRequest(n, s, e).out
        BY <2>2, <2>4, <3>1, <3>2, SendPrepareRequestInv, ZenonT(40)
      <4>2. ClaimsReal(n, sendPrepareRequest(n, s, e))
        BY <2>2, <2>4, <3>1, <3>2, SendPrepareRequestClaims, ZenonT(40)
      <4> QED BY <2>3, <3>2, <4>1, <4>2, ZenonT(40)
    <3>3. CASE Become(n, sendRecoveryMessage(n, s))
      <4>1. s.out \subseteq sendRecoveryMessage(n, s).out
        BY <2>2, SendRecoveryMessageInv, ZenonT(40)
      <4>2. ClaimsReal(n, sendRecoveryMessage(n, s))
        BY <2>2, SendRecoveryMessageClaims, ZenonT(40)
      <4> QED BY <2>3, <3>3, <4>1, <4>2, ZenonT(40)
    <3>4. CASE ~CommitSent(n, s) /\ Become(n, sendChangeView(n, s, e))
      <4>1. Free(s)
        BY <2>2, <3>1, <3>4, NotBound, ZenonT(40)
      <4>2. s.out \subseteq sendChangeView(n, s, e).out
        BY <2>2, <3>1, <4>1, SendChangeViewInv, ZenonT(40)
      <4>3. ClaimsReal(n, sendChangeView(n, s, e))
        BY <2>2, SendChangeViewClaims, ZenonT(40)
      <4> QED BY <2>3, <3>4, <4>2, <4>3, ZenonT(40)
    <3> QED BY <3>1, <3>2, <3>3, <3>4, ZenonT(40)
  <2>9. CASE OnTransaction(n)
    <3> DEFINE t == [s EXCEPT !.txs = "found"]
    <3>1. PICK e \in Outcomes :
            /\ s.up /\ RequestSentOrReceived(s) /\ ~ResponseSent(n, s)
            /\ Become(n, addTransaction(n, t, e))
      BY <2>9, ZenonT(40) DEF OnTransaction, Waiting, s
    <3>2. /\ t \in NodeState
          /\ t.up = s.up /\ t.height = s.height /\ t.view = s.view /\ t.chain = s.chain
          /\ t.commit = s.commit /\ t.prep = s.prep /\ t.loose = s.loose /\ t.out = s.out
          /\ t.loop = s.loop /\ t.cv = s.cv /\ t.lastCv = s.lastCv
      BY <2>2, ZenonT(40) DEF NodeState
    <3> HIDE DEF t
    <3>3. Free(s)
      BY <2>2, <3>1, NotBound, ZenonT(40)
    <3>4. LocalInv(n, t, Signatures) /\ Free(t) /\ RequestSentOrReceived(t) /\ t.up
      BY <2>2, <3>1, <3>2, <3>3, SameInv, ZenonT(40)
    <3>5. ClaimsReal(n, t)
      BY <2>2, <3>2, SameClaims, ZenonT(40)
    <3>6. t.out \subseteq addTransaction(n, t, e).out
      BY <2>2, <3>4, AddTransactionInv, ZenonT(40)
    <3>7. ClaimsReal(n, addTransaction(n, t, e))
      BY <2>2, <3>4, <3>5, AddTransactionClaims, ZenonT(40)
    <3> QED BY <2>3, <3>1, <3>2, <3>6, <3>7, ZenonT(40)
  <2>10. CASE SyncBlock(n)
    <3>1. PICK c : Become(n, [s EXCEPT !.chain = c])
      BY <2>10, ZenonT(40) DEF SyncBlock, s
    <3> DEFINE t == [s EXCEPT !.chain = c]
    <3>2. /\ t.height = s.height /\ t.view = s.view /\ t.prep = s.prep /\ t.out = s.out
          /\ t.loop = s.loop /\ t.cv = s.cv /\ t.lastCv = s.lastCv
      BY <2>2, ZenonT(40) DEF NodeState
    <3>3. Become(n, t)
      BY <3>1, ZenonT(40)
    <3> HIDE DEF t
    <3>4. ClaimsReal(n, t)
      BY <2>2, <3>2, SameClaims, ZenonT(40)
    <3> QED BY <2>3, <3>2, <3>3, <3>4, ZenonT(40)
  <2>11. CASE handleChainBlock(n)
    <3>1. Become(n, InitializeConsensus(n, s, 0))
      BY <2>11, ZenonT(40) DEF handleChainBlock, s
    <3>2. InitializeConsensus(n, s, 0).out = s.out
      BY <2>2, InitializeConsensusInv, SMTT(30)
    <3>3. ClaimsReal(n, InitializeConsensus(n, s, 0))
      BY <2>2, InitializeConsensusClaims, SMTT(30)
    <3> QED BY <2>3, <3>1, <3>2, <3>3, ZenonT(40)
  <2>12. CASE Crash(n)
    <3>1. PICK ch, lo : node' = [node EXCEPT ![n] = Stopped(ch, s.out, lo)]
      BY <2>12, ZenonT(40) DEF Crash, s
    <3> DEFINE t == Stopped(ch, s.out, lo)
    <3>2. t.out = s.out
      BY Zenon DEF Stopped
    <3>3. ClaimsReal(n, t)
      BY <2>2, StoppedClaims, ZenonT(40)
    <3>4. node' = [node EXCEPT ![n] = t]
      BY <3>1, Zenon
    <3> HIDE DEF t
    <3> QED BY <1>0, <2>2, <3>2, <3>3, <3>4, StepClaims, ZenonT(40) DEF s
  <2> QED BY <2>1, <2>5, <2>6, <2>7, <2>8, <2>9, <2>10, <2>11, <2>12, ZenonT(40)
<1> QED BY <1>1, <1>2, Zenon

\* ClaimsInv holds in every behaviour: whatever crashes, view changes and
\* recovery messages happen, no validator files or reports a vote or a
\* preparation that was not sent.
THEOREM ClaimsAreReal == Spec => []ClaimsInv
<1>1. Spec => [](SignedInv /\ ClaimsInv)
  BY InitInv, NextInv, InitClaims, NextClaims, PTL DEF Spec
<1> QED BY <1>1, PTL

\* A set of validators that has M of them among it has at least M members.
LEMMA AtLeastM ==
    ASSUME NEW Q \in SUBSET Validator, Cardinality(Q) >= M, NEW R \in SUBSET Validator, Q \subseteq R
    PROVE  Cardinality(R) >= M
<1>1. IsFiniteSet(Validator)
  BY NAssumption, FS_Interval, SMTT(30) DEF Validator
<1>2. IsFiniteSet(R) /\ IsFiniteSet(Q)
  BY <1>1, FS_Subset, Zenon
<1>3. Cardinality(Q) <= Cardinality(R) /\ Cardinality(Q) \in Nat /\ Cardinality(R) \in Nat
  BY <1>2, FS_Subset, FS_CardinalityType, Zenon
<1> QED BY <1>3, QuorumSize, SMTT(30)

\* For any number of validators: whoever is in a later view got there because
\* M validators asked for that view or a later one.
THEOREM ViewsAreAgreed == Spec => []ViewIsAgreed
<1>1. ClaimsInv => ViewIsAgreed
  <2> SUFFICES ASSUME ClaimsInv, NEW n \in Validator, node[n].view > 0
               PROVE  Cardinality({i \in Validator : \E m \in node[i].out :
                          /\ m.type = "ChangeView" /\ m.height = node[n].height
                          /\ m.view + 1 >= node[n].view}) >= M
    BY ZenonT(40) DEF ViewIsAgreed
  <2> DEFINE R == {i \in Validator : \E m \in node[i].out :
                     m.type = "ChangeView" /\ m.height = node[n].height /\ m.view + 1 >= node[n].view}
  <2>1. PICK Q \in SUBSET Validator :
          Cardinality(Q) >= M /\ \A i \in Q : Asked(n, node[n], i, node[n].height, node[n].view)
    BY ZenonT(40) DEF ClaimsInv, ClaimsReal, ContextReal
  <2>2. \A i \in Q : i \in R
    BY <2>1, ZenonT(40) DEF Asked, Sent
  <2> HIDE DEF R
  <2>3. R \in SUBSET Validator
    BY Zenon DEF R
  <2>4. Cardinality(R) >= M
    BY <2>1, <2>2, <2>3, AtLeastM, ZenonT(40)
  <2> QED BY <2>4, Zenon DEF R
<1> QED BY <1>1, ClaimsAreReal, PTL

\* For any number of validators: as long as every primary proposes one block
\* per view, a block is signed only after M validators prepared that block.
THEOREM CommitsArePrepared == Spec => []CommitIsPrepared
<1>1. SignedInv /\ ClaimsInv => CommitIsPrepared
  <2> SUFFICES ASSUME SignedInv, ClaimsInv, OneProposal, NEW n \in Validator, NEW m \in node[n].out, m.type = "Commit"
               PROVE  Cardinality({i \in Validator : Prepared(i, m.height, m.hdr)}) >= M
    BY Zenon DEF CommitIsPrepared
  <2> DEFINE R == {i \in Validator : Prepared(i, m.height, m.hdr)}
             p == GetPrimaryIndex(m.height, m.hdr.view)
  <2>1. PayloadReal(n, node[n], m)
    BY Zenon DEF ClaimsInv, ClaimsReal
  <2>2. PICK Q \in SUBSET Validator :
          Cardinality(Q) >= M /\ \A i \in Q : PreparedAt(n, node[n], i, m.height, m.hdr.view)
    BY <2>1, Zenon DEF PayloadReal
  <2>3. PICK r \in node[p].out : /\ r.type = "PrepareRequest" /\ r.height = m.height
                                 /\ r.view = m.hdr.view /\ r.val = m.hdr.val
    BY <2>1, ZenonT(40) DEF PayloadReal, Requested, Sent
  <2>4. p \in Validator
    <3>1. m \in Payload
      BY Zenon DEF SignedInv, NodeState
    <3>2. m.height \in Nat /\ m.hdr.view \in Nat
      BY <3>1, PayloadHeight, Zenon
    <3> QED BY <3>2, NAssumption, SMTT(30) DEF GetPrimaryIndex, Validator
  <2> HIDE DEF p
  <2>5. ASSUME NEW i \in Q PROVE i \in R
    <3>1. PICK x \in node[i].out : /\ x.type \in {"PrepareRequest", "PrepareResponse"}
                                   /\ x.height = m.height /\ x.view = m.hdr.view
      BY <2>2, <2>5, Zenon DEF PreparedAt, Sent
    <3>2. Requested(i, node[i], x.height, x.view, x.val)
      BY <2>2, <3>1, ZenonT(40) DEF ClaimsInv, ClaimsReal, PayloadReal
    <3>3. PICK y \in node[p].out : /\ y.type = "PrepareRequest" /\ y.height = m.height
                                   /\ y.view = m.hdr.view /\ y.val = x.val
      BY <3>1, <3>2, ZenonT(40) DEF Requested, Sent, p
    <3>4. x.val = m.hdr.val
      BY <2>3, <2>4, <3>3, ZenonT(40) DEF OneProposal
    <3> QED BY <2>2, <3>1, <3>4, Zenon DEF Prepared
  <2> HIDE DEF R
  <2>6. R \in SUBSET Validator
    BY Zenon DEF R
  <2>7. Cardinality(R) >= M
    BY <2>2, <2>5, <2>6, AtLeastM, ZenonT(40)
  <2> QED BY <2>7, ZenonT(40) DEF R
<1> QED BY <1>1, SignaturesBind, ClaimsAreReal, PTL

=============================================================================
