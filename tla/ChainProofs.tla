----------------------------- MODULE ChainProofs ----------------------------
(***************************************************************************)
(* ChainInv is an inductive invariant of Chain, for any number of heights, *)
(* size of header batches and number of stops.  From it: what a running    *)
(* node has of every height, and that nothing stored is lost again.        *)
(***************************************************************************)
EXTENDS Chain, TLAPS

\* The fields of Blockchain and its callers have their types.
LEMMA Types ==
    ASSUME ChainInv
    PROVE  /\ MaxHeight \in Nat /\ Height = 0 .. MaxHeight
           /\ kv \in Contents /\ disk \in Contents /\ pending \in Contents \cup {Nil}
           /\ headers \in Nat /\ storedHeaderCount \in Nat /\ blockHeight \in Nat
           /\ call \in [Caller -> Calls]
           /\ kv.header \in Nat /\ kv.hashes \in Nat /\ kv.current \in Nat
<1>1. /\ MaxHeight \in Nat /\ Height = 0 .. MaxHeight
      /\ kv \in Contents /\ disk \in Contents /\ pending \in Contents \cup {Nil}
      /\ headers \in Nat /\ storedHeaderCount \in Nat /\ blockHeight \in Nat
      /\ call \in [Caller -> Calls]
  <2>1. TypeOK /\ call \in [Caller -> Calls]
    BY Zenon DEF ChainInv
  <2>2. MaxHeight \in Nat
    BY SizesAssumption
  <2>3. kv \in Contents /\ disk \in Contents /\ pending \in Contents \cup {Nil}
    BY <2>1, Zenon DEF TypeOK
  <2>4. headers \in 0 .. MaxHeight + 1 /\ storedHeaderCount \in 0 .. MaxHeight + 1 /\ blockHeight \in Height
    BY <2>1, Zenon DEF TypeOK
  <2> QED BY <2>1, <2>2, <2>3, <2>4 DEF Height
<1>2. kv.header \in Height /\ kv.hashes \in 0 .. MaxHeight + 1 /\ kv.current \in Height
  BY <1>1 DEF Contents
<1> QED BY <1>1, <1>2

\* A call that is not storing headers goes on, and nothing else happens.
LEMMA CallStep ==
    ASSUME ChainInv, node = "up",
           UNCHANGED <<kv, disk, pending, node, memory, lock, crashes>>,
           NEW c \in Caller, NEW r \in Calls, call' = [call EXCEPT ![c] = r],
           r.pc # "current", call[c].pc # "current",
           c = "AddHeaders" => /\ r.pc \in {"idle", "check", "store"}
                               /\ r.pc # "idle" => 1 <= r.first /\ r.first <= r.last,
           c = "AddBlock" => CallFits(r) /\ r.pc # "state" /\ call[c].pc # "state"
    PROVE  ChainInv'
<1>0. call \in [Caller -> Calls] /\ "AddBlock" \in Caller /\ "AddHeaders" \in Caller /\ "AddBlock" # "AddHeaders"
  BY DEF ChainInv, Caller
<1>1. call' \in [Caller -> Calls] /\ call'[c] = r /\ \A d \in Caller \ {c} : call'[d] = call[d]
  BY <1>0
<1>2. UNCHANGED <<kv, disk, pending, node, headers, storedHeaderCount, blockHeight,
                  persistedHeight, mpt, lock, crashes>>
  BY DEF memory
<1>3. TypeOK'
  BY <1>1, <1>2 DEF ChainInv, TypeOK
<1>4. call'["AddBlock"].pc = "state" <=> call["AddBlock"].pc = "state"
  BY <1>0, <1>1
<1>5. FieldsFit'
  BY <1>2, <1>4 DEF ChainInv, FieldsFit
<1>6. CallFits(call["AddBlock"])'
  BY <1>0, <1>1, <1>2 DEF ChainInv, CallFits
<1>7. /\ call'["AddHeaders"].pc \in {"idle", "check", "store", "current"}
      /\ call'["AddHeaders"].pc # "idle" =>
            1 <= call'["AddHeaders"].first /\ call'["AddHeaders"].first <= call'["AddHeaders"].last
  BY <1>0, <1>1 DEF ChainInv
<1> QED BY <1>1, <1>2, <1>3, <1>5, <1>6, <1>7 DEF ChainInv, Sound, Behind

\* AddHeaders begins with headers in order.
LEMMA AddHeadersInv ==
    ASSUME ChainInv, NEW first \in Height \ {0}, NEW last \in Height \ {0}, first <= last,
           AddHeaders(first, last)
    PROVE  ChainInv'
<1> DEFINE r == [pc |-> "check", first |-> first, last |-> last, good |-> TRUE]
<1>1. r \in Calls /\ r.pc = "check" /\ 1 <= r.first /\ r.first <= r.last
  BY SizesAssumption DEF Calls, Height
<1>2. call' = [call EXCEPT !["AddHeaders"] = r] /\ call["AddHeaders"].pc # "current" /\ node = "up"
  BY DEF AddHeaders, Call
<1>3. UNCHANGED <<kv, disk, pending, node, memory, lock, crashes>>
  BY DEF AddHeaders
<1> HIDE DEF r
<1> QED BY <1>1, <1>2, <1>3, CallStep, Zenon DEF Caller

\* Leaving out the headers that are known keeps at least the last of the batch.
LEMMA CheckHeadersInv ==
    ASSUME ChainInv, NEW c \in Caller, CheckHeaders(c)
    PROVE  ChainInv'
<1> DEFINE first == IF call[c].first >= headers THEN call[c].first
                    ELSE IF call[c].last >= headers THEN headers ELSE call[c].last
           r == [pc |-> "store", first |-> first, last |-> call[c].last, good |-> call[c].good]
<1>0. /\ call[c] \in Calls /\ call[c].pc = "check" /\ node = "up"
      /\ UNCHANGED <<kv, disk, pending, node, memory, lock, crashes>>
  BY Types DEF CheckHeaders
<1>1. 1 <= call[c].first /\ call[c].first <= call[c].last
  BY <1>0 DEF ChainInv, CallFits, Caller
<1>2. headers \in Nat /\ headers >= 1
  BY <1>0, Types DEF ChainInv, FieldsFit
<1>3. 1 <= first /\ first <= call[c].last /\ first \in Height
  BY <1>0, <1>1, <1>2, SizesAssumption DEF Calls, Height
<1>4. call' = [call EXCEPT ![c] = r] \/ call' = [call EXCEPT ![c] = NoCall]
  BY DEF CheckHeaders, Call, Return
<1>5. r \in Calls /\ r.pc = "store" /\ r.first = first /\ r.last = call[c].last
  <2> HIDE DEF first
  <2> QED BY <1>0, <1>3 DEF Calls
<1> HIDE DEF r, first
<1>6. c = "AddBlock" => CallFits(r)
  BY <1>0, <1>3, <1>5 DEF ChainInv, CallFits
<1>7. CASE call' = [call EXCEPT ![c] = r]
  BY <1>0, <1>3, <1>5, <1>6, <1>7, CallStep, Zenon
<1>8. CASE call' = [call EXCEPT ![c] = NoCall]
  <2>1. NoCall \in Calls /\ NoCall.pc = "idle" /\ CallFits(NoCall)
    BY SizesAssumption DEF NoCall, Calls, CallFits, Height
  <2> QED BY <1>0, <1>8, <2>1, CallStep, Zenon
<1> QED BY <1>4, <1>7, <1>8

\* AddBlock begins at the next height, with or without its header.
LEMMA AddBlockInv ==
    ASSUME ChainInv, NEW h \in Height, NEW good \in BOOLEAN, AddBlock(h, good)
    PROVE  ChainInv'
<1> DEFINE r == [pc |-> IF h = headers THEN "check" ELSE "verify", first |-> h, last |-> h, good |-> good]
<1>1. /\ node = "up" /\ call["AddBlock"].pc = "idle" /\ lock = Nil /\ h = blockHeight + 1
      /\ UNCHANGED <<kv, disk, pending, node, memory, lock, crashes>>
      /\ call' = [call EXCEPT !["AddBlock"] = r]
  BY DEF AddBlock, Call
<1>2. r \in Calls /\ r.first = h /\ r.last = h
      /\ r.pc = IF h = headers THEN "check" ELSE "verify"
  BY DEF Calls
<1> HIDE DEF r
<1>3. kv.header = headers - 1 /\ kv.current = blockHeight /\ kv.current <= kv.header
  <2>1. kv # NoContents
    BY <1>1 DEF ChainInv, FieldsFit, NoContents
  <2> QED BY <1>1, <2>1 DEF ChainInv, FieldsFit, Sound
<1>4. h <= headers /\ (h # headers => h <= kv.header) /\ 1 <= h
  BY <1>1, <1>3, Types
<1>5. CallFits(r)
  BY <1>1, <1>2, <1>4, Types DEF CallFits
<1> QED BY <1>1, <1>2, <1>5, CallStep, Zenon DEF Caller

\* A block that is verified and executed goes on to the change sets; another is
\* given up.
LEMMA VerifyBlockInv ==
    ASSUME ChainInv, VerifyBlock \/ ExecuteBlock
    PROVE  ChainInv'
<1> DEFINE r(pc) == [call["AddBlock"] EXCEPT !.pc = pc]
<1>0. call \in [Caller -> Calls] /\ call["AddBlock"] \in Calls /\ "AddBlock" \in Caller
  BY Types DEF Caller
<1>1. /\ node = "up" /\ call["AddBlock"].pc \in {"verify", "execute"}
      /\ UNCHANGED <<kv, disk, pending, node, memory, lock, crashes>>
      /\ \/ call' = [call EXCEPT !["AddBlock"] = r("execute")]
         \/ call' = [call EXCEPT !["AddBlock"] = r("blocks")]
         \/ call' = [call EXCEPT !["AddBlock"] = NoCall]
  BY <1>0 DEF VerifyBlock, ExecuteBlock, Goto, Return
<1>2. \A pc \in {"execute", "blocks"} :
        /\ r(pc) \in Calls /\ r(pc).pc = pc
        /\ r(pc).first = call["AddBlock"].first /\ r(pc).last = call["AddBlock"].last
  BY <1>0 DEF Calls
<1> HIDE DEF r
<1>3. \A pc \in {"execute", "blocks"} : CallFits(r(pc))
  BY <1>1, <1>2 DEF ChainInv, CallFits
<1>4. NoCall \in Calls /\ NoCall.pc = "idle" /\ CallFits(NoCall)
  BY SizesAssumption DEF NoCall, Calls, CallFits, Height
<1> QED BY <1>0, <1>1, <1>2, <1>3, <1>4, CallStep

\* Being behind is transitive.
LEMMA BehindTransitive ==
    ASSUME NEW a \in Contents, NEW b \in Contents, NEW c \in Contents, Behind(a, b), Behind(b, c)
    PROVE  Behind(a, c)
<1>1. \A x \in Contents : x.current \in Nat /\ x.header \in Nat
  BY SizesAssumption DEF Contents, Height
<1> QED BY <1>1 DEF Behind

\* A running node writes contents that are sound and not behind the old ones;
\* what remains to show is that its fields and callers fit them.
LEMMA WriteStep ==
    ASSUME ChainInv, node = "up", UNCHANGED <<node, disk, pending>>,
           kv' \in Contents, Sound(kv'), Behind(kv, kv'), TypeOK', FieldsFit',
           call' \in [Caller -> Calls], lock' \in Caller \cup {Nil}, CallFits(call["AddBlock"])',
           call'["AddHeaders"].pc \in {"idle", "check", "store", "current"},
           call'["AddHeaders"].pc # "idle" =>
               1 <= call'["AddHeaders"].first /\ call'["AddHeaders"].first <= call'["AddHeaders"].last
    PROVE  ChainInv'
<1>1. kv \in Contents /\ disk \in Contents /\ pending \in Contents \cup {Nil}
  BY Types
<1>2. Behind(disk, kv) /\ (pending # Nil => Behind(pending, kv))
  BY DEF ChainInv
<1>3. Behind(disk, kv')
  BY <1>1, <1>2, BehindTransitive
<1>4. pending # Nil => Behind(pending, kv')
  BY <1>1, <1>2, BehindTransitive
<1> QED BY <1>3, <1>4 DEF ChainInv

\* The contents of a running node's store.
LEMMA RunningStore ==
    ASSUME ChainInv, node = "up"
    PROVE  /\ kv.version /\ kv.hashes <= kv.header /\ kv.current <= kv.header
           /\ kv.state = 0 .. kv.current \/ (kv.current > 0 /\ kv.state = 0 .. kv.current - 1)
           /\ \A h \in Height : kv.root[h] # Nil <=> h \in kv.state
           /\ \A h \in Height : kv.block[h] = "full" <=> h <= kv.current
           /\ \A h \in Height : h <= kv.header => kv.block[h] # "none"
<1>1. kv # NoContents
  BY DEF ChainInv, FieldsFit, NoContents
<1> QED BY <1>1 DEF ChainInv, Sound

\* The headers of a batch are stored above all that were there.
LEMMA StoreHeadersInv ==
    ASSUME ChainInv, NEW c \in Caller, StoreHeaders(c)
    PROVE  ChainInv'
<1> DEFINE first == call[c].first
           last == call[c].last
           new == {h \in first .. last : h >= headers}
           B == [h \in Height |-> IF h \in new THEN "header" ELSE kv.block[h]]
           w == [kv EXCEPT !.block = B]
           r(pc) == [call[c] EXCEPT !.pc = pc]
<1>0. /\ call \in [Caller -> Calls] /\ call[c] \in Calls /\ call[c].pc = "store" /\ node = "up" /\ lock = Nil
      /\ UNCHANGED <<disk, pending, node, storedHeaderCount, blockHeight, persistedHeight, mpt, crashes>>
  BY Types DEF StoreHeaders
<1>1. \A pc \in {"current", "verify"} :
         r(pc) \in Calls /\ r(pc).pc = pc /\ r(pc).first = first /\ r(pc).last = last
  BY <1>0 DEF Calls
<1>2. 1 <= first /\ first <= last /\ first \in Height /\ last \in Height
  <2>1. 1 <= first /\ first <= last
    BY <1>0 DEF ChainInv, CallFits, Caller
  <2> QED BY <1>0, <2>1 DEF Calls
<1>3. /\ headers \in Nat /\ kv.header \in Nat /\ kv.current \in Nat /\ headers = kv.header + 1
      /\ blockHeight \in Nat /\ first \in Nat /\ last \in Nat /\ MaxHeight \in Nat /\ last <= MaxHeight
  BY <1>0, <1>2, Types, SMTT(30) DEF ChainInv, FieldsFit
<1>4. CASE headers \notin new
  <2>1. UNCHANGED <<kv, disk, pending, node, memory, lock, crashes>> /\ AfterHeaders(c)
    BY <1>0, <1>4 DEF StoreHeaders, memory
  <2>2. CASE c = "AddBlock"
    <3>1. call' = [call EXCEPT ![c] = r("verify")]
      BY <1>0, <2>1, <2>2 DEF AfterHeaders, Goto
    <3>2. last <= headers /\ last = blockHeight + 1
      BY <1>0, <2>2 DEF ChainInv, CallFits
    <3>3. last # headers
      BY <1>2, <1>3, <1>4
    <3>4. last <= kv.header
      BY <1>3, <3>2, <3>3
    <3> HIDE DEF r, first, last
    <3>5. CallFits(r("verify"))
      BY <1>1, <1>2, <3>2, <3>4 DEF CallFits
    <3> QED BY <1>0, <1>1, <2>1, <2>2, <3>1, <3>5, CallStep, Zenon
  <2>3. CASE c = "AddHeaders"
    <3>1. call' = [call EXCEPT ![c] = NoCall]
      BY <2>1, <2>3 DEF AfterHeaders, Return
    <3>2. NoCall \in Calls /\ NoCall.pc = "idle"
      BY SizesAssumption DEF NoCall, Calls, Height
    <3> QED BY <1>0, <2>1, <2>3, <3>1, <3>2, CallStep, Zenon
  <2> QED BY <2>2, <2>3 DEF Caller
<1>5. CASE headers \in new
  <2>1. /\ lock' = c /\ headers' = last + 1 /\ kv' = w
        /\ call' = [call EXCEPT ![c] = r("current")]
    BY <1>0, <1>5 DEF StoreHeaders, Goto
  <2>2. B \in [Height -> {"none", "header", "full"}]
    BY Types DEF Contents
  <2>3. \A h \in Height : B[h] = IF h \in new THEN "header" ELSE kv.block[h]
    OBVIOUS
  <2>4. \A h : h \in new <=> h \in first .. last /\ h >= headers
    OBVIOUS
  <2> HIDE DEF B, new
  <2>5. /\ w \in Contents /\ w.block = B /\ w.version = kv.version /\ w.header = kv.header
        /\ w.hashes = kv.hashes /\ w.current = kv.current /\ w.state = kv.state /\ w.root = kv.root
    BY <2>2, Types, Zenon DEF Contents
  <2> HIDE DEF w
  <2>6. \A h \in Height : h \in Nat
    BY Types
  <2>7. headers <= last /\ first <= headers
    BY <1>3, <1>5, <2>4
  <2>8. \A h \in Height : h \in new => ~(h <= kv.header) /\ ~(h <= kv.current)
    BY <1>0, <1>3, <2>4, <2>6, RunningStore
  <2>9. Sound(w)
    <3>1. /\ w.version /\ w.hashes <= w.header /\ w.current <= w.header
          /\ w.state = 0 .. w.current \/ (w.current > 0 /\ w.state = 0 .. w.current - 1)
          /\ \A h \in Height : w.root[h] # Nil <=> h \in w.state
      BY <1>0, <2>5, RunningStore
    <3>2. \A h \in Height : w.block[h] = "full" <=> h <= w.current
      BY <1>0, <2>3, <2>5, <2>8, RunningStore
    <3>3. \A h \in Height : h <= w.header => w.block[h] # "none"
      BY <1>0, <2>3, <2>5, <2>8, RunningStore
    <3> QED BY <3>1, <3>2, <3>3 DEF Sound
  <2>10. Behind(kv, w)
    BY <1>3, <2>5 DEF Behind
  <2> DEFINE d == r("current")
  <2>11. d \in Calls /\ d.pc = "current" /\ d.first = first /\ d.last = last /\ call' = [call EXCEPT ![c] = d]
    BY <1>1, <2>1
  <2> HIDE DEF r, d, first, last
  <2>12. call' \in [Caller -> Calls] /\ call'[c] = d /\ \A x \in Caller \ {c} : call'[x] = call[x]
    BY <1>0, <2>11
  <2>13. \A x \in Caller : call'[x].pc = "current" <=> lock' = x
    BY <1>0, <2>1, <2>11, <2>12, NilAssumption DEF ChainInv, TypeOK
  <2>14. headers' \in 0 .. MaxHeight + 1
    BY <1>3, <2>1
  <2>15. TypeOK'
    BY <1>0, <2>1, <2>5, <2>13, <2>14 DEF ChainInv, TypeOK
  <2>16. call'["AddBlock"].pc = "state" <=> call["AddBlock"].pc = "state"
    BY <1>0, <2>11, <2>12 DEF Caller
  <2>17. \A h \in Height : h < headers' => w.block[h] # "none"
    <3> SUFFICES ASSUME NEW h \in Height, h < headers' PROVE w.block[h] # "none"
      OBVIOUS
    <3>1. h \in new \/ h < headers
      BY <1>3, <2>1, <2>4, <2>6, <2>7
    <3> QED BY <1>0, <2>3, <2>5, <3>1 DEF ChainInv, FieldsFit
  <2>18. FieldsFit'
    <3>1. kv.header < headers' /\ lock' # Nil
      BY <1>3, <2>1, <2>7, NilAssumption
    <3> QED BY <1>0, <2>1, <2>5, <2>16, <2>17, <3>1 DEF ChainInv, FieldsFit
  <2>19. CallFits(call["AddBlock"])'
    <3>1. headers < headers'
      BY <1>3, <2>1, <2>7
    <3>2. CASE c = "AddBlock"
      <4>1. last = blockHeight + 1
        BY <1>0, <3>2 DEF ChainInv, CallFits, last
      <4>2. call'["AddBlock"] = d /\ last < headers'
        BY <1>3, <2>1, <2>12, <3>2
      <4> QED BY <1>0, <1>2, <2>11, <4>1, <4>2 DEF CallFits
    <3>3. CASE c # "AddBlock"
      <4>1. call'["AddBlock"] = call["AddBlock"] /\ call["AddBlock"].last \in Nat
        BY <1>0, <2>6, <2>12, <3>3 DEF Caller, Calls
      <4> QED BY <1>0, <1>3, <2>1, <2>5, <3>1, <4>1 DEF ChainInv, CallFits
    <3> QED BY <3>2, <3>3
  <2>20. /\ call'["AddHeaders"].pc \in {"idle", "check", "store", "current"}
         /\ call'["AddHeaders"].pc # "idle" =>
              1 <= call'["AddHeaders"].first /\ call'["AddHeaders"].first <= call'["AddHeaders"].last
    BY <1>2, <2>11, <2>12, Zenon DEF ChainInv, Caller
  <2> QED BY <1>0, <2>1, <2>5, <2>9, <2>10, <2>12, <2>15, <2>18, <2>19, <2>20, WriteStep
<1> QED BY <1>4, <1>5

\* Whole batches of header hashes do not reach beyond the last header.
LEMMA WholeBatches ==
    ASSUME NEW a \in Nat, NEW b \in Nat \ {0}
    PROVE  b * (a \div b) \in Nat /\ b * (a \div b) <= a
<1>1. a \div b \in Nat /\ a % b \in 0 .. b - 1
  OBVIOUS
<1>2. a = b * (a \div b) + (a % b)
  OBVIOUS
<1>3. b * (a \div b) \in Nat
  BY <1>1
<1> QED BY <1>1, <1>2, <1>3

\* The hashes stored with a header are of headers up to it.
LEMMA StoredWithFits ==
    ASSUME NEW last \in Nat, storedHeaderCount \in Nat, storedHeaderCount <= last
    PROVE  StoredWith(last) \in Nat /\ StoredWith(last) <= last
<1> DEFINE a == last - storedHeaderCount
           p == HeaderBatch * (a \div HeaderBatch)
<1>1. a \in Nat
  OBVIOUS
<1>2. p \in Nat /\ p <= a
  BY <1>1, SizesAssumption, WholeBatches
<1>3. StoredWith(last) \in {storedHeaderCount, storedHeaderCount + p}
  BY DEF StoredWith
<1> HIDE DEF p
<1> QED BY <1>2, <1>3

\* The header hashes and the current header follow the headers stored.
LEMMA StoreCurrentHeaderInv ==
    ASSUME ChainInv, NEW c \in Caller, StoreCurrentHeader(c)
    PROVE  ChainInv'
<1> DEFINE x == headers - 1
           y == StoredWith(x)
           w == [kv EXCEPT !.header = x, !.hashes = y]
           r == IF c = "AddBlock" THEN [call[c] EXCEPT !.pc = "verify"] ELSE NoCall
<1>0. /\ call \in [Caller -> Calls] /\ call[c] \in Calls /\ call[c].pc = "current" /\ node = "up"
      /\ lock = c /\ lock' = Nil
      /\ UNCHANGED <<disk, pending, node, headers, blockHeight, persistedHeight, mpt, crashes>>
      /\ storedHeaderCount' = y /\ kv' = w
  BY Types DEF StoreCurrentHeader, ChainInv, TypeOK
<1>1. call' = [call EXCEPT ![c] = r]
  BY <1>0 DEF StoreCurrentHeader, AfterHeaders, Goto, Return
<1>2. /\ headers \in Nat /\ kv.header \in Nat /\ kv.current \in Nat /\ kv.header < headers
      /\ blockHeight \in Nat /\ MaxHeight \in Nat /\ headers <= MaxHeight + 1
      /\ storedHeaderCount \in Nat /\ storedHeaderCount <= kv.header /\ Height = 0 .. MaxHeight
  <2>1. headers \in 0 .. MaxHeight + 1
    BY Zenon DEF ChainInv, TypeOK
  <2>2. kv.header < headers /\ storedHeaderCount = kv.hashes
    BY <1>0 DEF ChainInv, FieldsFit
  <2> QED BY <1>0, <2>1, <2>2, Types, RunningStore
<1>3. x \in Nat /\ x \in Height /\ kv.header <= x /\ x = headers - 1
  BY <1>2
<1> HIDE DEF x
<1>4. y \in Nat /\ y <= x
  <2>1. storedHeaderCount <= x
    BY <1>2, <1>3
  <2> QED BY <1>2, <1>3, <2>1, StoredWithFits
<1>5. y \in 0 .. MaxHeight + 1
  BY <1>2, <1>3, <1>4
<1> HIDE DEF y
<1>6. /\ w \in Contents /\ w.header = x /\ w.hashes = y /\ w.block = kv.block /\ w.version = kv.version
      /\ w.current = kv.current /\ w.state = kv.state /\ w.root = kv.root
  BY <1>3, <1>5, Types, ZenonT(40) DEF Contents
<1> HIDE DEF w
<1>7. Sound(w)
  <2>1. /\ w.version /\ w.hashes <= w.header /\ w.current <= w.header
        /\ w.state = 0 .. w.current \/ (w.current > 0 /\ w.state = 0 .. w.current - 1)
        /\ \A h \in Height : w.root[h] # Nil <=> h \in w.state
        /\ \A h \in Height : w.block[h] = "full" <=> h <= w.current
    BY <1>0, <1>2, <1>3, <1>4, <1>6, RunningStore
  <2>2. \A h \in Height : h <= w.header => w.block[h] # "none"
    BY <1>0, <1>2, <1>3, <1>6 DEF ChainInv, FieldsFit
  <2> QED BY <2>1, <2>2 DEF Sound
<1>8. Behind(kv, w)
  BY <1>2, <1>3, <1>6 DEF Behind
<1>9. r \in Calls /\ r.pc # "current" /\ r.pc # "state"
      /\ (c = "AddBlock" => r.pc = "verify" /\ r.first = call[c].first /\ r.last = call[c].last)
      /\ (c = "AddHeaders" => r.pc = "idle")
  <2>1. NoCall \in Calls /\ NoCall.pc = "idle"
    BY SizesAssumption DEF NoCall, Calls, Height
  <2> QED BY <1>0, <2>1 DEF Calls
<1> HIDE DEF r
<1>10. call' \in [Caller -> Calls] /\ call'[c] = r /\ \A d \in Caller \ {c} : call'[d] = call[d]
  BY <1>0, <1>1, <1>9
<1>11. \A d \in Caller : call'[d].pc # "current"
  BY <1>0, <1>9, <1>10, Zenon DEF ChainInv, TypeOK
<1>12. TypeOK'
  BY <1>0, <1>5, <1>6, <1>11, NilAssumption DEF ChainInv, TypeOK
<1>13. call'["AddBlock"].pc = "state" <=> call["AddBlock"].pc = "state"
  BY <1>0, <1>9, <1>10 DEF Caller
<1>14. FieldsFit'
  <2>1. w.header < headers /\ w.header = headers - 1
    BY <1>2, <1>3, <1>6
  <2> QED BY <1>0, <1>6, <1>13, <2>1 DEF ChainInv, FieldsFit
<1>15. CallFits(call["AddBlock"])'
  <2>0. call["AddBlock"].last \in Nat
    BY <1>0, <1>2 DEF Caller, Calls
  <2>1. CASE c = "AddBlock"
    <3>1. /\ 1 <= call[c].first /\ call[c].first <= call[c].last /\ call[c].last = blockHeight + 1
          /\ call[c].last < headers
      BY <1>0, <2>1 DEF ChainInv, CallFits
    <3>2. r.last <= w.header
      BY <1>2, <1>3, <1>6, <1>9, <2>0, <2>1, <3>1, SMTT(30)
    <3> QED BY <1>0, <1>9, <1>10, <2>1, <3>1, <3>2 DEF CallFits
  <2>2. CASE c # "AddBlock"
    <3>1. call'["AddBlock"] = call["AddBlock"]
      BY <1>10, <2>2 DEF Caller
    <3>2. \A l \in Nat : l <= kv.header => l <= w.header
      BY <1>2, <1>3, <1>6
    <3> QED BY <1>0, <2>0, <3>1, <3>2 DEF ChainInv, CallFits
  <2> QED BY <2>1, <2>2
<1>16. /\ call'["AddHeaders"].pc \in {"idle", "check", "store", "current"}
       /\ call'["AddHeaders"].pc # "idle" =>
             1 <= call'["AddHeaders"].first /\ call'["AddHeaders"].first <= call'["AddHeaders"].last
  BY <1>9, <1>10, Zenon DEF ChainInv, Caller
<1> QED BY <1>0, <1>6, <1>7, <1>8, <1>10, <1>12, <1>14, <1>15, <1>16, WriteStep

\* The hash DeleteBlock ends up with is that of no block.
LEMMA DeleteBlockKeeps ==
    ASSUME NEW w \in Contents, NEW h \in Nat
    PROVE  DeleteBlock(w, h) = w
<1>1. \A k \in Height : k # TxHash(h)
  BY SizesAssumption DEF Height, TxHash
<1>2. w.block \in [Height -> {"none", "header", "full"}]
  BY DEF Contents
<1>3. [k \in Height |-> IF k = TxHash(h) THEN "none" ELSE w.block[k]] = w.block
  BY <1>1, <1>2
<1>4. [w EXCEPT !.block = w.block] = w
  BY DEF Contents
<1> QED BY <1>3, <1>4 DEF DeleteBlock

\* AddBlock goes on in a running node; only its own call changes.
LEMMA OwnCall ==
    ASSUME ChainInv, NEW r \in Calls, r.pc # "current", call["AddBlock"].pc # "current",
           call' = [call EXCEPT !["AddBlock"] = r], lock' = lock
    PROVE  /\ call' \in [Caller -> Calls] /\ call'["AddBlock"] = r
           /\ call'["AddHeaders"] = call["AddHeaders"]
           /\ \A d \in Caller : call'[d].pc = "current" <=> lock' = d
<1>1. /\ call \in [Caller -> Calls] /\ "AddBlock" \in Caller /\ "AddHeaders" \in Caller
      /\ \A d \in Caller : d # "AddBlock" => d = "AddHeaders"
  BY Types DEF Caller
<1>2. call' \in [Caller -> Calls] /\ call'["AddBlock"] = r /\ call'["AddHeaders"] = call["AddHeaders"]
  BY <1>1
<1>3. \A d \in Caller : call[d].pc = "current" <=> lock = d
  BY ZenonT(40) DEF ChainInv, TypeOK
<1> QED BY <1>1, <1>2, <1>3

\* Block data makes the next height the current one, without its state.
LEMMA StoreBlockDataInv ==
    ASSUME ChainInv, StoreBlockData
    PROVE  ChainInv'
<1> DEFINE h == call["AddBlock"].last
           B == [kv.block EXCEPT ![h] = "full"]
           w == [kv EXCEPT !.current = h, !.block[h] = "full", !.tx = @ \cup {h}]
           r == [call["AddBlock"] EXCEPT !.pc = "state"]
<1>0. /\ call \in [Caller -> Calls] /\ call["AddBlock"] \in Calls /\ "AddBlock" \in Caller
      /\ call["AddBlock"].pc = "blocks" /\ node = "up"
  BY Types DEF StoreBlockData, Caller
<1>1. UNCHANGED <<disk, pending, node, headers, storedHeaderCount, blockHeight, persistedHeight, mpt,
                  lock, crashes>>
  BY DEF StoreBlockData, memory
<1>2. call' = [call EXCEPT !["AddBlock"] = r]
  BY <1>0 DEF StoreBlockData, Goto
<1>3. h \in Height /\ h \in Nat /\ h = blockHeight + 1 /\ h <= kv.header /\ 1 <= h
      /\ 1 <= call["AddBlock"].first /\ call["AddBlock"].first <= h
  <2>1. h \in Height
    BY <1>0 DEF Calls
  <2>2. /\ h = blockHeight + 1 /\ h <= kv.header
        /\ 1 <= call["AddBlock"].first /\ call["AddBlock"].first <= h
    BY <1>0 DEF ChainInv, CallFits
  <2> QED BY <2>1, <2>2, Types
<1>4. kv' = w \/ \E k \in Nat : kv' = DeleteBlock(w, k)
  <2>1. h > MaxTraceableBlocks => h - MaxTraceableBlocks \in Nat
    BY <1>3, SizesAssumption
  <2> QED BY <2>1 DEF StoreBlockData
<1>5. r \in Calls /\ r.pc = "state" /\ r.first = call["AddBlock"].first /\ r.last = h
  BY <1>0 DEF Calls
<1> HIDE DEF h, r
<1>6. B \in [Height -> {"none", "header", "full"}] /\ B[h] = "full" /\ \A k \in Height \ {h} : B[k] = kv.block[k]
  BY <1>3, Types, ZenonT(40) DEF Contents
<1>7. /\ w \in Contents /\ w.current = h /\ w.block = B /\ w.header = kv.header /\ w.hashes = kv.hashes
      /\ w.version = kv.version /\ w.state = kv.state /\ w.root = kv.root
  BY <1>3, <1>6, Types, ZenonT(40) DEF Contents
<1> HIDE DEF B, w
<1>8. kv' = w
  BY <1>4, <1>7, DeleteBlockKeeps
<1>9. /\ kv.current = blockHeight /\ kv.state = 0 .. blockHeight /\ blockHeight \in Nat /\ kv.header \in Nat
      /\ blockHeight = h - 1 /\ \A k \in Height : k \in Nat
  BY <1>0, <1>3, Types DEF ChainInv, FieldsFit
<1>10. Sound(w)
  <2>1. /\ w.version /\ w.hashes <= w.header /\ w.current <= w.header
        /\ \A k \in Height : w.root[k] # Nil <=> k \in w.state
    BY <1>0, <1>3, <1>7, RunningStore
  <2>2. w.current > 0 /\ w.state = 0 .. w.current - 1
    BY <1>3, <1>7, <1>9
  <2>3. \A k \in Height : w.block[k] = "full" <=> k <= w.current
    <3>1. \A k \in Height : kv.block[k] = "full" <=> k <= blockHeight
      BY <1>0, <1>9, RunningStore
    <3> QED BY <1>3, <1>6, <1>7, <1>9, <3>1
  <2>4. \A k \in Height : k <= w.header => w.block[k] # "none"
    BY <1>0, <1>6, <1>7, RunningStore
  <2> QED BY <2>1, <2>2, <2>3, <2>4 DEF Sound
<1>11. Behind(kv, w)
  BY <1>3, <1>7, <1>9 DEF Behind
<1>12. /\ call' \in [Caller -> Calls] /\ call'["AddBlock"] = r /\ call'["AddHeaders"] = call["AddHeaders"]
       /\ \A d \in Caller : call'[d].pc = "current" <=> lock' = d
  BY <1>0, <1>1, <1>2, <1>5, OwnCall, ZenonT(40)
<1>13. TypeOK'
  BY <1>1, <1>7, <1>8, <1>12, Zenon DEF ChainInv, TypeOK
<1>14. FieldsFit'
  <2>1. \A k \in Height : k < headers => w.block[k] # "none"
    BY <1>0, <1>6, <1>7 DEF ChainInv, FieldsFit
  <2> QED BY <1>0, <1>1, <1>3, <1>5, <1>7, <1>8, <1>12, <2>1, ZenonT(40) DEF ChainInv, FieldsFit
<1>15. CallFits(call["AddBlock"])'
  BY <1>1, <1>3, <1>5, <1>7, <1>8, <1>12, ZenonT(40) DEF CallFits
<1> QED BY <1>0, <1>1, <1>7, <1>8, <1>10, <1>11, <1>12, <1>13, <1>14, <1>15, WriteStep DEF ChainInv

\* The state and its root complete the height.
LEMMA StoreBlockStateInv ==
    ASSUME ChainInv, StoreBlockState
    PROVE  ChainInv'
<1> DEFINE h == call["AddBlock"].last
           m == mpt \cup {h}
           R == [kv.root EXCEPT ![h] = m]
           w == [kv EXCEPT !.state = @ \cup {h}, !.root[h] = m]
<1>0. /\ call \in [Caller -> Calls] /\ call["AddBlock"] \in Calls /\ "AddBlock" \in Caller
      /\ call["AddBlock"].pc = "state" /\ node = "up"
      /\ mpt' = m /\ kv' = w /\ blockHeight' = h
      /\ call' = [call EXCEPT !["AddBlock"] = NoCall]
      /\ UNCHANGED <<disk, pending, node, headers, storedHeaderCount, persistedHeight, lock, crashes>>
  BY Types DEF StoreBlockState, Caller, Return
<1>1. h \in Height /\ h \in Nat /\ h = blockHeight + 1 /\ h <= kv.header
  <2>1. h \in Height
    BY <1>0 DEF Calls
  <2>2. h = blockHeight + 1 /\ h <= kv.header
    BY <1>0 DEF ChainInv, CallFits
  <2> QED BY <2>1, <2>2, Types
<1> HIDE DEF h
<1>2. m \in SUBSET Height /\ m # Nil
  <2>1. mpt \in SUBSET Height
    BY <1>0 DEF ChainInv, TypeOK, FieldsFit
  <2> QED BY <1>1, <2>1, NilAssumption, Zenon
<1> HIDE DEF m
<1>3. R \in [Height -> (SUBSET Height) \cup {Nil}] /\ R[h] = m /\ \A k \in Height \ {h} : R[k] = kv.root[k]
  BY <1>1, <1>2, Types, ZenonT(40) DEF Contents
<1>4. /\ w \in Contents /\ w.state = kv.state \cup {h} /\ w.root = R /\ w.current = kv.current
      /\ w.header = kv.header /\ w.hashes = kv.hashes /\ w.version = kv.version /\ w.block = kv.block
  <2>1. kv \in Contents /\ kv.state \cup {h} \in SUBSET Height
    BY <1>1, Types, Zenon DEF Contents
  <2> DEFINE S == kv.state \cup {h}
             v == [kv EXCEPT !.state = S, !.root = R]
  <2>2. w = v
    BY <2>1 DEF Contents
  <2> HIDE DEF S, R, w
  <2>3. v \in Contents /\ v.state = S /\ v.root = R /\ v.current = kv.current
        /\ v.header = kv.header /\ v.hashes = kv.hashes /\ v.version = kv.version /\ v.block = kv.block
    BY <1>3, <2>1, Zenon DEF Contents, S
  <2> HIDE DEF v
  <2> QED BY <2>2, <2>3 DEF S
<1> HIDE DEF R, w
<1>5. /\ kv.current = h /\ kv.state = 0 .. blockHeight /\ blockHeight \in Nat /\ kv.header \in Nat
      /\ \A k \in Height : k \in Nat
  BY <1>0, <1>1, Types DEF ChainInv, FieldsFit
<1>6. w.state = 0 .. h
  BY <1>1, <1>4, <1>5
<1>7. Sound(w)
  <2>1. /\ w.version /\ w.hashes <= w.header /\ w.current <= w.header
        /\ \A k \in Height : w.block[k] = "full" <=> k <= w.current
        /\ \A k \in Height : k <= w.header => w.block[k] # "none"
    BY <1>0, <1>4, RunningStore
  <2>2. w.state = 0 .. w.current
    BY <1>4, <1>5, <1>6, Zenon
  <2>3. \A k \in Height : w.root[k] # Nil <=> k \in w.state
    BY <1>0, <1>2, <1>3, <1>4, RunningStore
  <2> QED BY <2>1, <2>2, <2>3 DEF Sound
<1>8. Behind(kv, w)
  BY <1>1, <1>4, <1>5 DEF Behind
<1>9. NoCall \in Calls /\ NoCall.pc = "idle"
  BY SizesAssumption DEF NoCall, Calls, Height
<1>10. /\ call' \in [Caller -> Calls] /\ call'["AddBlock"] = NoCall /\ call'["AddHeaders"] = call["AddHeaders"]
       /\ \A d \in Caller : call'[d].pc = "current" <=> lock' = d
  BY <1>0, <1>9, OwnCall, ZenonT(40)
<1>11. TypeOK'
  BY <1>0, <1>1, <1>2, <1>4, <1>10, Zenon DEF ChainInv, TypeOK
<1>12. FieldsFit'
  BY <1>0, <1>2, <1>4, <1>5, <1>6, <1>9, <1>10, ZenonT(40) DEF ChainInv, FieldsFit
<1>13. CallFits(call["AddBlock"])'
  BY <1>9, <1>10 DEF CallFits
<1> QED BY <1>0, <1>4, <1>7, <1>8, <1>10, <1>11, <1>12, <1>13, WriteStep DEF ChainInv

\* A node in which no call runs, over the contents w.
LEMMA StoppedCalls ==
    ASSUME lock' = Nil, call' = [c \in Caller |-> NoCall]
    PROVE  /\ call' \in [Caller -> Calls] /\ call'["AddBlock"] = NoCall
           /\ call'["AddHeaders"].pc = "idle" /\ call'["AddBlock"].pc = "idle"
           /\ CallFits(call["AddBlock"])'
           /\ \A c \in Caller : call'[c].pc = "current" <=> lock' = c
<1>1. NoCall \in Calls /\ NoCall.pc = "idle"
  BY SizesAssumption DEF NoCall, Calls, Height
<1>2. "AddBlock" \in Caller /\ "AddHeaders" \in Caller
  BY DEF Caller
<1>3. /\ call' \in [Caller -> Calls] /\ call'["AddBlock"] = NoCall
      /\ call'["AddHeaders"].pc = "idle" /\ call'["AddBlock"].pc = "idle"
      /\ \A c \in Caller : call'[c].pc = "idle"
  BY <1>1, <1>2
<1>4. \A c \in Caller : lock' # c
  BY NilAssumption
<1> QED BY <1>3, <1>4 DEF CallFits

\* The contents of the database before and after the genesis block.
LEMMA GenesisSound ==
    /\ NoContents \in Contents /\ Sound(NoContents)
    /\ Genesis \in Contents /\ Sound(Genesis) /\ Behind(NoContents, Genesis)
    /\ Genesis.version /\ Genesis.current = 0 /\ Genesis.header = 0 /\ Genesis.hashes = 0
    /\ Genesis.state = {0} /\ Genesis.block[0] = "full"
<1>1. 0 \in Height /\ Height \subseteq Nat /\ 0 \in 0 .. MaxHeight + 1 /\ {0} \in SUBSET Height
  BY SizesAssumption DEF Height
<1> DEFINE B0 == [h \in Height |-> "none"]
           R0 == [h \in Height |-> Nil]
           B == [B0 EXCEPT ![0] = "full"]
           R == [R0 EXCEPT ![0] = {0}]
           G == [NoContents EXCEPT !.version = TRUE, !.block = B, !.tx = {0}, !.state = {0}, !.root = R]
<1>2. /\ B0 \in [Height -> {"none", "header", "full"}] /\ R0 \in [Height -> (SUBSET Height) \cup {Nil}]
      /\ B \in [Height -> {"none", "header", "full"}] /\ R \in [Height -> (SUBSET Height) \cup {Nil}]
      /\ B[0] = "full" /\ R[0] = {0} /\ \A h \in Height : h # 0 => B[h] = "none" /\ R[h] = Nil
  BY <1>1
<1>3. {0} # Nil
  BY <1>1, NilAssumption
<1>4. /\ NoContents \in Contents /\ Sound(NoContents) /\ NoContents.block = B0 /\ NoContents.root = R0
      /\ NoContents.header = 0 /\ NoContents.hashes = 0 /\ NoContents.current = 0 /\ NoContents.state = {}
  BY <1>1, <1>2, Zenon DEF NoContents, Contents, Sound
<1>5. Genesis = G
  BY <1>4, Zenon DEF Genesis
<1> HIDE DEF B, R, B0, R0
<1>6. /\ G \in Contents /\ G.version /\ G.current = 0 /\ G.header = 0 /\ G.hashes = 0
      /\ G.state = {0} /\ G.block = B /\ G.root = R
  BY <1>1, <1>2, <1>4, Zenon DEF Contents
<1> HIDE DEF G
<1>7. Sound(G)
  <2>1. G.state = 0 .. G.current
    BY <1>6
  <2>2. \A h \in Height : G.root[h] # Nil <=> h \in G.state
    BY <1>2, <1>3, <1>6
  <2>3. \A h \in Height : G.block[h] = "full" <=> h <= G.current
    BY <1>1, <1>2, <1>6
  <2>4. \A h \in Height : h <= G.header => G.block[h] # "none"
    BY <1>1, <1>2, <1>6
  <2> QED BY <1>6, <2>1, <2>2, <2>3, <2>4 DEF Sound
<1>8. Behind(NoContents, G)
  BY <1>4, <1>6 DEF Behind
<1> QED BY <1>2, <1>4, <1>5, <1>6, <1>7, <1>8

\* An empty database holds nothing.
LEMMA InitInv == Init => ChainInv
<1> SUFFICES ASSUME Init PROVE ChainInv
  OBVIOUS
<1>1. NoCall \in Calls /\ NoCall.pc = "idle"
  BY SizesAssumption DEF NoCall, Calls, Height
<1>2. /\ call \in [Caller -> Calls] /\ call["AddHeaders"].pc = "idle"
      /\ \A c \in Caller : call[c].pc # "current" /\ lock # c
  BY <1>1, NilAssumption DEF Init, Caller
<1>3. TypeOK
  BY <1>2, GenesisSound, SizesAssumption DEF Init, TypeOK, Height
<1>4. Behind(NoContents, NoContents)
  BY DEF Behind, NoContents
<1> QED BY <1>2, <1>3, <1>4, GenesisSound DEF Init, ChainInv

\* init stores the genesis block in an empty database.
LEMMA StartGenesisInv ==
    ASSUME ChainInv, StartGenesis
    PROVE  ChainInv'
<1>1. /\ disk = NoContents /\ pending = Nil /\ lock = Nil /\ call = [c \in Caller |-> NoCall]
  BY DEF StartGenesis, ChainInv, Sound
<1>2. /\ kv' = Genesis /\ node' = "up" /\ headers' = 1 /\ storedHeaderCount' = 0 /\ blockHeight' = 0
      /\ persistedHeight' = 0 /\ mpt' = {0} /\ UNCHANGED <<disk, pending, lock, call, crashes>>
  BY DEF StartGenesis
<1>3. /\ call' \in [Caller -> Calls] /\ call'["AddHeaders"].pc = "idle" /\ call'["AddBlock"].pc = "idle"
      /\ CallFits(call["AddBlock"])' /\ \A c \in Caller : call'[c].pc = "current" <=> lock' = c
  BY <1>1, <1>2, StoppedCalls
<1>4. 0 \in Height /\ {0} \in SUBSET Height /\ {0} # Nil /\ MaxHeight \in Nat /\ Height = 0 .. MaxHeight
  BY SizesAssumption, NilAssumption, SMTT(30) DEF Height
<1>5. TypeOK'
  <2>1. crashes \in 0 .. MaxCrashes
    BY ZenonT(40) DEF ChainInv, TypeOK
  <2> QED BY <1>1, <1>2, <1>3, <1>4, <2>1, GenesisSound DEF TypeOK
<1>6. FieldsFit'
  <2>1. Genesis.state = 0 .. 0
    BY GenesisSound
  <2>2. \A h \in Height : h < 1 => Genesis.block[h] # "none"
    BY <1>4, GenesisSound
  <2> QED BY <1>2, <1>3, <1>4, <2>1, <2>2, GenesisSound DEF FieldsFit
<1> QED BY <1>1, <1>2, <1>3, <1>5, <1>6, GenesisSound, ZenonT(40) DEF ChainInv

\* init finds every header; it goes on only with the state of the current block.
LEMMA RestoreInv ==
    ASSUME ChainInv, Restore
    PROVE  ChainInv'
<1>1. /\ node = "down" /\ disk.version /\ pending = Nil /\ lock = Nil
      /\ call = [c \in Caller |-> NoCall] /\ TypeOK
  BY ZenonT(40) DEF Restore, ChainInv
<1>2. /\ disk.hashes <= disk.header /\ disk.current <= disk.header
      /\ disk.state = 0 .. disk.current \/ (disk.current > 0 /\ disk.state = 0 .. disk.current - 1)
      /\ \A h \in Height : disk.root[h] # Nil <=> h \in disk.state
      /\ \A h \in Height : disk.block[h] = "full" <=> h <= disk.current
      /\ \A h \in Height : h <= disk.header => disk.block[h] # "none"
  <2>1. disk # NoContents
    BY <1>1, SMTT(30) DEF NoContents
  <2> QED BY <2>1, Zenon DEF ChainInv, Sound
<1>3. /\ disk \in Contents /\ disk.header \in Height /\ disk.current \in Height /\ disk.hashes \in 0 .. MaxHeight + 1
      /\ disk.root \in [Height -> (SUBSET Height) \cup {Nil}] /\ Sound(disk) /\ crashes \in 0 .. MaxCrashes
  BY <1>1 DEF Contents, TypeOK, ChainInv
<1>4. MaxHeight \in Nat /\ Height = 0 .. MaxHeight
  BY SizesAssumption DEF Height
<1>5. HeadersFound
  <2>1. FirstUnstored \in Nat
    BY <1>3, <1>4, SMTT(30) DEF FirstUnstored
  <2>2. \A h \in FirstUnstored .. disk.header : h \in Height /\ h <= disk.header
    BY <1>3, <1>4, <2>1
  <2> QED BY <1>2, <2>2, Zenon DEF HeadersFound
<1>6. /\ kv' = disk /\ storedHeaderCount' = disk.hashes /\ headers' = disk.header + 1
      /\ blockHeight' = disk.current /\ persistedHeight' = disk.current
      /\ mpt' = StateRootInit(disk.current)
      /\ node' = IF mpt' = Nil THEN "no state root" ELSE "up"
      /\ UNCHANGED <<disk, pending, lock, call, crashes>>
  BY <1>2, <1>3, <1>4, <1>5, Zenon DEF Restore
<1>7. /\ call' \in [Caller -> Calls] /\ call'["AddHeaders"].pc = "idle" /\ call'["AddBlock"].pc = "idle"
      /\ CallFits(call["AddBlock"])' /\ \A c \in Caller : call'[c].pc = "current" <=> lock' = c
  BY <1>1, <1>6, StoppedCalls, ZenonT(40)
<1>8. mpt' \in (SUBSET Height) \cup {Nil}
  BY <1>3, <1>6, Zenon DEF StateRootInit
<1>9. TypeOK'
  <2>1. headers' \in 0 .. MaxHeight + 1
    <3>1. headers' = disk.header + 1 /\ disk.header \in 0 .. MaxHeight /\ MaxHeight \in Nat
      BY <1>3, <1>4, <1>6, Zenon
    <3> QED BY <3>1
  <2>2. node' \in {"down", "up", "no header", "no state root"}
    BY <1>6, Zenon
  <2>3. pending \in Contents \cup {Nil}
    BY <1>1, Zenon
  <2> QED BY <1>3, <1>6, <1>7, <1>8, <2>1, <2>2, <2>3, Zenon DEF TypeOK
<1>10. ASSUME node' = "up" PROVE FieldsFit'
  <2>1. mpt' # Nil
    BY <1>6, <1>10
  <2>2. disk.state = 0 .. disk.current
    <3>1. CASE disk.current = 0
      BY <1>2, <3>1
    <3>2. CASE disk.current # 0
      <4>1. disk.current \in disk.state
        BY <1>2, <1>3, <1>6, <2>1, <3>2 DEF StateRootInit
      <4> QED BY <1>2, <1>3, <1>4, <4>1, SMTT(30)
    <3> QED BY <3>1, <3>2
  <2>3. \A h \in Height : h < disk.header + 1 => disk.block[h] # "none"
    BY <1>2, <1>3, <1>4
  <2>4. disk.header < disk.header + 1 /\ disk.header = (disk.header + 1) - 1
    BY <1>3, <1>4
  <2> QED BY <1>1, <1>6, <1>7, <2>1, <2>2, <2>3, <2>4 DEF FieldsFit
<1>11. Behind(disk, disk)
  BY <1>3, <1>4, SMTT(30) DEF Behind
<1> QED BY <1>1, <1>3, <1>6, <1>7, <1>9, <1>10, <1>11, ZenonT(40) DEF ChainInv

\* persist takes a snapshot, and writes it or gives it up.
LEMMA PersistInv ==
    ASSUME ChainInv, PersistBegin \/ PersistWrite \/ PersistFail
    PROVE  ChainInv'
<1>1. /\ node = "up" /\ UNCHANGED <<kv, node, headers, storedHeaderCount, blockHeight, mpt, lock, call, crashes>>
  BY DEF PersistBegin, PersistWrite, PersistFail, Store!Begin, Store!Commit, Store!Abort, memory
<1>2. /\ \/ disk' = disk /\ persistedHeight' = persistedHeight /\ pending' \in {kv, Nil}
         \/ pending # Nil /\ disk' = pending /\ pending' = Nil /\ persistedHeight' = disk'.current
  BY DEF PersistBegin, PersistWrite, PersistFail, Store!Begin, Store!Commit, Store!Abort, memory
<1>3. /\ kv \in Contents /\ disk \in Contents /\ pending \in Contents \cup {Nil}
      /\ \A c \in Contents : c.current \in Height /\ c.current \in Nat /\ c.header \in Nat
  BY Types, SMTT(30) DEF Contents
<1>4. TypeOK'
  BY <1>1, <1>2, <1>3 DEF ChainInv, TypeOK
<1>5. FieldsFit' /\ CallFits(call["AddBlock"])'
  BY <1>1, Zenon DEF ChainInv, FieldsFit, CallFits
<1>6. Sound(kv)' /\ Sound(disk)' /\ Behind(disk, kv)'
  BY <1>1, <1>2 DEF ChainInv, Sound, Behind
<1>7. pending' # Nil => Sound(pending)' /\ Behind(disk, pending)' /\ Behind(pending, kv)'
  <2>1. Behind(kv, kv)
    BY <1>3 DEF Behind
  <2>2. Sound(kv) /\ Behind(disk, kv)
    BY Zenon DEF ChainInv
  <2>3. pending' # Nil => disk' = disk /\ pending' = kv /\ kv' = kv
    BY <1>1, <1>2
  <2> QED BY <2>1, <2>2, <2>3
<1> QED BY <1>1, <1>4, <1>5, <1>6, <1>7 DEF ChainInv

\* A stop leaves the database as it is, or takes all of the store into it.
LEMMA StopInv ==
    ASSUME ChainInv, Close \/ Crash
    PROVE  ChainInv'
<1>1. /\ disk' \in {kv, disk} /\ kv' = disk' /\ node' = "down" /\ lock' = Nil /\ pending' = Nil
      /\ call' = [c \in Caller |-> NoCall] /\ crashes < MaxCrashes /\ crashes' = crashes + 1
      /\ headers' = 0 /\ storedHeaderCount' = 0 /\ blockHeight' = 0 /\ persistedHeight' = 0 /\ mpt' = {}
  BY ZenonT(40) DEF Close, Crash, Stopped
<1>2. kv \in Contents /\ disk \in Contents /\ Sound(kv) /\ Sound(disk)
  BY Types, Zenon DEF ChainInv
<1>3. /\ call' \in [Caller -> Calls] /\ call'["AddHeaders"].pc = "idle"
      /\ \A c \in Caller : call'[c].pc = "current" <=> lock' = c
  BY <1>1, StoppedCalls
<1>4. crashes' \in 0 .. MaxCrashes
  <2>1. crashes \in 0 .. MaxCrashes
    BY Zenon DEF ChainInv, TypeOK
  <2> QED BY <1>1, <2>1, SizesAssumption
<1>5. 0 \in Height /\ 0 \in 0 .. MaxHeight + 1
  BY SizesAssumption DEF Height
<1>6. TypeOK'
  BY <1>1, <1>2, <1>3, <1>4, <1>5 DEF TypeOK
<1>7. \A c \in Contents : Behind(c, c)
  <2>1. \A c \in Contents : c.current \in Nat /\ c.header \in Nat
    BY SizesAssumption DEF Contents, Height
  <2> QED BY <2>1 DEF Behind
<1>8. Sound(kv)' /\ Sound(disk)' /\ Behind(disk, kv)'
  BY <1>1, <1>2, <1>7
<1> QED BY <1>1, <1>3, <1>6, <1>8, ZenonT(40) DEF ChainInv

\* Every step of a node, its stops and its restarts preserves ChainInv.
LEMMA NextInv ==
    ASSUME ChainInv, [Next]_vars
    PROVE  ChainInv'
<1>1. CASE UNCHANGED vars
  <2>1. TypeOK'
    BY <1>1, ZenonT(40) DEF vars, ChainInv, TypeOK
  <2>2. node = "up" => FieldsFit' /\ CallFits(call["AddBlock"])'
    BY <1>1 DEF vars, ChainInv, FieldsFit, CallFits
  <2> QED BY <1>1, <2>1, <2>2, ZenonT(40) DEF vars, ChainInv
<1>2. CASE \E first, last \in Height \ {0} : first <= last /\ AddHeaders(first, last)
  BY <1>2, AddHeadersInv
<1>3. CASE AddHeadersSteps
  BY <1>3, CheckHeadersInv, StoreHeadersInv, StoreCurrentHeaderInv DEF AddHeadersSteps, Caller
<1>4. CASE \E h \in Height, good \in BOOLEAN : AddBlock(h, good)
  BY <1>4, AddBlockInv
<1>5. CASE AddBlockSteps
  BY <1>5, CheckHeadersInv, StoreHeadersInv, StoreCurrentHeaderInv, VerifyBlockInv,
     StoreBlockDataInv, StoreBlockStateInv DEF AddBlockSteps, Caller
<1>6. CASE ExecuteBlock
  BY <1>6, VerifyBlockInv
<1>7. CASE StartGenesis \/ Restore
  BY <1>7, StartGenesisInv, RestoreInv
<1>8. CASE PersistBegin \/ PersistWrite \/ PersistFail
  BY <1>8, PersistInv
<1>9. CASE Close \/ Crash
  BY <1>9, StopInv
<1> QED BY <1>1, <1>2, <1>3, <1>4, <1>5, <1>6, <1>7, <1>8, <1>9 DEF Next

\* No step moves the database back.
LEMMA DiskAdvances ==
    ASSUME ChainInv, [Next]_vars
    PROVE  /\ disk'.current >= disk.current /\ disk'.header >= disk.header
           /\ disk.state \subseteq disk'.state
<1>1. disk' = disk \/ (pending # Nil /\ disk' = pending) \/ disk' = kv
  BY Zenon DEF Next, vars, StartGenesis, Restore, AddHeaders, AddHeadersSteps, AddBlock, AddBlockSteps, CheckHeaders,
     StoreHeaders, StoreCurrentHeader, VerifyBlock, ExecuteBlock, StoreBlockData, StoreBlockState,
     PersistBegin, PersistWrite, PersistFail, Close, Crash, Store!Begin, Store!Commit, Store!Abort
<1>2. Behind(disk, kv) /\ (pending # Nil => Behind(disk, pending))
  BY ZenonT(40) DEF ChainInv
<1>3. /\ kv \in Contents /\ disk \in Contents /\ pending \in Contents \cup {Nil}
      /\ \A c \in Contents : c.current \in Nat /\ c.header \in Nat
  BY Types, SMTT(30) DEF Contents
<1> QED BY <1>1, <1>2, <1>3 DEF Behind

\* As long as the node runs, its current block does not go back.
LEMMA CurrentAdvances ==
    ASSUME ChainInv, [Next]_vars, node = "up", node' = "up"
    PROVE  kv'.current >= kv.current
<1>0. kv \in Contents /\ kv.current \in Nat
  BY Types
<1>1. CASE StoreBlockData
  <2> DEFINE h == call["AddBlock"].last
             w == [kv EXCEPT !.current = h, !.block[h] = "full", !.tx = @ \cup {h}]
  <2>1. call["AddBlock"].pc = "blocks" /\ h = blockHeight + 1 /\ kv.current = blockHeight
    BY <1>1 DEF StoreBlockData, ChainInv, CallFits, FieldsFit
  <2>2. h = kv.current + 1
    BY <2>1
  <2>3. \A x : DeleteBlock(w, x).current = w.current
    BY <1>0 DEF DeleteBlock, Contents
  <2>4. w.current = h
    BY <1>0 DEF Contents
  <2>5. kv'.current = w.current
    <3>1. kv' = w \/ \E x : kv' = DeleteBlock(w, x)
      BY <1>1 DEF StoreBlockData
    <3> HIDE DEF w
    <3> QED BY <2>3, <3>1
  <2> HIDE DEF h, w
  <2> QED BY <1>0, <2>2, <2>4, <2>5
<1>2. CASE StoreBlockState
  <2>1. kv'.current = kv.current
    BY <1>0, <1>2 DEF StoreBlockState, Contents
  <2> QED BY <1>0, <2>1
<1>3. ASSUME NEW c \in Caller, StoreHeaders(c) \/ StoreCurrentHeader(c) PROVE kv'.current >= kv.current
  <2>1. kv'.current = kv.current
    BY <1>0, <1>3, ZenonT(40) DEF StoreHeaders, StoreCurrentHeader, Contents
  <2> QED BY <1>0, <2>1
<1>4. CASE kv' = kv
  BY <1>0, <1>4
<1>5. \/ kv' = kv \/ StoreBlockData \/ StoreBlockState
      \/ \E c \in Caller : StoreHeaders(c) \/ StoreCurrentHeader(c)
  BY Zenon DEF Next, vars, Caller, StartGenesis, Restore, AddHeaders, AddHeadersSteps, AddBlock, AddBlockSteps, CheckHeaders,
     VerifyBlock, ExecuteBlock, PersistBegin, PersistWrite, PersistFail, Close, Crash, Stopped,
     Store!Begin, Store!Commit, Store!Abort
<1> QED BY <1>1, <1>2, <1>3, <1>4, <1>5

\* A running node never replaces a stored block.
LEMMA BlocksStay ==
    ASSUME ChainInv, ChainInv', [Next]_vars, node = "up", node' = "up"
    PROVE  \A h \in Height : kv.block[h] = "full" => kv'.block[h] = "full"
<1>1. \A h \in Height : kv.block[h] = "full" <=> h <= kv.current
  BY RunningStore, Zenon
<1>2. \A h \in Height : kv'.block[h] = "full" <=> h <= kv'.current
  <2>1. kv' # NoContents
    BY DEF ChainInv, FieldsFit, NoContents
  <2> QED BY <2>1, Zenon DEF ChainInv, Sound
<1>3. kv.current \in Nat /\ kv'.current \in Nat /\ \A h \in Height : h \in Nat
  <2>1. kv' \in Contents
    BY DEF ChainInv, TypeOK
  <2>2. \A c \in Contents : c.current \in Nat
    BY Types DEF Contents
  <2> QED BY <2>1, <2>2, Types, SMTT(30)
<1> QED BY <1>1, <1>2, <1>3, CurrentAdvances

\* ChainInv holds in every reachable state of the blockchain, its store and
\* its database, however AddBlock, AddHeaders and persist interleave and
\* wherever the process stops.
THEOREM ChainIsSound == Spec => []ChainInv
<1>1. ChainInv /\ [Next]_vars => ChainInv'
  BY NextInv
<1> QED BY <1>1, InitInv, PTL DEF Spec

\* init never misses a header, and a running node that is not adding a block
\* has the header, body, state and state root of exactly the heights up to its
\* own (blockchain.go: init, storeBlock).
THEOREM HeightsAreComplete == Spec => []HeightIsComplete
<1>1. ChainInv => HeightIsComplete
  <2> SUFFICES ASSUME ChainInv PROVE HeightIsComplete
    OBVIOUS
  <2>1. TypeOK /\ node # "no header"
    BY Zenon DEF ChainInv
  <2>2. ASSUME node = "up", call["AddBlock"].pc = "idle"
        PROVE  /\ kv.current = blockHeight /\ blockHeight < headers /\ kv.state = 0 .. blockHeight
               /\ \A h \in 0 .. blockHeight : kv.block[h] = "full" /\ kv.root[h] # Nil
               /\ \A h \in Height : h > blockHeight => kv.block[h] # "full" /\ kv.root[h] = Nil
    <3>1. /\ kv.current = blockHeight /\ kv.state = 0 .. blockHeight /\ kv.header < headers
      BY <2>2 DEF ChainInv, FieldsFit
    <3>2. /\ kv.current <= kv.header
          /\ \A h \in Height : kv.root[h] # Nil <=> h \in kv.state
          /\ \A h \in Height : kv.block[h] = "full" <=> h <= kv.current
      BY <2>2, RunningStore
    <3>3. blockHeight \in Height /\ kv.header \in Nat /\ headers \in Nat /\ Height = 0 .. MaxHeight /\ MaxHeight \in Nat
      BY <2>1, Types, Zenon DEF TypeOK
    <3>4. 0 .. blockHeight \subseteq Height
      BY <3>3
    <3> QED BY <3>1, <3>2, <3>3, <3>4, SMTT(30)
  <2> QED BY <2>1, <2>2, Zenon DEF HeightIsComplete
<1> QED BY <1>1, ChainIsSound, PTL

\* A stored block is not replaced by its bare header while the node runs, and
\* the database never goes back (blockchain.go: addHeaders, storeBlock, persist).
THEOREM BlocksAreNotLost == Spec => BlocksAreKept
<1>1. ChainInv /\ ChainInv' /\ [Next]_vars =>
        [/\ node = "up" /\ node' = "up" =>
              \A h \in Height : kv.block[h] = "full" => kv'.block[h] = "full"
         /\ disk'.current >= disk.current /\ disk'.header >= disk.header
         /\ disk.state \subseteq disk'.state]_vars
  BY BlocksStay, DiskAdvances
<1> QED BY <1>1, ChainIsSound, PTL DEF Spec, BlocksAreKept

=============================================================================
