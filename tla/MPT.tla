-------------------------------- MODULE MPT --------------------------------
(***************************************************************************)
(* The Merkle-Patricia trie of package mpt and the part of the state       *)
(* module that keeps it: blocks are applied as sorted batches, new nodes   *)
(* are flushed to a store with reference counts, the in-memory tree is     *)
(* collapsed to hash nodes, and nodes that left the trie are collected.    *)
(*                                                                         *)
(* A node is a record; the hash of a node is the node with every hash node *)
(* below it replaced by what it stands for (a collision-free hash).  Paths *)
(* are sequences of nibbles.  The operators that descend the trie return   *)
(* the new node n and the trie t = [rc, store, ok]: the reference counts   *)
(* of this block, the store, and FALSE after a missing node or a panic.    *)
(* The cached hash and bytes of a node are not state here.                 *)
(***************************************************************************)
EXTENDS Integers, FiniteSets, Sequences, SequencesExt, FiniteSetsExt, TLC

CONSTANTS Nibble,                 \* 0 .. n-1, 0 .. 15 in the code
          Keys,                   \* the paths written: even numbers of nibbles
          Values,
          GenesisValues,          \* those of the genesis block
          MaxBatch,               \* bound: MaxBatch[mode][h] keys changed by block h; its domain are
                                  \* the modes to explore, of "all", "latest", "gc"
          Depth,                  \* the argument of Collapse, 10 in the code
          MaxTraceableBlocks, GarbageCollectionPeriod,
          MinRestart              \* bound: the lowest height a restart is tried at

VARIABLES mode, root, refcount, store, contents, collected, panicked

vars == <<mode, root, refcount, store, contents, collected, panicked>>

lastChild == Cardinality(Nibble)
Children == Nibble \union {lastChild}
None == "none"                    \* a nil value: a deletion, a missing key
NoPath == <<-1>>                  \* a nil path

RC == mode # "all"
GC == mode = "gc"

EmptyNode == [type |-> "empty"]
LeafNode(v) == [type |-> "leaf", value |-> v]
HashNode(h) == [type |-> "hash", hash |-> h]
ExtensionNode(key, next) == [type |-> "ext", key |-> key, next |-> next]
BranchNode(children) == [type |-> "branch", children |-> children]
NewBranchNode == BranchNode([i \in Children |-> EmptyNode])

isEmpty(n) == n.type = "empty"

RECURSIVE Hash(_)
Hash(n) ==
  CASE n.type = "hash" -> n.hash
    [] n.type = "ext" -> ExtensionNode(n.key, Hash(n.next))
    [] n.type = "branch" -> BranchNode([i \in Children |-> Hash(n.children[i])])
    [] OTHER -> n

\* what decoding the bytes of a stored node gives: its children as hashes
AsChild(n) == IF isEmpty(n) THEN n ELSE HashNode(n)

Decode(h) ==
  CASE h.type = "ext" -> ExtensionNode(h.key, AsChild(h.next))
    [] h.type = "branch" -> BranchNode([i \in Children |-> AsChild(h.children[i])])
    [] OTHER -> h

lcp(a, b) == LongestCommonPrefix({a, b})
lcpMany(kv) == LongestCommonPrefix({kv[i].key : i \in DOMAIN kv})

Drop(s, k) == SubSeq(s, k + 1, Len(s))

splitPath(path) == IF path = <<>> THEN [i |-> lastChild, path |-> path]
                                  ELSE [i |-> Head(path), path |-> Tail(path)]

\* bytes.Compare(a, b) < 0
Less(a, b) ==
  LET p == Len(lcp(a, b)) IN
  \/ p = Len(a) /\ p < Len(b)
  \/ p < Len(a) /\ p < Len(b) /\ a[p + 1] < b[p + 1]

At(n, t) == [n |-> n, t |-> t]

----------------------------------------------------------------------------
\* reference counts and the store

Ref(t, n, d) ==
  LET h == Hash(n) IN
  [t EXCEPT !.rc = IF h \in DOMAIN @ THEN [@ EXCEPT ![h].refcount = @ + d]
                   ELSE (h :> [initial |-> 0, refcount |-> d]) @@ @]

addRef(t, n) == Ref(t, n, 1)
removeRef(t, n) == Ref(t, n, -1)

IsActiveValue(v) == v.active

Readable(t, h) == h \in DOMAIN t.store /\ (t.gc => IsActiveValue(t.store[h]))

getFromStore(t, h) ==
  IF ~Readable(t, h) THEN At(HashNode(h), [t EXCEPT !.ok = FALSE])
  ELSE At(Decode(h),
          IF RC /\ h \in DOMAIN t.rc
          THEN [t EXCEPT !.rc[h].initial = t.store[h].count] ELSE t)

updateRefCount(t, h) ==
  LET r == t.rc[h] IN
  r.refcount + (IF r.initial # 0 THEN r.initial
                ELSE IF Readable(t, h) THEN t.store[h].count ELSE 0)

Flush(t, index) ==
  LET dirty == {h \in DOMAIN t.rc : t.rc[h].refcount # 0}
      cnt == [h \in dirty |-> updateRefCount(t, h)]
      gone == {h \in dirty : cnt[h] = 0}
      put == IF RC THEN dirty \ gone ELSE {h \in dirty : t.rc[h].refcount > 0}
      kept == [h \in put |-> [active |-> TRUE, count |-> IF RC THEN cnt[h] ELSE 0]]
      dead == [h \in gone |-> [active |-> FALSE, count |-> index]]
      rest == [h \in DOMAIN t.store \ gone |-> t.store[h]]
  IN [t EXCEPT !.rc = [h \in IF RC THEN dirty \ gone ELSE dirty |->
                         [initial |-> IF RC THEN cnt[h] ELSE 0, refcount |-> 0]],
               !.store = CASE ~RC -> kept @@ @
                           [] GC -> kept @@ dead @@ rest
                           [] OTHER -> kept @@ rest,
               !.ok = @ /\ (RC => \A h \in dirty : cnt[h] >= 0)]

RECURSIVE collapse(_, _)
collapse(depth, n) ==
  CASE n.type \in {"hash", "empty"} -> n
    [] n.type \notin {"hash", "empty"} /\ depth = 0 -> HashNode(Hash(n))
    [] n.type = "branch" /\ depth > 0 ->
         BranchNode([i \in Children |-> collapse(depth - 1, n.children[i])])
    [] n.type = "ext" /\ depth > 0 -> ExtensionNode(n.key, collapse(depth - 1, n.next))
    [] OTHER -> n

newSubTrie(t, path, val, newVal) ==
  LET t1 == IF newVal THEN addRef(t, val) ELSE t
      e == ExtensionNode(path, val) IN
  IF path = <<>> THEN At(val, t1) ELSE At(e, addRef(t1, e))

----------------------------------------------------------------------------
\* Put and Delete of one key

RECURSIVE putIntoNode(_, _, _, _)

putIntoLeaf(t, curr, path, val) ==
  IF path = <<>> THEN At(val, addRef(removeRef(t, curr), val))
  ELSE LET s == newSubTrie(t, Tail(path), val, TRUE)
           b == BranchNode([NewBranchNode.children EXCEPT
                              ![Head(path)] = s.n, ![lastChild] = curr])
       IN At(b, addRef(s.t, b))

putIntoBranch(t, curr, path, val) ==
  LET p == splitPath(path)
      r == putIntoNode(removeRef(t, curr), curr.children[p.i], p.path, val)
      b == [curr EXCEPT !.children[p.i] = r.n]
  IN At(b, addRef(r.t, b))

putIntoExtension(t, curr, path, val) ==
  LET t1 == removeRef(t, curr)
      lp == Len(lcp(curr.key, path))
      keyTail == Drop(curr.key, lp)
      inside == putIntoNode(t1, curr.next, Drop(path, Len(curr.key)), val)
      longer == ExtensionNode(curr.key, inside.n)
      p == splitPath(Drop(path, lp))
      s1 == newSubTrie(t1, Tail(keyTail), curr.next, FALSE)
      s2 == newSubTrie(s1.t, p.path, val, TRUE)
      b == BranchNode([NewBranchNode.children EXCEPT
                         ![Head(keyTail)] = s1.n, ![p.i] = s2.n])
      t2 == addRef(s2.t, b)
      e == ExtensionNode(SubSeq(path, 1, lp), b)
  IN CASE keyTail = <<>> -> At(longer, addRef(inside.t, longer))
       [] keyTail # <<>> /\ lp > 0 -> At(e, addRef(t2, e))
       [] OTHER -> At(b, t2)

putIntoNode(t, curr, path, val) ==
  CASE curr.type = "leaf" -> putIntoLeaf(t, curr, path, val)
    [] curr.type = "branch" -> putIntoBranch(t, curr, path, val)
    [] curr.type = "ext" -> putIntoExtension(t, curr, path, val)
    [] curr.type = "empty" -> newSubTrie(t, path, val, TRUE)
    [] OTHER -> LET r == getFromStore(t, curr.hash) IN
                IF r.t.ok THEN putIntoNode(r.t, r.n, path, val) ELSE r

RECURSIVE deleteFromNode(_, _, _)

deleteFromBranch(t, b, path) ==
  LET p == splitPath(path)
      r == deleteFromNode(t, b.children[p.i], p.path)
      t1 == removeRef(r.t, b)
      b1 == [b EXCEPT !.children[p.i] = r.n]
      left == {i \in Children : ~isEmpty(b1.children[i])}
      index == Max(left)
      c == IF b1.children[index].type = "hash" THEN getFromStore(t1, b1.children[index].hash)
                                               ELSE At(b1.children[index], t1)
      e == IF c.n.type = "ext" THEN ExtensionNode(<<index>> \o c.n.key, c.n.next)
                               ELSE ExtensionNode(<<index>>, c.n)
  IN CASE Cardinality(left) > 1 -> At(b1, addRef(t1, b1))
       [] left = {lastChild} -> At(b1.children[index], t1)
       [] OTHER -> At(e, addRef(IF c.n.type = "ext" THEN removeRef(c.t, c.n) ELSE c.t, e))

deleteFromExtension(t, n, path) ==
  IF ~IsPrefix(n.key, path) THEN At(n, t)
  ELSE LET r == deleteFromNode(t, n.next, Drop(path, Len(n.key)))
           t1 == removeRef(r.t, n)
           e == IF r.n.type = "ext" THEN ExtensionNode(n.key \o r.n.key, r.n.next)
                                    ELSE ExtensionNode(n.key, r.n)
       IN IF isEmpty(r.n) THEN At(r.n, t1)
          ELSE At(e, addRef(IF r.n.type = "ext" THEN removeRef(t1, r.n) ELSE t1, e))

deleteFromNode(t, curr, path) ==
  CASE curr.type = "leaf" -> IF path = <<>> THEN At(EmptyNode, removeRef(t, curr))
                                            ELSE At(curr, t)
    [] curr.type = "branch" -> deleteFromBranch(t, curr, path)
    [] curr.type = "ext" -> deleteFromExtension(t, curr, path)
    [] curr.type = "empty" -> At(curr, t)
    [] OTHER -> LET r == getFromStore(t, curr.hash) IN
                IF r.t.ok THEN deleteFromNode(r.t, r.n, path) ELSE r

----------------------------------------------------------------------------
\* PutBatch: the sorted changes of a block

\* Changes m: a function from some keys to their values, None to delete.
MapToMPTBatch(m) ==
  LET ks == SetToSortSeq(DOMAIN m, Less) IN
  [i \in 1 .. Len(ks) |-> [key |-> ks[i], value |-> m[ks[i]]]]

stripPrefix(k, kv) == [i \in DOMAIN kv |-> [kv[i] EXCEPT !.key = Drop(@, k)]]

\* the child the first changes go to, and how many of them
getLastIndex(kv) ==
  IF kv[1].key = <<>> THEN [c |-> lastChild, n |-> 1]
  ELSE LET c == kv[1].key[1]
           others == {i \in DOMAIN kv : kv[i].key[1] # c} IN
       [c |-> c, n |-> IF others = {} THEN Len(kv) ELSE Min(others) - 1]

RECURSIVE mergeExtension(_, _, _)
mergeExtension(t, prefix, sub) ==
  CASE sub.type = "ext" ->
         LET e == ExtensionNode(prefix \o sub.key, sub.next) IN
         At(e, addRef(removeRef(t, sub), e))
    [] sub.type = "empty" -> At(sub, t)
    [] sub.type = "hash" -> LET r == getFromStore(t, sub.hash) IN
                            IF r.t.ok THEN mergeExtension(r.t, prefix, r.n) ELSE r
    [] OTHER -> LET e == ExtensionNode(prefix, sub) IN
                IF prefix = <<>> THEN At(sub, t) ELSE At(e, addRef(t, e))

merged(r, prefix) == IF r.t.ok THEN mergeExtension(r.t, prefix, r.n) ELSE r

stripBranch_bug(t, b) ==
  IF \A i \in Children : isEmpty(b.children[i]) THEN At(EmptyNode, t) ELSE At(b, addRef(t, b))

stripBranch(t, b) ==
  LET left == {i \in Children : ~isEmpty(b.children[i])} IN
  CASE left = {} -> At(EmptyNode, t)
    [] left = {lastChild} -> At(b.children[lastChild], t)
    [] Cardinality(left) = 1 /\ left # {lastChild} ->
         mergeExtension(t, <<Max(left)>>, b.children[Max(left)])
    [] OTHER -> At(b, addRef(t, b))

RECURSIVE putBatchIntoNode(_, _, _)

RECURSIVE iterateBatch(_, _, _)
iterateBatch(t, b, kv) ==
  IF kv = <<>> \/ ~t.ok THEN At(b, t)
  ELSE LET g == getLastIndex(kv)
           sub == stripPrefix(IF g.c = lastChild THEN 0 ELSE 1, SubSeq(kv, 1, g.n))
           r == putBatchIntoNode(t, b.children[g.c], sub)
       IN iterateBatch(r.t, [b EXCEPT !.children[g.c] = r.n], Drop(kv, g.n))

addToBranch(t, b, kv, inTrie) ==
  LET r == iterateBatch(IF inTrie THEN removeRef(t, b) ELSE t, b, kv) IN
  stripBranch(r.t, r.n)

RECURSIVE newSubTrieMany(_, _, _, _)
newSubTrieMany(t, prefix, kv, value) ==
  LET first == kv[1].key = <<>>
      v == IF first THEN kv[1].value ELSE value
      b == BranchNode([NewBranchNode.children EXCEPT ![lastChild] = LeafNode(v)]) IN
  CASE first /\ v = None ->
         IF Len(kv) = 1 THEN At(EmptyNode, t) ELSE newSubTrieMany(t, prefix, Tail(kv), None)
    [] first /\ v # None /\ Len(kv) = 1 -> newSubTrie(t, prefix, LeafNode(v), TRUE)
    [] OTHER ->
         merged(IF v = None THEN addToBranch(t, NewBranchNode, kv, FALSE)
                ELSE addToBranch(addRef(t, LeafNode(v)), b, kv, FALSE), prefix)

putBatchIntoExtensionNoPrefix(t, key, next, kv) ==
  LET s == newSubTrie(t, Tail(key), next, FALSE) IN
  addToBranch(s.t, BranchNode([NewBranchNode.children EXCEPT ![key[1]] = s.n]), kv, FALSE)

putBatchIntoExtension(t, curr, kv) ==
  LET t1 == removeRef(t, curr)
      pref == lcp(lcpMany(kv), curr.key)
      lp == Len(pref) IN
  CASE lp = Len(curr.key) ->
         merged(putBatchIntoNode(t1, curr.next, stripPrefix(lp, kv)), pref)
    [] 0 < lp /\ lp < Len(curr.key) ->
         merged(putBatchIntoExtensionNoPrefix(t1, Drop(curr.key, lp), curr.next,
                                              stripPrefix(lp, kv)), pref)
    [] OTHER -> putBatchIntoExtensionNoPrefix(t1, curr.key, curr.next, kv)

putBatchIntoNode(t, curr, kv) ==
  CASE curr.type = "leaf" -> newSubTrieMany(removeRef(t, curr), <<>>, kv, curr.value)
    [] curr.type = "branch" -> addToBranch(t, curr, kv, TRUE)
    [] curr.type = "ext" -> putBatchIntoExtension(t, curr, kv)
    [] curr.type = "empty" ->
         LET common == lcpMany(kv) IN
         newSubTrieMany(t, common, stripPrefix(Len(common), kv), None)
    [] OTHER -> LET r == getFromStore(t, curr.hash) IN
                IF r.t.ok THEN putBatchIntoNode(r.t, r.n, kv) ELSE r

PutBatch(t, r, kv) == IF kv = <<>> THEN At(r, t) ELSE putBatchIntoNode(t, r, kv)

----------------------------------------------------------------------------
\* reading: Get, GetProof and VerifyProof, Find

Found(node, path) == [ok |-> TRUE, node |-> node, path |-> path]
NotFound == [ok |-> FALSE]

RECURSIVE getWithPath(_, _, _, _)
getWithPath(t, curr, path, strict) ==
  CASE curr.type = "leaf" -> IF path = <<>> THEN Found(curr, <<>>) ELSE NotFound
    [] curr.type = "branch" ->
         LET p == splitPath(path)
             r == getWithPath(t, curr.children[p.i], p.path, strict) IN
         CASE p.i = lastChild /\ ~strict -> Found(curr, <<>>)
           [] (p.i # lastChild \/ strict) /\ r.ok -> Found(r.node, <<p.i>> \o r.path)
           [] OTHER -> NotFound
    [] curr.type = "ext" ->
         LET r == getWithPath(t, curr.next, Drop(path, Len(curr.key)), strict) IN
         CASE ~strict /\ IsPrefix(path, curr.key) -> Found(curr.next, curr.key)
           [] (strict \/ path # curr.key) /\ IsPrefix(curr.key, path) ->
                IF r.ok THEN Found(r.node, curr.key \o r.path) ELSE NotFound
           [] OTHER -> NotFound
    [] curr.type = "hash" -> LET r == getFromStore(t, curr.hash) IN
                             IF r.t.ok THEN getWithPath(t, r.n, path, strict) ELSE NotFound
    [] OTHER -> NotFound

\* a trie opened for reading, with the GC flag of the mode removed
Reader(s) == [rc |-> <<>>, store |-> s, gc |-> FALSE, ok |-> TRUE]

Get(s, h, key) == LET r == getWithPath(Reader(s), HashNode(h), key, TRUE) IN
                  IF r.ok THEN r.node.value ELSE None

RECURSIVE getProof(_, _, _)
getProof(t, curr, path) ==
  LET with(r) == [r EXCEPT !.proof = <<Hash(curr)>> \o @]
      nothing == [ok |-> FALSE, proof |-> <<>>] IN
  CASE curr.type = "leaf" /\ path = <<>> -> [ok |-> TRUE, proof |-> <<curr>>]
    [] curr.type = "branch" -> LET p == splitPath(path) IN
                               with(getProof(t, curr.children[p.i], p.path))
    [] curr.type = "ext" /\ IsPrefix(curr.key, path) ->
         with(getProof(t, curr.next, Drop(path, Len(curr.key))))
    [] curr.type = "hash" -> LET r == getFromStore(t, curr.hash) IN
                             IF r.t.ok THEN getProof(t, r.n, path) ELSE nothing
    [] OTHER -> nothing

GetProof(s, h, key) == getProof(Reader(s), HashNode(h), key)

VerifyProof(h, key, proof) ==
  Get([n \in Range(proof) |-> [active |-> TRUE, count |-> 0]], h, key)

RECURSIVE traverse(_, _, _, _, _, _)
traverse(t, curr, path, from, q, acc) ==
  LET visited == IF from = <<>> /\ curr.type = "leaf" /\ path # q.from
                 THEN Append(acc, [key |-> path, value |-> curr.value]) ELSE acc
      s == splitPath(from)
      range == IF from = <<>> THEN [i \in 1 .. lastChild + 1 |-> i - 1]
                              ELSE [j \in 1 .. lastChild - s.i |-> s.i + j - 1]
      child(a, i) ==
        traverse(t, curr.children[i], IF i = lastChild THEN path ELSE Append(path, i),
                 IF from # <<>> /\ i = s.i THEN s.path ELSE <<>>, q, a)
      rest == IF from # <<>> /\ IsPrefix(curr.key, from) THEN Drop(from, Len(curr.key))
                                                         ELSE <<>> IN
  CASE curr.type = "empty" \/ Len(acc) >= q.max -> acc
    [] curr.type = "hash" /\ Len(acc) < q.max ->
         LET r == getFromStore(t, curr.hash) IN
         IF r.t.ok THEN traverse(t, r.n, path, from, q, acc) ELSE acc
    [] curr.type = "leaf" /\ Len(acc) < q.max -> visited
    [] curr.type = "branch" /\ Len(acc) < q.max -> FoldLeft(child, acc, range)
    [] OTHER -> IF from = <<>> \/ IsPrefix(curr.key, from) \/ Less(from, curr.key)
                THEN traverse(t, curr.next, path \o curr.key, rest, q, acc) ELSE acc

\* the pairs after prefix \o from, keys without the prefix; from may be NoPath
Find(s, h, prefix, from, max) ==
  LET start == getWithPath(Reader(s), HashNode(h), prefix, FALSE)
      path == Drop(start.path, Len(prefix))
      fromP == IF from = NoPath THEN <<>> ELSE from
      list(f) == traverse(Reader(s), start.node, path, f, [from |-> from, max |-> max], <<>>)
  IN CASE ~start.ok -> <<>>
       [] start.ok /\ IsPrefix(path, fromP) -> list(Drop(fromP, Len(path)))
       [] start.ok /\ ~IsPrefix(path, fromP) /\ ~IsPrefix(fromP, path) /\ Less(path, fromP)
            -> <<>>
       [] OTHER -> list(<<>>)

----------------------------------------------------------------------------
\* the trie of the state module, block after block

\* what a block leaves: changes ch applied to the pairs m
Applied(m, ch) ==
  [k \in {x \in DOMAIN m \union DOMAIN ch : x \in DOMAIN ch => ch[x] # None} |->
     IF k \in DOMAIN ch THEN ch[k] ELSE m[k]]

Changes(max) == UNION {[S -> Values \union {None}] :
                         S \in UNION {kSubset(n, Keys) : n \in 0 .. max}}

height == Len(contents) - 1
Pairs == IF contents = <<>> THEN <<>> ELSE Last(contents)
Trie == [rc |-> refcount, store |-> store, gc |-> GC, ok |-> TRUE]

\* AddMPTBatch with block index's changes, on top of node r of trie t
AddMPTBatch(t, r, index, ch) ==
  LET b == PutBatch(t, r, MapToMPTBatch(ch)) IN At(b.n, Flush(b.t, index))

Init ==
  /\ mode \in DOMAIN MaxBatch
  /\ root = EmptyNode /\ refcount = <<>> /\ store = <<>>
  /\ contents = <<>> /\ collected = 0 /\ panicked = FALSE

\* storeBlock: the changes go to the trie, which is collapsed when the block
\* before this one has been persisted already
storeBlock(ch, persisted) ==
  /\ ~panicked
  /\ Applied(Pairs, ch) # <<>>
  /\ LET b == AddMPTBatch(Trie, root, height + 1, ch) IN
     /\ root' = IF persisted THEN collapse(Depth, b.n) ELSE b.n
     /\ refcount' = IF persisted THEN <<>> ELSE b.t.rc
     /\ store' = b.t.store
     /\ panicked' = ~b.t.ok
  /\ contents' = Append(contents, Applied(Pairs, ch))
  /\ UNCHANGED <<mode, collected>>

\* the native contracts leave something in the genesis block
genesis == /\ contents = <<>>
           /\ \E m \in UNION {[S -> GenesisValues] : S \in (SUBSET Keys) \ {{}}} : storeBlock(m, FALSE)

block == /\ height + 1 \in DOMAIN MaxBatch[mode]
         /\ \E ch \in Changes(MaxBatch[mode][height + 1]), persisted \in BOOLEAN : storeBlock(ch, persisted)

\* a restart: Module.Init opens the trie at the root kept for the height,
\* and an empty one at height 0
restart ==
  /\ ~panicked
  /\ height >= MinRestart
  /\ root' = IF height = 0 THEN EmptyNode ELSE HashNode(Hash(root))
  /\ refcount' = <<>>
  /\ UNCHANGED <<mode, store, contents, collected, panicked>>

tryRunGC_bug(old, new) ==
  LET tgtBlock == new - MaxTraceableBlocks IN
  /\ ~panicked /\ GC
  /\ tgtBlock > GarbageCollectionPeriod
  /\ store' = [h \in {x \in DOMAIN store :
                        IsActiveValue(store[x]) \/ store[x].count > tgtBlock + 1} |-> store[h]]
  /\ collected' = tgtBlock
  /\ UNCHANGED <<mode, root, refcount, contents, panicked>>

\* tryRunGC after a persist that moved the persisted height from old to new
tryRunGC(old, new) ==
  LET tgtBlock == ((new - MaxTraceableBlocks) \div GarbageCollectionPeriod)
                    * GarbageCollectionPeriod IN
  /\ ~panicked /\ GC
  /\ tgtBlock > GarbageCollectionPeriod
  /\ new \div GarbageCollectionPeriod # old \div GarbageCollectionPeriod
  /\ store' = [h \in {x \in DOMAIN store :
                        IsActiveValue(store[x]) \/ store[x].count > tgtBlock} |-> store[h]]
  /\ collected' = tgtBlock
  /\ UNCHANGED <<mode, root, refcount, contents, panicked>>

Next ==
  \/ genesis
  \/ block
  \/ restart
  \/ \E new \in 1 .. height : \E old \in collected .. new - 1 : tryRunGC(old, new)

Spec == Init /\ [][Next]_vars

----------------------------------------------------------------------------
\* what the trie promises

\* the only trie for the pairs m: no branch with fewer than two children, no
\* empty extension and none below another
RECURSIVE Canon(_)
Canon(m) ==
  LET p == LongestCommonPrefix(DOMAIN m)
      under(q) == [x \in {Drop(k, Len(q)) : k \in {j \in DOMAIN m : IsPrefix(q, j)}} |->
                     m[q \o x]] IN
  CASE DOMAIN m = {} -> EmptyNode
    [] DOMAIN m = {<<>>} -> LeafNode(m[<<>>])
    [] DOMAIN m \notin {{}, {<<>>}} /\ p # <<>> -> ExtensionNode(p, Canon(under(p)))
    [] OTHER -> BranchNode([i \in Children |->
                  IF i # lastChild THEN Canon(under(<<i>>))
                  ELSE IF <<>> \in DOMAIN m THEN LeafNode(m[<<>>]) ELSE EmptyNode])

RECURSIVE Nodes(_)
Nodes(n) ==
  CASE n.type = "empty" -> {}
    [] n.type = "ext" -> {n} \union Nodes(n.next)
    [] n.type = "branch" -> {n} \union UNION {Nodes(n.children[i]) : i \in Children}
    [] OTHER -> {n}

\* how many times h occurs in n
RECURSIVE Occurs(_, _)
Occurs(h, n) ==
  (IF h = n THEN 1 ELSE 0) +
  CASE n.type = "ext" -> Occurs(h, n.next)
    [] n.type = "branch" -> MapThenSumSet(LAMBDA i : Occurs(h, n.children[i]), Children)
    [] OTHER -> 0

ValueAt(m, k) == IF k \in DOMAIN m THEN m[k] ELSE None

\* The heights whose states a node keeps: every one, the last one, or those
\* the garbage collection has not passed.
Kept == CASE mode = "all" -> 0 .. height
          [] mode = "latest" -> {height}
          [] OTHER -> collected .. height

\* No node is missing when the trie needs it, and no reference count becomes
\* negative, which updateRefCount would panic on.
NeverPanics == ~panicked

\* "There is a single root hash for every set of key-value pairs" (doc.go):
\* whatever batches, collapses and restarts led to it, the root a node keeps
\* is the one of the pairs in its storage.
RootIsContents == Hash(root) = Canon(Pairs)

\* With reference counts, the store has every node of the current trie, each
\* with as many references as it has parents in it, and none besides the
\* ones waiting for the garbage collection: PutBatch, mergeExtension and
\* stripBranch add and remove as many references as nodes, equal subtries at
\* several places included.
CountsAreReferences ==
  RC => LET now == Canon(Pairs) IN
        /\ Nodes(now) \subseteq DOMAIN store
        /\ \A h \in DOMAIN store :
             IF IsActiveValue(store[h]) THEN store[h].count = Occurs(h, now) /\ store[h].count > 0
                                        ELSE GC /\ h \notin Nodes(now)

\* Every state a node keeps is readable to the last key: Flush and GC remove
\* no node of the states from the height collected on, even when a node left
\* the trie and came back.
KeptIsReadable ==
  \A i \in Kept \intersect 0 .. height : \A k \in Keys :
    Get(store, Canon(contents[i + 1]), k) = ValueAt(contents[i + 1], k)

\* GetProof answers for exactly the keys present, its proof verifies for the
\* key with the value it has, and for another key gives its value or fails.
ProofsAreExact ==
  \A k \in Keys :
    LET p == GetProof(store, Hash(root), k) IN
    /\ p.ok <=> k \in DOMAIN Pairs
    /\ p.ok => VerifyProof(Hash(root), k, p.proof) = Pairs[k]
    /\ \A j \in Keys : VerifyProof(Hash(root), j, p.proof) \in {None, ValueAt(Pairs, j)}

\* Find returns the pairs whose key has the prefix and comes after from, each
\* once, and with a maximum the first of them, wherever from falls: on a key,
\* inside an extension, between two branches.
FindsTheRange ==
  \A prefix \in {SubSeq(k, 1, n) : k \in Keys, n \in {0, 2}} :
    \A from \in {NoPath, <<>>} \union {Drop(k, Len(prefix)) : k \in {j \in Keys : IsPrefix(prefix, j)}} :
      LET all == Find(store, Hash(root), prefix, from, Cardinality(Keys))
          due == {k \in DOMAIN Pairs : IsPrefix(prefix, k) /\
                    (from # NoPath => Less(from, Drop(k, Len(prefix))))} IN
      /\ {[key |-> prefix \o e.key, value |-> e.value] : e \in Range(all)}
           = {[key |-> k, value |-> Pairs[k]] : k \in due}
      /\ Len(all) = Cardinality(due)
      /\ Find(store, Hash(root), prefix, from, 1) = IF due = {} THEN <<>> ELSE <<all[1]>>

\* Put and Delete of one key leave the trie and the store that a batch with
\* this change alone leaves.
SingleIsBatch ==
  \A k \in Keys : \A v \in Values \union {None} :
    LET one == IF v = None THEN deleteFromNode(Trie, root, k)
                           ELSE putIntoNode(Trie, root, k, LeafNode(v))
        batch == AddMPTBatch(Trie, root, height + 1, k :> v) IN
    /\ Hash(one.n) = Hash(batch.n)
    /\ Flush(one.t, height + 1).store = batch.t.store

=============================================================================
