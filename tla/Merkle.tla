------------------------------- MODULE Merkle -------------------------------
(***************************************************************************)
(* The Merkle trees over the transactions of a block: the root computed in *)
(* place in the slice of hashes, the tree of linked nodes with the proofs  *)
(* it gives, and the check of a proof by the bridge.                       *)
(*                                                                         *)
(* A hash is collision-free: that of two nodes is the pair of theirs.  A   *)
(* node of the linked tree is its level, counted from the leaves, and its  *)
(* place there; the lone last node of a level is both children of its      *)
(* parent.                                                                 *)
(***************************************************************************)
EXTENDS Integers, Sequences, SequencesExt, FiniteSetsExt

CONSTANTS Tx,               \* hashes of transactions
          MaxTxs            \* bound: transactions in a block

VARIABLE transactions
vars == <<transactions>>

DoubleSha256(a, b) == [type |-> "node", left |-> a, right |-> b]
ZeroHash == [type |-> "zero"]
Leaf(tx) == [type |-> "leaf", tx |-> tx]

half(n) == (n + 1) \div 2

----------------------------------------------------------------------------
\* one pass of CalcMerkleRoot over the slice: parents[i] is written where
\* hashes[i] was, while later pairs are still to be read
RECURSIVE scratchpad(_, _)
scratchpad(hashes, i) ==
  IF i = half(Len(hashes)) THEN hashes
  ELSE scratchpad([hashes EXCEPT ![i + 1] =
         DoubleSha256(hashes[i * 2 + 1],
                      IF i * 2 + 1 = Len(hashes) THEN hashes[i * 2 + 1] ELSE hashes[i * 2 + 2])], i + 1)

RECURSIVE CalcMerkleRoot(_)
CalcMerkleRoot(hashes) ==
  CASE Len(hashes) = 0 -> ZeroHash
    [] Len(hashes) = 1 -> hashes[1]
    [] OTHER -> CalcMerkleRoot(SubSeq(scratchpad(hashes, 0), 1, half(Len(hashes))))

ComputeMerkleRoot(txs) == CalcMerkleRoot([i \in DOMAIN txs |-> Leaf(txs[i])])

----------------------------------------------------------------------------
\* the levels of the tree of linked nodes, the leaves first
RECURSIVE buildMerkleTree(_)
buildMerkleTree(levels) ==
  LET leaves == Last(levels) IN
  IF Len(leaves) = 1 THEN levels
  ELSE buildMerkleTree(Append(levels, [i \in 1 .. half(Len(leaves)) |->
         DoubleSha256(leaves[2 * i - 1],
                      leaves[IF 2 * i - 1 = Len(leaves) THEN 2 * i - 1 ELSE 2 * i])]))

NewMerkleTree(txs) == buildMerkleTree(<<[i \in DOMAIN txs |-> Leaf(txs[i])]>>)

Root(tree) == Last(tree)[1]

\* the depth-first search of Prove pushes the left child first and so finds
\* the last leaf with the target
target(tree, h) ==
  LET found == {i \in DOMAIN tree[1] : tree[1][i] = h} IN IF found = {} THEN 0 ELSE Max(found)

\* what Prove adds for the node at place i of a level: bit 1 for a left child
sibling(level, i) ==
  [left |-> i % 2 = 1, hash |-> level[IF i % 2 = 0 THEN i - 1 ELSE Min({i + 1, Len(level)})]]

RECURSIVE climb(_, _, _)
climb(tree, depth, i) ==
  IF depth = Len(tree) THEN <<>>
  ELSE <<sibling(tree[depth], i)>> \o climb(tree, depth + 1, half(i))

Prove(tree, h) == climb(tree, 1, target(tree, h))

\* hashes and path bits of a proof, folded from the target up
CalcProofRoot_bug(h, proof) ==
  FoldLeft(LAMBDA parent, p : DoubleSha256(parent, p.hash), h, proof)

CalcProofRoot(h, proof) ==
  FoldLeft(LAMBDA parent, p : IF p.left THEN DoubleSha256(parent, p.hash)
                                        ELSE DoubleSha256(p.hash, parent), h, proof)

VerifyMerkleProof(root, h, proof) == root = CalcProofRoot(h, proof)

----------------------------------------------------------------------------
Init == transactions = <<>>

\* the transactions of a block, in any order and number
AddTx ==
  /\ Len(transactions) < MaxTxs
  /\ \E tx \in Tx : transactions' = Append(transactions, tx)

Next == AddTx

Spec == Init /\ [][Next]_vars

----------------------------------------------------------------------------
\* The root that a block's header carries, computed in its own scratchpad, is
\* the root of the tree of linked nodes for every list of transactions, of odd
\* lengths at any level too: overwriting never reaches an unread hash.
RootsAgree ==
  transactions # <<>> => ComputeMerkleRoot(transactions) = Root(NewMerkleTree(transactions))

\* The bridge accepts the proof of every transaction of the block, the one
\* that is its own sibling included, and of no other transaction: neither the
\* proof of one transaction nor its path with another place's bits carries
\* over to a transaction that is not there.
ProofsAreOfMembers ==
  transactions # <<>> =>
    LET tree == NewMerkleTree(transactions)
        root == ComputeMerkleRoot(transactions)
    IN  /\ \A tx \in Range(transactions) : VerifyMerkleProof(root, Leaf(tx), Prove(tree, Leaf(tx)))
        /\ \A tx \in Range(transactions), other \in Tx \ Range(transactions) :
             LET proof == Prove(tree, Leaf(tx)) IN
             \A path \in [DOMAIN proof -> BOOLEAN] :
               ~VerifyMerkleProof(root, Leaf(other), [i \in DOMAIN proof |-> [proof[i] EXCEPT !.left = path[i]]])
=============================================================================
