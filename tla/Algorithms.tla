----------------------------- MODULE Algorithms -----------------------------
(* The algorithms of the node that work alone on data of their own: the       *)
(* analysis of jump destinations, the trie of the state, the Merkle tree of a *)
(* block and the merge of a seek over two layers.  They are one run of the    *)
(* model checker; part names the one that a behaviour is of, the state of the *)
(* others stays.                                                              *)
EXTENDS Integers, Sequences, FiniteSets

CONSTANTS Keys, Nil

VARIABLES
    part,
    codeLen, pc, numbits, bits, inRange, pushed, pushData,
    mode, root, refcount, store, contents, collected, panicked,
    transactions,
    in, iMem, memKey, haveMem, iPs, out, at

----------------------------------------------------------------------------
(* The instances *)

\* The sizes of PUSH around those of the helpers, at every place in a byte.
Analysis == INSTANCE CodeBitmap WITH MaxLen <- 24, MaxPushes <- 2,
                Pushes <- {1, 2, 7, 8, 9, 15, 16, 17, 24, 31, 32},
                len <- codeLen, pushes <- pushed, data <- pushData

\* A key above others, two beside each other and one that shares its end.
\* One block of two changes, or three where the garbage collection runs.
TrieKeys == {<<0, 0>>, <<0, 1>>, <<0, 0, 0, 1>>, <<1, 0, 0, 1>>}
Trie == INSTANCE MPT WITH Nibble <- {0, 1}, Values <- {"v"}, GenesisValues <- {"w"},
            MaxBatch <- [all |-> <<2>>, latest |-> <<2>>, gc |-> <<0, 1, 1>>], Depth <- 1,
            MaxTraceableBlocks <- 1, GarbageCollectionPeriod <- 1, MinRestart <- 1

Tree == INSTANCE Merkle WITH Tx <- {"a", "b", "c"}, MaxTxs <- 7

Seek == INSTANCE SeekMerge WITH pc <- at, SeekKeys <- {<<0>>, <<0, 0>>, <<0, 1>>, <<1, 1>>}

----------------------------------------------------------------------------
analysisVars == <<codeLen, pc, numbits, bits, inRange, pushed, pushData>>
trieVars     == <<mode, root, refcount, store, contents, collected, panicked>>
treeVars     == <<transactions>>
seekVars     == <<in, iMem, memKey, haveMem, iPs, out, at>>
vars         == <<part, analysisVars, trieVars, treeVars, seekVars>>

\* The state of a part that does not run.
NoAnalysis == /\ codeLen = Nil /\ pc = Nil /\ numbits = Nil /\ bits = Nil /\ inRange = Nil
              /\ pushed = Nil /\ pushData = Nil
NoTrie     == /\ mode = Nil /\ root = Nil /\ refcount = Nil /\ store = Nil /\ contents = Nil
              /\ collected = Nil /\ panicked = Nil
NoTree     == transactions = Nil
NoSeek     == /\ in = Nil /\ iMem = Nil /\ memKey = Nil /\ haveMem = Nil /\ iPs = Nil
              /\ out = Nil /\ at = Nil

Init ==
    /\ part \in {"analysis", "trie", "tree", "seek"}
    /\ IF part = "analysis" THEN Analysis!Init ELSE NoAnalysis
    /\ IF part = "trie" THEN Trie!Init ELSE NoTrie
    /\ IF part = "tree" THEN Tree!Init ELSE NoTree
    /\ IF part = "seek" THEN Seek!Init ELSE NoSeek

Next ==
    /\ UNCHANGED part
    /\ \/ part = "analysis" /\ Analysis!Next /\ UNCHANGED <<trieVars, treeVars, seekVars>>
       \/ part = "trie" /\ Trie!Next /\ UNCHANGED <<analysisVars, treeVars, seekVars>>
       \/ part = "tree" /\ Tree!Next /\ UNCHANGED <<analysisVars, trieVars, seekVars>>
       \/ part = "seek" /\ Seek!Next /\ UNCHANGED <<analysisVars, trieVars, treeVars>>

Spec == Init /\ [][Next]_vars

----------------------------------------------------------------------------
\* codeBitmap: the marked positions are exactly the data of PUSH instructions,
\* and no write falls outside the vector.
MarksDataOnly == part = "analysis" => Analysis!MarksDataOnly /\ Analysis!WritesInRange

\* doc.go: "there is a single root hash for every set of key-value pairs", also
\* when Put and Delete made the changes one by one; GetProof and VerifyProof have
\* proofs for the keys present and only those, and Find returns its range.
RootIsContents ==
    part = "trie" => /\ Trie!RootIsContents /\ Trie!SingleIsBatch
                     /\ Trie!ProofsAreExact /\ Trie!FindsTheRange

\* addRef, removeRef, Flush and GC: a node has as many references as parents, no
\* count is negative, and every state that is kept can be read to the last key.
KeptIsReadable ==
    part = "trie" => Trie!NeverPanics /\ Trie!CountsAreReferences /\ Trie!KeptIsReadable

\* NewMerkleTree, CalcMerkleRoot, Prove and CalcProofRoot: both give the same
\* root, and proofs are of members, and of every member.
ProofsAreOfMembers == part = "tree" => Tree!RootsAgree /\ Tree!ProofsAreOfMembers

\* MemCachedStore.Seek: both layers in order, nothing twice, nothing left out.
SeekReturnsRange == part = "seek" => Seek!TypeOK /\ Seek!SeekReturnsRange
=============================================================================
