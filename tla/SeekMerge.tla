----------------------------- MODULE SeekMerge ------------------------------
(***************************************************************************)
(* MemCachedStore.seek: the entries of the cache, sorted, are merged with  *)
(* those the lower store hands to mergeFunc one by one.                    *)
(*                                                                         *)
(* A key is a sequence of bytes.  A value is the layer it comes from.  The *)
(* caller may stop the seek after any entry: its function returns false,   *)
(* or the context is cancelled.                                            *)
(***************************************************************************)
EXTENDS Naturals, Sequences, SequencesExt, FiniteSets

CONSTANT
    SeekKeys   \* the keys of both layers

VARIABLES
    in,      \* the cache, the lower store and the arguments
    iMem,    \* kvMem is memRes[iMem - 1]
    memKey,  \* kvMem.Key, <<>> before there is one
    haveMem,
    iPs,     \* entries the lower store has handed over
    out,     \* entries given to f
    pc       \* "merge", "drain" or "done"

vars == <<in, iMem, memKey, haveMem, iPs, out, pc>>

\* mem: the cached keys and whether each exists; ps: keys of the lower store;
\* db: the lower store is LevelDB or BoltDB rather than a MemoryStore.
\* LevelDB is not sought backwards from a start, and the prefix is only cut
\* where no key of the lower store is what the cut leaves of a cached one: the
\* node performs no other seeks.
Input ==
    {i \in UNION {[mem : [M -> BOOLEAN], ps : SUBSET SeekKeys, db : BOOLEAN,
                   prefix : {<<0>>}, start : {<<>>, <<1>>}, backwards : BOOLEAN,
                   cutPrefix : BOOLEAN] : M \in SUBSET SeekKeys} :
        /\ i.db => ~i.backwards \/ i.start = <<>>
        /\ i.cutPrefix => \A k \in DOMAIN i.mem, l \in i.ps :
                             IsPrefix(i.prefix, l) => k # i.prefix \o l}

\* bytes.Compare
Less(a, b) ==
    \/ IsStrictPrefix(a, b)
    \/ \E i \in 1 .. Len(a) : /\ i <= Len(b) /\ a[i] < b[i]
                              /\ SubSeq(a, 1, i - 1) = SubSeq(b, 1, i - 1)

Suffix(key) == SubSeq(key, Len(in.prefix) + 1, Len(key))

isKeyOK(key) ==
    /\ IsPrefix(in.prefix, key)
    /\ \/ in.start = <<>>
       \/ Suffix(key) = in.start
       \/ IF in.backwards THEN Less(Suffix(key), in.start) ELSE Less(in.start, Suffix(key))

\* seekRangeToPrefixes: backwards, the limit is the end of the keys that have
\* prefix and start as a prefix.
inRange(key) ==
    IF in.db /\ in.backwards
    THEN IsPrefix(in.prefix, key) /\ (Less(key, in.prefix \o in.start)
                                      \/ IsPrefix(in.prefix \o in.start, key))
    ELSE isKeyOK(key)

less(k1, k2) == IF in.backwards THEN Less(k2, k1) ELSE Less(k1, k2)

Sorted(keys) == SetToSortSeq(keys, less)

memRes == Sorted({k \in DOMAIN in.mem : isKeyOK(k)})
psRes == Sorted({k \in in.ps : inRange(k)})

Cut(key) == IF in.cutPrefix THEN Suffix(key) ELSE key

Init ==
    /\ in \in Input
    /\ memKey = (IF memRes = <<>> THEN <<>> ELSE memRes[1])
    /\ haveMem = (memRes # <<>>)
    /\ iMem = IF memRes = <<>> THEN 1 ELSE 2
    /\ iPs = 0 /\ out = <<>> /\ pc = "merge"

Emit(key, layer) == out' = Append(out, <<Cut(key), layer>>)

-----------------------------------------------------------------------------
(* The loop of mergeFunc, for the entry psRes[iPs + 1]. *)

\* Variant of MergeMem: an entry that marks a deletion ends the cached ones.
MergeMem_bug ==
    /\ pc = "merge" /\ iPs < Len(psRes)
    /\ haveMem /\ less(memKey, psRes[iPs + 1])
    /\ IF in.mem[memKey] THEN Emit(memKey, "mem") ELSE UNCHANGED out
    /\ haveMem' = (iMem <= Len(memRes) /\ in.mem[memKey])
    /\ memKey' = (IF haveMem' THEN memRes[iMem] ELSE memKey)
    /\ iMem' = iMem + (IF haveMem' THEN 1 ELSE 0)
    /\ UNCHANGED <<in, iPs, pc>>

\* The cached entry comes first.  Cutting its prefix leaves memKey cut when
\* no cached entry follows.
MergeMem ==
    /\ pc = "merge" /\ iPs < Len(psRes)
    /\ haveMem /\ less(memKey, psRes[iPs + 1])
    /\ IF in.mem[memKey] THEN Emit(memKey, "mem") ELSE UNCHANGED out
    /\ IF iMem <= Len(memRes)
       THEN memKey' = memRes[iMem] /\ haveMem' = TRUE /\ iMem' = iMem + 1
       ELSE /\ haveMem' = FALSE /\ UNCHANGED iMem
            /\ memKey' = IF in.mem[memKey] THEN Cut(memKey) ELSE memKey
    /\ UNCHANGED <<in, iPs, pc>>

\* The lower entry comes first, or is hidden by the cached one.
MergePs ==
    /\ pc = "merge" /\ iPs < Len(psRes)
    /\ ~(haveMem /\ less(memKey, psRes[iPs + 1]))
    /\ IF memKey # psRes[iPs + 1] THEN Emit(psRes[iPs + 1], "ps") ELSE UNCHANGED out
    /\ iPs' = iPs + 1
    /\ UNCHANGED <<in, iMem, memKey, haveMem, pc>>

\* ps.Seek returns; iMem goes back to the cached entry not yet given to f.
SeekReturns ==
    /\ pc = "merge" /\ iPs = Len(psRes)
    /\ pc' = IF haveMem THEN "drain" ELSE "done"
    /\ iMem' = iMem - (IF haveMem THEN 1 ELSE 0)
    /\ UNCHANGED <<in, memKey, haveMem, iPs, out>>

Drain ==
    /\ pc = "drain"
    /\ IF iMem <= Len(memRes)
       THEN /\ IF in.mem[memRes[iMem]] THEN Emit(memRes[iMem], "mem") ELSE UNCHANGED out
            /\ iMem' = iMem + 1 /\ UNCHANGED pc
       ELSE pc' = "done" /\ UNCHANGED <<iMem, out>>
    /\ UNCHANGED <<in, memKey, haveMem, iPs>>

\* f returns false or the context is done.
Stop ==
    /\ pc \in {"merge", "drain"}
    /\ pc' = "stopped"
    /\ UNCHANGED <<in, iMem, memKey, haveMem, iPs, out>>

Next == MergeMem \/ MergePs \/ SeekReturns \/ Drain \/ Stop

Spec == Init /\ [][Next]_vars

-----------------------------------------------------------------------------
\* The positions stay within the two sorted lists.
TypeOK ==
    /\ iMem \in 1 .. Len(memRes) + 1
    /\ iPs \in 0 .. Len(psRes)
    /\ haveMem \in BOOLEAN
    /\ pc \in {"merge", "drain", "done", "stopped"}

\* What the two layers hold in the range, by the documented meaning of
\* SeekRange: cached entries hide lower ones, and deleted keys are left out.
Expected ==
    LET live == {k \in in.ps \cup DOMAIN in.mem :
                    isKeyOK(k) /\ (k \in DOMAIN in.mem => in.mem[k])}
        keys == Sorted(live)
    IN [i \in 1 .. Len(keys) |->
           <<Cut(keys[i]), IF keys[i] \in DOMAIN in.mem THEN "mem" ELSE "ps">>]

\* "Seek can guarantee that key-value items are sorted by key": f receives the
\* entries of both layers in order, none twice and none left out, and all of
\* them unless the caller stops the seek.
SeekReturnsRange ==
    /\ IsPrefix(out, Expected)
    /\ pc = "done" => out = Expected
=============================================================================
