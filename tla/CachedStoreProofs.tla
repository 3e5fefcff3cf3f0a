------------------------- MODULE CachedStoreProofs --------------------------
(***************************************************************************)
(* The write cache implements KVStore, and its seeks return what was       *)
(* there, for every set of keys and values, any number of seeks and any    *)
(* number of crashes.                                                      *)
(***************************************************************************)
EXTENDS CachedStore, TLAPS

\* What a map shows on top of full contents is full contents.
LEMMA OverType ==
    ASSUME NEW m \in Map, NEW base \in [Key -> Item]
    PROVE  Over(m, base) \in [Key -> Item]
BY DEF Over, Map

\* Maps are closed under merging.
LEMMA MergeType ==
    ASSUME NEW m \in Map, NEW changes \in Map
    PROVE  Merge(m, changes) \in Map
BY DEF Merge, Map

\* A change set merged into a map shows through it as it does on top of it.
LEMMA OverMerge ==
    ASSUME NEW m, NEW changes, NEW base
    PROVE  Over(Merge(m, changes), base) = Over(changes, Over(m, base))
BY DEF Over, Merge

\* Contents that were written to the database do not change by lying above it
\* as well.
LEMMA OverTwice ==
    ASSUME NEW m, NEW base
    PROVE  Over(m, Over(m, base)) = Over(m, base)
BY DEF Over

\* An empty map shows what is below it.
LEMMA OverEmpty ==
    ASSUME NEW base \in [Key -> Item]
    PROVE  Over(Empty, base) = base
BY DEF Over, Empty

\* The empty map is a map.
LEMMA EmptyType == Empty \in Map
BY DEF Empty, Map

\* A seek that has not begun is well formed.
LEMMA NoSeekType == NoSeek \in SeekState
BY EmptyType DEF NoSeek, SeekState

\* Watching, releasing a tempstore and moving a seek to one keep the seeks
\* well formed.
LEMMA SeekType ==
    ASSUME seek \in [Seeker -> SeekState]
    PROVE  /\ \A view \in [Key -> Item] : Watch(view) \in [Seeker -> SeekState]
           /\ temp \in Map => Release("kept") \in [Seeker -> SeekState]
           /\ Release("mem") \in [Seeker -> SeekState]
<1>1. ASSUME NEW view \in [Key -> Item] PROVE Watch(view) \in [Seeker -> SeekState]
  <2>1. ASSUME NEW t \in Seeker
        PROVE  [seek[t] EXCEPT !.window = [k \in Key |-> @[k] \cup {view[k]}]] \in SeekState
    BY <1>1, <2>1 DEF SeekState
  <2>. QED BY <1>1, <2>1 DEF Watch
<1>2. ASSUME temp \in Map PROVE Release("kept") \in [Seeker -> SeekState]
  BY <1>2, ZenonT(40) DEF Release, SeekState
<1>3. Release("mem") \in [Seeker -> SeekState]
  BY ZenonT(40) DEF Release, SeekState
<1>. QED BY <1>1, <1>2, <1>3

\* Init satisfies the type invariant.
LEMMA InitType == Init => TypeOK
<1>. SUFFICES ASSUME Init PROVE TypeOK
  OBVIOUS
<1>1. disk \in [Key -> Item] /\ mem \in Map
  BY EmptyType DEF Init, Item
<1>2. seek \in [Seeker -> SeekState]
  BY NoSeekType DEF Init
<1>3. crashes \in 0 .. MaxCrashes
  BY BoundAssumption DEF Init
<1>4. sync \in BOOLEAN /\ tick \in BOOLEAN
  BY Zenon DEF Init
<1>5. temp = Nil /\ persist = "idle"
  BY DEF Init
<1>. QED BY <1>1, <1>2, <1>3, <1>4, <1>5 DEF TypeOK

\* The layers below the cache show full contents.
LEMMA LowerType == TypeOK => Lower \in [Key -> Item] /\ View \in [Key -> Item]
BY OverType DEF TypeOK, Lower, View

\* Every step keeps the type invariant.
LEMMA NextType == TypeOK /\ SeekInv /\ [Next]_vars => TypeOK'
<1>. SUFFICES ASSUME TypeOK, SeekInv, [Next]_vars PROVE TypeOK'
  OBVIOUS
<1>. USE DEF TypeOK
<1>1. ASSUME NEW changes \in Map, PutChangeSet(changes) PROVE TypeOK'
  <2>1. mem' \in Map
    BY <1>1, MergeType DEF PutChangeSet
  <2>2. Over(mem', Lower) \in [Key -> Item]
    BY <2>1, LowerType, OverType
  <2>3. seek' \in [Seeker -> SeekState]
    BY <1>1, <2>2, SeekType DEF PutChangeSet
  <2>. QED BY <1>1, <2>1, <2>3 DEF PutChangeSet
<1>2. ASSUME NEW isSync \in BOOLEAN, PersistBegin(isSync) PROVE TypeOK'
  <2>1. ASSUME NEW t \in Seeker PROVE [seek[t] EXCEPT !.low = "temp"] \in SeekState
    BY <2>1, ZenonT(40) DEF SeekState
  <2>2. seek' \in [Seeker -> SeekState]
    BY <1>2, <2>1 DEF PersistBegin
  <2>. QED BY <1>2, <2>2, EmptyType DEF PersistBegin
<1>3. CASE PersistWrite
  BY <1>3, OverType DEF PersistWrite
<1>4. CASE PersistFail
  BY <1>4 DEF PersistFail
<1>5. CASE PersistEnd
  BY <1>5, SeekType, Zenon DEF PersistEnd
<1>6. CASE PersistUndo
  BY <1>6, SeekType, MergeType, Zenon DEF PersistUndo
<1>7. ASSUME NEW t \in Seeker, SeekBegin(t) PROVE TypeOK'
  <2>1. [k \in Key |-> {View[k]}] \in [Key -> SUBSET Item]
    BY LowerType
  <2>2. [NoSeek EXCEPT !.phase = "started", !.own = mem,
                       !.low = IF temp = Nil THEN "disk" ELSE "temp",
                       !.window = [k \in Key |-> {View[k]}]] \in SeekState
    BY <2>1, NoSeekType, Zenon DEF SeekState
  <2>3. seek' \in [Seeker -> SeekState]
    BY <1>7, <2>2 DEF SeekBegin
  <2>. QED BY <1>7, <2>3 DEF SeekBegin
<1>8. ASSUME NEW t \in Seeker, SeekTemp(t) PROVE TypeOK'
  <2>. DEFINE lower == CASE seek[t].low = "temp" -> temp
                         [] seek[t].low = "mem" -> mem [] OTHER -> seek[t].kept
  <2>1. seek[t] \in SeekState
    OBVIOUS
  <2>2. lower \in Map
    BY <2>1 DEF SeekInv, SeekState
  <2>3. Merge(lower, seek[t].own) \in Map
    BY <2>1, <2>2, MergeType DEF SeekState
  <2>4. [seek[t] EXCEPT !.phase = "lower", !.own = Merge(lower, seek[t].own)] \in SeekState
    BY <2>1, <2>3, Zenon DEF SeekState
  <2>5. seek' = [seek EXCEPT ![t] = [seek[t] EXCEPT !.phase = "lower",
                                                    !.own = Merge(lower, seek[t].own)]]
    BY <1>8, <2>1, Zenon DEF SeekTemp, SeekState
  <2>. QED BY <1>8, <2>4, <2>5 DEF SeekTemp
<1>9. ASSUME NEW t \in Seeker, SeekDisk(t) PROVE TypeOK'
  <2>1. seek[t] \in SeekState
    OBVIOUS
  <2>2. Over(seek[t].own, disk) \in Map
    BY <2>1, OverType DEF SeekState, Map
  <2>3. [seek[t] EXCEPT !.phase = "done", !.res = Over(seek[t].own, disk)] \in SeekState
    BY <2>1, <2>2, Zenon DEF SeekState
  <2>4. seek' = [seek EXCEPT ![t] = [seek[t] EXCEPT !.phase = "done",
                                                    !.res = Over(seek[t].own, disk)]]
    BY <1>9, <2>1, Zenon DEF SeekDisk, SeekState
  <2>. QED BY <1>9, <2>3, <2>4 DEF SeekDisk
<1>10. ASSUME NEW t \in Seeker, SeekEnd(t) PROVE TypeOK'
  BY <1>10, NoSeekType DEF SeekEnd
<1>11. CASE Crash
  <2>1. seek' \in [Seeker -> SeekState] /\ mem' \in Map
    BY <1>11, NoSeekType, EmptyType DEF Crash
  <2>2. crashes' \in 0 .. MaxCrashes
    BY <1>11, BoundAssumption DEF Crash
  <2>3. sync' \in BOOLEAN /\ tick' \in BOOLEAN /\ temp' = Nil /\ persist' = "idle" /\ disk' = disk
    BY <1>11, Zenon DEF Crash
  <2>. QED BY <2>1, <2>2, <2>3
<1>12. CASE UNCHANGED vars
  BY <1>12 DEF vars
<1>. QED BY <1>1, <1>2, <1>3, <1>4, <1>5, <1>6, <1>7, <1>8, <1>9, <1>10, <1>11, <1>12 DEF Next

-----------------------------------------------------------------------------
\* Once the batch is written, the tempstore hides nothing of the database.
WrittenInv == persist = "written" => Over(temp, disk) = disk

\* Every step keeps WrittenInv.
LEMMA NextWritten == WrittenInv /\ [Next]_vars => WrittenInv'
<1>. SUFFICES ASSUME WrittenInv, [Next]_vars PROVE WrittenInv'
  OBVIOUS
<1>1. CASE PersistWrite
  BY <1>1, OverTwice DEF PersistWrite, WrittenInv
<1>2. ASSUME NEW changes, PutChangeSet(changes) PROVE WrittenInv'
  BY <1>2 DEF PutChangeSet, WrittenInv
<1>3. ASSUME NEW t, SeekBegin(t) \/ SeekTemp(t) \/ SeekDisk(t) \/ SeekEnd(t)
      PROVE  WrittenInv'
  BY <1>3 DEF SeekBegin, SeekTemp, SeekDisk, SeekEnd, WrittenInv
<1>4. ASSUME NEW isSync, PersistBegin(isSync) PROVE WrittenInv'
  BY <1>4 DEF PersistBegin, WrittenInv
<1>5. CASE PersistFail \/ PersistEnd \/ PersistUndo \/ Crash \/ UNCHANGED vars
  BY <1>5 DEF PersistFail, PersistEnd, PersistUndo, Crash, vars, WrittenInv
<1>. QED BY <1>1, <1>2, <1>3, <1>4, <1>5 DEF Next

\* Only writers and a crash change what the store shows.
LEMMA ViewStays ==
    ASSUME TypeOK, WrittenInv,
           \/ \E isSync \in BOOLEAN : PersistBegin(isSync)
           \/ PersistWrite \/ PersistFail \/ PersistEnd \/ PersistUndo
           \/ \E t \in Seeker : SeekBegin(t) \/ SeekTemp(t) \/ SeekDisk(t) \/ SeekEnd(t)
           \/ UNCHANGED vars
    PROVE  View' = View
<1>0. /\ View \in [Key -> Item] /\ Lower \in [Key -> Item]
      /\ persist # "idle" => temp \in Map /\ temp # Nil /\ Over(temp, disk) \in [Key -> Item]
      /\ persist = "idle" => temp = Nil
  BY LowerType, OverType, MarksAssumption DEF TypeOK
<1>1. ASSUME NEW isSync \in BOOLEAN, PersistBegin(isSync) PROVE View' = View
  <2>1. temp = Nil /\ Lower = disk /\ View = Over(mem, disk)
    BY <1>0, <1>1 DEF PersistBegin, Lower, View
  <2>2. Lower' = Over(mem, disk)
    BY <1>1, MarksAssumption DEF PersistBegin, Lower, TypeOK
  <2>. QED BY <1>0, <1>1, <2>1, <2>2, OverEmpty DEF PersistBegin, View
<1>2. CASE PersistWrite
  <2>1. Lower = Over(temp, disk) /\ Lower' = Over(temp, Over(temp, disk))
    BY <1>0, <1>2 DEF PersistWrite, Lower
  <2>. QED BY <1>2, <2>1, OverTwice DEF PersistWrite, View
<1>3. CASE PersistFail \/ UNCHANGED vars
  BY <1>3 DEF PersistFail, vars, View, Lower
<1>4. CASE PersistEnd
  <2>1. Lower = disk /\ Lower' = disk
    BY <1>0, <1>4 DEF PersistEnd, Lower, WrittenInv
  <2>. QED BY <1>4, <2>1 DEF PersistEnd, View
<1>5. CASE PersistUndo
  <2>1. Lower = Over(temp, disk) /\ Lower' = disk
    BY <1>0, <1>5 DEF PersistUndo, Lower
  <2>. QED BY <1>5, <2>1, OverMerge DEF PersistUndo, View
<1>6. ASSUME NEW t \in Seeker, SeekBegin(t) \/ SeekTemp(t) \/ SeekDisk(t) \/ SeekEnd(t)
      PROVE  View' = View
  BY <1>6, Zenon DEF SeekBegin, SeekTemp, SeekDisk, SeekEnd, View, Lower
<1>. QED BY <1>1, <1>2, <1>3, <1>4, <1>5, <1>6

-----------------------------------------------------------------------------
\* What a map shows for one key.
LEMMA OverAt ==
    ASSUME NEW m, NEW base, NEW k \in Key
    PROVE  Over(m, base)[k] = IF m[k] = Absent THEN base[k] ELSE m[k]
BY DEF Over

\* A seek whose window grew, while the layers stayed, has still seen all.
LEMMA WindowGrows ==
    ASSUME NEW s, NEW r, NEW view, NEW later, NEW d, NEW tm,
           r.phase = s.phase, r.own = s.own, r.low = s.low, r.kept = s.kept, r.res = s.res,
           \A k \in Key : s.window[k] \subseteq r.window[k],
           s.phase \in {"started", "lower"} => \A k \in Key : later[k] \in r.window[k],
           SeekFits(s, view, d, tm)
    PROVE  SeekFits(r, later, d, tm)
BY DEF SeekFits, LowerFits, DiskFits

\* The seeks under way see what a writer writes.
LEMMA PutSeek ==
    ASSUME TypeOK, SeekInv, NEW changes \in Map, PutChangeSet(changes)
    PROVE  SeekInv'
<1>. SUFFICES ASSUME NEW t \in Seeker
              PROVE  /\ seek'[t].low = "temp" => temp' # Nil
                     /\ seek'[t].low = "mem" => temp' = Nil
                     /\ SeekFits(seek'[t], View', disk', temp')
  BY DEF SeekInv
<1>. DEFINE s == seek[t]
            r == seek'[t]
            view == Over(mem', Lower)
<1>1. s \in SeekState /\ temp' = temp /\ disk' = disk /\ View' = view
  BY DEF TypeOK, PutChangeSet, View, Lower
<1>2. r = IF s.phase \in {"started", "lower"}
          THEN [s EXCEPT !.window = [k \in Key |-> s.window[k] \cup {view[k]}]] ELSE s
  BY DEF PutChangeSet, Watch
<1>3. /\ r.phase = s.phase /\ r.own = s.own /\ r.low = s.low /\ r.kept = s.kept /\ r.res = s.res
      /\ \A k \in Key : s.window[k] \subseteq r.window[k]
      /\ s.phase \in {"started", "lower"} => \A k \in Key : view[k] \in r.window[k]
  BY <1>1, <1>2 DEF SeekState
<1>4. SeekFits(s, View, disk, temp) /\ (s.low = "temp" => temp # Nil) /\ (s.low = "mem" => temp = Nil)
  BY DEF SeekInv
<1>. HIDE DEF s, r, view
<1>5. SeekFits(r, view, disk, temp)
  BY <1>3, <1>4, WindowGrows
<1>. QED BY <1>1, <1>3, <1>4, <1>5 DEF r

\* A new tempstore holds what the store shows over the database.
LEMMA BeginSeek ==
    ASSUME TypeOK, WrittenInv, SeekInv, NEW isSync \in BOOLEAN, PersistBegin(isSync)
    PROVE  SeekInv'
<1>. SUFFICES ASSUME NEW t \in Seeker
              PROVE  /\ seek'[t].low = "temp" => temp' # Nil
                     /\ seek'[t].low = "mem" => temp' = Nil
                     /\ SeekFits(seek'[t], View', disk', temp')
  BY DEF SeekInv
<1>. DEFINE s == seek[t]
            r == seek'[t]
<1>1. /\ s \in SeekState /\ temp = Nil /\ temp' = mem /\ temp' # Nil /\ disk' = disk /\ View' = View
      /\ View = Over(mem, disk)
  <2>1. View' = View
    BY ViewStays
  <2>. QED BY <2>1, MarksAssumption DEF TypeOK, PersistBegin, View, Lower
<1>2. r = IF s.low = "mem" THEN [s EXCEPT !.low = "temp"] ELSE s
  BY DEF PersistBegin
<1>3. /\ r.phase = s.phase /\ r.own = s.own /\ r.kept = s.kept /\ r.res = s.res /\ r.window = s.window
      /\ r.low = IF s.low = "mem" THEN "temp" ELSE s.low
  BY <1>1, <1>2 DEF SeekState
<1>4. SeekFits(s, View, disk, temp) /\ (s.low = "temp" => temp # Nil)
  BY DEF SeekInv
<1>. HIDE DEF s, r
<1>5. SeekFits(r, View, disk, mem)
  BY <1>1, <1>3, <1>4 DEF SeekFits, LowerFits, DiskFits
<1>. QED BY <1>1, <1>3, <1>4, <1>5 DEF r

\* What the batch leaves in the database every seek has seen.
LEMMA WriteSeek ==
    ASSUME TypeOK, WrittenInv, SeekInv, PersistWrite
    PROVE  SeekInv'
<1>1. /\ UNCHANGED <<temp, seek>> /\ disk' = Over(temp, disk) /\ View' = View /\ temp # Nil
      /\ Over(temp, disk') = disk'
  <2>1. View' = View
    BY ViewStays, Zenon
  <2>. QED BY <2>1, OverTwice, MarksAssumption DEF TypeOK, PersistWrite
<1>2. ASSUME NEW t \in Seeker PROVE SeekFits(seek[t], View, disk', temp)
  <2>1. SeekFits(seek[t], View, disk, temp)
    BY DEF SeekInv
  <2>. QED BY <1>1, <2>1, OverAt DEF SeekFits, LowerFits, DiskFits
<1>. QED BY <1>1, <1>2 DEF SeekInv

\* A seek is left with a tempstore whose batch is in the database.
LEMMA EndSeek ==
    ASSUME TypeOK, WrittenInv, SeekInv, PersistEnd
    PROVE  SeekInv'
<1>. SUFFICES ASSUME NEW t \in Seeker
              PROVE  /\ seek'[t].low = "temp" => temp' # Nil
                     /\ seek'[t].low = "mem" => temp' = Nil
                     /\ SeekFits(seek'[t], View', disk', temp')
  BY DEF SeekInv
<1>. DEFINE s == seek[t]
            r == seek'[t]
<1>1. /\ s \in SeekState /\ temp # Nil /\ temp' = Nil /\ disk' = disk /\ View' = View
      /\ Over(temp, disk) = disk
  <2>1. View' = View
    BY ViewStays
  <2>. QED BY <2>1, MarksAssumption DEF TypeOK, PersistEnd, WrittenInv
<1>2. r = IF s.low = "temp" THEN [s EXCEPT !.low = "kept", !.kept = temp] ELSE s
  BY <1>1, Zenon DEF PersistEnd, Release, SeekState
<1>3. /\ r.phase = s.phase /\ r.own = s.own /\ r.res = s.res /\ r.window = s.window
      /\ IF s.low = "temp" THEN r.low = "kept" /\ r.kept = temp ELSE r.low = s.low /\ r.kept = s.kept
  BY <1>1, <1>2 DEF SeekState
<1>4. SeekFits(s, View, disk, temp)
  BY DEF SeekInv
<1>. HIDE DEF s, r
<1>5. SeekFits(r, View, disk, Nil)
  BY <1>1, <1>3, <1>4, OverAt DEF SeekFits, LowerFits, DiskFits
<1>. QED BY <1>1, <1>3, <1>5 DEF r

\* After a failed persist a seek reads the map of the cache.
LEMMA UndoSeek ==
    ASSUME TypeOK, WrittenInv, SeekInv, PersistUndo
    PROVE  SeekInv'
<1>. SUFFICES ASSUME NEW t \in Seeker
              PROVE  /\ seek'[t].low = "temp" => temp' # Nil
                     /\ seek'[t].low = "mem" => temp' = Nil
                     /\ SeekFits(seek'[t], View', disk', temp')
  BY DEF SeekInv
<1>. DEFINE s == seek[t]
            r == seek'[t]
<1>1. s \in SeekState /\ temp' = Nil /\ disk' = disk /\ View' = View
  <2>1. View' = View
    BY ViewStays
  <2>. QED BY <2>1 DEF TypeOK, PersistUndo
<1>2. r = IF s.low = "temp" THEN [s EXCEPT !.low = "mem"] ELSE s
  BY <1>1, Zenon DEF PersistUndo, Release, SeekState
<1>3. /\ r.phase = s.phase /\ r.own = s.own /\ r.res = s.res /\ r.window = s.window /\ r.kept = s.kept
      /\ r.low = IF s.low = "temp" THEN "mem" ELSE s.low
  BY <1>1, <1>2 DEF SeekState
<1>4. SeekFits(s, View, disk, temp)
  BY DEF SeekInv
<1>. HIDE DEF s, r
<1>5. SeekFits(r, View, disk, Nil)
  BY <1>1, <1>3, <1>4 DEF SeekFits, LowerFits, DiskFits
<1>. QED BY <1>1, <1>3, <1>5 DEF r

\* One seek goes on; the others see no difference.
LEMMA OneSeek ==
    ASSUME TypeOK, SeekInv, NEW t \in Seeker, NEW r, seek' = [seek EXCEPT ![t] = r],
           UNCHANGED <<mem, temp, disk>>,
           r.low = "temp" => temp # Nil, r.low = "mem" => temp = Nil,
           SeekFits(r, View, disk, temp)
    PROVE  SeekInv'
<1>1. View' = View
  BY DEF View, Lower
<1>2. seek'[t] = r /\ \A u \in Seeker \ {t} : seek'[u] = seek[u]
  BY DEF TypeOK
<1>. QED BY <1>1, <1>2 DEF SeekInv

\* The steps of a seek itself.
LEMMA OwnSeek ==
    ASSUME TypeOK, SeekInv, NEW t \in Seeker,
           SeekBegin(t) \/ SeekTemp(t) \/ SeekDisk(t) \/ SeekEnd(t)
    PROVE  SeekInv'
<1>. DEFINE s == seek[t]
<1>0. /\ s \in SeekState /\ UNCHANGED <<mem, temp, disk>> /\ SeekFits(s, View, disk, temp)
      /\ s.low = "temp" => temp # Nil
      /\ s.low = "mem" => temp = Nil
  BY DEF TypeOK, SeekInv, SeekBegin, SeekTemp, SeekDisk, SeekEnd
<1>1. \A k \in Key : View[k] = IF mem[k] = Absent THEN Lower[k] ELSE mem[k]
  BY OverAt DEF View
<1>2. CASE SeekBegin(t)
  <2>. DEFINE r == [NoSeek EXCEPT !.phase = "started", !.own = mem,
                       !.low = IF temp = Nil THEN "disk" ELSE "temp",
                       !.window = [k \in Key |-> {View[k]}]]
  <2>1. /\ r.phase = "started" /\ r.own = mem /\ r.low = IF temp = Nil THEN "disk" ELSE "temp"
        /\ \A k \in Key : r.window[k] = {View[k]}
    BY DEF NoSeek
  <2>2. seek' = [seek EXCEPT ![t] = r]
    BY <1>2 DEF SeekBegin
  <2>. HIDE DEF r
  <2>3. SeekFits(r, View, disk, temp)
    BY <1>1, <2>1 DEF SeekFits, LowerFits, DiskFits, Lower
  <2>. QED BY <1>0, <2>1, <2>2, <2>3, OneSeek, Zenon
<1>3. CASE SeekTemp(t)
  <2>. DEFINE lower == CASE s.low = "temp" -> temp [] s.low = "mem" -> mem [] OTHER -> s.kept
              own == Merge(lower, s.own)
              r == [s EXCEPT !.phase = "lower", !.own = own]
  <2>1. s.phase = "started" /\ s.low \in {"temp", "mem", "kept"}
    BY <1>0, <1>3 DEF SeekTemp, SeekState
  <2>2. seek' = [seek EXCEPT ![t] = r]
    BY <1>0, <1>3, Zenon DEF SeekTemp, SeekState
  <2>3. \A k \in Key : own[k] = IF s.own[k] = Absent THEN lower[k] ELSE s.own[k]
    BY DEF Merge
  <2>4. /\ r.phase = "lower" /\ r.own = own /\ r.low = s.low /\ r.window = s.window
    BY <1>0 DEF SeekState
  <2>5. /\ s.low = "temp" => lower = temp
        /\ s.low = "mem" => lower = mem
        /\ s.low = "kept" => lower = s.kept
    OBVIOUS
  <2>. HIDE DEF r, own, lower
  <2>6. ASSUME NEW k \in Key
        PROVE  /\ View[k] \in s.window[k]
               /\ own[k] # Absent => own[k] \in s.window[k]
               /\ own[k] = Absent => DiskFits(s, k, disk, temp)
    <3>1. /\ View[k] \in s.window[k] /\ (s.own[k] # Absent => s.own[k] \in s.window[k])
          /\ s.own[k] = Absent => LowerFits(s, k, disk, temp)
      BY <1>0, <2>1 DEF SeekFits
    <3>2. CASE s.low = "temp"
      BY <2>3, <2>5, <3>1, <3>2, OverAt, SMTT(30) DEF LowerFits, DiskFits
    <3>3. CASE s.low = "mem"
      <4>1. temp = Nil /\ View[k] = IF mem[k] = Absent THEN disk[k] ELSE mem[k]
        BY <1>0, <1>1, <3>3, Zenon DEF Lower
      <4>. QED BY <2>3, <2>5, <3>1, <3>3, <4>1, Zenon DEF DiskFits
    <3>4. CASE s.low = "kept"
      BY <2>3, <2>5, <3>1, <3>4, Zenon DEF LowerFits
    <3>. QED BY <2>1, <3>2, <3>3, <3>4, Zenon
  <2>7. SeekFits(r, View, disk, temp)
    BY <2>4, <2>6 DEF SeekFits, DiskFits
  <2>. QED BY <1>0, <2>2, <2>4, <2>7, OneSeek, Zenon
<1>4. CASE SeekDisk(t)
  <2>. DEFINE r == [s EXCEPT !.phase = "done", !.res = Over(s.own, disk)]
  <2>1. seek' = [seek EXCEPT ![t] = r]
    BY <1>0, <1>4, Zenon DEF SeekDisk, SeekState
  <2>2. r.phase = "done" /\ r.res = Over(s.own, disk) /\ r.low = s.low /\ r.window = s.window
    BY <1>0 DEF SeekState
  <2>3. s.phase = "lower" \/ (s.phase = "started" /\ s.low = "disk")
    BY <1>4, Zenon DEF SeekDisk
  <2>. HIDE DEF r
  <2>4. SeekFits(r, View, disk, temp)
    BY <1>0, <2>2, <2>3, OverAt DEF SeekFits, LowerFits, DiskFits
  <2>. QED BY <1>0, <2>1, <2>2, <2>4, OneSeek, Zenon
<1>5. CASE SeekEnd(t)
  <2>1. SeekFits(NoSeek, View, disk, temp) /\ NoSeek.low = "disk"
    BY DEF NoSeek, SeekFits
  <2>2. seek' = [seek EXCEPT ![t] = NoSeek]
    BY <1>5 DEF SeekEnd
  <2>. QED BY <1>0, <2>1, <2>2, OneSeek, ZenonT(40)
<1>. QED BY <1>2, <1>3, <1>4, <1>5

\* Every step keeps what the seeks rest on.
LEMMA NextSeek == TypeOK /\ WrittenInv /\ SeekInv /\ [Next]_vars => SeekInv'
<1>. SUFFICES ASSUME TypeOK, WrittenInv, SeekInv, [Next]_vars PROVE SeekInv'
  OBVIOUS
<1>1. CASE PersistFail \/ UNCHANGED vars
  <2>1. UNCHANGED <<temp, disk, seek>> /\ View' = View
    BY <1>1, ViewStays DEF PersistFail, vars
  <2>. QED BY <2>1 DEF SeekInv
<1>2. CASE Crash
  <2>1. \A t \in Seeker : seek'[t] = NoSeek
    BY <1>2 DEF Crash
  <2>2. NoSeek.phase = "none" /\ NoSeek.low = "disk"
    BY DEF NoSeek
  <2>. QED BY <2>1, <2>2 DEF SeekInv, SeekFits
<1>. QED BY <1>1, <1>2, PutSeek, BeginSeek, WriteSeek, EndSeek, UndoSeek, OwnSeek DEF Next

\* The inductive invariant of the write cache.
LEMMA StoreInv == Spec => [](TypeOK /\ WrittenInv /\ SeekInv)
<1>1. Init => TypeOK /\ WrittenInv /\ SeekInv
  <2>. SUFFICES ASSUME Init PROVE WrittenInv /\ SeekInv
    BY InitType
  <2>1. \A t \in Seeker : seek[t] = NoSeek
    BY DEF Init
  <2>2. NoSeek.phase = "none" /\ NoSeek.low = "disk"
    BY DEF NoSeek
  <2>. QED BY <2>1, <2>2 DEF Init, WrittenInv, SeekInv, SeekFits
<1>2. TypeOK /\ WrittenInv /\ SeekInv /\ [Next]_vars => TypeOK' /\ WrittenInv' /\ SeekInv'
  BY NextType, NextWritten, NextSeek
<1>. QED BY <1>1, <1>2, PTL DEF Spec

\* Type correctness of the write cache (TypeOK).
THEOREM StoreTypeCorrect == Spec => []TypeOK
BY StoreInv, PTL

\* MemCachedStore.Seek reads the layers one after the other without the lock,
\* while others write, persist and fail to: for each key it returns a value the
\* key had during the seek (SeekSees).
THEOREM SeeksAreCurrent == Spec => []SeekSees
<1>1. TypeOK /\ SeekInv => SeekSees
  BY DEF SeekInv, SeekFits, SeekSees
<1>. QED BY <1>1, StoreInv, PTL

-----------------------------------------------------------------------------
\* The initial states are those of KVStore.
LEMMA InitImplements == Init => KV!Init
<1>. SUFFICES ASSUME Init PROVE KV!Init
  OBVIOUS
<1>1. disk \in [Key -> Item]
  BY DEF Init, Item
<1>2. View = disk
  BY <1>1, OverEmpty DEF Init, View, Lower
<1>. QED BY <1>2 DEF Init, KV!Init

\* Every step is a step of KVStore or leaves its variables alone.
LEMMA NextImplements == TypeOK /\ WrittenInv /\ [Next]_vars => [KV!Next]_(KV!vars)
<1>. SUFFICES ASSUME TypeOK, WrittenInv, [Next]_vars PROVE [KV!Next]_(KV!vars)
  OBVIOUS
<1>. DEFINE pend == IF persist = "writing" THEN Over(temp, disk) ELSE Nil
<1>0. /\ View \in [Key -> Item] /\ Lower \in [Key -> Item]
      /\ persist # "idle" => temp \in Map /\ temp # Nil /\ Over(temp, disk) \in [Key -> Item]
      /\ persist = "idle" => temp = Nil
      /\ Nil \notin [Key -> Item]
  BY LowerType, OverType, MarksAssumption DEF TypeOK, Map
<1>1. ASSUME NEW changes \in Map, PutChangeSet(changes) PROVE KV!Update
  <2>1. Lower' = Lower /\ mem' \in Map
    BY <1>1, MergeType DEF PutChangeSet, Lower, TypeOK
  <2>2. View' \in [Key -> Item]
    BY <1>0, <2>1, OverType DEF View
  <2>3. pend' = pend /\ disk' = disk /\ tick' = ~tick
    BY <1>1 DEF PutChangeSet
  <2>. QED BY <2>2, <2>3 DEF KV!Update, KV!Contents, Item
<1>2. ASSUME NEW isSync \in BOOLEAN, PersistBegin(isSync) PROVE KV!Begin
  <2>1. temp = Nil /\ Lower = disk /\ View = Over(mem, disk) /\ pend = Nil
    BY <1>0, <1>2 DEF PersistBegin, Lower, View
  <2>2. Lower' = Over(mem, disk) /\ pend' = Over(mem, disk)
    BY <1>2, MarksAssumption DEF PersistBegin, Lower, TypeOK
  <2>3. View' = Over(mem, disk)
    BY <1>2, <2>1, ViewStays
  <2>. QED BY <1>2, <2>1, <2>2, <2>3 DEF PersistBegin, KV!Begin
<1>3. CASE PersistWrite
  <2>1. View' = View
    BY <1>3, ViewStays
  <2>2. pend = Over(temp, disk) /\ pend # Nil /\ pend' = Nil
    BY <1>0, <1>3 DEF PersistWrite
  <2>. QED BY <1>3, <2>1, <2>2 DEF PersistWrite, KV!Commit, KV!Next
<1>4. CASE PersistFail
  <2>1. View' = View
    BY <1>4, ViewStays
  <2>2. pend # Nil /\ pend' = Nil
    BY <1>0, <1>4 DEF PersistFail
  <2>. QED BY <1>4, <2>1, <2>2 DEF PersistFail, KV!Abort, KV!Next
<1>5. CASE PersistEnd
  <2>1. View' = View
    BY <1>5, ViewStays
  <2>2. pend' = pend
    BY <1>5 DEF PersistEnd
  <2>. QED BY <1>5, <2>1, <2>2 DEF PersistEnd, KV!vars
<1>6. CASE PersistUndo
  <2>1. View' = View
    BY <1>6, ViewStays
  <2>2. pend' = pend
    BY <1>6 DEF PersistUndo
  <2>. QED BY <1>6, <2>1, <2>2 DEF PersistUndo, KV!vars
<1>7. ASSUME NEW t \in Seeker, SeekBegin(t) \/ SeekTemp(t) \/ SeekDisk(t) \/ SeekEnd(t)
      PROVE  UNCHANGED KV!vars
  <2>1. UNCHANGED <<temp, persist, disk, tick>>
    BY <1>7 DEF SeekBegin, SeekTemp, SeekDisk, SeekEnd
  <2>2. View' = View
    BY <1>7, ViewStays
  <2>. QED BY <2>1, <2>2 DEF KV!vars
<1>8. CASE Crash
  <2>1. View' = disk
    BY <1>8, OverEmpty DEF Crash, View, Lower, TypeOK
  <2>2. pend' = Nil
    BY <1>8 DEF Crash
  <2>. QED BY <1>8, <2>1, <2>2 DEF Crash, KV!Crash, KV!Next
<1>9. CASE UNCHANGED vars
  BY <1>9 DEF vars, KV!vars, View, Lower
<1>. QED BY <1>1, <1>2, <1>3, <1>4, <1>5, <1>6, <1>7, <1>8, <1>9 DEF Next, KV!Next

\* The cache, persist and the database together are a KVStore (StoreSpec):
\* readers see every change set at once, only writers change what they see,
\* whatever persist does, and a crash leaves the contents at the beginning of
\* some persist.
THEOREM StoreImplements == Spec => StoreSpec
<1>1. Init => KV!Init
  BY InitImplements
<1>2. TypeOK /\ WrittenInv /\ [Next]_vars => [KV!Next]_(KV!vars)
  BY NextImplements
<1>. QED BY <1>1, <1>2, StoreInv, PTL DEF Spec, StoreSpec, KV!Spec
=============================================================================
