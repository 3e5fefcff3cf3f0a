---------------------------- MODULE CachedStore -----------------------------
(***************************************************************************)
(* The write cache of the node's database: the shared MemCachedStore of    *)
(* bc.dao over the persistent Store, its asynchronous and synchronous      *)
(* persist, and Seek, which reads the layers one after the other without   *)
(* holding the lock.                                                       *)
(*                                                                         *)
(* The maps mem and stor of MemoryStore hold keys of different prefixes    *)
(* and are always handled alike; they are one map here.  A map is a        *)
(* function on Key: Absent where it has no entry, None where the key was   *)
(* deleted.                                                                *)
(***************************************************************************)
EXTENDS FiniteSets, Naturals

CONSTANTS
    Key, Value,
    None,        \* no value: a deleted key
    Absent,      \* no entry in a map
    Nil,
    Seeker,      \* goroutines that call Seek
    MaxCrashes   \* bound on restarts

VARIABLES
    mem,      \* s.mem and s.stor
    temp,     \* the map of tempstore while persist is under way, or Nil
    persist,  \* "idle", "writing", "written" or "failed"
    sync,     \* the persist under way is PersistSync, which holds s.mut
    disk,     \* the persistent store
    seek,     \* per Seeker: the seek under way
    crashes,
    tick      \* history: flips with every write

vars == <<mem, temp, persist, sync, disk, seek, crashes, tick>>

Item == Value \cup {None}
Map == [Key -> Item \cup {Absent}]
Empty == [k \in Key |-> Absent]

ASSUME MarksAssumption ==
    /\ None \notin Value /\ Absent \notin Value /\ None # Absent
    /\ Nil \notin Map

ASSUME BoundAssumption == MaxCrashes \in Nat

\* What a map on top of some contents shows: MemCachedStore.Get for every key.
Over(m, base) == [k \in Key |-> IF m[k] = Absent THEN base[k] ELSE m[k]]

\* put for every entry of a change set.
Merge(m, changes) == [k \in Key |-> IF changes[k] = Absent THEN m[k] ELSE changes[k]]

Lower == IF temp = Nil THEN disk ELSE Over(temp, disk)

\* What Get returns for each key.
View == Over(mem, Lower)

\* s.mut is free: everybody but PersistSync holds it within one step only.
Unlocked == ~(persist # "idle" /\ sync)

\* low is the layer the seek goes to after its own map: the disk, the
\* tempstore of the persist under way ("temp"), one whose persist has ended
\* ("kept", with its map) or, after a failed persist, one whose map is the
\* cache's own again ("mem").  window collects the values each key had while
\* the seek was under way.
NoSeek == [phase |-> "none", own |-> Empty, low |-> "disk", kept |-> Empty,
           res |-> Empty, window |-> [k \in Key |-> {}]]

SeekState == [phase : {"none", "started", "lower", "done"}, own : Map,
              low : {"disk", "temp", "kept", "mem"}, kept : Map, res : Map,
              window : [Key -> SUBSET Item]]

Init ==
    /\ mem = Empty /\ temp = Nil /\ persist = "idle" /\ sync = FALSE
    /\ disk = [k \in Key |-> None]
    /\ seek = [t \in Seeker |-> NoSeek]
    /\ crashes = 0 /\ tick = FALSE

\* The seeks under way see the store change to view.
Watch(view) ==
    [t \in Seeker |->
        IF seek[t].phase \in {"started", "lower"}
        THEN [seek[t] EXCEPT !.window = [k \in Key |-> @[k] \cup {view[k]}]]
        ELSE seek[t]]

-----------------------------------------------------------------------------
(* Writers *)

\* Put, Delete and, for the change set of a private store, PutChangeSet.
PutChangeSet(changes) ==
    /\ Unlocked
    /\ mem' = Merge(mem, changes)
    /\ seek' = Watch(Over(mem', Lower))
    /\ tick' = ~tick
    /\ UNCHANGED <<temp, persist, sync, disk, crashes>>

-----------------------------------------------------------------------------
(* persist *)

\* The maps move to a tempstore below; the lock is kept if isSync.
PersistBegin(isSync) ==
    /\ persist = "idle"
    /\ mem # Empty
    /\ temp' = mem /\ mem' = Empty
    /\ persist' = "writing" /\ sync' = isSync
    /\ seek' = [t \in Seeker |->
                   IF seek[t].low = "mem" THEN [seek[t] EXCEPT !.low = "temp"] ELSE seek[t]]
    /\ UNCHANGED <<disk, crashes, tick>>

\* tempstore.ps.PutChangeSet is one batch of the database.
PersistWrite ==
    /\ persist = "writing"
    /\ disk' = Over(temp, disk)
    /\ persist' = "written"
    /\ UNCHANGED <<mem, temp, sync, seek, crashes, tick>>

PersistFail ==
    /\ persist = "writing"
    /\ persist' = "failed"
    /\ UNCHANGED <<mem, temp, sync, disk, seek, crashes, tick>>

\* tempstore leaves the chain of layers, but a seek may still hold it.
Release(low) ==
    [t \in Seeker |->
        IF seek[t].low = "temp"
        THEN [seek[t] EXCEPT !.low = low, !.kept = IF low = "kept" THEN temp ELSE @]
        ELSE seek[t]]

PersistEnd ==
    /\ persist = "written"
    /\ temp' = Nil /\ persist' = "idle" /\ sync' = FALSE
    /\ seek' = Release("kept")
    /\ UNCHANGED <<mem, disk, crashes, tick>>

\* Variant of PersistUndo: the changes made meanwhile are lost.
PersistUndo_bug ==
    /\ persist = "failed"
    /\ mem' = temp
    /\ temp' = Nil /\ persist' = "idle" /\ sync' = FALSE
    /\ seek' = Release("mem")
    /\ UNCHANGED <<disk, crashes, tick>>

\* Variant of PersistUndo: the error path returns with the lock held.
PersistUndo_stuck == persist = "failed" /\ UNCHANGED vars

\* The changes made meanwhile go to tempstore's map, which becomes the cache's.
PersistUndo ==
    /\ persist = "failed"
    /\ mem' = Merge(temp, mem)
    /\ temp' = Nil /\ persist' = "idle" /\ sync' = FALSE
    /\ seek' = Release("mem")
    /\ UNCHANGED <<disk, crashes, tick>>

-----------------------------------------------------------------------------
(* Seek *)

\* Under the read lock: a copy of the map and the lower store.
SeekBegin(t) ==
    /\ Unlocked
    /\ seek[t].phase = "none"
    /\ seek' = [seek EXCEPT ![t] =
                   [NoSeek EXCEPT !.phase = "started", !.own = mem,
                                  !.low = IF temp = Nil THEN "disk" ELSE "temp",
                                  !.window = [k \in Key |-> {View[k]}]]]
    /\ UNCHANGED <<mem, temp, persist, sync, disk, crashes, tick>>

\* The tempstore is sought the same way; its map is read without s.mut.
SeekTemp(t) ==
    LET s == seek[t]
        lower == CASE s.low = "temp" -> temp [] s.low = "mem" -> mem [] OTHER -> s.kept
    IN /\ s.phase = "started" /\ s.low # "disk"
       /\ seek' = [seek EXCEPT ![t].phase = "lower", ![t].own = Merge(lower, s.own)]
       /\ UNCHANGED <<mem, temp, persist, sync, disk, crashes, tick>>

\* Variant of SeekDisk: where both layers have a key, the lower one wins.
SeekDisk_bug(t) ==
    LET s == seek[t]
    IN /\ s.phase = "lower" \/ (s.phase = "started" /\ s.low = "disk")
       /\ seek' = [seek EXCEPT ![t].phase = "done",
                      ![t].res = [k \in Key |-> IF disk[k] # None THEN disk[k] ELSE s.own[k]]]
       /\ UNCHANGED <<mem, temp, persist, sync, disk, crashes, tick>>

\* The database is sought in one snapshot of its own; an entry of an upper
\* map, also a deletion, hides the one below.
SeekDisk(t) ==
    LET s == seek[t]
    IN /\ s.phase = "lower" \/ (s.phase = "started" /\ s.low = "disk")
       /\ seek' = [seek EXCEPT ![t].phase = "done", ![t].res = Over(s.own, disk)]
       /\ UNCHANGED <<mem, temp, persist, sync, disk, crashes, tick>>

SeekEnd(t) ==
    /\ seek[t].phase = "done"
    /\ seek' = [seek EXCEPT ![t] = NoSeek]
    /\ UNCHANGED <<mem, temp, persist, sync, disk, crashes, tick>>

-----------------------------------------------------------------------------
\* The process ends and starts again with what the database holds.
Crash ==
    /\ crashes < MaxCrashes
    /\ crashes' = crashes + 1
    /\ mem' = Empty /\ temp' = Nil /\ persist' = "idle" /\ sync' = FALSE
    /\ seek' = [t \in Seeker |-> NoSeek]
    /\ UNCHANGED <<disk, tick>>

Next ==
    \/ \E changes \in Map : PutChangeSet(changes)
    \/ \E isSync \in BOOLEAN : PersistBegin(isSync)
    \/ PersistWrite
    \/ PersistFail
    \/ PersistEnd
    \/ PersistUndo
    \/ \E t \in Seeker : SeekBegin(t) \/ SeekTemp(t) \/ SeekDisk(t) \/ SeekEnd(t)
    \/ Crash

\* Run calls persist again and again, each call ends, and the database does
\* not fail for ever.
Fairness ==
    /\ WF_vars(\E isSync \in BOOLEAN : PersistBegin(isSync))
    /\ WF_vars(PersistWrite \/ PersistFail) /\ SF_vars(PersistWrite)
    /\ WF_vars(PersistEnd) /\ WF_vars(PersistUndo)

Spec == Init /\ [][Next]_vars /\ Fairness

-----------------------------------------------------------------------------
\* The layers fit the state of persist.
TypeOK ==
    /\ mem \in Map /\ disk \in [Key -> Item]
    /\ persist \in {"idle", "writing", "written", "failed"} /\ sync \in BOOLEAN
    /\ temp \in IF persist = "idle" THEN {Nil} ELSE Map
    /\ seek \in [Seeker -> SeekState]
    /\ crashes \in 0 .. MaxCrashes /\ tick \in BOOLEAN

\* The store a caller sees: the layers one over the other.
KV == INSTANCE KVStore WITH
    kv <- View,
    pending <- IF persist = "writing" THEN Over(temp, disk) ELSE Nil

\* "MemCachedStore remains accessible for the most part of this action": with
\* the change sets applied in one step, the store is a KVStore, whatever
\* persist does and also when it fails; what a crash leaves is what the store
\* held when a persist began.
StoreSpec == KV!Spec

\* MemCachedStore: the layers fit the phase of persist.  Seek reads them at
\* different times; each key it returns, or leaves out, had that value at some
\* moment while the seek was under way.
SeekSees ==
    /\ TypeOK
    /\ \A t \in Seeker : seek[t].phase = "done" =>
        \A k \in Key : seek[t].res[k] \in seek[t].window[k]

\* "Eventually it will be persisted to the backing storage": a value that
\* stays in the store reaches the disk, also if persist fails on the way.
EventuallyDurable ==
    \A k \in Key, v \in Item : View[k] = v ~> (disk[k] = v \/ View[k] # v)
-----------------------------------------------------------------------------
(* The inductive invariant behind SeekSees.                                 *)

\* What a seek finds for k in contents d of the database, now or after the
\* batch tm under way is written, is in its window.
DiskFits(s, k, d, tm) ==
    /\ d[k] \in s.window[k]
    /\ tm # Nil => Over(tm, d)[k] \in s.window[k]

\* The same for a seek that goes to its lower layer first.
LowerFits(s, k, d, tm) ==
    /\ s.low = "disk" => DiskFits(s, k, d, tm)
    /\ s.low = "temp" => Over(tm, d)[k] \in s.window[k]
    /\ s.low = "kept" => IF s.kept[k] # Absent THEN s.kept[k] \in s.window[k] ELSE DiskFits(s, k, d, tm)

\* The seek s has seen what the store shows, and whatever it reads from here
\* on it has seen as well.
SeekFits(s, view, d, tm) ==
    /\ s.phase \in {"started", "lower"} => \A k \in Key :
        /\ view[k] \in s.window[k]
        /\ s.own[k] # Absent => s.own[k] \in s.window[k]
        /\ s.own[k] = Absent => IF s.phase = "started" THEN LowerFits(s, k, d, tm) ELSE DiskFits(s, k, d, tm)
    /\ s.phase = "done" => \A k \in Key : s.res[k] \in s.window[k]

\* A seek goes only to the tempstore of a persist under way, and to the map of
\* the cache only while there is none.
SeekInv ==
    \A t \in Seeker : /\ seek[t].low = "temp" => temp # Nil
                      /\ seek[t].low = "mem" => temp = Nil
                      /\ SeekFits(seek[t], View, disk, temp)
=============================================================================
