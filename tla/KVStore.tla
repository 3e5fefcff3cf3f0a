------------------------------ MODULE KVStore -------------------------------
(***************************************************************************)
(* What a write-cached store promises.  All changes are seen at once in    *)
(* kv; the disk holds what kv was when some persist began, and only that   *)
(* survives a crash.                                                       *)
(***************************************************************************)
CONSTANTS Key, Value, None, Nil

VARIABLES
    kv,       \* what a reader sees
    disk,     \* what a crash leaves
    pending,  \* kv when the persist under way began, or Nil
    tick      \* flips with every write, and only then

Contents == [Key -> Value \cup {None}]

vars == <<kv, disk, pending, tick>>

Init == kv = [k \in Key |-> None] /\ disk = kv /\ pending = Nil /\ tick = FALSE

\* Any set of keys changes in one step.
Update == kv' \in Contents /\ tick' = ~tick /\ UNCHANGED <<disk, pending>>

Begin == pending = Nil /\ pending' = kv /\ UNCHANGED <<kv, disk>> /\ tick' = tick

Commit == pending # Nil /\ disk' = pending /\ pending' = Nil /\ UNCHANGED kv /\ tick' = tick

Abort == pending # Nil /\ pending' = Nil /\ UNCHANGED <<kv, disk>> /\ tick' = tick

Crash == kv' = disk /\ pending' = Nil /\ UNCHANGED disk /\ tick' = tick

Next == Update \/ Begin \/ Commit \/ Abort \/ Crash

Spec == Init /\ [][Next]_vars
=============================================================================
