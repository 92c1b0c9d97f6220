---------------------------- MODULE SnapshotTree ----------------------------
(***************************************************************************)
(* What the disk store promises for one disk (storage/README.md,           *)
(* store.py): the disk has contents, a snapshot keeps the contents it was  *)
(* taken of under its name until it is deleted, and a revert brings them   *)
(* back.  Module DiskStore implements this with files that refer to one    *)
(* another.                                                                *)
(*                                                                         *)
(* Two weaknesses of the code are part of the promise: a snapshot that is  *)
(* broken off leaves its data under the name only (Strand), and a delete   *)
(* that is broken off leaves some snapshots, of which those that have lost *)
(* what they stand on can no longer be read (orphans).                     *)
(***************************************************************************)
CONSTANTS
    Names,          \* snapshot names
    Contents,       \* what a disk may hold
    Nothing         \* no disk, or no snapshot of that name that can be read

VARIABLES
    disk,           \* contents of the active disk
    snaps,          \* contents of every snapshot
    orphans         \* names whose snapshot exists and cannot be read

vars == <<disk, snaps, orphans>>

TypeOK ==
    /\ disk \in Contents \cup {Nothing}
    /\ snaps \in [Names -> Contents \cup {Nothing}]
    /\ orphans \subseteq {n \in Names : snaps[n] = Nothing}

Init ==
    /\ disk = Nothing
    /\ snaps = [n \in Names |-> Nothing]
    /\ orphans = {}

-----------------------------------------------------------------------------
Make ==
    /\ disk = Nothing
    /\ disk' \in Contents
    /\ UNCHANGED <<snaps, orphans>>

Write ==
    /\ disk # Nothing
    /\ disk' \in Contents
    /\ UNCHANGED <<snaps, orphans>>

(* The disk goes first ... *)
Delete ==
    /\ disk # Nothing
    /\ disk' = Nothing
    /\ UNCHANGED <<snaps, orphans>>

(* ... then, as long as there is none, its snapshots.  One that goes takes
   with it what stands on it. *)
Discard ==
    /\ disk = Nothing
    /\ UNCHANGED disk
    /\ snaps' \in [Names -> Contents \cup {Nothing}]
    /\ \A n \in Names : snaps'[n] \in {snaps[n], Nothing}
    /\ orphans' \subseteq orphans \cup {n \in Names : snaps[n] # snaps'[n]}

(* A new snapshot keeps what the disk holds and what the others hold.  Only
   orphans that stand on the name it is given can be read again. *)
Taken(n) ==
    /\ disk # Nothing
    /\ snaps[n] = Nothing /\ n \notin orphans
    /\ snaps' \in [Names -> Contents \cup {Nothing}]
    /\ snaps'[n] = disk
    /\ \A m \in Names \ ({n} \cup orphans) : snaps'[m] = snaps[m]
    /\ orphans' = {m \in orphans : snaps'[m] = Nothing}

Snapshot(n) == Taken(n) /\ UNCHANGED disk

Strand(n) == Taken(n) /\ disk' = Nothing

Revert(n) ==
    /\ disk # Nothing
    /\ snaps[n] # Nothing
    /\ disk' = snaps[n]
    /\ UNCHANGED <<snaps, orphans>>

DeleteSnapshot(n) ==
    /\ disk # Nothing
    /\ snaps[n] # Nothing \/ n \in orphans
    /\ snaps' = [snaps EXCEPT ![n] = Nothing]
    /\ orphans' = orphans \ {n}
    /\ UNCHANGED disk

Next ==
    \/ Make
    \/ Write
    \/ Delete
    \/ Discard
    \/ \E n \in Names : Snapshot(n) \/ Strand(n) \/ Revert(n) \/ DeleteSnapshot(n)

Spec == Init /\ [][Next]_vars
=============================================================================
