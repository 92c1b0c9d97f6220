------------------------------- MODULE Bundle -------------------------------
(***************************************************************************)
(* Backup of a VM into a bundle and restore of a bundle into another home  *)
(* (storage/vmforge_storage/bundle.py), with a guest that may go on        *)
(* writing while the backup runs, a bundle that may be damaged, and        *)
(* processes that may be killed.                                           *)
(*                                                                         *)
(* A VM is its files (disks, snapshots, configuration), a file a number:   *)
(* the guest write that made it what it is, 0 before.  A checksum is the   *)
(* number it is the checksum of.  Hashing or copying one file is one step; *)
(* files are taken in any order.  The base image shared by the VMs of the  *)
(* restoring home is a value of its own.  While a restore is in progress,  *)
(* the user of that home may make a VM of the name it restores, and an     *)
(* import or another restore may place an image of the name it places.     *)
(***************************************************************************)
EXTENDS Naturals, FiniteSets

CONSTANTS
    Files,          \* the files of the VM
    MaxWrites,      \* bound on guest writes
    MaxFaults       \* bound on damages to a bundle and killed processes

ASSUME BundleAssumption ==
    /\ IsFiniteSet(Files) /\ Files # {}
    /\ MaxWrites \in Nat
    /\ MaxFaults \in Nat

VARIABLES
    vm,             \* the VM that is backed up
    writes,         \* number of guest writes
    held,           \* everything that VM ever was
    backup,         \* the backup in progress
    bundle,         \* the bundle file
    dir,            \* the directory the bundle is restored into
    image,          \* the base image of the restoring home
    restore,        \* the restore in progress
    outcome,        \* of the last restore
    restored,       \* the VM the last successful restore declared restored
    faults          \* damages and killed processes so far

src  == <<vm, writes, held>>
dest == <<dir, image, restore, outcome, restored>>
vars == <<vm, writes, held, backup, bundle, dir, image, restore, outcome, restored,
          faults>>

-----------------------------------------------------------------------------
Values  == 0 .. MaxWrites
Missing == MaxWrites + 1                     \* no such file, or archive member
Bad     == MaxWrites + 2                     \* matches no checksum
Parts   == [Files -> Values \cup {Missing, Bad}]
Sums    == [Files -> Values \cup {Missing}]
None    == [f \in Files |-> Missing]

BackupOp == [pc : {"idle", "hash", "copy"}, todo : SUBSET Files, sums : Sums]
NoBackup == [pc |-> "idle", todo |-> {}, sums |-> None]

(* sums: the manifest; body: the members *)
BundleFile == [there : BOOLEAN, sums : Sums, body : Parts]
NoBundle   == [there |-> FALSE, sums |-> None, body |-> None]

VmDir == [by : {"nobody", "user", "restore"}, files : Parts]
NoDir == [by |-> "nobody", files |-> None]

Images == {"none", "base", "other"}          \* "base": the one in the bundle

RestoreOp == [pc     : {"idle", "extract", "image", "compare", "move", "remove",
                        "assemble", "check"},
              todo   : SUBSET Files,
              force  : BOOLEAN,
              opened : BundleFile,           \* the archive, as it was opened
              staged : Parts,
              old    : VmDir,                \* what was there at the start
              moved  : BOOLEAN]              \* whether it has placed the image
NoRestore == [pc |-> "idle", todo |-> {}, force |-> FALSE,
              opened |-> NoBundle, staged |-> None, old |-> NoDir, moved |-> FALSE]

TypeOK ==
    /\ vm \in [Files -> Values]
    /\ writes \in Values
    /\ held \subseteq [Files -> Values]
    /\ backup \in BackupOp
    /\ bundle \in BundleFile
    /\ dir \in VmDir
    /\ image \in Images
    /\ restore \in RestoreOp
    /\ restore.pc \in {"remove", "assemble", "check"} =>
          \A f \in Files : restore.staged[f] \in Values
    /\ outcome \in {"none", "ok", "rejected"}
    /\ restored \in Parts
    /\ faults \in 0 .. MaxFaults

Init ==
    /\ vm = [f \in Files |-> 0]
    /\ writes = 0
    /\ held = {vm}
    /\ backup = NoBackup
    /\ bundle = NoBundle
    /\ dir = NoDir
    /\ image \in Images
    /\ restore = NoRestore
    /\ outcome = "none"
    /\ restored = None
    /\ faults = 0

(* Nothing keeps the guest from running during a backup. *)
GuestWrite(f) ==
    /\ writes < MaxWrites
    /\ writes' = writes + 1
    /\ vm' = [vm EXCEPT ![f] = writes + 1]
    /\ held' = held \cup {vm'}
    /\ UNCHANGED <<backup, bundle, dest, faults>>

-----------------------------------------------------------------------------
(***************************************************************************)
(* backup: every file is hashed into the manifest, then the bundle is      *)
(* opened and every file is copied into it.                                *)
(***************************************************************************)
BackupBegin ==
    /\ backup = NoBackup
    /\ ~bundle.there
    /\ backup' = [NoBackup EXCEPT !.pc = "hash", !.todo = Files]
    /\ UNCHANGED <<src, bundle, dest, faults>>

BackupHash(f) ==
    /\ backup.pc = "hash"
    /\ f \in backup.todo
    /\ backup' = [backup EXCEPT !.todo = backup.todo \ {f}, !.sums[f] = vm[f]]
    /\ UNCHANGED <<src, bundle, dest, faults>>

(* Mutant of BackupOpen: the checksums are computed while copying. *)
BackupOpen_NoSums ==
    /\ backup.pc = "hash"
    /\ backup.todo = {}
    /\ bundle' = [there |-> TRUE, sums |-> backup.sums, body |-> backup.sums]
    /\ backup' = NoBackup
    /\ UNCHANGED <<src, dest, faults>>

BackupOpen ==
    /\ backup.pc = "hash"
    /\ backup.todo = {}
    /\ bundle' = [there |-> TRUE, sums |-> backup.sums, body |-> None]
    /\ backup' = [backup EXCEPT !.pc = "copy", !.todo = Files]
    /\ UNCHANGED <<src, dest, faults>>

BackupCopy(f) ==
    /\ backup.pc = "copy"
    /\ f \in backup.todo
    /\ bundle.there
    /\ bundle' = [bundle EXCEPT !.body[f] = vm[f]]
    /\ backup' = IF backup.todo = {f} THEN NoBackup
                 ELSE [backup EXCEPT !.todo = backup.todo \ {f}]
    /\ UNCHANGED <<src, dest, faults>>

(* An exception: what was written of the bundle is removed. *)
BackupFails ==
    /\ backup # NoBackup
    /\ backup' = NoBackup
    /\ bundle' = IF backup.pc = "copy" THEN NoBundle ELSE bundle
    /\ UNCHANGED <<src, dest, faults>>

-----------------------------------------------------------------------------
(***************************************************************************)
(* restore: open the bundle and read its manifest and its list of members; *)
(* extract them into a staging directory against the checksums, place the  *)
(* base image, remove the old VM, assemble the new one and check it.       *)
(***************************************************************************)

RestoreBegin(force) ==
    /\ restore = NoRestore
    /\ bundle.there
    /\ dir # NoDir => force
    /\ restore' = [NoRestore EXCEPT !.pc = "extract", !.todo = Files,
                                    !.force = force, !.opened = bundle, !.old = dir]
    /\ UNCHANGED <<src, backup, bundle, dir, image, outcome, restored, faults>>

Goes(pc, todo) == restore' = [restore EXCEPT !.pc = pc, !.todo = todo]

(* Mutant of Extract: the checksum is not compared. *)
Extract_Unverified(f) ==
    /\ restore.pc = "extract"
    /\ f \in restore.todo
    /\ restore.opened.body[f] # Missing
    /\ restore' = [restore EXCEPT !.todo = restore.todo \ {f},
                                  !.staged[f] = restore.opened.body[f]]
    /\ UNCHANGED <<src, backup, bundle, dir, image, outcome, restored, faults>>

Extract(f) ==
    /\ restore.pc = "extract"
    /\ f \in restore.todo
    /\ restore.opened.body[f] # Missing
    /\ restore.opened.body[f] = restore.opened.sums[f]
    /\ restore' = [restore EXCEPT !.todo = restore.todo \ {f},
                                  !.staged[f] = restore.opened.body[f]]
    /\ UNCHANGED <<src, backup, bundle, dir, image, outcome, restored, faults>>

Extracted ==
    /\ restore.pc = "extract"
    /\ restore.todo = {}
    /\ Goes("image", {})
    /\ UNCHANGED <<src, backup, bundle, dir, image, outcome, restored, faults>>

(* _place_images looks whether there is an image of that name ... *)
PlaceImage ==
    /\ restore.pc = "image"
    /\ Goes(IF image = "none" THEN "move" ELSE "compare", {})
    /\ UNCHANGED <<src, backup, bundle, dir, image, outcome, restored, faults>>

(* ... which is then read, and has to be the one in the bundle ... *)
CompareImage ==
    /\ restore.pc = "compare"
    /\ image = "base"
    /\ Goes("remove", {})
    /\ UNCHANGED <<src, backup, bundle, dir, image, outcome, restored, faults>>

(* ... and if there was none, the one in the bundle is moved there. *)
MoveImage ==
    /\ restore.pc = "move"
    /\ image' = "base"
    /\ restore' = [restore EXCEPT !.pc = "remove", !.moved = TRUE]
    /\ UNCHANGED <<src, backup, bundle, dir, outcome, restored, faults>>

RemoveOld ==
    /\ restore.pc = "remove"
    /\ dir' = NoDir
    /\ Goes("assemble", Files)
    /\ UNCHANGED <<src, backup, bundle, image, outcome, restored, faults>>

Assemble(f) ==
    /\ restore.pc = "assemble"
    /\ f \in restore.todo
    /\ dir' = [by    |-> IF dir.by = "user" THEN "user" ELSE "restore",
               files |-> [dir.files EXCEPT ![f] = restore.staged[f]]]
    /\ Goes(IF restore.todo = {f} THEN "check" ELSE "assemble", restore.todo \ {f})
    /\ UNCHANGED <<src, backup, bundle, image, outcome, restored, faults>>

RestoreDone ==
    /\ restore.pc = "check"
    /\ outcome' = "ok"
    /\ restored' = dir.files
    /\ restore' = NoRestore
    /\ UNCHANGED <<src, backup, bundle, dir, image, faults>>

(***************************************************************************)
(* An exception in any of these steps (a member that is missing or does    *)
(* not match its checksum, another base image, an I/O error, a failed      *)
(* check): whatever is in the VM's directory is removed.                   *)
(***************************************************************************)
Reject ==
    /\ restore # NoRestore
    /\ dir' = NoDir
    /\ outcome' = "rejected"
    /\ restore' = NoRestore
    /\ UNCHANGED <<src, backup, bundle, image, restored, faults>>

-----------------------------------------------------------------------------
(* The bundle is damaged on its way. *)
Damage(f) ==
    /\ bundle.there
    /\ faults < MaxFaults
    /\ faults' = faults + 1
    /\ bundle' = [bundle EXCEPT !.body[f] = Bad]
    /\ UNCHANGED <<src, backup, dest>>

(* A process is killed: no exception handler runs. *)
Kill ==
    /\ faults < MaxFaults
    /\ faults' = faults + 1
    /\ \/ /\ backup # NoBackup
          /\ backup' = NoBackup
          /\ UNCHANGED restore
       \/ /\ restore # NoRestore
          /\ restore' = NoRestore
          /\ UNCHANGED backup
    /\ UNCHANGED <<src, bundle, dir, image, outcome, restored>>

(* The user of the restoring home makes a VM of that name, or deletes it: *)
(* the latter not while it is being restored.                             *)
UserVm ==
    /\ \/ /\ dir = NoDir
          /\ dir' = [by |-> "user", files |-> [f \in Files |-> 0]]
       \/ /\ dir # NoDir
          /\ restore = NoRestore
          /\ dir' = NoDir
    /\ UNCHANGED <<src, backup, bundle, image, restore, outcome, restored, faults>>

(* An import, or another restore, places an image of that name. *)
OtherImage ==
    /\ image = "none"
    /\ image' \in {"base", "other"}
    /\ UNCHANGED <<src, backup, bundle, dir, restore, outcome, restored, faults>>

Next ==
    \/ \E f \in Files :
        \/ GuestWrite(f) \/ BackupHash(f) \/ BackupCopy(f)
        \/ Extract(f) \/ Assemble(f) \/ Damage(f)
    \/ BackupBegin \/ BackupOpen \/ BackupFails
    \/ \E force \in BOOLEAN : RestoreBegin(force)
    \/ Extracted \/ PlaceImage \/ CompareImage \/ MoveImage
    \/ RemoveOld \/ RestoreDone \/ Reject
    \/ Kill \/ UserVm \/ OtherImage

Spec == Init /\ [][Next]_vars

-----------------------------------------------------------------------------
(***************************************************************************)
(* Properties.                                                             *)
(***************************************************************************)

(***************************************************************************)
(* A VM that restore declares restored is the VM as it was at one instant, *)
(* although the guest was writing while backup read its files one by one:  *)
(* all checksums are taken before the first file is copied, so if every    *)
(* copy matches, every file was as it is in the bundle when the last       *)
(* checksum was taken.  Damage and killed backups are found out.           *)
(***************************************************************************)
RestoredIsInstant == outcome = "ok" => restored \in held

(***************************************************************************)
(* The inductive invariant behind it.  During the copying there is an      *)
(* instant, the opening of the bundle, at which every file was at least as *)
(* new as its checksum and no newer than its copy.  What survives the      *)
(* backup, in the bundle and in every archive that was opened, is that the *)
(* members that match their checksum are of one instant.                   *)
(***************************************************************************)
Hashing ==
    backup.pc = "hash" =>
        \A f \in Files \ backup.todo :
            backup.sums[f] \in Values /\ backup.sums[f] <= vm[f]

CopiedAfter(h, f) ==
    /\ bundle.sums[f] \in Values
    /\ bundle.sums[f] <= h[f]
    /\ h[f] <= vm[f]
    /\ bundle.body[f] \in Values => h[f] <= bundle.body[f]

Copying ==
    backup.pc = "copy" => \E h \in held : \A f \in Files : CopiedAfter(h, f)

OfOneInstant(b) ==
    \E h \in held : \A f \in Files :
        b.body[f] = b.sums[f] /\ b.body[f] # Missing => h[f] = b.body[f]

Verified(f) ==
    /\ restore.staged[f] = restore.opened.body[f]
    /\ restore.opened.body[f] = restore.opened.sums[f]
    /\ restore.opened.body[f] # Missing

Staged ==
    /\ restore.pc = "extract" => \A f \in Files \ restore.todo : Verified(f)
    /\ restore.pc \in {"image", "compare", "move", "remove", "assemble", "check"} =>
          \A f \in Files : Verified(f)
    /\ restore.pc \in {"assemble", "check"} =>
          /\ \A f \in Files \ restore.todo : dir.files[f] = restore.staged[f]
          /\ restore.todo # Files => dir # NoDir
    /\ restore.pc = "check" => restore.todo = {}

BInv ==
    /\ TypeOK
    /\ \A f \in Files : vm[f] <= writes
    /\ vm \in held
    /\ Hashing
    /\ Copying
    /\ OfOneInstant(bundle)
    /\ OfOneInstant(restore.opened)
    /\ Staged
    /\ RestoredIsInstant

-----------------------------------------------------------------------------
(***************************************************************************)
(* What the documents say and the code does not keep.                      *)
(***************************************************************************)

(***************************************************************************)
(* "a mismatch aborts the restore rather than overwriting a shared image"  *)
(* (backup-restore.md): a base image of the restoring home is never        *)
(* changed.  Not so: one that was placed after _place_images had found     *)
(* none is moved over.                                                     *)
(***************************************************************************)
ImageKept == [][image # "none" => image' = image]_vars

(***************************************************************************)
(* "Refuses to overwrite an existing VM of the same name unless you pass   *)
(* --force" (backup-restore.md): while a restore without it is in          *)
(* progress, its steps leave a VM the user has made alone.  Not so: a VM   *)
(* made after the check at the beginning is removed, or written over.      *)
(***************************************************************************)
OverwritesOnlyForced ==
    [][restore # NoRestore /\ dir.by = "user" /\ dir' # dir => restore.force]_vars

(***************************************************************************)
(* backup-restore.md: a corrupted bundle "is rejected", and "With --force  *)
(* the existing VM is replaced": a restore that gives up before it has     *)
(* anything to put in its place leaves the VM that was there.              *)
(***************************************************************************)
RejectKeepsVm ==
    [][restore.pc = "extract" /\ restore' = NoRestore /\ outcome' = "rejected" =>
          dir' = restore.old]_vars

(***************************************************************************)
(* backup-restore.md on a bundle that is rejected, or fails the health     *)
(* check at the end: "and nothing is left behind".  Not so: a base image   *)
(* that the restore has placed before stays.                               *)
(***************************************************************************)
NothingLeftBehind ==
    [][restore # NoRestore /\ restore' = NoRestore /\ outcome' = "rejected" =>
          ~restore.moved]_vars
=============================================================================
