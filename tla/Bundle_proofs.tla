---------------------------- MODULE Bundle_proofs ----------------------------
(***************************************************************************)
(* What restore declares restored is the VM of one instant, for every set  *)
(* of files and any number of guest writes, damages and killed processes.  *)
(***************************************************************************)
EXTENDS Bundle, TLAPS

(***************************************************************************)
(* The two halves of the invariant: what backup and the bundle keep, and   *)
(* what restore keeps.                                                     *)
(***************************************************************************)
SrcInv ==
    /\ \A f \in Files : vm[f] <= writes
    /\ vm \in held
    /\ Hashing
    /\ Copying
    /\ OfOneInstant(bundle)

DestInv ==
    /\ OfOneInstant(restore.opened)
    /\ Staged
    /\ RestoredIsInstant

LEMMA Halves == BInv <=> TypeOK /\ SrcInv /\ DestInv
  BY DEF BInv, SrcInv, DestInv

(***************************************************************************)
(* Whatever happens, what the VM was is not forgotten.                     *)
(***************************************************************************)
LEMMA InstantKept ==
    ASSUME OfOneInstant(restore.opened), held \subseteq held',
           restore'.opened = restore.opened
    PROVE  OfOneInstant(restore.opened)'
  BY DEF OfOneInstant

LEMMA BundleKept ==
    ASSUME OfOneInstant(bundle), held \subseteq held', UNCHANGED bundle
    PROVE  OfOneInstant(bundle)'
  BY DEF OfOneInstant

(* An archive without members is of any instant. *)
LEMMA EmptyInstant ==
    ASSUME NEW b, b.body = None, held # {}
    PROVE  OfOneInstant(b)
  BY DEF OfOneInstant, None

(***************************************************************************)
(* While the files are copied, the members that match their checksum are   *)
(* those of the instant the bundle was opened at.                          *)
(***************************************************************************)
LEMMA CopiedIsInstant ==
    ASSUME TypeOK, NEW h \in held, \A f \in Files : CopiedAfter(h, f)
    PROVE  OfOneInstant(bundle)
<1> SUFFICES ASSUME NEW f \in Files,
                    bundle.body[f] = bundle.sums[f], bundle.body[f] # Missing
             PROVE  h[f] = bundle.body[f]
  BY DEF OfOneInstant
<1>1. bundle.sums[f] \in Values /\ bundle.sums[f] <= h[f] /\ h[f] <= bundle.body[f]
  BY DEF CopiedAfter
<1>2. h[f] \in Values
  BY DEF TypeOK
<1> QED
  BY <1>1, <1>2, BundleAssumption DEF Values

-----------------------------------------------------------------------------
(***************************************************************************)
(* The guest writes.                                                       *)
(***************************************************************************)
LEMMA GuestWriteKeeps ==
    ASSUME BInv, NEW f \in Files, GuestWrite(f)
    PROVE  BInv'
<1> USE BundleAssumption
<1>0. TypeOK /\ SrcInv /\ DestInv
  BY Halves
<1>1. /\ vm' \in [Files -> Values]
      /\ writes' \in Values
      /\ held \subseteq held' /\ held' \subseteq [Files -> Values] /\ vm' \in held'
      /\ \A g \in Files : vm[g] <= vm'[g] /\ vm'[g] <= writes'
  <2>1. writes \in Values /\ writes + 1 \in Values /\ vm \in [Files -> Values]
    BY <1>0 DEF TypeOK, GuestWrite, Values
  <2>2. \A g \in Files : vm[g] \in Values /\ vm[g] <= writes
    BY <1>0 DEF TypeOK, SrcInv
  <2>3. vm' = [vm EXCEPT ![f] = writes + 1] /\ writes' = writes + 1
        /\ held' = held \cup {vm'}
    BY DEF GuestWrite
  <2>4. vm' \in [Files -> Values]
    BY <2>1, <2>3
  <2>5. \A g \in Files : vm[g] <= vm'[g] /\ vm'[g] <= writes'
    BY <2>1, <2>2, <2>3 DEF Values
  <2> QED
    BY <1>0, <2>1, <2>3, <2>4, <2>5 DEF TypeOK
<1>2. UNCHANGED <<backup, bundle, dir, image, restore, outcome, restored, faults>>
  BY DEF GuestWrite, dest
<1>3. TypeOK'
  BY <1>0, <1>1, <1>2 DEF TypeOK
<1>4. Hashing'
  BY <1>0, <1>1, <1>2 DEF SrcInv, Hashing, TypeOK, Values
<1>5. Copying'
  <2> SUFFICES ASSUME backup.pc = "copy"
               PROVE  \E h \in held' : \A g \in Files : CopiedAfter(h, g)'
    BY <1>2 DEF Copying, CopiedAfter
  <2>1. PICK h \in held : \A g \in Files : CopiedAfter(h, g)
    BY <1>0 DEF SrcInv, Copying
  <2>2. \A g \in Files : h[g] \in Values /\ vm[g] \in Values /\ vm'[g] \in Values
    BY <1>0, <1>1 DEF TypeOK
  <2>3. \A g \in Files : CopiedAfter(h, g)'
    BY <1>1, <1>2, <2>1, <2>2 DEF CopiedAfter, Values
  <2> QED
    BY <1>1, <2>3
<1>6. OfOneInstant(bundle)'
  BY <1>0, <1>1, <1>2, BundleKept DEF SrcInv
<1>7. OfOneInstant(restore.opened)'
  BY <1>0, <1>1, <1>2, InstantKept DEF DestInv
<1>8. Staged' /\ RestoredIsInstant'
  BY <1>0, <1>1, <1>2 DEF DestInv, Staged, Verified, RestoredIsInstant
<1> QED
  BY <1>1, <1>3, <1>4, <1>5, <1>6, <1>7, <1>8, Halves DEF BInv

-----------------------------------------------------------------------------
(***************************************************************************)
(* The steps of backup, and damage to the bundle, leave restore alone.     *)
(***************************************************************************)
LEMMA RestoreSideKept ==
    ASSUME DestInv, UNCHANGED dest, UNCHANGED held
    PROVE  DestInv'
<1>1. UNCHANGED <<dir, image, restore, outcome, restored>>
  BY DEF dest
<1> QED
  BY <1>1 DEF DestInv, OfOneInstant, Staged, Verified, RestoredIsInstant

LEMMA NoBackupType == NoBackup \in BackupOp /\ NoBundle \in BundleFile
  BY DEF NoBackup, NoBundle, BackupOp, BundleFile, None, Sums, Parts

LEMMA BackupKeeps ==
    ASSUME BInv,
           \/ BackupBegin \/ BackupOpen \/ BackupFails
           \/ \E f \in Files : BackupHash(f) \/ BackupCopy(f) \/ Damage(f)
    PROVE  BInv'
<1> USE BundleAssumption
<1>0. TypeOK /\ SrcInv /\ DestInv
  BY Halves
<1>1. UNCHANGED dest /\ UNCHANGED <<vm, writes, held>>
  BY DEF BackupBegin, BackupOpen, BackupFails, BackupHash, BackupCopy, Damage, src
<1>2. DestInv'
  BY <1>0, <1>1, RestoreSideKept
<1>3. /\ \A f \in Files : vm'[f] <= writes'
      /\ vm' \in held'
  BY <1>0, <1>1 DEF SrcInv
<1>4. backup' \in BackupOp /\ bundle' \in BundleFile /\ faults' \in 0 .. MaxFaults
      => TypeOK'
  BY <1>0, <1>1 DEF TypeOK, dest
<1>a. backup \in BackupOp /\ bundle \in BundleFile /\ faults \in 0 .. MaxFaults
  BY <1>0 DEF TypeOK
<1>b. ASSUME backup' \in BackupOp, bundle' \in BundleFile, faults' \in 0 .. MaxFaults,
             Hashing', Copying', OfOneInstant(bundle)'
      PROVE  BInv'
  <2>1. TypeOK'
    BY <1>4, <1>b
  <2> QED
    BY <1>2, <1>3, <1>b, <2>1 DEF BInv, DestInv
<1>5. CASE BackupBegin
  <2>1. backup' \in BackupOp
    BY <1>5, NoBackupType DEF BackupBegin, BackupOp, NoBackup
  <2>2. Hashing' /\ Copying'
    BY <1>5 DEF BackupBegin, Hashing, Copying, NoBackup
  <2>3. OfOneInstant(bundle)'
    BY <1>0, <1>1, <1>5, BundleKept DEF BackupBegin, SrcInv
  <2> QED
    BY <1>a, <1>b, <1>5, <2>1, <2>2, <2>3 DEF BackupBegin
<1>6. ASSUME NEW f \in Files, BackupHash(f)
      PROVE  BInv'
  <2>1. /\ backup' = [backup EXCEPT !.todo = backup.todo \ {f}, !.sums[f] = vm[f]]
        /\ backup.pc = "hash" /\ backup \in BackupOp /\ vm[f] \in Values
        /\ UNCHANGED <<bundle, faults>>
    BY <1>0, <1>6 DEF BackupHash, TypeOK
  <2>2. /\ backup' \in BackupOp
        /\ backup'.pc = "hash"
        /\ backup'.todo = backup.todo \ {f}
        /\ backup'.sums[f] = vm[f]
        /\ \A g \in Files \ {f} : backup'.sums[g] = backup.sums[g]
    BY <2>1 DEF BackupOp, Sums
  <2>3. Hashing'
    BY <1>0, <1>1, <2>1, <2>2 DEF SrcInv, Hashing, Values
  <2>4. Copying'
    BY <2>2 DEF Copying
  <2>5. OfOneInstant(bundle)'
    BY <1>0, <1>1, <2>1, BundleKept DEF SrcInv
  <2> QED
    BY <1>a, <1>b, <2>1, <2>2, <2>3, <2>4, <2>5
<1>7. CASE BackupOpen
  <2>1. /\ bundle' = [there |-> TRUE, sums |-> backup.sums, body |-> None]
        /\ backup' = [backup EXCEPT !.pc = "copy", !.todo = Files]
        /\ backup.pc = "hash" /\ backup.todo = {} /\ backup \in BackupOp
        /\ UNCHANGED faults
    BY <1>0, <1>7 DEF BackupOpen, TypeOK
  <2>2. backup' \in BackupOp /\ bundle' \in BundleFile /\ backup'.pc = "copy"
    BY <2>1, NoBackupType DEF BackupOp, BundleFile, NoBundle
  <2>3. \A f \in Files : CopiedAfter(vm, f)'
    <3>1. \A f \in Files : /\ backup.sums[f] \in Values /\ backup.sums[f] <= vm[f]
                            /\ vm[f] \in Values
                            /\ bundle'.body[f] \notin Values
      BY <1>0, <2>1 DEF SrcInv, Hashing, TypeOK, None, Missing, Values
    <3> QED
      BY <1>1, <2>1, <3>1 DEF CopiedAfter, Values
  <2>4. Copying'
    BY <1>1, <1>3, <2>3 DEF Copying, CopiedAfter
  <2>5. OfOneInstant(bundle)'
    BY <1>3, <2>1, EmptyInstant DEF OfOneInstant, None
  <2>6. Hashing'
    BY <2>2 DEF Hashing
  <2> QED
    BY <1>a, <1>b, <2>1, <2>2, <2>4, <2>5, <2>6
<1>8. ASSUME NEW f \in Files, BackupCopy(f)
      PROVE  BInv'
  <2>1. /\ bundle' = [bundle EXCEPT !.body[f] = vm[f]]
        /\ bundle \in BundleFile /\ backup \in BackupOp /\ vm[f] \in Values
        /\ backup.pc = "copy" /\ UNCHANGED faults
        /\ backup' = IF backup.todo = {f} THEN NoBackup
                     ELSE [backup EXCEPT !.todo = backup.todo \ {f}]
    BY <1>0, <1>8 DEF BackupCopy, TypeOK
  <2>2. /\ bundle' \in BundleFile
        /\ bundle'.sums = bundle.sums
        /\ bundle'.body[f] = vm[f]
        /\ \A g \in Files \ {f} : bundle'.body[g] = bundle.body[g]
    BY <2>1 DEF BundleFile, Parts
  <2>3. backup' \in BackupOp /\ backup'.pc \in {"idle", "copy"}
    BY <2>1, NoBackupType DEF BackupOp, NoBackup
  <2>5. PICK h \in held : \A g \in Files : CopiedAfter(h, g)
    BY <1>0, <2>1 DEF SrcInv, Copying
  <2>6. \A g \in Files : CopiedAfter(h, g)'
    BY <1>1, <2>2, <2>5 DEF CopiedAfter
  <2>7. h \in held'
    BY <1>1
  <2>8. Copying'
    BY <2>6, <2>7 DEF Copying, CopiedAfter
  <2>9. OfOneInstant(bundle)'
    <3>1. \A g \in Files : bundle'.body[g] = bundle'.sums[g] /\ bundle'.body[g] # Missing
                            => h[g] = bundle'.body[g]
      <4> SUFFICES ASSUME NEW g \in Files,
                          bundle'.body[g] = bundle'.sums[g], bundle'.body[g] # Missing
                   PROVE  h[g] = bundle'.body[g]
        OBVIOUS
      <4>1. /\ bundle'.sums[g] \in Values /\ bundle'.sums[g] <= h[g]
            /\ h[g] <= bundle'.body[g]
        BY <2>6 DEF CopiedAfter
      <4>2. h[g] \in Values
        BY <1>0 DEF TypeOK
      <4> QED
        BY <4>1, <4>2 DEF Values
    <3> QED
      BY <2>7, <3>1 DEF OfOneInstant
  <2>10. Hashing'
    BY <2>3 DEF Hashing
  <2> QED
    BY <1>a, <1>b, <2>1, <2>2, <2>3, <2>8, <2>9, <2>10
<1>9. CASE BackupFails
  <2>1. /\ backup' = NoBackup
        /\ bundle' = NoBundle \/ UNCHANGED bundle
        /\ UNCHANGED faults
    BY <1>9 DEF BackupFails
  <2>2. OfOneInstant(bundle)'
    <3>1. CASE bundle' = NoBundle
      BY <1>3, <3>1 DEF OfOneInstant, NoBundle, None
    <3>2. CASE UNCHANGED bundle
      BY <1>0, <1>1, <3>2, BundleKept DEF SrcInv
    <3> QED
      BY <2>1, <3>1, <3>2
  <2>3. Hashing' /\ Copying'
    BY <2>1 DEF Hashing, Copying, NoBackup
  <2> QED
    BY <1>a, <1>b, <2>1, <2>2, <2>3, NoBackupType
<1>10. ASSUME NEW f \in Files, Damage(f)
       PROVE  BInv'
  <2>1. /\ bundle' = [bundle EXCEPT !.body[f] = Bad]
        /\ bundle \in BundleFile
        /\ UNCHANGED backup
        /\ faults' \in 0 .. MaxFaults
    BY <1>0, <1>10 DEF Damage, TypeOK
  <2>2. /\ bundle' \in BundleFile
        /\ bundle'.sums = bundle.sums
        /\ bundle'.body[f] = Bad
        /\ \A g \in Files \ {f} : bundle'.body[g] = bundle.body[g]
    BY <2>1 DEF BundleFile, Parts
  <2>3. \A v \in Values \cup {Missing} : v # Bad
    BY DEF Values, Bad, Missing
  <2>4. Copying'
    BY <1>0, <1>1, <2>1, <2>2, <2>3 DEF SrcInv, Copying, CopiedAfter
  <2>5. OfOneInstant(bundle)'
    <3>1. \A g \in Files : bundle'.sums[g] \in Values \cup {Missing}
      BY <2>2 DEF BundleFile, Sums
    <3>2. PICK h \in held : \A g \in Files :
            bundle.body[g] = bundle.sums[g] /\ bundle.body[g] # Missing
            => h[g] = bundle.body[g]
      BY <1>0 DEF SrcInv, OfOneInstant
    <3>3. \A g \in Files : bundle'.body[g] = bundle'.sums[g] /\ bundle'.body[g] # Missing
                            => h[g] = bundle'.body[g]
      BY <2>2, <2>3, <3>1, <3>2
    <3> QED
      BY <1>1, <3>3 DEF OfOneInstant
  <2>6. Hashing'
    BY <1>0, <1>1, <2>1 DEF SrcInv, Hashing
  <2> QED
    BY <1>a, <1>b, <2>1, <2>2, <2>4, <2>5, <2>6
<1> QED
  BY <1>5, <1>6, <1>7, <1>8, <1>9, <1>10

-----------------------------------------------------------------------------
(***************************************************************************)
(* The steps that leave the VM, its backup and the bundle alone.           *)
(***************************************************************************)
LEMMA SourceSideKept ==
    ASSUME SrcInv, UNCHANGED <<vm, writes, held, backup, bundle>>
    PROVE  SrcInv'
  BY DEF SrcInv, Hashing, Copying, CopiedAfter, OfOneInstant

LEMMA NoRestoreType ==
    NoRestore \in RestoreOp /\ NoDir \in VmDir /\ NoBundle \in BundleFile /\ None \in Parts
  BY NoBackupType DEF NoRestore, NoDir, RestoreOp, VmDir, None, Parts, Images

(***************************************************************************)
(* What the restore has verified is a number the guest has written.        *)
(***************************************************************************)
LEMMA VerifiedIsValue ==
    ASSUME TypeOK, NEW f \in Files, Verified(f)
    PROVE  restore.staged[f] \in Values
<1>1. restore.opened.sums \in Sums
  BY DEF TypeOK, RestoreOp, BundleFile
<1> QED
  BY <1>1 DEF Verified, Sums

LEMMA RestoreKeeps ==
    ASSUME BInv,
           \/ \E force \in BOOLEAN : RestoreBegin(force)
           \/ Extracted \/ PlaceImage \/ CompareImage \/ MoveImage
           \/ RemoveOld \/ RestoreDone \/ Reject
           \/ \E f \in Files : Extract(f) \/ Assemble(f)
    PROVE  BInv'
<1> USE BundleAssumption
<1>0. TypeOK /\ SrcInv /\ DestInv
  BY Halves
<1>1. UNCHANGED <<vm, writes, held, backup, bundle, faults>>
  BY DEF RestoreBegin, Extracted, PlaceImage, CompareImage, MoveImage, RemoveOld,
         RestoreDone, Reject, Extract, Assemble, src
<1>2. SrcInv'
  BY <1>0, <1>1, SourceSideKept
<1>a. /\ dir \in VmDir /\ image \in Images
      /\ restore \in RestoreOp /\ bundle \in BundleFile
      /\ outcome \in {"none", "ok", "rejected"} /\ restored \in Parts
      /\ OfOneInstant(bundle) /\ OfOneInstant(restore.opened)
      /\ Staged /\ RestoredIsInstant /\ vm \in held
      /\ restore.pc \in {"remove", "assemble", "check"} =>
            \A f \in Files : restore.staged[f] \in Values
  BY <1>0 DEF TypeOK, DestInv, SrcInv
<1>b. ASSUME dir' \in VmDir, image' \in Images,
             restore' \in RestoreOp,
             outcome' \in {"none", "ok", "rejected"}, restored' \in Parts,
             restore'.pc \in {"remove", "assemble", "check"} =>
                \A f \in Files : restore'.staged[f] \in Values,
             OfOneInstant(restore.opened)', Staged', RestoredIsInstant'
      PROVE  BInv'
  <2>1. TypeOK'
    BY <1>0, <1>1, <1>b DEF TypeOK
  <2> QED
    BY <1>2, <1>b, <2>1 DEF BInv, SrcInv
<1>c. UNCHANGED <<outcome, restored>> => RestoredIsInstant'
  BY <1>1, <1>a DEF RestoredIsInstant
<1>d. restore'.opened = restore.opened => OfOneInstant(restore.opened)'
  BY <1>1, <1>a, InstantKept
<1>e. ASSUME restore' = NoRestore
      PROVE  /\ restore' \in RestoreOp /\ restore'.pc = "idle"
             /\ OfOneInstant(restore.opened)' /\ Staged'
  BY <1>1, <1>a, <1>e, NoRestoreType
  DEF NoRestore, NoBundle, None, OfOneInstant, Staged
<1>3. ASSUME NEW force \in BOOLEAN, RestoreBegin(force)
      PROVE  BInv'
  <2>1. restore' = [pc |-> "extract", todo |-> Files, force |-> force,
                    opened |-> bundle, staged |-> None, old |-> dir,
                    moved |-> FALSE]
    BY <1>3 DEF RestoreBegin, NoRestore
  <2>2. restore' \in RestoreOp
    BY <1>a, <2>1, NoRestoreType DEF RestoreOp
  <2>3. OfOneInstant(restore.opened)'
    BY <1>1, <1>a, <2>1 DEF OfOneInstant
  <2>4. Staged'
    BY <2>1 DEF Staged
  <2>5. UNCHANGED <<dir, image, outcome, restored>>
    BY <1>3 DEF RestoreBegin
  <2> QED
    BY <1>a, <1>b, <1>c, <2>1, <2>2, <2>3, <2>4, <2>5
<1>4. ASSUME NEW f \in Files, Extract(f)
      PROVE  BInv'
  <2>1. /\ restore.pc = "extract" /\ f \in restore.todo
        /\ restore.opened.body[f] # Missing
        /\ restore.opened.body[f] = restore.opened.sums[f]
        /\ restore' = [restore EXCEPT !.todo = restore.todo \ {f},
                                      !.staged[f] = restore.opened.body[f]]
        /\ UNCHANGED <<dir, image, outcome, restored>>
    BY <1>4 DEF Extract
  <2>2. restore.opened.body[f] \in Values \cup {Missing, Bad}
    BY <1>a DEF RestoreOp, BundleFile, Parts
  <2>3. /\ restore' \in RestoreOp
        /\ restore'.pc = "extract"
        /\ restore'.todo = restore.todo \ {f}
        /\ restore'.opened = restore.opened
        /\ restore'.staged[f] = restore.opened.body[f]
        /\ \A g \in Files \ {f} : restore'.staged[g] = restore.staged[g]
    BY <1>a, <2>1, <2>2 DEF RestoreOp, Parts
  <2>4. Staged'
    BY <1>a, <2>1, <2>3 DEF Staged, Verified
  <2> QED
    BY <1>a, <1>b, <1>c, <1>d, <2>1, <2>3, <2>4
<1>5. CASE Extracted
  <2>1. /\ restore.pc = "extract" /\ restore.todo = {}
        /\ restore' = [restore EXCEPT !.pc = "image", !.todo = {}]
        /\ UNCHANGED <<dir, image, outcome, restored>>
    BY <1>5 DEF Extracted, Goes
  <2>2. /\ restore' \in RestoreOp
        /\ restore'.pc = "image"
        /\ restore'.opened = restore.opened
        /\ restore'.staged = restore.staged
    BY <1>a, <2>1 DEF RestoreOp
  <2>3. Staged'
    BY <1>a, <2>1, <2>2 DEF Staged, Verified
  <2> QED
    BY <1>a, <1>b, <1>c, <1>d, <2>1, <2>2, <2>3
<1>6. CASE PlaceImage
  <2> DEFINE pc == IF image = "none" THEN "move" ELSE "compare"
  <2>1. /\ restore.pc = "image"
        /\ restore' = [restore EXCEPT !.pc = pc, !.todo = {}]
        /\ UNCHANGED <<dir, image, outcome, restored>>
    BY <1>6 DEF PlaceImage, Goes
  <2>2. /\ restore' \in RestoreOp
        /\ restore'.pc \in {"compare", "move"}
        /\ restore'.opened = restore.opened
        /\ restore'.staged = restore.staged
    BY <1>a, <2>1 DEF RestoreOp
  <2>3. Staged'
    BY <1>a, <2>1, <2>2 DEF Staged, Verified
  <2> QED
    BY <1>a, <1>b, <1>c, <1>d, <2>1, <2>2, <2>3
<1>11. CASE CompareImage \/ MoveImage
  <2>1. /\ restore.pc \in {"compare", "move"} /\ image' \in Images
        /\ \/ restore' = [restore EXCEPT !.pc = "remove", !.todo = {}]
           \/ restore' = [restore EXCEPT !.pc = "remove", !.moved = TRUE]
        /\ UNCHANGED <<dir, outcome, restored>>
    BY <1>a, <1>11 DEF CompareImage, MoveImage, Goes, Images
  <2>2. /\ restore' \in RestoreOp
        /\ restore'.pc = "remove"
        /\ restore'.opened = restore.opened
        /\ restore'.staged = restore.staged
    BY <1>a, <2>1 DEF RestoreOp
  <2>3. Staged'
    BY <1>a, <2>1, <2>2 DEF Staged, Verified
  <2>4. \A f \in Files : restore'.staged[f] \in Values
    BY <1>0, <1>a, <2>1, <2>2, VerifiedIsValue DEF Staged
  <2> QED
    BY <1>a, <1>b, <1>c, <1>d, <2>1, <2>2, <2>3, <2>4
<1>7. CASE RemoveOld
  <2>1. /\ restore.pc = "remove" /\ dir' = NoDir
        /\ restore' = [restore EXCEPT !.pc = "assemble", !.todo = Files]
        /\ UNCHANGED <<image, outcome, restored>>
    BY <1>7 DEF RemoveOld, Goes
  <2>2. /\ restore' \in RestoreOp
        /\ restore'.pc = "assemble" /\ restore'.todo = Files
        /\ restore'.opened = restore.opened
        /\ restore'.staged = restore.staged
    BY <1>a, <2>1 DEF RestoreOp
  <2>3. Staged'
    BY <1>a, <2>1, <2>2 DEF Staged, Verified
  <2> QED
    BY <1>a, <1>b, <1>c, <1>d, <2>1, <2>2, <2>3, NoRestoreType
<1>8. ASSUME NEW f \in Files, Assemble(f)
      PROVE  BInv'
  <2> DEFINE pc == IF restore.todo = {f} THEN "check" ELSE "assemble"
  <2>1. /\ restore.pc = "assemble" /\ f \in restore.todo
        /\ dir' = [by    |-> IF dir.by = "user" THEN "user" ELSE "restore",
                   files |-> [dir.files EXCEPT ![f] = restore.staged[f]]]
        /\ restore' = [restore EXCEPT !.pc = pc, !.todo = restore.todo \ {f}]
        /\ UNCHANGED <<image, outcome, restored>>
    BY <1>8 DEF Assemble, Goes
  <2>2. /\ restore' \in RestoreOp
        /\ restore'.pc = pc /\ restore'.todo = restore.todo \ {f}
        /\ restore'.opened = restore.opened
        /\ restore'.staged = restore.staged
    BY <1>a, <2>1 DEF RestoreOp
  <2>3. /\ dir' \in VmDir
        /\ dir'.by # "nobody"
        /\ dir'.files[f] = restore.staged[f]
        /\ \A g \in Files \ {f} : dir'.files[g] = dir.files[g]
    BY <1>a, <2>1 DEF VmDir, Parts
  <2>4. Staged'
    <3>1. dir' # NoDir
      BY <2>3 DEF NoDir
    <3>2. \A g \in Files : Verified(g)'
      BY <1>a, <2>1, <2>2 DEF Staged, Verified
    <3>3. \A g \in Files \ restore'.todo : dir'.files[g] = restore'.staged[g]
      BY <1>a, <2>1, <2>2, <2>3 DEF Staged
    <3>4. pc = "check" => restore'.todo = {}
      BY <2>2
    <3> QED
      BY <2>2, <3>1, <3>2, <3>3, <3>4 DEF Staged
  <2> QED
    BY <1>a, <1>b, <1>c, <1>d, <2>1, <2>2, <2>3, <2>4
<1>9. CASE RestoreDone
  <2>1. /\ restore.pc = "check" /\ outcome' = "ok" /\ restored' = dir.files
        /\ restore' = NoRestore
        /\ UNCHANGED <<dir, image>>
    BY <1>9 DEF RestoreDone
  <2>2. \A f \in Files : Verified(f) /\ dir.files[f] = restore.staged[f]
    BY <1>a, <2>1 DEF Staged
  <2>3. PICK h \in held : \A f \in Files :
          restore.opened.body[f] = restore.opened.sums[f]
            /\ restore.opened.body[f] # Missing => h[f] = restore.opened.body[f]
    BY <1>a DEF OfOneInstant
  <2>4. h \in [Files -> Values] /\ dir.files \in Parts
    BY <1>0, <1>a DEF TypeOK, VmDir
  <2>5. \A f \in Files : dir.files[f] = h[f]
    BY <2>2, <2>3 DEF Verified
  <2>6. dir.files = h
    BY <2>4, <2>5 DEF Parts
  <2>7. RestoredIsInstant'
    BY <1>1, <2>1, <2>6 DEF RestoredIsInstant
  <2> QED
    BY <1>a, <1>b, <1>e, <2>1, <2>4, <2>7
<1>10. CASE Reject
  <2>1. /\ dir' = NoDir /\ outcome' = "rejected" /\ restore' = NoRestore
        /\ UNCHANGED <<image, restored>>
    BY <1>10 DEF Reject
  <2>2. RestoredIsInstant'
    BY <2>1 DEF RestoredIsInstant
  <2> QED
    BY <1>a, <1>b, <1>e, <2>1, <2>2, NoRestoreType
<1> QED
  BY <1>3, <1>4, <1>5, <1>6, <1>7, <1>8, <1>9, <1>10, <1>11

-----------------------------------------------------------------------------
(***************************************************************************)
(* A killed process, and the user of the restoring home.                   *)
(***************************************************************************)
LEMMA KillKeeps ==
    ASSUME BInv, Kill
    PROVE  BInv'
<1> USE BundleAssumption
<1>0. TypeOK /\ SrcInv /\ DestInv
  BY Halves
<1>1. /\ UNCHANGED <<vm, writes, held, bundle, dir, image, outcome, restored>>
      /\ \/ backup' = NoBackup /\ UNCHANGED restore
         \/ restore' = NoRestore /\ UNCHANGED backup
      /\ faults' \in 0 .. MaxFaults
  BY <1>0 DEF Kill, src, TypeOK
<1>2. TypeOK'
  <2>1. backup' \in BackupOp /\ restore' \in RestoreOp
    BY <1>0, <1>1, NoBackupType, NoRestoreType DEF TypeOK
  <2>2. restore'.pc \in {"remove", "assemble", "check"} =>
          \A f \in Files : restore'.staged[f] \in Values
    BY <1>0, <1>1 DEF TypeOK, NoRestore
  <2> QED
    BY <1>0, <1>1, <2>1, <2>2 DEF TypeOK
<1>3. SrcInv'
  <2>1. CASE UNCHANGED backup
    BY <1>0, <1>1, <2>1, SourceSideKept
  <2>2. CASE backup' = NoBackup
    BY <1>0, <1>1, <2>2 DEF SrcInv, Hashing, Copying, NoBackup, OfOneInstant
  <2> QED
    BY <1>1, <2>1, <2>2
<1>4. DestInv'
  <2>1. CASE UNCHANGED restore
    BY <1>0, <1>1, <2>1, RestoreSideKept DEF dest
  <2>2. CASE restore' = NoRestore
    <3>1. OfOneInstant(restore.opened)'
      BY <1>0, <1>1, <2>2 DEF SrcInv, OfOneInstant, NoRestore, NoBundle, None
    <3>2. Staged' /\ RestoredIsInstant'
      BY <1>0, <1>1, <2>2 DEF DestInv, Staged, NoRestore, RestoredIsInstant
    <3> QED
      BY <3>1, <3>2 DEF DestInv
  <2> QED
    BY <1>1, <2>1, <2>2
<1> QED
  BY <1>2, <1>3, <1>4 DEF BInv, SrcInv, DestInv

LEMMA UserVmKeeps ==
    ASSUME BInv, UserVm
    PROVE  BInv'
<1> USE BundleAssumption
<1>0. TypeOK /\ SrcInv /\ DestInv
  BY Halves
<1>1. /\ UNCHANGED <<vm, writes, held, backup, bundle, image, restore, outcome,
                     restored, faults>>
      /\ \/ dir = NoDir /\ dir' = [by |-> "user", files |-> [f \in Files |-> 0]]
         \/ restore = NoRestore /\ dir' = NoDir
  BY DEF UserVm, src
<1>2. dir' \in VmDir
  BY <1>1, NoRestoreType DEF VmDir, Parts, Values
<1>3. TypeOK'
  BY <1>0, <1>1, <1>2 DEF TypeOK
<1>4. SrcInv'
  BY <1>0, <1>1, SourceSideKept
<1>5. OfOneInstant(restore.opened)' /\ RestoredIsInstant'
  BY <1>0, <1>1, InstantKept DEF DestInv, RestoredIsInstant
<1>6. Staged'
  <2>1. CASE restore = NoRestore
    BY <1>1, <2>1 DEF Staged, NoRestore
  <2>2. CASE dir = NoDir /\ restore.pc \in {"assemble", "check"}
    BY <1>0, <1>1, <2>2 DEF DestInv, Staged, Verified
  <2>3. CASE restore.pc \notin {"assemble", "check"}
    BY <1>0, <1>1, <2>3 DEF DestInv, Staged, Verified
  <2> QED
    BY <1>1, <2>1, <2>2, <2>3
<1> QED
  BY <1>3, <1>4, <1>5, <1>6 DEF BInv, SrcInv

LEMMA OtherImageKeeps ==
    ASSUME BInv, OtherImage
    PROVE  BInv'
<1>0. TypeOK /\ SrcInv /\ DestInv
  BY Halves
<1>1. /\ UNCHANGED <<vm, writes, held, backup, bundle, dir, restore, outcome,
                     restored, faults>>
      /\ image' \in Images
  BY DEF OtherImage, src, Images
<1>2. TypeOK'
  BY <1>0, <1>1 DEF TypeOK
<1>3. SrcInv'
  BY <1>0, <1>1, SourceSideKept
<1>4. OfOneInstant(restore.opened)' /\ RestoredIsInstant'
  BY <1>0, <1>1, InstantKept DEF DestInv, RestoredIsInstant
<1>5. Staged'
  BY <1>0, <1>1 DEF DestInv, Staged, Verified
<1> QED
  BY <1>2, <1>3, <1>4, <1>5 DEF BInv, SrcInv

LEMMA InitBInv == Init => BInv
<1> USE BundleAssumption
<1> SUFFICES ASSUME Init
             PROVE  BInv
  OBVIOUS
<1>1. vm \in [Files -> Values] /\ vm \in held /\ held \subseteq [Files -> Values]
      /\ \A f \in Files : vm[f] <= writes
  BY DEF Init, Values
<1>2. TypeOK
  <2>1. restore.pc = "idle"
    BY DEF Init, NoRestore
  <2> QED
    BY <1>1, <2>1, NoBackupType, NoRestoreType DEF Init, TypeOK, Values
<1>3. Hashing /\ Copying
  BY DEF Init, Hashing, Copying, NoBackup
<1>4. OfOneInstant(bundle) /\ OfOneInstant(restore.opened)
  BY <1>1 DEF Init, NoRestore, NoBundle, None, OfOneInstant
<1>5. Staged /\ RestoredIsInstant
  BY DEF Init, Staged, NoRestore, RestoredIsInstant
<1> QED
  BY <1>1, <1>2, <1>3, <1>4, <1>5 DEF BInv

LEMMA StutterBInv ==
    ASSUME BInv, UNCHANGED vars
    PROVE  BInv'
<1>1. UNCHANGED <<vm, writes, held, backup, bundle, dir, image, restore, outcome,
                  restored, faults>>
  BY DEF vars
<1>2. TypeOK'
  BY <1>1 DEF BInv, TypeOK
<1>3. SrcInv'
  BY <1>1, Halves, SourceSideKept
<1>4. DestInv'
  BY <1>1, Halves, RestoreSideKept DEF dest
<1> QED
  BY <1>2, <1>3, <1>4 DEF BInv, SrcInv, DestInv

(***************************************************************************)
(* The invariant of backup and restore: the members of a bundle that match *)
(* their checksums are those of one instant of the VM, and restore takes   *)
(* only such members.                                                      *)
(***************************************************************************)
THEOREM BundleInvariance == Spec => []BInv
<1>1. ASSUME BInv, [Next]_vars
      PROVE  BInv'
  BY <1>1, GuestWriteKeeps, BackupKeeps, RestoreKeeps, KillKeeps, UserVmKeeps,
     OtherImageKeeps, StutterBInv DEF Next
<1> QED
  BY <1>1, InitBInv, PTL DEF Spec

(***************************************************************************)
(* A VM that bundle.py's restore declares restored is the VM as it was at  *)
(* one instant, however the guest writes raced the backup.                 *)
(***************************************************************************)
THEOREM RestoresAnInstant == Spec => []RestoredIsInstant
<1>1. BInv => RestoredIsInstant
  BY DEF BInv
<1> QED
  BY <1>1, BundleInvariance, PTL
=============================================================================
