----------------------------- MODULE DiskStore -----------------------------
(***************************************************************************)
(* The offline snapshot tree of one disk, from the call of the engine      *)
(* (crates/vmforge-core/src/storage.rs, SubprocessStore) through the       *)
(* vmforge-storage command (storage/vmforge_storage/cli.py) to the files   *)
(* (store.py, qemu_img.py).  Every rename, unlink, replace and qemu-img    *)
(* run is a step that may fail; a process may be killed between two steps; *)
(* nothing locks the VM's directory.                                       *)
(*                                                                         *)
(* A file is a qcow2 layer: what was written into it, and the path of its  *)
(* backing file.  Paths are names: a layer whose backing file is replaced  *)
(* shows the contents of the new file.  Contents are numbers: Blank, the   *)
(* base image, or a guest write.  Sizes, modes and formats are left out,   *)
(* so that resize, check and info leave everything as it is.               *)
(***************************************************************************)
EXTENDS Naturals, FiniteSets

CONSTANTS
    Names,          \* snapshot names
    Procs,          \* callers, each with at most one vmforge-storage process
    MaxWrites,      \* bound on the number of guest writes
    MaxKills,       \* bound on the number of killed processes
    NoName          \* no snapshot

ASSUME ConstantsAssumption ==
    /\ IsFiniteSet(Names)
    /\ NoName \notin Names
    /\ MaxWrites \in Nat
    /\ MaxKills \in Nat

VARIABLES
    files,          \* the file at every path, or NoFile
    proc,           \* the call every caller has in progress
    writes,         \* number of guest writes
    kills,          \* number of processes killed
    content         \* what the disk holds, as its owner knows it

vars == <<files, proc, writes, kills, content>>

-----------------------------------------------------------------------------
Active    == "disks/disk.qcow2"
Reverting == "disks/disk.qcow2.reverting"
Image     == "images/base.qcow2"
Paths     == Names \cup {Active, Reverting, Image}    \* a snapshot: its name
NoBacking == "none"

(* Snapshots are in a directory of their own. *)
ASSUME PathsAssumption ==
    /\ NoName \notin {Active, Reverting, Image, NoBacking}
    /\ Names \cap {Active, Reverting, Image, NoBacking} = {}

Blank    == 0
BaseData == 1                                 \* what the imported image holds
Contents == 0 .. MaxWrites + 1
Nothing  == MaxWrites + 2

Unwritten == Nothing                          \* the layer holds nothing itself
Layer  == [backing : Paths \cup {NoBacking}, own : Contents \cup {Unwritten}]
NoFile == [backing |-> NoBacking, own |-> MaxWrites + 3]

Stores == [Paths -> Layer \cup {NoFile}]

Overlay(b) == [backing |-> b, own |-> Unwritten]
Full(c)    == [backing |-> NoBacking, own |-> c]

Exists(p) == files[p] # NoFile

(***************************************************************************)
(* The subcommands of vmforge-storage that read or write this disk and the *)
(* image it is cloned from; "query" stands for info, check, resize, tree   *)
(* and snapshot list, which leave all contents as they are.                *)
(***************************************************************************)
OnSnapshot == {"snapshot", "revert", "delete_snapshot"}
OnDisk     == {"create", "clone", "import", "import_image", "delete", "delete_force",
               "query"}
Commands   == OnDisk \X {NoName} \cup OnSnapshot \X Names

Steps == {"make", "convert_image", "rm_active", "rm_tree", "freeze", "overlay", "undo",
          "branch", "replace", "rebase", "unlink"}

(***************************************************************************)
(* How a process ends: exit status 0 with a result, one of store.py's      *)
(* error codes or "backend" (qemu-img failed) in an error object, a        *)
(* traceback (an exception main does not catch), a signal; or it could     *)
(* not be started, or was not, because a name is not valid.  Subprocess-   *)
(* Store makes an ErrorKind of it.                                         *)
(***************************************************************************)
Refusals == {"not_found", "already_exists", "invalid_state"}
Exits    == {"none", "ok", "backend", "traceback", "killed", "unstarted",
             "invalid_config"} \cup Refusals

ErrorKind(exit) ==
    CASE exit = "ok"             -> "Ok"
      [] exit = "not_found"      -> "NotFound"
      [] exit = "already_exists" -> "AlreadyExists"
      [] exit = "invalid_state"  -> "InvalidState"
      [] exit = "invalid_config" -> "InvalidConfig"
      [] exit = "unstarted"      -> "Io"
      [] OTHER                   -> "Backend"

(* What a user sees of the disk: what can be read of it and of every
   snapshot, and the snapshots that are there and cannot be read. *)
View    == [disk    : Contents \cup {Nothing},
            snaps   : [Names -> Contents \cup {Nothing}],
            orphans : SUBSET Names]
Nowhere == [disk |-> Nothing, snaps |-> [n \in Names |-> Nothing], orphans |-> {}]

Process == [pc    : {"closed", "idle", "done"} \cup OnDisk \cup OnSnapshot \cup Steps,
            op    : {"none"} \cup OnDisk \cup OnSnapshot,
            name  : Names \cup {NoName},
            child : Names \cup {NoName},      \* the one child, to be rebased
            onto  : Paths \cup {NoBacking},   \* what it is rebased onto
            exit  : Exits,
            was   : View]                     \* what there was at the call

Idle == [pc |-> "idle", op |-> "none", name |-> NoName, child |-> NoName,
         onto |-> NoBacking, exit |-> "none", was |-> Nowhere]

(* A caller that has no SubprocessStore yet, and one with no call in progress. *)
Closed     == [Idle EXCEPT !.pc = "closed"]
Resting(x) == proc[x] \in {Idle, Closed}

TypeOK ==
    /\ files \in Stores
    /\ proc \in [Procs -> Process]
    /\ \A x \in Procs :
         /\ proc[x].op \in OnSnapshot <=> proc[x].name \in Names
         /\ proc[x].pc = "rebase" => proc[x].child \in Names
         /\ proc[x].pc = "done" <=> proc[x].exit # "none"
    /\ writes \in 0 .. MaxWrites
    /\ kills \in 0 .. MaxKills
    /\ content \in Contents \cup {Nothing}

Init ==
    /\ files = [p \in Paths |-> NoFile]
    /\ proc = [x \in Procs |-> Closed]
    /\ writes = 0
    /\ kills = 0
    /\ content = Nothing

(***************************************************************************)
(* The layers of the files fs that QEMU can open: every file of the chain  *)
(* is there, and the chain ends.                                           *)
(***************************************************************************)
Longest == Cardinality(Paths)

StandOn(fs, S) == {p \in Paths : fs[p] # NoFile /\ fs[p].backing \in S \cup {NoBacking}}

(* The layers with a chain of at most k files. *)
Opens(fs) ==
    LET above == [S \in SUBSET Paths |-> StandOn(fs, S)]
        o[k \in 0 .. Longest] == IF k = 0 THEN {} ELSE above[o[k - 1]]
    IN  o

OpenableIn(fs) == Opens(fs)[Longest]
Openable == OpenableIn(files)

(***************************************************************************)
(* What is read through a layer: what was written into it, or what is read *)
(* through its backing file.                                               *)
(***************************************************************************)
Through(fs, below) ==
    [p \in Paths |->
        IF fs[p] = NoFile THEN Nothing
        ELSE IF fs[p].own # Unwritten THEN fs[p].own
        ELSE IF fs[p].backing = NoBacking THEN Blank
        ELSE below[fs[p].backing]]

Reads(fs) ==
    LET r[k \in 0 .. Longest] ==
          IF k = 0 THEN [p \in Paths |-> Nothing] ELSE Through(fs, r[k - 1])
    IN  r

ReadIn(fs, p) == Reads(fs)[Longest][p]
Read(p) == ReadIn(files, p)

-----------------------------------------------------------------------------
(***************************************************************************)
(* What snapshot_list finds in the qcow2 metadata.                         *)
(***************************************************************************)
Snapshots   == {n \in Names : Exists(n)}
Children(n) == {c \in Snapshots : files[c].backing = n}
Current     == files[Active].backing

(***************************************************************************)
(* What the files amount to.                                               *)
(***************************************************************************)
ViewIn(fs) ==
    LET open     == OpenableIn(fs)
        shown(p) == IF p \in open THEN ReadIn(fs, p) ELSE Nothing
    IN  [disk    |-> shown(Active),
         snaps   |-> [n \in Names |-> shown(n)],
         orphans |-> {n \in Names : fs[n] # NoFile /\ n \notin open}]

Viewed == [fs \in Stores |-> ViewIn(fs)]

Moved(fs, a, b) == [fs EXCEPT ![b] = fs[a], ![a] = NoFile]

(* Until the overlay is there the frozen file still is the disk. *)
Freezing(n) == \E x \in Procs : proc[x].pc \in {"overlay", "undo"} /\ proc[x].name = n
Standing    == IF \E n \in Names : Freezing(n)
               THEN Moved(files, CHOOSE n \in Names : Freezing(n), Active) ELSE files
Seen        == Viewed[Standing]

(* A deleted disk's snapshots are going. *)
Removing == \E x \in Procs : proc[x].pc = "rm_tree"

-----------------------------------------------------------------------------
(***************************************************************************)
(* SubprocessStore.run: start the command, wait for its end, take its      *)
(* answer.                                                                 *)
(***************************************************************************)
At(x, pc)   == proc[x].pc = pc
Goes(x, pc) == proc' = [proc EXCEPT ![x] = [@ EXCEPT !.pc = pc]]

Exit(x, how) ==
    proc' = [proc EXCEPT ![x] = [Idle EXCEPT !.pc = "done", !.op = proc[x].op,
                                             !.name = proc[x].name, !.exit = how,
                                             !.was = proc[x].was]]

(* SubprocessStore::new: a store only for a command that names this version
   of the contract; one that names another, fails, or cannot be started
   leaves the caller without. *)
ContractVersion == "1"
New(x, version) ==
    /\ proc[x] = Closed
    /\ version = ContractVersion
    /\ proc' = [proc EXCEPT ![x] = Idle]
    /\ UNCHANGED <<files, writes, kills, content>>

(* A name that its type refuses, or a command that cannot be started, ends
   the call before anything is done. *)
Call(x, op, n) ==
    /\ proc[x] = Idle
    /\ LET p == [Idle EXCEPT !.op = op, !.name = n, !.was = Seen] IN
       \/ proc' = [proc EXCEPT ![x] = [p EXCEPT !.pc = op]]
       \/ \E how \in {"unstarted", "invalid_config"} :
            proc' = [proc EXCEPT ![x] = [p EXCEPT !.pc = "done", !.exit = how]]
    /\ UNCHANGED <<files, writes, kills, content>>

Return(x) ==
    /\ At(x, "done")
    /\ proc' = [proc EXCEPT ![x] = Idle]
    /\ UNCHANGED <<files, writes, kills, content>>

(* The command ends with an error, and this step has changed nothing. *)
Fails(x, how) == Exit(x, how) /\ UNCHANGED <<files, content>>

(* What store.py itself refuses, before it has touched anything. *)
Refuse(x, code, reason) == reason /\ Exit(x, code)

(* The first steps: the checks, and the qemu-img info among them. *)
Check(x, op) ==
    /\ At(x, op)
    /\ UNCHANGED <<files, writes, kills, content>>

Query(x) ==
    /\ Check(x, "query")
    /\ \/ Refuse(x, "not_found", ~Exists(Active))
       \/ Exists(Active) /\ Exit(x, "ok")
       \/ Exists(Active) /\ Exit(x, "backend")

(***************************************************************************)
(* import_image converts a file into images/.  A convert that fails leaves *)
(* what it has written.                                                    *)
(***************************************************************************)
ImportImageCheck(x) ==
    /\ Check(x, "import_image")
    /\ \/ Exit(x, "not_found")                 \* no such source file
       \/ Refuse(x, "already_exists", Exists(Image))
       \/ ~Exists(Image) /\ Goes(x, "convert_image")

ConvertImage(x) ==
    /\ At(x, "convert_image")
    /\ \/ /\ files' = [files EXCEPT ![Image] = Full(BaseData)]
          /\ Exit(x, "ok")
       \/ /\ files' \in {files, [files EXCEPT ![Image] = Full(Blank)]}
          /\ Exit(x, "backend")
    /\ UNCHANGED <<writes, kills, content>>

(***************************************************************************)
(* create_disk, clone_disk, import_disk: the active file must not exist.   *)
(***************************************************************************)
MakeCheck(x, how) ==
    /\ Check(x, how)
    /\ \/ Refuse(x, "not_found", how = "import")  \* no such source file
       \/ Refuse(x, "not_found", how = "clone" /\ ~Exists(Image))
       \/ Refuse(x, "backend", how = "clone" /\ Exists(Image))
       \/ /\ how = "clone" => Exists(Image)
          /\ \/ Refuse(x, "already_exists", Exists(Active))
             \/ ~Exists(Active) /\ Goes(x, "make")

MakeFile(x) ==
    /\ At(x, "make")
    /\ LET how == proc[x].op IN
       \/ /\ how = "clone" => Image \in Openable
          /\ files' = [files EXCEPT ![Active] =
                         CASE how = "create" -> Full(Blank)
                           [] how = "clone"  -> Overlay(Image)
                           [] how = "import" -> Full(BaseData)]
          /\ content' = CASE how = "create" -> Blank
                          [] how = "clone"  -> Read(Image)
                          [] how = "import" -> BaseData
          /\ Exit(x, "ok")
       \/ Fails(x, "backend")
       \/ /\ how = "import"                    \* convert leaves what it wrote
          /\ files' = [files EXCEPT ![Active] = Full(Blank)]
          /\ content' = Blank
          /\ Exit(x, "backend")
    /\ UNCHANGED <<writes, kills>>

(***************************************************************************)
(* delete_disk: refused if there are snapshots, unless forced; the active  *)
(* file goes first, then the snapshots one by one.                         *)
(***************************************************************************)
DeleteCheck(x, how) ==
    /\ Check(x, how)
    /\ \/ Refuse(x, "not_found", ~Exists(Active))
       \/ /\ Exists(Active)
          /\ \/ Refuse(x, "invalid_state", Snapshots # {} /\ how = "delete")
             \/ /\ Snapshots = {} \/ how = "delete_force"
                /\ Goes(x, "rm_active")

DeleteActive(x) ==
    /\ At(x, "rm_active")
    /\ \/ /\ Exists(Active)
          /\ files' = [files EXCEPT ![Active] = NoFile]
          /\ content' = Nothing
          /\ Goes(x, "rm_tree")
       \/ Fails(x, "traceback")
    /\ UNCHANGED <<writes, kills>>

(* rmtree stops at the first file it cannot unlink. *)
DeleteTree(x) ==
    /\ At(x, "rm_tree")
    /\ \/ \E n \in Snapshots :
            /\ files' = [files EXCEPT ![n] = NoFile]
            /\ UNCHANGED <<proc, content>>
       \/ /\ Snapshots = {}
          /\ Exit(x, "ok")
          /\ UNCHANGED <<files, content>>
       \/ Fails(x, "traceback")
    /\ UNCHANGED <<writes, kills>>

-----------------------------------------------------------------------------
(***************************************************************************)
(* snapshot_create: the active file becomes the snapshot, and a fresh      *)
(* overlay on it the active file.  If that cannot be made, the rename is   *)
(* undone.  A chmod that fails after the rename, or an undo that fails,    *)
(* ends the command with the disk under the snapshot's name.               *)
(***************************************************************************)
SnapshotCheck(x) ==
    /\ Check(x, "snapshot")
    /\ \/ Refuse(x, "not_found", ~Exists(Active))
       \/ /\ Exists(Active)
          /\ \/ Refuse(x, "already_exists", Exists(proc[x].name))
             \/ ~Exists(proc[x].name) /\ (Goes(x, "freeze") \/ Exit(x, "backend"))

(* Mutant of SnapshotFreeze: the active file is dropped, not renamed. *)
SnapshotFreeze_Unlink(x) ==
    /\ At(x, "freeze")
    /\ Exists(Active)
    /\ files' = [files EXCEPT ![Active] = NoFile]
    /\ Goes(x, "overlay")
    /\ UNCHANGED <<writes, kills, content>>

SnapshotFreeze(x) ==
    /\ At(x, "freeze")
    /\ \/ /\ Exists(Active)
          /\ files' = Moved(files, Active, proc[x].name)
          /\ Goes(x, "overlay") \/ Exit(x, "traceback")    \* chmod fails
          /\ UNCHANGED content
       \/ Fails(x, "traceback")                \* rename fails
    /\ UNCHANGED <<writes, kills>>

(* Mutant of SnapshotOverlay: the new file is made without a backing file. *)
SnapshotOverlay_NoBacking(x) ==
    /\ At(x, "overlay")
    /\ \/ /\ proc[x].name \in Openable
          /\ files' = [files EXCEPT ![Active] = Full(Blank)]
          /\ Exit(x, "ok")
       \/ /\ Goes(x, "undo")
          /\ UNCHANGED files
    /\ UNCHANGED <<writes, kills, content>>

SnapshotOverlay(x) ==
    /\ At(x, "overlay")
    /\ \/ /\ proc[x].name \in Openable
          /\ files' = [files EXCEPT ![Active] = Overlay(proc[x].name)]
          /\ Exit(x, "ok")
       \/ /\ Goes(x, "undo")
          /\ UNCHANGED files
    /\ UNCHANGED <<writes, kills, content>>

(* Mutant of SnapshotUndo: the exception is passed on, the rename stays. *)
SnapshotUndo_Skip(x) ==
    /\ At(x, "undo")
    /\ Exit(x, "backend")
    /\ UNCHANGED <<files, writes, kills, content>>

SnapshotUndo(x) ==
    /\ At(x, "undo")
    /\ \/ /\ Exists(proc[x].name)
          /\ files' = Moved(files, proc[x].name, Active)
          /\ Exit(x, "backend")
          /\ UNCHANGED content
       \/ Fails(x, "traceback")                \* chmod or rename fails
    /\ UNCHANGED <<writes, kills>>

-----------------------------------------------------------------------------
(***************************************************************************)
(* snapshot_revert: a fresh overlay on the snapshot replaces the active    *)
(* file in one step.                                                       *)
(***************************************************************************)
RevertCheck(x) ==
    /\ Check(x, "revert")
    /\ \/ Refuse(x, "not_found", ~Exists(Active) \/ ~Exists(proc[x].name))
       \/ Exists(Active) /\ Exit(x, "backend")
       \/ Exists(Active) /\ Exists(proc[x].name) /\ Goes(x, "branch")

RevertBranch(x) ==
    /\ At(x, "branch")
    /\ \/ /\ proc[x].name \in Openable
          /\ files' = [files EXCEPT ![Reverting] = Overlay(proc[x].name)]
          /\ Goes(x, "replace")
          /\ UNCHANGED content
       \/ Fails(x, "backend")
    /\ UNCHANGED <<writes, kills>>

RevertReplace(x) ==
    /\ At(x, "replace")
    /\ \/ /\ Exists(Reverting)
          /\ files' = Moved(files, Reverting, Active)
          /\ content' = Read(proc[x].name)
          /\ Exit(x, "ok")
       \/ Fails(x, "traceback")
    /\ UNCHANGED <<writes, kills>>

(***************************************************************************)
(* snapshot_delete: refused for the current snapshot and for one with more *)
(* than one child.  An only child is rebased onto the parent first, which  *)
(* copies into it what it would no longer read.                            *)
(***************************************************************************)

(* Mutant of DeleteSnapshotCheck: the current snapshot is not refused. *)
DeleteSnapshotCheck_Current(x) ==
    /\ Check(x, "delete_snapshot")
    /\ LET n == proc[x].name IN
       \/ Refuse(x, "not_found", ~Exists(Active) \/ ~Exists(n))
       \/ /\ Exists(Active) /\ Exists(n)
          /\ \/ Refuse(x, "invalid_state", Children(n) # {})
             \/ Children(n) = {} /\ Goes(x, "unlink")

DeleteSnapshotCheck(x) ==
    /\ Check(x, "delete_snapshot")
    /\ LET n      == proc[x].name
           parent == files[n].backing IN
       \/ Refuse(x, "not_found", ~Exists(Active) \/ ~Exists(n))
       \/ Exists(Active) /\ Exit(x, "backend")
       \/ /\ Exists(Active) /\ Exists(n)
          /\ \/ Refuse(x, "invalid_state", Current = n)
             \/ /\ Current # n
                /\ \/ Refuse(x, "invalid_state", Cardinality(Children(n)) > 1)
                   \/ /\ Children(n) = {}
                      /\ Goes(x, "unlink")
                   \/ \E c \in Names :
                        /\ Children(n) = {c}
                        /\ \/ Refuse(x, "not_found", parent \in Names /\ ~Exists(parent))
                           \/ /\ parent \in Names => Exists(parent)
                              /\ proc' = [proc EXCEPT ![x] =
                                   [@ EXCEPT !.pc = "rebase", !.child = c,
                                             !.onto = IF parent \in Names THEN parent
                                                      ELSE NoBacking]]

(* A safe rebase: c keeps what it reads. *)
Rebased(c, b) == [files EXCEPT ![c] = [backing |-> b, own |-> Read(c)]]

(* Mutant of DeleteSnapshotRebase: an unsafe rebase (-u). *)
DeleteSnapshotRebase_Unsafe(x) ==
    /\ At(x, "rebase")
    /\ files' = [files EXCEPT ![proc[x].child] = [@ EXCEPT !.backing = proc[x].onto]]
    /\ Goes(x, "unlink")
    /\ UNCHANGED <<writes, kills, content>>

DeleteSnapshotRebase(x) ==
    /\ At(x, "rebase")
    /\ \/ /\ proc[x].child \in Openable
          /\ proc[x].onto \in Openable \cup {NoBacking}
          /\ files' = Rebased(proc[x].child, proc[x].onto)
          /\ Goes(x, "unlink") \/ Exit(x, "traceback")     \* chmod fails
          /\ UNCHANGED content
       \/ Fails(x, "backend")
       \/ Fails(x, "traceback")                \* chmod fails
    /\ UNCHANGED <<writes, kills>>

DeleteSnapshotUnlink(x) ==
    /\ At(x, "unlink")
    /\ \/ /\ Exists(proc[x].name)
          /\ files' = [files EXCEPT ![proc[x].name] = NoFile]
          /\ Exit(x, "ok")
          /\ UNCHANGED content
       \/ Fails(x, "traceback")
    /\ UNCHANGED <<writes, kills>>

-----------------------------------------------------------------------------
(***************************************************************************)
(* The VM runs on the active file while no storage operation is in         *)
(* progress: storage trusts the engine with that.                          *)
(***************************************************************************)
GuestWrite ==
    /\ \A x \in Procs : Resting(x)
    /\ Active \in Openable
    /\ writes < MaxWrites
    /\ writes' = writes + 1
    /\ files' = [files EXCEPT ![Active] = [@ EXCEPT !.own = writes + 2]]
    /\ content' = writes + 2
    /\ UNCHANGED <<proc, kills>>

(* A process is killed, or the host loses power. *)
Kill(x) ==
    /\ ~Resting(x) /\ ~At(x, "done")
    /\ kills < MaxKills
    /\ kills' = kills + 1
    /\ Exit(x, "killed")
    /\ UNCHANGED <<files, writes, content>>

Next ==
    \/ GuestWrite
    \/ \E x \in Procs :
        \/ \E version \in {"1", "2", "none"} : New(x, version)
        \/ \E c \in Commands : Call(x, c[1], c[2])
        \/ Return(x)
        \/ Query(x)
        \/ ImportImageCheck(x) \/ ConvertImage(x)
        \/ \E how \in {"create", "clone", "import"} : MakeCheck(x, how)
        \/ MakeFile(x)
        \/ \E how \in {"delete", "delete_force"} : DeleteCheck(x, how)
        \/ DeleteActive(x) \/ DeleteTree(x)
        \/ SnapshotCheck(x) \/ SnapshotFreeze(x) \/ SnapshotOverlay(x) \/ SnapshotUndo(x)
        \/ RevertCheck(x) \/ RevertBranch(x) \/ RevertReplace(x)
        \/ DeleteSnapshotCheck(x) \/ DeleteSnapshotRebase(x) \/ DeleteSnapshotUnlink(x)
        \/ Kill(x)

Spec == Init /\ [][Next]_vars

-----------------------------------------------------------------------------
(***************************************************************************)
(* Properties.                                                             *)
(***************************************************************************)

(***************************************************************************)
(* The store keeps the promise of SnapshotTree: through the renames, the   *)
(* overlays and the rebases of one operation after the other, failed,      *)
(* abandoned and killed ones included, a snapshot reads as the disk did    *)
(* when it was taken.                                                      *)
(***************************************************************************)
Tree == INSTANCE SnapshotTree
          WITH disk <- Seen.disk, snaps <- Seen.snaps, orphans <- Seen.orphans

ImplementsTree == Tree!Spec

(***************************************************************************)
(* No step takes a layer's backing file away from under it: the active     *)
(* disk and every snapshot that can be opened can be opened after it, or   *)
(* are gone, and no new layer is made that cannot be opened.  Excepted is  *)
(* the rmtree of a deleted disk, which takes snapshots in any order.       *)
(***************************************************************************)
Broken == Seen.orphans \cup {p \in {Active} : Exists(p) /\ p \notin Openable}

ChainsIntact == [][~Removing => Broken' \subseteq Broken]_vars

(***************************************************************************)
(* An Ok that SubprocessStore hands to the engine is the truth: the files  *)
(* read as the call promises, measured against what they read when the     *)
(* call was made, whatever earlier calls have failed half-way or been      *)
(* killed.  Only what such a delete has left unreadable may be read again  *)
(* when the name it stands on is given to a new snapshot.                  *)
(***************************************************************************)
Promised(op, n, was) ==
    CASE op = "create"          -> [was EXCEPT !.disk = Blank]
      [] op = "clone"           -> [was EXCEPT !.disk = Read(Image)]
      [] op = "import"          -> [was EXCEPT !.disk = BaseData]
      [] op = "snapshot"        -> [was EXCEPT !.snaps[n] = was.disk]
      [] op = "revert"          -> [was EXCEPT !.disk = was.snaps[n]]
      [] op = "delete_snapshot" -> [was EXCEPT !.snaps[n] = Nothing, !.orphans = @ \ {n}]
      [] op \in {"delete", "delete_force"}   -> Nowhere
      [] op \in {"query", "import_image"}    -> was

Answered(x, kinds) == At(x, "done") /\ ErrorKind(proc[x].exit) \in kinds

(* v is u but for orphans that can be read again. *)
Revives(u, v) ==
    /\ v.disk = u.disk
    /\ \A n \in Names : u.snaps[n] # Nothing => v.snaps[n] = u.snaps[n]

OkMeansDone ==
    \A x \in Procs :
        Answered(x, {"Ok"}) =>
            LET p == Promised(proc[x].op, proc[x].name, proc[x].was)
            IN  Seen = p \/ (proc[x].op = "snapshot" /\ Revives(p, Seen))

(***************************************************************************)
(* An error can be retried: the disk and every snapshot read as they did   *)
(* before the call.  This holds for every refusal and for every call that  *)
(* failed half-way or was killed, the undone freeze, the abandoned revert  *)
(* and the snapshot whose child was rebased but that was not unlinked      *)
(* among them.  Only a snapshot that ends with a traceback or a signal may *)
(* leave no disk: then it is under the snapshot's name, and a retry is     *)
(* refused.  Excepted are an import or a delete of a disk that failed      *)
(* half-way, and a killed process that was making or deleting a disk.      *)
(***************************************************************************)
Stranded(n, was) == [was EXCEPT !.disk = Nothing, !.snaps[n] = was.disk]

ErrorKeepsTree ==
    \A x \in Procs :
        LET p == proc[x] IN
        /\ Answered(x, {"NotFound", "AlreadyExists", "InvalidState", "InvalidConfig", "Io",
                        "Backend"})
        /\ p.exit \in {"backend", "traceback"} => p.op \notin {"import", "delete", "delete_force"}
        /\ p.exit = "killed" => p.op \in OnSnapshot
        => \/ Seen = p.was
           \/ /\ p.op = "snapshot" /\ p.exit \in {"traceback", "killed"}
              /\ Revives(Stranded(p.name, p.was), Seen)

(***************************************************************************)
(* Wherever a process is killed, what the guest last wrote is still in the *)
(* active file, or in the snapshot the active file was renamed to.         *)
(***************************************************************************)
ContentKept ==
    content # Nothing =>
        \E p \in Names \cup {Active} : p \in Openable /\ Read(p) = content

(***************************************************************************)
(* store.py: "The active disk is always a writable overlay whose backing   *)
(* file is the 'current' snapshot".  Whenever no operation is in progress, *)
(* a disk that was made and not deleted has its active file.               *)
(***************************************************************************)
ActiveAlways ==
    (\A x \in Procs : Resting(x)) /\ content # Nothing => Exists(Active)
=============================================================================
