# VMForge in TLA+

TLA+ models of VMForge (`src/`): the virtual-machine backend that drives QEMU,
the QMP client under it, the snapshot DAG, the offline disk store, backup
bundles, the guest-agent channel, port forwards and the `diagnose` command. TLC
checks small instances; TLAPS proves the central invariants for every value of
the constants.

## 1. The system

VMForge is a Rust engine with Python tools beside it. There is no daemon: the
engine is a library that keeps the VMs of one process in memory, and
`vmforge-storage` and `vmforgectl` are commands that run when called.

| Component | Source | State it keeps | Operations | Module |
|---|---|---|---|---|
| Lifecycle table | `crates/vmforge-core/src/state.rs`, trait in `lib.rs` | none (a partial function) | `transition` | `VmState`, `Lifecycle` |
| HVF backend, QEMU process | `crates/vmforge-backend-hvf/src/lib.rs`, `crates/vmforge-engine-qemu/src/vm.rs` | map of VM entries (state, process, `snapshot_seq`, active layers, snapshots) behind one mutex; QEMU children | create, boot, pause, resume, stop, snapshot, restore, delete | `HvfBackend` |
| QMP client | `crates/vmforge-engine-qemu/src/qmp.rs` | a socket with a buffer | connect, execute | `QmpClient` |
| Snapshot DAG | `crates/vmforge-core/src/snapshot.rs` | id to node | insert, children, lineage | `SnapshotStore` |
| Disk store | `storage/vmforge_storage/store.py`, `qemu_img.py` | qcow2 files and their backing pointers | create, clone, import, delete; snapshot create, revert, delete | `SnapshotTree`, `DiskStore` |
| Engine-storage boundary | `crates/vmforge-core/src/storage.rs`, `storage/vmforge_storage/cli.py` | none (a process per call) | the version handshake; the calls of `StorageProvider`, each a `vmforge-storage` command | `DiskStore` |
| Bundles | `storage/vmforge_storage/bundle.py` | a tar file with a manifest; a staging directory | backup, restore | `Bundle` |
| Guest-agent channel | `guest-tools/host/vmforgectl.py`, `guest-tools/agent/vmforge-ga.py` | request ids; one virtio-serial connection | execute, wait_ready, wait_down, shutdown_graceful; serve | `GuestAgent` |
| Port forwarding | `crates/vmforge-core/src/net.rs`, `net` commands of `crates/vmforge-cli/src/main.rs` | none; the rules are QEMU's | `net args`, `net ssh-command`; hostfwd_add, hostfwd_remove | `NetCommand`, `PortForward` |
| `vmforge diagnose` | `crates/vmforge-cli/src/diagnose.rs`, `redact.rs`, `tarball.rs`, `cmd_diagnose` of `main.rs` | the report while it is put together | one command: collect, redact, render, write | `Redact`, `Diagnose` |

**How they interact.** A caller uses the `Hypervisor` trait. `HvfBackend` checks
the lifecycle table, runs `qemu-img` for overlays, spawns QEMU through
`QemuVm`, and sends it commands through `QmpClient`, all with the mutex held.
`vmforge-storage` works on the files of VMs that are not running; nothing but
convention keeps it apart from the engine or from a second copy of itself.
Bundles read and write the store's files. The guest agent answers requests that
reach it through a chardev socket of QEMU; QEMU serves one connection at a time.
Forward rules go into QEMU's command line, or over its monitor while it runs.
`vmforge diagnose` reads the VMForge home, with its logs, while the engine works
in it, and asks `vmforge-storage` about disks.

**What is hard.** Operations of several steps in which each step may fail
(snapshot: stop, an overlay per disk, migrate, wait, cont; restore: quit,
overlays, spawn, incoming, wait, cont). A guest that writes between the steps.
Replies after a timeout, on a protocol without ids. Processes killed between a
rename and the creation of what replaces the file. Two processes on one
directory without a lock. Files read twice (for the checksum, for the archive)
while they change. A client that goes away in the middle of a request. Ports that
others take between a decision and a bind, and answers about them that are lost.
Logs that grow, are rotated and vanish between the look at their length and the
read; texts filtered in parts and then joined. `PROJECT.json` lists these hazards with their lines.

## 2. Modules

**`VmState`, `Lifecycle`.** The table of `VmState::transition`, and the abstract
specification of what the trait promises about the recorded state of every VM:
it moves along the table only, and a snapshot that has begun ends in the state
it began in (with fairness of that end).

**`HvfBackend`.** One `VmEntry` per name (`vms`), the operation that holds the
mutex with its local variables (`op`), the QEMU processes (`procs`), what is on
disk (`data`, `saved`) and a count of guest writes. Single-command operations
(`Create`, `Pause`, `Resume`, `Stop`, `Delete`) are one action; boot, snapshot
and restore are one action per command, each with its failing branch. `Call`
starts an operation, `Proceed` continues it, `Environment` is QEMU and the
guest: writes, I/O errors, exits, the end of a migration. A layer is the number
of the tag it was created for; its content is the last write visible through
it, and a process carries the view its RAM has of the disks, so that "RAM and
disks belong together" is a comparison of numbers. One exchange on the QMP
socket is one step (`Replies`): the answer of this command or, with unread
replies in the socket, of an earlier one, or a timeout that leaves one unread.
`QmpClient` justifies that step (`AnswersLag`). A poll of `query-migrate`
during the wait of restore is a stutter: no reply can be outstanding on the new
connection there; a poll during the wait of snapshot may consume a late reply
and is `SnapshotPoll`. Calls that return an error before they change anything
are stutters and are left out.

**`QmpClient`.** Connect, greeting, `execute` and its read loop against a QEMU
that answers in order, sends events, stops answering, tears a message at the
timeout or closes. Commands are numbered for the model only.

**`SnapshotStore`.** `insert` (which validates the parent and overwrites),
`children`, `lineage`. `Spec` allows any id, `FreshSpec` only new ones, the
case the code's callers are in as long as content hashes differ.

**`SnapshotTree`, `DiskStore`.** `SnapshotTree` is the promise: the disk has
contents, a snapshot keeps them under a name, revert brings them back. It also says
what may be left when a command ends half-way, and no more than that: a disk under a
snapshot's name (`Strand`), snapshots of a deleted disk that go one by one
(`Discard`), and snapshots that are there and cannot be read (`orphans`), which a new
snapshot of the name they stand on may bring back.
`DiskStore` has a file per path (what was written into the layer, and the path
of its backing file) and callers with a `vmforge-storage` process each. `New` is the
handshake of a caller: without the expected contract version it makes no calls.
`Call` starts a command (or fails to, or refuses a name before it starts one); a
`...Check` action is what the store verifies
before it touches anything, with every refusal and its error code; then every
rename, chmod, unlink, replace and `qemu-img` run is a step that may fail; `Return`
hands the outcome to the engine. The `chmod` after the rename in `snapshot_create`
(`store.py:227`) and those of its undo (233-234) and of `snapshot_delete` are among
them: one that raises ends the command with a traceback, the rename done. `rmtree`
(199) removes snapshots one by one, in any order, and may stop after any of them. A
process may be killed between two steps. How
it ended (`exit`) is what it leaves on stderr and as its status; `ErrorKind` is
what `SubprocessStore::run` makes of that, where a failed `qemu-img`, an uncaught
`OSError` and a kill all become `Backend`. `was` remembers what the disk and the
snapshots read when the call was made. `ReadIn` and `OpenableIn` are functions of the
files alone, `Read` and `Openable` their values now: what is read through a chain,
and the layers whose chain is complete (those with a chain of at most as many files
as there are paths). The refinement mapping (`Seen`) is what the files amount to, as a
user sees it: what can be read of the disk and of every snapshot, and the snapshots
that cannot be read. Between the rename of a snapshot and its overlay the frozen file
still counts as the disk (`Standing`).

**`Bundle`.** Backup hashes every file, opens the archive, copies every file;
restore opens the archive, extracts and verifies, places the base image (a look
whether there is one, then the comparison or the move, each a step), removes the old
directory, assembles, checks. The guest writes meanwhile; members are damaged; either
process is killed; others make and delete a VM (`UserVm`) and place an image
(`OtherImage`) in the restoring home, also during a restore. `held` remembers every
state the VM was ever in.

**`GuestAgent`.** Clients with their phase, the kernel's backlog, the one
connection, the port, the reply the agent holds and the guest. A client is somebody
who runs `vmforgectl`: `Start` is a new process, whose ids begin at 1 again
(`_id = 0`, `vmforgectl.py:62`), and the replies to its earlier processes may still
come. A reply goes to whoever is connected when it is written. `check_protocol` may
refuse the agent's version. All timeouts are choices. A client that
ends in the middle of a request (`SendCut`) leaves the beginning of a line in the
agent's buffer, which the next request is appended to. Messages are numbered
(`serial`) for the properties only; `own` is whether a process has taken only
replies to its own requests.

**`NetCommand`, `PortForward`.** `NetCommand` is the pure part: a spec is the
sequence of its fields, `Parse` decides by their number what they are, and the
`net` commands take their flags from left to right. `Forms` and `Malformed` are the
documented forms, written independently of `Parse`. There are four of them; the code
has no pattern for an address without a protocol (`AddressFirst`), which section 5
comes back to. `PortForward` adds QEMUs that are started
with those rules, other programs that take and free ports, and calls whose answer
may be lost. QEMU's monitor is external: an add that went well prints nothing, and a
removal is reported in words, like its failure. The backend keeps no state, so the
ghosts `known` and `doubt` stand for what a caller may conclude from the answers.

**`Redact`, `Diagnose`.** A text is a sequence of symbols, one for every kind of
word the rules of the filter tell apart, and a symbol is a byte where `diagnose`
counts bytes (`L` and `C` are the two bytes of one character). The functions on
texts are recursive functions, not operators. `Assigned` and `Secret` say where the
rules of `redact.rs` look, word by word, and `DocumentedSecret` where the documents
say they do. `Diagnose` is one command from its
arguments to its exit code: each look at the home is a step of its own (status,
disks and network of a VM; opening a log and asking for its length, the seek, and the
read), and between any two the engine may append to a log, cut or remove it, or delete a
VM. `disturbed` remembers the logs that were cut or removed. A write may
fail and leaves a part of what it was to write.

`MC*` modules extend these for TLC and add symmetry sets; `*_proofs` modules
hold the theorems.

## 3. Runs

| Run | Instance | What it shows |
|---|---|---|
| `hvf_safety` | 1 VM, 2 disks, 3 tags, 2 writes, 2 processes | RAM and disks of a snapshot are of one instant, a guest finds the disks its RAM remembers, no step writes a frozen layer |
| `hvf_lifecycle` | 1 VM, 1 disk, 2 tags, 1 write, 1 late reply | the invariant of the proofs, no orphan and no second QEMU, every operation returns, refinement of `Lifecycle` |
| `qmp_lag` | 5 commands, 2 events | the invariant of the proofs; answers lag by exactly the calls that gave up; every call returns |
| `disk_tree` | 2 names, 1 write, 2 kills, failing steps | no step takes a backing file away; the files implement `SnapshotTree`; an `Ok` was done, an error changed nothing the caller can see but what it says; what the guest last wrote is still readable somewhere |
| `dag_fresh` | 5 ids | no unknown parent, no cycle, `lineage` reaches a root |
| `agent_one` | 1 client with a process per command, 5 requests, 2 of them cut off | no process takes a late reply to a request of its own, nor one that is awaited elsewhere; a request cut off spoils at most the next one; graceful means accepted, unless the process was misled by a reply to another one; every call ends |
| `bundle_restore` | 2 files, 3 writes, 2 faults | the invariant of the proofs; what is declared restored is the VM of one instant, also if others make a VM or an image meanwhile |
| `net_forward` | 1 VM, 2 ports, 4 rules, 2 lost answers, 38 command lines | specs are read as documented, but for one form; what a caller concludes from the answers is what QEMU forwards |
| `diag_bundle` | 2 VMs, 3 log paths, 2 changes of the home, short config texts | the report and the bundle hold every log that was left alone, each excerpt is a redacted tail, nothing a rule looks for is left in what passed the filter, ordinary lines are kept, exit 0 means a complete bundle, the date is right, the command ends |
| `hvf_stopped_disk`, `bundle_reject`, `net_remove` | small | counterexamples, section 5 |

**Bounds and why they are enough.** Three tags allow a snapshot, a restore of it and a
second snapshot or restore on the branch; two disks are the least with something
between two overlays; two writes distinguish before, during and after. Two process ids
are needed for an old and a new QEMU of one VM (a third never runs). `hvf_safety` has
no late reply (`MaxUnread = 0`): with one its statement is false (section 5). Two
snapshot names are a chain with a middle to squash (the active file stands on one of
them), a fork, and a snapshot that stands on one that is gone; two kills and any
number of failing steps leave such files behind and then meet them again; the theorems
have any number of names, writes and kills. One client with five requests is several
processes with equal ids, one of which is late; two clients at once are covered by the
theorems, and were checked with three requests. Two files and three writes are the
least with which a bundle could mix two instants with matching checksums if they were
taken late. Five commands with one timeout show a lag that persists. VMs share only
the mutex and the process table; one VM is checked, and the theorems cover any number.
`net_forward` has two ports, of which the second stands for 22, so numerals 0 to 3 are
below, at, and above the range; its rules name one host port without an address, on
loopback, on all interfaces and for UDP, which are the ways two rules can and cannot
exclude each other. Other VMs are programs that take ports. The command lines have
each of the documented forms, and specs that have none. Two lost answers are a lost
answer and a lost retry. In `diag_bundle` the limits of the code are small (2 logs per
VM, 6 bytes, 2 lines, blocks of 3) and the logs lie below, at and above each of them.
The configuration texts are all of up to 3 symbols and all of up to 4 lines of a
choice of short ones; the days are four years from 1970 and the years around the turns
to 2000 and 2100. Two changes let a log be cut and written again between the look at
its length and the read. A failed write leaves nothing or all but its last unit.
`SnapshotStore_fresh.cfg` and `Diagnose_bundle.cfg` set `CHECK_DEADLOCK FALSE`: a
store that holds all ids of the instance and a command that has exited are legitimate
ends.

**Fairness.** `HvfBackend`: weak fairness of `Proceed`, the thread inside an
operation. Every wait for QEMU in it has a deadline in the code (connect 10 s, read
30 s, migration 120 s, quit 10 s), so a step is always enabled. The one thing it waits
for without a deadline is `qemu-img create` in `create_overlay`
(`vmforge-backend-hvf/src/lib.rs:134-139`, `Command::output()`), a local command that
makes a small file and is taken to return, well or with an error; nothing is assumed
about callers, QEMU or guests. `QmpClient`: weak fairness of the client's own
steps, the read timeout among them; the number of events is bounded, which
matters (section 6). `GuestAgent`: the client's own steps and its clock; the hard-stop
command of the user (`vmforgectl.py:275`), which runs without a timeout, is taken to
return. `Diagnose`: weak fairness of `Command`, one process that waits for nobody but
the programs it asks (`diagnose.rs:402-414`, `533`), which have no timeout and are taken
to return; the changes of the home owe nothing.

Every module with variables has a type invariant. Those of `HvfBackend`,
`SnapshotStore`, `Bundle` and `QmpClient` are the first conjuncts of inductive
invariants among the runs' properties (`IInv`, `SInv`, `BInv`, `QInv`), those of
`GuestAgent` and `PortForward` of `CInv`, `GInv` and `PInv`, which are proved, and
that of `DiskStore` is proved by itself (`TypesHold`); that of `Diagnose` holds in the
instance above when it is added as an `INVARIANT`.

Every property of a passing run has a mutant in `PROJECT.json`: a definition
named `<definition>_<change>` beside the one it changes, under which TLC finds
the property violated.

## 4. Proofs

All proofs are checked by TLAPS without assumptions other than the named ones on
constants in the modules.

* `HvfBackend_proofs`. `Invariance`: `Spec => []IInv`, from `TypeOK`, `OpShape`
  and `Ownership`. "No orphan" (`QemuOwned`) is not inductive alone: that boot
  may spawn a process needs that the entry holds none, which needs that
  Defined and Stopped entries have none (`Ownership`) and that the locals of
  an operation exist only at the steps that set them (`OpShape`); otherwise a
  drop at an error could miss a process. From it: `TypeCorrect`, `NoOrphan`,
  `SingleWriter`, `RestIsQuiet`, and `RefinesLifecycle`, the step simulation of
  `Lifecycle` (initial states to initial states, every step to a step or a
  stutter). Assumptions: the null values are outside the sets, at least one
  disk, natural bounds.
* `SnapshotStore_proofs`. `LineageEnds`: `FreshSpec => []SInv`. There is no cycle
  of parent pointers, stated as "every nonempty set of nodes has one whose parent
  is outside". A new node is nobody's parent because all parents are known.
  `LineageIsComplete`: `FreshSpec => []LineageReachesRoot`. The result of the loop
  after `n` nodes is a walk along the parents that has come to a root or was cut off
  (`Walk`, by induction on `n`). A node visited twice would close a cycle, so the
  nodes of a walk are distinct, there are at most as many as ids, and the loop, which
  may take one more, was not cut off.
* `Bundle_proofs`. `BundleInvariance` and `RestoresAnInstant`: what restore
  declares successful is in `held`. The argument: a file only gets newer; the
  checksums are all taken before the archive is opened and the copies after, so
  the state `h` at the opening lies, file by file, between checksum and copy;
  where they are equal, `h` has that content. `OfOneInstant` is what survives
  the end of the backup, damage, and the opening by a restore. It does not matter what
  others do in the restoring home meanwhile.
* `DiskStore_proofs`. First the theory of chains, for any files: the layers that open
  are the least set that contains the layers standing on it (`OpenableLeast`,
  `OpenableFixed`), and what is read through one is what is read through its backing
  file unless it was written (`ReadUnfold`). A set of layers that stands by itself and
  that a step leaves alone opens and reads as before (`Untouched`, `Apart`); a layer
  is not below itself (`ChainBelow`); a safe rebase changes what nobody reads
  (`RebaseKeeps`), a rename what only the renamed path reads (`RenameKeeps`).
  `TypesHold` is for any processes. The other theorems are for one process at a time
  (`OneProcess`), which is what the contract asks of the engine, and for any number of
  failing steps and of kills. `KInv`: backing files are snapshots or the image, the
  process knows what its checks found (`StepFits`: between check and rename nothing
  has changed, the overlay of a revert stands on the snapshot, the child to be rebased
  is the only one), and the active file, if there is one, opens and holds what the
  guest last wrote. Hence `ContentIsKept`. `NInv`: what is seen of the tree is what it
  was at the call until the one step that changes it, and when a call has ended it is
  what the answer says (`OkFits`, `ErrorFits`); and where there is no image nothing
  stands on one (`Based`), so that an import of the image brings back no layer that
  somebody sees. It cannot say that every snapshot opens: after an `rmtree` that
  stopped some do not, and a snapshot of the name they stand on brings them back
  (`Revives`). Every step is shown to change what is seen as one step of
  `SnapshotTree` does, or not at all (`ViewStep`, `StepN`); that step never adds to
  the orphans unless a deleted disk is being removed. Hence `ChainsStayIntact`,
  `OkIsTheTruth`, `ErrorsKeepTheTree`, `StoreImplementsTree`. `OneProcess` is needed:
  section 5 has the counterexample with two.
* `HvfBackend_proofs`, the disks. `DiskInvariance`: `Spec => []DInv` if no reply is late
  (`MaxUnread = 0`), for any number of VMs, disks, tags, processes and guest
  writes. The hypothesis is needed: section 5 has the counterexample with one late
  reply. Consistency of recorded snapshots is not inductive alone. `DInv` adds to
  `IInv`: what an entry records is not newer than its last tag, and its active
  layers are none that a snapshot stands on (`EntryOK`); a QEMU has its top layers
  on none of these either, and its guest's view agrees with them (`ProcOK`); until
  the RAM of a snapshot is saved the guest is halted and the overlays made so far
  read as the layers under them, and what is saved agrees with the layers that are
  then frozen (`SnapshotOK`, `HaltedOK`); during a restore the overlays read as the
  bases of the snapshot that is loaded (`RestoreOK`), and the new QEMU waits until
  it is told what to load (`IncomingOK`; the proof attempt showed that the invariant
  is not inductive without it). From it:
  `SnapshotsAreConsistent`, `GuestsAreConsistent`, and the action property
  `LayersStayFrozen`. For that one, the bases of a recorded snapshot are not
  exchanged and its RAM state is not written over by any step; as RAM state and
  frozen layers agree before and after the step, the layers have not changed either.
* `QmpClient_proofs`. `ConnectionInvariance`: `Spec => []QInv`. That answers lag
  (`AnswersLag`) needs that nothing is answered before the first command
  (`Handshake`), that events answer nothing and answers always a command
  (`MessagesOK`), and that the answers left by a QEMU that has gone are still
  consecutive (`LeftInOrder`).
  From it `NeverCatchesUp` and `PayloadLags`: after a timeout a connection is behind
  for good, by one for every call that gave up. This is what `Replies` of
  `HvfBackend` takes as one step.
* `GuestAgent_proofs`. For any number of clients, `ChannelInvariance` (`[]CInv`):
  requests reach the agent in the order of their sending, and each that was cut
  short is on its way, is the line begun in the agent's buffer, has spoiled one
  other, or is gone; hence `CutsSpoilFew`. `GInvariance` (`[]GInv`), also for any
  number of clients, each of which starts process after process: the serial number of
  a message tells who sent it, and of the messages of one process only that of its last
  request has its id (`Numbered`); while a client waits, its request is at the agent
  only with this client connected, and the reply comes to nobody else (`Connected`);
  and an accepted shutdown that its client has not heard of yet has begun the power-off
  (`Asked`). Hence `RepliesFit`, for the action property `RepliesMatch`, and
  `GracefulWasAsked`. That a reply is always to one's own request is false (section 5):
  ids start at 1 in every process.
* `PortForward_proofs`. `ForwardInvariance`: `Spec => []PInv`. Until QEMU executes a
  call, the caller is right about every address not in doubt; from then until the
  answer is taken or lost, about every address but that of the call, of which the
  answer on its way tells the truth. Hence `CallersKnow`.
  `PrintsTheRules` is about the flags: what `Parse` makes of one spec is a rule that
  has the spec among its documented forms (`ParsedHasForm`), and every form is parsed
  to its rule (`FormIsParsed`) but for that of an address without a protocol, for any
  range of ports; by induction over the flags
  the options hold the rule of the i-th `--forward` flag at the i-th place, or the
  command has ended and a flag so far is malformed or of that form (`Taken`, `AllTaken`).
* `Diagnose_proofs`. First what the functions on texts do, for every text: `Lines`
  cuts after each line end and `Joined` puts the lines together again
  (`LinesEquation`, `JoinedLines`), so the last lines of a text are an end of it that
  begins after a line end (`LastLine`, `OneMoreLine`, `ExcerptFacts`); the filter and
  the rendering return texts. `LogInvariance`: `Spec => []LInv`. That listed logs are
  kept is not inductive alone: for the VM being collected, a listed log is yet to be
  read, is between its opening and its read, or is kept (`VmKept`); one that is yet to
  be read and was not disturbed is still there (`StillThere`), and one that is open is
  not shorter than it was when its length was asked for (`NotShorter`), so that the
  seek succeeds (`ReadSucceeds`). Hence `LogsAreKept` and `ExcerptsAreTails`.
  `BundleInvariance`: `Spec => []TInv`, which adds to `LInv` that while a tar is
  written the output holds the first planned entries and `entries` the rest
  (`Partly`), and that with `--vm` the VM is yet to be collected, being collected, or
  the only one of the report (`OneVm`). The reader of the tests is a recursion over
  offsets; it exists because every header sends it forward (`ReadsExist`,
  `ReaderEquation`), and a size rounded up to blocks is the contents and the padding
  that `TarEntry` writes (`RoundsUp`), so it finds the next header where one is
  (`ReadsOne`, `ReadsBack`). Hence `BundlesAreComplete`, for every block size and
  every content.

  The filter. One pass over a line leaves nothing for a second one (`KeyValueSettles`,
  `MaskTwice`, `RedactLineFacts`), so a text that was filtered is clean, left as it is
  by the filter (`RedactCleans`), and clean texts put together are clean again
  (`CleanMakes`, `CleanKept`). From the invariant that the configuration section, the
  bodies and the excerpts are clean (`Cleared`), and as a clean line has no word where
  a rule looks (`CleanLineTells`), comes `NothingIsDisclosed`, without hypotheses: it
  holds for an excerpt that begins in the middle of a line, and for a body that is
  filtered a second time. Where no line opens a PEM block the filter goes line by line
  (`RedactUnopened`), and nothing that it returned has such a line (`QuietMakes`,
  `VmBeginQuiet`, `VmDisksQuiet`, `VmNetworkQuiet`); so the line of the logs, which no
  rule speaks of (`LogsLineClean`), stays the last of its body (`BodyEnds`, invariant
  `Quieted`). Hence `BodiesEndWithLogs`. The ordinary lines of quiet texts put
  together are theirs one after the other (`OrdinaryCat`, `OrdinaryFlatten`), and
  those of a text are those of its redaction, whatever blocks it has
  (`InPemIsInBlock`, `OrdinaryStays`, `OrdinaryRedact`). Hence `OrdinaryLinesAreKept`,
  from the invariant that `sections` is what `Start` made it (`Configured`). What
  `redact.rs` is not given has to be ordinary for these two: names of files, the host
  sections, the lines of the storage CLI. The hypotheses say so (`OrdinaryHost`,
  `QuietCli`, `LogNames`), and TLC evaluates them on the instance that it checks
  (`OrdinaryInstance` in `MCDiagnose`).

  The calendar. A day of an era is c centuries, q times four years, a years and t days,
  where t = 365 only on the last day of four years (`DayParts`), and then the formula of
  `civil_from_days` gives the year 100c + 4q + a (`YearParts`). The days before that year
  are 365 for each and the leap days (`YearFacts`), the leap days those of the leap years
  counted one by one (`LeapStep`, `LeapCount`), and months counted from March begin where
  the formula says (`MonthSums`, `FromMarch`, `ToFebruary`). Hence `DateIsRight` for every
  day, and `StampsAreToday`.

  The assumptions are
  those of the module: the engine writes whole characters, and a tail has more than
  one byte (it has 256 KiB), as the last byte of a text alone may be half of one.
  `PrintedAssumption` says of the words of the command that they are strings, which
  holds of every literal, but the provers do not know it.

`DInv`, `CInv`, `GInv`, `PInv`, `KInv`, `NInv`, `LInv` and `TInv` were checked with TLC as
invariants of the configurations `HvfBackend_safety`, `GuestAgent_one`,
`PortForward_live`, `DiskStore_tree` and `Diagnose_bundle` before they were proved
(`TInv` with the recursive function in place of the `CHOOSE` that `Written` is).
Except for the last four, which speak of the proof's own operators, their named
conjuncts are defined beside the properties they explain, in the modules themselves.

Where a proof needs induction over numbers (the length of a chain, of a lineage, of
a command line, of a text), it takes the smallest member of the set of
counterexamples (`Smallest`), which needs no theorem with an operator as a parameter;
that the recursive function exists is the first use of it.

**Only model-checked.**

* Liveness (`OperationsReturn`, `CallsReturn`, `CallsEnd`, `RunsEnd`, the fairness
  part of `ImplementsLifecycle`): fairness and `ENABLED` are not in TLAPS's reach.

## 5. What the code does not keep

Three runs expect a violation, each of a sentence in the repository:

* `hvf_stopped_disk` (`StoppedRetainsDisk`): a snapshot whose migration fails has
  already moved the guest to new overlays, but `active_disks` is set on success
  only. The next boot opens the frozen layers and what was written since is
  missing, against "disk state retained".
* `bundle_reject` (`RejectKeepsVm`): `restore --force` of a bundle that fails its
  checksums removes the existing VM.
* `net_remove` (`RemovesWhatWasAdded`): QEMU reports the removal of a rule in words, and
  `hostfwd_remove` takes any text for a failure, against "forwards are added/removed
  live".

Further statements are defined in the modules, and TLC refutes them when they
replace the properties of the configuration named, or in an instance changed as
the table says; they are not among the runs:

| Statement | Configuration | The code |
|---|---|---|
| `HvfBackend!SnapshotReturnsToPrior` | `HvfBackend_stopped_disk` | a snapshot that fails after `stop` sends no `cont`: Running on record, halted in fact |
| `HvfBackend!PausedRetainsRam` | `HvfBackend_stopped_disk`, `MaxSeq = 2` | restore quits QEMU before the steps that can fail |
| `HvfBackend!SnapshotConsistent` | `HvfBackend_safety`, `MaxUnread = 1` | snapshot proceeds on the late reply to an earlier command and records RAM and disks of two instants |
| `QmpClient!ReturnsItsPayload` | `QmpClient_lag` | after a timeout `execute` returns the payload of the command before |
| `DiskStore!ActiveAlways` | `DiskStore_tree` | killed between rename and overlay, or ended there by a `chmod` that raises, there is no active disk |
| `DiskStore!ChainsIntact` | `DiskStore_tree` with two processes | two `snapshot_create` of one name pass the `exists` check, and the second rename makes an overlay its own backing file; the contract (`docs/interface-contracts.md:279`) describes a lock the code does not take |
| `SnapshotStore!LineageReachesRoot` | `SnapshotStore_fresh` with `SPECIFICATION Spec` | `insert` of a known id may close a cycle |
| `GuestAgent!RepliesAreOwn` | `GuestAgent_one` | ids start at 1 in every process: a "stale response from a previous client" (`vmforgectl.py:97`) may have the awaited id |
| `GuestAgent!GracefulMeansAccepted` | `GuestAgent_one` | so the late reply to another command is taken for the answer to a shutdown |
| `GuestAgent!GracefulMeansDown` | `GuestAgent_one` | one slow ping counts as a guest that is down |
| `Bundle!ImageKept` | `Bundle_reject` | an image that another import or restore places between the look for it (`bundle.py:367`) and the move (376) is moved over |
| `Bundle!OverwritesOnlyForced` | `Bundle_reject` | a VM created during a restore without `--force` is removed |
| `Bundle!NothingLeftBehind` | `Bundle_reject` | an image placed by a restore that then fails stays |
| `PortForward!SshReaches` | `PortForward_live`, as a `PROPERTY` | `ssh-command` takes the first forward to port 22, also one for UDP or on another address (`main.rs:147`) |
| `PortForward!DocumentedFormsTaken` | `PortForward_live` | `HOSTIP:HOSTPORT:GUESTPORT` is of the documented form `[tcp\|udp:][HOSTIP:]HOSTPORT:GUESTPORT` (`docs/networking-port-forwarding.md:18`, `net.rs:63`, `main.rs:54`) and is refused: a first field of three is read as a protocol |
| `Diagnose!EntryNamesDistinct` | `Diagnose_bundle` | `logs/x.log` and `x.log` become two entries of one name |
| `Diagnose!CutLogsKept` | `Diagnose_bundle` | a log whose cut by bytes falls inside a character is left out |
| `Diagnose!DocumentedSecretsReplaced` | `Diagnose_bundle` | of `12:00 password=x` only the first separator is looked at (`redact.rs:81-95`), and of two schemes in a row only the word after the first |
| `Diagnose!ExcerptsShowNoMore` | `Diagnose_bundle` | an excerpt may begin inside a PEM block or after the key of an assignment, and the rest has nothing for the rules to look at |
| `Diagnose!ReportIsRedacted` | `Diagnose_bundle` with a secret in `MCHostText` | the host sections do not pass the filter, against `redact.rs:3-5` |

`NothingDisclosed` therefore speaks of the pieces that pass through the filter and of
what its rules look for, and of nothing else; the model gives the host sections a text
without anything to redact.

## 6. Not modelled

* The KVM backend (every operation returns NotImplemented), `vmforge info`, devices
  and firmware on QEMU's command line, benchmarks, QA and packaging scripts: no
  protocol state.
* In the disk store: sizes (so what `resize --shrink` cuts off), `check --repair`,
  file modes (a chmod that fails is modelled), the rendering of the tree. At its
  boundary: the JSON. In bundles: `--snapshot` and the choice of names.
* In `diagnose`: what the host sections hold, the octal fields and the checksum of
  a tar header (one unit of the header here), the time of day in the stamp. In port
  forwards: the letters of arguments and JSON, NIC models and MAC syntax (a flag is
  good or bad).
* An endless stream of QMP events, which defeats the per-read timeout; QEMU's
  undrained stderr pipe; a crash of the engine process itself, after which its
  QEMU children have no owner (nothing is persisted, so there is no recovery to
  check).
* A VM without disks, whose snapshot ids are hashes of RAM alone.

## 7. Plan

1. Extend: a configuration without disks; backup of a single snapshot with its
   chain of parents; a damaged manifest; a composition of the engine and
   `vmforge-storage` on one VM directory.
2. Prove: the remaining properties of `Diagnose`.
