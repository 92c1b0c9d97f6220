------------------------------ MODULE Diagnose ------------------------------
(***************************************************************************)
(* One `vmforge diagnose` command (crates/vmforge-cli/src/diagnose.rs,     *)
(* tarball.rs and cmd_diagnose of main.rs) and the VMForge home it looks   *)
(* at while the engine goes on working in it: logs grow, are rotated and   *)
(* removed, VMs are deleted, between any two steps of the command.         *)
(*                                                                         *)
(* Texts are the symbol sequences of Redact; a symbol of a file is one     *)
(* byte, except that "L" and "C" are the two bytes of one character, so    *)
(* that a text that begins with "C" or ends with "L" is not UTF-8.         *)
(***************************************************************************)
EXTENDS Redact, Integers, FiniteSetsExt

CONSTANTS
    VmName,       \* names a VM may have, in their order
    FileName,     \* log paths of a VM in their order, by the file's name:
                  \* logs/x.log and x.log are two paths with one name
    Long,         \* file names that make the name of a tar entry too long
    LogLines,     \* lines the engine may add to a log
    HostText,     \* what the host sections before "config" hold
    CliTexts,     \* what `vmforge-storage` may print
    LogsPerVm, TailBytes, TailLines, Block,   \* the limits of the code
    Homes,        \* the homes the command may find
    CommandLines, \* the arguments it may be given
    MaxChanges    \* bound: changes of the home while it runs

ASSUME LimitsAssumption ==
    /\ LogsPerVm \in Nat \ {0} /\ TailBytes \in Nat \ {0, 1}
    /\ TailLines \in Nat \ {0} /\ Block \in Nat \ {0} /\ MaxChanges \in Nat

(* Names are words, and what the engine writes are lines of whole characters. *)
ASSUME NamesAssumption ==
    /\ VmName \in Seq(STRING \ {""}) /\ IsInjective(VmName)
    /\ FileName \in Seq(STRING)
    /\ CommandLines \subseteq Seq(STRING)

Encoded(text) ==
    \A i \in DOMAIN text : text[i] = "L" => i < Len(text) /\ text[i + 1] = "C"

(* The words of the command itself. *)
Printed == {"", "home", "n", "R", "removed", "title", "none", "no", "disk", "=", "size",
            "snaps", "files", "net", "logs", "tail", "status", "running", "off", "stopped",
            "disks", "vm", "vms", "head", "absent", "report"}

ASSUME PrintedAssumption == Printed \subseteq STRING

ASSUME TextsAssumption ==
    /\ HostText \in Text /\ CliTexts \subseteq Text
    /\ LogLines \subseteq {line \in Text : line # <<>> /\ Last(line) = "n" /\ Encoded(line)}

VARIABLES
    home,       \* [dirs, pid, disks, network, logs, config, day]
    changes,    \* changes of the home since the command started
    disturbed,  \* log paths cut or removed since then
    pc,         \* where the command is
    opts,       \* DiagnoseOptions
    sections,   \* text of the host sections
    queue,      \* VMs that collect_vms has yet to collect
    vm,         \* the VM being collected: body so far, paths to read, logs
    file,       \* the log that tail_file has open, the length it saw and the
                \* place it reads from
    vms,        \* the VmReports
    report,     \* what render_report returned
    stamp,      \* the date in it
    entries,    \* entries of the bundle that are yet to be appended
    output,     \* what has been written to the output file or to stdout
    exit        \* the exit code

env  == <<home, changes, disturbed>>
vars == <<home, changes, disturbed, pc, opts, sections, queue, vm, file, vms,
          report, stamp, entries, output, exit>>

Vms   == ToSet(VmName)
Paths == DOMAIN FileName

Absent == <<"absent">>        \* in place of a text: no such file

Home == [dirs : SUBSET Vms, disks : [Vms -> Seq(STRING)], pid : [Vms -> Seq(Text)],
         network : [Vms -> Seq(Text)],
         logs : [Vms -> [Paths -> {text \in Text : Encoded(text)}]],
         config : Seq(Text), day : Nat]

ASSUME HomesAssumption == Homes \subseteq Home

Exists(text) == text # Absent
NoVm   == [name |-> "", body |-> <<>>, files |-> <<>>, listed |-> <<>>, logs |-> <<>>]
NoFile == [path |-> 0, len |-> 0, pos |-> 0]
NoExit == -1

(* The members of a sequence that are in a set, in their order. *)
Among(seq, S) ==
    LET kept[n \in 0 .. Len(seq)] ==
          IF n = 0 THEN <<>>
          ELSE IF seq[n] \in S THEN Append(kept[n - 1], seq[n]) ELSE kept[n - 1]
    IN  kept[Len(seq)]

(* A list of candidates is read in order, the first that exists decides. *)
FirstOf(texts) ==
    LET i == SelectInSeq(texts, Exists) IN IF i = 0 THEN Absent ELSE texts[i]

(* indent: the blanks make no difference to the rules, the line ends do. *)
Indent(text) == Joined(Lines(text))

IsUtf8(text) == text = <<>> \/ (Head(text) # "C" /\ Last(text) # "L")

-----------------------------------------------------------------------------
(***************************************************************************)
(* The calendar: civil_from_days, days since 1970-01-01 to a date.         *)
(***************************************************************************)
DayOfEra(z) == (z + 719468) % 146097

(* Mutant of YearOfEra: without the correction for the last day of an era. *)
YearOfEra_NoLastDay(d) == (d - d \div 1460 + d \div 36524) \div 365

YearOfEra(d) == (d - d \div 1460 + d \div 36524 - d \div 146096) \div 365

CivilFromDays(z) ==
    LET doe == DayOfEra(z)
        yoe == YearOfEra(doe)
        doy == doe - (365 * yoe + yoe \div 4 - yoe \div 100)
        mp  == (5 * doy + 2) \div 153
        mon == IF mp < 10 THEN mp + 3 ELSE mp - 9
        y   == yoe + ((z + 719468) \div 146097) * 400
    IN  [year  |-> IF mon <= 2 THEN y + 1 ELSE y,
         month |-> mon,
         day   |-> doy - (153 * mp + 2) \div 5 + 1]

-----------------------------------------------------------------------------
(***************************************************************************)
(* cmd_diagnose: the words of the command line.  The word after an option  *)
(* is its value, whatever it is; the first wrong word or --help ends it.   *)
(***************************************************************************)
Valued   == {"--vm", "--output", "--home"}
Defaults == [vm |-> "", output |-> "", home |-> "home", ends |-> NoExit, waits |-> ""]

TakeArgument(o, w) ==
    CASE o.ends # NoExit      -> o
      [] o.waits = "--vm"     -> [o EXCEPT !.vm = w, !.waits = ""]
      [] o.waits = "--output" -> [o EXCEPT !.output = w, !.waits = ""]
      [] o.waits = "--home"   -> [o EXCEPT !.home = w, !.waits = ""]
      [] w \in Valued         -> [o EXCEPT !.waits = w]
      [] w = "--help"         -> [o EXCEPT !.ends = 0]
      [] OTHER                -> [o EXCEPT !.ends = 2]

(* After the first n words. *)
ArgumentsAfter(words) ==
    LET o[n \in 0 .. Len(words)] ==
          IF n = 0 THEN Defaults ELSE TakeArgument(o[n - 1], words[n])
    IN  o

ParseArguments(words) ==
    LET o == ArgumentsAfter(words)[Len(words)]
    IN  IF o.ends = NoExit /\ o.waits # "" THEN [o EXCEPT !.ends = 2] ELSE o

(* config_info: every config file that exists, each redacted by itself. *)
ConfigInfo(files) ==
    IF \E i \in DOMAIN files : Exists(files[i])
    THEN FlattenSeq([i \in DOMAIN files |->
            IF Exists(files[i]) THEN <<"title", "n">> \o RedactText(files[i]) ELSE <<>>])
    ELSE <<"none", "n">>

(***************************************************************************)
(* collect_vm up to the logs.  pidfiles hold "live" or "dead", a process   *)
(* number in use or not, or nothing; the first that exists decides.        *)
(***************************************************************************)
VmStatus(pidfiles) ==
    CASE FirstOf(pidfiles) = <<"live">> -> "running"
      [] FirstOf(pidfiles) = Absent     -> "off"
      [] OTHER                          -> "stopped"

(* A disk: what the storage CLI says of it and of its snapshots; where it
   is absent or fails, what the files say. *)
DiskInfo(disk, info, tree) ==
    <<"disk", "=", disk, "n">>
        \o Indent(IF Exists(info) THEN info ELSE <<"size", "n">>)
        \o <<"snaps", "=", "n">>
        \o Indent(IF Exists(tree) THEN tree ELSE <<"files", "n">>)

(* Mutant of NetworkInfo: the filter is left to the body as a whole. *)
NetworkInfo_Raw(files) ==
    IF Exists(FirstOf(files)) THEN <<"net", "=", "n">> \o Indent(FirstOf(files))
    ELSE <<"net", "=", "none", "n">>

NetworkInfo(files) ==
    IF Exists(FirstOf(files)) THEN <<"net", "=", "n">> \o Indent(RedactText(FirstOf(files)))
    ELSE <<"net", "=", "none", "n">>

LogsLine(logs) ==
    <<"logs", "=">> \o (IF logs = <<>> THEN <<"none">>
                        ELSE [i \in DOMAIN logs |-> logs[i].name]) \o <<"n">>

(* Mutant of LastLines: one line less. *)
LastLines_OneLess(text) ==
    LET lines == Lines(text)
        start == IF Len(lines) > TailLines THEN Len(lines) - TailLines + 1 ELSE 0
    IN  IF lines = <<>> THEN <<"n">> ELSE Joined(SubSeq(lines, start + 1, Len(lines)))

(* tail_file, the last lines of what was read; a text without a line
   becomes one empty line. *)
LastLines(text) ==
    LET lines == Lines(text)
        start == IF Len(lines) > TailLines THEN Len(lines) - TailLines ELSE 0
    IN  IF lines = <<>> THEN <<"n">> ELSE Joined(SubSeq(lines, start + 1, Len(lines)))

(* Mutant of SeekTo: the seek is tried for every log. *)
SeekTo_Always(len, size) == IF size < TailBytes THEN -1 ELSE size - TailBytes

(* The place from which a log is read that had len bytes when its length was
   asked for and has size bytes now; the seek fails, here -1, if it has since
   become too short. *)
SeekTo(len, size) ==
    IF len <= TailBytes THEN 0
    ELSE IF size < TailBytes THEN -1
    ELSE size - TailBytes

-----------------------------------------------------------------------------
(* render_report, without the stamp. *)
RenderVm(r) ==
    <<"vm", r.name, "n">> \o r.body
        \o FlattenSeq([i \in DOMAIN r.logs |-> <<"tail", r.logs[i].name, "n">> \o r.logs[i].excerpt])

RenderReport(host, reports) ==
    <<"head", "n">> \o host
        \o (IF reports = <<>> THEN <<"no", "vms", "n">>
            ELSE FlattenSeq([i \in DOMAIN reports |-> RenderVm(reports[i])]))

(* Mutant of Pad: a whole block after contents that fill their last one. *)
Pad_NotModulo(n) == Block - (n % Block)

(* TarWriter::append: a header block, the contents, zeros up to a block. *)
Pad(n) == (Block - (n % Block)) % Block

Header(name, size) == [i \in 1 .. Block |-> IF i = 1 THEN <<"head", name, size>> ELSE <<"h">>]
Zeros(n)           == [i \in 1 .. n |-> <<"zero">>]
TarEntry(e) ==
    Header(e.name, Len(e.contents)) \o [i \in DOMAIN e.contents |-> <<"data", e.contents[i]>>]
        \o Zeros(Pad(Len(e.contents)))

(* write_tar_bundle: the report, then the excerpts, each under the names of
   its VM and its file. *)
BundleEntries(text, reports) ==
    <<[name |-> <<"report">>, contents |-> text]>>
        \o FlattenSeq([i \in DOMAIN reports |->
              [j \in DOMAIN reports[i].logs |->
                 [name     |-> <<reports[i].name, reports[i].logs[j].name>>,
                  contents |-> reports[i].logs[j].excerpt]]])

TooLong(name) == Last(name) \in Long

-----------------------------------------------------------------------------
Init ==
    /\ home \in Homes
    /\ changes = 0 /\ disturbed = {}
    /\ pc = "start" /\ opts = Defaults
    /\ sections = <<>> /\ queue = <<>> /\ vm = NoVm /\ file = NoFile /\ vms = <<>>
    /\ report = <<>> /\ stamp = [year |-> 0, month |-> 0, day |-> 0]
    /\ entries = <<>> /\ output = <<>> /\ exit = NoExit

Ends(code) == pc' = "done" /\ exit' = code
Goes(place) == pc' = place /\ UNCHANGED exit

(* cmd_diagnose and, of run, collect_host_sections. *)
Start(words) ==
    /\ pc = "start"
    /\ opts' = ParseArguments(words)
    /\ IF opts'.ends # NoExit
       THEN Ends(opts'.ends) /\ UNCHANGED sections
       ELSE /\ Goes("list")
            /\ sections' = HostText \o (IF opts'.home = "home" THEN ConfigInfo(home.config)
                                        ELSE <<"no", "home", "n">>)
    /\ UNCHANGED <<env, queue, vm, file, vms, report, stamp, entries, output>>

(* collect_vms: the directories, in the order of their names. *)
ListVms ==
    /\ pc = "list"
    /\ LET names == Among(VmName, IF opts.home = "home" THEN home.dirs ELSE {})
       IN  IF opts.vm # "" /\ opts.vm \notin ToSet(names)
           THEN Ends(1) /\ UNCHANGED queue
           ELSE /\ queue' = IF opts.vm = "" THEN names ELSE Among(names, {opts.vm})
                /\ Goes("vms")
    /\ UNCHANGED <<env, opts, sections, vm, file, vms, report, stamp, entries, output>>

(* collect_vm: status, disks, network, each by a look of its own; a directory
   that is gone reads as an empty one. *)
VmBegin ==
    /\ pc = "vms" /\ queue # <<>>
    /\ vm' = [NoVm EXCEPT !.name = Head(queue),
                          !.body = <<"status", "=", VmStatus(home.pid[Head(queue)]), "n">>]
    /\ queue' = Tail(queue)
    /\ Goes("disks")
    /\ UNCHANGED <<env, opts, sections, file, vms, report, stamp, entries, output>>

VmDisks(info, tree) ==
    /\ pc = "disks"
    /\ vm' = [vm EXCEPT !.body = @ \o
                  (IF home.disks[vm.name] = <<>> THEN <<"disks", "=", "none", "n">>
                   ELSE FlattenSeq([d \in DOMAIN home.disks[vm.name] |->
                           DiskInfo(home.disks[vm.name][d], info, tree)]))]
    /\ Goes("network")
    /\ UNCHANGED <<env, opts, sections, queue, file, vms, report, stamp, entries, output>>

VmNetwork ==
    /\ pc = "network"
    /\ vm' = [vm EXCEPT !.body = @ \o NetworkInfo(home.network[vm.name])]
    /\ Goes("logs")
    /\ UNCHANGED <<env, opts, sections, queue, file, vms, report, stamp, entries, output>>

(* collect_logs: the paths, sorted and cut to LogsPerVm. *)
ListLogs ==
    /\ pc = "logs"
    /\ LET here  == Among([p \in Paths |-> p], {p \in Paths : Exists(home.logs[vm.name][p])})
           first == SubSeq(here, 1, IF Len(here) < LogsPerVm THEN Len(here) ELSE LogsPerVm)
       IN  vm' = [vm EXCEPT !.files = first, !.listed = first]
    /\ Goes("files")
    /\ UNCHANGED <<env, opts, sections, queue, file, vms, report, stamp, entries, output>>

(* Mutant of OpenLog: it waits for a log that is not there. *)
OpenLog_Retry ==
    /\ pc = "files" /\ vm.files # <<>>
    /\ LET p == Head(vm.files) IN
       /\ Exists(home.logs[vm.name][p])
       /\ file' = [path |-> p, len |-> Len(home.logs[vm.name][p]), pos |-> 0]
       /\ vm' = [vm EXCEPT !.files = Tail(@)]
       /\ Goes("open")
    /\ UNCHANGED <<env, opts, sections, queue, vms, report, stamp, entries, output>>

(* tail_file: open and ask for the length. *)
OpenLog ==
    /\ pc = "files" /\ vm.files # <<>>
    /\ LET p == Head(vm.files) IN
       IF Exists(home.logs[vm.name][p])
       THEN file' = [path |-> p, len |-> Len(home.logs[vm.name][p]), pos |-> 0] /\ Goes("open")
       ELSE UNCHANGED file /\ Goes("files")
    /\ vm' = [vm EXCEPT !.files = Tail(@)]
    /\ UNCHANGED <<env, opts, sections, queue, vms, report, stamp, entries, output>>

(* tail_file: seek to TailBytes before the end as it is now. *)
SeekLog ==
    /\ pc = "open"
    /\ LET to == SeekTo(file.len, Len(home.logs[vm.name][file.path])) IN
       IF to = -1
       THEN file' = NoFile /\ Goes("files")
       ELSE file' = [file EXCEPT !.pos = to] /\ Goes("read")
    /\ UNCHANGED <<env, opts, sections, queue, vm, vms, report, stamp, entries, output>>

(* tail_file: read to the end, which may have moved meanwhile, decode, cut;
   the excerpt is redacted.  A log that cannot be read is left out.  `of` is
   the text it is an excerpt of. *)
ReadLog ==
    /\ pc = "read"
    /\ LET text == home.logs[vm.name][file.path]
           read == SubSeq(text, file.pos + 1, Len(text))
           log  == [path |-> file.path, name |-> FileName[file.path], of |-> text,
                    excerpt |-> RedactText(LastLines(read))]
       IN  vm' = IF IsUtf8(read) THEN [vm EXCEPT !.logs = Append(@, log)] ELSE vm
    /\ file' = NoFile
    /\ Goes("files")
    /\ UNCHANGED <<env, opts, sections, queue, vms, report, stamp, entries, output>>

(* Mutant of VmDone: only the network file is redacted. *)
VmDone_Raw ==
    /\ pc = "files" /\ vm.files = <<>>
    /\ vms' = Append(vms, [name |-> vm.name, listed |-> vm.listed, logs |-> vm.logs,
                           body |-> vm.body \o LogsLine(vm.logs)])
    /\ vm' = NoVm
    /\ Goes("vms")
    /\ UNCHANGED <<env, opts, sections, queue, file, report, stamp, entries, output>>

(* The end of collect_vm: the line of the logs, and the body is redacted. *)
VmDone ==
    /\ pc = "files" /\ vm.files = <<>>
    /\ vms' = Append(vms, [name |-> vm.name, listed |-> vm.listed, logs |-> vm.logs,
                           body |-> RedactText(vm.body \o LogsLine(vm.logs))])
    /\ vm' = NoVm
    /\ Goes("vms")
    /\ UNCHANGED <<env, opts, sections, queue, file, report, stamp, entries, output>>

(* render_report, utc_timestamp and the choice of the destination. *)
IsTar(path) == path = "out.tar"

Render ==
    /\ pc = "vms" /\ queue = <<>>
    /\ report' = RenderReport(sections, vms)
    /\ stamp' = CivilFromDays(home.day)
    /\ IF IsTar(opts.output)
       THEN Goes("tar") /\ entries' = BundleEntries(report', vms)
       ELSE Goes("write") /\ UNCHANGED entries
    /\ UNCHANGED <<env, opts, sections, queue, vm, file, vms, output>>

(* A write may fail, and what was written stays: none of it or all but the
   last unit, what is between makes no difference to anything here. *)
WriteFails(units) ==
    /\ \E k \in {0, Len(units) - 1} : output' = output \o SubSeq(units, 1, k)
    /\ Ends(1)

(* run: the report to stdout or to a text file. *)
WriteReport ==
    /\ pc = "write"
    /\ \/ output' = report /\ Ends(0)
       \/ opts.output # "" /\ WriteFails(report)
    /\ UNCHANGED <<env, opts, sections, queue, vm, file, vms, report, stamp, entries>>

(* write_tar_bundle: an entry at a time; the first that fails ends it. *)
TarAppend ==
    /\ pc = "tar" /\ entries # <<>>
    /\ \/ /\ TooLong(Head(entries).name)
          /\ Ends(1) /\ UNCHANGED <<output, entries>>
       \/ /\ ~TooLong(Head(entries).name)
          /\ output' = output \o TarEntry(Head(entries))
          /\ entries' = Tail(entries)
          /\ Goes("tar")
       \/ /\ ~TooLong(Head(entries).name)
          /\ WriteFails(TarEntry(Head(entries)))
          /\ UNCHANGED entries
    /\ UNCHANGED <<env, opts, sections, queue, vm, file, vms, report, stamp>>

(* TarWriter::finish. *)
TarFinish ==
    /\ pc = "tar" /\ entries = <<>>
    /\ \/ output' = output \o Zeros(2 * Block) /\ Ends(0)
       \/ WriteFails(Zeros(2 * Block))
    /\ UNCHANGED <<env, opts, sections, queue, vm, file, vms, report, stamp, entries>>

Command ==
    \/ \E words \in CommandLines : Start(words)
    \/ ListVms \/ VmBegin
    \/ \E info, tree \in CliTexts \union {Absent} : VmDisks(info, tree)
    \/ VmNetwork \/ ListLogs \/ OpenLog \/ SeekLog \/ ReadLog \/ VmDone
    \/ Render \/ WriteReport \/ TarAppend \/ TarFinish

-----------------------------------------------------------------------------
(***************************************************************************)
(* The engine, while the command runs.  A log that the command has open is *)
(* read to its end even if it is removed meanwhile, so its removal is only *)
(* told apart from one after the read where it is not open.                *)
(***************************************************************************)
Changes ==
    /\ pc \notin {"start", "done"}
    /\ changes < MaxChanges
    /\ changes' = changes + 1
    /\ UNCHANGED <<pc, opts, sections, queue, vm, file, vms, report, stamp, entries,
                   output, exit>>

IsOpen(v, p) == pc \in {"open", "read"} /\ vm.name = v /\ file.path = p

LogGrows(v, p) ==
    /\ Exists(home.logs[v][p])
    /\ \E line \in LogLines : home' = [home EXCEPT !.logs[v][p] = @ \o line]
    /\ UNCHANGED disturbed
    /\ Changes

LogCut(v, p) ==
    /\ Exists(home.logs[v][p]) /\ home.logs[v][p] # <<>>
    /\ home' = [home EXCEPT !.logs[v][p] = <<>>]
    /\ disturbed' = disturbed \union {<<v, p>>}
    /\ Changes

LogRemoved(v, p) ==
    /\ Exists(home.logs[v][p]) /\ ~IsOpen(v, p)
    /\ home' = [home EXCEPT !.logs[v][p] = Absent]
    /\ disturbed' = disturbed \union {<<v, p>>}
    /\ Changes

VmRemoved(v) ==
    /\ v \in home.dirs /\ \A p \in Paths : ~IsOpen(v, p)
    /\ home' = [home EXCEPT !.dirs = @ \ {v}, !.disks[v] = <<>>,
                            !.pid[v] = <<Absent, Absent>>,
                            !.network[v] = <<Absent, Absent, Absent>>,
                            !.logs[v] = [p \in Paths |-> Absent]]
    /\ disturbed' = disturbed \union ({v} \X Paths)
    /\ Changes

Engine ==
    \/ \E v \in Vms, p \in Paths : LogGrows(v, p) \/ LogCut(v, p) \/ LogRemoved(v, p)
    \/ \E v \in Vms : VmRemoved(v)

Next == Command \/ Engine

(* The command is one process that runs to its end; nothing makes the
   engine change the home. *)
Spec == Init /\ [][Next]_vars /\ WF_vars(Command)

-----------------------------------------------------------------------------
(***************************************************************************)
(* The types; the command has an exit code exactly when it has ended, and  *)
(* has not begun with an option that lacks its value.                      *)
(***************************************************************************)
TypeOK ==
    /\ pc \in {"start", "list", "vms", "disks", "network", "logs", "files", "open", "read",
              "write", "tar", "done"}
    /\ exit \in {NoExit, 0, 1, 2} /\ (exit # NoExit <=> pc = "done")
    /\ opts.ends = NoExit => opts.waits = ""
    /\ changes \in 0 .. MaxChanges /\ disturbed \subseteq Vms \X Paths
    /\ ToSet(queue) \subseteq Vms /\ vm.name \in Vms \union {""}
    /\ ToSet(vm.files) \subseteq Paths /\ file.path \in Paths \union {0}

(***************************************************************************)
(* No log goes missing: of the logs that collect_logs chose, every one     *)
(* that was neither cut nor removed while the command ran, and has only    *)
(* one-byte characters, has its excerpt in the report, however it grew     *)
(* between the look at its length and the read.                            *)
(***************************************************************************)
LogsKept ==
    \A i \in DOMAIN vms : \A j \in DOMAIN vms[i].listed :
        LET p == vms[i].listed[j] IN
        \/ <<vms[i].name, p>> \in disturbed
        \/ "C" \in ToSet(home.logs[vms[i].name][p])
        \/ \E l \in ToSet(vms[i].logs) : l.path = p

(***************************************************************************)
(* An excerpt is the redaction of an end of the log as it was when it was  *)
(* read.  Of a log that was not cut or removed meanwhile it leaves out     *)
(* only what one of the two limits asks for: it has TailLines whole lines, *)
(* or begins at least TailBytes before the end, further if the log grew    *)
(* between the seek and the read; and it never has more than TailLines     *)
(* lines.                                                                  *)
(***************************************************************************)
IsTailOf(excerpt, of, disturbedLog) ==
    \/ excerpt = <<"n">> /\ (of = <<>> \/ disturbedLog)
    \/ \E j \in DOMAIN of :
          LET tail == SubSeq(of, j, Len(of)) IN
          /\ excerpt = RedactText(tail)
          /\ Len(Lines(tail)) <= TailLines
          /\ \/ j = 1 \/ disturbedLog
             \/ Len(tail) >= TailBytes
             \/ Len(Lines(tail)) = TailLines /\ of[j - 1] = "n"

ExcerptIsTail ==
    \A i \in DOMAIN vms : \A l \in ToSet(vms[i].logs) :
        IsTailOf(l.excerpt, l.of, <<vms[i].name, l.path>> \in disturbed)

(***************************************************************************)
(* What is ordinary about a host, for the two properties of what the       *)
(* filter leaves: the host sections, which do not pass through it, are     *)
(* whole lines that no rule speaks of; no line that the storage CLI prints *)
(* opens a PEM block; no log is named like an authorization scheme.        *)
(***************************************************************************)
OrdinaryHost ==
    /\ Indent(HostText) = HostText
    /\ \A i \in DOMAIN Lines(HostText) : Ordinary(Lines(HostText)[i])

QuietCli == \A t \in CliTexts : \A i \in DOMAIN Lines(t) : ~Opens(Lines(t)[i])
LogNames == \A p \in Paths : FileName[p] \notin {"n", "t", "s"}

(***************************************************************************)
(* The filter keeps to the file it is given: whatever a VM's network file  *)
(* holds, also an unfinished PEM block, the body still ends with the line  *)
(* that names the logs which are in the report.                            *)
(***************************************************************************)
BodyEndsWithLogs ==
    \A i \in DOMAIN vms : Last(Lines(vms[i].body)) = Front(LogsLine(vms[i].logs))

(***************************************************************************)
(* What passes through the filter discloses nothing: in no piece of the    *)
(* report (the config section, the body of a VM with what the storage CLI  *)
(* printed, an excerpt of a log, wherever in a block or a line it begins)  *)
(* is there a word that stands where a rule of redact.rs looks, or a line  *)
(* that opens a PEM block.  What the rules do not look at is below.        *)
(***************************************************************************)
Pieces ==
    {SubSeq(sections, Len(HostText) + 1, Len(sections))}
        \union {vms[i].body : i \in DOMAIN vms}
        \union UNION {{l.excerpt : l \in ToSet(vms[i].logs)} : i \in DOMAIN vms}

NothingDisclosed ==
    \A piece \in Pieces : \A i \in DOMAIN Lines(piece) : ~Discloses(Lines(piece)[i])

(***************************************************************************)
(* And little else is taken away: of every config file the lines that are *)
(* in no PEM block and that no rule speaks of are there, in their order,   *)
(* also after a block that ended and after a file with one that did not.   *)
(***************************************************************************)
OrdinaryLinesKept ==
    (pc # "start" /\ opts.ends = NoExit /\ opts.home = "home"
        /\ \E i \in DOMAIN home.config : Exists(home.config[i])) =>
    OrdinaryLines(sections) =
        Lines(HostText) \o FlattenSeq([i \in DOMAIN home.config |->
            IF Exists(home.config[i]) THEN <<<<"title">>>> \o OrdinaryLines(home.config[i])
            ELSE <<>>])

(***************************************************************************)
(* A reader of the bundle, as in the tests of tarball.rs: headers are read *)
(* where the sizes say, up to a block of zeros.                            *)
(***************************************************************************)
TarEntries(archive) ==
    LET Next512(off, size) == off + Block + ((size + Block - 1) \div Block) * Block
        from[off \in 0 .. Len(archive)] ==
            IF off + Block > Len(archive) \/ archive[off + 1] = <<"zero">> THEN <<>>
            ELSE IF archive[off + 1][1] # "head"
                    \/ Next512(off, archive[off + 1][3]) > Len(archive)
            THEN <<"broken">>
            ELSE LET size == archive[off + 1][3]
                 IN  <<[name     |-> archive[off + 1][2],
                        contents |-> SubSeq(archive, off + Block + 1, off + Block + size)]>>
                     \o from[Next512(off, size)]
    IN  from[0]

(***************************************************************************)
(* Exit code 0 means that all of it was written: a tar reads back as the   *)
(* report followed by every excerpt of every VM of the report, anything    *)
(* else is the report; and with --vm it is about that VM and no other.     *)
(***************************************************************************)
BundleIsComplete ==
    (exit = 0 /\ opts.ends = NoExit) =>
        /\ IF IsTar(opts.output)
           THEN TarEntries(output) =
                   [i \in DOMAIN BundleEntries(report, vms) |->
                      LET e == BundleEntries(report, vms)[i]
                      IN  [name     |-> e.name,
                           contents |-> [j \in DOMAIN e.contents |-> <<"data", e.contents[j]>>]]]
           ELSE output = report
        /\ opts.vm # "" => [i \in DOMAIN vms |-> vms[i].name] = <<opts.vm>>

(***************************************************************************)
(* The calendar by its rules: the number of a day is that of the days in   *)
(* the years and the months before it.                                     *)
(***************************************************************************)
Leap(y) == y % 4 = 0 /\ (y % 100 # 0 \/ y % 400 = 0)
MonthLength(y, m) ==
    CASE m = 2 -> IF Leap(y) THEN 29 ELSE 28
      [] m \in {4, 6, 9, 11} -> 30
      [] OTHER -> 31
DaysBefore(y, m) ==
    LET days[k \in 0 .. 11] == IF k = 0 THEN 0 ELSE days[k - 1] + MonthLength(y, k)
    IN  days[m - 1]
DayNumber(d) ==
    365 * (d.year - 1970) + Cardinality({y \in 1970 .. d.year - 1 : Leap(y)})
        + DaysBefore(d.year, d.month) + d.day - 1

IsDate(d, n) ==
    /\ d.month \in 1 .. 12 /\ d.day \in 1 .. MonthLength(d.year, d.month)
    /\ DayNumber(d) = n

(***************************************************************************)
(* The date in the report is a date of the calendar, and that of the day.  *)
(***************************************************************************)
StampIsToday == stamp.year # 0 => IsDate(stamp, home.day)

(***************************************************************************)
(* The command ends, whatever the engine does to the files that it looks   *)
(* at.                                                                     *)
(***************************************************************************)
RunsEnd == <>(pc = "done")

-----------------------------------------------------------------------------
(***************************************************************************)
(* Not so: "tarball: report.txt + per-VM log excerpts" to be inspected     *)
(* "with tar -xf" (docs/diagnose.md:14,19).  logs/x.log and x.log become   *)
(* two entries of one name, and unpacking keeps the second.                *)
(***************************************************************************)
EntryNamesDistinct ==
    \A i, j \in DOMAIN entries : entries[i].name = entries[j].name => i = j

(***************************************************************************)
(* Not so: LogsKept for every log.  If the cut at TailBytes falls inside a *)
(* character, what is read is not UTF-8 and the log is left out.           *)
(***************************************************************************)
CutLogsKept ==
    \A i \in DOMAIN vms : \A j \in DOMAIN vms[i].listed :
        \/ <<vms[i].name, vms[i].listed[j]>> \in disturbed
        \/ \E l \in ToSet(vms[i].logs) : l.path = vms[i].listed[j]

(***************************************************************************)
(* Not so: "Everything that goes into a bundle ... passes through          *)
(* [`redact_text`] first" (redact.rs:3-5): the host sections and the names *)
(* of the VMs do not.                                                      *)
(***************************************************************************)
ReportIsRedacted == RedactText(report) = report

(***************************************************************************)
(* Not so: "Values assigned to sensitive-looking keys", and authorization  *)
(* values "wherever they appear" (docs/diagnose.md:49-51, redact.rs:9-12): *)
(* of "12:00 password=x" only the first separator is looked at, and of     *)
(* "Basic Bearer x" only the word after the first scheme.                  *)
(***************************************************************************)
DocumentedSecretsReplaced ==
    \A piece \in Pieces : \A i \in DOMAIN Lines(piece) :
        LET line == Lines(piece)[i]
        IN  \A k \in DOMAIN line : DocumentedSecret(line, k) => line[k] = "R"

(***************************************************************************)
(* Not so: PEM blocks are dropped whole, and assigned values replaced, in  *)
(* an excerpt: it may begin in the middle of a block or of a line, and the *)
(* rest of that has nothing in it for the rules to look at.                *)
(***************************************************************************)
ExcerptsShowNoMore ==
    \A i \in DOMAIN vms : \A l \in ToSet(vms[i].logs) :
        \A line \in ToSet(OrdinaryLines(l.excerpt)) :
            line = <<>> \/ \E whole \in ToSet(OrdinaryLines(l.of)) : IsSuffix(line, whole)
=============================================================================
