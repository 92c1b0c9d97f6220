---------------------------- MODULE PortForward ----------------------------
(***************************************************************************)
(* Port forwards of running VMs (crates/vmforge-core/src/net.rs,           *)
(* UserNetBackend).  QEMU is started with the rules that `vmforge net      *)
(* args` prints; hostfwd_add and hostfwd_remove change them over the QMP   *)
(* connection, as monitor commands that report an error as text.  The VMs  *)
(* and the other programs of the host compete for the host's ports, and    *)
(* nobody looks whether a port is free before it is asked for.             *)
(*                                                                         *)
(* The backend keeps no state.  known and doubt are what its caller may    *)
(* conclude from the answers: the rules it has reason to believe in, and   *)
(* the addresses of calls whose answer was lost.                           *)
(***************************************************************************)
EXTENDS NetCommand

CONSTANTS
    Vms,
    Args,            \* command lines of `vmforge net`
    Forwards,        \* rules that are added and removed while a VM runs
    MaxLost          \* bound on the number of lost answers

ASSUME ForwardsAssumption ==
    /\ Args \subseteq Seq(Option)
    /\ Forwards \subseteq Forward
    /\ MaxLost \in Nat

VARIABLES
    options,        \* the flags every VM's user gives
    qemu,           \* every VM's QEMU: whether it runs, its netdev, its rules
    taken,          \* addresses at which other programs listen
    call,           \* the call in progress on every VM's QMP connection
    known,          \* rules the caller believes in
    doubt,          \* addresses it is not sure of
    lost            \* number of lost answers

vars == <<options, qemu, taken, call, known, doubt, lost>>

-----------------------------------------------------------------------------
Down == [up |-> FALSE, id |-> "net0", rules |-> {}]
NoAddress == [proto |-> "none", ip |-> Unset, port |-> 0]
Idle == [pc |-> "idle", op |-> "none", id |-> "net0", fwd |-> Invalid, at |-> NoAddress,
         text |-> FALSE]

Rules(v)  == qemu[v].rules
Bound     == taken \cup {r.at : r \in UNION {Rules(v) : v \in Vms}}

(* What a command line or a call can make QEMU have. *)
Ids   == {"net0"} \cup {NetArgs(a).id : a \in Args}
Given == {ToHostfwd(f) : f \in Forwards} \cup UNION {ToSet(NetArgs(a).rules) : a \in Args}

TypeOK ==
    /\ options \in [Vms -> Args]
    /\ qemu \in [Vms -> [up : BOOLEAN, id : Ids, rules : SUBSET Given]]
    /\ call \in [Vms -> [pc : {"idle", "sent", "replied"}, op : {"none", "add", "remove"},
                         id : {"net0", "net1"}, fwd : Forwards \cup {Invalid},
                         at : Address \cup {NoAddress}, text : BOOLEAN]]
    /\ \A v \in Vms : call[v].pc # "idle" => /\ call[v].fwd \in Forwards
                                            /\ call[v].at = AddressOf(call[v].fwd)
    /\ taken \subseteq Address
    /\ known \in [Vms -> SUBSET Given]
    /\ doubt \in [Vms -> SUBSET Address]
    /\ lost \in 0 .. MaxLost

Init ==
    /\ options \in [Vms -> Args]
    /\ qemu = [v \in Vms |-> Down]
    /\ taken = {}
    /\ call = [v \in Vms |-> Idle]
    /\ known = [v \in Vms |-> {}]
    /\ doubt = [v \in Vms |-> {}]
    /\ lost = 0

-----------------------------------------------------------------------------
(***************************************************************************)
(* The host and QEMU.  Two sockets of one protocol and port exclude each   *)
(* other if their addresses are the same or one of them is the wildcard.   *)
(***************************************************************************)
Excludes(a, b) ==
    /\ a.proto = b.proto /\ a.port = b.port
    /\ a.ip = b.ip \/ "0.0.0.0" \in {a.ip, b.ip}

CanBind(a, bound) == \A b \in bound : ~Excludes(a, b)

OtherBinds(a) ==
    /\ CanBind(a, Bound)
    /\ taken' = taken \cup {a}
    /\ UNCHANGED <<options, qemu, call, known, doubt, lost>>

OtherFrees(a) ==
    /\ a \in taken
    /\ taken' = taken \ {a}
    /\ UNCHANGED <<options, qemu, call, known, doubt, lost>>

(***************************************************************************)
(* QEMU is started with what net args prints: it binds rule after rule and *)
(* does not start if it cannot bind one of them, two equal ones included.  *)
(***************************************************************************)
Start(v) ==
    LET cmd == NetArgs(options[v]) IN
    /\ ~qemu[v].up /\ call[v] = Idle
    /\ cmd.exit = 0
    /\ \A i \in DOMAIN cmd.rules :
         CanBind(cmd.rules[i].at, Bound \cup {cmd.rules[j].at : j \in 1 .. i - 1})
    /\ qemu' = [qemu EXCEPT ![v] = [up |-> TRUE, id |-> cmd.id, rules |-> ToSet(cmd.rules)]]
    /\ known' = [known EXCEPT ![v] = ToSet(cmd.rules)]
    /\ doubt' = [doubt EXCEPT ![v] = {}]
    /\ UNCHANGED <<options, taken, call, lost>>

Exit(v) ==
    /\ qemu[v].up
    /\ qemu' = [qemu EXCEPT ![v] = Down]
    /\ UNCHANGED <<options, taken, call, known, doubt, lost>>

-----------------------------------------------------------------------------
(***************************************************************************)
(* hostfwd_add names the rule, hostfwd_remove only where it listens.  The  *)
(* caller's next call waits for the end of this one.                       *)
(***************************************************************************)
Sends(v, op, id, f, at) ==
    /\ call[v] = Idle
    /\ qemu[v].up
    /\ call' = [call EXCEPT ![v] = [pc |-> "sent", op |-> op, id |-> id, fwd |-> f,
                                    at |-> at, text |-> FALSE]]
    /\ UNCHANGED <<options, qemu, taken, known, doubt, lost>>

HostfwdAdd(v, id, f) == Sends(v, "add", id, f, AddressOf(f))

HostfwdRemove(v, id, f) == Sends(v, "remove", id, f, AddressOf(f))

(* The monitor executes the command.  An add that went well prints nothing; a
   remove says that the rule was removed, or that there is none. *)
Replies(v, text) == call' = [call EXCEPT ![v] = [@ EXCEPT !.pc = "replied", !.text = text]]

Execute(v) ==
    LET c    == call[v]
        same == {r \in Rules(v) : r.at = c.at} IN
    /\ c.pc = "sent"
    /\ qemu[v].up
    /\ \/ /\ c.op = "add" /\ c.id = qemu[v].id
          /\ CanBind(c.at, Bound)
          /\ qemu' = [qemu EXCEPT ![v].rules = @ \cup {[at |-> c.at, guest |-> c.fwd.guest]}]
          /\ Replies(v, FALSE)
       \/ /\ c.op = "add"                      \* no such netdev, or no socket
          /\ Replies(v, TRUE)
          /\ UNCHANGED qemu
       \/ /\ c.op = "remove" /\ c.id = qemu[v].id /\ same # {}
          /\ qemu' = [qemu EXCEPT ![v].rules = @ \ same]
          /\ Replies(v, TRUE)
       \/ /\ c.op = "remove" /\ (c.id # qemu[v].id \/ same = {})
          /\ Replies(v, TRUE)
          /\ UNCHANGED qemu
    /\ UNCHANGED <<options, taken, known, doubt, lost>>

(***************************************************************************)
(* The answer arrives: Ok if there is no text, otherwise an error.         *)
(***************************************************************************)

(* Mutant of IsOk: the text is not looked at. *)
IsOk_Always(c) == c.text \in BOOLEAN

IsOk(c) == ~c.text

(* What the caller may conclude: after an add that is Ok the rule is there,
   after a remove that was answered there is none at that address. *)
Answered(v) ==
    LET c  == call[v]
        ok == IsOk(c)
        there == IF c.op = "add" /\ ok THEN {ToHostfwd(c.fwd)} ELSE {}
        settled == (c.op = "add" /\ ok) \/ (c.op = "remove" /\ (ok \/ c.id = qemu[v].id)) IN
    /\ c.pc = "replied"
    /\ call' = [call EXCEPT ![v] = Idle]
    /\ known' = [known EXCEPT ![v] =
                   IF settled THEN {r \in @ : r.at # c.at} \cup there ELSE @]
    /\ doubt' = [doubt EXCEPT ![v] = IF settled THEN @ \ {c.at} ELSE @]
    /\ UNCHANGED <<options, qemu, taken, lost>>

(* human_monitor_command fails: QEMU has done it, or never will. *)
Lost(v) ==
    /\ call[v].pc # "idle"
    /\ lost < MaxLost \/ ~qemu[v].up
    /\ lost' = IF qemu[v].up THEN lost + 1 ELSE lost
    /\ call' = [call EXCEPT ![v] = Idle]
    /\ doubt' = [doubt EXCEPT ![v] = @ \cup {call[v].at}]
    /\ UNCHANGED <<options, qemu, taken, known>>

Next ==
    \/ \E a \in {AddressOf(f) : f \in Forwards} : OtherBinds(a) \/ OtherFrees(a)
    \/ \E v \in Vms :
        \/ Start(v) \/ Exit(v)
        \/ \E f \in Forwards, id \in {"net0", "net1"} :
             HostfwdAdd(v, id, f) \/ HostfwdRemove(v, id, f)
        \/ Execute(v) \/ Answered(v) \/ Lost(v)

Spec == Init /\ [][Next]_vars

-----------------------------------------------------------------------------
(***************************************************************************)
(* What the caller concludes from Ok and from errors is the truth: where   *)
(* no answer was lost, QEMU forwards exactly the rules given at its start, *)
(* added and not removed since (contract N2, N3), although others take and *)
(* free ports meanwhile, rules name no address or the same in two ways,    *)
(* and a remove does not say which guest port it means.                    *)
(***************************************************************************)
Settled(v, rules) ==
    {r \in rules : r.at \notin doubt[v] /\ (call[v].pc # "idle" => r.at # call[v].at)}

KnownIsTrue ==
    \A v \in Vms : qemu[v].up => Settled(v, known[v]) = Settled(v, Rules(v))

(***************************************************************************)
(* docs/networking-port-forwarding.md: "On a running VM, forwards are      *)
(* added/removed live".  At its netdev, hostfwd_remove of a rule the       *)
(* caller knows to be there is Ok.                                         *)
(***************************************************************************)
RemovesWhatWasAdded ==
    \A v \in Vms, f \in Forwards :
        /\ qemu[v].up /\ call[v].pc = "replied" /\ call[v].op = "remove"
        /\ call[v].id = qemu[v].id
        /\ call[v].fwd = f /\ ToHostfwd(f) \in known[v] /\ AddressOf(f) \notin doubt[v]
        => IsOk(call[v])

(***************************************************************************)
(* Why KnownIsTrue holds: until QEMU executes a call the caller is right   *)
(* about every address that is not in doubt, and then what the answer says *)
(* of the call's address is so, until the answer is taken or lost.         *)
(***************************************************************************)
RightOff(v, unsure) ==
    {r \in known[v] : r.at \notin unsure} = {r \in Rules(v) : r.at \notin unsure}

Told(v) ==
    LET c == call[v] IN
    CASE c.op = "add" /\ ~c.text -> {r \in Rules(v) : r.at = c.at} = {ToHostfwd(c.fwd)}
      [] c.op = "add" /\ c.text  -> RightOff(v, doubt[v])
      [] c.op = "remove" /\ c.id = qemu[v].id -> \A r \in Rules(v) : r.at # c.at
      [] OTHER -> c.op = "remove" /\ c.text /\ RightOff(v, doubt[v])

PInv ==
    /\ TypeOK
    /\ \A v \in Vms : qemu[v].up =>
         /\ call[v].pc \in {"idle", "sent"} => RightOff(v, doubt[v])
         /\ call[v].pc = "replied" => RightOff(v, doubt[v] \cup {call[v].at}) /\ Told(v)

(***************************************************************************)
(* net args prints the rules its flags ask for in one of the documented    *)
(* forms, each of them and in their order, and ends with status 2 exactly  *)
(* if a flag has no such form, or has the one with an address and without  *)
(* a protocol: through the count of fields, the defaults, the range of     *)
(* ports and the first error that ends the command.                        *)
(***************************************************************************)
PrintsWhatIsAsked ==
    \A v \in Vms :
        LET cmd == NetArgs(options[v]) IN
        /\ cmd.exit = 2 <=> Malformed(options[v]) \/ NamesNoProtocol(options[v])
        /\ cmd.exit = 0 => AsksFor(options[v], cmd.rules)

(***************************************************************************)
(* docs/networking-port-forwarding.md: "[tcp|udp:][HOSTIP:]HOSTPORT:GUEST- *)
(* PORT".  A command line all of whose values have a documented form is    *)
(* taken.                                                                  *)
(***************************************************************************)
DocumentedFormsTaken ==
    \A v \in Vms : NetArgs(options[v]).exit = 2 => Malformed(options[v])

(***************************************************************************)
(* main.rs: ssh-command prints "the ssh invocation that reaches a guest's  *)
(* port 22 through a forward".  When QEMU is started with the same flags,  *)
(* it listens for TCP on loopback at that port, and forwards to port 22.   *)
(***************************************************************************)
SshReaches ==
    [][\A v \in Vms :
         /\ Start(v)
         /\ ParseNetOpts(options[v]).hostPort = 0
         /\ NetSshCommand(options[v]) # 0
         =>
            \E r \in qemu'[v].rules :
                /\ r.guest = Ssh
                /\ r.at.proto = "tcp" /\ r.at.ip \in {Loopback, "0.0.0.0"}
                /\ r.at.port = NetSshCommand(options[v])]_vars
=============================================================================
