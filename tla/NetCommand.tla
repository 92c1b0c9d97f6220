----------------------------- MODULE NetCommand -----------------------------
(***************************************************************************)
(* Forward rules and the `vmforge net` commands                            *)
(* (crates/vmforge-core/src/net.rs, crates/vmforge-cli/src/main.rs): how a *)
(* rule is read from a flag, how it is written into QEMU's arguments and   *)
(* into a monitor command, and what the two commands make of their flags.  *)
(*                                                                         *)
(* A forward spec is the sequence of its fields between colons; a field is *)
(* a word or a numeral.                                                    *)
(***************************************************************************)
EXTENDS Naturals, Sequences, FiniteSets, SequencesExt

CONSTANTS
    MaxPort,        \* stands for 65535, the largest port
    Ssh             \* stands for port 22

ASSUME PortsAssumption == MaxPort \in Nat /\ Ssh \in 1 .. MaxPort

Ports    == 1 .. MaxPort
Loopback == "127.0.0.1"
HostIps  == {Loopback, "0.0.0.0", "192.0.2.1"}
Unset    == "unset"                               \* None

Word(w)    == <<"word", w>>
Numeral(n) == <<"numeral", n>>
Fields == {Word(w) : w \in {"tcp", "udp", "icmp", "not.an.ip"} \cup HostIps}
            \cup {Numeral(n) : n \in 0 .. MaxPort + 1}

Forward == [proto : {"tcp", "udp"}, ip : HostIps \cup {Unset},
            host : Ports, guest : Ports]
Invalid == [proto |-> "none", ip |-> Unset, host |-> 0, guest |-> 0]

(***************************************************************************)
(* PortForward::parse.  The number of fields decides what they are.        *)
(***************************************************************************)
ParseProto(f) == IF f[1] = "word" /\ f[2] \in {"tcp", "udp"} THEN f[2] ELSE "none"
ParseIp(f)    == IF f[1] = "word" /\ f[2] \in HostIps THEN f[2] ELSE "none"

(* Mutant of ParsePort: a number that does not fit becomes the largest port. *)
ParsePort_Clamp(f) ==
    IF f[1] = "word" THEN 0 ELSE IF f[2] > MaxPort THEN MaxPort ELSE f[2]

ParsePort(f)  == IF f[1] = "numeral" /\ f[2] \in Ports THEN f[2] ELSE 0

Parse(spec) ==
    LET n   == Len(spec)
        fwd == [proto |-> IF n = 2 THEN "tcp" ELSE ParseProto(spec[1]),
                ip    |-> IF n = 4 THEN ParseIp(spec[2]) ELSE Unset,
                host  |-> ParsePort(spec[n - 1]),
                guest |-> ParsePort(spec[n])]
    IN  IF n \in 2 .. 4 /\ fwd \in Forward THEN fwd ELSE Invalid

(***************************************************************************)
(* Where a rule listens on the host, as to_hostfwd and hostfwd_remove      *)
(* write it; a rule without an address listens on loopback only.           *)
(***************************************************************************)
Address == [proto : {"tcp", "udp"}, ip : HostIps, port : Ports]

HostIp(f)    == IF f.ip = Unset THEN Loopback ELSE f.ip
AddressOf(f) == [proto |-> f.proto, ip |-> HostIp(f), port |-> f.host]

Rule         == [at : Address, guest : Ports]
ToHostfwd(f) == [at |-> AddressOf(f), guest |-> f.guest]

(***************************************************************************)
(* parse_net_opts takes the flags from left to right and ends the process  *)
(* with status 2 at the first one it cannot use: an invalid value, a       *)
(* missing one, an unknown flag.  --model, --user and --json change what   *)
(* is printed only.                                                        *)
(***************************************************************************)
Option ==
    {"--forward"} \X Seq(Fields)
    \cup {"--host-port"} \X Fields
    \cup {"--id"} \X {"net0", "net1", "0bad"}
    \cup {"--mac"} \X {"good", "bad"}
    \cup (STRING \ {"--forward", "--host-port", "--id", "--mac"}) \X {Unset}

NetOpts == [exit : {0, 2}, forwards : Seq(Forward), id : {"net0", "net1", "0bad"},
            mac : {Unset, "good", "bad"}, hostPort : 0 .. MaxPort]
NoOpts  == [exit |-> 0, forwards |-> <<>>, id |-> "net0", mac |-> Unset, hostPort |-> 0]

TakeOption(opts, a) ==
    LET die == [opts EXCEPT !.exit = 2] IN
    CASE opts.exit = 2        -> opts
      [] opts.exit = 0 /\ a[1] = "--forward" ->
            LET f == Parse(a[2]) IN
            IF f = Invalid THEN die ELSE [opts EXCEPT !.forwards = Append(@, f)]
      [] opts.exit = 0 /\ a[1] = "--host-port" ->
            LET p == ParsePort(a[2]) IN
            IF p = 0 THEN die ELSE [opts EXCEPT !.hostPort = p]
      [] opts.exit = 0 /\ a[1] = "--id"  -> [opts EXCEPT !.id = a[2]]
      [] opts.exit = 0 /\ a[1] = "--mac" -> [opts EXCEPT !.mac = a[2]]
      [] opts.exit = 0 /\ a[1] \in {"--json", "--user", "--model"} -> opts
      [] OTHER -> die

(* After the first n flags. *)
OptsAfter(args) ==
    LET o[n \in 0 .. Len(args)] ==
          IF n = 0 THEN NoOpts ELSE TakeOption(o[n - 1], args[n])
    IN  o

ParseNetOpts(args) == OptsAfter(args)[Len(args)]

(* validate: the netdev id and the MAC address, not the rules. *)
Validate(opts) == opts.id \in {"net0", "net1"} /\ opts.mac # "bad"

(***************************************************************************)
(* net args: status 2 or 1, or QEMU's -netdev with the rules in the order  *)
(* of the flags.                                                           *)
(***************************************************************************)
NetArgs(args) ==
    LET opts == ParseNetOpts(args) IN
    [exit  |-> IF opts.exit = 2 THEN 2 ELSE IF Validate(opts) THEN 0 ELSE 1,
     id    |-> opts.id,
     rules |-> [i \in DOMAIN opts.forwards |-> ToHostfwd(opts.forwards[i])]]

(***************************************************************************)
(* net ssh-command: the port it prints, or 0 if it ends with status 2.  An *)
(* explicit --host-port comes first, then the first forward to port 22.    *)
(***************************************************************************)
NetSshCommand(args) ==
    LET opts == ParseNetOpts(args)
        hit  == SelectInSeq(opts.forwards, LAMBDA f : f.guest = Ssh) IN
    CASE opts.exit = 2 -> 0
      [] opts.exit = 0 /\ opts.hostPort # 0 -> opts.hostPort
      [] OTHER -> IF hit = 0 THEN 0 ELSE opts.forwards[hit].host

-----------------------------------------------------------------------------
(***************************************************************************)
(* The documented forms of a rule (docs/networking-port-forwarding.md,     *)
(* NET_USAGE): [tcp|udp:][HOSTIP:]HOSTPORT:GUESTPORT.                      *)
(***************************************************************************)
Forms(r) ==
    LET p == Word(r.at.proto)
        i == Word(r.at.ip)
        h == Numeral(r.at.port)
        g == Numeral(r.guest)
    IN  {<<p, i, h, g>>}
        \cup (IF r.at.ip = Loopback THEN {<<p, h, g>>} ELSE {})
        \cup (IF r.at.proto = "tcp" THEN {<<i, h, g>>} ELSE {})
        \cup (IF r.at.ip = Loopback /\ r.at.proto = "tcp" THEN {<<h, g>>} ELSE {})

(* The command line asks for these rules, in this order. *)
ForwardFlags(args, n) == {i \in 1 .. n : args[i][1] = "--forward"}

AsksFor(args, rules) ==
    LET asked == ForwardFlags(args, Len(args)) IN
    /\ Len(rules) = Cardinality(asked)
    /\ \A i \in asked :
         args[i][2] \in Forms(rules[Cardinality(ForwardFlags(args, i))])

(* The documented form that parse has no pattern for: an address, and no protocol. *)
AddressFirst(spec) == Len(spec) = 3 /\ spec[1] \in {Word(ip) : ip \in HostIps}

NamesNoProtocol(args) ==
    \E i \in DOMAIN args : args[i][1] = "--forward" /\ AddressFirst(args[i][2])

(* Some value of the command line has none of the documented forms. *)
Malformed(args) ==
    \E i \in DOMAIN args :
        \/ args[i][1] = "--forward" /\ \A r \in Rule : args[i][2] \notin Forms(r)
        \/ args[i][1] = "--host-port" /\ args[i][2] \notin {Numeral(p) : p \in Ports}
        \/ args[i][1] \notin {"--forward", "--host-port", "--id", "--mac", "--json",
                              "--user", "--model"}
=============================================================================
