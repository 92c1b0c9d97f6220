--------------------------- MODULE MCPortForward ---------------------------
(***************************************************************************)
(* Small instances of PortForward for TLC: two ports, the second of them   *)
(* SSH's.  The command lines cover the four forms of a spec, both         *)
(* protocols, a rule given twice, another netdev, and every way to end     *)
(* with an error.                                                          *)
(***************************************************************************)
EXTENDS PortForward

H == Numeral(1)
S == Numeral(2)

(* Specs of which most are malformed. *)
Specs ==
    [1 .. 2 -> {Numeral(0), S, Numeral(3), Word("tcp")}]
    \cup ({Word("icmp"), Word("udp"), Word("192.0.2.1"), H} \X {S} \X {Numeral(0), S})
    \cup ({Word("udp")} \X {Word("not.an.ip"), Word("192.0.2.1"), H} \X {H} \X {S})
    \cup {<<>>, <<S>>, <<Word("tcp"), Word(Loopback), H, S, S>>}

MCArgs ==
    { << <<"--forward", <<H, S>> >>, <<"--json", Unset>> >>,
      << <<"--forward", <<Word("udp"), H, S>> >>,
         <<"--forward", <<Word("tcp"), Word("0.0.0.0"), S, S>> >> >>,
      << <<"--id", "net1">>, <<"--mac", "good">>, <<"--host-port", H>> >>,
      << <<"--forward", <<H, S>> >>, <<"--forward", <<Word("tcp"), H, S>> >> >>,
      << <<"--id", "0bad">> >>, << <<"--mac", "bad">> >>, << <<"--bogus", Unset>> >>,
      << <<"--host-port", Numeral(3)>> >> }
    \cup {<< <<"--forward", spec>> >> : spec \in Specs}

MCForwards ==
    { [proto |-> "tcp", ip |-> Unset,     host |-> 1, guest |-> 2],
      [proto |-> "tcp", ip |-> Loopback,  host |-> 1, guest |-> 1],
      [proto |-> "tcp", ip |-> "0.0.0.0", host |-> 1, guest |-> 2],
      [proto |-> "udp", ip |-> Unset,     host |-> 1, guest |-> 1] }
=============================================================================
