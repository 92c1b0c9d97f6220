---------------------------- MODULE MCDiagnose ----------------------------
(***************************************************************************)
(* Small instances of Diagnose for TLC: homes with two VMs whose logs are  *)
(* short and long, empty, redacted, with characters of two bytes, of one   *)
(* name in two directories, and one more than is collected; homes without  *)
(* VMs for every short config text and for the days around the leap days   *)
(* and the turns of centuries.                                             *)
(***************************************************************************)
EXTENDS Diagnose

MCVmName   == <<"a", "b">>
MCFileName == <<"x", "x", "y">>
MCLogLines == {<<"v", "n">>}
MCHostText == <<"host", "n">>
MCCliTexts == {<<"info", "t">>}   \* a path of 40 letters or more

NoFiles == <<Absent, Absent, Absent>>
EmptyHome(config, day) ==
    [dirs |-> {}, disks |-> [v \in Vms |-> <<>>],
     pid |-> [v \in Vms |-> <<Absent, Absent>>], network |-> [v \in Vms |-> NoFiles],
     logs |-> [v \in Vms |-> NoFiles], config |-> config, day |-> day]

(* Texts of up to 3 symbols, of up to 4 short lines, and "12:00 password=x". *)
Symbols     == {"n", "B", "E", "k", "=", "s", "v", "t"}
ShortLines  == {<<"B">>, <<"E">>, <<"o">>, <<"k", "=", "t">>, <<"v", "s", "t", "v">>}
ConfigTexts == UNION {[1 .. n -> Symbols] : n \in 0 .. 3}
               \union {Joined(ls) : ls \in UNION {[1 .. n -> ShortLines] : n \in 2 .. 4}}
               \union {<<"o", "=", "k", "=", "v">>}

ConfigHomes ==
    {EmptyHome(<<t, Absent, Absent>>, 0) : t \in ConfigTexts}
    \union {EmptyHome(<<t, <<"o", "n">>, <<"B", "n">> >>, 0) : t \in [1 .. 2 -> Symbols]}

(* Four years from 1970, the years 1999 to 2000 and 2099 to 2100. *)
DayHomes == {EmptyHome(NoFiles, d) : d \in (0 .. 1461) \union (10957 - 2 .. 11323)
                                            \union (47482 - 2 .. 47482 + 366)}

Cut   == <<"o", "L", "C", "n", "o", "n", "v", "n">>  \* the cut at 6 is in LC
Lined == <<"o", "n", "B", "n", "o", "n">>            \* 6 bytes and 3 lines

VmHome(aLogs, bLogs, net) ==
    [dirs |-> {"a", "b"}, disks |-> ("a" :> <<"d">>) @@ ("b" :> <<>>),
     pid  |-> ("a" :> <<Absent, <<"live">> >>) @@ ("b" :> << <<"dead">>, <<"live">> >>),
     network |-> ("a" :> <<Absent, net, <<"o", "n">> >>) @@ ("b" :> NoFiles),
     logs |-> ("a" :> aLogs) @@ ("b" :> bLogs),
     config |-> NoFiles, day |-> 0]

VmHomes ==
    { VmHome(<< <<"o", "n">>, Cut, <<"v">> >>, NoFiles, <<"B", "n", "v", "n">>),
      VmHome(<< <<>>, Absent, <<"L", "C", "v", "n", "v", "n", "t", "n">> >>,
             <<Absent, <<"k", "=", "v", "n">>, Absent>>, <<"s", "t">>),
      VmHome(<<Lined, <<"o", "v", "n", "n", "o", "n", "v", "n">>, Absent>>, NoFiles, <<"v">>) }

MCHomes == ConfigHomes \union DayHomes \union VmHomes

MCCommandLines ==
    { <<>>, <<"--output", "out.tar">>, <<"--output", "out.txt", "--vm", "a">>,
      <<"--vm", "b", "--output", "out.tar">>, <<"--vm", "--help">>, <<"--home", "other">>,
      <<"--help">>, <<"--output", "out.tar", "--vm">>, <<"bogus">> }

(* The instance is one that the theorems about the filter speak of. *)
ASSUME OrdinaryInstance ==
    OrdinaryHost /\ QuietCli /\ LogNames
=============================================================================
