----------------------------- MODULE QmpClient -----------------------------
(***************************************************************************)
(* The QMP connection of one QEMU process                                  *)
(* (crates/vmforge-engine-qemu/src/qmp.rs): connect, the handshake, and    *)
(* execute with its read timeout, against a QEMU that answers commands in  *)
(* the order it reads them and sends events whenever it likes.             *)
(*                                                                         *)
(* Commands carry no id on the wire; here they are numbered in the order   *)
(* execute() sends them (qmp_capabilities is number 1), and an answer      *)
(* remembers the number of the command it answers.  Module HvfBackend      *)
(* takes an exchange as one step (its operator Replies); AnswersLag is     *)
(* what justifies that step.                                               *)
(***************************************************************************)
EXTENDS Naturals, Sequences

CONSTANTS
    MaxCommands,    \* bound on the number of commands
    MaxEvents       \* bound on the number of events

ASSUME BoundsAssumption == MaxCommands \in Nat \ {0} /\ MaxEvents \in Nat

VARIABLES
    pc,             \* where the thread that owns the client is
    sent,           \* number of commands sent
    toQemu,         \* commands QEMU has not read yet
    toClient,       \* messages the client has not read yet
    qemu,           \* QEMU's end: "starting", "listening", "open", "closed"
    events,         \* number of events sent
    late,           \* number of execute() that gave up on their answer
    result          \* what the last execute() returned

vars == <<pc, sent, toQemu, toClient, qemu, events, late, result>>

Commands == 1 .. MaxCommands
None     == 0                     \* no command

(* A message: the greeting, an event, or the answer to command `of`, a     *)
(* return or an error.  Of a torn message, an answer or an event, only the *)
(* end is still to be read.                                                *)
Kinds   == {"greeting", "event", "return", "error", "torn"}
Message == [kind : Kinds, of : Commands \cup {None}]
Greeting   == [kind |-> "greeting", of |-> None]
Event      == [kind |-> "event", of |-> None]

PCs == {"connect", "greeting", "idle", "reading", "failed"}

(* Ok with the payload of the answer to command `of`, or Err. *)
Result == [ok : BOOLEAN, of : Commands \cup {None}]
Err    == [ok |-> FALSE, of |-> None]

TypeOK ==
    /\ pc \in PCs
    /\ sent \in Commands \cup {None}
    /\ toQemu \in Seq(Commands)
    /\ toClient \in Seq(Message)
    /\ qemu \in {"starting", "listening", "open", "closed"}
    /\ events \in 0 .. MaxEvents
    /\ late \in Nat
    /\ result \in Result

Init ==
    /\ pc = "connect"
    /\ sent = None
    /\ toQemu = <<>>
    /\ toClient = <<>>
    /\ qemu = "starting"
    /\ events = 0
    /\ late = 0
    /\ result = Err

-----------------------------------------------------------------------------
(***************************************************************************)
(* QEMU.                                                                   *)
(***************************************************************************)
Listen ==
    /\ qemu = "starting"
    /\ qemu' = "listening"
    /\ UNCHANGED <<pc, sent, toQemu, toClient, events, late, result>>

(* Commands are answered in order. *)
Answer(kind) ==
    /\ qemu = "open"
    /\ toQemu # <<>>
    /\ toClient' = Append(toClient, [kind |-> kind, of |-> Head(toQemu)])
    /\ toQemu' = Tail(toQemu)
    /\ UNCHANGED <<pc, sent, qemu, events, late, result>>

SendEvent ==
    /\ qemu = "open"
    /\ events < MaxEvents
    /\ events' = events + 1
    /\ toClient' = Append(toClient, Event)
    /\ UNCHANGED <<pc, sent, toQemu, qemu, late, result>>

(* QEMU exits.  What it has sent can still be read. *)
Close ==
    /\ qemu # "closed"
    /\ qemu' = "closed"
    /\ toQemu' = <<>>
    /\ UNCHANGED <<pc, sent, toClient, events, late, result>>

Qemu == Listen \/ Answer("return") \/ Answer("error") \/ SendEvent \/ Close

-----------------------------------------------------------------------------
(***************************************************************************)
(* connect: retry until the socket is there or the deadline has passed.    *)
(***************************************************************************)
Connect ==
    /\ pc = "connect"
    /\ qemu = "listening"
    /\ qemu' = "open"
    /\ toClient' = <<Greeting>>
    /\ pc' = "greeting"
    /\ UNCHANGED <<sent, toQemu, events, late, result>>

ConnectTimeout ==
    /\ pc = "connect"
    /\ qemu # "listening"
    /\ pc' = "failed"
    /\ UNCHANGED <<sent, toQemu, toClient, qemu, events, late, result>>

(* Mutant of Send: a write that was interrupted is done once more. *)
Send_Twice ==
    /\ qemu = "open"
    /\ sent' = sent + 2
    /\ toQemu' = toQemu \o <<sent + 1, sent + 2>>
    /\ pc' = "reading"
    /\ UNCHANGED result

(* Sending the next command; the write fails once QEMU has closed. *)
Send ==
    /\ qemu = "open"
    /\ sent' = sent + 1
    /\ toQemu' = Append(toQemu, sent + 1)
    /\ pc' = "reading"
    /\ UNCHANGED result

SendFails(next) ==
    /\ qemu = "closed"
    /\ result' = Err
    /\ pc' = next
    /\ UNCHANGED <<sent, toQemu>>

(* The greeting is a QMP greeting: on with execute("qmp_capabilities"). *)
ReadGreeting ==
    /\ pc = "greeting"
    /\ toClient # <<>>
    /\ toClient' = Tail(toClient)
    /\ Send \/ SendFails("failed")
    /\ UNCHANGED <<qemu, events, late>>

Execute ==
    /\ pc = "idle"
    /\ sent < MaxCommands
    /\ Send \/ SendFails("idle")
    /\ UNCHANGED <<toClient, qemu, events, late>>

(***************************************************************************)
(* execute returns r.  An Err of qmp_capabilities is an Err of connect,    *)
(* and the client is dropped.                                              *)
(***************************************************************************)
Return(r) ==
    /\ result' = r
    /\ pc' = IF sent = 1 /\ ~r.ok THEN "failed" ELSE "idle"

(* Mutant of ReadMessage: an event is returned as if it were the answer. *)
ReadMessage_Event ==
    /\ pc = "reading"
    /\ toClient # <<>>
    /\ LET m == Head(toClient) IN
       IF m.kind = "return"
       THEN Return([ok |-> TRUE, of |-> m.of])
       ELSE Return(Err)
    /\ toClient' = Tail(toClient)
    /\ UNCHANGED <<sent, toQemu, qemu, events, late>>

(* One turn of the loop in execute.  A torn message does not parse.        *)
ReadMessage ==
    /\ pc = "reading"
    /\ toClient # <<>>
    /\ LET m == Head(toClient) IN
       \/ /\ m.kind = "return"
          /\ Return([ok |-> TRUE, of |-> m.of])
          /\ UNCHANGED late
       \/ /\ m.kind \in {"error", "torn"}
          /\ Return(Err)
          /\ late' = IF m.of = None THEN late + 1 ELSE late
       \/ /\ m.kind = "event"
          /\ UNCHANGED <<pc, result, late>>
    /\ toClient' = Tail(toClient)
    /\ UNCHANGED <<sent, toQemu, qemu, events>>

(* Mutant of ReadTimeout: no read timeout is set on the socket. *)
ReadTimeout_Never == FALSE /\ UNCHANGED vars

(* Mutant of ReadTimeout: the command is sent again. *)
ReadTimeout_Resend ==
    /\ pc = "reading"
    /\ qemu = "open"
    /\ toClient = <<>>
    /\ sent < MaxCommands
    /\ Send
    /\ UNCHANGED <<toClient, qemu, events, late>>

(***************************************************************************)
(* 30 s without a complete line: the read fails.  The part of a line that  *)
(* has come is lost with the local String, and the rest of it will be read *)
(* as a message of its own.                                                *)
(***************************************************************************)
ReadTimeout ==
    /\ pc \in {"reading", "greeting"}
    /\ qemu # "closed"
    /\ toClient = <<>>
    /\ late' = late + 1
    /\ IF pc = "greeting"
       THEN pc' = "failed" /\ UNCHANGED result
       ELSE Return(Err)
    /\ \/ UNCHANGED <<toClient, toQemu, events>>
       \/ /\ toQemu # <<>>
          /\ toClient' = <<[kind |-> "torn", of |-> Head(toQemu)]>>
          /\ toQemu' = Tail(toQemu)
          /\ UNCHANGED events
       \/ /\ events < MaxEvents
          /\ toClient' = <<[kind |-> "torn", of |-> None]>>
          /\ events' = events + 1
          /\ UNCHANGED toQemu
    /\ UNCHANGED <<sent, qemu>>

(* Everything read and QEMU gone: "QMP connection closed by QEMU". *)
ReadClosed ==
    /\ pc \in {"reading", "greeting"}
    /\ qemu = "closed"
    /\ toClient = <<>>
    /\ IF pc = "greeting"
       THEN pc' = "failed" /\ UNCHANGED result
       ELSE Return(Err)
    /\ UNCHANGED <<sent, toQemu, toClient, qemu, events, late>>

(* The reads and waits of the thread inside connect or execute. *)
Client ==
    \/ Connect \/ ConnectTimeout
    \/ ReadGreeting \/ ReadMessage \/ ReadTimeout \/ ReadClosed

(* A client that is not used any more, or was never made. *)
Finished ==
    /\ pc = "failed" \/ (pc = "idle" /\ sent = MaxCommands)
    /\ UNCHANGED vars

Next == Qemu \/ Client \/ Execute \/ Finished

(***************************************************************************)
(* The thread inside connect or execute runs, and its timers expire; QEMU  *)
(* owes nothing.                                                           *)
(***************************************************************************)
Spec == Init /\ [][Next]_vars /\ WF_vars(Client)

-----------------------------------------------------------------------------
(***************************************************************************)
(* Properties.                                                             *)
(***************************************************************************)

(***************************************************************************)
(* The answers among the messages s are those to the commands first to     *)
(* last, each once and in this order.                                      *)
(***************************************************************************)
AnswersTo(s, first, last) ==
    /\ \A c \in first .. last : \E i \in DOMAIN s : s[i].of = c
    /\ \A i \in DOMAIN s : s[i].of # None => s[i].of \in first .. last
    /\ \A i, j \in DOMAIN s : i < j /\ s[i].of # None /\ s[j].of # None
                                  => s[i].of < s[j].of

(***************************************************************************)
(* The number of answers the client is behind: one for every execute()     *)
(* that ever gave up on a timeout or on the rest of a torn event, and one  *)
(* for the execute() in progress.                                          *)
(***************************************************************************)
Lag == late + (IF pc = "reading" THEN 1 ELSE 0)

(***************************************************************************)
(* While QEMU lives, the answers still to be read are those to the last    *)
(* Lag commands, in order, first the ones QEMU has sent and then the ones  *)
(* it has yet to send.  The client never catches up.                       *)
(***************************************************************************)
AnswersLag ==
    qemu = "open" /\ pc \in {"idle", "reading"} =>
        LET done == sent - Len(toQemu) IN
        /\ Lag <= sent /\ Len(toQemu) <= Lag
        /\ AnswersTo(toClient, sent - Lag + 1, done)
        /\ \A i \in DOMAIN toQemu : toQemu[i] = done + i

(***************************************************************************)
(* Hence Ok of execute() is the payload of the command sent as many        *)
(* commands earlier as execute() has given up: its own if it never has.    *)
(***************************************************************************)
ReturnsLaggingPayload ==
    result.ok /\ pc = "idle" => result.of = sent - late

(***************************************************************************)
(* The inductive invariant behind these.  Before the first command nothing *)
(* is answered; a client in use has a connection; and when QEMU has gone,  *)
(* the answers it has left are still in order, up to some last one.        *)
(***************************************************************************)
Handshake ==
    /\ pc \in {"connect", "greeting"} =>
         /\ sent = None /\ late = 0 /\ toQemu = <<>> /\ ~result.ok
         /\ \A i \in DOMAIN toClient : toClient[i].of = None
    /\ pc \in {"greeting", "idle", "reading"} => qemu \in {"open", "closed"}
    /\ pc = "connect" => qemu # "open"
    /\ pc \in {"idle", "reading"} => sent # None

MessagesOK ==
    \A i \in DOMAIN toClient :
        /\ toClient[i].kind \in {"return", "error"} => toClient[i].of # None
        /\ toClient[i].kind = "event" => toClient[i].of = None

LeftInOrder ==
    pc \in {"idle", "reading"} =>
        /\ Lag <= sent
        /\ \E last \in 0 .. sent : AnswersTo(toClient, sent - Lag + 1, last)

QInv == TypeOK /\ Handshake /\ MessagesOK /\ LeftInOrder /\ AnswersLag
            /\ ReturnsLaggingPayload

(***************************************************************************)
(* Every connect and execute returns, although QEMU may stop answering.    *)
(***************************************************************************)
CallsReturn == pc \in {"connect", "greeting", "reading"} ~> pc \in {"idle", "failed"}

(***************************************************************************)
(* qmp.rs on execute: "Execute a QMP command and return its `return`       *)
(* payload".                                                               *)
(***************************************************************************)
ReturnsItsPayload ==
    result.ok /\ pc = "idle" => result.of = sent
=============================================================================
