----------------------------- MODULE GuestAgent -----------------------------
(***************************************************************************)
(* The guest-agent channel of one VM: the agent in the guest               *)
(* (guest-tools/agent/vmforge-ga.py), the clients on the host              *)
(* (guest-tools/host/vmforgectl.py) and, between them, QEMU's chardev      *)
(* socket and virtio-serial port.                                          *)
(*                                                                         *)
(* The agent handles one request after the other.  A vmforgectl process    *)
(* opens a connection for every request and numbers its requests from 1.   *)
(* QEMU serves one connection at a time and does not know which reply is   *)
(* for which: a reply goes to whoever is connected when it comes, also to  *)
(* a later process with a request of the same id.  Commands are told apart *)
(* only as shutdown and the others; the timeouts are choices, so a reply   *)
(* may always be late.                                                     *)
(***************************************************************************)
EXTENDS Naturals, Sequences, FiniteSets

CONSTANTS
    Clients,        \* who runs vmforgectl, one process after the other
    NoClient,       \* nobody is connected
    NoRequest,      \* the agent has nothing to answer
    MaxRequests,    \* bound on the number of requests sent
    MaxCuts         \* bound on the number of them that are cut short

ASSUME GuestAgentAssumption ==
    /\ NoClient \notin Clients
    /\ MaxRequests \in Nat
    /\ MaxCuts \in Nat

VARIABLES
    clients,        \* the state of every client
    sent,           \* number of requests sent
    backlog,        \* connections QEMU has not accepted, with their request
    conn,           \* the client QEMU is connected to
    port,           \* requests on their way to the agent
    agent,          \* the reply the agent is about to write
    begun,          \* the agent's buffer holds the beginning of a line
    guest,          \* "boot", "up" (the agent serves) or "down"
    poweroff,       \* the agent has started the power-off
    cuts,           \* number of requests cut short
    spoiled         \* number of whole requests the agent could not read

channel == <<backlog, conn, port, agent, begun, guest, poweroff, spoiled>>
vars == <<clients, sent, backlog, conn, port, agent, begun, guest, poweroff, cuts, spoiled>>

-----------------------------------------------------------------------------
(***************************************************************************)
(* Where a client is in what it was called for: the info request of        *)
(* check_protocol, a single command, the pings of wait_ready, and the      *)
(* three parts of shutdown_graceful.                                       *)
(***************************************************************************)
Phases  == {"off", "info", "command", "ready", "shutdown", "down", "stop"}
Results == {"none", "answered", "ready", "graceful", "hard_stopped", "failed"}

Serials   == 1 .. MaxRequests        \* identify a request; not on the wire
NoId      == 0                       \* the reply to a line that is not JSON
Request   == [id : Serials, from : Clients, serial : Serials,
              shutdown : BOOLEAN, cut : BOOLEAN]
Reply     == [id : Serials \cup {NoId}, from : Clients, serial : Serials, ok : BOOLEAN]

Client == [phase   : Phases,
           waiting : BOOLEAN,        \* a request is sent, its reply is not in
           id      : 0 .. MaxRequests,
           serial  : 0 .. MaxRequests,
           since   : 0 .. MaxRequests,   \* sent, when the process began
           inbox   : Seq(Reply),     \* received on the open connection
           late    : BOOLEAN,        \* the deadline of the loop has passed
           own     : BOOLEAN,        \* every reply it took was its own
           result  : Results]

NewClient == [phase |-> "off", waiting |-> FALSE, id |-> 0, serial |-> 0,
              since |-> 0, inbox |-> <<>>, late |-> FALSE, own |-> TRUE, result |-> "none"]

TypeOK ==
    /\ clients \in [Clients -> Client]
    /\ \A c \in Clients : clients[c].phase \in {"off", "stop"} => ~clients[c].waiting
    /\ \A c \in Clients : clients[c].inbox # <<>> => clients[c].waiting
    /\ sent \in 0 .. MaxRequests
    /\ backlog \in Seq(Request)
    /\ conn \in Clients \cup {NoClient}
    /\ conn # NoClient => clients[conn].waiting
    /\ port \in Seq(Request)
    /\ agent \in Reply \cup {NoRequest}
    /\ guest \in {"boot", "up", "down"}
    /\ poweroff \in BOOLEAN /\ begun \in BOOLEAN
    /\ cuts \in 0 .. MaxCuts /\ spoiled \in 0 .. MaxRequests

Init ==
    /\ clients = [c \in Clients |-> NewClient]
    /\ sent = 0
    /\ backlog = <<>>
    /\ conn = NoClient
    /\ port = <<>>
    /\ agent = NoRequest
    /\ guest = "boot"
    /\ poweroff = FALSE /\ begun = FALSE
    /\ cuts = 0 /\ spoiled = 0

-----------------------------------------------------------------------------
(***************************************************************************)
(* The clients.                                                            *)
(***************************************************************************)
In(c, phases) == clients[c].phase \in phases

(* main: a new process, whose client begins at _id = 0.  The version check *)
(* comes first, except for ping, wait-ready and --skip-version-check.      *)
Start(c) ==
    /\ In(c, {"off"})
    /\ \E p \in {"info", "command", "ready", "shutdown"} :
         clients' = [clients EXCEPT ![c] =
            [NewClient EXCEPT !.phase = p, !.serial = clients[c].serial, !.since = sent]]
    /\ UNCHANGED <<sent, cuts, channel>>

(***************************************************************************)
(* execute: connect (the kernel queues the connection until QEMU accepts   *)
(* it) and send.                                                           *)
(***************************************************************************)
Send(c) ==
    /\ ~In(c, {"off", "stop"})
    /\ ~clients[c].waiting
    /\ guest # "down"
    /\ sent < MaxRequests
    /\ sent' = sent + 1
    /\ clients' = [clients EXCEPT ![c] =
                    [@ EXCEPT !.waiting = TRUE,
                              !.id = clients[c].id + 1, !.serial = sent + 1]]
    /\ \E s \in BOOLEAN :
         /\ s => In(c, {"shutdown", "command"})
         /\ In(c, {"shutdown"}) => s
         /\ backlog' = Append(backlog,
                [id |-> clients[c].id + 1, from |-> c, serial |-> sent + 1,
                 shutdown |-> s, cut |-> FALSE])
    /\ UNCHANGED <<conn, port, agent, begun, guest, poweroff, cuts, spoiled>>

(***************************************************************************)
(* sendall of a long request (the arguments of a command) times out or the *)
(* client dies in it: what was sent of the line stays with QEMU.           *)
(***************************************************************************)
SendCut(c) ==
    /\ In(c, {"command"})
    /\ ~clients[c].waiting
    /\ guest # "down"
    /\ sent < MaxRequests /\ cuts < MaxCuts
    /\ sent' = sent + 1 /\ cuts' = cuts + 1
    /\ clients' = [clients EXCEPT ![c] =
                    [@ EXCEPT !.phase = "off", !.id = clients[c].id + 1,
                              !.serial = sent + 1, !.result = "failed"]]
    /\ backlog' = Append(backlog,
            [id |-> clients[c].id + 1, from |-> c, serial |-> sent + 1,
             shutdown |-> FALSE, cut |-> TRUE])
    /\ UNCHANGED <<conn, port, agent, begun, guest, poweroff, spoiled>>

(***************************************************************************)
(* What the client does once execute has returned, or has raised an error; *)
(* its connection is closed.                                               *)
(***************************************************************************)
Closed(c, own, phase, result) ==
    clients' = [clients EXCEPT ![c] =
                 [@ EXCEPT !.phase = phase, !.waiting = FALSE, !.inbox = <<>>,
                           !.own = own, !.result = result]]

Hangup(c) == conn' = IF conn = c THEN NoClient ELSE conn

Returned(c, own) ==
    \/ /\ In(c, {"info"})                          \* check_protocol
       /\ \/ \E p \in {"command", "shutdown"} : Closed(c, own, p, "none")
          \/ Closed(c, own, "off", "failed")       \* an agent_version it refuses
    \/ /\ In(c, {"command"})
       /\ Closed(c, own, "off", "answered")
    \/ /\ In(c, {"ready"})                         \* wait_ready
       /\ Closed(c, own, "off", "ready")
    \/ /\ In(c, {"shutdown"})                      \* shutdown_graceful: sent
       /\ Closed(c, own, "down", "none")
    \/ /\ In(c, {"down"})                          \* wait_down: it still answers
       /\ Closed(c, own, IF clients[c].late THEN "stop" ELSE "down", "none")

(* Mutant of Raised: a shutdown that failed is waited for, too. *)
Raised_Waits(c, own) ==
    \/ /\ In(c, {"shutdown"})
       /\ Closed(c, own, "down", "none")
    \/ /\ In(c, {"down"})
       /\ Closed(c, own, "off", "graceful")
    \/ /\ In(c, {"info", "command", "ready"})
       /\ Closed(c, own, "off", "failed")

(* Mutant of Raised: wait_ready has no deadline. *)
Raised_NoDeadline(c, own) ==
    \/ /\ In(c, {"info", "command", "down"})
       /\ Closed(c, own, "off", "failed")
    \/ /\ In(c, {"ready"})
       /\ Closed(c, own, "ready", "none")
    \/ /\ In(c, {"shutdown"})
       /\ Closed(c, own, "stop", "none")

Raised(c, own) ==
    \/ /\ In(c, {"info", "command"})
       /\ Closed(c, own, "off", "failed")
    \/ /\ In(c, {"ready"}) /\ clients[c].late
       /\ Closed(c, own, "off", "failed")
    \/ /\ In(c, {"ready"}) /\ ~clients[c].late
       /\ Closed(c, own, "ready", "none")
    \/ /\ In(c, {"shutdown"})
       /\ Closed(c, own, "stop", "none")
    \/ /\ In(c, {"down"})                          \* wait_down: it is silent
       /\ Closed(c, own, "off", "graceful")

(* connect or sendall fails. *)
ConnectFails(c) ==
    /\ ~In(c, {"off", "stop"})
    /\ ~clients[c].waiting
    /\ Raised(c, clients[c].own)
    /\ UNCHANGED <<sent, cuts, channel>>

(* A reply with another id: "stale response from a previous client". *)
Skip(c) ==
    /\ clients[c].inbox # <<>>
    /\ Head(clients[c].inbox).id # clients[c].id
    /\ clients' = [clients EXCEPT ![c].inbox = Tail(clients[c].inbox)]
    /\ UNCHANGED <<sent, cuts, channel>>

(* Mutant of Take: the id is not looked at. *)
Take_AnyId(c) ==
    /\ clients[c].inbox # <<>>
    /\ LET r == Head(clients[c].inbox)
           own == clients[c].own /\ r.serial = clients[c].serial
       IN IF r.ok THEN Returned(c, own) ELSE Raised(c, own)
    /\ Hangup(c)
    /\ UNCHANGED <<sent, cuts, backlog, port, agent, begun, guest, poweroff, spoiled>>

(* The reply with the id awaited: "return" or "error". *)
Take(c) ==
    /\ clients[c].inbox # <<>>
    /\ LET r == Head(clients[c].inbox)
           own == clients[c].own /\ r.serial = clients[c].serial
       IN /\ r.id = clients[c].id
          /\ IF r.ok THEN Returned(c, own) ELSE Raised(c, own)
    /\ Hangup(c)
    /\ UNCHANGED <<sent, cuts, backlog, port, agent, begun, guest, poweroff, spoiled>>

(* The deadline or the socket timeout, or QEMU has closed the connection. *)
RecvFails(c) ==
    /\ clients[c].waiting
    /\ Raised(c, clients[c].own)
    /\ Hangup(c)
    /\ UNCHANGED <<sent, cuts, backlog, port, agent, begun, guest, poweroff, spoiled>>

(* total_timeout of wait_ready or wait_down has passed. *)
Deadline(c) ==
    /\ In(c, {"ready", "down"})
    /\ ~clients[c].late
    /\ clients' = [clients EXCEPT ![c].late = TRUE]
    /\ UNCHANGED <<sent, cuts, channel>>

-----------------------------------------------------------------------------
(***************************************************************************)
(* QEMU exits: powered off, or killed.                                     *)
(***************************************************************************)
QemuExits ==
    /\ guest' = "down"
    /\ backlog' = <<>>
    /\ conn' = NoClient
    /\ port' = <<>>
    /\ agent' = NoRequest
    /\ begun' = FALSE

(* shutdown_graceful's last resort, if its caller gave one. *)
HardStop(c) ==
    /\ In(c, {"stop"})
    /\ \/ /\ Closed(c, clients[c].own, "off", "hard_stopped")
          /\ QemuExits
       \/ /\ Closed(c, clients[c].own, "off", "failed")
          /\ UNCHANGED <<backlog, conn, port, agent, begun, guest>>
    /\ UNCHANGED <<sent, poweroff, cuts, spoiled>>

(***************************************************************************)
(* QEMU accepts the next connection.  What its client has sent goes to the *)
(* guest, even if the client has given up; before the agent has opened the *)
(* port it may be lost.                                                    *)
(***************************************************************************)
Accept ==
    /\ backlog # <<>>
    /\ conn = NoClient
    /\ LET e == Head(backlog)
           live == /\ clients[e.from].waiting
                   /\ clients[e.from].serial = e.serial
       IN /\ conn' = IF live THEN e.from ELSE NoClient
          /\ \/ port' = Append(port, e)
             \/ guest = "boot" /\ UNCHANGED port
    /\ backlog' = Tail(backlog)
    /\ UNCHANGED <<clients, sent, agent, begun, guest, poweroff, cuts, spoiled>>

-----------------------------------------------------------------------------
(***************************************************************************)
(* The agent.                                                              *)
(***************************************************************************)
AgentStart ==
    /\ guest = "boot"
    /\ guest' = "up"
    /\ UNCHANGED <<clients, sent, backlog, conn, port, agent, begun, poweroff, cuts, spoiled>>

(***************************************************************************)
(* serve takes a line out of its buffer, process_line makes the reply.  A  *)
(* line that was begun by a request cut short ends with the next whole     *)
(* one: it is not JSON, and the reply to it has no id.  Otherwise the      *)
(* reply has the request's id, and an accepted shutdown starts the         *)
(* power-off, to come after a delay.                                       *)
(***************************************************************************)
Reads(cut) ==
    /\ guest = "up"
    /\ agent = NoRequest
    /\ port # <<>> /\ Head(port).cut = cut
    /\ port' = Tail(port)
    /\ UNCHANGED <<clients, sent, backlog, conn, guest, cuts>>

Answer(id, ok) == [id |-> id, from |-> Head(port).from,
                   serial |-> Head(port).serial, ok |-> ok]

BeginLine ==
    /\ Reads(TRUE)
    /\ begun' = TRUE
    /\ UNCHANGED <<agent, poweroff, spoiled>>

(* Mutant of SpoiledLine: what cannot be read stays in the buffer. *)
SpoiledLine_Stays ==
    /\ Reads(FALSE) /\ begun
    /\ agent' = Answer(NoId, FALSE)
    /\ spoiled' = spoiled + 1
    /\ UNCHANGED <<begun, poweroff>>

SpoiledLine ==
    /\ Reads(FALSE) /\ begun
    /\ begun' = FALSE
    /\ agent' = Answer(NoId, FALSE)
    /\ spoiled' = spoiled + 1
    /\ UNCHANGED poweroff

ProcessLine ==
    /\ Reads(FALSE) /\ ~begun
    /\ \E ok \in BOOLEAN :
         /\ agent' = Answer(Head(port).id, ok)
         /\ poweroff' = (poweroff \/ (ok /\ Head(port).shutdown))
    /\ UNCHANGED <<begun, spoiled>>

(* The write blocks until somebody is connected; that somebody gets it. *)
WriteReply ==
    /\ agent # NoRequest
    /\ conn # NoClient
    /\ clients' = [clients EXCEPT ![conn].inbox = Append(clients[conn].inbox, agent)]
    /\ agent' = NoRequest
    /\ UNCHANGED <<sent, backlog, conn, port, begun, guest, poweroff, cuts, spoiled>>

(* The write raises an OSError: the reply is lost. *)
WriteFails ==
    /\ agent # NoRequest
    /\ agent' = NoRequest
    /\ UNCHANGED <<clients, sent, backlog, conn, port, begun, guest, poweroff, cuts, spoiled>>

(* The guest powers off. *)
GuestDown ==
    /\ guest = "up"
    /\ poweroff
    /\ QemuExits
    /\ UNCHANGED <<clients, sent, poweroff, cuts, spoiled>>

-----------------------------------------------------------------------------
Execute(c) == Send(c) \/ ConnectFails(c)
Receive(c) == Skip(c) \/ Take(c) \/ RecvFails(c)

Next ==
    \/ \E c \in Clients :
        \/ Start(c)
        \/ Execute(c) \/ SendCut(c) \/ Receive(c)
        \/ Deadline(c) \/ HardStop(c)
    \/ Accept
    \/ AgentStart \/ BeginLine \/ SpoiledLine \/ ProcessLine \/ WriteReply \/ WriteFails \/ GuestDown

Spec == Init /\ [][Next]_vars

(***************************************************************************)
(* Only the client's own steps and its clock are relied on.                *)
(***************************************************************************)
Fairness == \A c \in Clients :
    /\ WF_vars(Execute(c))
    /\ WF_vars(RecvFails(c))
    /\ WF_vars(Deadline(c))
    /\ WF_vars(HardStop(c))

FairSpec == Spec /\ Fairness

-----------------------------------------------------------------------------
(***************************************************************************)
(* Properties.                                                             *)
(***************************************************************************)

(***************************************************************************)
(* G1, "`id` matches responses to requests".  An id is not unique, as each *)
(* process begins at 1; but the reply that execute takes is that to the    *)
(* request it sent, or to one of another process that has given up on it.  *)
(* No process takes a late reply to an earlier request of its own, and no  *)
(* reply that is still awaited is taken by somebody else.                  *)
(***************************************************************************)
Awaited(r) == \E d \in Clients : clients[d].waiting /\ clients[d].serial = r.serial

Fits(c, r) ==
    \/ r.serial = clients[c].serial
    \/ /\ r.from # c \/ r.serial <= clients[c].since
       /\ ~Awaited(r)

RepliesMatch ==
    [][\A c \in Clients : Take(c) => Fits(c, Head(clients[c].inbox))]_vars

(***************************************************************************)
(* shutdown_graceful reports a graceful end only if the agent did start    *)
(* the power-off, unless the process was misled by a reply to another one. *)
(***************************************************************************)
GracefulMeansAsked ==
    \A c \in Clients : clients[c].result = "graceful" /\ clients[c].own => poweroff

(***************************************************************************)
(* A request that was cut short spoils at most one request after it: the   *)
(* agent is in step with the lines again, and no more whole requests go    *)
(* unread than were cut.                                                   *)
(***************************************************************************)
CutSpoilsOne == spoiled + (IF begun THEN 1 ELSE 0) <= cuts

(***************************************************************************)
(* Why CutSpoilsOne holds, for any clients: requests reach the agent in    *)
(* the order in which they were sent, and every one that was cut short is  *)
(* on its way, is the line begun in the agent's buffer, has spoiled one    *)
(* request, or is gone.                                                    *)
(***************************************************************************)
InOrder ==
    /\ \A i, j \in DOMAIN port : i < j => port[i].serial < port[j].serial
    /\ \A i, j \in DOMAIN backlog :
         i < j => backlog[i].serial < backlog[j].serial
    /\ \A i \in DOMAIN port, j \in DOMAIN backlog :
         port[i].serial < backlog[j].serial
    /\ \A i \in DOMAIN port : port[i].serial <= sent
    /\ \A j \in DOMAIN backlog : backlog[j].serial <= sent

CutOnTheirWay ==
    {port[i].serial : i \in {j \in DOMAIN port : port[j].cut}}
    \cup {backlog[i].serial : i \in {j \in DOMAIN backlog : backlog[j].cut}}

CutsCounted ==
    /\ Cardinality(CutOnTheirWay) + spoiled + (IF begun THEN 1 ELSE 0) <= cuts
    /\ cuts <= sent

CInv ==
    /\ TypeOK /\ InOrder /\ CutsCounted
    /\ \A c \in Clients : clients[c].id <= sent /\ clients[c].serial <= sent

(***************************************************************************)
(* Why RepliesMatch and GracefulMeansAsked hold, for any clients.          *)
(* Numbered: the serial number of a message tells who sent it, and of the  *)
(* messages of one process only that of its last request has its id.       *)
(* Connected: while a client waits, its request is at the agent only with  *)
(* this client connected, and the reply comes to nobody else.  Asked: an   *)
(* accepted shutdown that its client has not heard of yet has started the  *)
(* power-off already.                                                      *)
(***************************************************************************)
On(queue) == {queue[i] : i \in DOMAIN queue}

AtAgent  == On(port) \cup ({agent} \ {NoRequest})
Messages == On(backlog) \cup AtAgent \cup UNION {On(clients[c].inbox) : c \in Clients}

NumberedFor(c, m) ==
    /\ m.serial = clients[c].serial => m.from = c
    /\ m.from = c /\ m.serial > clients[c].since =>
          /\ m.id <= clients[c].id
          /\ m.id = clients[c].id => m.id = NoId \/ m.serial = clients[c].serial

Numbered ==
    /\ \A m \in Messages : m.serial <= sent /\ \A c \in Clients : NumberedFor(c, m)
    /\ \A c \in Clients : clients[c].waiting => clients[c].id > 0

Connected ==
    \A c \in Clients : clients[c].waiting =>
        /\ \A m \in AtAgent : m.serial = clients[c].serial => conn = c
        /\ \A d \in Clients : \A m \in On(clients[d].inbox) :
             m.serial = clients[c].serial => d = c

(* What is known of a shutdown request while its client waits for the reply. *)
ShutdownAwaited(c) ==
    /\ \A m \in On(backlog) \cup On(port) : m.serial = clients[c].serial => m.shutdown
    /\ \A m \in On(clients[c].inbox) \cup ({agent} \ {NoRequest}) :
         m.serial = clients[c].serial /\ m.ok => poweroff

Asked ==
    \A c \in Clients :
        /\ In(c, {"shutdown"}) /\ clients[c].waiting => ShutdownAwaited(c)
        /\ In(c, {"down"}) /\ clients[c].own => poweroff

GInv == CInv /\ Numbered /\ Connected /\ Asked /\ GracefulMeansAsked

(***************************************************************************)
(* Whatever the agent, the guest and the other clients do, every call of a *)
(* client ends.                                                            *)
(***************************************************************************)
CallsEnd == \A c \in Clients : ~In(c, {"off"}) ~> In(c, {"off"})

-----------------------------------------------------------------------------
(***************************************************************************)
(* What comments and documents say and the code does not keep.             *)
(***************************************************************************)

(***************************************************************************)
(* "stale response from a previous client": execute takes no reply to a    *)
(* request of another process.  Not so: their ids are the same.            *)
(***************************************************************************)
RepliesAreOwn == \A c \in Clients : clients[c].own

(***************************************************************************)
(* shutdown_graceful, "Returns {graceful ...}": a graceful end was asked   *)
(* for.  Not so: a late reply to a request of another process is taken for *)
(* that of the agent to the shutdown.                                      *)
(***************************************************************************)
GracefulMeansAccepted == \A c \in Clients : clients[c].result = "graceful" => poweroff

(***************************************************************************)
(* shutdown_graceful: "If the guest is still up after `timeout` seconds    *)
(* ... calls `hard_stop()`".  A graceful end is one after which the guest  *)
(* is down.  Not so: one slow ping counts as a guest that is down.         *)
(***************************************************************************)
GracefulMeansDown ==
    \A c \in Clients : clients[c].result = "graceful" => guest = "down"
=============================================================================
