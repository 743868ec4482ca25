---------------------------------- MODULE Tcp ----------------------------------
(***************************************************************************)
(* TCP: the socket calls and the port table of kernel32/netx.c and the     *)
(* segment handler of kernel32/netx/tcp.c, on two machines that both run   *)
(* this kernel.  One connects, the other listens.                          *)
(*                                                                         *)
(* The network reorders and loses segments and does not duplicate them; a  *)
(* segment that is lost, or that tcp_input has no use for, is one that     *)
(* stays on its way for ever, and nothing in the code sends one again.  A  *)
(* segment is handled by the receiving thread in one step.  A call sends   *)
(* its segment in one step and stores the new state in a later one, and    *)
(* the answer may come between.  The calls that poll give up at any time.  *)
(*                                                                         *)
(* The code does not compare sequence numbers.  conn says which connect a  *)
(* segment or a socket belongs to; the code cannot see it.                 *)
(*                                                                         *)
(* A definition X_How is X with a plausible slip in it; nothing uses it.   *)
(***************************************************************************)
EXTENDS Naturals

CONSTANTS
    Clients, Servers,   \* the slots of sockets[] on each machine
    CPorts, SPorts,     \* ports: numbers alloc_random_port finds, and numbers to bind
    MaxConns,           \* bound: connects
    MaxSockets          \* bound: calls of sys_socket

ASSUME TcpAssumption ==
    /\ Clients \cap Servers = {} /\ "none" \notin Clients \cup Servers
    /\ CPorts \subseteq Nat \ {0} /\ SPorts \subseteq Nat \ {0} /\ CPorts \cap SPorts = {}
    /\ MaxConns \in Nat /\ MaxSockets \in Nat

VARIABLES
    sock,   \* socket_t of each slot
    port,   \* port_t of each port: the two machines use different numbers
    op,     \* where the call on a socket is
    net,    \* segments on their way
    conns,  \* connects so far
    opened, \* calls of sys_socket so far
    early,  \* connects that took a segment before they stored SYN_SENT (history)
    mixed,  \* an end has taken a segment of another connection (history)
    tidy    \* no socket was given a second port, no port a second socket: the model
            \* stops where one is

vars == <<sock, port, op, net, conns, opened, early, mixed, tidy>>

Socks == Clients \cup Servers
Ports == CPorts \cup SPorts
NoSock == "none"
NoPort == 0
States == {"CLOSED", "LISTEN", "SYN_SENT", "SYN_RECEIVED", "ESTABLISHED", "FIN_WAIT_1",
           "FIN_WAIT_2", "CLOSE_WAIT", "LAST_ACK", "TIME_WAIT"}

Free == [exists |-> FALSE, type |-> "client", state |-> "CLOSED", srcp |-> NoPort, dstp |-> NoPort,
         copy |-> FALSE, wrote |-> FALSE, conn |-> 0]
Down == [status |-> "down", sock |-> NoSock]

Init ==
    /\ sock = [s \in Socks |-> Free] /\ port = [p \in Ports |-> Down]
    /\ op = [s \in Socks |-> "none"] /\ net = {}
    /\ conns = 0 /\ opened = 0 /\ early = {} /\ mixed = FALSE /\ tidy = TRUE

-------------------------------------------------------------------------------
(* tcp_ack and tcp_finack: the segment that is sent and the state after it. *)

Segment(s, flags) == [to |-> sock[s].dstp, from |-> sock[s].srcp, flags |-> flags, conn |-> sock[s].conn]

\* tcp_ack answers to where the segment came from.
AckOf(m) == [to |-> m.from, from |-> m.to, flags |-> "ACK", conn |-> m.conn]

AfterAck(type, st) ==
    CASE type = "client" /\ st = "SYN_SENT"    -> "ESTABLISHED"
      [] type = "client" /\ st = "FIN_WAIT_1"  -> "FIN_WAIT_2"
      [] type = "client" /\ st = "FIN_WAIT_2"  -> "TIME_WAIT"
      [] type = "server" /\ st = "ESTABLISHED" -> "CLOSE_WAIT"
      [] type = "server" /\ st = "LAST_ACK"    -> "CLOSED"
      [] OTHER -> st

AfterFinack(type, st) ==
    CASE type = "client" /\ st = "ESTABLISHED" -> "FIN_WAIT_1"
      [] type = "server" /\ st = "CLOSE_WAIT"  -> "LAST_ACK"
      [] type = "server" /\ st = "ESTABLISHED" -> "CLOSE_WAIT"
      [] OTHER -> st

\* A plain ACK.
AfterPlain(st) ==
    CASE st = "FIN_WAIT_1"   -> "FIN_WAIT_2"
      [] st = "SYN_RECEIVED" -> "ESTABLISHED"
      [] OTHER -> st

-------------------------------------------------------------------------------
(* tcp_input.                                                              *)

\* Segment m is taken by the socket its port names, whatever has become of it.
Taken(m, s) ==
    /\ m \in net /\ m.to \in Ports /\ port[m.to].sock = s
    /\ UNCHANGED <<port, op, conns, opened, tidy>>

Sets(s, st) == sock' = [sock EXCEPT ![s].state = st]
Replies(m, segs) == net' = (net \ {m}) \cup segs
Mixes(m, s) == mixed' = (mixed \/ m.conn # sock[s].conn)

\* A port that is up: the side that connects.
ClientTakes(m, s) ==
    /\ Taken(m, s) /\ port[m.to].status = "up" /\ Mixes(m, s)
    /\ early' = IF op[s] = "syn" THEN early \cup {sock[s].conn} ELSE early
    /\ LET type == sock[s].type   st == sock[s].state
       IN  \/ /\ m.flags \in {"SYN|ACK", "PSH|ACK"}
              /\ Replies(m, {AckOf(m)}) /\ Sets(s, AfterAck(type, st))
           \/ /\ m.flags = "FIN|ACK"
              /\ sock' = [sock EXCEPT ![s].state = AfterFinack(type, AfterAck(type, st)),
                                      ![s].srcp = m.to, ![s].dstp = m.from]
              /\ Replies(m, {AckOf(m), [AckOf(m) EXCEPT !.flags = "FIN|ACK"]})
           \/ /\ m.flags = "ACK"
              /\ Replies(m, {}) /\ Sets(s, AfterPlain(st))

SynAck_AtOnce(m, s) ==
    /\ sock' = [sock EXCEPT ![s].state = "ESTABLISHED", ![s].dstp = m.from, ![s].conn = m.conn]
    /\ Replies(m, {[AckOf(m) EXCEPT !.flags = "SYN|ACK"]})

\* tcp_synack: any SYN, in any state, starts the connection anew.
SynAck(m, s) ==
    /\ sock' = [sock EXCEPT ![s].state = "SYN_RECEIVED", ![s].dstp = m.from, ![s].conn = m.conn]
    /\ Replies(m, {[AckOf(m) EXCEPT !.flags = "SYN|ACK"]})

\* A port that listens.
ServerTakes(m, s) ==
    /\ Taken(m, s) /\ port[m.to].status = "listen"
    /\ LET type == sock[s].type   st == sock[s].state
       IN  \/ /\ m.flags = "SYN"
              /\ SynAck(m, s)
              /\ mixed' = (mixed \/ st # "LISTEN")
           \/ /\ m.flags = "FIN|ACK" /\ st = "ESTABLISHED"
              /\ Replies(m, {AckOf(m), Segment(s, "FIN|ACK")})
              /\ Sets(s, AfterFinack(type, AfterAck(type, st)))
              /\ Mixes(m, s)
           \/ /\ m.flags = "PSH|ACK" \/ (m.flags = "FIN|ACK" /\ st = "CLOSE_WAIT")
              /\ Replies(m, {AckOf(m)}) /\ Sets(s, AfterAck(type, st))
              /\ Mixes(m, s)
           \/ /\ m.flags = "ACK"
              /\ Replies(m, {}) /\ Sets(s, AfterPlain(st))
              /\ Mixes(m, s)
    /\ UNCHANGED early

-------------------------------------------------------------------------------
(* The calls.                                                              *)

Idle(s) == sock[s].exists /\ ~sock[s].copy /\ op[s] = "none"
Call(s, o) == op' = [op EXCEPT ![s] = o]

\* sys_socket, alloc_socket
Socket(s) ==
    /\ ~sock[s].exists /\ opened < MaxSockets
    /\ sock' = [sock EXCEPT ![s] = [Free EXCEPT !.exists = TRUE]]
    /\ opened' = opened + 1
    /\ UNCHANGED <<port, op, net, conns, early, mixed, tidy>>

\* sys_connect and tcp_syn up to the segment.  alloc_random_port takes the
\* lowest port that is down; a port the socket had stays as it is.
Connect(s, p) ==
    /\ Idle(s) /\ s \in Clients /\ conns < MaxConns
    /\ \E q \in CPorts :
        /\ port[q] = Down /\ \A r \in CPorts : r < q => port[r] # Down
        /\ port' = [port EXCEPT ![q] = [status |-> "up", sock |-> s]]
        /\ sock' = [sock EXCEPT ![s].srcp = q, ![s].dstp = p, ![s].conn = conns + 1]
        /\ net' = net \cup {[to |-> p, from |-> q, flags |-> "SYN", conn |-> conns + 1]}
    /\ tidy' = (tidy /\ sock[s].srcp = NoPort)
    /\ conns' = conns + 1 /\ Call(s, "syn")
    /\ UNCHANGED <<opened, early, mixed>>

\* tcp_syn stores the state after the segment is on its way.
ConnectStores(s) ==
    /\ op[s] = "syn" /\ Sets(s, "SYN_SENT") /\ Call(s, "connecting")
    /\ UNCHANGED <<port, net, conns, opened, early, mixed, tidy>>

\* The connection is there, or the tries have run out: connect returns 0.
Connected(s) ==
    /\ op[s] = "connecting" /\ Call(s, "none")
    /\ UNCHANGED <<sock, port, net, conns, opened, early, mixed, tidy>>

\* sys_bind: that the port is taken is not looked at.
Bind(s, p) ==
    /\ Idle(s) /\ s \in Servers
    /\ sock' = [sock EXCEPT ![s].type = "server", ![s].srcp = p]
    /\ port' = IF port[p] = Down THEN [port EXCEPT ![p] = [status |-> "busy", sock |-> s]] ELSE port
    /\ tidy' = (tidy /\ port[p] = Down /\ sock[s].srcp = NoPort)
    /\ UNCHANGED <<op, net, conns, opened, early, mixed>>

\* sys_listen, on a socket that has been bound; the state is not looked at.
Listen(s) ==
    /\ Idle(s) /\ sock[s].type = "server"
    /\ port' = [port EXCEPT ![sock[s].srcp].status = "listen"]
    /\ Sets(s, "LISTEN")
    /\ UNCHANGED <<op, net, conns, opened, early, mixed, tidy>>

\* sys_accept: the new socket is a copy of the one that listens, and the file
\* it is given names no socket.
Accept(s, c) ==
    /\ Idle(s) /\ sock[s].type = "server" /\ sock[s].state = "ESTABLISHED"
    /\ port[sock[s].srcp].status = "listen"
    /\ c \in Servers /\ ~sock[c].exists
    /\ sock' = [sock EXCEPT ![c] = [sock[s] EXCEPT !.copy = TRUE]]
    /\ UNCHANGED <<port, op, net, conns, opened, early, mixed, tidy>>

\* sys_send.  Bound: one write on a socket.
Send(s) ==
    /\ Idle(s) /\ sock[s].state = "ESTABLISHED" /\ ~sock[s].wrote
    /\ net' = net \cup {Segment(s, "PSH|ACK")}
    /\ sock' = [sock EXCEPT ![s].wrote = TRUE]
    /\ UNCHANGED <<port, op, conns, opened, early, mixed, tidy>>

free_socket_Port(s) ==
    /\ sock' = [sock EXCEPT ![s] = Free]
    /\ UNCHANGED port

\* free_socket: the port goes whoever has it.  What stays in the slot is not
\* read again: no port names it, and alloc_socket clears it.
free_socket(s) ==
    /\ sock' = [sock EXCEPT ![s] = Free]
    /\ port' = IF sock[s].srcp = NoPort THEN port ELSE [port EXCEPT ![sock[s].srcp] = Down]

\* sys_close
CloseAtOnce(s) ==
    /\ Idle(s) /\ sock[s].state = "CLOSED"
    /\ free_socket(s)
    /\ UNCHANGED <<op, net, conns, opened, early, mixed, tidy>>

\* tcp_finack up to the segment, and the state after it.
Close(s) ==
    /\ Idle(s) /\ sock[s].state # "CLOSED"
    /\ net' = net \cup {Segment(s, "FIN|ACK")} /\ Call(s, "fin")
    /\ UNCHANGED <<sock, port, conns, opened, early, mixed, tidy>>

CloseStores(s) ==
    /\ op[s] = "fin" /\ Sets(s, AfterFinack(sock[s].type, sock[s].state)) /\ Call(s, "closing")
    /\ UNCHANGED <<port, net, conns, opened, early, mixed, tidy>>

\* TIME_WAIT is there, or the tries have run out.
Closed(s) ==
    /\ op[s] = "closing" /\ Call(s, "none")
    /\ free_socket(s)
    /\ UNCHANGED <<net, conns, opened, early, mixed, tidy>>

Next ==
    /\ tidy /\ ~mixed
    /\ \/ \E m \in net : \E s \in Socks : ClientTakes(m, s) \/ ServerTakes(m, s)
       \/ \E s \in Socks :
            \/ Socket(s) \/ ConnectStores(s) \/ Connected(s) \/ Listen(s) \/ Send(s)
            \/ CloseAtOnce(s) \/ Close(s) \/ CloseStores(s) \/ Closed(s)
            \/ \E p \in SPorts : Connect(s, p) \/ Bind(s, p)
            \/ \E c \in Servers : Accept(s, c)

Spec == Init /\ [][Next]_vars

-------------------------------------------------------------------------------
\* What the two ends of a connection think of it, as long as neither has taken
\* a segment of another: while the side that listens has it established, the
\* one that waits in connect has too, unless the answer overtook the store of
\* SYN_SENT (tcp.c tcp_syn); and when close is told that both ends are done,
\* the side that listens is no more in the middle of it, unless it wrote: what
\* it writes is taken for acknowledgements (tcp.c tcp_ack).
EndsAgree ==
    tidy /\ ~mixed => \A c \in Clients, s \in Servers :
        sock[c].exists /\ sock[s].exists /\ ~sock[s].copy /\ sock[c].conn = sock[s].conn =>
            /\ sock[s].state = "ESTABLISHED" /\ op[c] = "connecting" /\ sock[c].state = "SYN_SENT"
                    => sock[c].conn \in early
            /\ sock[c].state = "TIME_WAIT" /\ sock[s].state = "ESTABLISHED" => sock[s].wrote \/ op[s] # "none"

\* A port that is not down names a socket that is in use and has that port, and
\* the port of a socket names it, for programs that connect a socket once and
\* bind no port twice: connecting again leaves the first port up for ever, and
\* closing the second socket of a port takes it from the first (netx.c sys_bind,
\* free_socket, alloc_random_port).
PortsSound ==
    tidy => /\ \A p \in Ports : port[p] # Down =>
                    port[p].sock \in Socks /\ sock[port[p].sock].exists /\ sock[port[p].sock].srcp = p
            /\ \A s \in Socks : sock[s].exists /\ ~sock[s].copy /\ sock[s].srcp # NoPort =>
                    port[sock[s].srcp].sock = s
==============================================================================
