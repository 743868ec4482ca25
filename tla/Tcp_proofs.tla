------------------------------ MODULE Tcp_proofs ------------------------------
(***************************************************************************)
(* Proofs about Tcp, for any numbers of sockets, ports and connects.       *)
(***************************************************************************)
EXTENDS Tcp, TLAPS

Types == {"client", "server"}
Flags == {"SYN", "SYN|ACK", "PSH|ACK", "FIN|ACK", "ACK"}
Statuses == {"down", "up", "busy", "listen"}
Ops == {"none", "syn", "connecting", "fin", "closing"}
Numbers == Ports \cup {NoPort}
SockType == [exists : BOOLEAN, type : Types, state : States, srcp : Numbers, dstp : Numbers,
             copy : BOOLEAN, wrote : BOOLEAN, conn : Nat]
PortType == [status : Statuses, sock : Socks \cup {NoSock}]
SegType == [to : Numbers, from : Numbers, flags : Flags, conn : Nat]

TypeOK ==
    /\ sock \in [Socks -> SockType]
    /\ port \in [Ports -> PortType]
    /\ op \in [Socks -> Ops]
    /\ net \in SUBSET SegType
    /\ conns \in Nat /\ opened \in Nat
    /\ early \in SUBSET Nat
    /\ mixed \in BOOLEAN /\ tidy \in BOOLEAN

InUse(s) == sock[s].exists /\ ~sock[s].copy

\* Which of the two machines has which number, and who calls what.
ClientsConnect ==
    \A c \in Clients : /\ sock[c].type = "client" /\ sock[c].srcp \notin SPorts
                       /\ sock[c].dstp \notin CPorts
ServersListen ==
    \A s \in Servers : /\ sock[s].srcp \notin CPorts /\ sock[s].dstp \notin SPorts
                       /\ sock[s].type = "server" <=> sock[s].srcp # NoPort
PortsHaveSides ==
    \A p \in Ports : /\ port[p].status = "up" => p \in CPorts
                     /\ port[p].status = "listen" => p \in SPorts
CallsAreOnSockets ==
    \A s \in Socks : /\ op[s] # "none" => InUse(s)
                     /\ op[s] \in {"syn", "connecting"} => s \in Clients
SegmentsCross ==
    \A m \in net : /\ m.to \in CPorts => m.from \notin CPorts
                   /\ m.to \in SPorts => m.from \notin SPorts
Sides ==
    /\ ClientsConnect /\ ServersListen /\ PortsHaveSides /\ CallsAreOnSockets /\ SegmentsCross

\* Who has a port.  No copy has one.
Owners ==
    /\ \A p \in Ports : port[p] # Down =>
          /\ port[p].sock \in Socks /\ InUse(port[p].sock)
          /\ sock[port[p].sock].srcp = p
    /\ \A s \in Socks : InUse(s) /\ sock[s].srcp # NoPort => port[sock[s].srcp].sock = s

PortInv == TypeOK /\ Sides /\ (tidy => Owners)

------------------------------------------------------------------------------
(* The sides and the owners.                                               *)

USE TcpAssumption DEF NoSock, NoPort, Socks, Ports, Numbers

\* At the start every port is down and every slot free.
LEMMA InitPorts == Init => PortInv
<1> SUFFICES ASSUME Init PROVE PortInv
  OBVIOUS
<1>1. TypeOK
  BY DEF Init, TypeOK, Free, Down, SockType, PortType, Types, Statuses, Ops, States
<1>2. Sides
  BY DEF Init, Sides, ClientsConnect, ServersListen, PortsHaveSides, CallsAreOnSockets,
         SegmentsCross, Free, Down
<1>3. Owners
  BY DEF Init, Owners, InUse, Free
<1>4. QED
  BY <1>1, <1>2, <1>3 DEF PortInv

\* socket takes a slot that is free.
LEMMA SocketPorts ==
    ASSUME PortInv, tidy, ~mixed, NEW s \in Socks, Socket(s)
    PROVE  PortInv'
<1>1. TypeOK'
  <2>1. [Free EXCEPT !.exists = TRUE] \in SockType
    BY DEF Free, SockType, Types, States
  <2>2. sock' \in [Socks -> SockType]
    BY <2>1 DEF PortInv, TypeOK, Socket
  <2>3. QED
    BY <2>2 DEF PortInv, TypeOK, Socket
<1>2. /\ \A u \in Socks \ {s} : sock'[u] = sock[u]
      /\ sock'[s] = [Free EXCEPT !.exists = TRUE]
      /\ ~sock[s].exists
  BY DEF PortInv, TypeOK, Socket
<1>3. Sides'
  <2>1. ClientsConnect'
    BY <1>2 DEF PortInv, Sides, ClientsConnect, Free
  <2>2. ServersListen'
    BY <1>2 DEF PortInv, Sides, ServersListen, Free
  <2>3. PortsHaveSides' /\ CallsAreOnSockets' /\ SegmentsCross'
    BY <1>2 DEF PortInv, Sides, PortsHaveSides, CallsAreOnSockets, SegmentsCross, Socket, InUse
  <2>4. QED
    BY <2>1, <2>2, <2>3 DEF Sides
<1>4. Owners'
  BY <1>2 DEF PortInv, Owners, Socket, InUse, Free
<1>5. QED
  BY <1>1, <1>3, <1>4 DEF PortInv

\* A segment is taken by the owner of its port, which is on the right side.
LEMMA Taker ==
    ASSUME PortInv, tidy, NEW m \in net, NEW s \in Socks, port[m.to].sock = s, m.to \in Ports
    PROVE  /\ InUse(s) /\ sock[s].srcp = m.to
           /\ port[m.to].status = "up" => s \in Clients /\ m.to \in CPorts
           /\ port[m.to].status = "listen" => s \in Servers /\ m.to \in SPorts /\ sock[s].type = "server"
<1>1. InUse(s) /\ sock[s].srcp = m.to
  <2>1. port[m.to] # Down
    BY DEF Down
  <2>2. QED
    BY <2>1 DEF PortInv, Owners
<1>2. QED
  BY <1>1 DEF PortInv, Sides, ClientsConnect, ServersListen, PortsHaveSides

\* The states tcp_ack and tcp_finack store are states.
LEMMA AfterTypes ==
    ASSUME NEW type \in Types, NEW st \in States
    PROVE  AfterAck(type, st) \in States /\ AfterFinack(type, st) \in States /\ AfterPlain(st) \in States
BY DEF AfterAck, AfterFinack, AfterPlain, Types, States

\* A socket in use that only its state, its peer, its connection and wrote change of.
LEMMA Moved ==
    ASSUME PortInv, tidy, tidy' = tidy, UNCHANGED port, sock' \in [Socks -> SockType],
           NEW s \in Socks, \A u \in Socks \ {s} : sock'[u] = sock[u],
           InUse(s), InUse(s)',
           sock'[s].srcp = sock[s].srcp, sock'[s].type = sock[s].type,
           s \in Clients => sock'[s].dstp \notin CPorts,
           s \in Servers => sock'[s].dstp \notin SPorts
    PROVE  ClientsConnect' /\ ServersListen' /\ PortsHaveSides' /\ Owners'
<1>1. ClientsConnect'
  BY DEF PortInv, Sides, ClientsConnect
<1>2. ServersListen'
  BY DEF PortInv, Sides, ServersListen
<1>3. PortsHaveSides'
  BY DEF PortInv, Sides, PortsHaveSides
<1>4. Owners'
  BY DEF PortInv, Owners, InUse
<1>5. QED
  BY <1>1, <1>2, <1>3, <1>4

\* A segment does not change whose a port is (tcp_input, a port that is up).
LEMMA ClientTakesPorts ==
    ASSUME PortInv, tidy, ~mixed, NEW m \in net, NEW s \in Socks, ClientTakes(m, s)
    PROVE  PortInv'
<1>1. /\ m.to \in Ports /\ port[m.to].sock = s /\ port[m.to].status = "up"
      /\ UNCHANGED <<port, op, conns, opened, tidy>>
      /\ mixed' = (mixed \/ m.conn # sock[s].conn)
      /\ early' \in {early, early \cup {sock[s].conn}}
  BY DEF ClientTakes, Taken, Mixes
<1>2. /\ InUse(s) /\ sock[s].srcp = m.to /\ s \in Clients /\ m.to \in CPorts
  BY <1>1, Taker
<1>3. /\ m \in SegType /\ m.from \notin CPorts /\ sock[s] \in SockType
      /\ sock[s].type \in Types /\ sock[s].state \in States
  BY <1>2 DEF PortInv, TypeOK, Sides, SegmentsCross, SockType
<1>4. \E st \in States, d \in {sock[s].dstp, m.from} :
         sock' = [sock EXCEPT ![s] = [sock[s] EXCEPT !.state = st, !.dstp = d]]
  <2>1. CASE sock' = [sock EXCEPT ![s].state = AfterFinack(sock[s].type, AfterAck(sock[s].type, sock[s].state)),
                                  ![s].srcp = m.to, ![s].dstp = m.from]
    <3>1. sock' = [sock EXCEPT ![s] = [sock[s] EXCEPT !.state = AfterFinack(sock[s].type, AfterAck(sock[s].type, sock[s].state)), !.dstp = m.from]]
      BY <2>1, <1>2, <1>3 DEF PortInv, TypeOK, SockType
    <3>2. AfterFinack(sock[s].type, AfterAck(sock[s].type, sock[s].state)) \in States
      BY <1>3, AfterTypes
    <3>3. QED
      BY <3>1, <3>2
  <2>2. CASE \E st \in States : sock' = [sock EXCEPT ![s].state = st]
    <3>1. PICK st \in States : sock' = [sock EXCEPT ![s].state = st]
      BY <2>2
    <3>2. sock' = [sock EXCEPT ![s] = [sock[s] EXCEPT !.state = st, !.dstp = sock[s].dstp]]
      BY <3>1, <1>3 DEF PortInv, TypeOK, SockType
    <3>3. QED
      BY <3>2
  <2>3. QED
    BY <2>1, <2>2, <1>3, AfterTypes DEF ClientTakes, Sets
<1>5. net' \subseteq net \cup {AckOf(m), [AckOf(m) EXCEPT !.flags = "FIN|ACK"]}
  BY DEF ClientTakes, Replies
<1>6. PICK st \in States, d \in {sock[s].dstp, m.from} :
         sock' = [sock EXCEPT ![s] = [sock[s] EXCEPT !.state = st, !.dstp = d]]
  BY <1>4
<1>7. sock' \in [Socks -> SockType]
  BY <1>6, <1>3 DEF PortInv, TypeOK, SockType, SegType
<1>8. /\ \A u \in Socks \ {s} : sock'[u] = sock[u]
      /\ sock'[s] = [sock[s] EXCEPT !.state = st, !.dstp = d]
  BY <1>6 DEF PortInv, TypeOK
<1>9. AckOf(m) \in SegType /\ [AckOf(m) EXCEPT !.flags = "FIN|ACK"] \in SegType
  BY <1>3 DEF AckOf, SegType, Flags
<1>10. TypeOK'
  BY <1>1, <1>5, <1>7, <1>9, <1>3 DEF PortInv, TypeOK, SockType
<1>11. sock[s].dstp \notin CPorts /\ d \notin CPorts
  BY <1>2, <1>3 DEF PortInv, Sides, ClientsConnect
<1>12. InUse(s)'
  BY <1>2, <1>3, <1>8 DEF InUse, SockType
<1>13. ClientsConnect' /\ ServersListen' /\ PortsHaveSides' /\ Owners'
  <2>1. /\ sock'[s].srcp = sock[s].srcp /\ sock'[s].type = sock[s].type
        /\ sock'[s].dstp \notin CPorts
    BY <1>8, <1>3, <1>11 DEF SockType
  <2>2. QED
    BY <2>1, <1>1, <1>2, <1>7, <1>8, <1>12, Moved
<1>14. CallsAreOnSockets'
  BY <1>1, <1>8, <1>12 DEF PortInv, Sides, CallsAreOnSockets, InUse
<1>15. SegmentsCross'
  BY <1>5, <1>2, <1>3 DEF PortInv, Sides, SegmentsCross, AckOf
<1>16. QED
  BY <1>10, <1>13, <1>14, <1>15 DEF PortInv, Sides

\* The same on a port that listens.
LEMMA ServerTakesPorts ==
    ASSUME PortInv, tidy, ~mixed, NEW m \in net, NEW s \in Socks, ServerTakes(m, s)
    PROVE  PortInv'
<1>1. /\ m.to \in Ports /\ port[m.to].sock = s /\ port[m.to].status = "listen"
      /\ UNCHANGED <<port, op, conns, opened, tidy, early>>
      /\ mixed' \in {mixed, TRUE, FALSE}
  BY DEF ServerTakes, Taken, Mixes
<1>2. /\ InUse(s) /\ sock[s].srcp = m.to /\ s \in Servers /\ m.to \in SPorts
  BY <1>1, Taker
<1>3. /\ m \in SegType /\ m.from \notin SPorts /\ sock[s] \in SockType
      /\ sock[s].type \in Types /\ sock[s].state \in States
      /\ sock[s].dstp \notin SPorts
      /\ sock[s].srcp \notin CPorts
  BY <1>2 DEF PortInv, TypeOK, Sides, SegmentsCross, SockType, ServersListen
<1>4. \E st \in States, d \in {sock[s].dstp, m.from}, k \in {sock[s].conn, m.conn} :
         sock' = [sock EXCEPT ![s] = [sock[s] EXCEPT !.state = st, !.dstp = d, !.conn = k]]
  <2>1. CASE SynAck(m, s)
    <3>1. sock' = [sock EXCEPT ![s] = [sock[s] EXCEPT !.state = "SYN_RECEIVED", !.dstp = m.from, !.conn = m.conn]]
      BY <2>1, <1>2, <1>3 DEF PortInv, TypeOK, SockType, SynAck
    <3>2. "SYN_RECEIVED" \in States
      BY DEF States
    <3>3. QED
      BY <3>1, <3>2
  <2>2. CASE \E st \in States : sock' = [sock EXCEPT ![s].state = st]
    <3>1. PICK st \in States : sock' = [sock EXCEPT ![s].state = st]
      BY <2>2
    <3>2. sock' = [sock EXCEPT ![s] = [sock[s] EXCEPT !.state = st, !.dstp = sock[s].dstp, !.conn = sock[s].conn]]
      BY <3>1, <1>3 DEF PortInv, TypeOK, SockType
    <3>3. QED
      BY <3>2
  <2>3. QED
    BY <2>1, <2>2, <1>3, AfterTypes DEF ServerTakes, Sets
<1>5. net' \subseteq net \cup {AckOf(m), [AckOf(m) EXCEPT !.flags = "SYN|ACK"], Segment(s, "FIN|ACK")}
  BY DEF ServerTakes, Replies, SynAck
<1>6. PICK st \in States, d \in {sock[s].dstp, m.from}, k \in {sock[s].conn, m.conn} :
         sock' = [sock EXCEPT ![s] = [sock[s] EXCEPT !.state = st, !.dstp = d, !.conn = k]]
  BY <1>4
<1>7. sock' \in [Socks -> SockType]
  BY <1>6, <1>3 DEF PortInv, TypeOK, SockType, SegType
<1>8. /\ \A u \in Socks \ {s} : sock'[u] = sock[u]
      /\ sock'[s] = [sock[s] EXCEPT !.state = st, !.dstp = d, !.conn = k]
  BY <1>6 DEF PortInv, TypeOK
<1>9. /\ AckOf(m) \in SegType /\ [AckOf(m) EXCEPT !.flags = "SYN|ACK"] \in SegType
      /\ Segment(s, "FIN|ACK") \in SegType
  BY <1>3 DEF AckOf, SegType, Flags, Segment, SockType
<1>10. TypeOK'
  BY <1>1, <1>5, <1>7, <1>9, <1>3 DEF PortInv, TypeOK, SockType
<1>11. d \notin SPorts
  BY <1>2, <1>3
<1>12. InUse(s)'
  BY <1>2, <1>3, <1>8 DEF InUse, SockType
<1>13. ClientsConnect' /\ ServersListen' /\ PortsHaveSides' /\ Owners'
  <2>1. /\ sock'[s].srcp = sock[s].srcp /\ sock'[s].type = sock[s].type
        /\ sock'[s].dstp \notin SPorts
    BY <1>8, <1>3, <1>11 DEF SockType
  <2>2. QED
    BY <2>1, <1>1, <1>2, <1>7, <1>8, <1>12, Moved
<1>14. CallsAreOnSockets'
  BY <1>1, <1>8, <1>12 DEF PortInv, Sides, CallsAreOnSockets, InUse
<1>15. SegmentsCross'
  BY <1>5, <1>2, <1>3 DEF PortInv, Sides, SegmentsCross, AckOf, Segment
<1>16. QED
  BY <1>10, <1>13, <1>14, <1>15 DEF PortInv, Sides

\* Connect gives a socket the first port that is down.
LEMMA ConnectPorts ==
    ASSUME PortInv, tidy, ~mixed, NEW s \in Socks, NEW p \in SPorts, Connect(s, p)
    PROVE  PortInv'
<1>1. PICK k \in Nat : k = conns + 1
  BY DEF PortInv, TypeOK
<1>2. PICK q \in CPorts :
        /\ port[q] = Down
        /\ port' = [port EXCEPT ![q] = [status |-> "up", sock |-> s]]
        /\ sock' = [sock EXCEPT ![s].srcp = q, ![s].dstp = p, ![s].conn = k]
        /\ net' = net \cup {[to |-> p, from |-> q, flags |-> "SYN", conn |-> k]}
  BY <1>1 DEF Connect
<1>3. /\ InUse(s) /\ s \in Clients /\ op[s] = "none" /\ op' = [op EXCEPT ![s] = "syn"]
      /\ tidy' => sock[s].srcp = NoPort
      /\ tidy' \in BOOLEAN /\ conns' = conns + 1 /\ UNCHANGED <<opened, early, mixed>>
  BY DEF Connect, Idle, InUse, Call
<1>4. /\ sock[s] \in SockType
      /\ sock' = [sock EXCEPT ![s] = [sock[s] EXCEPT !.srcp = q, !.dstp = p, !.conn = k]]
  BY <1>2 DEF PortInv, TypeOK, SockType
<1> DEFINE n == [sock[s] EXCEPT !.srcp = q, !.dstp = p, !.conn = k]
<1>5. /\ n \in SockType /\ n.srcp = q /\ n.dstp = p /\ n.conn = k
       /\ n.type = sock[s].type /\ n.exists = sock[s].exists /\ n.copy = sock[s].copy
  BY <1>4 DEF SockType
<1>6. TypeOK'
  <2>1. sock' \in [Socks -> SockType]
    BY <1>4, <1>5 DEF PortInv, TypeOK
  <2>2. port' \in [Ports -> PortType]
    BY <1>2 DEF PortInv, TypeOK, PortType, Statuses
  <2>3. net' \in SUBSET SegType
    <3>1. [to |-> p, from |-> q, flags |-> "SYN", conn |-> k] \in SegType
      BY DEF PortInv, TypeOK, SegType, Flags
    <3>2. QED
      BY <1>2, <3>1 DEF PortInv, TypeOK
  <2>4. op' \in [Socks -> Ops]
    BY <1>3 DEF PortInv, TypeOK, Ops
  <2>5. QED
    BY <1>3, <2>1, <2>2, <2>3, <2>4 DEF PortInv, TypeOK
<1>7. /\ \A u \in Socks \ {s} : sock'[u] = sock[u] /\ op'[u] = op[u]
      /\ sock'[s] = [sock[s] EXCEPT !.srcp = q, !.dstp = p, !.conn = k]
      /\ op'[s] = "syn"
      /\ \A r \in Ports \ {q} : port'[r] = port[r]
      /\ port'[q] = [status |-> "up", sock |-> s]
  BY <1>2, <1>3, <1>4 DEF PortInv, TypeOK
<1>8. /\ sock'[s].srcp = q /\ sock'[s].dstp = p /\ sock'[s].type = sock[s].type
      /\ InUse(s)'
  <2>1. /\ sock'[s].srcp = q /\ sock'[s].dstp = p /\ sock'[s].type = sock[s].type
        /\ sock'[s].exists = sock[s].exists /\ sock'[s].copy = sock[s].copy
    <3>1. sock'[s] = n
      BY <1>7
    <3> HIDE DEF n
    <3>2. QED
      BY <1>5, <3>1
  <2>2. QED
    BY <1>3, <2>1 DEF InUse
<1>9. ClientsConnect' /\ ServersListen' /\ PortsHaveSides' /\ CallsAreOnSockets'
  <2>1. ClientsConnect'
    BY <1>7, <1>8 DEF PortInv, Sides, ClientsConnect
  <2>2. ServersListen'
    BY <1>3, <1>7 DEF PortInv, Sides, ServersListen
  <2>3. PortsHaveSides'
    BY <1>7 DEF PortInv, Sides, PortsHaveSides
  <2>4. CallsAreOnSockets'
    BY <1>3, <1>7, <1>8 DEF PortInv, Sides, CallsAreOnSockets, InUse
  <2>5. QED
    BY <2>1, <2>2, <2>3, <2>4
<1>10. SegmentsCross'
  BY <1>2 DEF PortInv, Sides, SegmentsCross
<1>11. ASSUME tidy' PROVE Owners'
  <2>1. \A u \in Socks : InUse(u) => sock[u].srcp # q
    BY <1>2 DEF PortInv, Owners, Down
  <2>2. ASSUME NEW r \in Ports, port'[r] # Down
        PROVE  (port[r].sock \in Socks /\ InUse(port[r].sock) /\ sock[port[r].sock].srcp = r)'
    <3>1. CASE r = q
      <4>1. port'[r].sock = s
        BY <3>1, <1>7
      <4>2. QED
        BY <3>1, <4>1, <1>8
    <3>2. CASE r # q
      <4>1. port[r].sock \in Socks /\ InUse(port[r].sock) /\ sock[port[r].sock].srcp = r
        BY <3>2, <2>2, <1>7 DEF PortInv, Owners
      <4>2. port[r].sock # s
        BY <4>1, <1>11, <1>3
      <4>3. QED
        BY <3>2, <4>1, <4>2, <1>7 DEF InUse
    <3>3. QED
      BY <3>1, <3>2
  <2>3. ASSUME NEW u \in Socks, InUse(u)', sock'[u].srcp # NoPort
        PROVE  port'[sock'[u].srcp].sock = u
    <3>1. CASE u = s
      BY <3>1, <1>7, <1>8
    <3>2. CASE u # s
      <4>1. InUse(u) /\ sock[u].srcp # NoPort /\ sock'[u] = sock[u]
        BY <3>2, <2>3, <1>7 DEF InUse
      <4>2. port[sock[u].srcp].sock = u /\ sock[u].srcp # q /\ sock[u].srcp \in Ports
        BY <4>1, <2>1 DEF PortInv, Owners, TypeOK, SockType
      <4>3. QED
        BY <4>1, <4>2, <1>7
    <3>3. QED
      BY <3>1, <3>2
  <2>4. QED
    BY <2>2, <2>3 DEF Owners
<1>12. QED
  BY <1>6, <1>9, <1>10, <1>11 DEF PortInv, Sides

\* bind gives a socket the port it asks for, if nobody has it.
LEMMA BindPorts ==
    ASSUME PortInv, tidy, ~mixed, NEW s \in Socks, NEW p \in SPorts, Bind(s, p)
    PROVE  PortInv'
<1>1. /\ sock' = [sock EXCEPT ![s].type = "server", ![s].srcp = p]
      /\ port' = IF port[p] = Down THEN [port EXCEPT ![p] = [status |-> "busy", sock |-> s]] ELSE port
      /\ InUse(s) /\ s \in Servers /\ op[s] = "none"
      /\ tidy' => port[p] = Down /\ sock[s].srcp = NoPort
      /\ tidy' \in BOOLEAN /\ UNCHANGED <<op, net, conns, opened, early, mixed>>
  BY DEF Bind, Idle, InUse
<1>2. /\ sock[s] \in SockType
      /\ sock' = [sock EXCEPT ![s] = [sock[s] EXCEPT !.type = "server", !.srcp = p]]
  BY <1>1 DEF PortInv, TypeOK, SockType
<1>3. TypeOK'
  <2>1. sock' \in [Socks -> SockType]
    BY <1>2 DEF PortInv, TypeOK, SockType, Types
  <2>2. port' \in [Ports -> PortType]
    BY <1>1 DEF PortInv, TypeOK, PortType, Statuses
  <2>3. QED
    BY <1>1, <2>1, <2>2 DEF PortInv, TypeOK
<1>4. /\ \A u \in Socks \ {s} : sock'[u] = sock[u]
      /\ sock'[s] = [sock[s] EXCEPT !.type = "server", !.srcp = p]
      /\ \A r \in Ports \ {p} : port'[r] = port[r]
      /\ port'[p] \in {[status |-> "busy", sock |-> s], port[p]}
      /\ tidy' => port'[p] = [status |-> "busy", sock |-> s]
  BY <1>1, <1>2 DEF PortInv, TypeOK
<1>5. /\ sock'[s].srcp = p /\ sock'[s].type = "server" /\ sock'[s].dstp = sock[s].dstp
      /\ InUse(s)'
  BY <1>1, <1>2, <1>4 DEF SockType, InUse
<1>6. ClientsConnect' /\ ServersListen' /\ PortsHaveSides' /\ CallsAreOnSockets' /\ SegmentsCross'
  <2>1. ClientsConnect'
    BY <1>1, <1>4 DEF PortInv, Sides, ClientsConnect
  <2>2. ServersListen'
    <3>1. \A u \in Servers \ {s} : sock'[u] = sock[u]
      BY <1>4
    <3>2. p \notin CPorts /\ p # NoPort
      OBVIOUS
    <3>3. QED
      BY <1>1, <1>5, <3>1, <3>2 DEF PortInv, Sides, ServersListen
  <2>3. PortsHaveSides'
    BY <1>4 DEF PortInv, Sides, PortsHaveSides
  <2>4. CallsAreOnSockets' /\ SegmentsCross'
    BY <1>1, <1>4, <1>5 DEF PortInv, Sides, CallsAreOnSockets, SegmentsCross, InUse
  <2>5. QED
    BY <2>1, <2>2, <2>3, <2>4
<1>7. ASSUME tidy' PROVE Owners'
  <2>1. port[p] = Down /\ sock[s].srcp = NoPort
    BY <1>1, <1>7
  <2>2. \A u \in Socks : InUse(u) => sock[u].srcp # p
    BY <2>1 DEF PortInv, Owners, Down
  <2>3. ASSUME NEW r \in Ports, port'[r] # Down
        PROVE  (port[r].sock \in Socks /\ InUse(port[r].sock) /\ sock[port[r].sock].srcp = r)'
    <3>1. CASE r = p
      <4>1. port'[r].sock = s
        BY <3>1, <1>4, <1>7
      <4>2. QED
        BY <3>1, <4>1, <1>5
    <3>2. CASE r # p
      <4>1. port[r].sock \in Socks /\ InUse(port[r].sock) /\ sock[port[r].sock].srcp = r
        BY <3>2, <2>3, <1>4 DEF PortInv, Owners
      <4>2. port[r].sock # s
        BY <4>1, <2>1
      <4>3. QED
        BY <3>2, <4>1, <4>2, <1>4 DEF InUse
    <3>3. QED
      BY <3>1, <3>2
  <2>4. ASSUME NEW u \in Socks, InUse(u)', sock'[u].srcp # NoPort
        PROVE  port'[sock'[u].srcp].sock = u
    <3>1. CASE u = s
      BY <3>1, <1>4, <1>5, <1>7
    <3>2. CASE u # s
      <4>1. InUse(u) /\ sock[u].srcp # NoPort /\ sock'[u] = sock[u]
        BY <3>2, <2>4, <1>4 DEF InUse
      <4>2. port[sock[u].srcp].sock = u /\ sock[u].srcp # p /\ sock[u].srcp \in Ports
        BY <4>1, <2>2 DEF PortInv, Owners, TypeOK, SockType
      <4>3. QED
        BY <4>1, <4>2, <1>4
    <3>3. QED
      BY <3>1, <3>2
  <2>5. QED
    BY <2>3, <2>4 DEF Owners
<1>8. QED
  BY <1>3, <1>6, <1>7 DEF PortInv, Sides

\* listen on a socket that has been bound.
LEMMA ListenPorts ==
    ASSUME PortInv, tidy, ~mixed, NEW s \in Socks, Listen(s)
    PROVE  PortInv'
<1>1. /\ InUse(s) /\ op[s] = "none" /\ sock[s].type = "server"
      /\ port' = [port EXCEPT ![sock[s].srcp].status = "listen"]
      /\ sock' = [sock EXCEPT ![s].state = "LISTEN"]
      /\ UNCHANGED <<op, net, conns, opened, early, mixed, tidy>>
  BY DEF Listen, Idle, InUse, Sets
<1>2. s \in Servers /\ sock[s].srcp \in SPorts /\ sock[s] \in SockType
  BY <1>1 DEF PortInv, Sides, ClientsConnect, ServersListen, TypeOK, SockType
<1> DEFINE p == sock[s].srcp
<1>3. port[p].sock = s /\ port[p] \in PortType
  BY <1>1, <1>2 DEF PortInv, Owners, TypeOK
<1>4. /\ \A u \in Socks \ {s} : sock'[u] = sock[u]
      /\ sock'[s] = [sock[s] EXCEPT !.state = "LISTEN"]
      /\ \A r \in Ports \ {p} : port'[r] = port[r]
      /\ port'[p] = [status |-> "listen", sock |-> s]
  BY <1>1, <1>2, <1>3 DEF PortInv, TypeOK, PortType
<1>5. /\ sock'[s] \in SockType /\ sock'[s].srcp = p /\ sock'[s].type = "server"
      /\ sock'[s].dstp = sock[s].dstp /\ InUse(s)'
  BY <1>1, <1>2, <1>4 DEF SockType, States, InUse
<1>6. TypeOK'
  <2>1. sock' \in [Socks -> SockType]
    BY <1>1, <1>4, <1>5 DEF PortInv, TypeOK
  <2>2. port' \in [Ports -> PortType]
    <3>1. port'[p] \in PortType
      BY <1>4 DEF PortType, Statuses
    <3>2. port' = [r \in Ports |-> IF r = p THEN port'[p] ELSE port[r]]
      BY <1>1, <1>2, <1>4 DEF PortInv, TypeOK
    <3>3. QED
      BY <3>1, <3>2 DEF PortInv, TypeOK
  <2>3. QED
    BY <1>1, <2>1, <2>2 DEF PortInv, TypeOK
<1>7. Sides'
  <2>1. ClientsConnect'
    BY <1>2, <1>4 DEF PortInv, Sides, ClientsConnect
  <2>2. ServersListen'
    <3>1. \A u \in Servers \ {s} : sock'[u] = sock[u]
      BY <1>4
    <3>2. QED
      BY <1>1, <1>2, <1>5, <3>1 DEF PortInv, Sides, ServersListen
  <2>3. PortsHaveSides'
    BY <1>2, <1>4 DEF PortInv, Sides, PortsHaveSides
  <2>4. CallsAreOnSockets' /\ SegmentsCross'
    BY <1>1, <1>4, <1>5 DEF PortInv, Sides, CallsAreOnSockets, SegmentsCross, InUse
  <2>5. QED
    BY <2>1, <2>2, <2>3, <2>4 DEF Sides
<1>8. Owners'
  <2>1. ASSUME NEW r \in Ports, port'[r] # Down
        PROVE  (port[r].sock \in Socks /\ InUse(port[r].sock) /\ sock[port[r].sock].srcp = r)'
    <3>1. CASE r = p
      <4>1. port'[r].sock = s
        BY <3>1, <1>4
      <4>2. QED
        BY <3>1, <4>1, <1>5
    <3>2. CASE r # p
      <4>1. port[r].sock \in Socks /\ InUse(port[r].sock) /\ sock[port[r].sock].srcp = r
        BY <3>2, <2>1, <1>4 DEF PortInv, Owners
      <4>2. port[r].sock # s
        BY <4>1, <3>2
      <4>3. QED
        BY <3>2, <4>1, <4>2, <1>4 DEF InUse
    <3>3. QED
      BY <3>1, <3>2
  <2>2. ASSUME NEW u \in Socks, InUse(u)', sock'[u].srcp # NoPort
        PROVE  port'[sock'[u].srcp].sock = u
    <3>1. CASE u = s
      BY <3>1, <1>4, <1>5
    <3>2. CASE u # s
      <4>1. InUse(u) /\ sock[u].srcp # NoPort /\ sock'[u] = sock[u]
        BY <3>2, <2>2, <1>4 DEF InUse
      <4>2. port[sock[u].srcp].sock = u /\ sock[u].srcp \in Ports
        BY <4>1 DEF PortInv, Owners, TypeOK, SockType
      <4>3. sock[u].srcp # p
        BY <4>2, <1>3, <3>2
      <4>4. QED
        BY <4>1, <4>2, <4>3, <1>4
    <3>3. QED
      BY <3>1, <3>2
  <2>3. QED
    BY <2>1, <2>2 DEF Owners
<1>9. QED
  BY <1>6, <1>7, <1>8 DEF PortInv

\* accept copies the socket that listens to a slot that is free.
LEMMA AcceptPorts ==
    ASSUME PortInv, tidy, ~mixed, NEW s \in Socks, NEW c \in Servers, Accept(s, c)
    PROVE  PortInv'
<1>1. /\ InUse(s) /\ sock[s].type = "server" /\ ~sock[c].exists
      /\ sock' = [sock EXCEPT ![c] = [sock[s] EXCEPT !.copy = TRUE]]
      /\ UNCHANGED <<port, op, net, conns, opened, early, mixed, tidy>>
  BY DEF Accept, Idle, InUse
<1>2. s \in Servers /\ sock[s] \in SockType
  BY <1>1 DEF PortInv, Sides, ClientsConnect, TypeOK
<1>3. /\ \A u \in Socks \ {c} : sock'[u] = sock[u]
      /\ sock'[c] = [sock[s] EXCEPT !.copy = TRUE]
  BY <1>1 DEF PortInv, TypeOK
<1>4. /\ sock'[c] \in SockType /\ sock'[c].type = sock[s].type /\ sock'[c].srcp = sock[s].srcp
      /\ sock'[c].dstp = sock[s].dstp /\ sock'[c].copy
  BY <1>2, <1>3 DEF SockType
<1>5. TypeOK'
  BY <1>1, <1>3, <1>4 DEF PortInv, TypeOK
<1>6. Sides'
  <2>1. ClientsConnect'
    BY <1>3 DEF PortInv, Sides, ClientsConnect
  <2>2. ServersListen'
    <3>1. \A u \in Servers \ {c} : sock'[u] = sock[u]
      BY <1>3
    <3>2. QED
      BY <1>2, <1>4, <3>1 DEF PortInv, Sides, ServersListen
  <2>3. PortsHaveSides' /\ CallsAreOnSockets' /\ SegmentsCross'
    BY <1>1, <1>3 DEF PortInv, Sides, PortsHaveSides, CallsAreOnSockets, SegmentsCross, InUse
  <2>4. QED
    BY <2>1, <2>2, <2>3 DEF Sides
<1>7. Owners'
  BY <1>1, <1>3, <1>4 DEF PortInv, Owners, InUse
<1>8. QED
  BY <1>5, <1>6, <1>7 DEF PortInv

\* What a call sends goes to the other side.
LEMMA SegmentCrosses ==
    ASSUME PortInv, NEW s \in Socks, NEW f \in Flags
    PROVE  /\ Segment(s, f) \in SegType
           /\ Segment(s, f).to \in CPorts => Segment(s, f).from \notin CPorts
           /\ Segment(s, f).to \in SPorts => Segment(s, f).from \notin SPorts
           /\ Segment(s, f).flags = f /\ Segment(s, f).conn = sock[s].conn
           /\ s \in Clients => Segment(s, f).to \notin CPorts
           /\ s \in Servers => Segment(s, f).to \notin SPorts
<1>1. sock[s] \in SockType
  BY DEF PortInv, TypeOK
<1>2. Segment(s, f) \in SegType
  BY <1>1 DEF Segment, SegType, SockType
<1>3. QED
  BY <1>2 DEF Segment, PortInv, Sides, ClientsConnect, ServersListen

\* The steps of a call that only change a state, an operation and the network.
LEMMA CallPorts ==
    ASSUME PortInv, tidy, ~mixed, NEW s \in Socks,
           \/ ConnectStores(s) \/ Connected(s) \/ Send(s) \/ Close(s) \/ CloseStores(s)
    PROVE  PortInv'
<1>1. InUse(s)
  BY DEF ConnectStores, Connected, Send, Close, CloseStores, Idle, InUse, PortInv, Sides, CallsAreOnSockets
<1>2. sock[s] \in SockType /\ sock[s].state \in States /\ sock[s].type \in Types /\ sock[s].wrote \in BOOLEAN
  BY DEF PortInv, TypeOK, SockType
<1>3. \E st \in States, w \in BOOLEAN :
         sock' = [sock EXCEPT ![s] = [sock[s] EXCEPT !.state = st, !.wrote = w]]
  <2>1. CASE \E st \in States : Sets(s, st)
    <3>1. PICK st \in States : Sets(s, st)
      BY <2>1
    <3>2. sock' = [sock EXCEPT ![s] = [sock[s] EXCEPT !.state = st, !.wrote = sock[s].wrote]]
      BY <3>1, <1>2 DEF PortInv, TypeOK, SockType, Sets
    <3>3. QED
      BY <3>2, <1>2
  <2>2. CASE Send(s)
    <3>1. sock' = [sock EXCEPT ![s] = [sock[s] EXCEPT !.state = sock[s].state, !.wrote = TRUE]]
      BY <2>2, <1>2 DEF PortInv, TypeOK, SockType, Send
    <3>2. QED
      BY <3>1, <1>2
  <2>3. CASE sock' = sock
    <3>1. sock' = [sock EXCEPT ![s] = [sock[s] EXCEPT !.state = sock[s].state, !.wrote = sock[s].wrote]]
      BY <2>3, <1>2 DEF PortInv, TypeOK, SockType
    <3>2. QED
      BY <3>1, <1>2
  <2>4. "SYN_SENT" \in States /\ AfterFinack(sock[s].type, sock[s].state) \in States
    BY <1>2, AfterTypes DEF States
  <2>5. QED
    BY <2>1, <2>2, <2>3, <2>4 DEF ConnectStores, Connected, Close, CloseStores
<1>4. PICK st \in States, w \in BOOLEAN :
         sock' = [sock EXCEPT ![s] = [sock[s] EXCEPT !.state = st, !.wrote = w]]
  BY <1>3
<1>5. /\ \A u \in Socks \ {s} : sock'[u] = sock[u]
      /\ sock'[s] = [sock[s] EXCEPT !.state = st, !.wrote = w]
  BY <1>4 DEF PortInv, TypeOK
<1>6. /\ sock'[s] \in SockType /\ sock'[s].srcp = sock[s].srcp /\ sock'[s].type = sock[s].type
      /\ sock'[s].dstp = sock[s].dstp /\ InUse(s)'
  BY <1>1, <1>2, <1>5 DEF SockType, InUse
<1>7. /\ net' \in {net, net \cup {Segment(s, "PSH|ACK")}, net \cup {Segment(s, "FIN|ACK")}}
      /\ UNCHANGED <<port, conns, opened, early, mixed, tidy>>
  BY DEF ConnectStores, Connected, Send, Close, CloseStores
<1>8. /\ \E o \in Ops : op' = [op EXCEPT ![s] = o]
      /\ op'[s] \in {"syn", "connecting"} => s \in Clients
      /\ \A u \in Socks \ {s} : op'[u] = op[u]
  <2>1. \A u \in Socks : op[u] \in Ops
    BY DEF PortInv, TypeOK
  <2>2. CASE op' = op
    <3>1. op' = [op EXCEPT ![s] = op[s]]
      BY <2>2 DEF PortInv, TypeOK
    <3>2. QED
      BY <2>1, <2>2, <3>1 DEF PortInv, Sides, CallsAreOnSockets
  <2>3. CASE ConnectStores(s)
    BY <2>3 DEF PortInv, Sides, TypeOK, CallsAreOnSockets, ConnectStores, Call, Ops
  <2>4. CASE Connected(s) \/ Close(s) \/ CloseStores(s)
    BY <2>4 DEF PortInv, TypeOK, Connected, Close, CloseStores, Call, Ops
  <2>5. QED
    BY <2>2, <2>3, <2>4 DEF Send
<1>9. TypeOK'
  <2>1. sock' \in [Socks -> SockType]
    BY <1>4, <1>5, <1>6 DEF PortInv, TypeOK
  <2>2. net' \in SUBSET SegType
    BY <1>7, SegmentCrosses DEF PortInv, TypeOK, Flags
  <2>3. QED
    BY <1>7, <1>8, <2>1, <2>2 DEF PortInv, TypeOK
<1>10. ClientsConnect' /\ ServersListen' /\ PortsHaveSides' /\ Owners'
  <2>1. sock' \in [Socks -> SockType]
    BY <1>9 DEF TypeOK
  <2>2. /\ s \in Clients => sock'[s].dstp \notin CPorts
        /\ s \in Servers => sock'[s].dstp \notin SPorts
    BY <1>6 DEF PortInv, Sides, ClientsConnect, ServersListen
  <2>3. tidy' = tidy /\ UNCHANGED port
    BY <1>7
  <2>4. QED
    BY <1>1, <1>5, <1>6, <2>1, <2>2, <2>3, Moved
<1>11. CallsAreOnSockets'
  BY <1>5, <1>6, <1>8 DEF PortInv, Sides, CallsAreOnSockets, InUse
<1>12. SegmentsCross'
  BY <1>7, SegmentCrosses DEF PortInv, Sides, SegmentsCross, Flags
<1>13. QED
  BY <1>9, <1>10, <1>11, <1>12 DEF PortInv, Sides

\* A socket that is freed takes its port with it.
LEMMA FreePorts ==
    ASSUME PortInv, tidy, ~mixed, NEW s \in Socks, CloseAtOnce(s) \/ Closed(s)
    PROVE  PortInv'
<1> DEFINE p == sock[s].srcp
<1>1. /\ InUse(s) /\ op' \in {op, [op EXCEPT ![s] = "none"]}
      /\ sock' = [sock EXCEPT ![s] = Free]
      /\ port' = IF p = NoPort THEN port ELSE [port EXCEPT ![p] = Down]
      /\ UNCHANGED <<net, conns, opened, early, mixed, tidy>>
  BY DEF CloseAtOnce, Closed, Idle, Call, free_socket, InUse, PortInv, Sides, CallsAreOnSockets
<1>2. op[s] = "none" \/ op' = [op EXCEPT ![s] = "none"]
  BY DEF CloseAtOnce, Closed, Idle, Call
<1>3. /\ \A u \in Socks \ {s} : sock'[u] = sock[u] /\ op'[u] = op[u]
      /\ sock'[s] = Free /\ op'[s] = "none"
      /\ \A r \in Ports \ {p} : port'[r] = port[r]
      /\ p \in Ports => port'[p] = Down
  BY <1>1, <1>2 DEF PortInv, TypeOK
<1>4. Free \in SockType /\ Down \in PortType
  BY DEF Free, SockType, Types, States, Down, PortType, Statuses
<1>5. TypeOK'
  BY <1>1, <1>4 DEF PortInv, TypeOK, Ops
<1>6. Sides'
  <2>1. ClientsConnect'
    BY <1>3 DEF PortInv, Sides, ClientsConnect, Free
  <2>2. ServersListen'
    BY <1>3 DEF PortInv, Sides, ServersListen, Free
  <2>3. PortsHaveSides'
    BY <1>3 DEF PortInv, Sides, PortsHaveSides, Down
  <2>4. CallsAreOnSockets' /\ SegmentsCross'
    BY <1>1, <1>3 DEF PortInv, Sides, CallsAreOnSockets, SegmentsCross, InUse
  <2>5. QED
    BY <2>1, <2>2, <2>3, <2>4 DEF Sides
<1>7. Owners'
  <2>1. ASSUME NEW r \in Ports, port'[r] # Down
        PROVE  (port[r].sock \in Socks /\ InUse(port[r].sock) /\ sock[port[r].sock].srcp = r)'
    <3>1. r # p /\ port'[r] = port[r]
      BY <2>1, <1>3
    <3>2. port[r].sock \in Socks /\ InUse(port[r].sock) /\ sock[port[r].sock].srcp = r
      BY <2>1, <3>1 DEF PortInv, Owners
    <3>3. QED
      BY <3>1, <3>2, <1>3 DEF InUse
  <2>2. ASSUME NEW u \in Socks, InUse(u)', sock'[u].srcp # NoPort
        PROVE  port'[sock'[u].srcp].sock = u
    <3>1. u # s /\ sock'[u] = sock[u]
      BY <2>2, <1>3 DEF Free
    <3>2. InUse(u) /\ port[sock[u].srcp].sock = u /\ sock[u].srcp \in Ports
      BY <2>2, <3>1 DEF PortInv, Owners, InUse, TypeOK, SockType
    <3>3. sock[u].srcp # p
      <4>1. ASSUME p \in Ports PROVE port[p].sock = s
        BY <4>1, <1>1 DEF PortInv, Owners
      <4>2. QED
        BY <3>1, <3>2, <4>1
    <3>4. QED
      BY <3>1, <3>2, <3>3, <1>3
  <2>3. QED
    BY <2>1, <2>2 DEF Owners
<1>8. QED
  BY <1>5, <1>6, <1>7 DEF PortInv

\* Every step keeps it.
LEMMA NextPorts == PortInv /\ [Next]_vars => PortInv'
<1> SUFFICES ASSUME PortInv, [Next]_vars PROVE PortInv'
  OBVIOUS
<1>1. CASE UNCHANGED vars
  BY <1>1 DEF vars, PortInv, TypeOK, Sides, Owners, ClientsConnect, ServersListen, PortsHaveSides,
             CallsAreOnSockets, SegmentsCross, InUse
<1>2. CASE Next
  <2>1. tidy /\ ~mixed
    BY <1>2 DEF Next
  <2>2. ASSUME NEW m \in net, NEW s \in Socks, ClientTakes(m, s) \/ ServerTakes(m, s) PROVE PortInv'
    BY <2>1, <2>2, ClientTakesPorts, ServerTakesPorts
  <2>3. ASSUME NEW s \in Socks, Socket(s) PROVE PortInv'
    BY <2>1, <2>3, SocketPorts
  <2>4. ASSUME NEW s \in Socks,
               \/ ConnectStores(s) \/ Connected(s) \/ Send(s) \/ Close(s) \/ CloseStores(s)
        PROVE  PortInv'
    BY <2>1, <2>4, CallPorts
  <2>5. ASSUME NEW s \in Socks, Listen(s) PROVE PortInv'
    BY <2>1, <2>5, ListenPorts
  <2>6. ASSUME NEW s \in Socks, CloseAtOnce(s) \/ Closed(s) PROVE PortInv'
    BY <2>1, <2>6, FreePorts
  <2>7. ASSUME NEW s \in Socks, NEW p \in SPorts, Connect(s, p) \/ Bind(s, p) PROVE PortInv'
    BY <2>1, <2>7, ConnectPorts, BindPorts
  <2>8. ASSUME NEW s \in Socks, NEW c \in Servers, Accept(s, c) PROVE PortInv'
    BY <2>1, <2>8, AcceptPorts
  <2>9. QED
    BY <1>2, <2>2, <2>3, <2>4, <2>5, <2>6, <2>7, <2>8 DEF Next
<1>3. QED
  BY <1>1, <1>2

\* So it holds for ever.
LEMMA PortInvHolds == Spec => []PortInv
BY InitPorts, NextPorts, PTL DEF Spec

\* A port that is not down names a socket in use that has it, and the port of a
\* socket names it, for any number of sockets, ports and programs that connect a
\* socket once and bind no port twice (netx.c sys_connect, sys_bind, free_socket).
THEOREM PortsAndSockets == Spec => []PortsSound
<1>1. PortInv => PortsSound
  BY DEF PortInv, Owners, PortsSound, InUse
<1>2. QED
  BY <1>1, PortInvHolds, PTL

------------------------------------------------------------------------------
(* The two ends, as long as nothing has been mixed up.                     *)

\* Every connect has a number of its own.
ConnsNumbered ==
    /\ \A m \in net : m.conn <= conns
    /\ \A s \in Socks : sock[s].conn <= conns
    /\ \A c, d \in Clients : sock[c].conn = sock[d].conn /\ sock[c].conn # 0 => c = d
    /\ \A s, u \in Servers :
          InUse(s) /\ InUse(u) /\ sock[s].conn = sock[u].conn /\ sock[s].conn # 0 => s = u

ClientsStart ==
    \A c \in Clients :
       /\ sock[c].srcp = NoPort <=> sock[c].conn = 0
       /\ sock[c].conn = 0 => sock[c].state = "CLOSED" /\ op[c] \notin {"syn", "connecting"}
       /\ op[c] = "syn" => sock[c].state = "CLOSED"
       /\ sock[c].state # "SYN_RECEIVED"

\* Before the SYN of a connection is taken, nobody answers and nobody has it.
SynsFirst ==
    \A m \in net : m.flags = "SYN" =>
       /\ m.to \in SPorts /\ m.from \in CPorts /\ m.conn # 0
       /\ \A n \in net : n.conn = m.conn => (n.flags = "SYN" => n = m) /\ n.to \notin CPorts
       /\ \A s \in Servers : InUse(s) => sock[s].conn # m.conn
       /\ \A c \in Clients : sock[c].conn = m.conn => sock[c].state \in {"CLOSED", "SYN_SENT"}

\* A connection is answered once.
SynAcksOnce ==
    /\ \A m \in net : m.flags = "SYN|ACK" => m.to \in CPorts
    /\ \A m, n \in net : m.flags = "SYN|ACK" /\ n.flags = "SYN|ACK" /\ m.conn = n.conn => m = n

\* Whoever waits in connect has said nothing since its SYN, unless it took a
\* segment before it stored SYN_SENT.
Waits(c) == op[c] = "syn" \/ (op[c] = "connecting" /\ sock[c].state = "SYN_SENT")
WaitersAreSilent ==
    \A c \in Clients : Waits(c) /\ sock[c].conn \notin early =>
       /\ \A m \in net : m.to \in SPorts /\ m.conn = sock[c].conn => m.flags = "SYN"
       /\ \A s \in Servers : InUse(s) /\ sock[s].conn = sock[c].conn => sock[s].state # "ESTABLISHED"

\* While the other end is open and has written nothing, a client hears one thing
\* it can take for progress, and has not come further than that.
Open(s) ==
    /\ InUse(s) /\ sock[s].state \in {"SYN_RECEIVED", "ESTABLISHED"}
    /\ op[s] = "none" /\ ~sock[s].wrote /\ sock[s].conn # 0
Progress == {"ESTABLISHED", "FIN_WAIT_1", "FIN_WAIT_2"}
OpenHasAnswered ==
    \A s \in Servers : Open(s) =>
       /\ \A m \in net : m.to \in CPorts /\ m.conn = sock[s].conn => m.flags \notin {"PSH|ACK", "FIN|ACK"}
       /\ \A c \in Clients : sock[c].conn = sock[s].conn =>
             /\ sock[c].state # "TIME_WAIT"
             /\ sock[c].state \in Progress =>
                   \A m \in net : m.conn = sock[s].conn => m.flags # "SYN|ACK"

ConnInv ==
    /\ ConnsNumbered /\ ClientsStart /\ SynsFirst /\ SynAcksOnce
    /\ WaitersAreSilent /\ OpenHasAnswered

Inv == PortInv /\ (tidy /\ ~mixed => ConnInv)

\* At the start there is no connection.
LEMMA InitConns == Init => ConnInv
<1> SUFFICES ASSUME Init PROVE ConnInv
  OBVIOUS
<1>1. /\ net = {} /\ conns = 0 /\ \A s \in Socks : sock[s] = Free /\ op[s] = "none"
      /\ Free.conn = 0 /\ Free.srcp = NoPort /\ Free.state = "CLOSED" /\ ~Free.exists
  BY DEF Init, Free
<1>2. ConnsNumbered /\ ClientsStart /\ SynsFirst /\ SynAcksOnce
  BY <1>1 DEF ConnsNumbered, ClientsStart, SynsFirst, SynAcksOnce, InUse
<1>3. WaitersAreSilent /\ OpenHasAnswered
  BY <1>1 DEF WaitersAreSilent, OpenHasAnswered, Waits, Open, InUse
<1>4. QED
  BY <1>2, <1>3 DEF ConnInv

\* What a segment makes of the state of a client.
LEMMA ClientStates ==
    ASSUME NEW st \in States
    PROVE  LET a == AfterAck("client", st)
               f == AfterFinack("client", a)
               p == AfterPlain(st)
           IN  /\ a # "SYN_SENT" /\ f # "SYN_SENT"
               /\ st = "CLOSED" => a = "CLOSED" /\ f = "CLOSED" /\ p = "CLOSED"
               /\ p = "TIME_WAIT" => st = "TIME_WAIT"
               /\ p \in Progress => st \in Progress \cup {"SYN_RECEIVED"}
               /\ p = "SYN_SENT" => st = "SYN_SENT"
               /\ st # "SYN_RECEIVED" =>
                     a # "SYN_RECEIVED" /\ f # "SYN_RECEIVED" /\ p # "SYN_RECEIVED"
               /\ a = "TIME_WAIT" \/ f = "TIME_WAIT" => st \in {"FIN_WAIT_2", "TIME_WAIT"}
BY DEF AfterAck, AfterFinack, AfterPlain, States, Progress

\* What a segment makes of the state of a server.
LEMMA ServerStates ==
    ASSUME NEW st \in States
    PROVE  LET a == AfterAck("server", st)
               f == AfterFinack("server", a)
               p == AfterPlain(st)
           IN  /\ a # "ESTABLISHED" /\ f # "ESTABLISHED"
               /\ a = "SYN_RECEIVED" => st = "SYN_RECEIVED"
               /\ st = "ESTABLISHED" => f = "LAST_ACK"
               /\ p \in {"SYN_RECEIVED", "ESTABLISHED"} => st \in {"SYN_RECEIVED", "ESTABLISHED"}
BY DEF AfterAck, AfterFinack, AfterPlain, States

\* A segment is taken by the side that connects.
LEMMA ClientTakesConns ==
    ASSUME PortInv, ConnInv, tidy, ~mixed, tidy', ~mixed',
           NEW m \in net, NEW s \in Socks, ClientTakes(m, s)
    PROVE  ConnInv'
<1>1. /\ m.to \in Ports /\ port[m.to].sock = s /\ port[m.to].status = "up"
      /\ UNCHANGED <<port, op, conns>>
      /\ m.conn = sock[s].conn
      /\ early \subseteq early' /\ (op[s] = "syn" => sock[s].conn \in early')
      /\ m.flags \in {"SYN|ACK", "PSH|ACK", "FIN|ACK", "ACK"}
  BY DEF ClientTakes, Taken, Mixes
<1>2. InUse(s) /\ sock[s].srcp = m.to /\ s \in Clients /\ m.to \in CPorts
  BY <1>1, Taker
<1>3. /\ sock[s] \in SockType /\ sock[s].state \in States /\ sock[s].type = "client"
      /\ m.from \notin CPorts /\ sock[s].state # "SYN_RECEIVED" /\ sock[s].conn # 0
  BY <1>2 DEF PortInv, TypeOK, Sides, SegmentsCross, SockType, ClientsConnect, ConnInv, ClientsStart
<1> DEFINE st == sock[s].state
           st2 == sock'[s].state
           replies == {AckOf(m), [AckOf(m) EXCEPT !.flags = "FIN|ACK"]}
<1>4. /\ \A u \in Socks \ {s} : sock'[u] = sock[u]
      /\ sock'[s].srcp = sock[s].srcp /\ sock'[s].conn = sock[s].conn
      /\ \/ /\ m.flags # "ACK" /\ net' \subseteq (net \ {m}) \cup replies
            /\ st2 \in {AfterAck("client", st), AfterFinack("client", AfterAck("client", st))}
         \/ /\ m.flags = "ACK" /\ net' = net \ {m}
            /\ st2 = AfterPlain(st)
  <2>1. CASE m.flags \in {"SYN|ACK", "PSH|ACK"}
    <3>1. sock' = [sock EXCEPT ![s].state = AfterAck("client", st)] /\ net' = (net \ {m}) \cup {AckOf(m)}
      BY <2>1, <1>3 DEF ClientTakes, Sets, Replies
    <3>2. QED
      BY <2>1, <3>1, <1>3 DEF PortInv, TypeOK, SockType
  <2>2. CASE m.flags = "FIN|ACK"
    <3>1. /\ sock' = [sock EXCEPT ![s].state = AfterFinack("client", AfterAck("client", st)),
                                  ![s].srcp = m.to, ![s].dstp = m.from]
          /\ net' = (net \ {m}) \cup replies
      BY <2>2, <1>3 DEF ClientTakes, Replies
    <3>2. QED
      BY <2>2, <3>1, <1>2, <1>3 DEF PortInv, TypeOK, SockType
  <2>3. CASE m.flags = "ACK"
    <3>1. sock' = [sock EXCEPT ![s].state = AfterPlain(st)] /\ net' = net \ {m}
      BY <2>3 DEF ClientTakes, Sets, Replies
    <3>2. QED
      BY <2>3, <3>1, <1>3 DEF PortInv, TypeOK, SockType
  <2>4. QED
    BY <1>1, <2>1, <2>2, <2>3
<1>5. /\ st2 # "SYN_RECEIVED"
      /\ st = "CLOSED" => st2 = "CLOSED"
      /\ m.flags # "ACK" => st2 # "SYN_SENT"
      /\ m.flags = "ACK" /\ st2 = "SYN_SENT" => st = "SYN_SENT"
      /\ m.flags # "ACK" /\ st2 = "TIME_WAIT" => st \in {"FIN_WAIT_2", "TIME_WAIT"}
      /\ m.flags = "ACK" /\ st2 = "TIME_WAIT" => st = "TIME_WAIT"
      /\ m.flags = "ACK" /\ st2 \in Progress => st \in Progress
  BY <1>3, <1>4, ClientStates
<1>6. /\ \A n \in replies : n.conn = sock[s].conn /\ n.to \notin CPorts /\ n.flags \in {"ACK", "FIN|ACK"}
      /\ \A n \in net' : n \in (net \ {m}) \/ (n \in replies /\ m.flags # "ACK")
  BY <1>1, <1>3, <1>4 DEF AckOf
<1> HIDE DEF st, st2, replies
<1>7. \A n \in net : n.flags = "SYN" => n.conn # sock[s].conn
  BY <1>1, <1>2 DEF ConnInv, SynsFirst
<1>8. \A u \in Servers : u # s /\ sock'[u] = sock[u] /\ (InUse(u)' <=> InUse(u)) /\ (Open(u)' <=> Open(u))
  BY <1>1, <1>2, <1>4 DEF InUse, Open
<1>9. \A u \in Socks : sock'[u].conn = sock[u].conn /\ sock'[u].srcp = sock[u].srcp
  BY <1>4
<1>10. ConnsNumbered'
  BY <1>1, <1>6, <1>8, <1>9 DEF ConnInv, ConnsNumbered
<1>11. ClientsStart'
  <2>1. \A c \in Clients \ {s} : sock'[c] = sock[c]
    BY <1>4
  <2>2. QED
    BY <1>1, <1>2, <1>3, <1>5, <1>9, <2>1 DEF ConnInv, ClientsStart, st, st2
<1>12. SynsFirst'
  <2>1. ASSUME NEW n \in net', n.flags = "SYN"
        PROVE  n \in net /\ n # m /\ n.conn # sock[s].conn
    BY <2>1, <1>6, <1>7
  <2>2. ASSUME NEW n \in net', n.flags = "SYN", NEW o \in net', o.conn = n.conn
        PROVE  (o.flags = "SYN" => o = n) /\ o.to \notin CPorts
    BY <2>1, <2>2, <1>6 DEF ConnInv, SynsFirst
  <2>3. ASSUME NEW n \in net', n.flags = "SYN", NEW u \in Servers, InUse(u)'
        PROVE  sock'[u].conn # n.conn
    BY <2>1, <2>3, <1>8 DEF ConnInv, SynsFirst
  <2>4. ASSUME NEW n \in net', n.flags = "SYN", NEW c \in Clients, sock'[c].conn = n.conn
        PROVE  sock'[c].state \in {"CLOSED", "SYN_SENT"}
    BY <2>1, <2>4, <1>4, <1>9 DEF ConnInv, SynsFirst
  <2>5. QED
    BY <2>1, <2>2, <2>3, <2>4 DEF ConnInv, SynsFirst
<1>13. SynAcksOnce'
  BY <1>6 DEF ConnInv, SynAcksOnce
<1>14. WaitersAreSilent'
  <2> SUFFICES ASSUME NEW c \in Clients, Waits(c)', sock'[c].conn \notin early'
               PROVE  /\ \A n \in net' : n.to \in SPorts /\ n.conn = sock'[c].conn => n.flags = "SYN"
                      /\ \A u \in Servers : InUse(u)' /\ sock'[u].conn = sock'[c].conn => sock'[u].state # "ESTABLISHED"
    BY DEF WaitersAreSilent
  <2>1. Waits(c) /\ sock[c].conn \notin early /\ sock'[c].conn = sock[c].conn
    BY <1>1, <1>4, <1>5, <1>9 DEF Waits, st, st2
  <2>2. \A u \in Servers : InUse(u)' /\ sock'[u].conn = sock'[c].conn => sock'[u].state # "ESTABLISHED"
    BY <2>1, <1>8 DEF ConnInv, WaitersAreSilent
  <2>3. c # s \/ m.flags = "ACK"
    BY <1>1, <1>5, <1>9 DEF Waits, st2
  <2>4. c # s => sock[c].conn # sock[s].conn
    BY <1>2, <1>3 DEF ConnInv, ConnsNumbered
  <2>5. \A n \in net' : n.conn = sock[c].conn => n \in net
    BY <2>3, <2>4, <1>6
  <2>6. QED
    BY <2>1, <2>2, <2>5 DEF ConnInv, WaitersAreSilent
<1>15. OpenHasAnswered'
  <2> SUFFICES ASSUME NEW u \in Servers, Open(u)'
               PROVE  /\ \A n \in net' : n.to \in CPorts /\ n.conn = sock'[u].conn
                             => n.flags \notin {"PSH|ACK", "FIN|ACK"}
                      /\ \A c \in Clients : sock'[c].conn = sock'[u].conn =>
                           /\ sock'[c].state # "TIME_WAIT"
                           /\ sock'[c].state \in Progress =>
                                 \A n \in net' : n.conn = sock'[u].conn => n.flags # "SYN|ACK"
    BY DEF OpenHasAnswered
  <2>1. Open(u) /\ sock'[u] = sock[u]
    BY <1>8
  <2>2. \A n \in net' : n.to \in CPorts /\ n.conn = sock'[u].conn => n.flags \notin {"PSH|ACK", "FIN|ACK"}
    BY <2>1, <1>6 DEF ConnInv, OpenHasAnswered
  <2>3. ASSUME NEW c \in Clients, sock'[c].conn = sock'[u].conn
        PROVE  /\ sock'[c].state # "TIME_WAIT"
               /\ sock'[c].state \in Progress =>
                     \A n \in net' : n.conn = sock'[u].conn => n.flags # "SYN|ACK"
    <3>1. \A n \in net' : n.flags = "SYN|ACK" => n \in net /\ n # m
      BY <1>6
    <3>2. CASE c # s
      BY <2>1, <2>3, <3>1, <3>2, <1>4 DEF ConnInv, OpenHasAnswered
    <3>3. CASE c = s
      <4>1. sock[s].conn = sock[u].conn
        BY <2>1, <2>3, <3>3, <1>9
      <4>2. /\ m.flags \in {"SYN|ACK", "ACK"}
            /\ st # "TIME_WAIT"
            /\ st \in Progress => \A n \in net : n.conn = sock[u].conn => n.flags # "SYN|ACK"
        BY <2>1, <4>1, <1>1, <1>2 DEF ConnInv, OpenHasAnswered, st
      <4>3. st \in Progress => m.flags = "ACK"
        BY <4>1, <4>2, <1>1
      <4>4. sock'[c].state # "TIME_WAIT"
        BY <3>3, <4>2, <4>3, <1>5 DEF st2, Progress
      <4>5. ASSUME sock'[c].state \in Progress, NEW n \in net', n.conn = sock'[u].conn, n.flags = "SYN|ACK"
            PROVE  FALSE
        <5>1. n \in net /\ n # m /\ n.conn = m.conn
          BY <4>5, <3>1, <4>1, <2>1, <1>1
        <5>2. m.flags = "ACK"
          BY <5>1, <4>5, <4>2 DEF ConnInv, SynAcksOnce
        <5>3. st \in Progress
          BY <5>2, <4>5, <3>3, <1>5 DEF st2
        <5>4. QED
          BY <5>1, <5>3, <4>1, <4>2, <4>5, <1>1
      <4>6. QED
        BY <4>4, <4>5
    <3>4. QED
      BY <3>2, <3>3
  <2>4. QED
    BY <2>2, <2>3
<1>16. QED
  BY <1>10, <1>11, <1>12, <1>13, <1>14, <1>15 DEF ConnInv

\* A SYN is taken by a socket that listens.
LEMMA SynConns ==
    ASSUME PortInv, ConnInv, tidy, ~mixed, tidy', ~mixed',
           NEW m \in net, NEW s \in Socks, ServerTakes(m, s), m.flags = "SYN"
    PROVE  ConnInv'
<1>1. /\ m.to \in Ports /\ port[m.to].sock = s /\ port[m.to].status = "listen"
      /\ UNCHANGED <<port, op, conns, early>>
      /\ SynAck(m, s)
  BY DEF ServerTakes, Taken
<1>2. InUse(s) /\ sock[s].srcp = m.to /\ s \in Servers /\ m.to \in SPorts
  BY <1>1, Taker
<1>3. m \in SegType /\ sock[s] \in SockType
  BY DEF PortInv, TypeOK
<1> DEFINE r == [AckOf(m) EXCEPT !.flags = "SYN|ACK"]
           k == m.conn
<1>4. /\ \A u \in Socks \ {s} : sock'[u] = sock[u]
      /\ sock'[s].state = "SYN_RECEIVED" /\ sock'[s].conn = k /\ InUse(s)'
      /\ net' = (net \ {m}) \cup {r}
  <2>1. sock' = [sock EXCEPT ![s].state = "SYN_RECEIVED", ![s].dstp = m.from, ![s].conn = m.conn]
    BY <1>1 DEF SynAck
  <2>2. /\ \A u \in Socks \ {s} : sock'[u] = sock[u]
        /\ sock'[s].state = "SYN_RECEIVED" /\ sock'[s].conn = k
        /\ sock'[s].exists = sock[s].exists /\ sock'[s].copy = sock[s].copy
    BY <2>1, <1>3 DEF PortInv, TypeOK, SockType
  <2>3. QED
    BY <2>2, <1>1, <1>2 DEF InUse, SynAck, Replies
<1>5. r.to = m.from /\ r.conn = k /\ r.flags = "SYN|ACK"
  BY DEF AckOf
<1> HIDE DEF r, k
<1>6. /\ m.conn = k /\ k # 0 /\ k <= conns /\ m.from \in CPorts
      /\ \A n \in net : n.conn = k => (n.flags = "SYN" => n = m) /\ n.to \notin CPorts
      /\ \A u \in Servers : InUse(u) => sock[u].conn # k
      /\ \A c \in Clients : sock[c].conn = k => sock[c].state \in {"CLOSED", "SYN_SENT"}
  BY DEF ConnInv, SynsFirst, ConnsNumbered, k
<1>7. /\ \A c \in Clients : c # s /\ sock'[c] = sock[c]
      /\ \A u \in Servers \ {s} : sock'[u] = sock[u] /\ (InUse(u)' <=> InUse(u)) /\ (Open(u)' <=> Open(u))
  BY <1>1, <1>2, <1>4 DEF InUse, Open
<1>8. ConnsNumbered'
  BY <1>1, <1>4, <1>5, <1>6, <1>7 DEF ConnInv, ConnsNumbered
<1>9. ClientsStart'
  BY <1>1, <1>7 DEF ConnInv, ClientsStart
<1>10. SynsFirst'
  <2>1. ASSUME NEW n \in net', n.flags = "SYN"
        PROVE  n \in net /\ n.conn # k
    BY <2>1, <1>4, <1>5, <1>6
  <2>2. ASSUME NEW n \in net', n.flags = "SYN", NEW o \in net', o.conn = n.conn
        PROVE  (o.flags = "SYN" => o = n) /\ o.to \notin CPorts
    <3>1. o \in net
      BY <2>1, <2>2, <1>4, <1>5
    <3>2. QED
      BY <2>1, <2>2, <3>1 DEF ConnInv, SynsFirst
  <2>3. ASSUME NEW n \in net', n.flags = "SYN", NEW u \in Servers, InUse(u)'
        PROVE  sock'[u].conn # n.conn
    BY <2>1, <2>3, <1>4, <1>7 DEF ConnInv, SynsFirst
  <2>4. ASSUME NEW n \in net', n.flags = "SYN", NEW c \in Clients, sock'[c].conn = n.conn
        PROVE  sock'[c].state \in {"CLOSED", "SYN_SENT"}
    BY <2>1, <2>4, <1>7 DEF ConnInv, SynsFirst
  <2>5. QED
    BY <2>1, <2>2, <2>3, <2>4 DEF ConnInv, SynsFirst
<1>11. SynAcksOnce'
  <2>1. \A n \in net : n.flags = "SYN|ACK" => n.to \in CPorts /\ n.conn # k
    BY <1>6 DEF ConnInv, SynAcksOnce
  <2>2. QED
    BY <2>1, <1>4, <1>5, <1>6 DEF ConnInv, SynAcksOnce
<1>12. WaitersAreSilent'
  <2>1. r.to \notin SPorts
    BY <1>5, <1>6
  <2>2. QED
    BY <2>1, <1>1, <1>4, <1>7 DEF ConnInv, WaitersAreSilent, Waits
<1>13. OpenHasAnswered'
  <2>1. ASSUME NEW u \in Servers, Open(u)', u # s
        PROVE  /\ Open(u) /\ sock'[u] = sock[u] /\ sock[u].conn # k
    BY <2>1, <1>6, <1>7 DEF Open
  <2>2. ASSUME NEW u \in Servers, Open(u)', NEW n \in net', n.to \in CPorts, n.conn = sock'[u].conn
        PROVE  n.flags \notin {"PSH|ACK", "FIN|ACK"}
    <3>1. CASE u = s
      BY <3>1, <2>2, <1>4, <1>5, <1>6
    <3>2. CASE u # s
      BY <3>2, <2>1, <2>2, <1>4, <1>5 DEF ConnInv, OpenHasAnswered
    <3>3. QED
      BY <3>1, <3>2
  <2>3. ASSUME NEW u \in Servers, Open(u)', NEW c \in Clients, sock'[c].conn = sock'[u].conn
        PROVE  /\ sock'[c].state # "TIME_WAIT"
               /\ sock'[c].state \in Progress =>
                     \A n \in net' : n.conn = sock'[u].conn => n.flags # "SYN|ACK"
    <3>1. CASE u = s
      BY <3>1, <2>3, <1>4, <1>6, <1>7 DEF Progress
    <3>2. CASE u # s
      <4>1. Open(u) /\ sock'[u] = sock[u] /\ sock[u].conn # k /\ sock'[c] = sock[c]
        BY <3>2, <2>1, <2>3, <1>7
      <4>2. \A n \in net' : n.conn = sock[u].conn => n \in net
        BY <4>1, <1>4, <1>5
      <4>3. QED
        BY <2>3, <4>1, <4>2 DEF ConnInv, OpenHasAnswered
    <3>3. QED
      BY <3>1, <3>2
  <2>4. QED
    BY <2>2, <2>3 DEF OpenHasAnswered
<1>14. QED
  BY <1>8, <1>9, <1>10, <1>11, <1>12, <1>13 DEF ConnInv

\* Any other segment is taken by one.
LEMMA ServerTakesConns ==
    ASSUME PortInv, ConnInv, tidy, ~mixed, tidy', ~mixed',
           NEW m \in net, NEW s \in Socks, ServerTakes(m, s), m.flags # "SYN"
    PROVE  ConnInv'
<1>1. /\ m.to \in Ports /\ port[m.to].sock = s /\ port[m.to].status = "listen"
      /\ UNCHANGED <<port, op, conns, early>>
      /\ m.conn = sock[s].conn
  BY DEF ServerTakes, Taken, Mixes
<1>2. InUse(s) /\ sock[s].srcp = m.to /\ s \in Servers /\ m.to \in SPorts /\ sock[s].type = "server"
  BY <1>1, Taker
<1>3. /\ sock[s] \in SockType /\ sock[s].state \in States
      /\ m.from \notin SPorts /\ sock[s].dstp \notin SPorts
  BY <1>2 DEF PortInv, TypeOK, Sides, SegmentsCross, SockType, ServersListen
<1> DEFINE st == sock[s].state
           st2 == sock'[s].state
           k == sock[s].conn
           replies == {AckOf(m), Segment(s, "FIN|ACK")}
<1>4. /\ \A u \in Socks \ {s} : sock'[u] = sock[u]
      /\ sock'[s] = [sock[s] EXCEPT !.state = st2]
      /\ \/ /\ st = "ESTABLISHED" /\ net' \subseteq (net \ {m}) \cup replies
            /\ st2 = AfterFinack("server", AfterAck("server", st))
         \/ /\ net' = (net \ {m}) \cup {AckOf(m)}
            /\ st2 = AfterAck("server", st)
         \/ /\ m.flags = "ACK" /\ net' = net \ {m}
            /\ st2 = AfterPlain(st)
  <2>1. CASE m.flags = "FIN|ACK" /\ st = "ESTABLISHED"
    <3>1. /\ sock' = [sock EXCEPT ![s].state = AfterFinack("server", AfterAck("server", st))]
          /\ net' = (net \ {m}) \cup replies
      BY <2>1, <1>2 DEF ServerTakes, Sets, Replies
    <3>2. QED
      BY <2>1, <3>1, <1>3 DEF PortInv, TypeOK, SockType
  <2>2. CASE m.flags = "PSH|ACK" \/ (m.flags = "FIN|ACK" /\ st = "CLOSE_WAIT")
    <3>1. sock' = [sock EXCEPT ![s].state = AfterAck("server", st)] /\ net' = (net \ {m}) \cup {AckOf(m)}
      BY <2>2, <1>2 DEF ServerTakes, Sets, Replies
    <3>2. QED
      BY <2>2, <3>1, <1>3 DEF PortInv, TypeOK, SockType
  <2>3. CASE m.flags = "ACK"
    <3>1. sock' = [sock EXCEPT ![s].state = AfterPlain(st)] /\ net' = net \ {m}
      BY <2>3 DEF ServerTakes, Sets, Replies
    <3>2. QED
      BY <2>3, <3>1, <1>3 DEF PortInv, TypeOK, SockType
  <2>4. QED
    BY <2>1, <2>2, <2>3 DEF ServerTakes
<1>5. /\ sock'[s].conn = k /\ sock'[s].srcp = sock[s].srcp /\ sock'[s].wrote = sock[s].wrote
      /\ InUse(s)'
  BY <1>2, <1>3, <1>4 DEF SockType, InUse
<1>6. /\ st2 \in {"SYN_RECEIVED", "ESTABLISHED"} => st \in {"SYN_RECEIVED", "ESTABLISHED"}
      /\ st2 = "ESTABLISHED" => m.flags = "ACK"
      /\ st2 \in {"SYN_RECEIVED", "ESTABLISHED"} => net' \subseteq (net \ {m}) \cup {AckOf(m)}
  <2>1. /\ AfterAck("server", st) # "ESTABLISHED"
        /\ AfterAck("server", st) = "SYN_RECEIVED" => st = "SYN_RECEIVED"
        /\ st = "ESTABLISHED" => AfterFinack("server", AfterAck("server", st)) = "LAST_ACK"
        /\ AfterPlain(st) \in {"SYN_RECEIVED", "ESTABLISHED"} => st \in {"SYN_RECEIVED", "ESTABLISHED"}
    BY <1>3, ServerStates
  <2> HIDE DEF st, st2, replies
  <2>2. QED
    BY <1>4, <2>1
<1>7. /\ AckOf(m).conn = k /\ AckOf(m).to \notin SPorts /\ AckOf(m).flags = "ACK"
      /\ \A n \in replies : n.conn = k /\ n.to \notin SPorts /\ n.flags \in {"ACK", "FIN|ACK"}
      /\ \A n \in net' : n \in (net \ {m}) \/ n \in replies
  BY <1>1, <1>3, <1>4 DEF AckOf, Segment
<1> HIDE DEF st, st2, k, replies
<1>8. \A n \in net : n.flags = "SYN" => n.conn # k
  BY <1>2 DEF ConnInv, SynsFirst, k
<1>9. /\ \A c \in Clients : c # s /\ sock'[c] = sock[c]
      /\ \A u \in Socks : sock'[u].conn = sock[u].conn
      /\ \A u \in Servers : (InUse(u)' <=> InUse(u)) /\ (Open(u)' => Open(u))
      /\ \A u \in Servers \ {s} : sock'[u] = sock[u]
  BY <1>1, <1>2, <1>4, <1>5, <1>6 DEF InUse, Open, st, st2, k
<1>10. ConnsNumbered'
  <2>1. k <= conns
    BY <1>2 DEF ConnInv, ConnsNumbered, k
  <2>2. QED
    BY <1>1, <1>7, <1>9, <2>1 DEF ConnInv, ConnsNumbered
<1>11. ClientsStart'
  BY <1>1, <1>9 DEF ConnInv, ClientsStart
<1>12. SynsFirst'
  <2>1. ASSUME NEW n \in net', n.flags = "SYN"
        PROVE  n \in net /\ n.conn # k
    BY <2>1, <1>7, <1>8
  <2>2. ASSUME NEW n \in net', n.flags = "SYN", NEW o \in net', o.conn = n.conn
        PROVE  (o.flags = "SYN" => o = n) /\ o.to \notin CPorts
    <3>1. o \in net
      BY <2>1, <2>2, <1>7
    <3>2. QED
      BY <2>1, <2>2, <3>1 DEF ConnInv, SynsFirst
  <2>3. ASSUME NEW n \in net', n.flags = "SYN", NEW u \in Servers, InUse(u)'
        PROVE  sock'[u].conn # n.conn
    BY <2>1, <2>3, <1>9 DEF ConnInv, SynsFirst
  <2>4. ASSUME NEW n \in net', n.flags = "SYN", NEW c \in Clients, sock'[c].conn = n.conn
        PROVE  sock'[c].state \in {"CLOSED", "SYN_SENT"}
    BY <2>1, <2>4, <1>9 DEF ConnInv, SynsFirst
  <2>5. QED
    BY <2>1, <2>2, <2>3, <2>4 DEF ConnInv, SynsFirst
<1>13. SynAcksOnce'
  BY <1>7 DEF ConnInv, SynAcksOnce
<1>14. WaitersAreSilent'
  <2> SUFFICES ASSUME NEW c \in Clients, Waits(c)', sock'[c].conn \notin early'
               PROVE  /\ \A n \in net' : n.to \in SPorts /\ n.conn = sock'[c].conn => n.flags = "SYN"
                      /\ \A u \in Servers : InUse(u)' /\ sock'[u].conn = sock'[c].conn => sock'[u].state # "ESTABLISHED"
    BY DEF WaitersAreSilent
  <2>1. /\ Waits(c) /\ sock[c].conn \notin early /\ sock'[c].conn = sock[c].conn
        /\ \A n \in net : n.to \in SPorts /\ n.conn = sock[c].conn => n.flags = "SYN"
        /\ \A u \in Servers : InUse(u) /\ sock[u].conn = sock[c].conn => sock[u].state # "ESTABLISHED"
    BY <1>1, <1>9 DEF Waits, ConnInv, WaitersAreSilent
  <2>2. sock[c].conn # k
    BY <2>1, <1>1, <1>2 DEF k
  <2>3. QED
    BY <2>1, <2>2, <1>7, <1>9 DEF k
<1>15. OpenHasAnswered'
  <2>1. ASSUME NEW u \in Servers, Open(u)', NEW n \in net', n.to \in CPorts, n.conn = sock'[u].conn
        PROVE  n.flags \notin {"PSH|ACK", "FIN|ACK"}
    <3>1. Open(u) /\ n.conn = sock[u].conn
      BY <2>1, <1>9
    <3>2. n \in net => n.flags \notin {"PSH|ACK", "FIN|ACK"}
      BY <2>1, <3>1 DEF ConnInv, OpenHasAnswered
    <3>3. CASE u = s
      <4>1. st2 \in {"SYN_RECEIVED", "ESTABLISHED"}
        BY <2>1, <3>3 DEF Open, st2
      <4>2. QED
        BY <2>1, <3>2, <4>1, <1>6, <1>7
    <3>4. CASE u # s
      <4>1. sock[u].conn # k
        BY <3>1, <3>4, <1>2 DEF ConnInv, ConnsNumbered, Open, k
      <4>2. QED
        BY <2>1, <3>1, <3>2, <4>1, <1>7
    <3>5. QED
      BY <3>3, <3>4
  <2>2. ASSUME NEW u \in Servers, Open(u)', NEW c \in Clients, sock'[c].conn = sock'[u].conn
        PROVE  /\ sock'[c].state # "TIME_WAIT"
               /\ sock'[c].state \in Progress =>
                     \A n \in net' : n.conn = sock'[u].conn => n.flags # "SYN|ACK"
    <3>1. Open(u) /\ sock'[u].conn = sock[u].conn /\ sock'[c] = sock[c]
      BY <2>2, <1>9
    <3>2. \A n \in net' : n.flags = "SYN|ACK" => n \in net
      BY <1>7
    <3>3. QED
      BY <2>2, <3>1, <3>2 DEF ConnInv, OpenHasAnswered
  <2>3. QED
    BY <2>1, <2>2 DEF OpenHasAnswered
<1>16. QED
  BY <1>10, <1>11, <1>12, <1>13, <1>14, <1>15 DEF ConnInv

\* A step that sends nothing: clients go no further than they were, or begin
\* anew, and no other end opens.
ClientKept(c) ==
    /\ sock'[c].conn = sock[c].conn /\ sock'[c].srcp = sock[c].srcp
    /\ Waits(c)' => Waits(c)
    /\ op'[c] \in {"syn", "connecting"} => op[c] \in {"syn", "connecting"}
    /\ op'[c] = "syn" => op[c] = "syn" /\ sock'[c].state = sock[c].state
    /\ sock'[c].state # "SYN_RECEIVED"
    /\ sock[c].conn = 0 => sock'[c].state = "CLOSED"
    /\ sock[c].state \in {"CLOSED", "SYN_SENT"} => sock'[c].state \in {"CLOSED", "SYN_SENT"}
    /\ sock'[c].state = "TIME_WAIT" => sock[c].state = "TIME_WAIT"
    /\ sock'[c].state \in Progress => sock[c].state \in Progress
ClientAnew(c) ==
    /\ sock'[c].conn = 0 /\ sock'[c].srcp = NoPort /\ sock'[c].state = "CLOSED"
    /\ op'[c] \notin {"syn", "connecting"}
ServerKept(u) ==
    /\ InUse(u)' => (InUse(u) /\ sock'[u].conn = sock[u].conn) \/ sock'[u].conn = 0
    /\ InUse(u)' /\ sock'[u].state = "ESTABLISHED" =>
          InUse(u) /\ sock[u].state = "ESTABLISHED" /\ sock'[u].conn = sock[u].conn
    /\ Open(u)' => Open(u) /\ sock'[u].conn = sock[u].conn

LEMMA QuietConns ==
    ASSUME PortInv, ConnInv, UNCHANGED <<net, conns, early>>,
           \A c \in Clients : ClientKept(c) \/ ClientAnew(c),
           \A u \in Servers : ServerKept(u) /\ sock'[u].conn <= conns
    PROVE  ConnInv'
<1>1. ConnsNumbered'
  <2>1. \A u \in Socks : sock'[u].conn <= conns
    BY DEF ConnInv, ConnsNumbered, ClientKept, ClientAnew, PortInv, TypeOK
  <2>2. \A c, d \in Clients : sock'[c].conn = sock'[d].conn /\ sock'[c].conn # 0 => c = d
    BY DEF ConnInv, ConnsNumbered, ClientKept, ClientAnew
  <2>3. \A s, u \in Servers :
           InUse(s)' /\ InUse(u)' /\ sock'[s].conn = sock'[u].conn /\ sock'[s].conn # 0 => s = u
    BY DEF ConnInv, ConnsNumbered, ServerKept
  <2>4. QED
    BY <2>1, <2>2, <2>3 DEF ConnInv, ConnsNumbered
<1>2. ClientsStart'
  BY DEF ConnInv, ClientsStart, ClientKept, ClientAnew
<1>3. SynsFirst'
  <2>1. ASSUME NEW m \in net, m.flags = "SYN", NEW u \in Servers, InUse(u)'
        PROVE  sock'[u].conn # m.conn
    BY <2>1 DEF ConnInv, SynsFirst, ServerKept
  <2>2. ASSUME NEW m \in net, m.flags = "SYN", NEW c \in Clients, sock'[c].conn = m.conn
        PROVE  sock'[c].state \in {"CLOSED", "SYN_SENT"}
    BY <2>2 DEF ConnInv, SynsFirst, ClientKept, ClientAnew
  <2>3. QED
    BY <2>1, <2>2 DEF ConnInv, SynsFirst
<1>4. SynAcksOnce'
  BY DEF ConnInv, SynAcksOnce
<1>5. WaitersAreSilent'
  <2> SUFFICES ASSUME NEW c \in Clients, Waits(c)', sock'[c].conn \notin early
               PROVE  /\ \A m \in net : m.to \in SPorts /\ m.conn = sock'[c].conn => m.flags = "SYN"
                      /\ \A u \in Servers : InUse(u)' /\ sock'[u].conn = sock'[c].conn => sock'[u].state # "ESTABLISHED"
    BY DEF WaitersAreSilent
  <2>1. Waits(c) /\ sock'[c].conn = sock[c].conn
    BY DEF ClientKept, ClientAnew, Waits
  <2>2. QED
    BY <2>1 DEF ConnInv, WaitersAreSilent, ServerKept
<1>6. OpenHasAnswered'
  <2>1. ASSUME NEW u \in Servers, Open(u)'
        PROVE  Open(u) /\ sock'[u].conn = sock[u].conn /\ sock[u].conn # 0
    BY <2>1 DEF ServerKept, Open
  <2>2. ASSUME NEW u \in Servers, Open(u)', NEW c \in Clients, sock'[c].conn = sock'[u].conn
        PROVE  ClientKept(c) /\ sock[c].conn = sock[u].conn
    BY <2>1, <2>2 DEF ClientKept, ClientAnew
  <2>3. QED
    BY <2>1, <2>2 DEF ConnInv, OpenHasAnswered, ClientKept
<1>7. QED
  BY <1>1, <1>2, <1>3, <1>4, <1>5, <1>6 DEF ConnInv

\* A socket that no step has changed is kept.
LEMMA Unmoved ==
    ASSUME PortInv, ConnInv, NEW u \in Socks, sock'[u] = sock[u], op'[u] = op[u]
    PROVE  /\ u \in Clients => ClientKept(u)
           /\ u \in Servers => ServerKept(u) /\ sock'[u].conn <= conns
<1>1. u \in Clients => ClientKept(u)
  BY DEF ConnInv, ClientsStart, ClientKept, Waits
<1>2. u \in Servers => ServerKept(u) /\ sock'[u].conn <= conns
  BY DEF ConnInv, ConnsNumbered, ServerKept, InUse, Open
<1>3. QED
  BY <1>1, <1>2

\* A slot that is new or free begins anew.
LEMMA Renewed ==
    ASSUME PortInv, ConnInv, NEW u \in Socks, op'[u] = "none",
           sock'[u].conn = 0, sock'[u].srcp = NoPort, sock'[u].state = "CLOSED"
    PROVE  /\ u \in Clients => ClientAnew(u)
           /\ u \in Servers => ServerKept(u) /\ sock'[u].conn <= conns
BY DEF ClientAnew, ServerKept, Open, PortInv, TypeOK

\* A slot is taken or freed (alloc_socket, free_socket).
LEMMA SlotConns ==
    ASSUME PortInv, ConnInv, NEW s \in Socks, Socket(s) \/ CloseAtOnce(s) \/ Closed(s)
    PROVE  ConnInv'
<1>1. /\ UNCHANGED <<net, conns, early>>
      /\ \A u \in Socks \ {s} : sock'[u] = sock[u] /\ op'[u] = op[u]
      /\ sock'[s] \in {Free, [Free EXCEPT !.exists = TRUE]}
      /\ op'[s] = "none"
  BY DEF PortInv, TypeOK, Socket, CloseAtOnce, Closed, free_socket, Call, Idle, Sides, CallsAreOnSockets, InUse
<1>2. sock'[s].conn = 0 /\ sock'[s].srcp = NoPort /\ sock'[s].state = "CLOSED"
  BY <1>1 DEF Free
<1>3. \A c \in Clients : ClientKept(c) \/ ClientAnew(c)
  BY <1>1, <1>2, Unmoved, Renewed
<1>4. \A u \in Servers : ServerKept(u) /\ sock'[u].conn <= conns
  BY <1>1, <1>2, Unmoved, Renewed
<1>5. QED
  BY <1>1, <1>3, <1>4, QuietConns

\* bind and listen.
LEMMA ListenerConns ==
    ASSUME PortInv, ConnInv, NEW s \in Socks, Listen(s) \/ \E p \in SPorts : Bind(s, p)
    PROVE  ConnInv'
<1>1. /\ UNCHANGED <<net, conns, early, op>> /\ InUse(s) /\ s \in Servers
      /\ sock[s] \in SockType
  BY DEF Listen, Bind, Idle, InUse, PortInv, TypeOK, Sides, ClientsConnect
<1>2. /\ \A u \in Socks \ {s} : sock'[u] = sock[u]
      /\ sock'[s].conn = sock[s].conn /\ sock'[s].wrote = sock[s].wrote
      /\ sock'[s].state \in {sock[s].state, "LISTEN"}
  <2>1. CASE Listen(s)
    BY <2>1, <1>1 DEF Listen, Sets, PortInv, TypeOK, SockType
  <2>2. CASE \E p \in SPorts : Bind(s, p)
    <3>1. PICK p \in SPorts : sock' = [sock EXCEPT ![s].type = "server", ![s].srcp = p]
      BY <2>2 DEF Bind
    <3>2. QED
      BY <3>1, <1>1 DEF PortInv, TypeOK, SockType
  <2>3. QED
    BY <2>1, <2>2
<1>3. \A c \in Clients : ClientKept(c)
  BY <1>1, <1>2, Unmoved
<1>4. ServerKept(s) /\ sock'[s].conn <= conns
  BY <1>1, <1>2 DEF ServerKept, Open, ConnInv, ConnsNumbered
<1>5. \A u \in Servers : ServerKept(u) /\ sock'[u].conn <= conns
  BY <1>1, <1>2, <1>4, Unmoved
<1>6. QED
  BY <1>1, <1>3, <1>5, QuietConns

\* accept: the copy takes part in nothing.
LEMMA AcceptConns ==
    ASSUME PortInv, ConnInv, NEW s \in Socks, NEW c \in Servers, Accept(s, c)
    PROVE  ConnInv'
<1>1. /\ UNCHANGED <<net, conns, early, op>>
      /\ \A u \in Socks \ {c} : sock'[u] = sock[u]
      /\ sock'[c] = [sock[s] EXCEPT !.copy = TRUE] /\ sock[s] \in SockType
  BY DEF Accept, PortInv, TypeOK
<1>2. sock'[c].conn = sock[s].conn /\ sock'[c].copy
  BY <1>1 DEF SockType
<1>3. \A d \in Clients : ClientKept(d)
  BY <1>1, Unmoved
<1>4. ServerKept(c) /\ sock'[c].conn <= conns
  BY <1>2 DEF ServerKept, Open, InUse, ConnInv, ConnsNumbered
<1>5. \A u \in Servers : ServerKept(u) /\ sock'[u].conn <= conns
  BY <1>1, <1>4, Unmoved
<1>6. QED
  BY <1>1, <1>3, <1>5, QuietConns

\* The stores at the end of tcp_syn and of tcp_finack, and the end of connect.
LEMMA StoreConns ==
    ASSUME PortInv, ConnInv, NEW s \in Socks, ConnectStores(s) \/ Connected(s) \/ CloseStores(s)
    PROVE  ConnInv'
<1>1. /\ UNCHANGED <<net, conns, early>> /\ InUse(s)
      /\ sock[s] \in SockType /\ sock[s].state \in States /\ sock[s].type \in Types
      /\ op[s] # "none"
      /\ op[s] \in {"syn", "connecting"} => s \in Clients
      /\ \A u \in Socks \ {s} : op'[u] = op[u]
  BY DEF ConnectStores, Connected, CloseStores, Call, InUse, PortInv, TypeOK, SockType, Sides, CallsAreOnSockets
<1> DEFINE st == sock[s].state
           st2 == sock'[s].state
<1>2. /\ \A u \in Socks \ {s} : sock'[u] = sock[u]
      /\ sock'[s] = [sock[s] EXCEPT !.state = st2]
      /\ \/ op[s] = "syn" /\ op'[s] = "connecting" /\ st2 = "SYN_SENT"
         \/ op[s] = "connecting" /\ op'[s] = "none" /\ st2 = st
         \/ op[s] = "fin" /\ op'[s] = "closing" /\ st2 = AfterFinack(sock[s].type, st)
  <2>1. CASE ConnectStores(s)
    BY <2>1, <1>1 DEF ConnectStores, Sets, Call, PortInv, TypeOK, SockType
  <2>2. CASE Connected(s)
    BY <2>2, <1>1 DEF Connected, Call, PortInv, TypeOK, SockType
  <2>3. CASE CloseStores(s)
    BY <2>3, <1>1 DEF CloseStores, Sets, Call, PortInv, TypeOK, SockType
  <2>4. QED
    BY <2>1, <2>2, <2>3
<1>3. sock'[s].conn = sock[s].conn /\ sock'[s].srcp = sock[s].srcp /\ InUse(s)'
  BY <1>1, <1>2 DEF SockType, InUse
<1>4. s \in Clients => ClientKept(s)
  <2> SUFFICES ASSUME s \in Clients PROVE ClientKept(s)
    OBVIOUS
  <2>1. /\ sock[s].type = "client" /\ st # "SYN_RECEIVED"
        /\ sock[s].conn = 0 => st = "CLOSED" /\ op[s] \notin {"syn", "connecting"}
        /\ op[s] = "syn" => st = "CLOSED"
    BY DEF PortInv, Sides, ClientsConnect, ConnInv, ClientsStart
  <2>2. AfterFinack("client", st) = IF st = "ESTABLISHED" THEN "FIN_WAIT_1" ELSE st
    BY <1>1 DEF AfterFinack
  <2> HIDE DEF st2
  <2>3. QED
    BY <1>1, <1>2, <1>3, <2>1, <2>2 DEF ClientKept, Waits, Progress, st2
<1>5. s \in Servers => ServerKept(s) /\ sock'[s].conn <= conns
  <2> SUFFICES ASSUME s \in Servers PROVE ServerKept(s) /\ sock'[s].conn <= conns
    OBVIOUS
  <2>1. op[s] = "fin" /\ op'[s] = "closing" /\ st2 = AfterFinack(sock[s].type, st)
    BY <1>1, <1>2
  <2>2. AfterFinack(sock[s].type, st) # "ESTABLISHED"
    BY <1>1 DEF AfterFinack, Types, States
  <2>3. QED
    BY <1>1, <1>3, <2>1, <2>2 DEF ServerKept, Open, ConnInv, ConnsNumbered
<1>6. /\ \A c \in Clients : ClientKept(c) \/ ClientAnew(c)
      /\ \A u \in Servers : ServerKept(u) /\ sock'[u].conn <= conns
  BY <1>1, <1>2, <1>4, <1>5, Unmoved
<1>7. QED
  BY <1>1, <1>6, QuietConns

\* What send and close put on its way.
LEMMA SendConns ==
    ASSUME PortInv, ConnInv, tidy, NEW s \in Socks, Send(s) \/ Close(s)
    PROVE  ConnInv'
<1> DEFINE k == sock[s].conn
<1>1. /\ UNCHANGED <<conns, early>> /\ InUse(s) /\ op[s] = "none"
      /\ sock[s] \in SockType
      /\ \A u \in Socks \ {s} : sock'[u] = sock[u] /\ op'[u] = op[u]
      /\ sock[s].state # "CLOSED"
  BY DEF Send, Close, Idle, Call, InUse, PortInv, TypeOK
<1>2. PICK f \in {"PSH|ACK", "FIN|ACK"} : net' = net \cup {Segment(s, f)}
  BY DEF Send, Close
<1> DEFINE g == Segment(s, f)
<1>3. /\ g.conn = k /\ g.flags \in {"PSH|ACK", "FIN|ACK"}
      /\ s \in Clients => g.to \notin CPorts
      /\ s \in Servers => g.to \notin SPorts
  BY SegmentCrosses DEF Flags
<1>4. /\ sock'[s].state = sock[s].state /\ sock'[s].conn = k /\ sock'[s].srcp = sock[s].srcp
      /\ InUse(s)'
      /\ op'[s] \in {"none", "fin"}
      /\ op'[s] # "none" \/ sock'[s].wrote
  <2>1. CASE Send(s)
    BY <2>1, <1>1 DEF Send, PortInv, TypeOK, SockType, InUse
  <2>2. CASE Close(s)
    BY <2>2, <1>1 DEF Close, PortInv, TypeOK, Call, InUse
  <2>3. QED
    BY <2>1, <2>2
<1> HIDE DEF g
<1>5. /\ \A u \in Socks : /\ sock'[u].state = sock[u].state /\ sock'[u].conn = sock[u].conn
                          /\ sock'[u].srcp = sock[u].srcp /\ (InUse(u)' <=> InUse(u))
      /\ \A c \in Clients : (Waits(c)' <=> Waits(c)) /\ (op'[c] = "syn" <=> op[c] = "syn")
                            /\ (op'[c] \in {"syn", "connecting"} <=> op[c] \in {"syn", "connecting"})
      /\ \A u \in Servers : Open(u)' => Open(u) /\ u # s
  BY <1>1, <1>4 DEF InUse, Waits, Open
<1>6. k <= conns
  BY DEF ConnInv, ConnsNumbered
<1>7. s \in Clients => k # 0
  BY <1>1 DEF ConnInv, ClientsStart
<1> HIDE DEF k
<1>8. ConnsNumbered'
  BY <1>1, <1>2, <1>3, <1>5, <1>6 DEF ConnInv, ConnsNumbered, g
<1>9. ClientsStart'
  BY <1>5 DEF ConnInv, ClientsStart
<1>10. \A m \in net' : m \in net \/ m = g
  BY <1>2 DEF g
<1>11. SynsFirst'
  <2>1. ASSUME NEW m \in net', m.flags = "SYN" PROVE m \in net
    BY <2>1, <1>3, <1>10
  <2>2. ASSUME NEW m \in net', m.flags = "SYN", NEW n \in net', n.conn = m.conn
        PROVE  (n.flags = "SYN" => n = m) /\ n.to \notin CPorts
    <3>1. CASE n \in net
      BY <2>1, <2>2, <3>1 DEF ConnInv, SynsFirst
    <3>2. CASE n = g
      <4>1. s \in Clients
        BY <2>1, <2>2, <3>2, <1>1, <1>3 DEF ConnInv, SynsFirst, k
      <4>2. QED
        BY <3>2, <4>1, <1>3
    <3>3. QED
      BY <3>1, <3>2, <1>10
  <2>3. QED
    BY <2>1, <2>2, <1>5 DEF ConnInv, SynsFirst
<1>12. SynAcksOnce'
  BY <1>3, <1>10 DEF ConnInv, SynAcksOnce
<1>13. WaitersAreSilent'
  <2> SUFFICES ASSUME NEW c \in Clients, Waits(c)', sock'[c].conn \notin early,
                      NEW m \in net', m.to \in SPorts, m.conn = sock'[c].conn
               PROVE  m.flags = "SYN"
    BY <1>1, <1>5 DEF ConnInv, WaitersAreSilent
  <2>1. Waits(c) /\ sock[c].conn = m.conn /\ sock[c].conn \notin early
    BY <1>5
  <2>2. c # s
    BY <2>1, <1>1 DEF Waits
  <2>3. m # g
    <3>1. SUFFICES ASSUME m = g PROVE FALSE
      OBVIOUS
    <3>2. s \in Clients
      BY <3>1, <1>3
    <3>3. QED
      BY <3>1, <3>2, <2>1, <2>2, <1>3, <1>7 DEF ConnInv, ConnsNumbered, k
  <2>4. QED
    BY <2>1, <2>3, <1>10 DEF ConnInv, WaitersAreSilent
<1>14. OpenHasAnswered'
  <2>1. ASSUME NEW u \in Servers, Open(u)', NEW m \in net', m.to \in CPorts, m.conn = sock'[u].conn
        PROVE  m.flags \notin {"PSH|ACK", "FIN|ACK"}
    <3>1. Open(u) /\ u # s /\ m.conn = sock[u].conn /\ sock[u].conn # 0 /\ InUse(u)
      BY <2>1, <1>5 DEF Open
    <3>2. m # g
      <4>1. SUFFICES ASSUME m = g PROVE FALSE
        OBVIOUS
      <4>2. s \in Servers
        BY <4>1, <2>1, <1>3
      <4>3. QED
        BY <4>1, <4>2, <3>1, <1>1, <1>3 DEF ConnInv, ConnsNumbered, k
    <3>3. QED
      BY <2>1, <3>1, <3>2, <1>10 DEF ConnInv, OpenHasAnswered
  <2>2. \A m \in net' : m.flags = "SYN|ACK" => m \in net
    BY <1>3, <1>10
  <2>3. QED
    BY <2>1, <2>2, <1>5 DEF ConnInv, OpenHasAnswered
<1>15. QED
  BY <1>8, <1>9, <1>11, <1>12, <1>13, <1>14 DEF ConnInv

\* A connect has a number nobody has had, if the socket had no port.
LEMMA ConnectConns ==
    ASSUME PortInv, ConnInv, tidy, tidy', NEW s \in Socks, NEW p \in SPorts, Connect(s, p)
    PROVE  ConnInv'
<1>1. PICK k \in Nat : k = conns + 1
  BY DEF PortInv, TypeOK
<1>2. PICK q \in CPorts :
        /\ sock' = [sock EXCEPT ![s].srcp = q, ![s].dstp = p, ![s].conn = k]
        /\ net' = net \cup {[to |-> p, from |-> q, flags |-> "SYN", conn |-> k]}
  BY <1>1 DEF Connect
<1>3. /\ s \in Clients /\ op' = [op EXCEPT ![s] = "syn"] /\ sock[s].srcp = NoPort
      /\ conns' = k /\ early' = early
  BY <1>1 DEF Connect, Call
<1>4. /\ sock[s] \in SockType
      /\ sock' = [sock EXCEPT ![s] = [sock[s] EXCEPT !.srcp = q, !.dstp = p, !.conn = k]]
  BY <1>2 DEF PortInv, TypeOK, SockType
<1>5. /\ \A u \in Socks \ {s} : sock'[u] = sock[u] /\ op'[u] = op[u]
      /\ op'[s] = "syn"
      /\ sock'[s].srcp = q /\ sock'[s].conn = k /\ sock'[s].state = sock[s].state
  <2>1. sock'[s] = [sock[s] EXCEPT !.srcp = q, !.dstp = p, !.conn = k]
    BY <1>4 DEF PortInv, TypeOK
  <2>2. sock'[s].srcp = q /\ sock'[s].conn = k /\ sock'[s].state = sock[s].state
    BY <2>1, <1>4 DEF SockType
  <2>3. QED
    BY <1>3, <1>4, <2>2 DEF PortInv, TypeOK
<1>6. sock[s].state = "CLOSED" /\ q # NoPort /\ k # 0
  BY <1>1, <1>3 DEF ConnInv, ClientsStart, PortInv, TypeOK
<1> DEFINE g == [to |-> p, from |-> q, flags |-> "SYN", conn |-> k]
<1>7. /\ g.to = p /\ g.from = q /\ g.flags = "SYN" /\ g.conn = k
      /\ \A m \in net' : m \in net \/ m = g
      /\ p \in SPorts /\ p \notin CPorts
  BY <1>2
<1> HIDE DEF g
<1>8. /\ \A m \in net : m.conn # k /\ m.conn <= k
      /\ \A u \in Socks : sock[u].conn # k /\ sock[u].conn <= k
  <2>1. \A m \in net : m.conn \in Nat /\ m.conn <= conns
    BY DEF PortInv, TypeOK, SegType, ConnInv, ConnsNumbered
  <2>2. \A u \in Socks : sock[u].conn \in Nat /\ sock[u].conn <= conns
    BY DEF PortInv, TypeOK, SockType, ConnInv, ConnsNumbered
  <2>3. conns \in Nat
    BY DEF PortInv, TypeOK
  <2>4. QED
    BY <1>1, <2>1, <2>2, <2>3
<1>9. \A u \in Servers : u # s /\ sock'[u] = sock[u] /\ (InUse(u)' <=> InUse(u)) /\ (Open(u)' <=> Open(u))
  BY <1>3, <1>5 DEF InUse, Open
<1>10. ConnsNumbered'
  <2>1. \A m \in net' : m.conn <= k
    BY <1>7, <1>8
  <2>2. \A u \in Socks : sock'[u].conn <= k
    BY <1>5, <1>8
  <2>3. \A c, d \in Clients : sock'[c].conn = sock'[d].conn /\ sock'[c].conn # 0 => c = d
    BY <1>5, <1>8 DEF ConnInv, ConnsNumbered
  <2>4. QED
    BY <1>3, <1>9, <2>1, <2>2, <2>3 DEF ConnInv, ConnsNumbered
<1>11. ClientsStart'
  <2>1. \A c \in Clients \ {s} : sock'[c] = sock[c] /\ op'[c] = op[c]
    BY <1>5
  <2>2. QED
    BY <1>5, <1>6, <2>1 DEF ConnInv, ClientsStart
<1>12. SynsFirst'
  <2> SUFFICES ASSUME NEW m \in net', m.flags = "SYN"
               PROVE  /\ m.to \in SPorts /\ m.from \in CPorts /\ m.conn # 0
                      /\ \A n \in net' : n.conn = m.conn => (n.flags = "SYN" => n = m) /\ n.to \notin CPorts
                      /\ \A u \in Servers : InUse(u)' => sock'[u].conn # m.conn
                      /\ \A c \in Clients : sock'[c].conn = m.conn => sock'[c].state \in {"CLOSED", "SYN_SENT"}
    BY DEF SynsFirst
  <2>1. CASE m = g
    BY <2>1, <1>5, <1>6, <1>7, <1>8, <1>9
  <2>2. CASE m \in net
    <3>1. m.conn # k
      BY <2>2, <1>8
    <3>2. \A n \in net' : n.conn = m.conn => n \in net
      BY <3>1, <1>7
    <3>3. \A c \in Clients : sock'[c].conn = m.conn => sock'[c] = sock[c]
      BY <3>1, <1>5
    <3>4. QED
      BY <2>2, <3>2, <3>3, <1>9 DEF ConnInv, SynsFirst
  <2>3. QED
    BY <2>1, <2>2, <1>7
<1>13. SynAcksOnce'
  BY <1>7 DEF ConnInv, SynAcksOnce
<1>14. WaitersAreSilent'
  <2> SUFFICES ASSUME NEW c \in Clients, Waits(c)', sock'[c].conn \notin early
               PROVE  /\ \A m \in net' : m.to \in SPorts /\ m.conn = sock'[c].conn => m.flags = "SYN"
                      /\ \A u \in Servers : InUse(u)' /\ sock'[u].conn = sock'[c].conn => sock'[u].state # "ESTABLISHED"
    BY <1>3 DEF WaitersAreSilent
  <2>1. CASE c = s
    BY <2>1, <1>5, <1>7, <1>8, <1>9
  <2>2. CASE c # s
    <3>1. Waits(c) /\ sock'[c] = sock[c]
      BY <2>2, <1>5 DEF Waits
    <3>2. QED
      BY <3>1, <1>7, <1>9 DEF ConnInv, WaitersAreSilent
  <2>3. QED
    BY <2>1, <2>2
<1>15. OpenHasAnswered'
  <2> SUFFICES ASSUME NEW u \in Servers, Open(u)'
               PROVE  /\ \A m \in net' : m.to \in CPorts /\ m.conn = sock'[u].conn
                             => m.flags \notin {"PSH|ACK", "FIN|ACK"}
                      /\ \A c \in Clients : sock'[c].conn = sock'[u].conn =>
                           /\ sock'[c].state # "TIME_WAIT"
                           /\ sock'[c].state \in Progress =>
                                 \A m \in net' : m.conn = sock'[u].conn => m.flags # "SYN|ACK"
    BY DEF OpenHasAnswered
  <2>1. Open(u) /\ sock'[u] = sock[u] /\ sock[u].conn # k
    BY <1>8, <1>9
  <2>2. \A m \in net' : m.conn = sock[u].conn => m \in net
    BY <2>1, <1>7
  <2>3. \A c \in Clients : sock'[c].conn = sock[u].conn => sock'[c] = sock[c]
    BY <2>1, <1>5
  <2>4. QED
    BY <2>1, <2>2, <2>3 DEF ConnInv, OpenHasAnswered
<1>16. QED
  BY <1>10, <1>11, <1>12, <1>13, <1>14, <1>15 DEF ConnInv

\* Every step keeps both invariants.
LEMMA NextConns == Inv /\ [Next]_vars => Inv'
<1> SUFFICES ASSUME Inv, [Next]_vars, tidy', ~mixed' PROVE ConnInv'
  BY NextPorts DEF Inv
<1>1. PortInv
  BY DEF Inv
<1>2. CASE UNCHANGED vars
  <2>1. ConnInv
    BY <1>2 DEF vars, Inv
  <2>2. QED
    BY <1>2, <2>1 DEF vars, ConnInv, ConnsNumbered, ClientsStart, SynsFirst, SynAcksOnce,
                      WaitersAreSilent, OpenHasAnswered, Waits, Open, InUse
<1>3. CASE Next
  <2>1. tidy /\ ~mixed /\ ConnInv
    BY <1>3 DEF Next, Inv
  <2>2. ASSUME NEW m \in net, NEW s \in Socks, ClientTakes(m, s) PROVE ConnInv'
    BY <1>1, <2>1, <2>2, ClientTakesConns
  <2>3. ASSUME NEW m \in net, NEW s \in Socks, ServerTakes(m, s) PROVE ConnInv'
    BY <1>1, <2>1, <2>3, SynConns, ServerTakesConns
  <2>4. ASSUME NEW s \in Socks, Socket(s) \/ CloseAtOnce(s) \/ Closed(s) PROVE ConnInv'
    BY <1>1, <2>1, <2>4, SlotConns
  <2>5. ASSUME NEW s \in Socks, ConnectStores(s) \/ Connected(s) \/ CloseStores(s) PROVE ConnInv'
    BY <1>1, <2>1, <2>5, StoreConns
  <2>6. ASSUME NEW s \in Socks, Send(s) \/ Close(s) PROVE ConnInv'
    BY <1>1, <2>1, <2>6, SendConns
  <2>7. ASSUME NEW s \in Socks, Listen(s) \/ \E p \in SPorts : Bind(s, p) PROVE ConnInv'
    BY <1>1, <2>1, <2>7, ListenerConns
  <2>8. ASSUME NEW s \in Socks, NEW p \in SPorts, Connect(s, p) PROVE ConnInv'
    BY <1>1, <2>1, <2>8, ConnectConns
  <2>9. ASSUME NEW s \in Socks, NEW c \in Servers, Accept(s, c) PROVE ConnInv'
    BY <1>1, <2>1, <2>9, AcceptConns
  <2>10. QED
    BY <1>3, <2>2, <2>3, <2>4, <2>5, <2>6, <2>7, <2>8, <2>9 DEF Next
<1>4. QED
  BY <1>2, <1>3

\* So they hold for ever.
LEMMA InvHolds == Spec => []Inv
<1>1. Init => Inv
  BY InitPorts, InitConns DEF Inv
<1>2. QED
  BY <1>1, NextConns, PTL DEF Spec

\* What the two ends think of their connection agrees, for any number of
\* connections, in any order of the segments and whichever are lost, until one
\* end takes a segment of another connection (tcp.c tcp_syn, tcp_ack,
\* tcp_finack).
THEOREM BothEnds == Spec => []EndsAgree
<1>1. Inv => EndsAgree
  <2> SUFFICES ASSUME Inv, tidy, ~mixed, NEW c \in Clients, NEW s \in Servers,
                      sock[c].exists, InUse(s), sock[c].conn = sock[s].conn,
                      sock[s].state = "ESTABLISHED"
               PROVE  /\ op[c] = "connecting" /\ sock[c].state = "SYN_SENT" => sock[c].conn \in early
                      /\ sock[c].state = "TIME_WAIT" => sock[s].wrote \/ op[s] # "none"
    BY DEF EndsAgree, InUse
  <2>1. ConnInv
    BY DEF Inv
  <2>2. op[c] = "connecting" /\ sock[c].state = "SYN_SENT" => sock[c].conn \in early
    BY <2>1 DEF ConnInv, WaitersAreSilent, Waits
  <2>3. sock[c].state = "TIME_WAIT" => sock[s].wrote \/ op[s] # "none"
    BY <2>1 DEF ConnInv, OpenHasAnswered, Open, ClientsStart
  <2>4. QED
    BY <2>2, <2>3
<1>2. QED
  BY <1>1, InvHolds, PTL
==============================================================================
