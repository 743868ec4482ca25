---------------------------------- MODULE Net ----------------------------------
(***************************************************************************)
(* Packets between the network card and the tasks: the buffers of          *)
(* lib/buff.c, the two threads and three queues of kernel32/netx.c, the    *)
(* receive ring of device/pci/e1000.c, and the handlers of Ethernet, ARP,  *)
(* IPv4, ICMP, UDP and DHCP.  Of TCP there is the segment that opens a     *)
(* connection, which is answered from the receiving thread; the rest is in *)
(* module Tcp.                                                             *)
(*                                                                         *)
(* A buffer is half a page and holds one list node, which four lists       *)
(* share: buffs (every buffer), rx, tx and wait (packets that may be       *)
(* answered).  The lists are modelled as they are in memory, pointer by    *)
(* pointer, beside rxq and txq, what the two queues should hold.           *)
(*                                                                         *)
(* astray: a queue may have lost packets in one of the ways the actions    *)
(* name, or a buffer is handed out that something still has, or that is    *)
(* not a buffer.  The model stops there.                                   *)
(*                                                                         *)
(* A definition X_How is X with a plausible slip in it; nothing uses it.   *)
(***************************************************************************)
EXTENDS Integers, SequencesExt

CONSTANTS
    Users,      \* tasks that ping
    Hosts,      \* the other machines of the subnet
    NPages,     \* pages buffers are made of
    NRing,      \* RX_DESC_NR
    Saved,      \* status of the interface in the sector net_init reads
    NAddrs,     \* addresses this machine may be given
    ArpSize,    \* ARP_MAP_NR
    MaxPackets, \* bound: packets received
    MaxCalls    \* bound: calls of the users and rounds of the clock

ASSUME NetAssumption ==
    /\ "netin" \notin Users
    /\ NPages \in Nat /\ NRing \in Nat \ {0} /\ NRing <= 2 * NPages
    /\ Saved \in {"none", "requested", "ack"}
    /\ NAddrs \in Nat \ {0} /\ ArpSize \in Nat \ {0} /\ MaxPackets \in Nat /\ MaxCalls \in Nat

VARIABLES
    mem,        \* the list nodes and the four list_t
    taken,      \* pages buffers have
    pkt,        \* what is in each buffer
    refp,       \* buffers that have been answered
    ring, rxNow,\* the card's receive descriptors
    arp,        \* arp_map: whose card address is known
    netif,      \* status and addresses of the interface
    job,        \* where each user and the receiving thread are
    permits,    \* netin_sem and netout_sem: -1 while the thread waits for a permit
    rxq, txq,   \* what the queues should hold (history)
    packets, calls, astray

memory == <<mem, taken, pkt, refp>>
card == <<ring, rxNow>>
queues == <<rxq, txq>>
vars == <<memory, card, arp, netif, job, permits, queues, packets, calls, astray>>

NBuff == 2 * NPages
Buffs == 1..NBuff
Null == 0
Page(b) == (b + 1) \div 2
FirstHalf(p) == 2 * p - 1
Actors == Users \cup {"netin"}
Lists == {"buffs", "rx", "tx", "wait"}
Self == "self"
NoPacket == [kind |-> "none", host |-> Null]
NoJob == [pc |-> "idle", buf |-> Null, ask |-> Null, frees |-> FALSE]

-------------------------------------------------------------------------------
(* lib/list.c.  A write through a null pointer lands in low memory, where no *)
(* list looks for it.                                                        *)

SetNext(m, b, x) == IF b = Null THEN m ELSE [m EXCEPT !.next[b] = x]
SetPre(m, b, x)  == IF b = Null THEN m ELSE [m EXCEPT !.pre[b] = x]

list_insert_back_Unlinked(m, l, b) ==
    LET q == m.list[l]
    IN  [SetNext(SetPre(m, b, q.tail), b, Null) EXCEPT !.list[l] =
            [head |-> IF q.size = 0 THEN b ELSE q.head, tail |-> b, size |-> q.size + 1]]

list_insert_back(m, l, b) ==
    LET q == m.list[l]
        n == SetNext(SetPre(m, b, q.tail), b, Null)
    IN  IF q.size = 0 THEN [n EXCEPT !.list[l] = [head |-> b, tail |-> b, size |-> 1]]
        ELSE [SetNext(n, q.tail, b) EXCEPT !.list[l] = [head |-> q.head, tail |-> b, size |-> q.size + 1]]

list_remove(m, l, b) ==
    LET q == m.list[l]   p == m.pre[b]   n == m.next[b]
        cut == SetPre(SetNext(m, p, n), n, p)
    IN  [SetPre(SetNext(cut, b, Null), b, Null) EXCEPT !.list[l] =
            [head |-> IF q.head = b THEN n ELSE q.head,
             tail |-> IF q.tail = b THEN p ELSE q.tail, size |-> q.size - 1]]

list_remove_front(m, l) ==
    LET q == m.list[l]   n == m.next[q.head]
    IN  [SetPre(SetNext(SetPre(m, n, Null), q.head, Null), q.head, Null) EXCEPT !.list[l] =
            [head |-> n, tail |-> IF n = Null THEN Null ELSE q.tail, size |-> q.size - 1]]

\* The node i links behind node b.
Walk(m, b) ==
    LET at[i \in 0..NBuff] == IF i = 0 THEN b
                              ELSE IF at[i - 1] = Null THEN Null ELSE m.next[at[i - 1]]
    IN  at

-------------------------------------------------------------------------------
(* Buffers.                                                                *)

\* alloc_desc_buff: where the next buffer is, and the pages taken with it;
\* alloc_page takes the lowest free one.
Found ==
    LET q == mem.list["buffs"]
        free == {p \in 1..NPages : taken \cap (1..p) = 1..p - 1}
    IN  IF q.size % 2 = 1 /\ q.tail # Null THEN {[b |-> q.tail + 1, taken |-> taken]}
        ELSE IF q.size % 2 = 0 /\ free # {}
        THEN {[b |-> FirstHalf(p), taken |-> taken \cup {p}] : p \in free}
        ELSE {[b |-> Null, taken |-> taken]}

\* What the search of wait_list may come to, and the answer that is about to
\* be freed with what its node leads to.
Waiting == Range(Walk(mem, mem.list["wait"].head)) \cup Range(Walk(mem, job["netin"].buf))

\* Buffers something still leads to: the card, a queue, a task, the packets
\* that wait for an answer, and what these have for the node before them.  An
\* answer is freed while it is on wait_list: the next one to leave that list
\* writes to the node before it, whatever has been made of that one's memory.
InUse ==
    Waiting \cup {mem.pre[b] : b \in Waiting \ {Null}} \cup {mem.list["wait"].tail}
        \cup Range(ring) \cup ToSet(rxq) \cup ToSet(txq)
        \cup {job[a].buf : a \in Actors} \cup {job[a].ask : a \in Actors}

Good(g) == g.b \in Buffs /\ Page(g.b) \in g.taken /\ g.b \notin InUse

Handed(m, b) == list_insert_back(SetNext(SetPre(m, b, Null), b, Null), "buffs", b)

\* A new buffer goes behind the newest one, whatever list that one's node is
\* in by now: if it is queued for sending with others behind it, they are lost.
AllocCuts ==
    LET t == mem.list["buffs"].tail IN t \in ToSet(txq) /\ t # Last(txq)

\* free_desc_buff: the page goes when the number left is even, whoever has
\* its other half.
FreePages(m, b, tk) == IF m.list["buffs"].size % 2 = 0 THEN tk \ {Page(b)} ELSE tk

\* Taking a packet that is queued with others out of a second list cuts the
\* queue at it.
RemoveCuts(b) == b \in ToSet(txq) /\ Len(txq) > 1

\* Packets that some task has yet to put in wait_list.
NotYetWaiting ==
    {job[a].buf : a \in {c \in Actors : job[c].pc \in {"build", "tx", "wait", "asking"}}}
        \cup {job[a].ask : a \in {c \in Actors : job[c].pc \in {"tx", "wait"}}}

\* An answer for such a packet: sending resets the links of a packet that waits,
\* the newest packet's node leads to the next one made, and so the search may
\* leave wait_list.  What is taken out of it then links buffers of the card.
Strays(b) == b \in NotYetWaiting \ {Null}

Init ==
    LET node == [b \in Buffs |-> Null]
        none == [m |-> [next |-> node, pre |-> node,
                        list |-> [l \in Lists |-> [head |-> Null, tail |-> Null, size |-> 0]]],
                 tk |-> {}]
        \* e1000_rx_init: one buffer for each descriptor
        made[i \in 0..NRing] == IF i = 0 THEN none
            ELSE [m |-> Handed(made[i - 1].m, i), tk |-> made[i - 1].tk \cup {Page(i)}]
    IN  /\ mem = made[NRing].m /\ taken = made[NRing].tk
        /\ ring = [i \in 0..NRing - 1 |-> i + 1] /\ rxNow = 0
        /\ pkt = [b \in Buffs |-> NoPacket] /\ refp = {}
        /\ arp = {}
        /\ netif = [status |-> Saved, addr |-> IF Saved = "ack" THEN 1 ELSE 0, offer |-> 0]
        /\ job = [a \in Actors |-> IF a = "netin" THEN [NoJob EXCEPT !.pc = "loop"] ELSE NoJob]
        /\ permits = [in |-> 0, out |-> 0]
        /\ rxq = <<>> /\ txq = <<>> /\ packets = 0 /\ calls = 0
        /\ astray = FALSE

-------------------------------------------------------------------------------
(* What the actions below are made of.                                     *)

\* alloc_desc_buff
Alloc(g, lost) ==
    /\ Good(g) /\ taken' = g.taken /\ refp' = refp \ {g.b}
    /\ astray' = (AllocCuts \/ lost)

GoesAstray ==
    /\ ~astray /\ astray' = TRUE
    /\ UNCHANGED <<memory, card, arp, netif, job, permits, queues, packets, calls>>

\* There is no page, or the place is not one that is free.
Misallocated == (\E g \in Found : ~Good(g)) /\ GoesAstray

Goes(a, j) == job' = [job EXCEPT ![a] = j]

-------------------------------------------------------------------------------
(* The card.                                                               *)

\* receive_packet and netif_input: the buffer of the descriptor is queued, and
\* a new one takes its place.  What is in it is chosen when it is looked at.
Receive ==
    /\ ~astray /\ packets < MaxPackets
    /\ LET b == ring[rxNow]
       IN  \E g \in Found :
            /\ Alloc(g, FALSE) /\ mem' = Handed(list_insert_back(mem, "rx", b), g.b)
            /\ ring' = [ring EXCEPT ![rxNow] = g.b]
            /\ pkt' = [pkt EXCEPT ![g.b] = NoPacket]
            /\ rxq' = Append(rxq, b)
    /\ rxNow' = (rxNow + 1) % NRing
    /\ permits' = [permits EXCEPT !.in = @ + 1] /\ packets' = packets + 1
    /\ UNCHANGED <<arp, netif, job, txq, calls>>

\* netout_thread: the front of tx_list goes to the card, and the thread waits
\* until the card has written the descriptor back.
NetOut ==
    /\ ~astray /\ permits.out >= 0
    /\ \/ /\ mem.list["tx"].size = 0
          /\ permits' = [permits EXCEPT !.out = @ - 1]
          /\ UNCHANGED <<mem, txq>>
       \/ /\ mem.list["tx"].size > 0 /\ mem.list["tx"].head # Null
          /\ mem' = list_remove_front(mem, "tx") /\ txq' = Tail(txq)
          /\ UNCHANGED permits
    /\ UNCHANGED <<taken, pkt, refp, card, arp, netif, job, rxq, packets, calls, astray>>

-------------------------------------------------------------------------------
(* Sending: netif_output, by a task or by the receiving thread.            *)

Outgoing(a) == IF job[a].ask # Null THEN job[a].ask ELSE job[a].buf

\* Some packet is in tx_list and not yet in wait_list: one that is queued now
\* will be in them in another order, and each insert resets the node's links.
Overlaps == \E a \in Actors : job[a].pc = "wait"

\* list_insert_back on tx_list; another task may run before the second one.
Queue(a) ==
    /\ ~astray /\ job[a].pc = "tx"
    /\ mem' = list_insert_back(mem, "tx", Outgoing(a)) /\ txq' = Append(txq, Outgoing(a))
    /\ Goes(a, [job[a] EXCEPT !.pc = "wait"])
    /\ astray' = Overlaps
    /\ UNCHANGED <<taken, pkt, refp, card, arp, netif, permits, rxq, packets, calls>>

Await_Silent(a) ==
    /\ ~astray /\ job[a].pc = "wait"
    /\ mem' = list_insert_back(mem, "wait", Outgoing(a))
    /\ Goes(a, IF job[a].ask # Null THEN [job[a] EXCEPT !.pc = "asking"] ELSE NoJob)
    /\ UNCHANGED <<taken, pkt, refp, card, arp, netif, permits, queues, packets, calls, astray>>

\* list_insert_back on wait_list, and sem_notify.
Await(a) ==
    /\ ~astray /\ job[a].pc = "wait"
    /\ mem' = list_insert_back(mem, "wait", Outgoing(a))
    /\ permits' = [permits EXCEPT !.out = @ + 1]
    /\ Goes(a, IF job[a].ask # Null THEN [job[a] EXCEPT !.pc = "asking"]
               ELSE IF a # "netin" THEN [job[a] EXCEPT !.pc = "poll"]
               ELSE IF job[a].frees THEN [job[a] EXCEPT !.pc = "free"]
               ELSE [NoJob EXCEPT !.pc = "loop"])
    /\ UNCHANGED <<taken, pkt, refp, card, arp, netif, queues, packets, calls, astray>>

\* find_mac
Known(h) == h \in arp

\* ipv4_build with kernel_setmac: the packet is queued if the receiver's
\* address is known, and ask_mac asks for it first if not.
Build(a) ==
    /\ ~astray /\ job[a].pc = "build"
    /\ LET h == pkt[job[a].buf].host
       IN  \/ /\ Known(h)
              /\ Goes(a, [job[a] EXCEPT !.pc = "tx"])
              /\ UNCHANGED <<memory, astray>>
           \/ /\ ~Known(h)
              /\ \E g \in Found :
                    /\ Alloc(g, FALSE) /\ mem' = Handed(mem, g.b)
                    /\ pkt' = [pkt EXCEPT ![g.b] = [kind |-> "ask", host |-> h]]
                    /\ Goes(a, [job[a] EXCEPT !.pc = "tx", !.ask = g.b])
    /\ UNCHANGED <<card, arp, netif, permits, queues, packets, calls>>

BuildAstray(a) == job[a].pc = "build" /\ ~Known(pkt[job[a].buf].host) /\ Misallocated

\* ask_mac finds refp set; it sleeps and looks again until it does.
Asked(a) ==
    /\ ~astray /\ job[a].pc = "asking" /\ job[a].ask \in refp
    /\ Goes(a, [job[a] EXCEPT !.pc = "tx", !.ask = Null])
    /\ UNCHANGED <<memory, card, arp, netif, permits, queues, packets, calls, astray>>

-------------------------------------------------------------------------------
(* The receiving thread.                                                   *)

put_arp_map(h) == IF Cardinality(arp) >= ArpSize THEN arp ELSE arp \cup {h}

\* What an answer may be taken to be the answer of: reply_arp_desc_buff and
\* reply_icmp_desc_buff compare addresses, not operations, and our own answers
\* wait there too.  The other hosts number their pings as this kernel does.
Questions(answer, h) ==
    LET kinds == IF answer = "reply" THEN {"ask", "whose"} ELSE {"ping", "echo"}
    IN  {b \in Buffs : pkt[b].host = h /\ pkt[b].kind \in kinds}

\* reply_desc_buff: the first question on wait_list gets the answer.
Replied(answer, h) ==
    LET at == Walk(mem, mem.list["wait"].head)
        hits == {i \in 0..NBuff : at[i] \in Questions(answer, h)}
    IN  IF hits = {} THEN Null ELSE at[CHOOSE i \in hits : \A j \in hits : i <= j]

\* netin_thread takes the front of rx_list; eth_input, ipv4_input and udp_input
\* sort it.  What is done with it goes by its kind, below.
First == mem.list["rx"].head
Rest == list_remove_front(mem, "rx")

Input ==
    /\ ~astray /\ job["netin"].pc = "loop" /\ permits.in >= 0
    /\ mem.list["rx"].size > 0 /\ First # Null
    /\ rxq' = Tail(rxq)
    /\ UNCHANGED <<card, permits, txq, packets, calls>>
Done == Goes("netin", [NoJob EXCEPT !.pc = "loop"])

\* free_desc_buff, with m the lists as the caller has left them.
Free(m, b) ==
    /\ mem' = list_remove(m, "buffs", b)
    /\ taken' = FreePages(mem', b, taken)

\* A type, protocol or port nothing listens for.
InputJunk ==
    /\ Input /\ Done
    /\ Free(Rest, First)
    /\ UNCHANGED <<pkt, refp, arp, netif, astray>>

\* IPv6 and the test type: the buffer is never freed.
InputIgnored ==
    /\ Input /\ Done
    /\ mem' = Rest
    /\ UNCHANGED <<taken, pkt, refp, arp, netif, astray>>

\* arp_input, icmp_input: an answer.  An ARP answer is not freed, its asker
\* reads it; an echo is freed, though its asker will read it too.
InputAnswer(answer, h) ==
    /\ Input /\ Done
    /\ LET x == Replied(answer, h)
           m == IF x = Null THEN Rest ELSE list_remove(Rest, "wait", x)
       IN  /\ refp' = IF x = Null THEN refp ELSE refp \cup {x}
           /\ astray' = (RemoveCuts(x) \/ Strays(x))
           /\ \/ answer = "reply" /\ arp' = put_arp_map(h) /\ mem' = m /\ UNCHANGED taken
              \/ answer = "pong" /\ Free(m, First) /\ UNCHANGED arp
    /\ UNCHANGED <<pkt, netif>>

\* A packet that is answered in its own buffer.
Answers(kind, h) ==
    /\ pkt' = [pkt EXCEPT ![First] = [kind |-> kind, host |-> h]]
    /\ mem' = Rest
    /\ UNCHANGED <<taken, refp, arp, astray>>
Sends(pc, frees) == Goes("netin", [NoJob EXCEPT !.pc = pc, !.buf = First, !.frees = frees])

\* arp_input: host h asks for the card of an address.
InputWho(h, addr) ==
    /\ Input /\ UNCHANGED netif
    /\ \/ addr = netif.addr /\ Answers("whose", h) /\ Sends("tx", TRUE)
       \/ /\ addr # netif.addr
          /\ arp' = put_arp_map(h)
          /\ Free(Rest, First) /\ Done
          /\ UNCHANGED <<pkt, refp, astray>>

\* icmp_input: the question of a ping.
InputEcho(h) == Input /\ Answers("echo", h) /\ Sends("tx", TRUE) /\ UNCHANGED netif

\* tcp_input, tcp_synack: the answer is built for the sender's address.
InputSyn(h) == Input /\ Answers("other", h) /\ Sends("build", FALSE) /\ UNCHANGED netif

\* dhcp_offer and dhcp_request, in the offer's buffer; the request is a
\* broadcast.
InputOffer(h, addr) ==
    /\ Input /\ Answers("other", Null) /\ Sends("tx", FALSE)
    /\ netif' = [netif EXCEPT !.status = "requested", !.offer = addr]

\* dhcp_ack: what was offered last is taken, and saved.
InputAck ==
    /\ Input /\ Done
    /\ netif' = [netif EXCEPT !.status = "ack", !.addr = netif.offer]
    /\ mem' = Rest
    /\ UNCHANGED <<taken, pkt, refp, arp, astray>>

\* arp_input and icmp_input free the packet that is queued by now.  What
\* arp_input enters is read from the answer, which is from this machine.
FreeAnswer ==
    /\ ~astray /\ job["netin"].pc = "free"
    /\ LET b == job["netin"].buf
       IN  /\ arp' = IF pkt[b].kind = "whose" THEN put_arp_map(Self) ELSE arp
           /\ Free(mem, b)
           /\ astray' = RemoveCuts(b)
    /\ Done
    /\ UNCHANGED <<pkt, refp, card, netif, permits, queues, packets, calls>>

NetinSleeps ==
    /\ ~astray /\ job["netin"].pc = "loop" /\ permits.in >= 0 /\ mem.list["rx"].size = 0
    /\ permits' = [permits EXCEPT !.in = @ - 1]
    /\ UNCHANGED <<memory, card, arp, netif, job, queues, packets, calls, astray>>

-------------------------------------------------------------------------------
(* The tasks and the clock.                                                *)

\* sys_ping as far as its packet is built, but for the addresses.
Ping(u, h) ==
    /\ ~astray /\ calls < MaxCalls /\ job[u].pc = "idle"
    /\ \E g \in Found :
        /\ Alloc(g, FALSE) /\ mem' = Handed(mem, g.b)
        /\ pkt' = [pkt EXCEPT ![g.b] = [kind |-> "ping", host |-> h]]
        /\ Goes(u, [NoJob EXCEPT !.pc = "build", !.buf = g.b])
    /\ calls' = calls + 1
    /\ UNCHANGED <<card, arp, netif, permits, queues, packets>>

\* The answer is there.  No one frees the packet.
Pinged(u) ==
    /\ ~astray /\ job[u].pc = "poll" /\ job[u].buf \in refp
    /\ Goes(u, NoJob)
    /\ UNCHANGED <<memory, card, arp, netif, permits, queues, packets, calls, astray>>

\* sys_arpc
ArpClear(u) ==
    /\ ~astray /\ calls < MaxCalls /\ job[u].pc = "idle" /\ arp # {}
    /\ arp' = {} /\ calls' = calls + 1
    /\ UNCHANGED <<memory, card, netif, job, permits, queues, packets, astray>>

\* handler_rtc and dhcp_discover, while no address has been acknowledged.
Discover ==
    /\ ~astray /\ calls < MaxCalls /\ netif.status # "ack"
    /\ \E g \in Found :
        /\ Alloc(g, Overlaps)
        /\ mem' = list_insert_back(list_insert_back(Handed(mem, g.b), "tx", g.b), "wait", g.b)
        /\ pkt' = [pkt EXCEPT ![g.b] = [NoPacket EXCEPT !.kind = "other"]]
        /\ txq' = Append(txq, g.b)
    /\ permits' = [permits EXCEPT !.out = @ + 1] /\ calls' = calls + 1
    /\ UNCHANGED <<card, arp, netif, job, rxq, packets>>

\* Who may be inside list.c with list l.
Editors(l) ==
    LET at(pcs) == {a \in Actors : job[a].pc \in pcs}
        netin == IF permits.in >= 0 /\ mem.list["rx"].size > 0 THEN at({"loop"}) ELSE {}
        netout == IF permits.out >= 0 /\ mem.list["tx"].size > 0 THEN {"netout"} ELSE {}
        rxIrq == IF packets < MaxPackets THEN {"card"} ELSE {}
        clock == IF calls < MaxCalls /\ netif.status # "ack" THEN {"clock"} ELSE {}
    IN  CASE l = "rx"    -> netin \cup rxIrq
          [] l = "tx"    -> netout \cup at({"tx"}) \cup clock
          [] l = "wait"  -> netin \cup at({"wait"}) \cup clock
          [] l = "buffs" -> rxIrq \cup clock

\* An insertion or a removal is several stores, and only buff_list has a lock,
\* which an interrupt gets past when the task it interrupts has it.  Two edits
\* of one list at once leave whatever list the stores make.
Torn ==
    /\ \/ \E l \in Lists : \E a, b \in Editors(l) : a # b
       \/ Editors("buffs") # {} /\ \E a \in Actors : job[a].pc \in {"loop", "build", "free"}
    /\ GoesAstray

NetinStep ==
    \/ InputJunk \/ InputIgnored \/ InputAck \/ FreeAnswer \/ NetinSleeps
    \/ \E h \in Hosts : InputEcho(h) \/ InputSyn(h)
    \/ \E h \in Hosts, n \in {"reply", "pong"} : InputAnswer(n, h)
    \/ \E h \in Hosts, n \in 1..NAddrs : InputWho(h, n) \/ InputOffer(h, n)
    \/ Queue("netin") \/ Await("netin") \/ Build("netin") \/ BuildAstray("netin") \/ Asked("netin")

UserGoesOn(u) == Queue(u) \/ Await(u) \/ Build(u) \/ BuildAstray(u) \/ Asked(u) \/ Pinged(u)
UserCalls(u) == ArpClear(u) \/ \E h \in Hosts : Ping(u, h)

Next ==
    \/ NetinStep \/ NetOut \/ \E u \in Users : UserGoesOn(u) \/ UserCalls(u)
    \/ Receive \/ Discover \/ Torn
    \/ (packets < MaxPackets \/ calls < MaxCalls) /\ Misallocated

\* The scheduler lets every ready task run in turn, and the card sends.
Spec ==
    /\ Init /\ [][Next]_vars /\ WF_vars(NetinStep) /\ WF_vars(NetOut)
    /\ \A u \in Users : WF_vars(UserGoesOn(u))

-------------------------------------------------------------------------------
Holds(l, q) ==
    LET c == mem.list[l]
    IN  /\ c.size = Len(q)
        /\ q # <<>> => c.head = q[1] /\ c.tail = Last(q)
        /\ \A i \in 1..Len(q) - 1 : mem.next[q[i]] = q[i + 1]

\* rx_list and tx_list hold the packets that were put in and not yet taken
\* out, in their order, although each node is a node of buff_list and of
\* wait_list too, and every one of those inserts writes the same two pointers.
\* They lose packets only as astray says: two edits of a list at once; a packet
\* that is freed, or answered, while it is queued for sending with others; a
\* buffer made while the newest one is queued so; an answer that the search of
\* wait_list gives to a packet not yet in it (netx.c netif_output, buff.c).
QueuesSound == ~astray => Holds("rx", rxq) /\ Holds("tx", txq)

\* The receiving thread takes every packet, and the sending thread sends every
\* one, unless packets were lost or the receiving thread waits in ask_mac for
\* an answer that only it can take in (netx.c netin_thread, netout_thread).
PacketsHandled ==
    /\ rxq # <<>> ~> rxq = <<>> \/ astray \/ job["netin"].pc = "asking"
    /\ txq # <<>> ~> txq = <<>> \/ astray
==============================================================================
