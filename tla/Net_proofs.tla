------------------------------- MODULE Net_proofs -------------------------------
(***************************************************************************)
(* Proofs about Net, for any number of pages, descriptors, tasks and hosts *)
(* and any number of packets and calls.                                    *)
(***************************************************************************)
EXTENDS Net, FiniteSetTheorems, SequenceTheorems, WellFoundedInduction, TLAPS

------------------------------------------------------------------------------
(* The invariant.                                                          *)

Nodes == Buffs \cup {Null}
PCs == {"idle", "loop", "build", "tx", "wait", "asking", "poll", "free"}
Kinds == {"none", "ask", "whose", "ping", "echo", "other"}
List == [head : Nodes, tail : Nodes, size : Int]
Memory == [next : [Buffs -> Nodes], pre : [Buffs -> Nodes], list : [Lists -> List]]
Job == [pc : PCs, buf : Nodes, ask : Nodes, frees : BOOLEAN]
Packet == [kind : Kinds, host : Hosts \cup {Null}]

Types ==
    /\ mem \in Memory /\ pkt \in [Buffs -> Packet]
    /\ ring \in [0..NRing-1 -> Buffs] /\ rxNow \in 0..NRing-1
    /\ job \in [Actors -> Job]
    /\ rxq \in Seq(Buffs) /\ txq \in Seq(Buffs)

Distinct(q) == \A i, j \in 1..Len(q) : q[i] = q[j] => i = j

\* The buffers of the card and of rx_list, and the packets not yet in wait_list.
Receiving == Range(ring) \cup ToSet(rxq)
Unsent == NotYetWaiting \ {Null}

\* No buffer has two uses.
Apart ==
    /\ \A i, j \in 0..NRing-1 : ring[i] = ring[j] => i = j
    /\ Distinct(rxq) /\ Distinct(txq)
    /\ Range(ring) \cap ToSet(rxq) = {} /\ Receiving \cap ToSet(txq) = {}
    /\ \A b \in Receiving : pkt[b].kind = "none"
    /\ \A a \in Actors : job[a].buf \notin Receiving /\ job[a].ask \notin Receiving
    /\ \A a, c \in Actors :
        /\ job[a].buf # Null => job[a].buf # job[c].ask /\ (a # c => job[a].buf # job[c].buf)
        /\ job[a].ask # Null /\ a # c => job[a].ask # job[c].ask

Jobs == \A a \in Actors :
    /\ job[a].pc \in {"idle", "loop"} => job[a].buf = Null /\ job[a].ask = Null
    /\ job[a].pc \notin {"idle", "loop"} => job[a].buf # Null
    /\ job[a].pc \in {"build", "poll", "free"} => job[a].ask = Null

\* A packet not yet sent is not in tx_list, but for the last one of it, which one
\* task is about to put in wait_list.
Sending == \A a \in Actors :
    /\ job[a].pc \in {"build", "tx", "asking"} => job[a].buf \notin ToSet(txq)
    /\ job[a].pc = "tx" => job[a].ask \notin ToSet(txq)
    /\ job[a].pc = "wait" =>
        /\ job[a].ask # Null => job[a].buf \notin ToSet(txq)
        /\ txq = <<>> \/ Last(txq) = Outgoing(a)
        /\ \A c \in Actors : job[c].pc = "wait" => c = a

\* The newest buffer is not one of the received packets.
Newest ==
    LET t == mem.list["buffs"].tail IN t # Null /\ t \notin ToSet(rxq) /\ t # job["netin"].buf

\* The end of wait_list: what is put behind it is what is behind it in tx_list.
LastWaiting ==
    LET t == mem.list["wait"].tail
    IN  /\ t \notin Receiving \cup Unsent
        /\ \A i \in 1..Len(txq) : txq[i] = t =>
              i = Len(txq) \/ (i = Len(txq) - 1 /\ \E a \in Actors : job[a].pc = "wait")

\* Where the search of wait_list comes to, the node before has nothing to lose.
BackLink(x) ==
    /\ mem.pre[x] \notin Receiving \cup Unsent
    /\ mem.pre[x] \in ToSet(txq) => x \in ToSet(txq) /\ mem.pre[x] # x
BackLinks == \A x \in Waiting \ {Null} : x \in Receiving \cup Unsent \/ BackLink(x)

Sound ==
    /\ Types /\ Apart /\ Jobs /\ Sending
    /\ Holds("rx", rxq) /\ Holds("tx", txq)
    /\ Newest /\ LastWaiting /\ BackLinks

\* The model stops when packets may have been lost.
Inv == astray \/ Sound

------------------------------------------------------------------------------
(* The operations of lib/list.c.                                           *)

LEMMA MemoryParts ==
    ASSUME NEW m \in Memory
    PROVE  /\ m = [next |-> m.next, pre |-> m.pre, list |-> m.list]
           /\ m.next \in [Buffs -> Nodes] /\ m.pre \in [Buffs -> Nodes] /\ m.list \in [Lists -> List]
           /\ \A b \in Buffs : m.next[b] \in Nodes /\ m.pre[b] \in Nodes
           /\ \A l \in Lists : /\ m.list[l] \in List
                               /\ m.list[l].head \in Nodes /\ m.list[l].tail \in Nodes
                               /\ m.list[l].size \in Int
BY DEF Memory, List

LEMMA Numbers == Buffs \subseteq Nat \ {0} /\ Null \notin Buffs /\ NBuff \in Nat /\ IsFiniteSet(Buffs)
                 /\ Cardinality(Buffs) = NBuff
<1>1. NBuff \in Nat
  BY NetAssumption DEF NBuff
<1>2. IsFiniteSet(1..NBuff) /\ Cardinality(1..NBuff) = NBuff
  BY <1>1, FS_Interval
<1>3. QED
  BY <1>1, <1>2 DEF Buffs, Null

\* One store: m1 is m but for one pointer, or for one list_t.
NextStored(m1, m, b, x) ==
    /\ m1 \in Memory /\ m1.pre = m.pre /\ m1.list = m.list
    /\ \A y \in Buffs : m1.next[y] = IF y = b THEN x ELSE m.next[y]
PreStored(m1, m, b, x) ==
    /\ m1 \in Memory /\ m1.next = m.next /\ m1.list = m.list
    /\ \A y \in Buffs : m1.pre[y] = IF y = b THEN x ELSE m.pre[y]
ListStored(m1, m, l, c) ==
    /\ m1 \in Memory /\ m1.pre = m.pre /\ m1.next = m.next
    /\ m1.list[l] = c /\ \A k \in Lists : k # l => m1.list[k] = m.list[k]

LEMMA SetNextFacts ==
    ASSUME NEW m \in Memory, NEW b \in Nodes, NEW x \in Nodes
    PROVE  NextStored(SetNext(m, b, x), m, b, x)
<1>1. CASE b = Null
  BY <1>1, Numbers DEF NextStored, SetNext
<1>2. CASE b # Null
  <2>1. b \in Buffs
    BY <1>2 DEF Nodes
  <2>2. SetNext(m, b, x) = [m EXCEPT !.next = [m.next EXCEPT ![b] = x]]
    BY <1>2, <2>1, MemoryParts DEF SetNext
  <2>3. [m.next EXCEPT ![b] = x] \in [Buffs -> Nodes]
    BY <2>1, MemoryParts
  <2>4. SetNext(m, b, x) = [next |-> [m.next EXCEPT ![b] = x], pre |-> m.pre, list |-> m.list]
    BY <2>2, MemoryParts
  <2>5. QED
    BY <2>1, <2>3, <2>4, MemoryParts DEF Memory, NextStored
<1>3. QED
  BY <1>1, <1>2

LEMMA SetPreFacts ==
    ASSUME NEW m \in Memory, NEW b \in Nodes, NEW x \in Nodes
    PROVE  PreStored(SetPre(m, b, x), m, b, x)
<1>1. CASE b = Null
  BY <1>1, Numbers DEF PreStored, SetPre
<1>2. CASE b # Null
  <2>1. b \in Buffs
    BY <1>2 DEF Nodes
  <2>2. SetPre(m, b, x) = [m EXCEPT !.pre = [m.pre EXCEPT ![b] = x]]
    BY <1>2, <2>1, MemoryParts DEF SetPre
  <2>3. [m.pre EXCEPT ![b] = x] \in [Buffs -> Nodes]
    BY <2>1, MemoryParts
  <2>4. SetPre(m, b, x) = [next |-> m.next, pre |-> [m.pre EXCEPT ![b] = x], list |-> m.list]
    BY <2>2, MemoryParts
  <2>5. QED
    BY <2>1, <2>3, <2>4, MemoryParts DEF Memory, PreStored
<1>3. QED
  BY <1>1, <1>2

LEMMA SetListFacts ==
    ASSUME NEW m \in Memory, NEW l \in Lists, NEW c \in List
    PROVE  ListStored([m EXCEPT !.list[l] = c], m, l, c)
<1>1. [m.list EXCEPT ![l] = c] \in [Lists -> List]
  BY MemoryParts
<1>2. [m EXCEPT !.list[l] = c] = [next |-> m.next, pre |-> m.pre, list |-> [m.list EXCEPT ![l] = c]]
  BY MemoryParts
<1>3. [m EXCEPT !.list[l] = c] \in Memory
  BY <1>1, <1>2, MemoryParts DEF Memory
<1>4. QED
  BY <1>1, <1>2, <1>3, MemoryParts DEF ListStored

\* What the operations do to a memory m, which m1 is after.
Inserted(m1, m, l, b) ==
    LET q == m.list[l]
    IN  /\ m1 \in Memory
        /\ m1.list[l].head = IF q.size = 0 THEN b ELSE q.head
        /\ m1.list[l].tail = b /\ m1.list[l].size = q.size + 1
        /\ \A k \in Lists : k # l => m1.list[k] = m.list[k]
        /\ \A y \in Buffs : m1.pre[y] = IF y = b THEN q.tail ELSE m.pre[y]
        /\ \A y \in Buffs : m1.next[y] = IF y = q.tail /\ q.size # 0 THEN b
                                         ELSE IF y = b THEN Null ELSE m.next[y]

Removed(m1, m, l, b) ==
    LET q == m.list[l]
    IN  /\ m1 \in Memory
        /\ m1.list[l].head = IF q.head = b THEN m.next[b] ELSE q.head
        /\ m1.list[l].tail = IF q.tail = b THEN m.pre[b] ELSE q.tail
        /\ m1.list[l].size = q.size - 1
        /\ \A k \in Lists : k # l => m1.list[k] = m.list[k]
        /\ \A y \in Buffs : m1.pre[y] = IF y = b THEN Null
                                        ELSE IF y = m.next[b] THEN m.pre[b] ELSE m.pre[y]
        /\ \A y \in Buffs : m1.next[y] = IF y = b THEN Null
                                         ELSE IF y = m.pre[b] THEN m.next[b] ELSE m.next[y]

FrontRemoved(m1, m, l) ==
    LET q == m.list[l]
        h == q.head
        n == m.next[h]
    IN  /\ m1 \in Memory
        /\ m1.list[l].head = n
        /\ m1.list[l].tail = IF n = Null THEN Null ELSE q.tail
        /\ m1.list[l].size = q.size - 1
        /\ \A k \in Lists : k # l => m1.list[k] = m.list[k]
        /\ \A y \in Buffs : m1.pre[y] = IF y = h \/ y = n THEN Null ELSE m.pre[y]
        /\ \A y \in Buffs : m1.next[y] = IF y = h THEN Null ELSE m.next[y]

HandedOut(m1, m, b) ==
    LET q == m.list["buffs"]
    IN  /\ m1 \in Memory /\ m1.list["buffs"].tail = b
        /\ \A k \in Lists : k # "buffs" => m1.list[k] = m.list[k]
        /\ \A y \in Buffs : m1.pre[y] = IF y = b THEN q.tail ELSE m.pre[y]
        /\ \A y \in Buffs : m1.next[y] = IF y = q.tail /\ q.size # 0 THEN b
                                         ELSE IF y = b THEN Null ELSE m.next[y]

LEMMA InsertFacts ==
    ASSUME NEW m \in Memory, NEW l \in Lists, NEW b \in Buffs, NEW m1, m1 = list_insert_back(m, l, b)
    PROVE  Inserted(m1, m, l, b)
<1>1. b \in Nodes /\ Null \in Nodes
  BY DEF Nodes
<1>2. PICK q \in List : q = m.list[l]
  BY MemoryParts
<1>3. PICK t \in Nodes : t = q.tail
  BY DEF List
<1>4. PICK c1 : c1 = SetPre(m, b, t)
  OBVIOUS
<1>5. PreStored(c1, m, b, t)
  BY <1>1, <1>4, SetPreFacts
<1>6. /\ c1 \in Memory /\ c1.next = m.next /\ c1.list = m.list
      /\ \A y \in Buffs : c1.pre[y] = IF y = b THEN t ELSE m.pre[y]
  BY <1>5 DEF PreStored
<1>7. PICK n : n = SetNext(c1, b, Null)
  OBVIOUS
<1>8. NextStored(n, c1, b, Null)
  BY <1>1, <1>6, <1>7, SetNextFacts
<1>9. /\ n \in Memory /\ n.pre = c1.pre /\ n.list = c1.list
      /\ \A y \in Buffs : n.next[y] = IF y = b THEN Null ELSE c1.next[y]
  BY <1>8 DEF NextStored
<1>10. n.list[l] = q /\ q.head \in Nodes /\ q.size \in Int
  BY <1>2, <1>6, <1>9 DEF List
<1>11. CASE q.size = 0
  <2>1. PICK c : c = [head |-> b, tail |-> b, size |-> 1]
    OBVIOUS
  <2>2. m1 = [n EXCEPT !.list[l] = c]
    BY <1>2, <1>3, <1>4, <1>7, <1>11, <2>1 DEF list_insert_back
  <2>3. c \in List /\ c.head = b /\ c.tail = b /\ c.size = 1
    BY <1>1, <2>1 DEF List
  <2>4. /\ m1 \in Memory /\ m1.pre = n.pre /\ m1.next = n.next /\ m1.list[l] = c
        /\ \A k \in Lists : k # l => m1.list[k] = n.list[k]
    <3>1. ListStored(m1, n, l, c)
      BY <1>9, <2>2, <2>3, SetListFacts
    <3>2. QED
      BY <3>1 DEF ListStored
  <2>5. QED
    BY <1>2, <1>3, <1>6, <1>9, <1>11, <2>3, <2>4 DEF Inserted
<1>12. CASE q.size # 0
  <2>1. PICK c3 : c3 = SetNext(n, t, b)
    OBVIOUS
  <2>2. NextStored(c3, n, t, b)
    BY <1>1, <1>9, <2>1, SetNextFacts
  <2>3. /\ c3 \in Memory /\ c3.pre = n.pre /\ c3.list = n.list
        /\ \A y \in Buffs : c3.next[y] = IF y = t THEN b ELSE n.next[y]
    BY <2>2 DEF NextStored
  <2>4. PICK c : c = [head |-> q.head, tail |-> b, size |-> q.size + 1]
    OBVIOUS
  <2>5. c \in List /\ c.head = q.head /\ c.tail = b /\ c.size = q.size + 1
    BY <1>1, <1>10, <2>4 DEF List
  <2>6. m1 = [c3 EXCEPT !.list[l] = c]
    BY <1>2, <1>3, <1>4, <1>7, <1>12, <2>1, <2>4 DEF list_insert_back
  <2>7. /\ m1 \in Memory /\ m1.pre = c3.pre /\ m1.next = c3.next /\ m1.list[l] = c
        /\ \A j \in Lists : j # l => m1.list[j] = c3.list[j]
    <3>1. ListStored(m1, c3, l, c)
      BY <2>3, <2>5, <2>6, SetListFacts
    <3>2. QED
      BY <3>1 DEF ListStored
  <2>8. QED
    BY <1>2, <1>3, <1>6, <1>9, <1>12, <2>3, <2>5, <2>7 DEF Inserted
<1>13. QED
  BY <1>11, <1>12

LEMMA RemoveFacts ==
    ASSUME NEW m \in Memory, NEW l \in Lists, NEW b \in Buffs, NEW m1, m1 = list_remove(m, l, b)
    PROVE  Removed(m1, m, l, b)
<1>1. b \in Nodes /\ Null \in Nodes
  BY DEF Nodes
<1>2. PICK p \in Nodes : p = m.pre[b]
  BY MemoryParts
<1>3. PICK n \in Nodes : n = m.next[b]
  BY MemoryParts
<1>4. PICK c1 : c1 = SetNext(m, p, n)
  OBVIOUS
<1>5. NextStored(c1, m, p, n)
  BY <1>4, SetNextFacts
<1>6. /\ c1 \in Memory /\ c1.pre = m.pre /\ c1.list = m.list
      /\ \A y \in Buffs : c1.next[y] = IF y = p THEN n ELSE m.next[y]
  BY <1>5 DEF NextStored
<1>7. PICK c2 : c2 = SetPre(c1, n, p)
  OBVIOUS
<1>8. PreStored(c2, c1, n, p)
  BY <1>6, <1>7, SetPreFacts
<1>9. /\ c2 \in Memory /\ c2.next = c1.next /\ c2.list = c1.list
      /\ \A y \in Buffs : c2.pre[y] = IF y = n THEN p ELSE c1.pre[y]
  BY <1>8 DEF PreStored
<1>10. PICK c3 : c3 = SetNext(c2, b, Null)
  OBVIOUS
<1>11. NextStored(c3, c2, b, Null)
  BY <1>1, <1>9, <1>10, SetNextFacts
<1>12. /\ c3 \in Memory /\ c3.pre = c2.pre /\ c3.list = c2.list
       /\ \A y \in Buffs : c3.next[y] = IF y = b THEN Null ELSE c2.next[y]
  BY <1>11 DEF NextStored
<1>13. PICK c4 : c4 = SetPre(c3, b, Null)
  OBVIOUS
<1>14. PreStored(c4, c3, b, Null)
  BY <1>1, <1>12, <1>13, SetPreFacts
<1>15. /\ c4 \in Memory /\ c4.next = c3.next /\ c4.list = c3.list
       /\ \A y \in Buffs : c4.pre[y] = IF y = b THEN Null ELSE c3.pre[y]
  BY <1>14 DEF PreStored
<1>16. PICK q \in List : q = m.list[l]
  BY MemoryParts
<1>17. PICK c : c = [head |-> IF q.head = b THEN n ELSE q.head,
                     tail |-> IF q.tail = b THEN p ELSE q.tail, size |-> q.size - 1]
  OBVIOUS
<1>18. c \in List /\ c.head = (IF q.head = b THEN n ELSE q.head)
       /\ c.tail = (IF q.tail = b THEN p ELSE q.tail) /\ c.size = q.size - 1
  BY <1>17 DEF List
<1>19. m1 = [c4 EXCEPT !.list[l] = c]
  BY <1>2, <1>3, <1>4, <1>7, <1>10, <1>13, <1>16, <1>17 DEF list_remove
<1>20. /\ m1 \in Memory /\ m1.pre = c4.pre /\ m1.next = c4.next /\ m1.list[l] = c
       /\ \A k \in Lists : k # l => m1.list[k] = c4.list[k]
  <2>1. ListStored(m1, c4, l, c)
    BY <1>15, <1>18, <1>19, SetListFacts
  <2>2. QED
    BY <2>1 DEF ListStored
<1>21. QED
  BY <1>2, <1>3, <1>6, <1>9, <1>12, <1>15, <1>16, <1>18, <1>20 DEF Removed

LEMMA RemoveFrontFacts ==
    ASSUME NEW m \in Memory, NEW l \in Lists, m.list[l].head # Null,
           NEW m1, m1 = list_remove_front(m, l)
    PROVE  FrontRemoved(m1, m, l)
<1>1. Null \in Nodes
  BY DEF Nodes
<1>2. PICK q \in List : q = m.list[l]
  BY MemoryParts
<1>3. PICK h \in Buffs : h = q.head
  BY <1>2, MemoryParts DEF Nodes
<1>4. h \in Nodes
  BY DEF Nodes
<1>5. PICK n \in Nodes : n = m.next[h]
  BY MemoryParts
<1>6. PICK c2 : c2 = SetPre(m, n, Null)
  OBVIOUS
<1>7. PreStored(c2, m, n, Null)
  BY <1>1, <1>6, SetPreFacts
<1>8. /\ c2 \in Memory /\ c2.next = m.next /\ c2.list = m.list
      /\ \A y \in Buffs : c2.pre[y] = IF y = n THEN Null ELSE m.pre[y]
  BY <1>7 DEF PreStored
<1>9. PICK c3 : c3 = SetNext(c2, h, Null)
  OBVIOUS
<1>10. NextStored(c3, c2, h, Null)
  BY <1>1, <1>4, <1>8, <1>9, SetNextFacts
<1>11. /\ c3 \in Memory /\ c3.pre = c2.pre /\ c3.list = c2.list
       /\ \A y \in Buffs : c3.next[y] = IF y = h THEN Null ELSE c2.next[y]
  BY <1>10 DEF NextStored
<1>12. PICK c4 : c4 = SetPre(c3, h, Null)
  OBVIOUS
<1>13. PreStored(c4, c3, h, Null)
  BY <1>1, <1>4, <1>11, <1>12, SetPreFacts
<1>14. /\ c4 \in Memory /\ c4.next = c3.next /\ c4.list = c3.list
       /\ \A y \in Buffs : c4.pre[y] = IF y = h THEN Null ELSE c3.pre[y]
  BY <1>13 DEF PreStored
<1>15. PICK c : c = [head |-> n, tail |-> IF n = Null THEN Null ELSE q.tail, size |-> q.size - 1]
  OBVIOUS
<1>16. c \in List /\ c.head = n /\ c.tail = (IF n = Null THEN Null ELSE q.tail) /\ c.size = q.size - 1
  BY <1>1, <1>15 DEF List
<1>17. m1 = [c4 EXCEPT !.list[l] = c]
  BY <1>2, <1>3, <1>5, <1>6, <1>9, <1>12, <1>15 DEF list_remove_front
<1>18. /\ m1 \in Memory /\ m1.pre = c4.pre /\ m1.next = c4.next /\ m1.list[l] = c
       /\ \A k \in Lists : k # l => m1.list[k] = c4.list[k]
  <2>1. ListStored(m1, c4, l, c)
    BY <1>14, <1>16, <1>17, SetListFacts
  <2>2. QED
    BY <2>1 DEF ListStored
<1>19. QED
  BY <1>2, <1>3, <1>5, <1>8, <1>11, <1>14, <1>16, <1>18 DEF FrontRemoved

\* alloc_desc_buff puts the buffer behind the newest one.
LEMMA HandedFacts ==
    ASSUME NEW m \in Memory, NEW b \in Buffs, NEW m1, m1 = Handed(m, b)
    PROVE  HandedOut(m1, m, b)
<1>1. b \in Nodes /\ Null \in Nodes /\ "buffs" \in Lists
  BY DEF Nodes, Lists
<1>2. PICK c1 : c1 = SetPre(m, b, Null)
  OBVIOUS
<1>3. PreStored(c1, m, b, Null)
  BY <1>1, <1>2, SetPreFacts
<1>4. /\ c1 \in Memory /\ c1.next = m.next /\ c1.list = m.list
      /\ \A y \in Buffs : c1.pre[y] = IF y = b THEN Null ELSE m.pre[y]
  BY <1>3 DEF PreStored
<1>5. PICK c2 : c2 = SetNext(c1, b, Null)
  OBVIOUS
<1>6. NextStored(c2, c1, b, Null)
  BY <1>1, <1>4, <1>5, SetNextFacts
<1>7. /\ c2 \in Memory /\ c2.pre = c1.pre /\ c2.list = c1.list
      /\ \A y \in Buffs : c2.next[y] = IF y = b THEN Null ELSE c1.next[y]
  BY <1>6 DEF NextStored
<1>8. m1 = list_insert_back(c2, "buffs", b)
  BY <1>2, <1>5 DEF Handed
<1>9. Inserted(m1, c2, "buffs", b)
  BY <1>1, <1>6, <1>7, <1>8, InsertFacts
<1>10. QED
  BY <1>1, <1>4, <1>7, <1>9 DEF Inserted, HandedOut

------------------------------------------------------------------------------
(* The search of wait_list.                                                *)

\* A set of numbers that is not empty has a least one.
LEMMA LeastNumber ==
    ASSUME NEW T, T \subseteq Nat, T # {}
    PROVE  \E x \in T : \A y \in T : x <= y
<1>1. \E x \in T : \A y \in T : ~ (<<y, x>> \in OpToRel(<, Nat))
  BY NatLessThanWellFounded, WFMin
<1>2. PICK x \in T : \A y \in T : ~ (<<y, x>> \in OpToRel(<, Nat))
  BY <1>1
<1>3. \A y \in T : ~(y < x)
  BY <1>2 DEF OpToRel
<1>4. x \in T /\ \A y \in T : x <= y
  BY <1>3
<1>5. QED
  BY <1>4

\* A set of numbers that has 0 and the successor of each of its elements.
LEMMA AllNumbers ==
    ASSUME NEW T, T \subseteq Nat, 0 \in T, \A k \in T : k + 1 \in T
    PROVE  T = Nat
<1>1. SUFFICES ASSUME Nat \ T # {}
               PROVE  FALSE
  OBVIOUS
<1>2. PICK n \in Nat \ T : \A y \in Nat \ T : n <= y
  BY <1>1, LeastNumber
<1>3. n - 1 \in Nat /\ n - 1 + 1 = n
  BY <1>2
<1>4. n - 1 \notin Nat \ T
  BY <1>2, <1>3
<1>5. QED
  BY <1>2, <1>3, <1>4

\* Where a link leads, and f with the first n nodes behind node b.
Behind(m, x) == IF x = Null THEN Null ELSE m.next[x]
Steps(m, b, f, n) == f \in [0..n -> Nodes] /\ f[0] = b /\ \A i \in 1..n : f[i] = Behind(m, f[i - 1])

LEMMA BehindNode == ASSUME NEW m \in Memory, NEW x \in Nodes PROVE Behind(m, x) \in Nodes
BY MemoryParts DEF Behind, Nodes

LEMMA StepsExist ==
    ASSUME NEW m \in Memory, NEW b \in Nodes, NEW n \in Nat
    PROVE  \E f : Steps(m, b, f, n)
<1> DEFINE T == {k \in Nat : \E f : Steps(m, b, f, k)}
<1>1. 0 \in T
  <2>1. PICK f : f = [i \in 0..0 |-> b]
    OBVIOUS
  <2>2. Steps(m, b, f, 0)
    BY <2>1 DEF Steps
  <2>3. QED
    BY <2>2
<1>2. ASSUME NEW k \in T
      PROVE  k + 1 \in T
  <2>1. PICK f : Steps(m, b, f, k)
    BY <1>2
  <2>2. f \in [0..k -> Nodes] /\ f[0] = b /\ \A i \in 1..k : f[i] = Behind(m, f[i - 1])
    BY <2>1 DEF Steps
  <2>3. k \in Nat /\ f[k] \in Nodes /\ Behind(m, f[k]) \in Nodes
    BY <2>2, BehindNode
  <2>4. PICK g : g = [i \in 0..k+1 |-> IF i = k + 1 THEN Behind(m, f[k]) ELSE f[i]]
    OBVIOUS
  <2>5. g \in [0..k+1 -> Nodes] /\ g[0] = b
    BY <2>2, <2>3, <2>4
  <2>6. ASSUME NEW i \in 1..k+1
        PROVE  g[i] = Behind(m, g[i - 1])
    <3>1. i - 1 \in 0..k /\ g[i - 1] = f[i - 1]
      BY <2>3, <2>4
    <3>2. CASE i = k + 1
      BY <2>3, <2>4, <3>1, <3>2
    <3>3. CASE i \in 1..k
      BY <2>2, <2>3, <2>4, <3>1, <3>3
    <3>4. QED
      BY <2>3, <3>2, <3>3
  <2>7. Steps(m, b, g, k + 1)
    BY <2>5, <2>6 DEF Steps
  <2>8. QED
    BY <2>3, <2>7
<1>3. T \subseteq Nat
  OBVIOUS
<1>4. \A k \in T : k + 1 \in T
  BY <1>2
<1> HIDE DEF T
<1>5. T = Nat
  BY <1>1, <1>3, <1>4, AllNumbers
<1> USE DEF T
<1>6. QED
  BY <1>5

LEMMA WalkSteps ==
    ASSUME NEW m \in Memory, NEW b \in Nodes
    PROVE  Steps(m, b, Walk(m, b), NBuff)
<1> DEFINE F(f) == f = [i \in 0..NBuff |-> IF i = 0 THEN b ELSE IF f[i - 1] = Null THEN Null ELSE m.next[f[i - 1]]]
<1>1. NBuff \in Nat
  BY Numbers
<1>2. PICK f : Steps(m, b, f, NBuff)
  BY <1>1, StepsExist
<1>3. F(f)
  <2>1. f = [i \in 0..NBuff |-> f[i]]
    BY <1>2 DEF Steps
  <2>2. \A i \in 0..NBuff : f[i] = IF i = 0 THEN b ELSE IF f[i - 1] = Null THEN Null ELSE m.next[f[i - 1]]
    BY <1>1, <1>2 DEF Steps, Behind
  <2>3. QED
    BY <2>1, <2>2
<1>4. PICK g : g = CHOOSE h : F(h)
  OBVIOUS
<1>5. F(g)
  BY <1>3, <1>4
<1>6. Walk(m, b) = g
  BY <1>4 DEF Walk
<1>7. DOMAIN g = 0..NBuff /\ g[0] = b
  BY <1>1, <1>5
<1>8. \A i \in 1..NBuff : g[i] = Behind(m, g[i - 1])
  <2>1. SUFFICES ASSUME NEW i \in 1..NBuff PROVE g[i] = Behind(m, g[i - 1])
    OBVIOUS
  <2>2. i \in 0..NBuff /\ i # 0
    BY <1>1
  <2>3. QED
    BY <1>5, <2>2 DEF Behind
<1> HIDE DEF F
<1>9. \A i \in 0..NBuff : g[i] \in Nodes
  <2> DEFINE T == {k \in Nat : k <= NBuff => g[k] \in Nodes}
  <2>1. 0 \in T /\ T \subseteq Nat
    BY <1>7
  <2>2. ASSUME NEW k \in T
        PROVE  k + 1 \in T
    <3>1. CASE k + 1 <= NBuff
      <4>1. k \in Nat /\ k + 1 \in 1..NBuff /\ (k + 1) - 1 = k /\ g[k] \in Nodes
        BY <1>1, <3>1
      <4>2. g[k + 1] = Behind(m, g[k])
        BY <1>8, <4>1
      <4>3. QED
        BY <4>1, <4>2, BehindNode
    <3>2. QED
      BY <3>1
  <2> HIDE DEF T
  <2>3. T = Nat
    BY <2>1, <2>2, AllNumbers
  <2> USE DEF T
  <2>4. QED
    BY <1>1, <2>3
<1>10. g = [i \in 0..NBuff |-> g[i]]
  <2> USE DEF F
  <2>1. QED
    BY <1>5, <1>7
<1>11. g \in [0..NBuff -> Nodes]
  BY <1>9, <1>10
<1>12. QED
  BY <1>6, <1>7, <1>8, <1>11 DEF Steps

\* The nodes the search comes to.
Seen(m, b) == Range(Walk(m, b)) \ {Null}

\* They are in any set of buffers that holds the first one and that no link leads
\* out of.
LEMMA SeenWithin ==
    ASSUME NEW m \in Memory, NEW b \in Nodes, NEW S, b \in S \cup {Null},
           \A x \in S : m.next[x] \in S \cup {Null}
    PROVE  Seen(m, b) \subseteq S
<1>1. PICK f : f = Walk(m, b)
  OBVIOUS
<1>2. Steps(m, b, f, NBuff) /\ NBuff \in Nat
  BY <1>1, WalkSteps, Numbers
<1> DEFINE T == {k \in Nat : k <= NBuff => f[k] \in S \cup {Null}}
<1>3. 0 \in T /\ T \subseteq Nat
  BY <1>2 DEF Steps
<1>4. ASSUME NEW k \in T
      PROVE  k + 1 \in T
  <2>1. CASE k + 1 <= NBuff
    <3>1. k \in Nat /\ k + 1 \in 1..NBuff /\ (k + 1) - 1 = k /\ f[k] \in S \cup {Null}
      BY <1>2, <2>1
    <3>2. f[k + 1] = Behind(m, f[k])
      BY <1>2, <3>1 DEF Steps
    <3>3. QED
      BY <3>1, <3>2 DEF Behind
  <2>2. QED
    BY <2>1
<1> HIDE DEF T
<1>5. T = Nat
  BY <1>3, <1>4, AllNumbers
<1> USE DEF T
<1>6. \A k \in 0..NBuff : f[k] \in S \cup {Null}
  BY <1>2, <1>5
<1>7. QED
  BY <1>1, <1>2, <1>6 DEF Seen, Range, Steps

\* No link leads out of the nodes the search comes to: if it does not come to an
\* end, it comes to some node twice.
LEMMA SeenClosed ==
    ASSUME NEW m \in Memory, NEW b \in Nodes
    PROVE  /\ Seen(m, b) \subseteq Buffs /\ b \in Seen(m, b) \cup {Null}
           /\ \A x \in Seen(m, b) : m.next[x] \in Seen(m, b) \cup {Null}
<1>1. PICK f : f = Walk(m, b)
  OBVIOUS
<1>2. Steps(m, b, f, NBuff) /\ NBuff \in Nat
  BY <1>1, WalkSteps, Numbers
<1>3. f \in [0..NBuff -> Nodes] /\ f[0] = b /\ \A i \in 1..NBuff : f[i] = Behind(m, f[i - 1])
  BY <1>2 DEF Steps
<1>4. Seen(m, b) = {f[i] : i \in 0..NBuff} \ {Null}
  BY <1>1, <1>3 DEF Seen, Range
<1>5. Seen(m, b) \subseteq Buffs /\ b \in Seen(m, b) \cup {Null}
  BY <1>2, <1>3, <1>4 DEF Nodes
<1>6. ASSUME NEW x \in Seen(m, b)
      PROVE  m.next[x] \in Seen(m, b) \cup {Null}
  <2>1. PICK i \in 0..NBuff : f[i] = x
    BY <1>4, <1>6
  <2>2. x # Null
    BY <1>4, <1>6
  <2>3. CASE i # NBuff
    <3>1. i + 1 \in 1..NBuff /\ (i + 1) - 1 = i
      BY <1>2, <2>3
    <3>2. f[i + 1] = m.next[x]
      BY <1>3, <2>1, <2>2, <3>1 DEF Behind
    <3>3. QED
      BY <1>2, <1>4, <3>1, <3>2
  <2>4. CASE i = NBuff
    <3>1. \A k \in 0..NBuff : f[k] # Null
      <4>1. SUFFICES ASSUME NEW k \in 0..NBuff, f[k] = Null PROVE FALSE
        OBVIOUS
      <4> DEFINE T == {j \in Nat : k + j <= NBuff => f[k + j] = Null}
      <4>2. 0 \in T /\ T \subseteq Nat
        BY <4>1
      <4>3. ASSUME NEW j \in T
            PROVE  j + 1 \in T
        <5>1. CASE k + (j + 1) <= NBuff
          <6>1. j \in Nat /\ k + (j + 1) \in 1..NBuff /\ (k + (j + 1)) - 1 = k + j /\ f[k + j] = Null
            BY <1>2, <5>1
          <6>2. f[k + (j + 1)] = Behind(m, f[k + j])
            BY <1>3, <6>1
          <6>3. QED
            BY <6>1, <6>2 DEF Behind
        <5>2. QED
          BY <5>1
      <4> HIDE DEF T
      <4>4. T = Nat
        BY <4>2, <4>3, AllNumbers
      <4> USE DEF T
      <4>5. NBuff - k \in Nat /\ k + (NBuff - k) = NBuff
        BY <1>2
      <4>6. NBuff - k \in T
        BY <4>4, <4>5
      <4>7. QED
        BY <2>1, <2>2, <2>4, <4>5, <4>6
    <3>2. f \in [0..NBuff -> Buffs]
      BY <1>3, <3>1 DEF Nodes
    <3>3. IsFiniteSet(0..NBuff) /\ Cardinality(0..NBuff) = NBuff + 1
      <4>1. 0 \in Int /\ NBuff \in Int /\ 0 <= NBuff
        BY <1>2
      <4>2. IsFiniteSet(0..NBuff) /\ Cardinality(0..NBuff) = IF 0 > NBuff THEN 0 ELSE NBuff - 0 + 1
        BY <4>1, FS_Interval
      <4>3. QED
        BY <4>1, <4>2
    <3>4. Cardinality(Buffs) < Cardinality(0..NBuff) /\ IsFiniteSet(Buffs)
      BY <1>2, <3>3, Numbers
    <3>5. \E p, q \in 0..NBuff : p # q /\ f[p] = f[q]
      BY <3>2, <3>3, <3>4, FS_PigeonHole
    <3>6. PICK p \in 0..NBuff : \E q \in 0..NBuff : p < q /\ f[p] = f[q]
      BY <1>2, <3>5
    <3>7. PICK q \in 0..NBuff : p < q /\ f[p] = f[q]
      BY <3>6
    <3>8. PICK S : S = {f[k] : k \in 0..q-1}
      OBVIOUS
    <3>9. \A y \in S : m.next[y] \in S
      <4>1. SUFFICES ASSUME NEW y \in S PROVE m.next[y] \in S
        OBVIOUS
      <4>2. PICK k \in 0..q-1 : y = f[k]
        BY <3>8
      <4>3. k + 1 \in 1..NBuff /\ (k + 1) - 1 = k /\ k \in 0..NBuff
        BY <1>2, <3>7, <4>2
      <4>4. f[k + 1] = m.next[y]
        BY <1>3, <3>1, <4>2, <4>3 DEF Behind
      <4>5. CASE k + 1 = q
        <5>1. p \in 0..q-1
          BY <1>2, <3>7
        <5>2. QED
          BY <3>7, <3>8, <4>4, <4>5, <5>1
      <4>6. CASE k + 1 # q
        <5>1. k + 1 \in 0..q-1
          BY <1>2, <3>7, <4>2, <4>6
        <5>2. QED
          BY <3>8, <4>4, <5>1
      <4>7. QED
        BY <4>5, <4>6
    <3>10. b \in S
      <4>1. 0 \in 0..q-1
        BY <1>2, <3>7
      <4>2. QED
        BY <1>3, <3>8, <4>1
    <3>11. Seen(m, b) \subseteq S
      BY <3>9, <3>10, SeenWithin
    <3>12. S \subseteq Seen(m, b)
      <4>1. 0..q-1 \subseteq 0..NBuff
        BY <1>2, <3>7
      <4>2. QED
        BY <1>4, <3>1, <3>8, <4>1
    <3>13. QED
      BY <3>9, <3>11, <3>12
  <2>5. QED
    BY <2>3, <2>4
<1>7. QED
  BY <1>5, <1>6

Search == Waiting \ {Null}

LEMMA SearchClosed ==
    ASSUME Types
    PROVE  /\ Search \subseteq Buffs
           /\ mem.list["wait"].head \in Search \cup {Null} /\ job["netin"].buf \in Search \cup {Null}
           /\ \A x \in Search : mem.next[x] \in Search \cup {Null}
<1>1. mem \in Memory /\ mem.list["wait"].head \in Nodes /\ job["netin"].buf \in Nodes
  <2>1. "wait" \in Lists /\ "netin" \in Actors /\ mem \in Memory /\ job \in [Actors -> Job]
    BY DEF Types, Lists, Actors
  <2>2. QED
    BY <2>1, MemoryParts DEF Job
<1>2. Search = Seen(mem, mem.list["wait"].head) \cup Seen(mem, job["netin"].buf)
  BY DEF Search, Waiting, Seen
<1>3. QED
  BY <1>1, <1>2, SeenClosed

LEMMA SearchWithin ==
    ASSUME Types', NEW S, mem'.list["wait"].head \in S \cup {Null}, job'["netin"].buf \in S \cup {Null},
           \A x \in S : mem'.next[x] \in S \cup {Null}
    PROVE  Search' \subseteq S
<1>1. mem' \in Memory /\ mem'.list["wait"].head \in Nodes /\ job'["netin"].buf \in Nodes
  <2>1. "wait" \in Lists /\ "netin" \in Actors /\ mem' \in Memory /\ job' \in [Actors -> Job]
    BY DEF Types, Lists, Actors
  <2>2. QED
    BY <2>1, MemoryParts DEF Job
<1>2. Search' = Seen(mem', mem'.list["wait"].head) \cup Seen(mem', job'["netin"].buf)
  BY DEF Search, Waiting, Seen
<1>3. QED
  BY <1>1, <1>2, SeenWithin

------------------------------------------------------------------------------
(* The queues.                                                             *)

LEMMA QueueParts ==
    ASSUME NEW q \in Seq(Buffs)
    PROVE  /\ Len(q) \in Nat /\ ToSet(q) \subseteq Buffs
           /\ \A i \in 1..Len(q) : q[i] \in ToSet(q)
           /\ \A y \in ToSet(q) : \E i \in 1..Len(q) : q[i] = y
           /\ q = <<>> <=> Len(q) = 0
           /\ q # <<>> => Last(q) = q[Len(q)] /\ Last(q) \in ToSet(q) /\ q[1] \in ToSet(q)
BY DEF ToSet, Last

\* r is q with b put behind it, and q without its first.
Longer(r, q, b) ==
    /\ r \in Seq(Buffs) /\ Len(r) = Len(q) + 1 /\ r # <<>> /\ Last(r) = b
    /\ ToSet(r) = ToSet(q) \cup {b}
    /\ \A i \in 1..Len(q) : r[i] = q[i]
    /\ r[Len(r)] = b
    /\ Distinct(q) /\ b \notin ToSet(q) => Distinct(r)
Shorter(r, q) ==
    /\ r \in Seq(Buffs) /\ Len(r) = Len(q) - 1 /\ Len(r) \in Nat
    /\ ToSet(r) = ToSet(q) \ {q[1]}
    /\ \A i \in 1..Len(r) : r[i] = q[i + 1]
    /\ r # <<>> => Last(r) = Last(q)
    /\ Distinct(r)

LEMMA Appended ==
    ASSUME NEW q \in Seq(Buffs), NEW b \in Buffs
    PROVE  Longer(Append(q, b), q, b)
<1> DEFINE r == Append(q, b)
<1>1. /\ r \in Seq(Buffs) /\ Len(r) = Len(q) + 1 /\ Len(q) \in Nat
      /\ \A i \in 1..Len(q) : r[i] = q[i]
      /\ r[Len(r)] = b /\ r # <<>>
  BY AppendProperties
<1> HIDE DEF r
<1>2. ToSet(r) = ToSet(q) \cup {b}
  <2>1. \A y \in ToSet(r) : y \in ToSet(q) \cup {b}
    <3>1. SUFFICES ASSUME NEW y \in ToSet(r) PROVE y \in ToSet(q) \cup {b}
      OBVIOUS
    <3>2. PICK i \in 1..Len(r) : r[i] = y
      BY <1>1, QueueParts
    <3>3. i \in 1..Len(q) \/ i = Len(r)
      BY <1>1
    <3>4. QED
      BY <1>1, <3>2, <3>3, QueueParts
  <2>2. \A y \in ToSet(q) : y \in ToSet(r)
    <3>1. SUFFICES ASSUME NEW y \in ToSet(q) PROVE y \in ToSet(r)
      OBVIOUS
    <3>2. PICK i \in 1..Len(q) : q[i] = y
      BY QueueParts
    <3>3. i \in 1..Len(r) /\ r[i] = y
      BY <1>1, <3>2
    <3>4. QED
      BY <1>1, <3>3, QueueParts
  <2>3. b \in ToSet(r)
    <3>1. Len(r) \in 1..Len(r)
      BY <1>1
    <3>2. QED
      BY <1>1, <3>1, QueueParts
  <2>4. QED
    BY <2>1, <2>2, <2>3
<1>3. ASSUME Distinct(q), b \notin ToSet(q), NEW i \in 1..Len(r), NEW j \in 1..Len(r), r[i] = r[j]
      PROVE  i = j
  <2>1. \A k \in 1..Len(q) : q[k] # b
    BY <1>3, QueueParts
  <2>2. CASE i \in 1..Len(q) /\ j \in 1..Len(q)
    BY <1>1, <1>3, <2>2 DEF Distinct
  <2>3. CASE i \notin 1..Len(q) \/ j \notin 1..Len(q)
    BY <1>1, <1>3, <2>1, <2>3
  <2>4. QED
    BY <2>2, <2>3
<1>4. Longer(r, q, b)
  BY <1>1, <1>2, <1>3 DEF Longer, Distinct, Last
<1> USE DEF r
<1>5. QED
  BY <1>4

LEMMA Shortened ==
    ASSUME NEW q \in Seq(Buffs), q # <<>>, Distinct(q)
    PROVE  Shorter(Tail(q), q)
<1> DEFINE r == Tail(q)
<1>1. /\ r \in Seq(Buffs) /\ Len(r) = Len(q) - 1 /\ Len(q) \in Nat \ {0}
      /\ \A i \in 1..Len(r) : r[i] = q[i + 1]
  BY HeadTailProperties, QueueParts
<1> HIDE DEF r
<1>2. \A y \in ToSet(r) : y \in ToSet(q) \ {q[1]}
  <2>1. SUFFICES ASSUME NEW y \in ToSet(r) PROVE y \in ToSet(q) /\ y # q[1]
    OBVIOUS
  <2>2. PICK i \in 1..Len(r) : r[i] = y
    BY <1>1, QueueParts
  <2>3. i + 1 \in 1..Len(q) /\ 1 \in 1..Len(q) /\ i + 1 # 1
    BY <1>1
  <2>4. QED
    BY <1>1, <2>2, <2>3, QueueParts DEF Distinct
<1>3. \A y \in ToSet(q) \ {q[1]} : y \in ToSet(r)
  <2>1. SUFFICES ASSUME NEW y \in ToSet(q), y # q[1] PROVE y \in ToSet(r)
    OBVIOUS
  <2>2. PICK i \in 1..Len(q) : q[i] = y
    BY QueueParts
  <2>3. i # 1
    BY <2>1, <2>2
  <2>4. i - 1 \in 1..Len(r) /\ (i - 1) + 1 = i
    BY <1>1, <2>2, <2>3
  <2>5. r[i - 1] = y
    BY <1>1, <2>2, <2>4
  <2>6. r[i - 1] \in ToSet(r)
    BY <1>1, <2>4, QueueParts
  <2>7. QED
    BY <2>5, <2>6
<1>4. ASSUME r # <<>>
      PROVE  Last(r) = Last(q)
  <2>1. Len(r) \in 1..Len(r) /\ Len(r) + 1 = Len(q)
    BY <1>1, <1>4, QueueParts
  <2>2. QED
    BY <1>1, <2>1 DEF Last
<1>5. Distinct(r)
  <2>1. SUFFICES ASSUME NEW i \in 1..Len(r), NEW j \in 1..Len(r), r[i] = r[j] PROVE i = j
    BY DEF Distinct
  <2>2. i + 1 \in 1..Len(q) /\ j + 1 \in 1..Len(q)
    BY <1>1
  <2>3. q[i + 1] = q[j + 1]
    BY <1>1, <2>1
  <2>4. i + 1 = j + 1
    BY <2>2, <2>3 DEF Distinct
  <2>5. QED
    BY <1>1, <2>4
<1>6. Shorter(r, q)
  BY <1>1, <1>2, <1>3, <1>4, <1>5 DEF Shorter
<1> USE DEF r
<1>7. QED
  BY <1>6

\* What Holds says, of any memory.
Chain(m, l, q) ==
    /\ m.list[l].size = Len(q)
    /\ q # <<>> => m.list[l].head = q[1] /\ m.list[l].tail = Last(q)
    /\ \A i \in 1..Len(q) - 1 : m.next[q[i]] = q[i + 1]

LEMMA HoldsChain == /\ \A l, q : Holds(l, q) <=> Chain(mem, l, q)
                    /\ (Holds("rx", rxq)' <=> Chain(mem', "rx", rxq'))
                    /\ (Holds("tx", txq)' <=> Chain(mem', "tx", txq'))
BY DEF Holds, Chain

\* The link of the last packet does not matter.
LEMMA ChainKept ==
    ASSUME NEW q \in Seq(Buffs), Distinct(q), NEW m, NEW m1, NEW l, Chain(m, l, q),
           m1.list[l] = m.list[l],
           \A y \in ToSet(q) : y = Last(q) \/ m1.next[y] = m.next[y]
    PROVE  Chain(m1, l, q)
<1>1. ASSUME NEW i \in 1..Len(q) - 1
      PROVE  m1.next[q[i]] = q[i + 1]
  <2>1. Len(q) \in Nat /\ i \in 1..Len(q) /\ Len(q) \in 1..Len(q) /\ i # Len(q)
    BY QueueParts
  <2>2. q[i] # Last(q) /\ q[i] \in ToSet(q)
    BY <2>1, QueueParts DEF Distinct, Last
  <2>3. QED
    BY <2>2 DEF Chain
<1>2. QED
  BY <1>1 DEF Chain

LEMMA ChainInsert ==
    ASSUME NEW q \in Seq(Buffs), Distinct(q), NEW b \in Buffs, NEW m, NEW m1, NEW l, Chain(m, l, q),
           m1.list[l].head = IF m.list[l].size = 0 THEN b ELSE m.list[l].head,
           m1.list[l].tail = b, m1.list[l].size = m.list[l].size + 1,
           \A y \in ToSet(q) : m1.next[y] = IF y = Last(q) THEN b ELSE m.next[y]
    PROVE  Chain(m1, l, Append(q, b))
<1>1. PICK r : r = Append(q, b)
  OBVIOUS
<1>2. Longer(r, q, b)
  BY <1>1, Appended
<1>3. /\ r \in Seq(Buffs) /\ Len(r) = Len(q) + 1 /\ r # <<>> /\ Last(r) = b
      /\ \A i \in 1..Len(q) : r[i] = q[i]
      /\ r[Len(r)] = b /\ Len(q) \in Nat
  BY <1>2, QueueParts DEF Longer
<1>4. m1.list[l].size = Len(r)
  BY <1>3 DEF Chain
<1>5. m1.list[l].head = r[1]
  <2>1. CASE q = <<>>
    BY <1>3, <2>1, QueueParts DEF Chain
  <2>2. CASE q # <<>>
    <3>1. 1 \in 1..Len(q) /\ Len(q) # 0
      BY <1>3, <2>2, QueueParts
    <3>2. QED
      BY <1>3, <2>2, <3>1 DEF Chain
  <2>3. QED
    BY <2>1, <2>2
<1>6. ASSUME NEW i \in 1..Len(r) - 1
      PROVE  m1.next[r[i]] = r[i + 1]
  <2>1. i \in 1..Len(q) /\ r[i] = q[i] /\ q[i] \in ToSet(q) /\ q # <<>> /\ Len(q) \in 1..Len(q)
    BY <1>3, QueueParts
  <2>2. CASE i = Len(q)
    BY <1>3, <2>1, <2>2 DEF Last
  <2>3. CASE i # Len(q)
    <3>1. q[i] # Last(q)
      BY <2>1, <2>3 DEF Distinct, Last
    <3>2. i \in 1..Len(q) - 1 /\ i + 1 \in 1..Len(q)
      BY <1>3, <2>1, <2>3
    <3>3. QED
      BY <1>3, <2>1, <3>1, <3>2 DEF Chain
  <2>4. QED
    BY <2>2, <2>3
<1>7. Chain(m1, l, r)
  BY <1>3, <1>4, <1>5, <1>6 DEF Chain
<1>8. QED
  BY <1>1, <1>7

LEMMA ChainRemove ==
    ASSUME NEW q \in Seq(Buffs), Distinct(q), q # <<>>, NEW m, NEW m1, NEW l, Chain(m, l, q),
           m1.list[l].head = m.next[q[1]],
           m1.list[l].tail = IF m.next[q[1]] = Null THEN Null ELSE m.list[l].tail,
           m1.list[l].size = m.list[l].size - 1,
           \A y \in ToSet(q) : y \in {q[1], Last(q)} \/ m1.next[y] = m.next[y]
    PROVE  Chain(m1, l, Tail(q))
<1>1. PICK r : r = Tail(q)
  OBVIOUS
<1>2. Shorter(r, q)
  BY <1>1, Shortened
<1>3. /\ r \in Seq(Buffs) /\ Len(r) = Len(q) - 1 /\ Len(r) \in Nat
      /\ \A i \in 1..Len(r) : r[i] = q[i + 1]
      /\ r # <<>> => Last(r) = Last(q)
  BY <1>2 DEF Shorter
<1>4. m1.list[l].size = Len(r)
  BY <1>3 DEF Chain
<1>5. ASSUME r # <<>>
      PROVE  m1.list[l].head = r[1] /\ m1.list[l].tail = Last(r)
  <2>1. 1 \in 1..Len(r) /\ 1 \in 1..Len(q) - 1
    BY <1>3, <1>5, QueueParts
  <2>2. m.next[q[1]] = q[2] /\ r[1] = q[2]
    BY <1>3, <2>1 DEF Chain
  <2>3. r[1] \in Buffs
    BY <1>3, <2>1
  <2>4. QED
    BY <1>3, <1>5, <2>2, <2>3, Numbers DEF Chain
<1>6. ASSUME NEW i \in 1..Len(r) - 1
      PROVE  m1.next[r[i]] = r[i + 1]
  <2>1. /\ i \in 1..Len(r) /\ i + 1 \in 1..Len(r) /\ 1 \in 1..Len(q) /\ i + 1 # 1
        /\ i + 1 \in 1..Len(q) - 1 /\ i + 1 \in 1..Len(q) /\ Len(q) \in 1..Len(q) /\ i + 1 # Len(q)
    BY <1>3
  <2>2. q[i + 1] # q[1] /\ q[i + 1] # Last(q)
    BY <2>1 DEF Distinct, Last
  <2>3. q[i + 1] \in ToSet(q)
    BY <2>1, QueueParts
  <2>4. m1.next[q[i + 1]] = m.next[q[i + 1]]
    BY <2>2, <2>3
  <2>5. m.next[q[i + 1]] = q[(i + 1) + 1]
    BY <2>1 DEF Chain
  <2>6. QED
    BY <1>3, <2>1, <2>4, <2>5
<1>7. Chain(m1, l, r)
  BY <1>3, <1>4, <1>5, <1>6 DEF Chain
<1>8. QED
  BY <1>1, <1>7

------------------------------------------------------------------------------
(* What the parts of the invariant say together.                           *)

LEMMA JobParts ==
    ASSUME Types
    PROVE  /\ "netin" \in Actors
           /\ \A a \in Actors : /\ job[a] \in Job
                                /\ job[a].pc \in PCs /\ job[a].buf \in Nodes /\ job[a].ask \in Nodes
                                /\ job[a].frees \in BOOLEAN
BY DEF Types, Actors, Job

LEMMA ListNames == "buffs" \in Lists /\ "rx" \in Lists /\ "tx" \in Lists /\ "wait" \in Lists
BY DEF Lists

LEMMA Uses ==
    ASSUME Types, Apart
    PROVE  /\ Receiving \subseteq Buffs /\ Unsent \subseteq Buffs /\ Receiving \cap Unsent = {}
           /\ ToSet(rxq) \subseteq Receiving /\ ToSet(txq) \subseteq Buffs
           /\ \A i \in 0..NRing-1 : ring[i] \in Receiving
           /\ Receiving \cap ToSet(txq) = {} /\ Null \notin Buffs
<1>1. Range(ring) = {ring[i] : i \in 0..NRing-1}
  BY DEF Types, Range
<1>2. Range(ring) \subseteq Buffs /\ ToSet(rxq) \subseteq Buffs /\ ToSet(txq) \subseteq Buffs
  BY <1>1, QueueParts DEF Types
<1>3. Unsent \subseteq Buffs
  BY JobParts DEF Unsent, NotYetWaiting, Nodes
<1>4. Receiving \cap Unsent = {}
  BY DEF Apart, Unsent, NotYetWaiting
<1>5. QED
  BY <1>1, <1>2, <1>3, <1>4, Numbers DEF Receiving, Apart

\* The packet an actor is about to queue, or has just queued.
LEMMA OutgoingIs ==
    ASSUME Types, Apart, Jobs, NEW a \in Actors, job[a].pc \in {"tx", "wait"}, NEW x, x = Outgoing(a)
    PROVE  /\ x \in Buffs /\ x \in Unsent /\ x \notin Receiving
           /\ \/ x = job[a].ask /\ job[a].ask # Null
              \/ x = job[a].buf /\ job[a].ask = Null
           /\ \A c \in Actors : c # a => job[c].buf # x /\ job[c].ask # x
<1>1. job[a].buf # Null
  BY DEF Jobs
<1>2. \/ x = job[a].ask /\ job[a].ask # Null
      \/ x = job[a].buf /\ job[a].ask = Null
  BY DEF Outgoing
<1>3. x \in Unsent
  BY <1>1, <1>2 DEF Unsent, NotYetWaiting
<1>4. x \in Buffs /\ x \notin Receiving
  BY <1>3, Uses
<1>5. \A c \in Actors : c # a => job[c].buf # x /\ job[c].ask # x
  BY <1>1, <1>2 DEF Apart
<1>6. QED
  BY <1>2, <1>3, <1>4, <1>5

------------------------------------------------------------------------------
(* Sending.                                                                *)

LEMMA QueueKeeps ==
    ASSUME Sound, NEW a \in Actors, Queue(a)
    PROVE  Inv'
<1>1. CASE Overlaps
  BY <1>1 DEF Queue, Inv
<1>2. CASE ~Overlaps
  <2>1. /\ Types /\ Apart /\ Jobs /\ Sending /\ Newest /\ LastWaiting /\ BackLinks
        /\ Holds("rx", rxq) /\ Holds("tx", txq)
    BY DEF Sound
  <2>2. PICK x : x = Outgoing(a)
    OBVIOUS
  <2>3. /\ job[a].pc = "tx" /\ mem' = list_insert_back(mem, "tx", x) /\ txq' = Append(txq, x)
        /\ job' = [job EXCEPT ![a] = [job[a] EXCEPT !.pc = "wait"]]
        /\ pkt' = pkt /\ ring' = ring /\ rxNow' = rxNow /\ rxq' = rxq
    BY <2>2 DEF Queue, Goes, card
  <2>4. /\ x \in Buffs /\ x \in Unsent /\ x \notin Receiving
        /\ \/ x = job[a].ask /\ job[a].ask # Null
           \/ x = job[a].buf /\ job[a].ask = Null
        /\ \A c \in Actors : c # a => job[c].buf # x /\ job[c].ask # x
    BY <2>1, <2>2, <2>3, OutgoingIs
  <2>5. mem \in Memory /\ txq \in Seq(Buffs) /\ rxq \in Seq(Buffs) /\ job \in [Actors -> Job]
    BY <2>1 DEF Types
  <2>6. Inserted(mem', mem, "tx", x)
    BY <2>3, <2>4, <2>5, InsertFacts, ListNames
  <2>7. Longer(txq', txq, x)
    BY <2>3, <2>4, <2>5, Appended
  <2>8. \A c \in Actors : /\ job'[c] \in Job
                          /\ job'[c].buf = job[c].buf /\ job'[c].ask = job[c].ask
                          /\ job'[c].pc = IF c = a THEN "wait" ELSE job[c].pc
    BY <2>3, <2>5 DEF Job, PCs
  <2>9. Types'
    <3>1. job' \in [Actors -> Job]
      BY <2>3, <2>5, <2>8
    <3>2. QED
      BY <2>1, <2>3, <2>6, <2>7, <3>1 DEF Types, Inserted, Longer
  <2>10. Receiving' = Receiving
    BY <2>3 DEF Receiving
  <2>11. Unsent' = Unsent
    BY <2>3, <2>8 DEF Unsent, NotYetWaiting
  <2>12. x \notin ToSet(txq)
    BY <2>1, <2>3, <2>4 DEF Sending
  <2>13. Apart'
    BY <2>1, <2>3, <2>4, <2>7, <2>8, <2>10, <2>12 DEF Apart, Longer
  <2>14. Jobs'
    BY <2>1, <2>3, <2>8 DEF Jobs
  <2>15. Sending'
    BY <2>1, <2>2, <2>3, <2>4, <2>7, <2>8, <1>2 DEF Sending, Longer, Outgoing, Overlaps, Jobs, Apart
  <2>16. ToSet(rxq) \cap ToSet(txq) = {} /\ ToSet(rxq) \subseteq Receiving /\ ToSet(rxq) \subseteq Buffs
    BY <2>1, Uses
  <2>17. mem.list["tx"].size # 0 => mem.list["tx"].tail = Last(txq) /\ Last(txq) \in ToSet(txq) /\ txq # <<>>
    BY <2>1, <2>5, QueueParts DEF Holds
  <2>18. Holds("rx", rxq)'
    BY <2>1, <2>3, <2>4, <2>5, <2>6, <2>16, <2>17, HoldsChain, ChainKept, ListNames DEF Inserted, Apart
  <2>19. Holds("tx", txq)'
    <3>1. /\ mem'.list["tx"].head = IF mem.list["tx"].size = 0 THEN x ELSE mem.list["tx"].head
          /\ mem'.list["tx"].tail = x /\ mem'.list["tx"].size = mem.list["tx"].size + 1
      BY <2>6 DEF Inserted
    <3>2. \A y \in ToSet(txq) : mem'.next[y] = IF y = Last(txq) THEN x ELSE mem.next[y]
      BY <2>1, <2>5, <2>6, <2>12, <2>17, QueueParts DEF Inserted, Holds
    <3>3. Chain(mem, "tx", txq) /\ Distinct(txq)
      BY <2>1, HoldsChain DEF Apart
    <3>4. Chain(mem', "tx", Append(txq, x))
      BY <2>4, <2>5, <3>1, <3>2, <3>3, ChainInsert
    <3>5. QED
      BY <2>3, <3>4, HoldsChain
  <2>20. Newest'
    BY <2>1, <2>3, <2>6, <2>8, JobParts, ListNames DEF Newest, Inserted
  <2>21. LastWaiting'
    BY <2>1, <2>3, <2>4, <2>5, <2>6, <2>7, <2>8, <2>10, <2>11, <1>2, ListNames, QueueParts
       DEF LastWaiting, Inserted, Longer, Overlaps
  <2>22. Search' \subseteq Search \cup {x}
    <3>1. PICK S : S = Search \cup {x}
      OBVIOUS
    <3>2. mem'.list["wait"].head \in S \cup {Null} /\ job'["netin"].buf \in S \cup {Null}
      BY <2>1, <2>6, <2>8, <3>1, SearchClosed, JobParts, ListNames DEF Inserted
    <3>3. \A y \in S : mem'.next[y] \in S \cup {Null}
      BY <2>1, <2>4, <2>6, <3>1, SearchClosed DEF Inserted
    <3>4. QED
      BY <2>9, <3>1, <3>2, <3>3, SearchWithin
  <2>23. BackLinks'
    BY <2>1, <2>3, <2>4, <2>6, <2>7, <2>10, <2>11, <2>22, SearchClosed DEF BackLinks, BackLink, Search, Inserted, Longer
  <2>24. QED
    BY <2>9, <2>13, <2>14, <2>15, <2>18, <2>19, <2>20, <2>21, <2>23 DEF Inv, Sound
<1>3. QED
  BY <1>1, <1>2

LEMMA AwaitKeeps ==
    ASSUME Sound, NEW a \in Actors, Await(a)
    PROVE  Inv'
<1>1. /\ Types /\ Apart /\ Jobs /\ Sending /\ Newest /\ LastWaiting /\ BackLinks
      /\ Holds("rx", rxq) /\ Holds("tx", txq)
  BY DEF Sound
<1>2. PICK x : x = Outgoing(a)
  OBVIOUS
<1>3. PICK k : k = IF job[a].ask # Null THEN [job[a] EXCEPT !.pc = "asking"]
                   ELSE IF a # "netin" THEN [job[a] EXCEPT !.pc = "poll"]
                   ELSE IF job[a].frees THEN [job[a] EXCEPT !.pc = "free"]
                   ELSE [NoJob EXCEPT !.pc = "loop"]
  OBVIOUS
<1>4. /\ job[a].pc = "wait" /\ mem' = list_insert_back(mem, "wait", x)
      /\ job' = [job EXCEPT ![a] = k]
      /\ pkt' = pkt /\ ring' = ring /\ rxNow' = rxNow /\ rxq' = rxq /\ txq' = txq
  BY <1>2, <1>3 DEF Await, Goes, card, queues
<1>5. /\ x \in Buffs /\ x \in Unsent /\ x \notin Receiving
      /\ \/ x = job[a].ask /\ job[a].ask # Null
         \/ x = job[a].buf /\ job[a].ask = Null
      /\ \A c \in Actors : c # a => job[c].buf # x /\ job[c].ask # x
  BY <1>1, <1>2, <1>4, OutgoingIs
<1>6. mem \in Memory /\ txq \in Seq(Buffs) /\ rxq \in Seq(Buffs) /\ job \in [Actors -> Job]
  BY <1>1 DEF Types
<1>7. Inserted(mem', mem, "wait", x)
  BY <1>4, <1>5, <1>6, InsertFacts, ListNames
<1>8. /\ k \in Job /\ k.buf \in {job[a].buf, Null} /\ k.ask = job[a].ask
      /\ job[a].ask # Null => k.pc = "asking" /\ k.buf = job[a].buf
      /\ job[a].ask = Null => \/ k.pc \in {"poll", "free"} /\ k.buf = job[a].buf
                              \/ k.pc = "loop" /\ k.buf = Null
  <2>1. job[a] \in Job /\ Null \in Nodes
    BY <1>6 DEF Nodes
  <2>2. QED
    BY <1>3, <2>1 DEF Job, PCs, NoJob
<1>9. \A c \in Actors : job'[c] = IF c = a THEN k ELSE job[c]
  BY <1>4, <1>6
<1>10. Types'
  <2>1. job' \in [Actors -> Job]
    BY <1>4, <1>6, <1>8
  <2>2. QED
    BY <1>1, <1>4, <1>7, <2>1 DEF Types, Inserted
<1>11. Receiving' = Receiving
  BY <1>4 DEF Receiving
<1>12. Unsent' = Unsent \ {x}
  <2>1. Unsent' \subseteq Unsent
    BY <1>4, <1>8, <1>9 DEF Unsent, NotYetWaiting
  <2>2. x \notin Unsent'
    BY <1>1, <1>4, <1>5, <1>8, <1>9 DEF Unsent, NotYetWaiting, Apart
  <2>3. \A y \in Unsent \ {x} : y \in Unsent'
    BY <1>4, <1>5, <1>8, <1>9 DEF Unsent, NotYetWaiting
  <2>4. QED
    BY <2>1, <2>2, <2>3
<1>13. txq # <<>> => Last(txq) = x
  BY <1>1, <1>2, <1>4 DEF Sending
<1>14. Apart'
  <2>1. \A c \in Actors : job'[c].buf \in {job[c].buf, Null} /\ job'[c].ask = job[c].ask
    BY <1>8, <1>9
  <2>2. Null \notin Receiving
    BY <1>1, Uses
  <2>3. QED
    BY <1>1, <1>4, <1>11, <2>1, <2>2 DEF Apart
<1>15. Jobs'
  BY <1>1, <1>4, <1>8, <1>9 DEF Jobs
<1>16. Sending'
  BY <1>1, <1>4, <1>8, <1>9 DEF Sending, Outgoing
<1>17. mem.list["wait"].tail \notin Receiving
  BY <1>1 DEF LastWaiting
<1>18. \A y \in ToSet(rxq) : mem'.next[y] = mem.next[y]
  BY <1>1, <1>5, <1>7, <1>17, Uses DEF Inserted
<1>19. Holds("rx", rxq)'
  BY <1>1, <1>4, <1>6, <1>7, <1>18, HoldsChain, ChainKept, ListNames DEF Inserted, Apart
<1>20. \A i \in 1..Len(txq) - 1 : mem'.next[txq[i]] = txq[i + 1]
  <2>1. SUFFICES ASSUME NEW i \in 1..Len(txq) - 1 PROVE mem'.next[txq[i]] = txq[i + 1]
    OBVIOUS
  <2>2. Len(txq) \in Nat /\ i \in 1..Len(txq) /\ Len(txq) \in 1..Len(txq) /\ i # Len(txq)
        /\ txq # <<>> /\ txq[i] \in Buffs
    BY <1>6, QueueParts
  <2>3. txq[Len(txq)] = x
    BY <1>6, <1>13, <2>2, QueueParts
  <2>4. txq[i] # x
    BY <1>1, <2>2, <2>3 DEF Apart, Distinct
  <2>5. mem.next[txq[i]] = txq[i + 1]
    BY <1>1 DEF Holds
  <2>6. CASE txq[i] = mem.list["wait"].tail
    <3>1. i = Len(txq) - 1
      BY <1>1, <2>2, <2>6 DEF LastWaiting
    <3>2. txq[i + 1] = x
      BY <2>2, <2>3, <3>1
    <3>3. QED
      BY <1>7, <2>2, <2>4, <2>5, <3>2 DEF Inserted
  <2>7. CASE txq[i] # mem.list["wait"].tail
    BY <1>7, <2>2, <2>4, <2>5, <2>7 DEF Inserted
  <2>8. QED
    BY <2>6, <2>7
<1>21. Holds("tx", txq)'
  BY <1>1, <1>4, <1>7, <1>20, ListNames DEF Holds, Inserted
<1>22. Newest'
  BY <1>1, <1>4, <1>7, <1>8, <1>9, JobParts, ListNames DEF Newest, Inserted
<1>23. LastWaiting'
  <2>1. mem'.list["wait"].tail = x
    BY <1>7 DEF Inserted
  <2>2. ASSUME NEW i \in 1..Len(txq), txq[i] = x
        PROVE  i = Len(txq)
    <3>1. Len(txq) \in Nat /\ Len(txq) \in 1..Len(txq) /\ txq # <<>>
      BY <1>6, QueueParts
    <3>2. txq[Len(txq)] = x
      BY <1>6, <1>13, <3>1, QueueParts
    <3>3. QED
      BY <1>1, <2>2, <3>1, <3>2 DEF Apart, Distinct
  <2>3. QED
    BY <1>4, <1>5, <1>11, <1>12, <2>1, <2>2 DEF LastWaiting
<1>24. Search' \subseteq Search \cup {x}
  <2>1. PICK S : S = Search \cup {x}
    OBVIOUS
  <2>2. mem'.list["wait"].head \in S \cup {Null} /\ job'["netin"].buf \in S \cup {Null}
    BY <1>1, <1>7, <1>8, <1>9, <2>1, SearchClosed, JobParts, ListNames DEF Inserted
  <2>3. \A y \in S : mem'.next[y] \in S \cup {Null}
    BY <1>1, <1>5, <1>7, <2>1, SearchClosed DEF Inserted
  <2>4. QED
    BY <1>10, <2>1, <2>2, <2>3, SearchWithin
<1>25. BackLinks'
  <2>1. SUFFICES ASSUME NEW y \in Search', y \notin Receiving' \cup Unsent'
                 PROVE  BackLink(y)'
    BY DEF BackLinks, Search
  <2>2. CASE y = x
    <3>1. mem'.pre[y] = mem.list["wait"].tail /\ mem.list["wait"].tail \notin Receiving \cup Unsent
      BY <1>1, <1>5, <1>7, <2>2 DEF Inserted, LastWaiting
    <3>2. mem.list["wait"].tail \in ToSet(txq) => x \in ToSet(txq)
      BY <1>6, <1>13, QueueParts DEF ToSet
    <3>3. QED
      BY <1>4, <1>5, <1>11, <1>12, <2>2, <3>1, <3>2 DEF BackLink
  <2>3. CASE y # x
    <3>1. y \in Search /\ y \in Buffs /\ y \notin Receiving \cup Unsent /\ mem'.pre[y] = mem.pre[y]
      BY <1>1, <1>7, <1>11, <1>12, <1>24, <2>1, <2>3, SearchClosed DEF Inserted
    <3>2. BackLink(y)
      BY <1>1, <3>1 DEF BackLinks, Search
    <3>3. QED
      BY <1>4, <1>11, <1>12, <3>1, <3>2 DEF BackLink
  <2>4. QED
    BY <2>2, <2>3
<1>26. QED
  BY <1>10, <1>14, <1>15, <1>16, <1>19, <1>21, <1>22, <1>23, <1>25 DEF Inv, Sound

\* Steps of an actor that leave every buffer where it is.
LEMMA JobKeeps ==
    ASSUME Sound, NEW a \in Actors, NEW k, job' = [job EXCEPT ![a] = k],
           mem' = mem, pkt' = pkt, ring' = ring, rxNow' = rxNow, rxq' = rxq, txq' = txq,
           \/ job[a].pc = "build" /\ k = [job[a] EXCEPT !.pc = "tx"]
           \/ job[a].pc = "asking" /\ k = [job[a] EXCEPT !.pc = "tx", !.ask = Null]
           \/ job[a].pc = "poll" /\ k = NoJob
    PROVE  Sound'
<1>1. /\ Types /\ Apart /\ Jobs /\ Sending /\ Newest /\ LastWaiting /\ BackLinks
      /\ Holds("rx", rxq) /\ Holds("tx", txq)
  BY DEF Sound
<1>2. job \in [Actors -> Job] /\ job[a] \in Job /\ Null \in Nodes
  BY <1>1 DEF Types, Nodes
<1>3. /\ k \in Job /\ k.buf \in {job[a].buf, Null} /\ k.ask \in {job[a].ask, Null}
      /\ \/ job[a].pc = "build" /\ k.pc = "tx" /\ k.buf = job[a].buf /\ k.ask = Null
         \/ job[a].pc = "asking" /\ k.pc = "tx" /\ k.buf = job[a].buf /\ k.ask = Null
         \/ job[a].pc = "poll" /\ k.pc = "idle" /\ k.buf = Null /\ k.ask = Null
  <2>1. CASE job[a].pc = "build" /\ k = [job[a] EXCEPT !.pc = "tx"]
    <3>1. job[a].ask = Null
      BY <1>1, <2>1 DEF Jobs
    <3>2. k \in Job /\ k.pc = "tx" /\ k.buf = job[a].buf /\ k.ask = job[a].ask
      BY <1>2, <2>1 DEF Job, PCs
    <3>3. QED
      BY <2>1, <3>1, <3>2
  <2>2. CASE job[a].pc = "asking" /\ k = [job[a] EXCEPT !.pc = "tx", !.ask = Null]
    <3>1. k \in Job /\ k.pc = "tx" /\ k.buf = job[a].buf /\ k.ask = Null
      BY <1>2, <2>2 DEF Job, PCs
    <3>2. QED
      BY <2>2, <3>1
  <2>3. CASE job[a].pc = "poll" /\ k = NoJob
    <3>1. k \in Job /\ k.pc = "idle" /\ k.buf = Null /\ k.ask = Null
      BY <1>2, <2>3 DEF Job, PCs, NoJob
    <3>2. QED
      BY <2>3, <3>1
  <2>4. QED
    BY <2>1, <2>2, <2>3
<1>4. \A c \in Actors : job'[c] = IF c = a THEN k ELSE job[c]
  BY <1>2
<1>5. Types'
  <2>1. job' \in [Actors -> Job]
    BY <1>2, <1>3
  <2>2. QED
    BY <1>1, <2>1 DEF Types
<1>6. Receiving' = Receiving /\ Null \notin Receiving /\ Null \notin ToSet(txq)
  BY <1>1, Uses DEF Receiving
<1>7. Unsent' = Unsent
  BY <1>1, <1>3, <1>4 DEF Unsent, NotYetWaiting, Jobs
<1>8. Apart'
  <2>1. \A c \in Actors : job'[c].buf \in {job[c].buf, Null} /\ job'[c].ask \in {job[c].ask, Null}
    BY <1>3, <1>4
  <2>2. QED
    BY <1>1, <1>6, <2>1 DEF Apart
<1>9. Jobs'
  BY <1>1, <1>3, <1>4 DEF Jobs
<1>10. Sending'
  BY <1>1, <1>3, <1>4, <1>6 DEF Sending, Outgoing
<1>11. Holds("rx", rxq)' /\ Holds("tx", txq)'
  BY <1>1 DEF Holds
<1>12. Newest'
  BY <1>1, <1>3, <1>4, JobParts DEF Newest
<1>13. LastWaiting'
  BY <1>1, <1>3, <1>4, <1>6, <1>7 DEF LastWaiting
<1>14. Search' \subseteq Search
  <2>1. PICK S : S = Search
    OBVIOUS
  <2>2. mem'.list["wait"].head \in S \cup {Null} /\ job'["netin"].buf \in S \cup {Null}
    BY <1>1, <1>3, <1>4, <2>1, SearchClosed, JobParts
  <2>3. \A y \in S : mem'.next[y] \in S \cup {Null}
    BY <1>1, <2>1, SearchClosed
  <2>4. QED
    BY <1>5, <2>1, <2>2, <2>3, SearchWithin
<1>15. BackLinks'
  BY <1>1, <1>6, <1>7, <1>14 DEF BackLinks, BackLink, Search
<1>16. QED
  BY <1>5, <1>8, <1>9, <1>10, <1>11, <1>12, <1>13, <1>15 DEF Sound

LEMMA NetOutKeeps ==
    ASSUME Sound, mem.list["tx"].head # Null, mem.list["tx"].size > 0,
           mem' = list_remove_front(mem, "tx"), txq' = Tail(txq),
           job' = job, pkt' = pkt, ring' = ring, rxNow' = rxNow, rxq' = rxq
    PROVE  Sound'
<1>1. /\ Types /\ Apart /\ Jobs /\ Sending /\ Newest /\ LastWaiting /\ BackLinks
      /\ Holds("rx", rxq) /\ Holds("tx", txq)
  BY DEF Sound
<1>2. mem \in Memory /\ txq \in Seq(Buffs) /\ rxq \in Seq(Buffs)
  BY <1>1 DEF Types
<1>3. FrontRemoved(mem', mem, "tx")
  BY <1>2, RemoveFrontFacts, ListNames
<1>4. txq # <<>> /\ mem.list["tx"].head = txq[1] /\ txq[1] \in ToSet(txq) /\ txq[1] \in Buffs
  BY <1>1, <1>2, QueueParts DEF Holds
<1>5. Shorter(txq', txq)
  BY <1>1, <1>2, <1>4, Shortened DEF Apart
<1>6. PICK h \in Buffs : h = txq[1]
  BY <1>4
<1>7. /\ \A y \in Buffs : mem'.pre[y] \in {mem.pre[y], Null} /\ mem'.next[y] \in {mem.next[y], Null}
      /\ \A y \in Buffs : y # h => mem'.next[y] = mem.next[y]
      /\ mem'.pre[h] = Null
  BY <1>3, <1>4, <1>6 DEF FrontRemoved
<1>8. Types'
  BY <1>1, <1>3, <1>5 DEF Types, FrontRemoved, Shorter
<1>9. Receiving' = Receiving /\ Unsent' = Unsent /\ ToSet(txq') = ToSet(txq) \ {h}
  BY <1>5, <1>6 DEF Receiving, Unsent, NotYetWaiting, Shorter
<1>10. Apart'
  BY <1>1, <1>5, <1>9 DEF Apart, Shorter
<1>11. Jobs'
  BY <1>1 DEF Jobs
<1>12. Sending'
  BY <1>1, <1>4, <1>5, <1>9 DEF Sending, Outgoing, Shorter
<1>13. Holds("rx", rxq)'
  <2>1. \A y \in ToSet(rxq) : mem'.next[y] = mem.next[y]
    BY <1>1, <1>4, <1>6, <1>7, Uses
  <2>2. QED
    BY <1>1, <1>2, <1>3, <2>1, HoldsChain, ChainKept, ListNames DEF FrontRemoved, Apart
<1>14. Holds("tx", txq)'
  <2>1. /\ mem'.list["tx"].head = mem.next[txq[1]]
        /\ mem'.list["tx"].tail = IF mem.next[txq[1]] = Null THEN Null ELSE mem.list["tx"].tail
        /\ mem'.list["tx"].size = mem.list["tx"].size - 1
    BY <1>3, <1>4 DEF FrontRemoved
  <2>2. \A y \in ToSet(txq) : y \in {txq[1], Last(txq)} \/ mem'.next[y] = mem.next[y]
    BY <1>1, <1>6, <1>7, Uses
  <2>3. Chain(mem, "tx", txq) /\ Distinct(txq)
    BY <1>1, HoldsChain DEF Apart
  <2>4. Chain(mem', "tx", Tail(txq))
    BY <1>2, <1>4, <2>1, <2>2, <2>3, ChainRemove
  <2>5. QED
    BY <2>4, HoldsChain
<1>15. Newest'
  BY <1>1, <1>3, ListNames DEF Newest, FrontRemoved
<1>16. LastWaiting'
  <2>1. mem'.list["wait"] = mem.list["wait"]
    BY <1>3, ListNames DEF FrontRemoved
  <2>2. ASSUME NEW i \in 1..Len(txq'), txq'[i] = mem.list["wait"].tail
        PROVE  i = Len(txq') \/ (i = Len(txq') - 1 /\ \E a \in Actors : job[a].pc = "wait")
    <3>1. i + 1 \in 1..Len(txq) /\ txq[i + 1] = mem.list["wait"].tail /\ Len(txq') = Len(txq) - 1
          /\ Len(txq) \in Nat
      BY <1>2, <1>5, <2>2, QueueParts DEF Shorter
    <3>2. i + 1 = Len(txq) \/ (i + 1 = Len(txq) - 1 /\ \E a \in Actors : job[a].pc = "wait")
      BY <1>1, <3>1 DEF LastWaiting
    <3>3. QED
      BY <3>1, <3>2
  <2>3. QED
    BY <1>1, <1>9, <2>1, <2>2 DEF LastWaiting
<1>17. Search' \subseteq Search
  <2>1. PICK S : S = Search
    OBVIOUS
  <2>2. mem'.list["wait"].head \in S \cup {Null} /\ job'["netin"].buf \in S \cup {Null}
    BY <1>1, <1>3, <2>1, SearchClosed, JobParts, ListNames DEF FrontRemoved
  <2>3. \A y \in S : mem'.next[y] \in S \cup {Null}
    BY <1>1, <1>7, <2>1, SearchClosed
  <2>4. QED
    BY <1>8, <2>1, <2>2, <2>3, SearchWithin
<1>18. BackLinks'
  <2>1. SUFFICES ASSUME NEW y \in Search', y \notin Receiving' \cup Unsent'
                 PROVE  BackLink(y)'
    BY DEF BackLinks, Search
  <2>2. y \in Buffs /\ BackLink(y)
    BY <1>1, <1>9, <1>17, <2>1, SearchClosed DEF BackLinks, Search
  <2>3. Null \notin Receiving \cup Unsent \cup ToSet(txq)
    BY <1>1, Uses
  <2>4. QED
    BY <1>7, <1>9, <2>2, <2>3 DEF BackLink
<1>19. QED
  BY <1>8, <1>10, <1>11, <1>12, <1>13, <1>14, <1>15, <1>16, <1>18 DEF Sound

------------------------------------------------------------------------------
(* A new buffer.                                                           *)

LEMMA Unused ==
    ASSUME NEW b, b \notin InUse
    PROVE  /\ b \notin Search /\ \A y \in Search : mem.pre[y] # b
           /\ b # mem.list["wait"].tail /\ b \notin Receiving /\ b \notin ToSet(txq)
           /\ \A a \in Actors : job[a].buf # b /\ job[a].ask # b
           /\ b \notin Unsent
BY DEF InUse, Search, Receiving, Unsent, NotYetWaiting

\* For the packet of a task: a ping, or the question for an address.
LEMMA NewPacketKeeps ==
    ASSUME Sound, NEW a \in Actors, NEW b \in Buffs, b \notin InUse, ~AllocCuts,
           mem' = Handed(mem, b), NEW p \in Packet, pkt' = [pkt EXCEPT ![b] = p],
           NEW k, job' = [job EXCEPT ![a] = k],
           ring' = ring, rxNow' = rxNow, rxq' = rxq, txq' = txq,
           \/ a # "netin" /\ job[a].pc = "idle" /\ k = [NoJob EXCEPT !.pc = "build", !.buf = b]
           \/ job[a].pc = "build" /\ k = [job[a] EXCEPT !.pc = "tx", !.ask = b]
    PROVE  Sound'
<1>1. /\ Types /\ Apart /\ Jobs /\ Sending /\ Newest /\ LastWaiting /\ BackLinks
      /\ Holds("rx", rxq) /\ Holds("tx", txq)
  BY DEF Sound
<1>2. /\ mem \in Memory /\ txq \in Seq(Buffs) /\ rxq \in Seq(Buffs)
      /\ job \in [Actors -> Job] /\ job[a] \in Job /\ Null \in Nodes /\ b \in Nodes
  BY <1>1 DEF Types, Nodes
<1>3. HandedOut(mem', mem, b)
  BY <1>2, HandedFacts
<1>4. /\ b \notin Search /\ \A y \in Search : mem.pre[y] # b
      /\ b # mem.list["wait"].tail /\ b \notin Receiving /\ b \notin ToSet(txq)
      /\ \A c \in Actors : job[c].buf # b /\ job[c].ask # b
      /\ b \notin Unsent
  BY Unused
<1>5. /\ k \in Job /\ b # Null
      /\ \/ a # "netin" /\ job[a].pc = "idle" /\ k.pc = "build" /\ k.buf = b /\ k.ask = Null
         \/ job[a].pc = "build" /\ k.pc = "tx" /\ k.buf = job[a].buf /\ k.ask = b
  <2>1. b # Null
    BY Numbers
  <2>2. CASE a # "netin" /\ job[a].pc = "idle" /\ k = [NoJob EXCEPT !.pc = "build", !.buf = b]
    <3>1. k \in Job /\ k.pc = "build" /\ k.buf = b /\ k.ask = Null
      BY <1>2, <2>2 DEF Job, PCs, NoJob
    <3>2. QED
      BY <2>1, <2>2, <3>1
  <2>3. CASE job[a].pc = "build" /\ k = [job[a] EXCEPT !.pc = "tx", !.ask = b]
    <3>1. k \in Job /\ k.pc = "tx" /\ k.buf = job[a].buf /\ k.ask = b
      BY <1>2, <2>3 DEF Job, PCs
    <3>2. QED
      BY <2>1, <2>3, <3>1
  <2>4. QED
    BY <2>2, <2>3
<1>6. \A c \in Actors : job'[c] = IF c = a THEN k ELSE job[c]
  BY <1>2
<1>7. Types'
  <2>1. job' \in [Actors -> Job]
    BY <1>2, <1>5
  <2>2. pkt' \in [Buffs -> Packet]
    BY <1>1 DEF Types
  <2>3. QED
    BY <1>1, <1>3, <2>1, <2>2 DEF Types, HandedOut
<1>8. Receiving' = Receiving /\ Null \notin Receiving /\ Null \notin ToSet(txq) /\ Receiving \subseteq Buffs
  BY <1>1, Uses DEF Receiving
<1>9. Unsent' = Unsent \cup {b}
  <2>1. \A c \in Actors : /\ job[c].pc \in {"build", "tx", "wait", "asking"} => job[c].buf \in Unsent \cup {Null}
                          /\ job[c].pc \in {"tx", "wait"} => job[c].ask \in Unsent \cup {Null}
    BY DEF Unsent, NotYetWaiting
  <2>2. Unsent' \subseteq Unsent \cup {b}
    BY <1>5, <1>6, <2>1 DEF Unsent, NotYetWaiting
  <2>3. b \in Unsent'
    BY <1>5, <1>6 DEF Unsent, NotYetWaiting
  <2>4. \A y \in Unsent : y \in Unsent'
    <3>1. SUFFICES ASSUME NEW y \in Unsent PROVE y \in Unsent'
      OBVIOUS
    <3>2. PICK c \in Actors : \/ job[c].pc \in {"build", "tx", "wait", "asking"} /\ y = job[c].buf
                              \/ job[c].pc \in {"tx", "wait"} /\ y = job[c].ask
      BY <3>1 DEF Unsent, NotYetWaiting
    <3>3. y # Null
      BY <3>1 DEF Unsent
    <3>4. \/ job'[c].pc \in {"build", "tx", "wait", "asking"} /\ y = job'[c].buf
          \/ job'[c].pc \in {"tx", "wait"} /\ y = job'[c].ask
      BY <1>5, <1>6, <3>2
    <3>5. QED
      BY <3>3, <3>4 DEF Unsent, NotYetWaiting
  <2>5. QED
    BY <2>2, <2>3, <2>4
<1>10. Apart'
  <2>1. \A c \in Actors : job'[c].buf \in {job[c].buf, b} /\ job'[c].ask \in {job[c].ask, b, Null}
    BY <1>5, <1>6
  <2>2. \A c \in Actors : job'[c].buf \notin Receiving /\ job'[c].ask \notin Receiving
    BY <1>1, <1>4, <1>8, <2>1 DEF Apart
  <2>3. \A c \in Receiving : pkt'[c].kind = "none"
    BY <1>1, <1>4, <1>8 DEF Apart, Types
  <2>4. ASSUME NEW c \in Actors, NEW d \in Actors
        PROVE  /\ job'[c].buf # Null => job'[c].buf # job'[d].ask /\ (c # d => job'[c].buf # job'[d].buf)
               /\ job'[c].ask # Null /\ c # d => job'[c].ask # job'[d].ask
    <3>1. job[a].pc = "build" => job[a].ask = Null
      BY <1>1 DEF Jobs
    <3>2. CASE c = a /\ d = a
      BY <1>4, <1>5, <1>6, <3>2
    <3>3. CASE c = a /\ d # a
      BY <1>1, <1>4, <1>5, <1>6, <3>3 DEF Apart
    <3>4. CASE c # a /\ d = a
      BY <1>1, <1>4, <1>5, <1>6, <3>4 DEF Apart
    <3>5. CASE c # a /\ d # a
      BY <1>1, <1>6, <3>5 DEF Apart
    <3>6. QED
      BY <3>2, <3>3, <3>4, <3>5
  <2>5. QED
    BY <1>1, <1>8, <2>2, <2>3, <2>4 DEF Apart
<1>11. Jobs'
  BY <1>1, <1>5, <1>6 DEF Jobs
<1>12. Sending'
  BY <1>1, <1>4, <1>5, <1>6 DEF Sending, Outgoing
<1>13. Holds("rx", rxq)'
  <2>1. \A y \in ToSet(rxq) : mem'.next[y] = mem.next[y]
    BY <1>1, <1>3, <1>4, Uses DEF HandedOut, Newest
  <2>2. QED
    BY <1>1, <1>2, <1>3, <2>1, HoldsChain, ChainKept, ListNames DEF HandedOut, Apart
<1>14. Holds("tx", txq)'
  <2>1. \A y \in ToSet(txq) : y = Last(txq) \/ mem'.next[y] = mem.next[y]
    BY <1>1, <1>3, <1>4, Uses DEF HandedOut, AllocCuts
  <2>2. QED
    BY <1>1, <1>2, <1>3, <2>1, HoldsChain, ChainKept, ListNames DEF HandedOut, Apart
<1>15. Newest'
  <2>1. mem'.list["buffs"].tail = b /\ b \notin ToSet(rxq)
    BY <1>1, <1>3, <1>4, Uses DEF HandedOut
  <2>2. job'["netin"].buf # b
    BY <1>4, <1>5, <1>6, <1>1, JobParts
  <2>3. QED
    BY <1>5, <2>1, <2>2 DEF Newest
<1>16. LastWaiting'
  <2>1. mem'.list["wait"] = mem.list["wait"]
    BY <1>3, ListNames DEF HandedOut
  <2>2. \A c \in Actors : job[c].pc = "wait" => job'[c].pc = "wait"
    BY <1>5, <1>6
  <2>3. QED
    BY <1>1, <1>4, <1>8, <1>9, <2>1, <2>2 DEF LastWaiting
<1>17. Search' \subseteq Search \cup {b}
  <2>1. PICK S : S = Search \cup {b}
    OBVIOUS
  <2>2. mem'.list["wait"].head \in S \cup {Null} /\ job'["netin"].buf \in S \cup {Null}
    BY <1>1, <1>3, <1>5, <1>6, <2>1, SearchClosed, JobParts, ListNames DEF HandedOut
  <2>3. \A y \in S : mem'.next[y] \in S \cup {Null}
    BY <1>1, <1>3, <2>1, SearchClosed DEF HandedOut
  <2>4. QED
    BY <1>7, <2>1, <2>2, <2>3, SearchWithin
<1>18. BackLinks'
  <2>1. SUFFICES ASSUME NEW y \in Search', y \notin Receiving' \cup Unsent'
                 PROVE  BackLink(y)'
    BY DEF BackLinks, Search
  <2>2. y \in Search /\ y \in Buffs /\ y # b /\ y \notin Receiving \cup Unsent
    BY <1>1, <1>8, <1>9, <1>17, <2>1, SearchClosed
  <2>3. mem'.pre[y] = mem.pre[y] /\ mem.pre[y] # b
    BY <1>3, <1>4, <2>2 DEF HandedOut
  <2>4. BackLink(y)
    BY <1>1, <2>2 DEF BackLinks, Search
  <2>5. QED
    BY <1>8, <1>9, <2>3, <2>4 DEF BackLink
<1>19. QED
  BY <1>7, <1>10, <1>11, <1>12, <1>13, <1>14, <1>15, <1>16, <1>18 DEF Sound

\* For the descriptor whose buffer the card has filled.
LEMMA ReceiveKeeps ==
    ASSUME Sound, NEW g \in Buffs, g \notin InUse, ~AllocCuts,
           NEW b, b = ring[rxNow], mem' = Handed(list_insert_back(mem, "rx", b), g),
           ring' = [ring EXCEPT ![rxNow] = g], pkt' = [pkt EXCEPT ![g] = NoPacket],
           rxq' = Append(rxq, b), rxNow' = (rxNow + 1) % NRing, job' = job, txq' = txq
    PROVE  Sound'
<1>1. /\ Types /\ Apart /\ Jobs /\ Sending /\ Newest /\ LastWaiting /\ BackLinks
      /\ Holds("rx", rxq) /\ Holds("tx", txq)
  BY DEF Sound
<1>2. /\ mem \in Memory /\ txq \in Seq(Buffs) /\ rxq \in Seq(Buffs)
      /\ ring \in [0..NRing-1 -> Buffs] /\ rxNow \in 0..NRing-1
  BY <1>1 DEF Types
<1>3. b \in Buffs /\ b \in Range(ring) /\ b \in Receiving /\ b \notin ToSet(rxq)
  BY <1>1, <1>2 DEF Range, Apart, Receiving
<1>4. /\ g \notin Search /\ \A y \in Search : mem.pre[y] # g
      /\ g # mem.list["wait"].tail /\ g \notin Receiving /\ g \notin ToSet(txq)
      /\ \A c \in Actors : job[c].buf # g /\ job[c].ask # g
      /\ g \notin Unsent
  BY Unused
<1>5. PICK m : m = list_insert_back(mem, "rx", b)
  OBVIOUS
<1>6. Inserted(m, mem, "rx", b)
  BY <1>2, <1>3, <1>5, InsertFacts, ListNames
<1>7. m \in Memory
  BY <1>6 DEF Inserted
<1>8. HandedOut(mem', m, g)
  BY <1>5, <1>7, HandedFacts
<1>9. Longer(rxq', rxq, b)
  BY <1>2, <1>3, Appended
<1>10. PICK t : t = mem.list["buffs"].tail
  OBVIOUS
<1>11. mem.list["rx"].size # 0 => mem.list["rx"].tail = Last(rxq) /\ Last(rxq) \in ToSet(rxq) /\ rxq # <<>>
  BY <1>1, <1>2, QueueParts DEF Holds
<1>12. /\ m.list["buffs"] = mem.list["buffs"] /\ t \notin ToSet(rxq) /\ t # Null
       /\ \A y \in Buffs : mem'.pre[y] = IF y = g THEN t ELSE m.pre[y]
       /\ \A y \in Buffs : y \notin {t, g} => mem'.next[y] = m.next[y]
       /\ \A y \in Buffs : mem'.next[y] \in {m.next[y], g, Null}
  BY <1>1, <1>6, <1>8, <1>10, ListNames DEF Inserted, HandedOut, Newest
<1>13. /\ \A y \in Buffs : y # b => m.pre[y] = mem.pre[y]
       /\ \A y \in Buffs : m.next[y] \in {mem.next[y], b, Null}
       /\ \A y \in Buffs : y \notin ToSet(rxq) \cup {b} => m.next[y] = mem.next[y]
  BY <1>6, <1>11 DEF Inserted
<1>14. Types'
  <2>1. (rxNow + 1) % NRing \in 0..NRing-1
    BY <1>2, NetAssumption
  <2>2. ring' \in [0..NRing-1 -> Buffs]
    BY <1>2
  <2>3. pkt' \in [Buffs -> Packet]
    BY <1>1 DEF Types, Packet, Kinds, NoPacket
  <2>4. QED
    BY <1>1, <1>8, <1>9, <2>1, <2>2, <2>3 DEF Types, HandedOut, Longer
<1>15. Range(ring') = (Range(ring) \ {b}) \cup {g}
  <2>1. \A i \in 0..NRing-1 : ring'[i] = IF i = rxNow THEN g ELSE ring[i]
    BY <1>2
  <2>2. DOMAIN ring' = 0..NRing-1 /\ DOMAIN ring = 0..NRing-1
    BY <1>2
  <2>3. \A i \in 0..NRing-1 : i # rxNow => ring[i] # b
    BY <1>1, <1>2 DEF Apart
  <2>4. QED
    BY <1>2, <2>1, <2>2, <2>3 DEF Range
<1>16. Receiving' = Receiving \cup {g} /\ Unsent' = Unsent /\ g \notin Range(ring) /\ g # b
  <2>1. ToSet(rxq') = ToSet(rxq) \cup {b}
    BY <1>9 DEF Longer
  <2>2. Receiving' = Range(ring') \cup ToSet(rxq') /\ Receiving = Range(ring) \cup ToSet(rxq)
    BY DEF Receiving
  <2>3. g \notin Range(ring)
    BY <1>4, <2>2
  <2>4. g # b
    BY <1>3, <2>3
  <2>5. Receiving' = Receiving \cup {g}
    BY <1>3, <1>15, <2>1, <2>2
  <2>6. Unsent' = Unsent
    BY DEF Unsent, NotYetWaiting
  <2>7. QED
    BY <2>3, <2>4, <2>5, <2>6
<1>17. Apart'
  <2>1. ASSUME NEW i \in 0..NRing-1, NEW j \in 0..NRing-1, ring'[i] = ring'[j]
        PROVE  i = j
    <3>1. \A k \in 0..NRing-1 : ring'[k] = IF k = rxNow THEN g ELSE ring[k]
      BY <1>2
    <3>2. \A k \in 0..NRing-1 : ring[k] # g
      BY <1>2, <1>16 DEF Range
    <3>3. QED
      BY <1>1, <2>1, <3>1, <3>2 DEF Apart
  <2>2. Distinct(rxq')
    BY <1>1, <1>3, <1>9 DEF Apart, Longer
  <2>3. Range(ring') \cap ToSet(rxq') = {}
    BY <1>1, <1>4, <1>9, <1>15, <1>16 DEF Apart, Longer, Receiving
  <2>4. Receiving' \cap ToSet(txq) = {}
    BY <1>1, <1>4, <1>16 DEF Apart
  <2>5. \A y \in Receiving' : pkt'[y].kind = "none"
    <3>1. \A y \in Buffs : pkt'[y] = IF y = g THEN NoPacket ELSE pkt[y]
      BY <1>1 DEF Types
    <3>2. Receiving \subseteq Buffs
      BY <1>1, Uses
    <3>3. QED
      BY <1>1, <1>16, <3>1, <3>2 DEF Apart, NoPacket
  <2>6. \A c \in Actors : job[c].buf \notin Receiving' /\ job[c].ask \notin Receiving'
    BY <1>1, <1>4, <1>16 DEF Apart
  <2>7. QED
    BY <1>1, <2>1, <2>2, <2>3, <2>4, <2>5, <2>6 DEF Apart
<1>18. Jobs' /\ Sending'
  BY <1>1 DEF Jobs, Sending, Outgoing
<1>19. Holds("rx", rxq)'
  <2>1. /\ mem'.list["rx"].head = IF mem.list["rx"].size = 0 THEN b ELSE mem.list["rx"].head
        /\ mem'.list["rx"].tail = b /\ mem'.list["rx"].size = mem.list["rx"].size + 1
    BY <1>6, <1>8, ListNames DEF Inserted, HandedOut
  <2>2. \A y \in ToSet(rxq) : mem'.next[y] = IF y = Last(rxq) THEN b ELSE mem.next[y]
    <3>1. SUFFICES ASSUME NEW y \in ToSet(rxq)
                   PROVE  mem'.next[y] = IF y = Last(rxq) THEN b ELSE mem.next[y]
      OBVIOUS
    <3>2. y \in Buffs /\ y # b /\ y # t /\ y # g /\ rxq # <<>>
      BY <1>1, <1>2, <1>3, <1>4, <1>12, QueueParts, Uses DEF ToSet
    <3>3. mem'.next[y] = m.next[y]
      BY <1>12, <3>2
    <3>4. mem.list["rx"].size # 0
      BY <1>1, <1>2, <3>2, QueueParts DEF Holds
    <3>5. QED
      BY <1>6, <1>11, <3>2, <3>3, <3>4 DEF Inserted
  <2>3. Chain(mem, "rx", rxq) /\ Distinct(rxq)
    BY <1>1, HoldsChain DEF Apart
  <2>4. Chain(mem', "rx", Append(rxq, b))
    BY <1>2, <1>3, <2>1, <2>2, <2>3, ChainInsert
  <2>5. QED
    BY <2>4, HoldsChain
<1>20. Holds("tx", txq)'
  <2>1. \A y \in ToSet(txq) : y = Last(txq) \/ mem'.next[y] = mem.next[y]
    <3>1. SUFFICES ASSUME NEW y \in ToSet(txq), y # Last(txq)
                   PROVE  mem'.next[y] = mem.next[y]
      OBVIOUS
    <3>2. y \in Buffs /\ y \notin ToSet(rxq) /\ y # b /\ y # g /\ y # t
      BY <1>1, <1>3, <1>4, <1>10, <3>1, Uses DEF AllocCuts
    <3>3. QED
      BY <1>12, <1>13, <3>2
  <2>2. mem'.list["tx"] = mem.list["tx"]
    BY <1>6, <1>8, ListNames DEF Inserted, HandedOut
  <2>3. QED
    BY <1>1, <1>2, <2>1, <2>2, HoldsChain, ChainKept DEF Apart
<1>21. Newest'
  <2>1. mem'.list["buffs"].tail = g
    BY <1>8 DEF HandedOut
  <2>2. g \notin ToSet(rxq')
    BY <1>4, <1>9, <1>16 DEF Longer, Receiving
  <2>3. QED
    BY <1>1, <1>4, <2>1, <2>2, JobParts, Numbers DEF Newest
<1>22. LastWaiting'
  <2>1. mem'.list["wait"] = mem.list["wait"]
    BY <1>6, <1>8, ListNames DEF Inserted, HandedOut
  <2>2. QED
    BY <1>1, <1>4, <1>16, <2>1 DEF LastWaiting
<1>23. Search' \subseteq Search \cup {b, g}
  <2>1. PICK S : S = Search \cup {b, g}
    OBVIOUS
  <2>2. mem'.list["wait"] = mem.list["wait"]
    BY <1>6, <1>8, ListNames DEF Inserted, HandedOut
  <2>3. mem'.list["wait"].head \in S \cup {Null} /\ job'["netin"].buf \in S \cup {Null}
    BY <1>1, <2>1, <2>2, SearchClosed
  <2>4. ASSUME NEW y \in S
        PROVE  mem'.next[y] \in S \cup {Null}
    <3>1. CASE y \in Search
      BY <1>1, <1>12, <1>13, <2>1, <3>1, SearchClosed
    <3>2. CASE y = g
      <4>1. mem'.next[g] \in {g, Null}
        BY <1>8 DEF HandedOut
      <4>2. QED
        BY <2>1, <3>2, <4>1
    <3>3. CASE y = b
      <4>1. m.next[b] \in {b, Null}
        BY <1>3, <1>6 DEF Inserted
      <4>2. QED
        BY <1>3, <1>12, <2>1, <3>3, <4>1
    <3>4. QED
      BY <2>1, <3>1, <3>2, <3>3
  <2>5. QED
    BY <1>14, <2>1, <2>3, <2>4, SearchWithin
<1>24. BackLinks'
  <2>1. SUFFICES ASSUME NEW y \in Search', y \notin Receiving' \cup Unsent'
                 PROVE  BackLink(y)'
    BY DEF BackLinks, Search
  <2>2. y \in Search /\ y \in Buffs /\ y # b /\ y # g /\ y \notin Receiving \cup Unsent
    BY <1>1, <1>3, <1>16, <1>23, <2>1, SearchClosed
  <2>3. mem'.pre[y] = mem.pre[y] /\ mem.pre[y] # g
    BY <1>4, <1>12, <1>13, <2>2
  <2>4. BackLink(y)
    BY <1>1, <2>2 DEF BackLinks, Search
  <2>5. QED
    BY <1>16, <2>3, <2>4 DEF BackLink
<1>25. QED
  BY <1>14, <1>17, <1>18, <1>19, <1>20, <1>21, <1>22, <1>24 DEF Sound

\* For the clock's packet, which is queued at once.
LEMMA DiscoverKeeps ==
    ASSUME Sound, NEW g \in Buffs, g \notin InUse, ~AllocCuts, ~Overlaps,
           mem' = list_insert_back(list_insert_back(Handed(mem, g), "tx", g), "wait", g),
           NEW p \in Packet, pkt' = [pkt EXCEPT ![g] = p],
           txq' = Append(txq, g), ring' = ring, rxNow' = rxNow, rxq' = rxq, job' = job
    PROVE  Sound'
<1>1. /\ Types /\ Apart /\ Jobs /\ Sending /\ Newest /\ LastWaiting /\ BackLinks
      /\ Holds("rx", rxq) /\ Holds("tx", txq)
  BY DEF Sound
<1>2. /\ mem \in Memory /\ txq \in Seq(Buffs) /\ rxq \in Seq(Buffs)
  BY <1>1 DEF Types
<1>3. /\ g \notin Search /\ \A y \in Search : mem.pre[y] # g
      /\ g # mem.list["wait"].tail /\ g \notin Receiving /\ g \notin ToSet(txq)
      /\ \A c \in Actors : job[c].buf # g /\ job[c].ask # g
      /\ g \notin Unsent
  BY Unused
<1>4. PICK m : m = Handed(mem, g)
  OBVIOUS
<1>5. HandedOut(m, mem, g)
  BY <1>2, <1>4, HandedFacts
<1>6. m \in Memory
  BY <1>5 DEF HandedOut
<1>7. PICK m1 : m1 = list_insert_back(m, "tx", g)
  OBVIOUS
<1>8. Inserted(m1, m, "tx", g)
  BY <1>6, <1>7, InsertFacts, ListNames
<1>9. m1 \in Memory
  BY <1>8 DEF Inserted
<1>10. Inserted(mem', m1, "wait", g)
  BY <1>4, <1>7, <1>9, InsertFacts, ListNames
<1>11. Longer(txq', txq, g)
  BY <1>2, Appended
<1>12. PICK t : t = mem.list["buffs"].tail
  OBVIOUS
<1>13. PICK w : w = mem.list["wait"].tail
  OBVIOUS
<1>14. /\ mem.list["tx"].size # 0 => mem.list["tx"].tail = Last(txq) /\ Last(txq) \in ToSet(txq) /\ txq # <<>>
       /\ txq # <<>> => mem.list["tx"].size # 0 /\ mem.list["tx"].tail = Last(txq)
  BY <1>1, <1>2, QueueParts DEF Holds
<1>15. /\ m.list["tx"] = mem.list["tx"] /\ m.list["wait"] = mem.list["wait"] /\ m.list["rx"] = mem.list["rx"]
       /\ m1.list["wait"] = mem.list["wait"] /\ m1.list["rx"] = mem.list["rx"]
       /\ mem'.list["rx"] = mem.list["rx"] /\ mem'.list["tx"] = m1.list["tx"]
       /\ mem'.list["buffs"].tail = g /\ mem'.list["wait"].tail = g
  BY <1>5, <1>8, <1>10, ListNames DEF HandedOut, Inserted
<1>16. /\ \A y \in Buffs : y # g => mem'.pre[y] = mem.pre[y]
       /\ mem'.pre[g] = w
  BY <1>5, <1>8, <1>10, <1>13, <1>15 DEF HandedOut, Inserted
<1>17. \A y \in Buffs : mem'.next[y] \in {mem.next[y], g, Null}
  <2>1. \A y \in Buffs : m.next[y] \in {mem.next[y], g, Null}
    BY <1>5 DEF HandedOut
  <2>2. \A y \in Buffs : m1.next[y] \in {m.next[y], g, Null}
    BY <1>8 DEF Inserted
  <2>3. \A y \in Buffs : mem'.next[y] \in {m1.next[y], g, Null}
    BY <1>10 DEF Inserted
  <2>4. QED
    BY <2>1, <2>2, <2>3
<1>18. \A y \in Buffs : y \notin ToSet(txq) \cup {t, w, g} => mem'.next[y] = mem.next[y]
  <2>1. \A y \in Buffs : y \notin {t, g} => m.next[y] = mem.next[y]
    BY <1>5, <1>12 DEF HandedOut
  <2>2. \A y \in Buffs : y \notin ToSet(txq) \cup {g} => m1.next[y] = m.next[y]
    BY <1>8, <1>14, <1>15 DEF Inserted
  <2>3. \A y \in Buffs : y \notin {w, g} => mem'.next[y] = m1.next[y]
    BY <1>10, <1>13, <1>15 DEF Inserted
  <2>4. QED
    BY <2>1, <2>2, <2>3
<1>19. \A y \in ToSet(txq) : mem'.next[y] = IF y = Last(txq) THEN g ELSE mem.next[y]
  <2>1. SUFFICES ASSUME NEW y \in ToSet(txq)
                 PROVE  mem'.next[y] = IF y = Last(txq) THEN g ELSE mem.next[y]
    OBVIOUS
  <2>2. y \in Buffs /\ y # g /\ txq # <<>>
    BY <1>1, <1>3, Uses DEF ToSet
  <2>3. y = t => y = Last(txq)
    BY <1>12 DEF AllocCuts
  <2>4. y = w => y = Last(txq)
    <3>1. PICK i \in 1..Len(txq) : txq[i] = y
      BY <1>2, QueueParts
    <3>2. y = w => i = Len(txq)
      BY <1>1, <1>13, <3>1 DEF LastWaiting, Overlaps
    <3>3. QED
      BY <1>2, <2>2, <3>1, <3>2, QueueParts
  <2>5. CASE y = Last(txq)
    <3>1. m1.next[y] = g
      BY <1>8, <1>14, <1>15, <2>2, <2>5 DEF Inserted
    <3>2. QED
      BY <1>10, <2>2, <2>5, <3>1 DEF Inserted
  <2>6. CASE y # Last(txq)
    <3>1. m.next[y] = mem.next[y]
      BY <1>5, <1>12, <2>2, <2>3, <2>6 DEF HandedOut
    <3>2. m1.next[y] = m.next[y]
      BY <1>8, <1>14, <1>15, <2>2, <2>6 DEF Inserted
    <3>3. mem'.next[y] = m1.next[y]
      BY <1>10, <1>13, <1>15, <2>2, <2>4, <2>6 DEF Inserted
    <3>4. QED
      BY <2>6, <3>1, <3>2, <3>3
  <2>7. QED
    BY <2>5, <2>6
<1>20. Types'
  <2>1. pkt' \in [Buffs -> Packet]
    BY <1>1 DEF Types
  <2>2. QED
    BY <1>1, <1>10, <1>11, <2>1 DEF Types, Inserted, Longer
<1>21. Receiving' = Receiving /\ Unsent' = Unsent /\ ToSet(txq') = ToSet(txq) \cup {g} /\ Receiving \subseteq Buffs
  BY <1>1, <1>11, Uses DEF Receiving, Longer, Unsent, NotYetWaiting
<1>22. Apart'
  <2>1. \A y \in Receiving : pkt'[y].kind = "none"
    BY <1>1, <1>3, <1>21 DEF Apart, Types
  <2>2. QED
    BY <1>1, <1>3, <1>11, <1>21, <2>1 DEF Apart, Longer
<1>23. Jobs' /\ Sending'
  BY <1>1, <1>3, <1>21 DEF Jobs, Sending, Overlaps
<1>24. Holds("rx", rxq)'
  <2>1. \A y \in ToSet(rxq) : mem'.next[y] = mem.next[y]
    BY <1>1, <1>3, <1>12, <1>13, <1>18, Uses DEF LastWaiting, Newest
  <2>2. QED
    BY <1>1, <1>2, <1>15, <2>1, HoldsChain, ChainKept DEF Apart
<1>25. Holds("tx", txq)'
  <2>1. /\ mem'.list["tx"].head = IF mem.list["tx"].size = 0 THEN g ELSE mem.list["tx"].head
        /\ mem'.list["tx"].tail = g /\ mem'.list["tx"].size = mem.list["tx"].size + 1
    BY <1>8, <1>15 DEF Inserted
  <2>2. Chain(mem, "tx", txq) /\ Distinct(txq)
    BY <1>1, HoldsChain DEF Apart
  <2>3. Chain(mem', "tx", Append(txq, g))
    BY <1>2, <1>19, <2>1, <2>2, ChainInsert
  <2>4. QED
    BY <2>3, HoldsChain
<1>26. Newest'
  BY <1>1, <1>3, <1>15, Uses, JobParts, Numbers DEF Newest
<1>27. LastWaiting'
  <2>1. ASSUME NEW i \in 1..Len(txq'), txq'[i] = g
        PROVE  i = Len(txq')
    <3>1. txq'[Len(txq')] = g /\ Len(txq') \in 1..Len(txq') /\ Distinct(txq')
      BY <1>1, <1>2, <1>3, <1>11, QueueParts DEF Longer, Apart
    <3>2. QED
      BY <2>1, <3>1 DEF Distinct
  <2>2. QED
    BY <1>3, <1>15, <1>21, <2>1 DEF LastWaiting
<1>28. Search' \subseteq Search \cup {g}
  <2>1. PICK S : S = Search \cup {g}
    OBVIOUS
  <2>2. mem'.list["wait"].head \in S \cup {Null} /\ job'["netin"].buf \in S \cup {Null}
    BY <1>1, <1>10, <1>15, <2>1, SearchClosed DEF Inserted
  <2>3. mem'.next[g] \in {g, Null}
    BY <1>10 DEF Inserted
  <2>4. \A y \in S : mem'.next[y] \in S \cup {Null}
    BY <1>1, <1>17, <2>1, <2>3, SearchClosed
  <2>5. QED
    BY <1>20, <2>1, <2>2, <2>4, SearchWithin
<1>29. BackLinks'
  <2>1. SUFFICES ASSUME NEW y \in Search', y \notin Receiving' \cup Unsent'
                 PROVE  BackLink(y)'
    BY DEF BackLinks, Search
  <2>2. CASE y = g
    BY <1>1, <1>3, <1>13, <1>16, <1>21, <2>2 DEF BackLink, LastWaiting
  <2>3. CASE y # g
    <3>1. y \in Search /\ y \in Buffs /\ y \notin Receiving \cup Unsent
      BY <1>1, <1>21, <1>28, <2>1, <2>3, SearchClosed
    <3>2. mem'.pre[y] = mem.pre[y] /\ mem.pre[y] # g
      BY <1>3, <1>16, <2>3, <3>1
    <3>3. BackLink(y)
      BY <1>1, <3>1 DEF BackLinks, Search
    <3>4. QED
      BY <1>21, <3>2, <3>3 DEF BackLink
  <2>4. QED
    BY <2>2, <2>3
<1>30. QED
  BY <1>20, <1>22, <1>23, <1>24, <1>25, <1>26, <1>27, <1>29 DEF Sound

------------------------------------------------------------------------------
(* The receiving thread.                                                   *)

\* The front of rx_list, and the lists without it.
LEMMA FirstIs ==
    ASSUME Sound, First # Null, mem.list["rx"].size > 0
    PROVE  /\ FrontRemoved(Rest, mem, "rx") /\ Shorter(Tail(rxq), rxq)
           /\ rxq # <<>> /\ First = rxq[1] /\ First \in ToSet(rxq) /\ First \in Buffs /\ First \in Receiving
<1>1. Types /\ Apart /\ Holds("rx", rxq)
  BY DEF Sound
<1>2. mem \in Memory /\ rxq \in Seq(Buffs)
  BY <1>1 DEF Types
<1>3. FrontRemoved(Rest, mem, "rx")
  BY <1>2, RemoveFrontFacts, ListNames DEF Rest, First
<1>4. rxq # <<>>
  BY <1>1, <1>2, QueueParts DEF Holds
<1>5. First = rxq[1] /\ First \in ToSet(rxq) /\ First \in Buffs
  BY <1>1, <1>2, <1>4, QueueParts DEF Holds, First
<1>6. Shorter(Tail(rxq), rxq)
  BY <1>1, <1>2, <1>4, Shortened DEF Apart
<1>7. QED
  BY <1>3, <1>4, <1>5, <1>6 DEF Receiving

\* A packet that is on wait_list, not queued with others, and not still to be put
\* there: what its node has for the one before it is nowhere else.
LEMMA BeforeIt ==
    ASSUME Sound, NEW x \in Search, x \notin Receiving \cup Unsent, ~RemoveCuts(x)
    PROVE  mem.pre[x] \notin Receiving \cup Unsent \cup ToSet(txq)
<1>1. Types /\ Apart /\ BackLinks
  BY DEF Sound
<1>2. BackLink(x)
  BY <1>1 DEF BackLinks, Search
<1>3. txq \in Seq(Buffs) /\ Len(txq) \in Nat
  BY <1>1, QueueParts DEF Types
<1>4. ASSUME mem.pre[x] \in ToSet(txq)
      PROVE  FALSE
  <2>1. x \in ToSet(txq) /\ mem.pre[x] # x
    BY <1>2, <1>4 DEF BackLink
  <2>2. Len(txq) <= 1
    BY <1>3, <2>1 DEF RemoveCuts
  <2>3. PICK i \in 1..Len(txq) : txq[i] = x
    BY <1>3, <2>1, QueueParts
  <2>4. PICK j \in 1..Len(txq) : txq[j] = mem.pre[x]
    BY <1>3, <1>4, QueueParts
  <2>5. i = j
    BY <1>3, <2>2
  <2>6. QED
    BY <2>1, <2>3, <2>4, <2>5
<1>5. QED
  BY <1>2, <1>4 DEF BackLink

\* The packet is not kept: it is freed or lost.  It may be the answer to packet x.
LEMMA DropKeeps ==
    ASSUME Sound, First # Null, mem.list["rx"].size > 0, rxq' = Tail(rxq), job["netin"].pc = "loop",
           NEW k \in Job, k.pc = "loop", k.buf = Null, k.ask = Null,
           job' = [job EXCEPT !["netin"] = k],
           pkt' = pkt, ring' = ring, rxNow' = rxNow, txq' = txq,
           NEW x \in Nodes,
           x # Null => x \in Search /\ x \notin Receiving \cup Unsent /\ ~RemoveCuts(x),
           NEW m, m = (IF x = Null THEN Rest ELSE list_remove(Rest, "wait", x)),
           mem' = m \/ mem' = list_remove(m, "buffs", First)
    PROVE  Sound'
<1>1. /\ Types /\ Apart /\ Jobs /\ Sending /\ Newest /\ LastWaiting /\ BackLinks
      /\ Holds("rx", rxq) /\ Holds("tx", txq)
  BY DEF Sound
<1>2. /\ mem \in Memory /\ txq \in Seq(Buffs) /\ rxq \in Seq(Buffs) /\ job \in [Actors -> Job]
      /\ "netin" \in Actors
  BY <1>1, JobParts DEF Types
<1>3. PICK f \in Buffs : f = First
  BY FirstIs
<1>4. PICK r : r = Rest
  OBVIOUS
<1>5. /\ FrontRemoved(r, mem, "rx") /\ Shorter(rxq', rxq)
      /\ rxq # <<>> /\ f = rxq[1] /\ f \in ToSet(rxq) /\ f \in Receiving
  BY <1>3, <1>4, FirstIs
<1>6. /\ r \in Memory /\ \A l \in Lists : l # "rx" => r.list[l] = mem.list[l]
      /\ r.list["rx"].head = mem.next[f]
      /\ r.list["rx"].tail = IF mem.next[f] = Null THEN Null ELSE mem.list["rx"].tail
      /\ r.list["rx"].size = mem.list["rx"].size - 1
      /\ \A y \in Buffs : r.pre[y] \in {mem.pre[y], Null}
      /\ r.pre[f] = Null
      /\ \A y \in Buffs : r.next[y] = IF y = f THEN Null ELSE mem.next[y]
  BY <1>3, <1>5 DEF FrontRemoved, First
<1>7. f \notin Unsent /\ f \notin ToSet(txq) /\ Null \notin Receiving \cup Unsent \cup ToSet(txq) /\ Search \subseteq Buffs
  BY <1>1, <1>5, Uses, SearchClosed
<1>8. PICK p : p = IF x = Null THEN Null ELSE r.pre[x]
  OBVIOUS
<1>9. p \notin Receiving \cup Unsent \cup ToSet(txq)
  <2>1. CASE x = Null
    BY <1>7, <1>8, <2>1
  <2>2. CASE x # Null
    <3>1. mem.pre[x] \notin Receiving \cup Unsent \cup ToSet(txq) /\ x \in Buffs
      BY <1>7, <2>2, BeforeIt
    <3>2. QED
      BY <1>6, <1>7, <1>8, <2>2, <3>1
  <2>3. QED
    BY <2>1, <2>2
<1>10. /\ m \in Memory /\ m.list["rx"] = r.list["rx"] /\ m.list["tx"] = mem.list["tx"]
       /\ m.list["buffs"] = mem.list["buffs"]
       /\ m.list["wait"].head \in Search \cup {Null} /\ m.list["wait"].tail \in {mem.list["wait"].tail, p}
       /\ \A y \in Buffs : y \notin {f, x, p} => m.next[y] = mem.next[y]
       /\ \A y \in Search : m.next[y] \in Search \cup {Null}
       /\ m.next[f] = Null /\ m.pre[f] \in {Null, p}
       /\ \A y \in Buffs : m.pre[y] \in {mem.pre[y], Null, p}
  <2>1. mem.list["wait"].head \in Search \cup {Null} /\ \A y \in Search : mem.next[y] \in Search \cup {Null}
    BY <1>1, SearchClosed
  <2>2. CASE x = Null
    <3>1. m = r
      BY <1>4, <2>2
    <3>2. QED
      BY <1>6, <1>7, <2>1, <3>1, ListNames
  <2>3. CASE x # Null
    <3>1. x \in Search /\ x \in Buffs /\ x \notin Receiving
      BY <1>7, <2>3
    <3>2. m = list_remove(r, "wait", x)
      BY <1>4, <2>3
    <3>3. Removed(m, r, "wait", x)
      BY <1>6, <3>1, <3>2, RemoveFacts, ListNames
    <3>4. r.next[x] = mem.next[x] /\ r.next[x] \in Search \cup {Null} /\ r.pre[x] = p /\ x # f
      BY <1>5, <1>6, <1>8, <2>1, <2>3, <3>1
    <3>5. m \in Memory /\ m.list["rx"] = r.list["rx"] /\ m.list["tx"] = mem.list["tx"]
          /\ m.list["buffs"] = mem.list["buffs"]
      BY <1>6, <3>3, ListNames DEF Removed
    <3>6. m.list["wait"].head \in Search \cup {Null} /\ m.list["wait"].tail \in {mem.list["wait"].tail, p}
      BY <1>6, <2>1, <3>3, <3>4, ListNames DEF Removed
    <3>7. \A y \in Buffs : y \notin {f, x, p} => m.next[y] = mem.next[y]
      BY <1>6, <3>3, <3>4 DEF Removed
    <3>8. \A y \in Search : m.next[y] \in Search \cup {Null}
      BY <1>6, <1>7, <2>1, <3>3, <3>4 DEF Removed
    <3>9. m.next[f] = Null
      <4>1. f # p
        BY <1>5, <1>9
      <4>2. QED
        BY <1>6, <3>3, <3>4, <4>1 DEF Removed
    <3>10. m.pre[f] \in {Null, p} /\ \A y \in Buffs : m.pre[y] \in {mem.pre[y], Null, p}
      BY <1>6, <3>3, <3>4 DEF Removed
    <3>11. QED
      BY <3>5, <3>6, <3>7, <3>8, <3>9, <3>10
  <2>4. QED
    BY <2>2, <2>3
<1>11. /\ mem' \in Memory /\ mem'.list["rx"] = r.list["rx"] /\ mem'.list["tx"] = mem.list["tx"]
       /\ mem'.list["buffs"].tail = mem.list["buffs"].tail
       /\ mem'.list["wait"].head \in Search \cup {Null} /\ mem'.list["wait"].tail \in {mem.list["wait"].tail, p}
       /\ \A y \in Buffs : y \notin {f, x, p} => mem'.next[y] = mem.next[y]
       /\ \A y \in Search : mem'.next[y] \in Search \cup {Null}
       /\ mem'.pre[f] \in {Null, p}
       /\ \A y \in Buffs : mem'.pre[y] \in {mem.pre[y], Null, p}
  <2>1. CASE mem' = m
    BY <1>10, <2>1
  <2>2. CASE mem' = list_remove(m, "buffs", First)
    <3>1. Removed(mem', m, "buffs", f)
      BY <1>3, <1>10, <2>2, RemoveFacts, ListNames
    <3>2. mem.list["buffs"].tail # f
      BY <1>1, <1>5 DEF Newest
    <3>3. mem' \in Memory /\ \A l \in Lists : l # "buffs" => mem'.list[l] = m.list[l]
      BY <3>1 DEF Removed
    <3>4. mem'.list["buffs"].tail = mem.list["buffs"].tail
      BY <1>10, <3>1, <3>2 DEF Removed
    <3>5. \A y \in Buffs : mem'.next[y] \in {m.next[y], Null} /\ (y \notin {f, p} => mem'.next[y] = m.next[y])
      BY <1>10, <3>1, Numbers DEF Removed
    <3>6. m.next[f] = Null /\ \A y \in Buffs : y # Null
      BY <1>10, Numbers
    <3>7. \A y \in Buffs : mem'.pre[y] = IF y = f THEN Null ELSE m.pre[y]
      BY <3>1, <3>6 DEF Removed
    <3>8. QED
      BY <1>7, <1>10, <3>3, <3>4, <3>5, <3>7, ListNames
  <2>3. QED
    BY <2>1, <2>2
<1>12. \A c \in Actors : job'[c] = IF c = "netin" THEN k ELSE job[c]
  BY <1>2
<1>13. job["netin"].buf = Null /\ job["netin"].ask = Null
  BY <1>1, <1>2 DEF Jobs
<1>14. \A c \in Actors : job'[c].pc = job[c].pc /\ job'[c].buf = job[c].buf /\ job'[c].ask = job[c].ask
  BY <1>12, <1>13
<1>15. Types'
  <2>1. job' \in [Actors -> Job]
    BY <1>2
  <2>2. QED
    BY <1>1, <1>5, <1>11, <2>1 DEF Types, Shorter
<1>16. Unsent' = Unsent
  BY <1>14 DEF Unsent, NotYetWaiting
<1>17. ToSet(rxq') = ToSet(rxq) \ {f} /\ Receiving' = Receiving \ {f}
  <2>1. ToSet(rxq') = ToSet(rxq) \ {f}
    BY <1>5 DEF Shorter
  <2>2. Range(ring) \cap ToSet(rxq) = {}
    BY <1>1 DEF Apart
  <2>3. QED
    BY <1>5, <2>1, <2>2 DEF Receiving
<1>18. Apart'
  <2>1. Distinct(rxq')
    BY <1>5 DEF Shorter
  <2>2. QED
    BY <1>1, <1>14, <1>17, <2>1 DEF Apart
<1>19. Jobs'
  BY <1>1, <1>14 DEF Jobs
<1>20. Sending'
  BY <1>1, <1>14 DEF Sending, Outgoing
<1>21. Holds("rx", rxq)'
  <2>1. \A y \in ToSet(rxq) : y \in {rxq[1], Last(rxq)} \/ mem'.next[y] = mem.next[y]
    <3>1. x \notin Receiving /\ p \notin Receiving /\ ToSet(rxq) \subseteq Receiving /\ Receiving \subseteq Buffs
      BY <1>1, <1>7, <1>9, Uses
    <3>2. QED
      BY <1>5, <1>11, <3>1
  <2>2. Chain(mem, "rx", rxq) /\ Distinct(rxq)
    BY <1>1, HoldsChain DEF Apart
  <2>3. /\ mem'.list["rx"].head = mem.next[rxq[1]]
        /\ mem'.list["rx"].tail = IF mem.next[rxq[1]] = Null THEN Null ELSE mem.list["rx"].tail
        /\ mem'.list["rx"].size = mem.list["rx"].size - 1
    BY <1>5, <1>6, <1>11
  <2>4. Chain(mem', "rx", Tail(rxq))
    BY <1>2, <1>5, <2>1, <2>2, <2>3, ChainRemove
  <2>5. QED
    BY <2>4, HoldsChain
<1>22. Holds("tx", txq)'
  <2>1. ASSUME NEW y \in ToSet(txq)
        PROVE  y = Last(txq) \/ mem'.next[y] = mem.next[y]
    <3>1. y \in Buffs /\ y # f /\ y # p
      BY <1>1, <1>7, <1>9, Uses
    <3>2. CASE y # x
      BY <1>11, <3>1, <3>2
    <3>3. CASE y = x
      <4>1. Len(txq) <= 1 /\ Len(txq) \in Nat
        BY <1>2, <3>1, <3>3, Numbers, QueueParts DEF RemoveCuts
      <4>2. PICK i \in 1..Len(txq) : txq[i] = y
        BY <1>2, QueueParts
      <4>3. i = Len(txq)
        BY <4>1
      <4>4. QED
        BY <4>2, <4>3 DEF Last
    <3>4. QED
      BY <3>2, <3>3
  <2>2. QED
    BY <1>1, <1>2, <1>11, <2>1, HoldsChain, ChainKept DEF Apart
<1>23. Newest'
  BY <1>1, <1>2, <1>11, <1>14, <1>17 DEF Newest
<1>24. LastWaiting'
  <2>1. CASE mem'.list["wait"].tail = mem.list["wait"].tail
    BY <1>1, <1>14, <1>16, <1>17, <2>1 DEF LastWaiting
  <2>2. CASE mem'.list["wait"].tail = p
    BY <1>2, <1>9, <1>16, <1>17, <2>2, QueueParts DEF LastWaiting
  <2>3. QED
    BY <1>11, <2>1, <2>2
<1>25. Search' \subseteq Search
  <2>1. PICK S : S = Search
    OBVIOUS
  <2>2. mem'.list["wait"].head \in S \cup {Null} /\ job'["netin"].buf \in S \cup {Null}
    BY <1>2, <1>11, <1>13, <1>14, <2>1
  <2>3. \A y \in S : mem'.next[y] \in S \cup {Null}
    BY <1>11, <2>1
  <2>4. QED
    BY <1>15, <2>1, <2>2, <2>3, SearchWithin
<1>26. BackLinks'
  <2>1. SUFFICES ASSUME NEW y \in Search', y \notin Receiving' \cup Unsent'
                 PROVE  BackLink(y)'
    BY DEF BackLinks, Search
  <2>2. y \in Search /\ y \in Buffs
    BY <1>7, <1>25
  <2>3. CASE y = f
    BY <1>7, <1>9, <1>11, <1>16, <1>17, <2>3 DEF BackLink
  <2>4. CASE y # f
    <3>1. BackLink(y)
      BY <1>1, <1>16, <1>17, <2>1, <2>2, <2>4 DEF BackLinks, Search
    <3>2. QED
      BY <1>7, <1>9, <1>11, <1>16, <1>17, <2>2, <3>1 DEF BackLink
  <2>5. QED
    BY <2>3, <2>4
<1>27. QED
  BY <1>15, <1>18, <1>19, <1>20, <1>21, <1>22, <1>23, <1>24, <1>26 DEF Sound

\* The packet is kept, to be answered in its own buffer.
LEMMA AnswersKeeps ==
    ASSUME Sound, First # Null, mem.list["rx"].size > 0, rxq' = Tail(rxq), job["netin"].pc = "loop",
           NEW k \in Job, k.pc \in {"tx", "build"}, k.buf = First, k.ask = Null,
           job' = [job EXCEPT !["netin"] = k],
           NEW p \in Packet, pkt' = [pkt EXCEPT ![First] = p],
           mem' = Rest, ring' = ring, rxNow' = rxNow, txq' = txq
    PROVE  Sound'
<1>1. /\ Types /\ Apart /\ Jobs /\ Sending /\ Newest /\ LastWaiting /\ BackLinks
      /\ Holds("rx", rxq) /\ Holds("tx", txq)
  BY DEF Sound
<1>2. /\ mem \in Memory /\ txq \in Seq(Buffs) /\ rxq \in Seq(Buffs) /\ job \in [Actors -> Job]
      /\ "netin" \in Actors
  BY <1>1, JobParts DEF Types
<1>3. PICK f \in Buffs : f = First
  BY FirstIs
<1>4. /\ FrontRemoved(mem', mem, "rx") /\ Shorter(rxq', rxq)
      /\ rxq # <<>> /\ f = rxq[1] /\ f \in ToSet(rxq) /\ f \in Receiving
  BY <1>3, FirstIs
<1>5. /\ mem' \in Memory /\ \A l \in Lists : l # "rx" => mem'.list[l] = mem.list[l]
      /\ mem'.list["rx"].head = mem.next[f]
      /\ mem'.list["rx"].tail = IF mem.next[f] = Null THEN Null ELSE mem.list["rx"].tail
      /\ mem'.list["rx"].size = mem.list["rx"].size - 1
      /\ \A y \in Buffs : mem'.pre[y] \in {mem.pre[y], Null}
      /\ \A y \in Buffs : mem'.next[y] = IF y = f THEN Null ELSE mem.next[y]
  BY <1>3, <1>4 DEF FrontRemoved, First
<1>6. /\ f \notin Unsent /\ f \notin ToSet(txq) /\ Null \notin Receiving \cup Unsent \cup ToSet(txq)
      /\ Search \subseteq Buffs /\ Receiving \cap Unsent = {} /\ f # Null
  BY <1>1, <1>4, Uses, SearchClosed
<1>7. \A c \in Actors : job'[c] = IF c = "netin" THEN k ELSE job[c]
  BY <1>2
<1>8. job["netin"].buf = Null /\ job["netin"].ask = Null
  BY <1>1, <1>2 DEF Jobs
<1>9. \A c \in Actors : job[c].buf # f /\ job[c].ask # f
  BY <1>1, <1>4 DEF Apart
<1>10. Types'
  <2>1. job' \in [Actors -> Job]
    BY <1>2
  <2>2. pkt' \in [Buffs -> Packet]
    BY <1>1, <1>3 DEF Types
  <2>3. QED
    BY <1>1, <1>4, <1>5, <2>1, <2>2 DEF Types, Shorter
<1>11. Unsent' = Unsent \cup {f}
  <2>1. Unsent' \subseteq Unsent \cup {f}
    BY <1>3, <1>7 DEF Unsent, NotYetWaiting
  <2>2. f \in Unsent'
    BY <1>2, <1>3, <1>6, <1>7 DEF Unsent, NotYetWaiting
  <2>3. \A y \in Unsent : y \in Unsent'
    BY <1>7, <1>8 DEF Unsent, NotYetWaiting
  <2>4. QED
    BY <2>1, <2>2, <2>3
<1>12. ToSet(rxq') = ToSet(rxq) \ {f} /\ Receiving' = Receiving \ {f}
  <2>1. ToSet(rxq') = ToSet(rxq) \ {f}
    BY <1>4 DEF Shorter
  <2>2. Range(ring) \cap ToSet(rxq) = {}
    BY <1>1 DEF Apart
  <2>3. QED
    BY <1>4, <2>1, <2>2 DEF Receiving
<1>13. Apart'
  <2>1. Distinct(rxq')
    BY <1>4 DEF Shorter
  <2>2. \A c \in Receiving' : pkt'[c].kind = "none"
    BY <1>1, <1>3, <1>12, Uses DEF Apart, Types
  <2>3. \A c \in Actors : job'[c].buf \notin Receiving' /\ job'[c].ask \notin Receiving'
    BY <1>1, <1>3, <1>6, <1>7, <1>12 DEF Apart
  <2>4. ASSUME NEW c \in Actors, NEW d \in Actors
        PROVE  /\ job'[c].buf # Null => job'[c].buf # job'[d].ask /\ (c # d => job'[c].buf # job'[d].buf)
               /\ job'[c].ask # Null /\ c # d => job'[c].ask # job'[d].ask
    BY <1>1, <1>3, <1>6, <1>7, <1>9 DEF Apart
  <2>5. QED
    BY <1>1, <1>12, <2>1, <2>2, <2>3, <2>4 DEF Apart
<1>14. Jobs'
  BY <1>1, <1>3, <1>6, <1>7 DEF Jobs
<1>15. Sending'
  BY <1>1, <1>3, <1>6, <1>7 DEF Sending, Outgoing
<1>16. Holds("rx", rxq)'
  <2>1. \A y \in ToSet(rxq) : y \in {rxq[1], Last(rxq)} \/ mem'.next[y] = mem.next[y]
    BY <1>1, <1>4, <1>5, QueueParts DEF Types
  <2>2. Chain(mem, "rx", rxq) /\ Distinct(rxq)
    BY <1>1, HoldsChain DEF Apart
  <2>3. /\ mem'.list["rx"].head = mem.next[rxq[1]]
        /\ mem'.list["rx"].tail = IF mem.next[rxq[1]] = Null THEN Null ELSE mem.list["rx"].tail
        /\ mem'.list["rx"].size = mem.list["rx"].size - 1
    BY <1>4, <1>5
  <2>4. Chain(mem', "rx", Tail(rxq))
    BY <1>2, <1>4, <2>1, <2>2, <2>3, ChainRemove
  <2>5. QED
    BY <2>4, HoldsChain
<1>17. Holds("tx", txq)'
  <2>1. \A y \in ToSet(txq) : mem'.next[y] = mem.next[y]
    BY <1>1, <1>5, <1>6, Uses
  <2>2. QED
    BY <1>1, <1>2, <1>5, <2>1, HoldsChain, ChainKept, ListNames DEF Apart
<1>18. Newest'
  BY <1>1, <1>2, <1>3, <1>4, <1>5, <1>7, <1>12, ListNames DEF Newest
<1>19. LastWaiting'
  <2>1. mem'.list["wait"] = mem.list["wait"]
    BY <1>5, ListNames
  <2>2. \A c \in Actors : job[c].pc = "wait" => job'[c].pc = "wait"
    BY <1>7
  <2>3. mem.list["wait"].tail \notin Receiving' \cup Unsent'
    BY <1>1, <1>4, <1>11, <1>12 DEF LastWaiting
  <2>4. QED
    BY <1>1, <2>1, <2>2, <2>3 DEF LastWaiting
<1>20. Search' \subseteq Search \cup {f}
  <2>1. PICK S : S = Search \cup {f}
    OBVIOUS
  <2>2. mem'.list["wait"].head \in S \cup {Null} /\ job'["netin"].buf \in S \cup {Null}
    BY <1>1, <1>2, <1>3, <1>5, <1>7, <2>1, SearchClosed, ListNames
  <2>3. \A y \in S : mem'.next[y] \in S \cup {Null}
    BY <1>1, <1>5, <2>1, SearchClosed
  <2>4. QED
    BY <1>10, <2>1, <2>2, <2>3, SearchWithin
<1>21. BackLinks'
  <2>1. SUFFICES ASSUME NEW y \in Search', y \notin Receiving' \cup Unsent'
                 PROVE  BackLink(y)'
    BY DEF BackLinks, Search
  <2>2. y \in Search /\ y \in Buffs /\ y # f /\ y \notin Receiving \cup Unsent
    BY <1>6, <1>11, <1>12, <1>20, <2>1
  <2>3. BackLink(y)
    BY <1>1, <2>2 DEF BackLinks, Search
  <2>4. Receiving' \cup Unsent' = Receiving \cup Unsent
    BY <1>4, <1>11, <1>12
  <2>5. QED
    BY <1>5, <1>6, <2>2, <2>3, <2>4 DEF BackLink
<1>22. QED
  BY <1>10, <1>13, <1>14, <1>15, <1>16, <1>17, <1>18, <1>19, <1>21 DEF Sound

LEMMA FreeAnswerKeeps ==
    ASSUME Sound, FreeAnswer
    PROVE  Inv'
<1> DEFINE b == job["netin"].buf
<1>1. CASE RemoveCuts(b)
  BY <1>1 DEF FreeAnswer, Inv
<1>2. CASE ~RemoveCuts(b)
  <2>1. /\ Types /\ Apart /\ Jobs /\ Sending /\ Newest /\ LastWaiting /\ BackLinks
        /\ Holds("rx", rxq) /\ Holds("tx", txq)
    BY DEF Sound
  <2>2. /\ mem \in Memory /\ txq \in Seq(Buffs) /\ rxq \in Seq(Buffs) /\ job \in [Actors -> Job]
        /\ "netin" \in Actors /\ Null \in Nodes
    BY <2>1, JobParts DEF Types, Nodes
  <2>3. PICK k : k = [NoJob EXCEPT !.pc = "loop"]
    OBVIOUS
  <2>4. k \in Job /\ k.pc = "loop" /\ k.buf = Null /\ k.ask = Null
    BY <2>2, <2>3 DEF Job, PCs, NoJob
  <2>5. /\ job["netin"].pc = "free" /\ mem' = list_remove(mem, "buffs", b)
        /\ job' = [job EXCEPT !["netin"] = k]
        /\ pkt' = pkt /\ ring' = ring /\ rxNow' = rxNow /\ rxq' = rxq /\ txq' = txq
    BY <2>3 DEF FreeAnswer, Free, Done, Goes, card, queues
  <2>6. PICK x : x = b
    OBVIOUS
  <2>7. x \in Buffs /\ x \in Search /\ x # Null
    BY <2>1, <2>2, <2>5, <2>6, SearchClosed DEF Jobs
  <2>8. x \notin Receiving /\ x \notin Unsent
    <3>1. x \notin Receiving
      BY <2>1, <2>2, <2>6 DEF Apart
    <3>2. \A c \in Actors : c # "netin" => job[c].buf # x
      BY <2>1, <2>2, <2>6, <2>7 DEF Apart
    <3>3. \A c \in Actors : job[c].ask # x
      BY <2>1, <2>2, <2>6, <2>7 DEF Apart
    <3>4. QED
      BY <2>5, <3>1, <3>2, <3>3 DEF Unsent, NotYetWaiting
  <2>9. PICK p : p = mem.pre[x]
    OBVIOUS
  <2>10. p \notin Receiving \cup Unsent \cup ToSet(txq)
    BY <1>2, <2>6, <2>7, <2>8, <2>9, BeforeIt
  <2>11. Removed(mem', mem, "buffs", x)
    BY <2>2, <2>5, <2>6, <2>7, RemoveFacts, ListNames
  <2>12. /\ mem' \in Memory /\ \A l \in Lists : l # "buffs" => mem'.list[l] = mem.list[l]
         /\ mem'.list["buffs"].tail = mem.list["buffs"].tail
         /\ \A y \in Buffs : y \notin {x, p} => mem'.next[y] = mem.next[y]
         /\ \A y \in Buffs : mem'.next[y] \in {mem.next[y], mem.next[x], Null}
         /\ \A y \in Buffs : mem'.pre[y] \in {mem.pre[y], Null, p}
    <3>1. mem.list["buffs"].tail # x
      BY <2>1, <2>6 DEF Newest
    <3>2. QED
      BY <2>9, <2>11, <3>1 DEF Removed
  <2>13. \A c \in Actors : job'[c] = IF c = "netin" THEN k ELSE job[c]
    BY <2>2, <2>5
  <2>14. Types'
    <3>1. job' \in [Actors -> Job]
      BY <2>2, <2>4, <2>5
    <3>2. QED
      BY <2>1, <2>5, <2>12, <3>1 DEF Types
  <2>15. Receiving' = Receiving /\ Null \notin Receiving \cup Unsent \cup ToSet(txq)
    BY <2>1, <2>5, Uses DEF Receiving
  <2>16. Unsent' = Unsent
    <3>1. job["netin"].pc = "free"
      BY <2>5
    <3>2. QED
      BY <2>4, <2>13, <3>1 DEF Unsent, NotYetWaiting
  <2>17. Apart'
    <3>1. \A c \in Actors : job'[c].buf \in {job[c].buf, Null} /\ job'[c].ask \in {job[c].ask, Null}
      BY <2>4, <2>13
    <3>2. QED
      BY <2>1, <2>5, <2>15, <3>1 DEF Apart
  <2>18. Jobs'
    BY <2>1, <2>4, <2>13 DEF Jobs
  <2>19. Sending'
    BY <2>1, <2>4, <2>5, <2>13 DEF Sending, Outgoing
  <2>20. Holds("rx", rxq)'
    <3>1. \A y \in ToSet(rxq) : mem'.next[y] = mem.next[y]
      BY <2>1, <2>8, <2>10, <2>12, Uses
    <3>2. QED
      BY <2>1, <2>2, <2>5, <2>12, <3>1, HoldsChain, ChainKept, ListNames DEF Apart
  <2>21. Holds("tx", txq)'
    <3>1. ASSUME NEW y \in ToSet(txq)
          PROVE  y = Last(txq) \/ mem'.next[y] = mem.next[y]
      <4>1. y \in Buffs /\ y # p
        BY <2>1, <2>10, Uses
      <4>2. CASE y # x
        BY <2>12, <4>1, <4>2
      <4>3. CASE y = x
        <5>1. Len(txq) <= 1 /\ Len(txq) \in Nat
          BY <1>2, <2>2, <2>6, <4>3, QueueParts DEF RemoveCuts
        <5>2. PICK i \in 1..Len(txq) : txq[i] = y
          BY <2>2, QueueParts
        <5>3. i = Len(txq)
          BY <5>1
        <5>4. QED
          BY <5>2, <5>3 DEF Last
      <4>4. QED
        BY <4>2, <4>3
    <3>2. QED
      BY <2>1, <2>2, <2>5, <2>12, <3>1, HoldsChain, ChainKept, ListNames DEF Apart
  <2>22. Newest'
    BY <2>1, <2>2, <2>4, <2>5, <2>12, <2>13 DEF Newest
  <2>23. LastWaiting'
    <3>1. mem'.list["wait"] = mem.list["wait"]
      BY <2>12, ListNames
    <3>2. \A c \in Actors : job[c].pc = "wait" => job'[c].pc = "wait"
      BY <2>5, <2>13
    <3>3. QED
      BY <2>1, <2>5, <2>15, <2>16, <3>1, <3>2 DEF LastWaiting
  <2>24. Search' \subseteq Search
    <3>1. PICK S : S = Search
      OBVIOUS
    <3>2. mem'.list["wait"].head \in S \cup {Null} /\ job'["netin"].buf \in S \cup {Null}
      BY <2>1, <2>2, <2>4, <2>12, <2>13, <3>1, SearchClosed, ListNames
    <3>3. \A y \in S : mem'.next[y] \in S \cup {Null}
      BY <2>1, <2>7, <2>12, <3>1, SearchClosed
    <3>4. QED
      BY <2>14, <3>1, <3>2, <3>3, SearchWithin
  <2>25. BackLinks'
    <3>1. SUFFICES ASSUME NEW y \in Search', y \notin Receiving' \cup Unsent'
                   PROVE  BackLink(y)'
      BY DEF BackLinks, Search
    <3>2. y \in Search /\ y \in Buffs
      BY <2>1, <2>24, SearchClosed
    <3>3. BackLink(y)
      BY <2>1, <2>15, <2>16, <3>1, <3>2 DEF BackLinks, Search
    <3>4. QED
      BY <2>5, <2>10, <2>12, <2>15, <2>16, <3>2, <3>3 DEF BackLink
  <2>26. QED
    BY <2>14, <2>17, <2>18, <2>19, <2>20, <2>21, <2>22, <2>23, <2>25 DEF Inv, Sound
<1>3. QED
  BY <1>1, <1>2

------------------------------------------------------------------------------
(* The actions.                                                            *)

LEMMA PacketIs ==
    ASSUME NEW kind \in Kinds, NEW h \in Hosts \cup {Null}
    PROVE  [kind |-> kind, host |-> h] \in Packet
BY DEF Packet

LEMMA LoopJob == ASSUME NEW k, k = [NoJob EXCEPT !.pc = "loop"]
                 PROVE  k \in Job /\ k.pc = "loop" /\ k.buf = Null /\ k.ask = Null
BY DEF Job, PCs, NoJob, Nodes

\* What a question's answer is given to is on wait_list, and is no received packet.
LEMMA RepliedIs ==
    ASSUME Sound, NEW answer, NEW h, NEW x, x = Replied(answer, h)
    PROVE  x \in Nodes /\ (x # Null => x \in Search /\ x \notin Receiving)
<1>1. Types /\ Apart
  BY DEF Sound
<1>2. PICK at : at = Walk(mem, mem.list["wait"].head)
  OBVIOUS
<1>3. PICK hits : hits = {i \in 0..NBuff : at[i] \in Questions(answer, h)}
  OBVIOUS
<1>4. x = IF hits = {} THEN Null ELSE at[CHOOSE i \in hits : \A j \in hits : i <= j]
  BY <1>2, <1>3 DEF Replied
<1>5. CASE hits = {}
  BY <1>4, <1>5 DEF Nodes
<1>6. CASE hits # {}
  <2>1. hits \subseteq Nat
    BY <1>3, Numbers
  <2>2. \E i \in hits : \A j \in hits : i <= j
    BY <1>6, <2>1, LeastNumber
  <2>3. PICK i \in hits : x = at[i]
    BY <1>4, <1>6, <2>2
  <2>4. i \in 0..NBuff /\ x \in Questions(answer, h)
    BY <1>3, <2>3
  <2>5. x \in Buffs /\ pkt[x].kind # "none"
    BY <2>4 DEF Questions
  <2>6. x \notin Receiving
    BY <1>1, <2>5 DEF Apart
  <2>7. mem \in Memory /\ mem.list["wait"].head \in Nodes
    BY <1>1, MemoryParts, ListNames DEF Types
  <2>8. DOMAIN at = 0..NBuff
    BY <1>2, <2>7, WalkSteps DEF Steps
  <2>9. x \in Range(Walk(mem, mem.list["wait"].head))
    BY <1>2, <2>3, <2>4, <2>8 DEF Range
  <2>10. x # Null
    BY <2>5, Numbers
  <2>11. QED
    BY <2>5, <2>6, <2>9, <2>10 DEF Search, Waiting, Nodes
<1>7. QED
  BY <1>5, <1>6

\* A received packet that is not kept, and is no answer.
LEMMA DropsKeep ==
    ASSUME Sound, Input, Done, pkt' = pkt,
           mem' = Rest \/ mem' = list_remove(Rest, "buffs", First)
    PROVE  Sound'
<1>1. PICK k : k = [NoJob EXCEPT !.pc = "loop"]
  OBVIOUS
<1>2. k \in Job /\ k.pc = "loop" /\ k.buf = Null /\ k.ask = Null /\ Null \in Nodes
  BY <1>1, LoopJob DEF Nodes
<1>3. /\ First # Null /\ mem.list["rx"].size > 0 /\ rxq' = Tail(rxq) /\ job["netin"].pc = "loop"
      /\ job' = [job EXCEPT !["netin"] = k]
      /\ ring' = ring /\ rxNow' = rxNow /\ txq' = txq
  BY <1>1 DEF Input, Done, Goes, card
<1>4. PICK m : m = Rest
  OBVIOUS
<1>5. PICK x : x = Null
  OBVIOUS
<1>6. m = IF x = Null THEN Rest ELSE list_remove(Rest, "wait", x)
  BY <1>4, <1>5
<1>7. mem' = m \/ mem' = list_remove(m, "buffs", First)
  BY <1>4
<1>8. QED
  BY <1>2, <1>3, <1>5, <1>6, <1>7, DropKeeps

LEMMA AnswerKeeps ==
    ASSUME Sound, NEW answer, NEW h, InputAnswer(answer, h)
    PROVE  Inv'
<1>1. PICK x : x = Replied(answer, h)
  OBVIOUS
<1>2. PICK m : m = IF x = Null THEN Rest ELSE list_remove(Rest, "wait", x)
  OBVIOUS
<1>3. PICK k : k = [NoJob EXCEPT !.pc = "loop"]
  OBVIOUS
<1>4. k \in Job /\ k.pc = "loop" /\ k.buf = Null /\ k.ask = Null
  BY <1>3, LoopJob
<1>5. /\ First # Null /\ mem.list["rx"].size > 0 /\ rxq' = Tail(rxq) /\ job["netin"].pc = "loop"
      /\ job' = [job EXCEPT !["netin"] = k]
      /\ ring' = ring /\ rxNow' = rxNow /\ txq' = txq /\ pkt' = pkt
  BY <1>3 DEF InputAnswer, Input, Done, Goes, card
<1>6. /\ astray' = (RemoveCuts(x) \/ Strays(x))
      /\ mem' = m \/ mem' = list_remove(m, "buffs", First)
  BY <1>1, <1>2 DEF InputAnswer, Free
<1>7. x \in Nodes /\ (x # Null => x \in Search /\ x \notin Receiving)
  BY <1>1, RepliedIs
<1>8. CASE RemoveCuts(x) \/ Strays(x)
  BY <1>6, <1>8 DEF Inv
<1>9. CASE ~RemoveCuts(x) /\ ~Strays(x)
  <2>1. x \notin Unsent
    BY <1>9 DEF Strays, Unsent
  <2>2. x # Null => x \in Search /\ x \notin Receiving \cup Unsent /\ ~RemoveCuts(x)
    BY <1>7, <1>9, <2>1
  <2>3. Sound'
    BY <1>2, <1>4, <1>5, <1>6, <1>7, <2>2, DropKeeps
  <2>4. QED
    BY <2>3 DEF Inv
<1>10. QED
  BY <1>8, <1>9

\* A received packet that is kept.
LEMMA AnswersKeep ==
    ASSUME Sound, Input, NEW kind \in Kinds, NEW h \in Hosts \cup {Null}, Answers(kind, h),
           NEW pc \in {"tx", "build"}, NEW frees \in BOOLEAN, Sends(pc, frees)
    PROVE  Sound'
<1>1. PICK k : k = [NoJob EXCEPT !.pc = pc, !.buf = First, !.frees = frees]
  OBVIOUS
<1>2. /\ First # Null /\ mem.list["rx"].size > 0 /\ rxq' = Tail(rxq) /\ job["netin"].pc = "loop"
      /\ job' = [job EXCEPT !["netin"] = k]
      /\ ring' = ring /\ rxNow' = rxNow /\ txq' = txq
  BY <1>1 DEF Input, Sends, Goes, card
<1>3. First \in Nodes
  BY <1>2, FirstIs DEF Nodes
<1>4. k \in Job /\ k.pc = pc /\ k.buf = First /\ k.ask = Null
  BY <1>1, <1>3 DEF NoJob, Job, PCs, Nodes
<1>5. k.pc \in {"tx", "build"}
  BY <1>4
<1>6. PICK p : p = [kind |-> kind, host |-> h]
  OBVIOUS
<1>7. p \in Packet
  BY <1>6, PacketIs
<1>8. pkt' = [pkt EXCEPT ![First] = p] /\ mem' = Rest
  BY <1>6 DEF Answers
<1>9. QED
  BY <1>2, <1>4, <1>5, <1>7, <1>8, AnswersKeeps

LEMMA BuildKeeps ==
    ASSUME Sound, NEW a \in Actors, Build(a)
    PROVE  Inv'
<1>1. Types /\ Jobs
  BY DEF Sound
<1>2. PICK h : h = pkt[job[a].buf].host
  OBVIOUS
<1>3. job[a].pc = "build" /\ ring' = ring /\ rxNow' = rxNow /\ rxq' = rxq /\ txq' = txq
  BY DEF Build, card, queues
<1>4. CASE /\ Known(h) /\ Goes(a, [job[a] EXCEPT !.pc = "tx"]) /\ UNCHANGED <<memory, astray>>
  <2>1. PICK k : k = [job[a] EXCEPT !.pc = "tx"]
    OBVIOUS
  <2>2. job' = [job EXCEPT ![a] = k] /\ mem' = mem /\ pkt' = pkt
    BY <1>4, <2>1 DEF Goes, memory
  <2>3. Sound'
    BY <1>3, <2>1, <2>2, JobKeeps
  <2>4. QED
    BY <2>3 DEF Inv
<1>5. ASSUME NEW g \in Found, Alloc(g, FALSE), mem' = Handed(mem, g.b),
             pkt' = [pkt EXCEPT ![g.b] = [kind |-> "ask", host |-> h]],
             Goes(a, [job[a] EXCEPT !.pc = "tx", !.ask = g.b])
      PROVE  Inv'
  <2>1. PICK b : b = g.b
    OBVIOUS
  <2>2. b \in Buffs /\ b \notin InUse /\ (AllocCuts => astray')
    BY <1>5, <2>1 DEF Alloc, Good
  <2>3. PICK p : p = [kind |-> "ask", host |-> h]
    OBVIOUS
  <2>4. p \in Packet
    <3>1. job[a].buf \in Buffs
      BY <1>1, <1>3, JobParts DEF Jobs, Nodes
    <3>2. h \in Hosts \cup {Null}
      BY <1>1, <1>2, <3>1 DEF Types, Packet
    <3>3. "ask" \in Kinds
      BY DEF Kinds
    <3>4. QED
      BY <2>3, <3>2, <3>3, PacketIs
  <2>5. PICK k : k = [job[a] EXCEPT !.pc = "tx", !.ask = b]
    OBVIOUS
  <2>6. mem' = Handed(mem, b) /\ pkt' = [pkt EXCEPT ![b] = p] /\ job' = [job EXCEPT ![a] = k]
    BY <1>5, <2>1, <2>3, <2>5 DEF Goes
  <2>7. CASE AllocCuts
    BY <2>2, <2>7 DEF Inv
  <2>8. CASE ~AllocCuts
    <3>1. Sound'
      BY <1>3, <2>2, <2>4, <2>5, <2>6, <2>8, NewPacketKeeps
    <3>2. QED
      BY <3>1 DEF Inv
  <2>9. QED
    BY <2>7, <2>8
<1>6. QED
  BY <1>2, <1>4, <1>5 DEF Build

LEMMA PingKeeps ==
    ASSUME Sound, NEW u \in Users, NEW h \in Hosts, Ping(u, h)
    PROVE  Inv'
<1>1. u \in Actors /\ u # "netin"
  BY NetAssumption DEF Actors
<1>2. job[u].pc = "idle" /\ ring' = ring /\ rxNow' = rxNow /\ rxq' = rxq /\ txq' = txq
  BY DEF Ping, card, queues
<1>3. PICK g \in Found : /\ Alloc(g, FALSE) /\ mem' = Handed(mem, g.b)
                         /\ pkt' = [pkt EXCEPT ![g.b] = [kind |-> "ping", host |-> h]]
                         /\ Goes(u, [NoJob EXCEPT !.pc = "build", !.buf = g.b])
  BY DEF Ping
<1>4. PICK b : b = g.b
  OBVIOUS
<1>5. b \in Buffs /\ b \notin InUse /\ (AllocCuts => astray')
  BY <1>3, <1>4 DEF Alloc, Good
<1>6. PICK p : p = [kind |-> "ping", host |-> h]
  OBVIOUS
<1>7. p \in Packet
  BY <1>6, PacketIs DEF Kinds
<1>8. PICK k : k = [NoJob EXCEPT !.pc = "build", !.buf = b]
  OBVIOUS
<1>9. mem' = Handed(mem, b) /\ pkt' = [pkt EXCEPT ![b] = p] /\ job' = [job EXCEPT ![u] = k]
  BY <1>3, <1>4, <1>6, <1>8 DEF Goes
<1>10. CASE AllocCuts
  BY <1>5, <1>10 DEF Inv
<1>11. CASE ~AllocCuts
  <2>1. Sound'
    BY <1>1, <1>2, <1>5, <1>7, <1>8, <1>9, <1>11, NewPacketKeeps
  <2>2. QED
    BY <2>1 DEF Inv
<1>12. QED
  BY <1>10, <1>11

LEMMA CardKeeps ==
    ASSUME Sound, Receive
    PROVE  Inv'
<1>1. PICK b : b = ring[rxNow]
  OBVIOUS
<1>2. PICK e \in Found : /\ Alloc(e, FALSE) /\ mem' = Handed(list_insert_back(mem, "rx", b), e.b)
                         /\ ring' = [ring EXCEPT ![rxNow] = e.b]
                         /\ pkt' = [pkt EXCEPT ![e.b] = NoPacket]
                         /\ rxq' = Append(rxq, b)
  BY <1>1 DEF Receive
<1>3. rxNow' = (rxNow + 1) % NRing /\ job' = job /\ txq' = txq
  BY DEF Receive
<1>4. PICK g : g = e.b
  OBVIOUS
<1>5. g \in Buffs /\ g \notin InUse /\ (AllocCuts => astray')
  BY <1>2, <1>4 DEF Alloc, Good
<1>6. /\ mem' = Handed(list_insert_back(mem, "rx", b), g)
      /\ ring' = [ring EXCEPT ![rxNow] = g] /\ pkt' = [pkt EXCEPT ![g] = NoPacket]
  BY <1>2, <1>4
<1>7. CASE AllocCuts
  BY <1>5, <1>7 DEF Inv
<1>8. CASE ~AllocCuts
  <2>1. Sound'
    BY <1>1, <1>2, <1>3, <1>5, <1>6, <1>8, ReceiveKeeps
  <2>2. QED
    BY <2>1 DEF Inv
<1>9. QED
  BY <1>7, <1>8

LEMMA ClockKeeps ==
    ASSUME Sound, Discover
    PROVE  Inv'
<1>1. PICK e \in Found :
        /\ Alloc(e, Overlaps)
        /\ mem' = list_insert_back(list_insert_back(Handed(mem, e.b), "tx", e.b), "wait", e.b)
        /\ pkt' = [pkt EXCEPT ![e.b] = [NoPacket EXCEPT !.kind = "other"]]
        /\ txq' = Append(txq, e.b)
  BY DEF Discover
<1>2. ring' = ring /\ rxNow' = rxNow /\ rxq' = rxq /\ job' = job
  BY DEF Discover, card
<1>3. PICK g : g = e.b
  OBVIOUS
<1>4. g \in Buffs /\ g \notin InUse /\ astray' = (AllocCuts \/ Overlaps)
  BY <1>1, <1>3 DEF Alloc, Good
<1>5. PICK p : p = [NoPacket EXCEPT !.kind = "other"]
  OBVIOUS
<1>6. p \in Packet
  BY <1>5 DEF NoPacket, Packet, Kinds
<1>7. /\ mem' = list_insert_back(list_insert_back(Handed(mem, g), "tx", g), "wait", g)
      /\ pkt' = [pkt EXCEPT ![g] = p] /\ txq' = Append(txq, g)
  BY <1>1, <1>3, <1>5
<1>8. CASE AllocCuts \/ Overlaps
  BY <1>4, <1>8 DEF Inv
<1>9. CASE ~AllocCuts /\ ~Overlaps
  <2>1. Sound'
    BY <1>2, <1>4, <1>6, <1>7, <1>9, DiscoverKeeps
  <2>2. QED
    BY <2>1 DEF Inv
<1>10. QED
  BY <1>8, <1>9

\* Nothing the invariant is about changes.
LEMMA SameKeeps ==
    ASSUME Sound, mem' = mem, pkt' = pkt, ring' = ring, rxNow' = rxNow, job' = job, rxq' = rxq, txq' = txq
    PROVE  Sound'
<1>1. Types' /\ Apart' /\ Jobs'
  BY DEF Sound, Types, Apart, Jobs, Receiving
<1>2. Sending' /\ Newest'
  BY DEF Sound, Sending, Outgoing, Newest
<1>3. Receiving' = Receiving /\ Unsent' = Unsent /\ Search' = Search
  BY DEF Receiving, Unsent, NotYetWaiting, Search, Waiting
<1>4. LastWaiting' /\ BackLinks'
  BY <1>3 DEF Sound, LastWaiting, BackLinks, BackLink, Search
<1>5. Holds("rx", rxq)' /\ Holds("tx", txq)'
  BY DEF Sound, Holds
<1>6. QED
  BY <1>1, <1>2, <1>4, <1>5 DEF Sound

LEMMA AskedKeeps ==
    ASSUME Sound, NEW a \in Actors, Asked(a)
    PROVE  Inv'
<1>1. PICK k : k = [job[a] EXCEPT !.pc = "tx", !.ask = Null]
  OBVIOUS
<1>2. /\ job[a].pc = "asking" /\ job' = [job EXCEPT ![a] = k]
      /\ mem' = mem /\ pkt' = pkt /\ ring' = ring /\ rxNow' = rxNow /\ rxq' = rxq /\ txq' = txq
  BY <1>1 DEF Asked, Goes, memory, card, queues
<1>3. Sound'
  BY <1>1, <1>2, JobKeeps
<1>4. QED
  BY <1>3 DEF Inv

LEMMA NetOutStep ==
    ASSUME Sound, NetOut
    PROVE  Sound'
<1>1. job' = job /\ pkt' = pkt /\ ring' = ring /\ rxNow' = rxNow /\ rxq' = rxq
  BY DEF NetOut, card
<1>2. CASE mem' = mem /\ txq' = txq
  BY <1>1, <1>2, SameKeeps
<1>3. CASE /\ mem.list["tx"].size > 0 /\ mem.list["tx"].head # Null
           /\ mem' = list_remove_front(mem, "tx") /\ txq' = Tail(txq)
  BY <1>1, <1>3, NetOutKeeps
<1>4. QED
  BY <1>2, <1>3 DEF NetOut

LEMMA NetinKeeps ==
    ASSUME Sound, NetinStep
    PROVE  Inv'
<1>1. "netin" \in Actors
  BY DEF Actors
<1>2. CASE InputJunk \/ InputIgnored \/ InputAck
  <2>1. Input /\ Done /\ pkt' = pkt /\ (mem' = Rest \/ mem' = list_remove(Rest, "buffs", First))
    BY <1>2 DEF InputJunk, InputIgnored, InputAck, Free
  <2>2. QED
    BY <2>1, DropsKeep DEF Inv
<1>3. CASE FreeAnswer
  BY <1>3, FreeAnswerKeeps
<1>4. CASE NetinSleeps
  BY <1>4, SameKeeps DEF NetinSleeps, memory, card, queues, Inv
<1>5. ASSUME NEW h \in Hosts, InputEcho(h)
      PROVE  Inv'
  <2>1. Input /\ Answers("echo", h) /\ Sends("tx", TRUE) /\ h \in Hosts \cup {Null} /\ "echo" \in Kinds
    BY <1>5 DEF InputEcho, Kinds
  <2>2. QED
    BY <2>1, AnswersKeep DEF Inv
<1>6. ASSUME NEW h \in Hosts, InputSyn(h)
      PROVE  Inv'
  <2>1. Input /\ Answers("other", h) /\ Sends("build", FALSE) /\ h \in Hosts \cup {Null} /\ "other" \in Kinds
    BY <1>6 DEF InputSyn, Kinds
  <2>2. QED
    BY <2>1, AnswersKeep DEF Inv
<1>7. ASSUME NEW h \in Hosts, NEW n \in {"reply", "pong"}, InputAnswer(n, h)
      PROVE  Inv'
  BY <1>7, AnswerKeeps
<1>8. ASSUME NEW h \in Hosts, NEW n \in 1..NAddrs, InputWho(h, n)
      PROVE  Inv'
  <2>1. Input /\ h \in Hosts \cup {Null} /\ "whose" \in Kinds
    BY <1>8 DEF InputWho, Kinds
  <2>2. CASE Answers("whose", h) /\ Sends("tx", TRUE)
    BY <2>1, <2>2, AnswersKeep DEF Inv
  <2>3. CASE Free(Rest, First) /\ Done /\ pkt' = pkt
    BY <2>1, <2>3, DropsKeep DEF Inv, Free
  <2>4. QED
    BY <1>8, <2>2, <2>3 DEF InputWho
<1>9. ASSUME NEW h \in Hosts, NEW n \in 1..NAddrs, InputOffer(h, n)
      PROVE  Inv'
  <2>1. Input /\ Answers("other", Null) /\ Sends("tx", FALSE) /\ Null \in Hosts \cup {Null} /\ "other" \in Kinds
    BY <1>9 DEF InputOffer, Kinds
  <2>2. QED
    BY <2>1, AnswersKeep DEF Inv
<1>10. CASE Queue("netin")
  BY <1>1, <1>10, QueueKeeps
<1>11. CASE Await("netin")
  BY <1>1, <1>11, AwaitKeeps
<1>12. CASE Build("netin")
  BY <1>1, <1>12, BuildKeeps
<1>13. CASE BuildAstray("netin")
  BY <1>13 DEF BuildAstray, Misallocated, GoesAstray, Inv
<1>14. CASE Asked("netin")
  BY <1>1, <1>14, AskedKeeps
<1>15. QED
  BY <1>2, <1>3, <1>4, <1>5, <1>6, <1>7, <1>8, <1>9, <1>10, <1>11, <1>12, <1>13, <1>14 DEF NetinStep

LEMMA UserKeeps ==
    ASSUME Sound, NEW u \in Users, UserGoesOn(u) \/ UserCalls(u)
    PROVE  Inv'
<1>1. u \in Actors
  BY DEF Actors
<1>2. CASE Queue(u)
  BY <1>1, <1>2, QueueKeeps
<1>3. CASE Await(u)
  BY <1>1, <1>3, AwaitKeeps
<1>4. CASE Build(u)
  BY <1>1, <1>4, BuildKeeps
<1>5. CASE BuildAstray(u)
  BY <1>5 DEF BuildAstray, Misallocated, GoesAstray, Inv
<1>6. CASE Asked(u)
  BY <1>1, <1>6, AskedKeeps
<1>7. CASE Pinged(u)
  <2>1. /\ job[u].pc = "poll" /\ job' = [job EXCEPT ![u] = NoJob]
        /\ mem' = mem /\ pkt' = pkt /\ ring' = ring /\ rxNow' = rxNow /\ rxq' = rxq /\ txq' = txq
    BY <1>7 DEF Pinged, Goes, memory, card, queues
  <2>2. Sound'
    BY <1>1, <2>1, JobKeeps
  <2>3. QED
    BY <2>2 DEF Inv
<1>8. CASE ArpClear(u)
  BY <1>8, SameKeeps DEF ArpClear, memory, card, queues, Inv
<1>9. ASSUME NEW h \in Hosts, Ping(u, h)
      PROVE  Inv'
  BY <1>9, PingKeeps
<1>10. QED
  BY <1>2, <1>3, <1>4, <1>5, <1>6, <1>7, <1>8, <1>9 DEF UserGoesOn, UserCalls

\* While the model has not stopped, only what stops it does not keep the invariant.
LEMMA NotAstray == ASSUME Next PROVE ~astray
<1>1. CASE NetinStep
  BY <1>1 DEF NetinStep, InputJunk, InputIgnored, InputAck, FreeAnswer, NetinSleeps, InputEcho, InputSyn,
              InputAnswer, InputWho, InputOffer, Input, Queue, Await, Build, BuildAstray, Asked,
              Misallocated, GoesAstray
<1>2. CASE \E u \in Users : UserGoesOn(u) \/ UserCalls(u)
  BY <1>2 DEF UserGoesOn, UserCalls, Queue, Await, Build, BuildAstray, Asked, Pinged, ArpClear, Ping,
              Misallocated, GoesAstray
<1>3. CASE NetOut \/ Receive \/ Discover \/ Torn \/ Misallocated
  BY <1>3 DEF NetOut, Receive, Discover, Torn, Misallocated, GoesAstray
<1>4. QED
  BY <1>1, <1>2, <1>3 DEF Next

LEMMA Step ==
    ASSUME Inv, [Next]_vars
    PROVE  Inv'
<1>1. CASE UNCHANGED vars
  <2>1. /\ mem' = mem /\ pkt' = pkt /\ ring' = ring /\ rxNow' = rxNow /\ job' = job
        /\ rxq' = rxq /\ txq' = txq /\ astray' = astray
    BY <1>1 DEF vars, memory, card, queues
  <2>2. CASE astray
    BY <2>1, <2>2 DEF Inv
  <2>3. CASE Sound
    BY <2>1, <2>3, SameKeeps DEF Inv
  <2>4. QED
    BY <2>2, <2>3 DEF Inv
<1>2. CASE Next
  <2>1. Sound
    BY <1>2, NotAstray DEF Inv
  <2>2. CASE NetinStep
    BY <2>1, <2>2, NetinKeeps
  <2>3. CASE NetOut
    BY <2>1, <2>3, NetOutStep DEF Inv
  <2>4. CASE \E u \in Users : UserGoesOn(u) \/ UserCalls(u)
    BY <2>1, <2>4, UserKeeps
  <2>5. CASE Receive
    BY <2>1, <2>5, CardKeeps
  <2>6. CASE Discover
    BY <2>1, <2>6, ClockKeeps
  <2>7. CASE Torn \/ Misallocated
    BY <2>7 DEF Torn, Misallocated, GoesAstray, Inv
  <2>8. QED
    BY <1>2, <2>2, <2>3, <2>4, <2>5, <2>6, <2>7 DEF Next
<1>3. QED
  BY <1>1, <1>2

------------------------------------------------------------------------------
(* The start: a buffer for each descriptor.                                *)

Unmade ==
    [m |-> [next |-> [b \in Buffs |-> Null], pre |-> [b \in Buffs |-> Null],
            list |-> [l \in Lists |-> [head |-> Null, tail |-> Null, size |-> 0]]],
     tk |-> {}]
OneMore(s, i) == [m |-> Handed(s.m, i), tk |-> s.tk \cup {Page(i)}]
Made(f, n) == f = [i \in 0..n |-> IF i = 0 THEN Unmade ELSE OneMore(f[i - 1], i)]

LEMMA MadeExists == \A n \in Nat : \E f : Made(f, n)
<1> DEFINE T == {n \in Nat : \E f : Made(f, n)}
<1>1. 0 \in T
  <2>1. PICK f : f = [i \in 0..0 |-> Unmade]
    OBVIOUS
  <2>2. Made(f, 0)
    BY <2>1 DEF Made
  <2>3. QED
    BY <2>2
<1>2. ASSUME NEW n \in T
      PROVE  n + 1 \in T
  <2>1. PICK f : Made(f, n)
    BY <1>2
  <2>2. PICK g : g = [i \in 0..n+1 |-> IF i = n + 1 THEN OneMore(f[n], n + 1) ELSE f[i]]
    OBVIOUS
  <2>3. \A i \in 0..n+1 : g[i] = IF i = 0 THEN Unmade ELSE OneMore(g[i - 1], i)
    <3>1. SUFFICES ASSUME NEW i \in 0..n+1
                   PROVE  g[i] = IF i = 0 THEN Unmade ELSE OneMore(g[i - 1], i)
      OBVIOUS
    <3>2. n \in Nat /\ \A j \in 0..n : g[j] = f[j]
      BY <2>2
    <3>3. CASE i = n + 1
      <4>1. n \in 0..n /\ i # 0 /\ i - 1 = n /\ g[i] = OneMore(f[n], i)
        BY <2>2, <3>2, <3>3
      <4>2. g[i - 1] = f[n]
        BY <3>2, <4>1
      <4>3. QED
        BY <4>1, <4>2
    <3>4. CASE i = 0
      BY <2>1, <3>2, <3>4 DEF Made
    <3>5. CASE i \in 1..n
      <4>1. i \in 0..n /\ i - 1 \in 0..n /\ i # 0
        BY <3>2, <3>5
      <4>2. f[i] = OneMore(f[i - 1], i)
        BY <2>1, <4>1 DEF Made
      <4>3. QED
        BY <3>2, <4>1, <4>2
    <3>6. QED
      BY <3>2, <3>3, <3>4, <3>5
  <2>4. g = [i \in 0..n+1 |-> g[i]]
    BY <2>2
  <2>5. Made(g, n + 1)
    BY <2>3, <2>4 DEF Made
  <2>6. QED
    BY <2>5
<1> HIDE DEF T
<1>3. T = Nat
  <2>1. T \subseteq Nat
    BY DEF T
  <2>2. QED
    BY <1>1, <1>2, <2>1, AllNumbers
<1> USE DEF T
<1>4. QED
  BY <1>3

\* The three queues of a memory are empty.
NothingQueued(m) ==
    /\ m \in Memory
    /\ \A l \in {"rx", "tx", "wait"} : m.list[l].head = Null /\ m.list[l].tail = Null /\ m.list[l].size = 0

LEMMA MadeIs ==
    ASSUME NEW f, Made(f, NRing)
    PROVE  NothingQueued(f[NRing].m) /\ f[NRing].m.list["buffs"].tail = NRing
<1>1. NRing \in Nat \ {0} /\ 1..NRing \subseteq Buffs
  BY NetAssumption DEF Buffs, NBuff
<1> DEFINE T == {i \in Nat : i <= NRing => /\ NothingQueued(f[i].m)
                                           /\ i > 0 => f[i].m.list["buffs"].tail = i}
<1>2. 0 \in T
  <2>1. f[0] = Unmade
    BY <1>1 DEF Made
  <2>2. PICK m : m = f[0].m
    OBVIOUS
  <2>3. PICK c : c = [head |-> Null, tail |-> Null, size |-> 0]
    OBVIOUS
  <2>4. c \in List /\ c.head = Null /\ c.tail = Null /\ c.size = 0
    BY <2>3 DEF List, Nodes
  <2>5. m = [next |-> [b \in Buffs |-> Null], pre |-> [b \in Buffs |-> Null], list |-> [l \in Lists |-> c]]
    BY <2>1, <2>2, <2>3 DEF Unmade
  <2>6. m \in Memory
    BY <2>4, <2>5 DEF Memory, Nodes
  <2>7. NothingQueued(m)
    BY <2>4, <2>5, <2>6, ListNames DEF NothingQueued
  <2>8. QED
    BY <2>2, <2>7
<1>3. ASSUME NEW i \in T
      PROVE  i + 1 \in T
  <2>1. CASE i + 1 <= NRing
    <3>1. i \in Nat /\ i + 1 \in 0..NRing /\ i + 1 # 0 /\ (i + 1) - 1 = i /\ i + 1 \in Buffs
      BY <1>1, <2>1
    <3>2. NothingQueued(f[i].m)
      BY <1>1, <2>1, <3>1
    <3>3. PICK m \in Memory : m = f[i].m
      BY <3>2 DEF NothingQueued
    <3>4. f[i + 1] = OneMore(f[i], i + 1)
      BY <3>1 DEF Made
    <3>5. PICK n : n = f[i + 1].m
      OBVIOUS
    <3>6. n = Handed(m, i + 1)
      BY <3>3, <3>4, <3>5 DEF OneMore
    <3>7. HandedOut(n, m, i + 1)
      BY <3>1, <3>6, HandedFacts
    <3>8. n \in Memory /\ n.list["buffs"].tail = i + 1 /\ \A l \in Lists : l # "buffs" => n.list[l] = m.list[l]
      BY <3>7 DEF HandedOut
    <3>9. NothingQueued(n)
      BY <3>2, <3>3, <3>8, ListNames DEF NothingQueued
    <3>10. QED
      BY <3>1, <3>5, <3>8, <3>9
  <2>2. QED
    BY <2>1
<1> HIDE DEF T
<1>4. T = Nat
  <2>1. T \subseteq Nat
    BY DEF T
  <2>2. QED
    BY <1>2, <1>3, <2>1, AllNumbers
<1> USE DEF T
<1>5. NRing \in T
  BY <1>1, <1>4
<1>6. QED
  BY <1>1, <1>5

LEMMA Start == Init => Sound
<1>1. SUFFICES ASSUME Init
               PROVE  Sound
  OBVIOUS
<1>2. PICK f : f = CHOOSE h : Made(h, NRing)
  OBVIOUS
<1>3. Made(f, NRing)
  BY <1>2, MadeExists, NetAssumption
<1>4. mem = f[NRing].m
  BY <1>1, <1>2 DEF Init, Made, Unmade, OneMore
<1>5. NothingQueued(mem) /\ mem.list["buffs"].tail = NRing
  BY <1>3, <1>4, MadeIs
<1>6. mem \in Memory /\ \A l \in {"rx", "tx", "wait"} :
        mem.list[l].head = Null /\ mem.list[l].tail = Null /\ mem.list[l].size = 0
  BY <1>5 DEF NothingQueued
<1>7. /\ ring = [i \in 0..NRing-1 |-> i + 1] /\ rxNow = 0 /\ pkt = [b \in Buffs |-> NoPacket]
      /\ rxq = <<>> /\ txq = <<>>
      /\ job = [a \in Actors |-> IF a = "netin" THEN [NoJob EXCEPT !.pc = "loop"] ELSE NoJob]
  BY <1>1 DEF Init
<1>8. NRing \in Nat \ {0} /\ 1..NRing \subseteq Buffs
  BY NetAssumption DEF Buffs, NBuff
<1>9. PICK k : k = [NoJob EXCEPT !.pc = "loop"]
  OBVIOUS
<1>10. k \in Job /\ k.pc = "loop" /\ k.buf = Null /\ k.ask = Null
  BY <1>9, LoopJob
<1>11. NoJob \in Job /\ NoJob.pc = "idle" /\ NoJob.buf = Null /\ NoJob.ask = Null
  BY DEF NoJob, Job, PCs, Nodes
<1>12. job \in [Actors -> Job] /\ \A a \in Actors : job[a].pc \in {"idle", "loop"} /\ job[a].buf = Null /\ job[a].ask = Null
  BY <1>7, <1>9, <1>10, <1>11
<1>13. NoPacket \in Packet /\ NoPacket.kind = "none"
  BY DEF NoPacket, Packet, Kinds
<1>14. ring \in [0..NRing-1 -> Buffs] /\ Range(ring) \subseteq Buffs /\ ToSet(rxq) = {} /\ ToSet(txq) = {}
  BY <1>7, <1>8 DEF Range, ToSet
<1>15. Types
  BY <1>6, <1>7, <1>8, <1>12, <1>13, <1>14 DEF Types
<1>16. Receiving \subseteq Buffs /\ Unsent \subseteq {} /\ Null \notin Receiving
  BY <1>12, <1>14, Numbers DEF Receiving, Unsent, NotYetWaiting
<1>17. Apart
  <2>1. \A i, j \in 0..NRing-1 : ring[i] = ring[j] => i = j
    BY <1>7
  <2>2. Distinct(rxq) /\ Distinct(txq)
    BY <1>7 DEF Distinct
  <2>3. \A b \in Receiving : pkt[b].kind = "none"
    BY <1>7, <1>13, <1>16
  <2>4. QED
    BY <1>12, <1>14, <1>16, <2>1, <2>2, <2>3 DEF Apart
<1>18. Jobs /\ Sending
  BY <1>12, <1>14 DEF Jobs, Sending
<1>19. Holds("rx", rxq) /\ Holds("tx", txq)
  BY <1>6, <1>7 DEF Holds
<1>20. Newest
  BY <1>5, <1>8, <1>12, <1>14 DEF Newest, Null, Actors
<1>21. LastWaiting
  BY <1>6, <1>7, <1>16 DEF LastWaiting
<1>22. Search \subseteq {}
  <2>1. mem.list["wait"].head = Null /\ job["netin"].buf = Null
    BY <1>6, <1>12 DEF Actors
  <2>2. Null \in Nodes
    BY DEF Nodes
  <2>3. Seen(mem, Null) \subseteq {}
    <3>1. PICK S : S = {}
      OBVIOUS
    <3>2. Null \in S \cup {Null} /\ \A x \in S : mem.next[x] \in S \cup {Null}
      BY <3>1
    <3>3. Seen(mem, Null) \subseteq S
      BY <1>6, <2>2, <3>2, SeenWithin
    <3>4. QED
      BY <3>1, <3>3
  <2>4. QED
    BY <2>1, <2>3 DEF Search, Waiting, Seen
<1>23. BackLinks
  BY <1>22 DEF BackLinks, Search
<1>24. QED
  BY <1>15, <1>17, <1>18, <1>19, <1>20, <1>21, <1>23 DEF Sound

------------------------------------------------------------------------------
(* The theorems.                                                           *)

\* Until the model stops, no buffer has two uses, every packet a task has yet to
\* send is out of the queue, and what the search of wait_list may write to is not
\* in the middle of a queue (buff.c, netx.c).
THEOREM BuffersApart == Spec => []Inv
<1>1. Init => Inv
  BY Start DEF Inv
<1>2. Inv /\ [Next]_vars => Inv'
  BY Step
<1>3. QED
  BY <1>1, <1>2, PTL DEF Spec

\* rx_list and tx_list hold the packets that were put in and not yet taken out, in
\* their order, unless they lost some in one of the ways the actions name (list.c,
\* netx.c, buff.c).
THEOREM QueuesHold == Spec => []QueuesSound
<1>1. Inv => QueuesSound
  BY DEF Inv, Sound, QueuesSound
<1>2. QED
  BY <1>1, BuffersApart, PTL

==============================================================================
