------------------------------- MODULE Tty_proofs -------------------------------
(***************************************************************************)
(* Proofs about Tty, for any tasks, terminals, ring sizes and keys, and    *)
(* whatever the tasks write.                                               *)
(***************************************************************************)
EXTENDS Tty, FiniteSetTheorems, SequenceTheorems, TLAPS

Elems(q) == {q[i] : i \in DOMAIN q}
Once(q) == \A i, j \in DOMAIN q : q[i] = q[j] => i = j

\* The tasks that have a place of the output ring in their hands, and the
\* readers that have taken a permit for a byte.
Hands(y) == At(y, {"oput", "note"})
Coming(y) == {t \in Tasks : pc[t] = "iget" /\ Home[t] = y}

\* A queue names the tasks that have stopped for it, once each, and the permits,
\* the places of the ring and the tasks on their way balance.
OutputAt(y) ==
    /\ Once(osem[y].queue)
    /\ \A u \in Elems(osem[y].queue) : pc[u] = "osem" /\ target[u] = y
    /\ IsFiniteSet(Hands(y))
    /\ osem[y].count + ofifo[y].count + Cardinality(Hands(y)) = OBUF
InputAt(y) ==
    /\ Once(isem[y].queue)
    /\ \A u \in Elems(isem[y].queue) : pc[u] = "isem" /\ Home[u] = y
    /\ IsFiniteSet(Coming(y))
    /\ ififo[y].count <= isem[y].count + Cardinality(Coming(y))
    /\ isem[y].queue # <<>> => isem[y].count = 0

Putting == {"owait", "osem", "oput"}
Drawing == {"drain", "note", "spin"}
BytesToPut ==
    \A t \in Tasks : /\ pc[t] \in Putting => out[t] # <<>>
                     /\ pc[t] \in Drawing => out[t] = <<>>

Inv == TypeOK /\ BytesToPut /\ \A y \in Ttys : OutputAt(y) /\ InputAt(y)

\* The byte written next goes behind the ones in the ring.
InStep(f, n) == f.write = (f.read + f.count) % n
RingsInStep == \A y \in Ttys : InStep(ififo[y], IBUF) /\ InStep(ofifo[y], OBUF)

\* com_esc can draw the bytes of s from the state p, and comes out of it.
ParseStates == {"text", "esc", "args", "digits", "lost"}
Draws(p, s) ==
    \E g \in [0..Len(s) -> ParseStates] :
       /\ g[0] = p
       /\ \A i \in 1..Len(s) : g[i] = Parsed(g[i - 1], s[i])
       /\ \A i \in 0..Len(s) : g[i] # "lost"
       /\ g[Len(s)] # "digits"

\* Whoever writes unshared is alone at its terminal, and what it still has to
\* put and to draw can be drawn.
Alone ==
    \A t \in Tasks : pc[t] \in InWrite /\ ~shared[t] => At(target[t], InWrite) = {t}
NoBytesLeft ==
    \A y \in Ttys : At(y, InWrite) = {} => ofifo[y].count = 0
TextFirst == \A t \in Tasks : pc[t] \notin Drawing => parse[t] = "text"
CanDraw(t) ==
    pc[t] \in InWrite /\ ~shared[t] =>
       /\ Draws(parse[t], Contents(ofifo[target[t]], OBUF) \o out[t])
       /\ pc[t] # "spin"
CanBeDrawn == \A t \in Tasks : CanDraw(t)

DrawInv == Alone /\ NoBytesLeft /\ TextFirst /\ CanBeDrawn

\* Every write is made of whole escape sequences.  (com_esc has room for three
\* parameters; how many a sequence has is not modelled.)
WholeSequences == \A t \in Tasks : \A w \in Writes[t] : Draws("text", w)

------------------------------------------------------------------------------
(* Rings.                                                                  *)

USE TtyAssumption

\* Going round a ring: an index that is at most a round ahead.
LEMMA Round ==
    ASSUME NEW n \in Nat \ {0}, NEW a \in 0..n-1, NEW i \in 0..n
    PROVE  /\ (a + i) % n = IF a + i < n THEN a + i ELSE a + i - n
           /\ (a + i) % n \in 0..n-1
OBVIOUS

\* Step goes to the next cell, round the end.
LEMMA StepIsNext ==
    ASSUME NEW n \in Nat \ {0}, NEW a \in 0..n-1
    PROVE  Step(a, n) = (a + 1) % n /\ Step(a, n) \in 0..n-1
<1>1. 1 \in 0..n
  OBVIOUS
<1>2. (a + 1) % n = (IF a + 1 < n THEN a + 1 ELSE a + 1 - n) /\ (a + 1) % n \in 0..n-1
  BY <1>1, Round
<1> DEFINE m == (a + 1) % n
<1> HIDE DEF m
<1>3. Step(a, n) = m
  BY <1>2 DEF Step, m
<1>4. QED
  BY <1>2, <1>3 DEF m

\* What a ring holds.
LEMMA RingParts ==
    ASSUME NEW n \in Nat \ {0}, NEW f \in Ring(n)
    PROVE  /\ f.buf \in [0..n-1 -> Bytes] /\ f.read \in 0..n-1 /\ f.write \in 0..n-1
           /\ f.count \in 0..n /\ n \in Nat /\ f.count \in Nat
           /\ Contents(f, n) \in Seq(Bytes) /\ Len(Contents(f, n)) = f.count
           /\ DOMAIN Contents(f, n) = 1..f.count
           /\ \A i \in 1..f.count : Contents(f, n)[i] = f.buf[(f.read + i - 1) % n]
<1>1. /\ f.buf \in [0..n-1 -> Bytes] /\ f.read \in 0..n-1 /\ f.write \in 0..n-1
      /\ f.count \in 0..n /\ n \in Nat /\ f.count \in Nat
  BY DEF Ring
<1>2. ASSUME NEW i \in 1..f.count PROVE (f.read + i - 1) % n \in 0..n-1
  <2>1. i - 1 \in 0..n /\ f.read + (i - 1) = f.read + i - 1
    BY <1>1
  <2>2. (f.read + (i - 1)) % n \in 0..n-1
    BY <1>1, <2>1, Round
  <2>3. QED
    BY <2>1, <2>2
<1> DEFINE c == Contents(f, n)
<1>3. c \in [1..f.count -> Bytes] /\ \A i \in 1..f.count : c[i] = f.buf[(f.read + i - 1) % n]
  BY <1>1, <1>2 DEF Contents
<1> HIDE DEF c
<1>4. c \in Seq(Bytes) /\ Len(c) = f.count /\ DOMAIN c = 1..f.count
  <2>1. PICK k \in Nat : k = f.count
    BY <1>1
  <2>2. c \in [1..k -> Bytes]
    BY <1>3, <2>1
  <2>3. c \in Seq(Bytes) /\ DOMAIN c = 1..k
    BY <2>2, SeqDef
  <2>4. Len(c) = k
    BY <2>3
  <2>5. QED
    BY <2>1, <2>3, <2>4
<1>5. QED
  BY <1>1, <1>3, <1>4 DEF c

\* tty_fifo_put: the byte comes behind what the ring holds.
LEMMA PutAppends ==
    ASSUME NEW n \in Nat \ {0}, NEW f \in Ring(n), NEW c \in Bytes, ~Full(f, n)
    PROVE  /\ Put(f, n, c) \in Ring(n) /\ Put(f, n, c).count = f.count + 1
           /\ InStep(f, n) => /\ InStep(Put(f, n, c), n)
                              /\ Contents(Put(f, n, c), n) = Append(Contents(f, n), c)
<1> DEFINE g == Put(f, n, c)
<1>1. /\ f.buf \in [0..n-1 -> Bytes] /\ f.read \in 0..n-1 /\ f.write \in 0..n-1
      /\ f.count \in 0..n-1 /\ n \in Nat /\ f.count \in 0..n
  <2>1. /\ f.buf \in [0..n-1 -> Bytes] /\ f.read \in 0..n-1 /\ f.write \in 0..n-1
        /\ n \in Nat /\ f.count \in 0..n
    BY RingParts
  <2>2. ~(f.count >= n)
    BY DEF Full
  <2>3. f.count \in 0..n-1
    BY <2>1, <2>2
  <2>4. QED
    BY <2>1, <2>3
<1>2. PICK b \in [0..n-1 -> Bytes] : b = [f.buf EXCEPT ![f.write] = c]
  BY <1>1
<1>3. PICK k \in 0..n : k = f.count + 1
  BY <1>1
<1>4. PICK w \in 0..n-1 : w = Step(f.write, n)
  BY <1>1, StepIsNext
<1>5. g = [f EXCEPT !.buf = b, !.write = w, !.count = k]
  BY <1>2, <1>3, <1>4 DEF Put
<1>6. /\ g \in Ring(n) /\ g.buf = b /\ g.read = f.read /\ g.write = w /\ g.count = k
  BY <1>1, <1>5 DEF Ring
<1> HIDE DEF g
<1>7. ASSUME InStep(f, n) PROVE InStep(g, n)
  <2>1. f.write = (f.read + f.count) % n /\ w = (f.write + 1) % n
    BY <1>1, <1>4, <1>7, StepIsNext DEF InStep
  <2>2. w = (f.read + k) % n
    <3>1. f.write = IF f.read + f.count < n THEN f.read + f.count ELSE f.read + f.count - n
      BY <1>1, <2>1, Round
    <3>2. (f.read + k) % n = IF f.read + k < n THEN f.read + k ELSE f.read + k - n
      BY <1>1, Round
    <3>3. w = IF f.write + 1 >= n THEN 0 ELSE f.write + 1
      BY <1>4 DEF Step
    <3> DEFINE m == (f.read + k) % n
    <3> HIDE DEF m
    <3>4. m = IF f.read + k < n THEN f.read + k ELSE f.read + k - n
      BY <3>2 DEF m
    <3>5. w = m
      BY <1>1, <1>3, <3>1, <3>3, <3>4
    <3>6. QED
      BY <3>5 DEF m
  <2>3. QED
    BY <1>6, <2>2 DEF InStep
<1>8. ASSUME InStep(f, n) PROVE Contents(g, n) = Append(Contents(f, n), c)
  <2> DEFINE s == Contents(f, n)
             u == Contents(g, n)
             v == Append(s, c)
  <2>1. /\ s \in Seq(Bytes) /\ Len(s) = f.count
        /\ \A i \in 1..f.count : s[i] = f.buf[(f.read + i - 1) % n]
    BY RingParts
  <2>2. /\ u \in Seq(Bytes) /\ Len(u) = k
        /\ \A i \in 1..k : u[i] = b[(f.read + i - 1) % n]
    BY <1>6, RingParts
  <2> HIDE DEF s, u
  <2>3. /\ v \in Seq(Bytes) /\ Len(v) = f.count + 1
        /\ \A i \in 1..f.count : v[i] = s[i]
        /\ v[f.count + 1] = c
    BY <2>1, AppendProperties
  <2> HIDE DEF v
  <2>4. ASSUME NEW i \in 1..k PROVE u[i] = v[i]
    <3>1. i \in Nat /\ i - 1 \in 0..n /\ f.read + (i - 1) = f.read + i - 1 /\ f.count \in 0..n
      BY <1>1, <1>3
    <3>2. (f.read + i - 1) % n \in 0..n-1
      BY <1>1, <3>1, Round
    <3>3. (f.read + i - 1) % n = IF f.read + i - 1 < n THEN f.read + i - 1 ELSE f.read + i - 1 - n
      BY <1>1, <3>1, Round
    <3>4. f.write = IF f.read + f.count < n THEN f.read + f.count ELSE f.read + f.count - n
      BY <1>1, <1>8, Round DEF InStep
    <3>5. CASE i = f.count + 1
      <4>1. (f.read + i - 1) % n = f.write
        BY <1>1, <3>3, <3>4, <3>5
      <4>2. u[i] = c
        BY <1>1, <1>2, <2>2, <4>1
      <4>3. QED
        BY <2>3, <3>5, <4>2
    <3>6. CASE i # f.count + 1
      <4>1. i \in 1..f.count
        BY <1>1, <1>3, <3>6
      <4>2. (f.read + i - 1) % n # f.write
        <5> DEFINE m == (f.read + i - 1) % n
        <5>1. m = IF f.read + i - 1 < n THEN f.read + i - 1 ELSE f.read + i - 1 - n
          BY <3>3
        <5> HIDE DEF m
        <5>2. f.read \in 0..n-1 /\ f.count \in 0..n-1 /\ n \in Nat
          BY <1>1
        <5>3. m # f.write
          BY <3>4, <4>1, <5>1, <5>2
        <5>4. QED
          BY <5>3 DEF m
      <4>3. b[(f.read + i - 1) % n] = f.buf[(f.read + i - 1) % n]
        BY <1>1, <1>2, <3>2, <4>2
      <4>4. QED
        BY <2>1, <2>2, <2>3, <4>1, <4>3
    <3>7. QED
      BY <3>5, <3>6
  <2>5. u = v
    <3>1. Len(u) = Len(v)
      BY <1>3, <2>2, <2>3
    <3>2. QED
      BY <2>2, <2>3, <2>4, <3>1, SeqEqual
  <2>6. QED
    BY <2>5 DEF s, u, v
<1>9. QED
  BY <1>3, <1>6, <1>7, <1>8 DEF g

\* tty_fifo_get: the byte that has been there longest, and the others stay.
LEMMA GetTakesHead ==
    ASSUME NEW n \in Nat \ {0}, NEW f \in Ring(n), ~Empty(f)
    PROVE  /\ Get(f, n) \in Ring(n) /\ Get(f, n).count = f.count - 1
           /\ Front(f) \in Bytes
           /\ Contents(f, n) # <<>> /\ Front(f) = Head(Contents(f, n))
           /\ InStep(f, n) => /\ InStep(Get(f, n), n)
                              /\ Contents(Get(f, n), n) = Tail(Contents(f, n))
<1> DEFINE g == Get(f, n)
<1>1. /\ f.buf \in [0..n-1 -> Bytes] /\ f.read \in 0..n-1 /\ f.write \in 0..n-1
      /\ f.count \in 1..n /\ n \in Nat /\ f.count \in 0..n
  <2>1. /\ f.buf \in [0..n-1 -> Bytes] /\ f.read \in 0..n-1 /\ f.write \in 0..n-1
        /\ n \in Nat /\ f.count \in 0..n
    BY RingParts
  <2>2. f.count # 0
    BY DEF Empty
  <2>3. f.count \in 1..n
    BY <2>1, <2>2
  <2>4. QED
    BY <2>1, <2>3
<1>2. PICK b \in [0..n-1 -> Bytes] : b = [f.buf EXCEPT ![f.read] = "x"]
  BY <1>1 DEF Bytes
<1>3. PICK k \in 0..n : k = f.count - 1
  BY <1>1
<1>4. PICK r \in 0..n-1 : r = Step(f.read, n)
  BY <1>1, StepIsNext
<1>5. g = [f EXCEPT !.buf = b, !.read = r, !.count = k]
  BY <1>2, <1>3, <1>4 DEF Get
<1>6. /\ g \in Ring(n) /\ g.buf = b /\ g.read = r /\ g.write = f.write /\ g.count = k
  BY <1>1, <1>5 DEF Ring
<1> HIDE DEF g
<1>7. r = IF f.read + 1 < n THEN f.read + 1 ELSE 0
  BY <1>1, <1>4 DEF Step
<1> DEFINE s == Contents(f, n)
           u == Contents(g, n)
<1>8. /\ s \in Seq(Bytes) /\ Len(s) = f.count
      /\ \A i \in 1..f.count : s[i] = f.buf[(f.read + i - 1) % n]
  BY RingParts
<1>9. /\ u \in Seq(Bytes) /\ Len(u) = k
      /\ \A i \in 1..k : u[i] = b[(r + i - 1) % n]
  BY <1>6, RingParts
<1> HIDE DEF s, u
<1>10. s # <<>> /\ Head(s) = s[1] /\ Front(f) = s[1] /\ s[1] \in Bytes
  <2>1. s # <<>> /\ Head(s) = s[1] /\ 1 \in 1..f.count
    BY <1>1, <1>8
  <2>2. f.read + 1 - 1 = f.read /\ f.read % n = f.read
    <3>1. f.read + 0 = f.read /\ 0 \in 0..n
      BY <1>1
    <3>2. f.read % n = f.read
      BY <1>1, <3>1, Round
    <3>3. QED
      BY <1>1, <3>2
  <2>3. s[1] = f.buf[f.read]
    BY <1>8, <2>1, <2>2
  <2>4. QED
    BY <1>1, <2>1, <2>3 DEF Front
<1>11. ASSUME InStep(f, n) PROVE InStep(g, n)
  <2>1. f.write = IF f.read + f.count < n THEN f.read + f.count ELSE f.read + f.count - n
    BY <1>1, <1>11, Round DEF InStep
  <2>2. (r + k) % n = IF r + k < n THEN r + k ELSE r + k - n
    BY <1>1, Round
  <2> DEFINE m == (r + k) % n
  <2> HIDE DEF m
  <2>3. m = IF r + k < n THEN r + k ELSE r + k - n
    BY <2>2 DEF m
  <2>4. f.write = m
    <3>1. CASE f.read + 1 < n
      <4>1. PICK e \in Nat : e = f.read + f.count
        BY <1>1
      <4>2. r + k = e
        <5>1. f.read \in Nat /\ f.count \in Nat /\ r = f.read + 1 /\ k = f.count - 1
          BY <1>1, <1>3, <1>7, <3>1
        <5>2. QED
          BY <4>1, <5>1
      <4>3. m = IF e < n THEN e ELSE e - n
        BY <2>3, <4>2
      <4>4. f.write = IF e < n THEN e ELSE e - n
        BY <1>1, <2>1, <4>1
      <4>5. QED
        BY <4>3, <4>4
    <3>2. CASE ~(f.read + 1 < n)
      <4>1. r = 0 /\ f.read = n - 1 /\ k < n /\ ~(f.read + f.count < n)
        BY <1>1, <1>3, <1>7, <3>2
      <4>2. m = k
        BY <1>3, <2>3, <4>1
      <4>3. f.write = k
        BY <1>1, <1>3, <2>1, <4>1
      <4>4. QED
        BY <4>2, <4>3
    <3>3. QED
      BY <3>1, <3>2
  <2>5. f.write = (r + k) % n
    BY <2>4 DEF m
  <2>6. QED
    BY <1>6, <2>5 DEF InStep
<1>12. u = Tail(s)
  <2> DEFINE v == Tail(s)
  <2>1. /\ v \in Seq(Bytes) /\ Len(v) = f.count - 1
        /\ \A i \in 1..(f.count - 1) : v[i] = s[i + 1]
    BY <1>1, <1>8, <1>10, HeadTailProperties
  <2> HIDE DEF v
  <2>2. ASSUME NEW i \in 1..k PROVE u[i] = v[i]
    <3>1. i - 1 \in 0..n /\ r + (i - 1) = r + i - 1 /\ i \in 0..n /\ f.read + i = f.read + (i + 1) - 1
          /\ i + 1 \in 1..f.count /\ i \in 1..(f.count - 1)
      BY <1>1, <1>3
    <3>2. (r + i - 1) % n = IF r + i - 1 < n THEN r + i - 1 ELSE r + i - 1 - n
      BY <1>1, <3>1, Round
    <3>3. (f.read + i) % n = IF f.read + i < n THEN f.read + i ELSE f.read + i - n
      BY <1>1, <3>1, Round
    <3>4. (r + i - 1) % n = (f.read + i) % n /\ (f.read + i) % n # f.read
      <4> DEFINE m == (r + i - 1) % n
                 l == (f.read + i) % n
      <4>1. /\ m = IF r + i - 1 < n THEN r + i - 1 ELSE r + i - 1 - n
            /\ l = IF f.read + i < n THEN f.read + i ELSE f.read + i - n
        BY <3>2, <3>3
      <4> HIDE DEF m, l
      <4>2. i \in 1..(n - 1) /\ f.read \in 0..n-1 /\ n \in Nat
        BY <1>1, <1>3
      <4>3. m = l /\ l # f.read
        BY <1>7, <4>1, <4>2
      <4>4. QED
        BY <4>3 DEF m, l
    <3>5. (f.read + i) % n \in 0..n-1
      BY <1>1, <3>1, Round
    <3>6. u[i] = f.buf[(f.read + i) % n]
      BY <1>1, <1>2, <1>9, <3>4, <3>5
    <3>7. v[i] = f.buf[(f.read + i) % n]
      BY <1>8, <2>1, <3>1
    <3>8. QED
      BY <3>6, <3>7
  <2>3. u = v
    <3>1. Len(u) = Len(v)
      BY <1>3, <1>9, <2>1
    <3>2. QED
      BY <1>9, <2>1, <2>2, <3>1, SeqEqual
  <2>4. QED
    BY <2>3 DEF v
<1>13. QED
  BY <1>3, <1>6, <1>10, <1>11, <1>12 DEF g, s, u

------------------------------------------------------------------------------
(* Queues and semaphores.                                                  *)

\* A task that stops comes behind the ones that have stopped.
LEMMA QueueAppend ==
    ASSUME NEW q \in Seq(Tasks), NEW t \in Tasks
    PROVE  /\ Append(q, t) \in Seq(Tasks)
           /\ Elems(Append(q, t)) = Elems(q) \cup {t}
           /\ Once(q) /\ t \notin Elems(q) => Once(Append(q, t))
<1> DEFINE v == Append(q, t)
<1>1. /\ v \in Seq(Tasks) /\ Len(q) \in Nat /\ Len(v) = Len(q) + 1
      /\ \A i \in 1..Len(q) : v[i] = q[i]
      /\ v[Len(q) + 1] = t
      /\ DOMAIN q = 1..Len(q) /\ DOMAIN v = 1..(Len(q) + 1)
  BY AppendProperties
<1> HIDE DEF v
<1>2. DOMAIN v = DOMAIN q \cup {Len(q) + 1} /\ Len(q) + 1 \notin DOMAIN q
  BY <1>1
<1>3. Elems(v) = Elems(q) \cup {t}
  BY <1>1, <1>2 DEF Elems
<1>4. Once(q) /\ t \notin Elems(q) => Once(v)
  BY <1>1, <1>2 DEF Elems, Once
<1>5. QED
  BY <1>1, <1>3, <1>4 DEF v

\* The first of a queue leaves it.
LEMMA QueueTail ==
    ASSUME NEW q \in Seq(Tasks), q # <<>>
    PROVE  /\ Tail(q) \in Seq(Tasks) /\ Head(q) \in Elems(q) /\ Head(q) \in Tasks
           /\ Elems(Tail(q)) \subseteq Elems(q)
           /\ Once(q) => Once(Tail(q)) /\ Head(q) \notin Elems(Tail(q))
<1> DEFINE v == Tail(q)
<1>1. /\ v \in Seq(Tasks) /\ Len(q) \in Nat /\ Len(q) >= 1 /\ Len(v) = Len(q) - 1
      /\ \A i \in 1..Len(v) : v[i] = q[i + 1]
      /\ Head(q) = q[1] /\ q[1] \in Tasks
      /\ DOMAIN q = 1..Len(q) /\ DOMAIN v = 1..(Len(q) - 1)
  BY HeadTailProperties
<1> HIDE DEF v
<1>2. \A i \in DOMAIN v : i \in Nat /\ i + 1 \in DOMAIN q /\ v[i] = q[i + 1] /\ i + 1 # 1
  BY <1>1
<1>3. 1 \in DOMAIN q
  BY <1>1
<1>4. Elems(v) \subseteq Elems(q) /\ Head(q) \in Elems(q)
  BY <1>1, <1>2, <1>3 DEF Elems
<1>5. ASSUME Once(q) PROVE Once(v) /\ Head(q) \notin Elems(v)
  <2>1. Once(v)
    <3> SUFFICES ASSUME NEW i \in DOMAIN v, NEW j \in DOMAIN v, v[i] = v[j] PROVE i = j
      BY DEF Once
    <3>1. i + 1 = j + 1
      BY <1>2, <1>5 DEF Once
    <3>2. QED
      BY <1>2, <3>1
  <2>2. Head(q) \notin Elems(v)
    <3> SUFFICES ASSUME NEW i \in DOMAIN v, v[i] = q[1] PROVE FALSE
      BY <1>1 DEF Elems
    <3>1. QED
      BY <1>2, <1>3, <1>5 DEF Once
  <2>3. QED
    BY <2>1, <2>2
<1>6. QED
  BY <1>1, <1>4, <1>5 DEF v

\* sem_wait.
LEMMA WaitSem ==
    ASSUME NEW s \in Sem, NEW t \in Tasks
    PROVE  /\ Wait(s, t) \in Sem /\ s.count \in Nat /\ s.queue \in Seq(Tasks)
           /\ s.count > 0 => Wait(s, t).count = s.count - 1 /\ Wait(s, t).queue = s.queue
           /\ ~(s.count > 0) => Wait(s, t).count = s.count /\ Wait(s, t).queue = Append(s.queue, t)
<1>1. s.count \in Nat /\ s.queue \in Seq(Tasks)
  BY DEF Sem
<1>2. CASE s.count > 0
  <2>1. PICK n \in Nat : n = s.count - 1
    BY <1>1, <1>2
  <2>2. Wait(s, t) = [s EXCEPT !.count = n]
    BY <1>2, <2>1 DEF Wait
  <2>3. QED
    BY <1>1, <1>2, <2>1, <2>2 DEF Sem
<1>3. CASE ~(s.count > 0)
  <2>1. PICK q \in Seq(Tasks) : q = Append(s.queue, t)
    BY <1>1, QueueAppend
  <2>2. Wait(s, t) = [s EXCEPT !.queue = q]
    BY <1>3, <2>1 DEF Wait
  <2>3. QED
    BY <1>1, <1>3, <2>1, <2>2 DEF Sem
<1>4. QED
  BY <1>2, <1>3

\* sem_notify.
LEMMA NotifySem ==
    ASSUME NEW s \in Sem
    PROVE  /\ Notify(s) \in Sem /\ s.count \in Nat /\ s.queue \in Seq(Tasks)
           /\ s.queue # <<>> => Notify(s).count = s.count /\ Notify(s).queue = Tail(s.queue)
           /\ s.queue = <<>> => Notify(s).count = s.count + 1 /\ Notify(s).queue = <<>>
<1>1. s.count \in Nat /\ s.queue \in Seq(Tasks)
  BY DEF Sem
<1>2. CASE s.queue = <<>>
  <2>1. PICK n \in Nat : n = s.count + 1
    BY <1>1
  <2>2. Notify(s) = [s EXCEPT !.count = n]
    BY <1>2, <2>1 DEF Notify
  <2>3. QED
    BY <1>1, <1>2, <2>1, <2>2 DEF Sem
<1>3. CASE s.queue # <<>>
  <2>1. PICK q \in Seq(Tasks) : q = Tail(s.queue)
    BY <1>1, <1>3, QueueTail
  <2>2. Notify(s) = [s EXCEPT !.queue = q]
    BY <1>3, <2>1 DEF Notify
  <2>3. QED
    BY <1>1, <1>3, <2>1, <2>2 DEF Sem
<1>4. QED
  BY <1>2, <1>3

\* An empty queue names nobody.
LEMMA NobodyWaits == Elems(<<>>) = {} /\ Once(<<>>)
BY DEF Elems, Once

\* Where a task goes, and who has the processor then.
LEMMA GoesThere ==
    ASSUME TypeOK, NEW t \in Tasks, NEW to \in PCs, NEW off \in BOOLEAN, Goes(t, to, off)
    PROVE  /\ pc' \in [Tasks -> PCs] /\ pc'[t] = to /\ \A u \in Tasks : u # t => pc'[u] = pc[u]
           /\ masked' \in [Tasks -> BOOLEAN] /\ cpu' \in Tasks \cup {Nobody}
<1>1. pc' = [pc EXCEPT ![t] = to] /\ masked' = [masked EXCEPT ![t] = off]
      /\ cpu' \in {t, Nobody}
  BY DEF Goes
<1>2. pc \in [Tasks -> PCs] /\ masked \in [Tasks -> BOOLEAN]
  BY DEF TypeOK
<1>3. QED
  BY <1>1, <1>2

------------------------------------------------------------------------------
(* Places and permits, step by step.                                       *)

\* Output of a terminal that a step has nothing to do with.
LEMMA OutputStays ==
    ASSUME NEW y \in Ttys, OutputAt(y), osem'[y] = osem[y], ofifo'[y] = ofifo[y],
           \A u \in Tasks : pc'[u] \in {"oput", "note"} /\ target'[u] = y
                               <=> pc[u] \in {"oput", "note"} /\ target[u] = y,
           \A u \in Tasks : pc[u] = "osem" /\ target[u] = y => pc'[u] = "osem" /\ target'[u] = y,
           TypeOK
    PROVE  OutputAt(y)'
<1>1. Hands(y)' = Hands(y)
  BY DEF Hands, At
<1>2. osem[y].queue \in Seq(Tasks)
  BY DEF TypeOK, Sem
<1>3. Elems(osem[y].queue) \subseteq Tasks
  BY <1>2 DEF Elems
<1>4. QED
  BY <1>1, <1>3 DEF OutputAt

\* The same for its input.
LEMMA InputStays ==
    ASSUME NEW y \in Ttys, InputAt(y), isem'[y] = isem[y], ififo'[y] = ififo[y],
           \A u \in Tasks : Home[u] = y => (pc'[u] = "iget" <=> pc[u] = "iget"),
           \A u \in Tasks : pc[u] = "isem" => pc'[u] = "isem",
           TypeOK
    PROVE  InputAt(y)'
<1>1. Coming(y)' = Coming(y)
  BY DEF Coming
<1>2. isem[y].queue \in Seq(Tasks)
  BY DEF TypeOK, Sem
<1>3. Elems(isem[y].queue) \subseteq Tasks
  BY <1>2 DEF Elems
<1>4. QED
  BY <1>1, <1>3 DEF InputAt

\* Each terminal's rings and semaphores, and what a task has.
LEMMA Parts ==
    ASSUME TypeOK
    PROVE  /\ \A y \in Ttys : /\ ififo[y] \in Ring(IBUF) /\ ofifo[y] \in Ring(OBUF)
                              /\ isem[y] \in Sem /\ osem[y] \in Sem
           /\ \A t \in Tasks : /\ Home[t] \in Ttys /\ target[t] \in Ttys /\ pc[t] \in PCs
                               /\ want[t] \in Nat /\ out[t] \in Seq(Bytes)
                               /\ parse[t] \in ParseStates
                               /\ masked[t] \in BOOLEAN /\ shared[t] \in BOOLEAN
           /\ IBUF \in Nat \ {0} /\ OBUF \in Nat \ {0}
BY DEF TypeOK, ParseStates

\* A write begins with bytes to put, at a terminal.
LEMMA BeginsWrite ==
    ASSUME TypeOK, NEW t \in Tasks, NEW y \in Ttys, NEW w \in Seq(Bytes), BeginWrite(t, y, w)
    PROVE  /\ out' \in [Tasks -> Seq(Bytes)] /\ target' \in [Tasks -> Ttys]
           /\ shared' \in [Tasks -> BOOLEAN]
           /\ out'[t] = w /\ target'[t] = y
           /\ \A u \in Tasks : u # t => out'[u] = out[u] /\ target'[u] = target[u]
<1>1. /\ out' = [out EXCEPT ![t] = w] /\ target' = [target EXCEPT ![t] = y]
      /\ shared' = [u \in Tasks |-> IF u = t THEN At(y, InWrite) # {}
                                     ELSE shared[u] \/ u \in At(y, InWrite)]
  BY DEF BeginWrite
<1>2. shared' \in [Tasks -> BOOLEAN]
  BY <1>1, Zenon
<1>3. QED
  BY <1>1, <1>2 DEF TypeOK

\* The start of a read.
LEMMA ReadKeepsInv ==
    ASSUME Inv, NEW t \in Tasks, NEW n \in ReadSizes[t], Read(t, n)
    PROVE  Inv'
<1>1. TypeOK /\ pc[t] = "user" /\ n \in Nat
  BY DEF Inv, Read
<1>2. /\ pc' \in [Tasks -> PCs] /\ pc'[t] = "iwait" /\ \A u \in Tasks : u # t => pc'[u] = pc[u]
      /\ masked' \in [Tasks -> BOOLEAN] /\ cpu' \in Tasks \cup {Nobody}
  BY <1>1, GoesThere DEF Read, PCs
<1>3. /\ UNCHANGED <<ififo, ofifo, isem, osem, now, out, target, parse, shared>>
      /\ want' = [want EXCEPT ![t] = n]
  BY DEF Read, fifos, sems
<1>4. TypeOK'
  BY <1>1, <1>2, <1>3 DEF TypeOK
<1>5. BytesToPut'
  BY <1>2, <1>3 DEF Inv, BytesToPut, Putting, Drawing
<1>6. ASSUME NEW y \in Ttys PROVE OutputAt(y)' /\ InputAt(y)'
  <2>1. OutputAt(y)'
    BY <1>1, <1>2, <1>3, OutputStays DEF Inv
  <2>2. InputAt(y)'
    BY <1>1, <1>2, <1>3, InputStays DEF Inv
  <2>3. QED
    BY <2>1, <2>2
<1>7. QED
  BY <1>4, <1>5, <1>6 DEF Inv

\* The start of a write.
LEMMA WriteKeepsInv ==
    ASSUME Inv, NEW t \in Tasks, NEW w \in Writes[t], Write(t, w)
    PROVE  Inv'
<1>1. TypeOK /\ pc[t] = "user" /\ w \in Seq(Bytes) /\ w # <<>> /\ Home[t] \in Ttys
  BY DEF Inv, Write
<1>2. /\ pc' \in [Tasks -> PCs] /\ pc'[t] = "owait" /\ \A u \in Tasks : u # t => pc'[u] = pc[u]
      /\ masked' \in [Tasks -> BOOLEAN] /\ cpu' \in Tasks \cup {Nobody}
  BY <1>1, GoesThere DEF Write, PCs
<1>3. UNCHANGED <<ififo, ofifo, isem, osem, now, want, parse>>
  BY DEF Write, fifos, sems
<1>4. /\ out' \in [Tasks -> Seq(Bytes)] /\ target' \in [Tasks -> Ttys]
      /\ shared' \in [Tasks -> BOOLEAN]
      /\ out'[t] = w /\ target'[t] = Home[t]
      /\ \A u \in Tasks : u # t => out'[u] = out[u] /\ target'[u] = target[u]
  BY <1>1, BeginsWrite DEF Write
<1>5. TypeOK'
  BY <1>1, <1>2, <1>3, <1>4 DEF TypeOK
<1>6. BytesToPut'
  BY <1>1, <1>2, <1>4 DEF Inv, BytesToPut, Putting, Drawing
<1>7. ASSUME NEW y \in Ttys PROVE OutputAt(y)' /\ InputAt(y)'
  <2>1. OutputAt(y)'
    BY <1>1, <1>2, <1>3, <1>4, OutputStays DEF Inv
  <2>2. InputAt(y)'
    BY <1>1, <1>2, <1>3, InputStays DEF Inv
  <2>3. QED
    BY <2>1, <2>2
<1>8. QED
  BY <1>5, <1>6, <1>7 DEF Inv

\* A reader takes a permit, or stops.
LEMMA WaitInputKeepsInv ==
    ASSUME Inv, NEW t \in Tasks, WaitInput(t)
    PROVE  Inv'
<1> DEFINE h == Home[t]
           s == isem[h]
           to == IF s.count > 0 THEN "iget" ELSE "isem"
<1>1. TypeOK /\ pc[t] = "iwait" /\ h \in Ttys /\ s \in Sem /\ to \in PCs
      /\ masked[t] \in BOOLEAN
  BY Parts DEF Inv, WaitInput, PCs
<1>2. /\ isem' = [isem EXCEPT ![h] = Wait(s, t)] /\ Goes(t, to, masked[t])
      /\ UNCHANGED <<ififo, ofifo, osem, now, want, out, target, parse, shared>>
  BY DEF WaitInput, fifos, local
<1>3. /\ Wait(s, t) \in Sem /\ s.count \in Nat /\ s.queue \in Seq(Tasks)
      /\ s.count > 0 => Wait(s, t).count = s.count - 1 /\ Wait(s, t).queue = s.queue
      /\ ~(s.count > 0) => Wait(s, t).count = s.count /\ Wait(s, t).queue = Append(s.queue, t)
  BY <1>1, WaitSem
<1> HIDE DEF s, to, h
<1>4. /\ pc' \in [Tasks -> PCs] /\ pc'[t] = to /\ \A u \in Tasks : u # t => pc'[u] = pc[u]
      /\ masked' \in [Tasks -> BOOLEAN] /\ cpu' \in Tasks \cup {Nobody}
  BY <1>1, <1>2, GoesThere
<1>5. isem' \in [Ttys -> Sem] /\ isem'[h] = Wait(s, t) /\ \A y \in Ttys : y # h => isem'[y] = isem[y]
  BY <1>1, <1>2, <1>3 DEF TypeOK
<1>6. TypeOK'
  BY <1>1, <1>2, <1>4, <1>5 DEF TypeOK
<1>7. to \in {"iget", "isem"} /\ (to = "iget" <=> s.count > 0)
  BY DEF to
<1>8. BytesToPut'
  BY <1>2, <1>4, <1>7 DEF Inv, BytesToPut, Putting, Drawing
<1>9. ASSUME NEW y \in Ttys PROVE OutputAt(y)'
  BY <1>1, <1>2, <1>4, <1>7, OutputStays DEF Inv
<1>10. ASSUME NEW y \in Ttys, y # h PROVE InputAt(y)'
  BY <1>1, <1>2, <1>4, <1>5, <1>10, InputStays DEF Inv, h
<1>11. InputAt(h)'
  <2>1. InputAt(h) /\ t \notin Coming(h) /\ t \notin Elems(s.queue)
    BY <1>1 DEF Inv, InputAt, Coming, s
  <2>2. CASE s.count > 0
    <3>1. Coming(h)' = Coming(h) \cup {t}
      BY <1>4, <1>7, <2>2 DEF Coming, h
    <3>2. IsFiniteSet(Coming(h)) /\ Cardinality(Coming(h)) \in Nat
      BY <2>1, FS_CardinalityType DEF InputAt
    <3>3. IsFiniteSet(Coming(h)') /\ Cardinality(Coming(h)') = Cardinality(Coming(h)) + 1
      BY <2>1, <3>1, <3>2, FS_AddElement
    <3>4. ififo[h].count \in Nat
      BY <1>1, Parts, RingParts
    <3>5. ififo[h].count <= isem'[h].count + Cardinality(Coming(h)')
      BY <1>3, <1>5, <2>1, <2>2, <3>2, <3>3, <3>4 DEF InputAt, s
    <3>6. \A u \in Elems(s.queue) : pc'[u] = "isem" /\ Home[u] = h
      <4>1. Elems(s.queue) \subseteq Tasks
        BY <1>3 DEF Elems
      <4>2. QED
        BY <4>1, <1>4, <2>1 DEF InputAt, s
    <3>7. s.queue = <<>>
      BY <2>1, <2>2, <1>3 DEF InputAt, s
    <3>8. QED
      BY <1>2, <1>3, <1>5, <2>1, <2>2, <3>3, <3>5, <3>6, <3>7 DEF InputAt, s
  <2>3. CASE ~(s.count > 0)
    <3>1. Coming(h)' = Coming(h)
      BY <1>1, <1>4, <1>7, <2>3 DEF Coming
    <3>2. isem'[h].count = s.count /\ isem'[h].queue = Append(s.queue, t) /\ s.count = 0
      BY <1>3, <1>5, <2>3
    <3>3. /\ Elems(isem'[h].queue) = Elems(s.queue) \cup {t} /\ Once(isem'[h].queue)
      BY <1>3, <2>1, <3>2, QueueAppend DEF InputAt, s
    <3>4. \A u \in Elems(isem'[h].queue) : pc'[u] = "isem" /\ Home[u] = h
      <4>1. Elems(s.queue) \subseteq Tasks
        BY <1>3 DEF Elems
      <4>2. QED
        BY <4>1, <3>3, <1>4, <1>7, <2>1, <2>3 DEF InputAt, s, h
    <3>5. QED
      BY <1>2, <2>1, <3>1, <3>2, <3>3, <3>4 DEF InputAt, s
  <2>4. QED
    BY <2>2, <2>3
<1>12. QED
  BY <1>6, <1>8, <1>9, <1>10, <1>11 DEF Inv

\* A reader takes the byte it has a permit for and begins to echo it, or finds
\* none and gives up.
LEMMA GetInputKeepsInv ==
    ASSUME Inv, NEW t \in Tasks, GetInput(t)
    PROVE  Inv'
<1> DEFINE h == Home[t]
           f == ififo[h]
<1>1. TypeOK /\ pc[t] = "iget" /\ h \in Ttys /\ f \in Ring(IBUF) /\ f.count \in Nat
      /\ masked[t] \in BOOLEAN /\ now \in Ttys
  BY Parts, RingParts DEF Inv, GetInput, TypeOK
<1>2. UNCHANGED <<ofifo, isem, osem, now, parse>>
  BY DEF GetInput, sems
<1>3. InputAt(h) /\ t \in Coming(h) /\ IsFiniteSet(Coming(h)) /\ Cardinality(Coming(h)) \in Nat
      /\ Cardinality(Coming(h) \ {t}) = Cardinality(Coming(h)) - 1 /\ IsFiniteSet(Coming(h) \ {t})
      /\ Cardinality(Coming(h) \ {t}) \in Nat
  <2>1. InputAt(h) /\ t \in Coming(h) /\ IsFiniteSet(Coming(h))
    BY <1>1 DEF Inv, InputAt, Coming
  <2>2. QED
    BY <2>1, FS_CardinalityType, FS_RemoveElement
\* Both ways out of the step leave the others where they are.
<1>4. ASSUME \A u \in Tasks : u # t => pc'[u] = pc[u] /\ target'[u] = target[u],
             pc'[t] \in {"user", "owait"},
             \A y \in Ttys : y # h => ififo'[y] = ififo[y],
             ififo'[h].count <= f.count, f.count > 0 => ififo'[h].count = f.count - 1,
             ififo'[h].count \in Nat
      PROVE  \A y \in Ttys : OutputAt(y)' /\ InputAt(y)'
  <2> HIDE DEF f, h
  <2>1. ASSUME NEW y \in Ttys PROVE OutputAt(y)'
    BY <1>1, <1>2, <1>4, OutputStays DEF Inv
  <2>2. ASSUME NEW y \in Ttys, y # h PROVE InputAt(y)'
    BY <1>1, <1>2, <1>4, <2>2, InputStays DEF Inv, h
  <2>3. InputAt(h)'
    <3>1. Coming(h)' = Coming(h) \ {t}
      BY <1>1, <1>4 DEF Coming
    <3>2. ififo[h].count <= isem[h].count + Cardinality(Coming(h)) /\ isem[h].count \in Nat
          /\ isem[h].queue \in Seq(Tasks)
      BY <1>1, <1>3, Parts DEF InputAt, Sem
    <3>3. ififo'[h].count <= isem'[h].count + Cardinality(Coming(h)')
      <4>1. PICK k \in Nat : k = Cardinality(Coming(h)) - 1 /\ Cardinality(Coming(h)') = k
        BY <1>3, <3>1
      <4>2. ififo'[h].count <= isem[h].count + k
        <5>1. CASE ififo[h].count > 0
          BY <1>1, <1>3, <1>4, <3>2, <4>1, <5>1 DEF f
        <5>2. CASE ~(ififo[h].count > 0)
          BY <1>1, <1>4, <3>2, <4>1, <5>2 DEF f
        <5>3. QED
          BY <5>1, <5>2
      <4>3. QED
        BY <1>2, <4>1, <4>2
    <3>4. \A u \in Elems(isem[h].queue) : pc'[u] = "isem" /\ Home[u] = h
      <4>1. Elems(isem[h].queue) \subseteq Tasks
        BY <3>2 DEF Elems
      <4>2. QED
        BY <4>1, <1>1, <1>3, <1>4 DEF InputAt
    <3>5. QED
      BY <1>2, <1>3, <3>1, <3>3, <3>4 DEF InputAt
  <2>4. QED
    BY <2>1, <2>2, <2>3
<1>5. CASE Empty(f)
  <2>1. /\ want' = [want EXCEPT ![t] = 0] /\ Goes(t, "user", FALSE)
        /\ UNCHANGED <<ififo, out, target, shared>>
    BY <1>5 DEF GetInput
  <2>2. /\ pc' \in [Tasks -> PCs] /\ pc'[t] = "user" /\ \A u \in Tasks : u # t => pc'[u] = pc[u]
        /\ masked' \in [Tasks -> BOOLEAN] /\ cpu' \in Tasks \cup {Nobody}
    BY <1>1, <2>1, GoesThere DEF PCs
  <2>3. TypeOK'
    BY <1>1, <1>2, <2>1, <2>2 DEF TypeOK
  <2>4. BytesToPut'
    BY <2>1, <2>2 DEF Inv, BytesToPut, Putting, Drawing
  <2>5. f.count = 0
    BY <1>5 DEF Empty
  <2>6. \A y \in Ttys : OutputAt(y)' /\ InputAt(y)'
    BY <1>1, <1>4, <2>1, <2>2, <2>5
  <2>7. QED
    BY <2>3, <2>4, <2>6 DEF Inv
<1>6. CASE ~Empty(f)
  <2>1. /\ ififo' = [ififo EXCEPT ![h] = Get(f, IBUF)]
        /\ BeginWrite(t, now, <<Front(f)>>)
        /\ Goes(t, "owait", masked[t])
        /\ UNCHANGED want
    BY <1>6 DEF GetInput
  <2>2. Get(f, IBUF) \in Ring(IBUF) /\ Get(f, IBUF).count = f.count - 1 /\ Front(f) \in Bytes
        /\ Get(f, IBUF).count \in Nat
    BY <1>1, <1>6, GetTakesHead, RingParts, TtyAssumption
  <2>3. /\ pc' \in [Tasks -> PCs] /\ pc'[t] = "owait" /\ \A u \in Tasks : u # t => pc'[u] = pc[u]
        /\ masked' \in [Tasks -> BOOLEAN] /\ cpu' \in Tasks \cup {Nobody}
    BY <1>1, <2>1, GoesThere DEF PCs
  <2>4. <<Front(f)>> \in Seq(Bytes) /\ <<Front(f)>> # <<>>
    BY <2>2
  <2>5. /\ out' \in [Tasks -> Seq(Bytes)] /\ target' \in [Tasks -> Ttys]
        /\ shared' \in [Tasks -> BOOLEAN]
        /\ out'[t] # <<>>
        /\ \A u \in Tasks : u # t => out'[u] = out[u] /\ target'[u] = target[u]
    <3> HIDE DEF f
    <3>1. QED
      BY <1>1, <2>1, <2>4, BeginsWrite
  <2>6. ififo' \in [Ttys -> Ring(IBUF)] /\ ififo'[h] = Get(f, IBUF)
        /\ \A y \in Ttys : y # h => ififo'[y] = ififo[y]
    <3> HIDE DEF f, h
    <3>1. QED
      BY <1>1, <2>1, <2>2 DEF TypeOK
  <2>7. TypeOK'
    BY <1>1, <1>2, <2>1, <2>3, <2>5, <2>6 DEF TypeOK
  <2>8. BytesToPut'
    BY <2>3, <2>5 DEF Inv, BytesToPut, Putting, Drawing
  <2>9. \A y \in Ttys : OutputAt(y)' /\ InputAt(y)'
    <3>1. /\ ififo'[h].count <= f.count /\ ififo'[h].count \in Nat
          /\ f.count > 0 => ififo'[h].count = f.count - 1
      BY <1>1, <2>2, <2>6
    <3> HIDE DEF f, h
    <3>2. QED
      BY <1>4, <2>3, <2>5, <2>6, <3>1
  <2>10. QED
    BY <2>7, <2>8, <2>9 DEF Inv
<1>7. QED
  BY <1>5, <1>6

\* A writer takes a permit, or stops.
LEMMA WaitOutputKeepsInv ==
    ASSUME Inv, NEW t \in Tasks, WaitOutput(t)
    PROVE  Inv'
<1>1. PICK h \in Ttys : h = target[t]
  BY Parts DEF Inv
<1>2. PICK s \in Sem : s = osem[h]
  BY Parts DEF Inv
<1> DEFINE to == IF s.count > 0 THEN "oput" ELSE "osem"
<1>3. TypeOK /\ pc[t] = "owait" /\ h \in Ttys /\ s \in Sem /\ to \in PCs
      /\ masked[t] \in BOOLEAN
  BY Parts DEF Inv, WaitOutput, PCs
<1>4. /\ osem' = [osem EXCEPT ![h] = Wait(s, t)] /\ Goes(t, to, masked[t])
      /\ UNCHANGED <<ififo, ofifo, isem, now, want, out, target, parse, shared>>
  BY <1>1, <1>2 DEF WaitOutput, fifos, local
<1>5. /\ Wait(s, t) \in Sem /\ s.count \in Nat /\ s.queue \in Seq(Tasks)
      /\ s.count > 0 => Wait(s, t).count = s.count - 1 /\ Wait(s, t).queue = s.queue
      /\ ~(s.count > 0) => Wait(s, t).count = s.count /\ Wait(s, t).queue = Append(s.queue, t)
  BY <1>3, WaitSem
<1> HIDE DEF to
<1>6. /\ pc' \in [Tasks -> PCs] /\ pc'[t] = to /\ \A u \in Tasks : u # t => pc'[u] = pc[u]
      /\ masked' \in [Tasks -> BOOLEAN] /\ cpu' \in Tasks \cup {Nobody}
  BY <1>3, <1>4, GoesThere
<1>7. osem' \in [Ttys -> Sem] /\ osem'[h] = Wait(s, t) /\ \A y \in Ttys : y # h => osem'[y] = osem[y]
  BY <1>3, <1>4, <1>5 DEF TypeOK
<1>8. TypeOK'
  BY <1>3, <1>4, <1>6, <1>7 DEF TypeOK
<1>9. to \in {"oput", "osem"} /\ (to = "oput" <=> s.count > 0)
  BY DEF to
<1>10. BytesToPut'
  BY <1>3, <1>4, <1>6, <1>9 DEF Inv, BytesToPut, Putting, Drawing
<1>11. ASSUME NEW y \in Ttys PROVE InputAt(y)'
  BY <1>3, <1>4, <1>6, <1>9, InputStays DEF Inv
<1>12. ASSUME NEW y \in Ttys, y # h PROVE OutputAt(y)'
  BY <1>3, <1>4, <1>6, <1>7, <1>12, <1>1, OutputStays DEF Inv
<1>13. OutputAt(h)'
  <2>1. OutputAt(h) /\ t \notin Hands(h) /\ t \notin Elems(s.queue) /\ target[t] = h
        /\ IsFiniteSet(Hands(h)) /\ Cardinality(Hands(h)) \in Nat
        /\ Elems(s.queue) \subseteq Tasks /\ ofifo[h].count \in Nat
    <3>1. OutputAt(h) /\ t \notin Hands(h) /\ t \notin Elems(s.queue) /\ target[t] = h
      BY <1>3, <1>1, <1>2 DEF Inv, OutputAt, Hands, At
    <3>2. IsFiniteSet(Hands(h)) /\ Cardinality(Hands(h)) \in Nat
      BY <3>1, FS_CardinalityType DEF OutputAt
    <3>3. Elems(s.queue) \subseteq Tasks
      BY <1>5 DEF Elems
    <3>4. ofifo[h].count \in Nat
      BY <1>3, Parts, RingParts
    <3>5. QED
      BY <3>1, <3>2, <3>3, <3>4
  <2>2. CASE s.count > 0
    <3>1. Hands(h)' = Hands(h) \cup {t}
      BY <1>4, <1>6, <1>9, <2>1, <2>2 DEF Hands, At
    <3>2. IsFiniteSet(Hands(h)') /\ Cardinality(Hands(h)') = Cardinality(Hands(h)) + 1
      BY <2>1, <3>1, FS_AddElement
    <3>3. osem'[h].count + ofifo'[h].count + Cardinality(Hands(h)') = OBUF
      <4>1. osem'[h].count = s.count - 1 /\ ofifo'[h].count = ofifo[h].count
        BY <1>4, <1>5, <1>7, <2>2
      <4>2. s.count + ofifo[h].count + Cardinality(Hands(h)) = OBUF
        BY <2>1, <1>2 DEF OutputAt
      <4>3. QED
        BY <4>1, <4>2, <1>5, <2>1, <3>2
    <3>4. \A u \in Elems(s.queue) : pc'[u] = "osem" /\ target'[u] = h
      BY <1>4, <1>6, <2>1, <1>2 DEF OutputAt
    <3>5. QED
      BY <1>5, <1>7, <2>1, <2>2, <3>2, <3>3, <3>4, <1>2 DEF OutputAt
  <2>3. CASE ~(s.count > 0)
    <3>1. Hands(h)' = Hands(h)
      BY <1>3, <1>4, <1>6, <1>9, <2>3 DEF Hands, At
    <3>2. osem'[h].count = s.count /\ osem'[h].queue = Append(s.queue, t)
      BY <1>5, <1>7, <2>3
    <3>3. /\ Elems(osem'[h].queue) = Elems(s.queue) \cup {t} /\ Once(osem'[h].queue)
      BY <1>5, <2>1, <3>2, QueueAppend, <1>2 DEF OutputAt
    <3>4. \A u \in Elems(osem'[h].queue) : pc'[u] = "osem" /\ target'[u] = h
      BY <3>3, <1>4, <1>6, <1>9, <2>1, <2>3, <1>2 DEF OutputAt
    <3>5. QED
      BY <1>4, <2>1, <3>1, <3>2, <3>3, <3>4, <1>2 DEF OutputAt
  <2>4. QED
    BY <2>2, <2>3
<1>14. QED
  BY <1>8, <1>10, <1>11, <1>12, <1>13 DEF Inv

\* A task that has a place in its hands finds the ring with room for it, and
\* the ring has at most as many bytes as it has places.
LEMMA PlaceInHand ==
    ASSUME Inv, NEW t \in Tasks, pc[t] \in {"oput", "note"}
    PROVE  /\ target[t] \in Ttys /\ ofifo[target[t]] \in Ring(OBUF)
           /\ ~Full(ofifo[target[t]], OBUF)
<1> DEFINE h == target[t]
<1>1. h \in Ttys /\ ofifo[h] \in Ring(OBUF) /\ osem[h] \in Sem /\ OBUF \in Nat \ {0} /\ OutputAt(h)
  BY Parts DEF Inv
<1>2. ofifo[h].count \in Nat /\ osem[h].count \in Nat
  BY <1>1, RingParts DEF Sem
<1>3. t \in Hands(h) /\ IsFiniteSet(Hands(h))
  BY <1>1 DEF OutputAt, Hands, At
<1>4. Cardinality(Hands(h)) \in Nat /\ Cardinality(Hands(h)) # 0
  BY <1>3, FS_CardinalityType, FS_EmptySet
<1>5. ofifo[h].count < OBUF
  BY <1>1, <1>2, <1>4 DEF OutputAt
<1>6. QED
  BY <1>1, <1>2, <1>5 DEF Full

\* The output of a terminal when one task's place changes hands with the ring.
LEMMA OutputMoves ==
    ASSUME TypeOK, NEW t \in Tasks, NEW h \in Ttys, target[t] = h, OutputAt(h),
           UNCHANGED <<osem, target>>, pc[t] # "osem",
           \A u \in Tasks : u # t => pc'[u] = pc[u],
           ofifo'[h].count \in Nat,
           \/ /\ pc[t] \in {"oput", "note"} /\ pc'[t] \notin {"oput", "note"}
              /\ ofifo'[h].count = ofifo[h].count + 1
           \/ /\ pc[t] \notin {"oput", "note"} /\ pc'[t] \in {"oput", "note"}
              /\ ofifo'[h].count = ofifo[h].count - 1
    PROVE  OutputAt(h)'
<1>1. /\ osem[h].count \in Nat /\ Elems(osem[h].queue) \subseteq Tasks /\ ofifo[h].count \in Nat
  BY Parts, RingParts DEF Sem, Elems
<1>2. IsFiniteSet(Hands(h)) /\ Cardinality(Hands(h)) \in Nat
  BY FS_CardinalityType DEF OutputAt
<1>3. \A u \in Elems(osem[h].queue) : pc'[u] = "osem" /\ target'[u] = h
  BY <1>1 DEF OutputAt
<1>4. /\ IsFiniteSet(Hands(h)')
      /\ osem[h].count + ofifo'[h].count + Cardinality(Hands(h)') = OBUF
  <2>1. CASE pc[t] \in {"oput", "note"} /\ pc'[t] \notin {"oput", "note"}
             /\ ofifo'[h].count = ofifo[h].count + 1
    <3>1. t \in Hands(h) /\ Hands(h)' = Hands(h) \ {t}
      BY <2>1 DEF Hands, At
    <3>2. IsFiniteSet(Hands(h)') /\ Cardinality(Hands(h)') = Cardinality(Hands(h)) - 1
      BY <1>2, <3>1, FS_RemoveElement
    <3>3. QED
      BY <1>1, <1>2, <2>1, <3>2 DEF OutputAt
  <2>2. CASE pc[t] \notin {"oput", "note"} /\ pc'[t] \in {"oput", "note"}
             /\ ofifo'[h].count = ofifo[h].count - 1
    <3>1. t \notin Hands(h) /\ Hands(h)' = Hands(h) \cup {t}
      BY <2>2 DEF Hands, At
    <3>2. IsFiniteSet(Hands(h)') /\ Cardinality(Hands(h)') = Cardinality(Hands(h)) + 1
      BY <1>2, <3>1, FS_AddElement
    <3>3. QED
      BY <1>1, <1>2, <2>2, <3>2 DEF OutputAt
  <2>3. QED
    BY <2>1, <2>2
<1>5. QED
  BY <1>3, <1>4 DEF OutputAt

\* A writer puts a byte in the place it has in its hands.
LEMMA PutOutputKeepsInv ==
    ASSUME Inv, NEW t \in Tasks, PutOutput(t)
    PROVE  Inv'
<1>1. PICK h \in Ttys : h = target[t]
  BY Parts DEF Inv
<1>2. PICK f \in Ring(OBUF) : f = ofifo[h] /\ ~Full(f, OBUF)
  BY <1>1, PlaceInHand DEF PutOutput
<1>3. PICK w \in Seq(Bytes) : w = out[t] /\ w # <<>>
  BY Parts DEF Inv, BytesToPut, Putting, PutOutput
<1> DEFINE to == IF Len(w) > 1 THEN "owait" ELSE "drain"
           g == Put(f, OBUF, Head(w))
<1>4. /\ TypeOK /\ pc[t] = "oput" /\ masked[t] \in BOOLEAN /\ to \in PCs
      /\ UNCHANGED <<ififo, isem, osem, now, want, target, parse, shared>>
      /\ ofifo' = [ofifo EXCEPT ![h] = g]
      /\ out' = [out EXCEPT ![t] = Tail(w)]
      /\ Goes(t, to, masked[t])
  BY <1>1, <1>2, <1>3, Parts DEF Inv, PutOutput, sems, PCs
<1>5. /\ Head(w) \in Bytes /\ Tail(w) \in Seq(Bytes) /\ Len(w) \in Nat /\ Len(w) >= 1
      /\ Len(Tail(w)) = Len(w) - 1
  BY <1>3, HeadTailProperties
<1>6. g \in Ring(OBUF) /\ g.count = f.count + 1 /\ f.count \in Nat /\ g.count \in Nat
  BY <1>2, <1>5, PutAppends, RingParts
<1>7. /\ to \in {"owait", "drain"} /\ (to = "owait" => Tail(w) # <<>>)
      /\ (to = "drain" => Tail(w) = <<>>)
  <2>1. CASE Len(w) > 1
    BY <1>5, <2>1
  <2>2. CASE ~(Len(w) > 1)
    <3>1. Len(Tail(w)) = 0
      BY <1>5, <2>2
    <3>2. Tail(w) = <<>>
      <4>1. 0 \notin Nat \ {0}
        OBVIOUS
      <4>2. QED
        BY <1>5, <3>1, <4>1, EmptySeq
    <3>3. QED
      BY <2>2, <3>2
  <2>3. QED
    BY <2>1, <2>2
<1> HIDE DEF to, g
<1>8. /\ pc' \in [Tasks -> PCs] /\ pc'[t] = to /\ \A u \in Tasks : u # t => pc'[u] = pc[u]
      /\ masked' \in [Tasks -> BOOLEAN] /\ cpu' \in Tasks \cup {Nobody}
  BY <1>4, GoesThere
<1>9. /\ ofifo' \in [Ttys -> Ring(OBUF)] /\ ofifo'[h] = g
      /\ \A y \in Ttys : y # h => ofifo'[y] = ofifo[y]
      /\ out' \in [Tasks -> Seq(Bytes)] /\ out'[t] = Tail(w)
      /\ \A u \in Tasks : u # t => out'[u] = out[u]
  BY <1>4, <1>5, <1>6 DEF TypeOK
<1>10. TypeOK'
  BY <1>4, <1>8, <1>9 DEF TypeOK
<1>11. BytesToPut'
  BY <1>7, <1>8, <1>9 DEF Inv, BytesToPut, Putting, Drawing
<1>12. ASSUME NEW y \in Ttys PROVE InputAt(y)'
  BY <1>4, <1>7, <1>8, InputStays DEF Inv
<1>13. ASSUME NEW y \in Ttys, y # h PROVE OutputAt(y)'
  BY <1>1, <1>4, <1>7, <1>8, <1>9, <1>13, OutputStays DEF Inv
<1>14. OutputAt(h)'
  <2>1. OutputAt(h)
    BY DEF Inv
  <2>2. QED
    BY <1>1, <1>2, <1>4, <1>6, <1>7, <1>8, <1>9, <2>1, OutputMoves
<1>15. QED
  BY <1>10, <1>11, <1>12, <1>13, <1>14 DEF Inv

\* What com_esc makes of a byte is one of its states.
LEMMA ParsedType ==
    ASSUME NEW p \in ParseStates, NEW c \in Bytes
    PROVE  Parsed(p, c) \in ParseStates
BY DEF Parsed, Parameter, ParseStates

\* A task takes a byte to draw it, or finds none and is through with its write.
LEMMA DrainKeepsInv ==
    ASSUME Inv, NEW t \in Tasks, Drain(t)
    PROVE  Inv'
<1>1. PICK h \in Ttys : h = target[t]
  BY Parts DEF Inv
<1>2. PICK f \in Ring(OBUF) : f = ofifo[h]
  BY Parts DEF Inv
<1>3. /\ TypeOK /\ pc[t] = "drain" /\ out[t] = <<>> /\ masked[t] \in BOOLEAN
      /\ UNCHANGED <<ififo, isem, osem, now, out, target, shared>>
  BY Parts DEF Inv, BytesToPut, Drawing, Drain, sems
<1>4. ASSUME NEW to \in {"spin", "iwait", "user"}, NEW off \in BOOLEAN, Goes(t, to, off),
             UNCHANGED ofifo, want' \in [Tasks -> Nat],
             parse' \in [Tasks -> {"text", "esc", "args", "digits", "lost"}]
      PROVE  Inv'
  <2>1. /\ pc' \in [Tasks -> PCs] /\ pc'[t] = to /\ \A u \in Tasks : u # t => pc'[u] = pc[u]
        /\ masked' \in [Tasks -> BOOLEAN] /\ cpu' \in Tasks \cup {Nobody}
    BY <1>3, <1>4, GoesThere DEF PCs
  <2>2. TypeOK'
    BY <1>3, <1>4, <2>1 DEF TypeOK
  <2>3. BytesToPut'
    BY <1>3, <2>1 DEF Inv, BytesToPut, Putting, Drawing
  <2>4. ASSUME NEW y \in Ttys PROVE InputAt(y)'
    BY <1>3, <2>1, InputStays DEF Inv
  <2>5. ASSUME NEW y \in Ttys PROVE OutputAt(y)'
    BY <1>3, <1>4, <2>1, OutputStays DEF Inv
  <2>6. QED
    BY <2>2, <2>3, <2>4, <2>5 DEF Inv
<1>5. CASE Empty(f)
  <2>1. EndWrite(t)
    BY <1>1, <1>2, <1>5 DEF Drain
  <2>2. /\ parse \in [Tasks -> {"text", "esc", "args", "digits", "lost"}]
        /\ want \in [Tasks -> Nat]
    BY <1>3 DEF TypeOK
  <2>3. parse' \in [Tasks -> {"text", "esc", "args", "digits", "lost"}]
    BY <2>1, <2>2 DEF EndWrite
  <2>4. CASE parse[t] = "digits"
    <3>1. Goes(t, "spin", TRUE) /\ UNCHANGED <<ofifo, want>>
      BY <2>1, <2>4 DEF EndWrite
    <3>2. QED
      BY <1>4, <2>2, <2>3, <3>1
  <2>5. CASE parse[t] # "digits"
    <3>1. /\ want' = [want EXCEPT ![t] = IF @ > 0 THEN @ - 1 ELSE 0]
          /\ Goes(t, "iwait", TRUE) \/ Goes(t, "user", FALSE)
          /\ UNCHANGED ofifo
      BY <2>1, <2>5 DEF EndWrite
    <3>2. want' \in [Tasks -> Nat]
      BY <2>2, <3>1
    <3>3. QED
      BY <1>4, <2>3, <3>1, <3>2
  <2>6. QED
    BY <2>4, <2>5
<1>6. CASE ~Empty(f)
  <2> DEFINE g == Get(f, OBUF)
             p == Parsed(parse[t], Front(f))
  <2>1. /\ ofifo' = [ofifo EXCEPT ![h] = g] /\ parse' = [parse EXCEPT ![t] = p]
        /\ Goes(t, "note", masked[t]) /\ UNCHANGED want
    BY <1>1, <1>2, <1>6 DEF Drain
  <2>2. /\ g \in Ring(OBUF) /\ g.count = f.count - 1 /\ f.count \in Nat /\ g.count \in Nat
        /\ Front(f) \in Bytes
    BY <1>2, <1>6, GetTakesHead, RingParts
  <2>3. p \in ParseStates
    BY <1>3, <2>2, Parts, ParsedType
  <2> HIDE DEF g, p
  <2>4. /\ pc' \in [Tasks -> PCs] /\ pc'[t] = "note" /\ \A u \in Tasks : u # t => pc'[u] = pc[u]
        /\ masked' \in [Tasks -> BOOLEAN] /\ cpu' \in Tasks \cup {Nobody}
    BY <1>3, <2>1, GoesThere DEF PCs
  <2>5. /\ ofifo' \in [Ttys -> Ring(OBUF)] /\ ofifo'[h] = g
        /\ \A y \in Ttys : y # h => ofifo'[y] = ofifo[y]
        /\ parse' \in [Tasks -> {"text", "esc", "args", "digits", "lost"}]
    BY <1>3, <2>1, <2>2, <2>3 DEF TypeOK, ParseStates
  <2>6. TypeOK'
    BY <1>3, <2>1, <2>4, <2>5 DEF TypeOK
  <2>7. BytesToPut'
    BY <1>3, <2>4 DEF Inv, BytesToPut, Putting, Drawing
  <2>8. ASSUME NEW y \in Ttys PROVE InputAt(y)'
    BY <1>3, <2>4, InputStays DEF Inv
  <2>9. ASSUME NEW y \in Ttys, y # h PROVE OutputAt(y)'
    BY <1>1, <1>3, <2>4, <2>5, <2>9, OutputStays DEF Inv
  <2>10. OutputAt(h)'
    <3>1. OutputAt(h)
      BY DEF Inv
    <3>2. QED
      BY <1>1, <1>2, <1>3, <2>2, <2>4, <2>5, <3>1, OutputMoves
  <2>11. QED
    BY <2>6, <2>7, <2>8, <2>9, <2>10 DEF Inv
<1>7. QED
  BY <1>5, <1>6

\* The permit goes back, or the place to the first writer that waits for one.
LEMMA GiveBackKeepsInv ==
    ASSUME Inv, NEW t \in Tasks, GiveBack(t)
    PROVE  Inv'
<1>1. PICK h \in Ttys : h = target[t]
  BY Parts DEF Inv
<1>2. PICK s \in Sem : s = osem[h]
  BY Parts DEF Inv
<1>3. PICK to \in {"spin", "drain"} : pc' = [Passed(s, "oput") EXCEPT ![t] = to]
  BY <1>1, <1>2 DEF GiveBack
<1>4. /\ TypeOK /\ pc[t] = "note" /\ OutputAt(h) /\ t \in Hands(h)
      /\ UNCHANGED <<ififo, ofifo, isem, now, want, out, target, parse, masked, cpu, shared>>
      /\ osem' = [osem EXCEPT ![h] = Notify(s)]
  BY <1>1, <1>2 DEF Inv, GiveBack, fifos, local, Hands, At
<1>5. /\ Notify(s) \in Sem /\ s.count \in Nat /\ s.queue \in Seq(Tasks)
      /\ s.queue # <<>> => Notify(s).count = s.count /\ Notify(s).queue = Tail(s.queue)
      /\ s.queue = <<>> => Notify(s).count = s.count + 1 /\ Notify(s).queue = <<>>
  BY NotifySem
<1>6. /\ osem' \in [Ttys -> Sem] /\ osem'[h] = Notify(s) /\ \A y \in Ttys : y # h => osem'[y] = osem[y]
      /\ pc \in [Tasks -> PCs]
  BY <1>4, <1>5 DEF TypeOK
<1>7. /\ IsFiniteSet(Hands(h)) /\ Cardinality(Hands(h)) \in Nat /\ ofifo[h].count \in Nat
      /\ s.count + ofifo[h].count + Cardinality(Hands(h)) = OBUF
      /\ IsFiniteSet(Hands(h) \ {t}) /\ Cardinality(Hands(h) \ {t}) = Cardinality(Hands(h)) - 1
      /\ Elems(s.queue) \subseteq Tasks
      /\ Once(s.queue) /\ \A u \in Elems(s.queue) : pc[u] = "osem" /\ target[u] = h
  <2>1. IsFiniteSet(Hands(h)) /\ s.count + ofifo[h].count + Cardinality(Hands(h)) = OBUF
        /\ Once(s.queue) /\ \A u \in Elems(s.queue) : pc[u] = "osem" /\ target[u] = h
    BY <1>2, <1>4 DEF OutputAt
  <2>2. Elems(s.queue) \subseteq Tasks
    BY <1>5 DEF Elems
  <2>3. ofifo[h].count \in Nat
    BY <1>4, Parts, RingParts
  <2>4. QED
    BY <1>4, <2>1, <2>2, <2>3, FS_CardinalityType, FS_RemoveElement
<1>8. CASE s.queue = <<>>
  <2>1. /\ pc' \in [Tasks -> PCs] /\ pc'[t] = to /\ \A u \in Tasks : u # t => pc'[u] = pc[u]
    BY <1>3, <1>6, <1>8 DEF Passed, PCs
  <2>2. TypeOK'
    BY <1>4, <1>6, <2>1 DEF TypeOK
  <2>3. BytesToPut'
    BY <1>4, <2>1 DEF Inv, BytesToPut, Putting, Drawing
  <2>4. ASSUME NEW y \in Ttys PROVE InputAt(y)'
    BY <1>4, <2>1, InputStays DEF Inv
  <2>5. ASSUME NEW y \in Ttys, y # h PROVE OutputAt(y)'
    BY <1>1, <1>4, <1>6, <2>1, <2>5, OutputStays DEF Inv
  <2>6. OutputAt(h)'
    <3>1. Hands(h)' = Hands(h) \ {t}
      BY <1>4, <2>1 DEF Hands, At
    <3>2. osem'[h].count = s.count + 1 /\ osem'[h].queue = <<>> /\ ofifo'[h].count = ofifo[h].count
      BY <1>4, <1>5, <1>6, <1>8
    <3>3. osem'[h].count + ofifo'[h].count + Cardinality(Hands(h)') = OBUF
      <4>1. Cardinality(Hands(h)') = Cardinality(Hands(h)) - 1
        <5>1. Cardinality(Hands(h) \ {t}) = Cardinality(Hands(h)) - 1
          BY <1>7
        <5>2. QED
          BY <3>1, <5>1
      <4>2. /\ s.count \in Nat /\ ofifo[h].count \in Nat /\ Cardinality(Hands(h)) \in Nat
            /\ s.count + ofifo[h].count + Cardinality(Hands(h)) = OBUF
        BY <1>5, <1>7
      <4>3. osem'[h].count = s.count + 1 /\ ofifo'[h].count = ofifo[h].count
        BY <3>2
      <4>4. QED
        BY <4>1, <4>2, <4>3
    <3>4. QED
      BY <1>7, <3>1, <3>2, <3>3, NobodyWaits DEF OutputAt
  <2>7. QED
    BY <2>2, <2>3, <2>4, <2>5, <2>6 DEF Inv
<1>9. CASE s.queue # <<>>
  <2>1. PICK u \in Tasks : u = Head(s.queue) /\ u \in Elems(s.queue)
    BY <1>5, <1>9, QueueTail
  <2>2. pc[u] = "osem" /\ target[u] = h /\ u # t /\ u \notin Hands(h)
    BY <1>4, <1>7, <2>1 DEF Hands, At
  <2>3. /\ pc' \in [Tasks -> PCs] /\ pc'[t] = to /\ pc'[u] = "oput"
        /\ \A v \in Tasks : v \notin {t, u} => pc'[v] = pc[v]
    BY <1>3, <1>6, <1>9, <2>1, <2>2 DEF Passed, PCs
  <2>4. TypeOK'
    BY <1>4, <1>6, <2>3 DEF TypeOK
  <2>5. BytesToPut'
    BY <1>4, <2>2, <2>3 DEF Inv, BytesToPut, Putting, Drawing
  <2>6. ASSUME NEW y \in Ttys PROVE InputAt(y)'
    BY <1>4, <2>2, <2>3, InputStays DEF Inv
  <2>7. ASSUME NEW y \in Ttys, y # h PROVE OutputAt(y)'
    BY <1>1, <1>4, <1>6, <2>2, <2>3, <2>7, OutputStays DEF Inv
  <2>8. OutputAt(h)'
    <3>1. Hands(h)' = (Hands(h) \ {t}) \cup {u}
      BY <1>4, <2>2, <2>3 DEF Hands, At
    <3>2. IsFiniteSet(Hands(h)') /\ Cardinality(Hands(h)') = Cardinality(Hands(h))
      <4>1. PICK S : S = Hands(h) \ {t}
        OBVIOUS
      <4>2. IsFiniteSet(S) /\ Cardinality(S) = Cardinality(Hands(h)) - 1 /\ u \notin S
        BY <1>7, <2>2, <4>1
      <4>3. IsFiniteSet(S \cup {u}) /\ Cardinality(S \cup {u}) = Cardinality(S) + 1
        BY <4>2, FS_AddElement
      <4>4. Hands(h)' = S \cup {u}
        BY <3>1, <4>1
      <4>5. QED
        BY <1>7, <4>2, <4>3, <4>4
    <3>3. osem'[h].count = s.count /\ osem'[h].queue = Tail(s.queue) /\ ofifo'[h].count = ofifo[h].count
      BY <1>4, <1>5, <1>6, <1>9
    <3>4. osem'[h].count + ofifo'[h].count + Cardinality(Hands(h)') = OBUF
      BY <1>7, <3>2, <3>3
    <3>5. /\ Once(osem'[h].queue) /\ Elems(osem'[h].queue) \subseteq Elems(s.queue)
          /\ u \notin Elems(osem'[h].queue)
      BY <1>5, <1>7, <1>9, <2>1, <3>3, QueueTail
    <3>6. ASSUME NEW v \in Elems(osem'[h].queue) PROVE pc'[v] = "osem" /\ target'[v] = h
      <4>1. v \in Elems(s.queue) /\ v # u /\ v # t
        BY <1>4, <1>7, <3>5, <3>6
      <4>2. QED
        BY <1>4, <1>7, <2>3, <4>1
    <3>7. QED
      BY <3>2, <3>4, <3>5, <3>6 DEF OutputAt
  <2>9. QED
    BY <2>4, <2>5, <2>6, <2>7, <2>8 DEF Inv
<1>10. QED
  BY <1>8, <1>9

\* A permit of isem lets in the first reader that waits, or stays; the ring may
\* have gained a byte for it.
LEMMA LetReaderInKeepsInv ==
    ASSUME Inv, NEW h \in Ttys, LetReaderIn(h), now' \in Ttys,
           UNCHANGED <<ofifo, osem, want, out, target, parse, masked, cpu, shared>>,
           NEW f \in Ring(IBUF), ififo' = [ififo EXCEPT ![h] = f],
           f.count <= ififo[h].count + 1
    PROVE  Inv'
<1>1. PICK s \in Sem : s = isem[h]
  BY Parts DEF Inv
<1>2. /\ isem' = [isem EXCEPT ![h] = Notify(s)] /\ pc' = Passed(s, "iget")
      /\ TypeOK /\ InputAt(h)
  BY <1>1 DEF LetReaderIn, Inv
<1>3. /\ Notify(s) \in Sem /\ s.count \in Nat /\ s.queue \in Seq(Tasks)
      /\ s.queue # <<>> => Notify(s).count = s.count /\ Notify(s).queue = Tail(s.queue)
      /\ s.queue = <<>> => Notify(s).count = s.count + 1 /\ Notify(s).queue = <<>>
  BY NotifySem
<1>4. /\ isem' \in [Ttys -> Sem] /\ isem'[h] = Notify(s) /\ \A y \in Ttys : y # h => isem'[y] = isem[y]
      /\ ififo' \in [Ttys -> Ring(IBUF)] /\ ififo'[h] = f /\ \A y \in Ttys : y # h => ififo'[y] = ififo[y]
      /\ pc \in [Tasks -> PCs]
  BY <1>2, <1>3 DEF TypeOK
<1>5. /\ IsFiniteSet(Coming(h)) /\ Cardinality(Coming(h)) \in Nat
      /\ ififo[h].count \in Nat /\ f.count \in Nat
      /\ ififo[h].count <= s.count + Cardinality(Coming(h))
      /\ s.queue # <<>> => s.count = 0
      /\ Elems(s.queue) \subseteq Tasks
      /\ Once(s.queue) /\ \A u \in Elems(s.queue) : pc[u] = "isem" /\ Home[u] = h
  <2>1. IsFiniteSet(Coming(h)) /\ ififo[h].count <= s.count + Cardinality(Coming(h))
        /\ (s.queue # <<>> => s.count = 0)
        /\ Once(s.queue) /\ \A u \in Elems(s.queue) : pc[u] = "isem" /\ Home[u] = h
    BY <1>1, <1>2 DEF InputAt
  <2>2. Elems(s.queue) \subseteq Tasks
    BY <1>3 DEF Elems
  <2>3. ififo[h].count \in Nat /\ f.count \in Nat
    BY <1>2, Parts, RingParts
  <2>4. QED
    BY <2>1, <2>2, <2>3, FS_CardinalityType
<1>6. CASE s.queue = <<>>
  <2>1. pc' = pc
    BY <1>2, <1>6 DEF Passed
  <2>2. TypeOK'
    BY <1>2, <1>4, <2>1 DEF TypeOK
  <2>3. BytesToPut'
    BY <2>1 DEF Inv, BytesToPut
  <2>4. ASSUME NEW y \in Ttys PROVE OutputAt(y)'
    BY <1>2, <2>1, OutputStays DEF Inv
  <2>5. ASSUME NEW y \in Ttys, y # h PROVE InputAt(y)'
    BY <1>2, <1>4, <2>1, <2>5, InputStays DEF Inv
  <2>6. InputAt(h)'
    <3>1. Coming(h)' = Coming(h)
      BY <2>1 DEF Coming
    <3>2. isem'[h].count = s.count + 1 /\ isem'[h].queue = <<>> /\ ififo'[h].count = f.count
      BY <1>3, <1>4, <1>6
    <3>3. ififo'[h].count <= isem'[h].count + Cardinality(Coming(h)')
      <4>1. f.count <= s.count + 1 + Cardinality(Coming(h))
        BY <1>3, <1>5
      <4>2. QED
        BY <3>1, <3>2, <4>1
    <3>4. QED
      BY <1>5, <3>1, <3>2, <3>3, NobodyWaits DEF InputAt
  <2>7. QED
    BY <2>2, <2>3, <2>4, <2>5, <2>6 DEF Inv
<1>7. CASE s.queue # <<>>
  <2>1. PICK u \in Tasks : u = Head(s.queue) /\ u \in Elems(s.queue)
    BY <1>3, <1>7, QueueTail
  <2>2. pc[u] = "isem" /\ Home[u] = h /\ u \notin Coming(h)
    BY <1>5, <2>1 DEF Coming
  <2>3. pc' \in [Tasks -> PCs] /\ pc'[u] = "iget" /\ \A v \in Tasks : v # u => pc'[v] = pc[v]
    BY <1>2, <1>4, <1>7, <2>1 DEF Passed, PCs
  <2>4. TypeOK'
    BY <1>2, <1>4, <2>3 DEF TypeOK
  <2>5. BytesToPut'
    BY <2>2, <2>3 DEF Inv, BytesToPut, Putting, Drawing
  <2>6. ASSUME NEW y \in Ttys PROVE OutputAt(y)'
    BY <1>2, <2>2, <2>3, OutputStays DEF Inv
  <2>7. ASSUME NEW y \in Ttys, y # h PROVE InputAt(y)'
    <3>1. /\ InputAt(y) /\ isem'[y] = isem[y] /\ ififo'[y] = ififo[y]
          /\ isem[y].queue \in Seq(Tasks)
      BY <1>2, <1>4, <2>7, Parts DEF Inv, Sem
    <3>2. Elems(isem[y].queue) \subseteq Tasks
      BY <3>1 DEF Elems
    <3>3. Coming(y)' = Coming(y)
      BY <2>2, <2>3, <2>7 DEF Coming
    <3>4. \A v \in Elems(isem[y].queue) : pc'[v] = "isem" /\ Home[v] = y
      BY <2>2, <2>3, <2>7, <3>1, <3>2 DEF InputAt
    <3>5. QED
      BY <3>1, <3>3, <3>4 DEF InputAt
  <2>8. InputAt(h)'
    <3>1. Coming(h)' = Coming(h) \cup {u}
      BY <2>2, <2>3 DEF Coming
    <3>2. IsFiniteSet(Coming(h)') /\ Cardinality(Coming(h)') = Cardinality(Coming(h)) + 1
      <4>1. IsFiniteSet(Coming(h) \cup {u}) /\ Cardinality(Coming(h) \cup {u}) = Cardinality(Coming(h)) + 1
        BY <1>5, <2>2, FS_AddElement
      <4>2. QED
        BY <3>1, <4>1
    <3>3. isem'[h].count = s.count /\ isem'[h].queue = Tail(s.queue) /\ ififo'[h].count = f.count
      BY <1>3, <1>4, <1>7
    <3>4. ififo'[h].count <= isem'[h].count + Cardinality(Coming(h)')
      <4>1. f.count <= s.count + (Cardinality(Coming(h)) + 1)
        BY <1>3, <1>5
      <4>2. QED
        BY <3>2, <3>3, <4>1
    <3>5. /\ Once(isem'[h].queue) /\ Elems(isem'[h].queue) \subseteq Elems(s.queue)
          /\ u \notin Elems(isem'[h].queue)
      BY <1>3, <1>5, <1>7, <2>1, <3>3, QueueTail
    <3>6. ASSUME NEW v \in Elems(isem'[h].queue) PROVE pc'[v] = "isem" /\ Home[v] = h
      <4>1. v \in Elems(s.queue) /\ v # u
        BY <3>5, <3>6
      <4>2. QED
        BY <1>5, <2>3, <4>1
    <3>7. isem'[h].count = 0
      BY <1>5, <1>7, <3>3
    <3>8. QED
      BY <3>2, <3>4, <3>5, <3>6, <3>7 DEF InputAt
  <2>9. QED
    BY <2>4, <2>5, <2>6, <2>7, <2>8 DEF Inv
<1>8. QED
  BY <1>6, <1>7

\* A key, whether the ring takes its byte or not, and a function key.
LEMMA KeysKeepInv ==
    ASSUME Inv
    PROVE  /\ \A c \in Keys : Key(c) => Inv'
           /\ \A y \in Ttys : FKey(y) => Inv'
<1>1. TypeOK /\ now \in Ttys
  BY DEF Inv, TypeOK
<1>2. ASSUME NEW c \in Keys, Key(c) PROVE Inv'
  <2> DEFINE f == ififo[now]
             g == IF Full(f, IBUF) THEN f ELSE Put(f, IBUF, c)
  <2>1. f \in Ring(IBUF) /\ f.count \in Nat /\ c \in Bytes
    BY <1>1, Parts, RingParts, TtyAssumption
  <2>2. g \in Ring(IBUF) /\ g.count <= f.count + 1
    <3>1. CASE Full(f, IBUF)
      BY <2>1, <3>1
    <3>2. CASE ~Full(f, IBUF)
      <4>1. Put(f, IBUF, c) \in Ring(IBUF) /\ Put(f, IBUF, c).count = f.count + 1
        BY <2>1, <3>2, PutAppends, TtyAssumption
      <4>2. g = Put(f, IBUF, c)
        BY <3>2
      <4>3. QED
        BY <2>1, <4>1, <4>2
    <3>3. QED
      BY <3>1, <3>2
  <2>3. ififo' = [ififo EXCEPT ![now] = g]
    <3>1. CASE Full(f, IBUF)
      <4>1. ififo' = ififo
        BY <1>2, <3>1 DEF Key
      <4>2. QED
        BY <1>1, <3>1, <4>1 DEF TypeOK
    <3>2. CASE ~Full(f, IBUF)
      BY <1>2, <3>2 DEF Key
    <3>3. QED
      BY <3>1, <3>2
  <2>4. LetReaderIn(now) /\ UNCHANGED <<ofifo, osem, now, want, out, target, parse, masked, cpu, shared>>
    BY <1>2 DEF Key, local
  <2> HIDE DEF g
  <2>5. QED
    BY <1>1, <2>2, <2>3, <2>4, LetReaderInKeepsInv
<1>3. ASSUME NEW y \in Ttys, FKey(y) PROVE Inv'
  <2>1. /\ LetReaderIn(y) /\ now' = y
        /\ UNCHANGED <<ififo, ofifo, osem, want, out, target, parse, masked, cpu, shared>>
    BY <1>3 DEF FKey, fifos, local
  <2>2. ififo[y] \in Ring(IBUF) /\ ififo[y].count <= ififo[y].count + 1
        /\ ififo' = [ififo EXCEPT ![y] = ififo[y]]
    <3>1. ififo[y] \in Ring(IBUF) /\ ififo[y].count \in Nat
      BY <1>1, Parts, RingParts
    <3>2. QED
      BY <1>1, <2>1, <3>1 DEF TypeOK
  <2>3. QED
    BY <2>1, <2>2, LetReaderInKeepsInv
<1>4. QED
  BY <1>2, <1>3

\* A ring as it is made.
LEMMA EmptyRing ==
    ASSUME NEW n \in Nat \ {0}
    PROVE  Ring0(n) \in Ring(n) /\ Ring0(n).count = 0 /\ InStep(Ring0(n), n)
<1>1. 0 \in 0..n-1 /\ 0 \in 0..n
  OBVIOUS
<1>2. PICK b \in [0..n-1 -> Bytes] : b = [i \in 0..n-1 |-> "x"]
  <2>1. [i \in 0..n-1 |-> "x"] \in [0..n-1 -> Bytes]
    BY DEF Bytes
  <2>2. QED
    BY <2>1
<1>3. Ring0(n) = [buf |-> b, read |-> 0, write |-> 0, count |-> 0]
  BY <1>2 DEF Ring0
<1>4. Ring0(n) \in Ring(n) /\ Ring0(n).count = 0 /\ Ring0(n).read = 0 /\ Ring0(n).write = 0
  BY <1>1, <1>3 DEF Ring
<1>5. (0 + 0) % n = 0
  BY <1>1, Round
<1>6. QED
  BY <1>4, <1>5 DEF InStep

\* Every terminal as it is opened.
LEMMA InitInv == Init => Inv
<1> SUFFICES ASSUME Init PROVE Inv
  OBVIOUS
<1>1. Ring0(IBUF) \in Ring(IBUF) /\ Ring0(OBUF) \in Ring(OBUF)
      /\ Ring0(IBUF).count = 0 /\ Ring0(OBUF).count = 0
  BY EmptyRing
<1>2. [count |-> 0, queue |-> <<>>] \in Sem /\ [count |-> OBUF, queue |-> <<>>] \in Sem
  BY DEF Sem
<1>3. TypeOK
  BY <1>1, <1>2 DEF Init, TypeOK, PCs
<1>4. BytesToPut
  BY DEF Init, BytesToPut, Putting, Drawing
<1>5. ASSUME NEW y \in Ttys PROVE OutputAt(y) /\ InputAt(y)
  <2>1. Hands(y) = {} /\ Coming(y) = {}
    BY DEF Init, Hands, At, Coming
  <2>2. OutputAt(y)
    BY <1>1, <2>1, NobodyWaits, FS_EmptySet DEF Init, OutputAt
  <2>3. InputAt(y)
    BY <1>1, <2>1, NobodyWaits, FS_EmptySet DEF Init, InputAt
  <2>4. QED
    BY <2>2, <2>3
<1>6. QED
  BY <1>3, <1>4, <1>5 DEF Inv

\* Every step keeps the invariant.
LEMMA NextKeepsInv == Inv /\ [Next]_vars => Inv'
<1> SUFFICES ASSUME Inv, [Next]_vars PROVE Inv'
  OBVIOUS
<1>1. ASSUME NEW t \in Tasks, Call(t) PROVE Inv'
  BY <1>1, ReadKeepsInv, WriteKeepsInv DEF Call
<1>2. ASSUME NEW t \in Tasks, Continue(t) PROVE Inv'
  BY <1>2, WaitInputKeepsInv, GetInputKeepsInv, WaitOutputKeepsInv, PutOutputKeepsInv,
     DrainKeepsInv, GiveBackKeepsInv DEF Continue
<1>3. CASE UNCHANGED vars
  <2>1. UNCHANGED <<ififo, ofifo, isem, osem, now, pc, want, out, target, parse, masked, cpu, shared>>
    BY <1>3 DEF vars
  <2>2. TypeOK' /\ BytesToPut'
    BY <2>1 DEF Inv, TypeOK, BytesToPut
  <2>3. ASSUME NEW y \in Ttys PROVE OutputAt(y)' /\ InputAt(y)'
    BY <2>1, OutputStays, InputStays DEF Inv
  <2>4. QED
    BY <2>2, <2>3 DEF Inv
<1>4. QED
  BY <1>1, <1>2, <1>3, KeysKeepInv DEF Next

\* The inductive invariant of the rings and their semaphores: tty_fifo_put and
\* tty_fifo_get between sem_wait and sem_notify.
THEOREM InvHolds == Spec => []Inv
BY InitInv, NextKeepsInv, PTL DEF Spec

------------------------------------------------------------------------------
(* What the rings and the semaphores keep.                                 *)

\* A task is in one of the places of dev_tty_read and dev_tty_write, and the
\* rings and semaphores of tty.c never leave their ranges: no count below zero or
\* above the size of its ring, no index past its end.
THEOREM TypeCorrect == Spec => []TypeOK
<1>1. Inv => TypeOK
  BY DEF Inv
<1>2. QED
  BY <1>1, InvHolds, PTL

\* No place of an output ring is lost or counted twice between sem_wait,
\* tty_fifo_put, tty_fifo_get and sem_notify.
THEOREM PlacesConserved == Spec => []SlotsConserved
<1>1. Inv => SlotsConserved
  BY DEF Inv, OutputAt, SlotsConserved, Hands
<1>2. QED
  BY <1>1, InvHolds, PTL

\* tty_put and dev_tty_read never strand a byte beside a reader that waits.
THEOREM BytesHavePermits == Spec => []EveryByteHasAPermit
<1>1. Inv => EveryByteHasAPermit
  BY DEF Inv, InputAt, EveryByteHasAPermit, Coming
<1>2. QED
  BY <1>1, InvHolds, PTL

------------------------------------------------------------------------------
(* A ring hands out its bytes in order.                                    *)

\* What a step may do to the rings of a terminal.
OutputServed(y) ==
    Queue(Contents(ofifo[y], OBUF), Contents(ofifo'[y], OBUF), Front(ofifo[y]))
InputServed(y) ==
    Tasks # {} =>
    \E t \in Tasks : Queue(Contents(ififo[y], IBUF), Contents(ififo'[y], IBUF),
                           IF out'[t] = <<>> THEN "none" ELSE Head(out'[t]))
Served == RingsInStep' /\ \A y \in Ttys : OutputServed(y) /\ InputServed(y)

\* Most steps leave the rings alone.
LEMMA RingsAlone ==
    ASSUME RingsInStep, UNCHANGED <<ififo, ofifo>>
    PROVE  Served
BY DEF RingsInStep, Served, OutputServed, InputServed, Queue

\* A step at one output ring.
LEMMA OutputRing ==
    ASSUME TypeOK, RingsInStep, UNCHANGED ififo, NEW h \in Ttys,
           NEW g, ofifo' = [ofifo EXCEPT ![h] = g], InStep(g, OBUF),
           Queue(Contents(ofifo[h], OBUF), Contents(g, OBUF), Front(ofifo[h]))
    PROVE  Served
<1>1. ofifo'[h] = g /\ \A y \in Ttys : y # h => ofifo'[y] = ofifo[y]
  BY DEF TypeOK
<1>2. RingsInStep'
  BY <1>1 DEF RingsInStep
<1>3. ASSUME NEW y \in Ttys PROVE OutputServed(y)
  <2>1. CASE y = h
    BY <1>1, <2>1 DEF OutputServed
  <2>2. CASE y # h
    BY <1>1, <2>2 DEF OutputServed, Queue
  <2>3. QED
    BY <2>1, <2>2
<1>4. ASSUME NEW y \in Ttys PROVE InputServed(y)
  BY DEF InputServed, Queue
<1>5. QED
  BY <1>2, <1>3, <1>4 DEF Served

\* A step at one input ring.
LEMMA InputRing ==
    ASSUME TypeOK, RingsInStep, UNCHANGED ofifo, NEW h \in Ttys,
           NEW g, ififo' = [ififo EXCEPT ![h] = g], InStep(g, IBUF),
           Tasks # {} =>
             \E t \in Tasks : Queue(Contents(ififo[h], IBUF), Contents(g, IBUF),
                                    IF out'[t] = <<>> THEN "none" ELSE Head(out'[t]))
    PROVE  Served
<1>1. ififo'[h] = g /\ \A y \in Ttys : y # h => ififo'[y] = ififo[y]
  BY DEF TypeOK
<1>2. RingsInStep'
  BY <1>1 DEF RingsInStep
<1>3. ASSUME NEW y \in Ttys PROVE InputServed(y)
  <2>1. CASE y = h
    BY <1>1, <2>1 DEF InputServed
  <2>2. CASE y # h
    BY <1>1, <2>2 DEF InputServed, Queue
  <2>3. QED
    BY <2>1, <2>2
<1>4. ASSUME NEW y \in Ttys PROVE OutputServed(y)
  BY DEF OutputServed, Queue
<1>5. QED
  BY <1>2, <1>3, <1>4 DEF Served

\* A reader takes the oldest byte and is going to echo that one.
LEMMA GetInputServes ==
    ASSUME Inv, RingsInStep, NEW t \in Tasks, GetInput(t)
    PROVE  Served
<1>1. PICK h \in Ttys : h = Home[t]
  BY Parts DEF Inv
<1>2. PICK f \in Ring(IBUF) : f = ififo[h]
  BY Parts DEF Inv
<1>3. UNCHANGED ofifo /\ TypeOK /\ InStep(f, IBUF)
  BY <1>2 DEF GetInput, Inv, RingsInStep
<1>4. CASE Empty(f)
  BY <1>1, <1>2, <1>3, <1>4, RingsAlone DEF GetInput
<1>5. CASE ~Empty(f)
  <2>1. /\ Front(f) = Head(Contents(f, IBUF)) /\ Contents(f, IBUF) # <<>>
        /\ InStep(Get(f, IBUF), IBUF) /\ Contents(Get(f, IBUF), IBUF) = Tail(Contents(f, IBUF))
        /\ Front(f) \in Bytes
    BY <1>3, <1>5, GetTakesHead
  <2>2. ififo' = [ififo EXCEPT ![h] = Get(f, IBUF)] /\ BeginWrite(t, now, <<Front(f)>>)
    BY <1>1, <1>2, <1>5 DEF GetInput
  <2>3. out'[t] = <<Front(f)>> /\ out'[t] # <<>> /\ Head(out'[t]) = Front(f)
    <3>1. out' = [out EXCEPT ![t] = <<Front(f)>>] /\ out \in [Tasks -> Seq(Bytes)]
      BY <1>3, <2>2 DEF BeginWrite, TypeOK
    <3>2. out'[t] = <<Front(f)>>
      BY <3>1
    <3>3. <<Front(f)>> # <<>> /\ Head(<<Front(f)>>) = Front(f)
      OBVIOUS
    <3>4. QED
      BY <3>2, <3>3
  <2>4. Queue(Contents(ififo[h], IBUF), Contents(Get(f, IBUF), IBUF),
              IF out'[t] = <<>> THEN "none" ELSE Head(out'[t]))
    BY <1>2, <2>1, <2>3 DEF Queue
  <2>5. QED
    BY <1>3, <2>1, <2>2, <2>4, InputRing
<1>6. QED
  BY <1>4, <1>5

\* A writer puts its byte behind the others.
LEMMA PutOutputServes ==
    ASSUME Inv, RingsInStep, NEW t \in Tasks, PutOutput(t)
    PROVE  Served
<1>1. PICK h \in Ttys : h = target[t]
  BY Parts DEF Inv
<1>2. PICK f \in Ring(OBUF) : f = ofifo[h] /\ ~Full(f, OBUF)
  BY <1>1, PlaceInHand DEF PutOutput
<1>3. PICK c \in Bytes : c = Head(out[t])
  <2>1. out[t] \in Seq(Bytes) /\ out[t] # <<>>
    BY Parts DEF Inv, BytesToPut, Putting, PutOutput
  <2>2. QED
    BY <2>1, HeadTailProperties
<1>4. /\ UNCHANGED ififo /\ TypeOK /\ InStep(f, OBUF)
      /\ ofifo' = [ofifo EXCEPT ![h] = Put(f, OBUF, c)]
  BY <1>1, <1>2, <1>3 DEF PutOutput, Inv, RingsInStep
<1>5. /\ InStep(Put(f, OBUF, c), OBUF)
      /\ Contents(Put(f, OBUF, c), OBUF) = Append(Contents(f, OBUF), c)
  BY <1>2, <1>4, PutAppends
<1>6. Queue(Contents(ofifo[h], OBUF), Contents(Put(f, OBUF, c), OBUF), Front(ofifo[h]))
  BY <1>2, <1>5 DEF Queue
<1>7. QED
  BY <1>4, <1>5, <1>6, OutputRing

\* Whoever draws takes the oldest byte.
LEMMA DrainServes ==
    ASSUME Inv, RingsInStep, NEW t \in Tasks, Drain(t)
    PROVE  Served
<1>1. PICK h \in Ttys : h = target[t]
  BY Parts DEF Inv
<1>2. PICK f \in Ring(OBUF) : f = ofifo[h]
  BY Parts DEF Inv
<1>3. UNCHANGED ififo /\ TypeOK /\ InStep(f, OBUF)
  BY <1>2 DEF Drain, Inv, RingsInStep
<1>4. CASE Empty(f)
  BY <1>1, <1>2, <1>3, <1>4, RingsAlone DEF Drain, EndWrite
<1>5. CASE ~Empty(f)
  <2>1. /\ Front(f) = Head(Contents(f, OBUF)) /\ Contents(f, OBUF) # <<>>
        /\ InStep(Get(f, OBUF), OBUF) /\ Contents(Get(f, OBUF), OBUF) = Tail(Contents(f, OBUF))
    BY <1>3, <1>5, GetTakesHead
  <2>2. ofifo' = [ofifo EXCEPT ![h] = Get(f, OBUF)]
    BY <1>1, <1>2, <1>5 DEF Drain
  <2>3. Queue(Contents(ofifo[h], OBUF), Contents(Get(f, OBUF), OBUF), Front(ofifo[h]))
    BY <1>2, <2>1 DEF Queue
  <2>4. QED
    BY <1>3, <2>1, <2>2, <2>3, OutputRing
<1>6. QED
  BY <1>4, <1>5

\* A key comes behind the keys before it, or is dropped.
LEMMA KeyServes ==
    ASSUME Inv, RingsInStep, NEW c \in Keys, Key(c)
    PROVE  Served
<1>1. PICK h \in Ttys : h = now
  BY DEF Inv, TypeOK
<1>2. PICK f \in Ring(IBUF) : f = ififo[h]
  BY Parts DEF Inv
<1>3. UNCHANGED ofifo /\ TypeOK /\ InStep(f, IBUF) /\ c \in Bytes
  BY <1>2 DEF Key, Inv, RingsInStep
<1>4. CASE Full(f, IBUF)
  BY <1>1, <1>2, <1>3, <1>4, RingsAlone DEF Key
<1>5. CASE ~Full(f, IBUF)
  <2>1. /\ InStep(Put(f, IBUF, c), IBUF)
        /\ Contents(Put(f, IBUF, c), IBUF) = Append(Contents(f, IBUF), c)
    BY <1>3, <1>5, PutAppends
  <2>2. ififo' = [ififo EXCEPT ![h] = Put(f, IBUF, c)]
    BY <1>1, <1>2, <1>5 DEF Key
  <2>3. ASSUME NEW t \in Tasks
        PROVE  Queue(Contents(ififo[h], IBUF), Contents(Put(f, IBUF, c), IBUF),
                     IF out'[t] = <<>> THEN "none" ELSE Head(out'[t]))
    BY <1>2, <1>3, <2>1 DEF Queue
  <2>4. QED
    BY <1>3, <2>1, <2>2, <2>3, InputRing
<1>6. QED
  BY <1>4, <1>5

\* Every step.
LEMMA NextServes == Inv /\ RingsInStep /\ [Next]_vars => Served
<1> SUFFICES ASSUME Inv, RingsInStep, [Next]_vars PROVE Served
  OBVIOUS
<1>1. ASSUME NEW t \in Tasks, Call(t) PROVE Served
  BY <1>1, RingsAlone DEF Call, Read, Write, fifos
<1>2. ASSUME NEW t \in Tasks, Continue(t) PROVE Served
  <2>1. ASSUME WaitInput(t) \/ WaitOutput(t) \/ GiveBack(t) PROVE Served
    BY <2>1, RingsAlone DEF WaitInput, WaitOutput, GiveBack, fifos
  <2>2. QED
    BY <1>2, <2>1, GetInputServes, PutOutputServes, DrainServes DEF Continue
<1>3. ASSUME NEW y \in Ttys, FKey(y) PROVE Served
  BY <1>3, RingsAlone DEF FKey, fifos
<1>4. CASE UNCHANGED vars
  BY <1>4, RingsAlone DEF vars
<1>5. QED
  BY <1>1, <1>2, <1>3, <1>4, KeyServes DEF Next

\* tty_fifo_put and tty_fifo_get hand out every byte once and in order, however
\* the readers, the writers and the keyboard interleave: read, write and count
\* never fall out of step.
THEOREM BytesServedInOrder == ASSUME Tasks # {} PROVE Spec => ServedInOrder
<1> DEFINE Good == Inv /\ RingsInStep
<1>1. Init => Good
  <2>1. Init => RingsInStep
    BY EmptyRing DEF Init, RingsInStep
  <2>2. QED
    BY <2>1, InitInv
<1>2. Good /\ [Next]_vars => Good'
  BY NextServes, NextKeepsInv DEF Served
<1>3. Good /\ [Next]_vars =>
        \A y \in Ttys :
          /\ Queue(Contents(ofifo[y], OBUF), Contents(ofifo'[y], OBUF),
                   Front(ofifo[y]))
          /\ \E t \in Tasks :
                 Queue(Contents(ififo[y], IBUF), Contents(ififo'[y], IBUF),
                       IF out'[t] = <<>> THEN "none" ELSE Head(out'[t]))
  BY NextServes DEF Served, OutputServed, InputServed
<1> HIDE DEF Good
<1>4. Good /\ [Next]_vars =>
        [\A y \in Ttys :
          /\ Queue(Contents(ofifo[y], OBUF), Contents(ofifo'[y], OBUF),
                   Front(ofifo[y]))
          /\ \E t \in Tasks :
                 Queue(Contents(ififo[y], IBUF), Contents(ififo'[y], IBUF),
                       IF out'[t] = <<>> THEN "none" ELSE Head(out'[t]))]_vars
  BY <1>3
<1>5. QED
  BY <1>1, <1>2, <1>4, PTL DEF Spec, ServedInOrder

------------------------------------------------------------------------------
(* Nobody gets lost in a sequence of its own.                              *)

\* The first byte is drawn, and the rest can still be.
LEMMA DrawsOn ==
    ASSUME NEW p, NEW s \in Seq(Bytes), s # <<>>, Draws(p, s)
    PROVE  Draws(Parsed(p, Head(s)), Tail(s))
<1> DEFINE v == Tail(s)
<1>1. PICK n \in Nat : n = Len(s) - 1
  BY EmptySeq
<1>2. /\ v \in Seq(Bytes) /\ Len(v) = n /\ Len(s) = n + 1
      /\ \A i \in 1..n : v[i] = s[i + 1]
      /\ Head(s) = s[1]
  BY <1>1, HeadTailProperties
<1> HIDE DEF v
<1>3. PICK g \in [0..(n + 1) -> ParseStates] :
         /\ g[0] = p
         /\ \A i \in 1..(n + 1) : g[i] = Parsed(g[i - 1], s[i])
         /\ \A i \in 0..(n + 1) : g[i] # "lost"
         /\ g[n + 1] # "digits"
  BY <1>2 DEF Draws
<1>4. PICK h \in [0..n -> ParseStates] : \A i \in 0..n : h[i] = g[i + 1]
  <2>1. [i \in 0..n |-> g[i + 1]] \in [0..n -> ParseStates]
    BY <1>1, <1>3
  <2>2. QED
    BY <2>1
<1>5. h[0] = Parsed(p, Head(s))
  BY <1>1, <1>2, <1>3, <1>4
<1>6. ASSUME NEW i \in 1..n PROVE h[i] = Parsed(h[i - 1], v[i])
  <2>1. i \in 0..n /\ i - 1 \in 0..n /\ i + 1 \in 1..(n + 1) /\ (i + 1) - 1 = i /\ (i - 1) + 1 = i
    BY <1>1
  <2>2. h[i] = g[i + 1] /\ h[i - 1] = g[i] /\ v[i] = s[i + 1]
    BY <1>2, <1>4, <2>1
  <2>3. g[i + 1] = Parsed(g[i], s[i + 1])
    BY <1>3, <2>1
  <2>4. QED
    BY <2>2, <2>3
<1>7. \A i \in 0..n : h[i] # "lost"
  BY <1>1, <1>3, <1>4
<1>8. h[n] # "digits"
  BY <1>1, <1>3, <1>4
<1>9. Draws(Parsed(p, Head(s)), v)
  BY <1>2, <1>5, <1>6, <1>7, <1>8 DEF Draws
<1>10. QED
  BY <1>9 DEF v

\* Where nobody can be once all is drawn, and nowhere before.
LEMMA NotLost ==
    ASSUME NEW p, NEW s \in Seq(Bytes), Draws(p, s)
    PROVE  p # "lost" /\ (s = <<>> => p # "digits")
<1>1. PICK n \in Nat : n = Len(s)
  BY LenProperties
<1>2. PICK g \in [0..n -> ParseStates] :
         g[0] = p /\ (\A i \in 0..n : g[i] # "lost") /\ g[n] # "digits"
  BY <1>1 DEF Draws
<1>3. s = <<>> => n = 0
  BY <1>1, EmptySeq
<1>4. QED
  BY <1>1, <1>2, <1>3

\* An echo can be drawn, whatever the byte.
LEMMA EchoDraws == ASSUME NEW c \in Bytes PROVE Draws("text", <<c>>)
<1> DEFINE g == [i \in 0..1 |-> IF i = 0 THEN "text" ELSE Parsed("text", c)]
<1>1. Parsed("text", c) \in {"text", "esc"}
  BY DEF Parsed
<1>2. /\ g \in [0..1 -> ParseStates] /\ g[0] = "text" /\ g[1] = Parsed("text", c)
      /\ g[0] # "lost" /\ g[1] # "lost" /\ g[1] # "digits"
  BY <1>1 DEF ParseStates
<1> HIDE DEF g
<1>3. Len(<<c>>) = 1 /\ <<c>>[1] = c
  OBVIOUS
<1>4. 0..1 = {0, 1} /\ 1..1 = {1} /\ 1 - 1 = 0
  OBVIOUS
<1>5. \A i \in 1..1 : g[i] = Parsed(g[i - 1], <<c>>[i])
  BY <1>2, <1>3, <1>4
<1>6. \A i \in 0..1 : g[i] # "lost"
  BY <1>2, <1>4
<1>7. QED
  BY <1>2, <1>3, <1>5, <1>6 DEF Draws

\* A byte goes from the hands of a writer into the ring.
LEMMA MovesOver ==
    ASSUME NEW s \in Seq(Bytes), NEW w \in Seq(Bytes), w # <<>>
    PROVE  Append(s, Head(w)) \o Tail(w) = s \o w
<1> DEFINE a == Append(s, Head(w))
           v == Tail(w)
           l == a \o v
           r == s \o w
<1>1. Head(w) = w[1] /\ Head(w) \in Bytes /\ Len(w) \in Nat /\ Len(w) >= 1 /\ Len(s) \in Nat
  BY HeadTailProperties, EmptySeq, LenProperties
<1>2. /\ a \in Seq(Bytes) /\ Len(a) = Len(s) + 1
      /\ \A i \in 1..Len(s) : a[i] = s[i]
      /\ a[Len(s) + 1] = w[1]
  BY <1>1, AppendProperties
<1>3. v \in Seq(Bytes) /\ Len(v) = Len(w) - 1 /\ \A i \in 1..(Len(w) - 1) : v[i] = w[i + 1]
  BY HeadTailProperties
<1> HIDE DEF a, v
<1>4. /\ l \in Seq(Bytes) /\ Len(l) = Len(s) + Len(w)
      /\ \A i \in 1..(Len(s) + Len(w)) : l[i] = IF i <= Len(s) + 1 THEN a[i] ELSE v[i - (Len(s) + 1)]
  <2>1. /\ a \o v \in Seq(Bytes) /\ Len(a \o v) = Len(a) + Len(v)
        /\ \A i \in 1..(Len(a) + Len(v)) : (a \o v)[i] = IF i <= Len(a) THEN a[i] ELSE v[i - Len(a)]
    <3>1. a \in Seq(Bytes) /\ v \in Seq(Bytes)
      BY <1>2, <1>3
    <3>2. QED
      BY <3>1, ConcatProperties
  <2>2. Len(a) + Len(v) = Len(s) + Len(w)
    BY <1>1, <1>2, <1>3
  <2>3. QED
    BY <1>2, <2>1, <2>2
<1>5. /\ r \in Seq(Bytes) /\ Len(r) = Len(s) + Len(w)
      /\ \A i \in 1..(Len(s) + Len(w)) : r[i] = IF i <= Len(s) THEN s[i] ELSE w[i - Len(s)]
  BY ConcatProperties
<1> HIDE DEF l, r
<1>6. ASSUME NEW i \in 1..(Len(s) + Len(w)) PROVE l[i] = r[i]
  <2>1. CASE i <= Len(s)
    BY <1>1, <1>2, <1>4, <1>5, <2>1
  <2>2. CASE i = Len(s) + 1
    <3>1. i - Len(s) = 1 /\ ~(i <= Len(s)) /\ i <= Len(s) + 1
      BY <1>1, <2>2
    <3>2. QED
      BY <1>2, <1>4, <1>5, <2>2, <3>1
  <2>3. CASE i > Len(s) + 1
    <3>1. PICK j \in 1..(Len(w) - 1) : j = i - (Len(s) + 1)
      <4>1. i - (Len(s) + 1) \in 1..(Len(w) - 1)
        BY <1>1, <2>3
      <4>2. QED
        BY <4>1
    <3>2. i - Len(s) = j + 1 /\ ~(i <= Len(s)) /\ ~(i <= Len(s) + 1)
      BY <1>1, <2>3, <3>1
    <3>3. l[i] = v[j] /\ r[i] = w[j + 1] /\ v[j] = w[j + 1]
      BY <1>3, <1>4, <1>5, <3>1, <3>2
    <3>4. QED
      BY <3>3
  <2>4. QED
    BY <1>1, <2>1, <2>2, <2>3
<1>7. l = r
  BY <1>4, <1>5, <1>6, SeqEqual
<1>8. QED
  BY <1>7 DEF a, v, l, r

\* Whoever gives way leaves the others as alone as they were.
LEMMA AloneStays ==
    ASSUME Alone, UNCHANGED <<target, shared>>,
           \A u \in Tasks : pc'[u] \in InWrite => pc[u] \in InWrite
    PROVE  Alone'
<1> SUFFICES ASSUME NEW u \in Tasks, pc'[u] \in InWrite, ~shared[u]
             PROVE  {v \in Tasks : pc'[v] \in InWrite /\ target[v] = target[u]} = {u}
  BY DEF Alone, At
<1>1. {v \in Tasks : pc[v] \in InWrite /\ target[v] = target[u]} = {u}
  BY DEF Alone, At
<1>2. QED
  BY <1>1

\* A write nobody touches can be drawn as before.
LEMMA DrawStays ==
    ASSUME NEW u \in Tasks, CanDraw(u), NEW h, target[u] = h,
           parse'[u] = parse[u], out'[u] = out[u], target'[u] = h,
           pc'[u] \in InWrite /\ ~shared'[u] => /\ pc[u] \in InWrite /\ ~shared[u]
                                                /\ ofifo'[h] = ofifo[h],
           pc'[u] = "spin" => pc[u] = "spin" \/ shared'[u]
    PROVE  CanDraw(u)'
<1> SUFFICES ASSUME pc'[u] \in InWrite, ~shared'[u]
             PROVE  /\ Draws(parse'[u], Contents(ofifo'[target'[u]], OBUF) \o out'[u])
                    /\ pc'[u] # "spin"
  BY DEF CanDraw
<1>1. /\ Draws(parse[u], Contents(ofifo[target[u]], OBUF) \o out[u])
      /\ pc[u] # "spin"
  BY DEF CanDraw
<1>2. ofifo'[target'[u]] = ofifo[target[u]]
  OBVIOUS
<1>3. QED
  BY <1>1, <1>2

\* Steps that neither put nor draw.
LEMMA QuietStep ==
    ASSUME Inv, DrawInv, UNCHANGED <<ofifo, out, target, parse, shared>>,
           \A u \in Tasks : pc'[u] \in InWrite <=> pc[u] \in InWrite,
           \A u \in Tasks : pc'[u] \notin Drawing => pc[u] \notin Drawing,
           \A u \in Tasks : pc'[u] = "spin" => pc[u] = "spin" \/ shared[u]
    PROVE  DrawInv'
<1>1. Alone'
  BY AloneStays DEF DrawInv
<1>2. NoBytesLeft'
  BY DEF DrawInv, NoBytesLeft, At
<1>3. TextFirst'
  BY DEF DrawInv, TextFirst
<1>4. ASSUME NEW u \in Tasks PROVE CanDraw(u)'
  BY DrawStays DEF DrawInv, CanBeDrawn
<1>5. QED
  BY <1>1, <1>2, <1>3, <1>4 DEF DrawInv, CanBeDrawn

\* A write begins: alone with an empty ring, or shared.
LEMMA BeginStep ==
    ASSUME Inv, DrawInv, NEW t \in Tasks, NEW h \in Ttys, NEW w \in Seq(Bytes),
           Draws("text", w), BeginWrite(t, h, w), UNCHANGED <<ofifo, parse>>,
           pc[t] \notin InWrite, pc'[t] = "owait",
           \A u \in Tasks : u # t => pc'[u] = pc[u]
    PROVE  DrawInv'
<1>1. TypeOK
  BY DEF Inv
<1>2. /\ out'[t] = w /\ target'[t] = h
      /\ \A u \in Tasks : u # t => out'[u] = out[u] /\ target'[u] = target[u]
  BY <1>1, BeginsWrite
<1>3. ~shared'[t] => At(h, InWrite) = {}
  BY Zenon DEF BeginWrite
<1>4. \A u \in Tasks : u # t /\ ~shared'[u] => ~shared[u] /\ u \notin At(h, InWrite)
  BY Zenon DEF BeginWrite
<1>5. pc'[t] \in InWrite /\ pc'[t] \notin Drawing /\ pc[t] \notin Drawing
  BY DEF InWrite, Drawing
<1>6. Alone'
  <2> SUFFICES ASSUME NEW u \in Tasks, pc'[u] \in InWrite, ~shared'[u]
               PROVE  {v \in Tasks : pc'[v] \in InWrite /\ target'[v] = target'[u]} = {u}
    BY DEF Alone, At
  <2>1. CASE u = t
    <3>1. \A v \in Tasks : ~(pc[v] \in InWrite /\ target[v] = h)
      BY <1>3, <2>1 DEF At
    <3>2. QED
      BY <1>2, <2>1, <3>1
  <2>2. CASE u # t
    <3>1. pc[u] \in InWrite /\ ~shared[u] /\ target'[u] = target[u] /\ target[u] # h
      BY <1>2, <1>4, <2>2 DEF At
    <3>2. {v \in Tasks : pc[v] \in InWrite /\ target[v] = target[u]} = {u}
      BY <3>1 DEF DrawInv, Alone, At
    <3>3. QED
      BY <1>2, <2>2, <3>1, <3>2
  <2>3. QED
    BY <2>1, <2>2
<1>7. NoBytesLeft'
  <2> SUFFICES ASSUME NEW y \in Ttys, {v \in Tasks : pc'[v] \in InWrite /\ target'[v] = y} = {}
               PROVE  ofifo[y].count = 0
    BY DEF NoBytesLeft, At
  <2>1. y # h
    BY <1>2, <1>5
  <2>2. {v \in Tasks : pc[v] \in InWrite /\ target[v] = y} = {}
    BY <1>2, <2>1
  <2>3. QED
    BY <2>2 DEF DrawInv, NoBytesLeft, At
<1>8. TextFirst'
  BY <1>5 DEF DrawInv, TextFirst
<1>9. ASSUME NEW u \in Tasks, u # t PROVE CanDraw(u)'
  BY <1>2, <1>4, <1>9, DrawStays DEF DrawInv, CanBeDrawn
<1>10. CanDraw(t)'
  <2> SUFFICES ASSUME ~shared'[t]
               PROVE  Draws(parse'[t], Contents(ofifo'[target'[t]], OBUF) \o out'[t])
    BY DEF CanDraw
  <2>1. ofifo[h].count = 0
    BY <1>3 DEF DrawInv, NoBytesLeft
  <2>2. Contents(ofifo[h], OBUF) = <<>>
    <3>1. Contents(ofifo[h], OBUF) \in Seq(Bytes) /\ Len(Contents(ofifo[h], OBUF)) = 0
      BY <1>1, <2>1, Parts, RingParts
    <3>2. QED
      BY <3>1, EmptySeq
  <2>3. Contents(ofifo[h], OBUF) \o w = w
    BY <2>2, ConcatEmptySeq
  <2>4. parse[t] = "text"
    BY <1>5 DEF DrawInv, TextFirst
  <2>5. QED
    BY <1>2, <2>3, <2>4
<1>11. QED
  BY <1>6, <1>7, <1>8, <1>9, <1>10 DEF DrawInv, CanBeDrawn

\* A byte goes into the ring.
LEMMA PutOutputDraws ==
    ASSUME Inv, RingsInStep, DrawInv, NEW t \in Tasks, PutOutput(t)
    PROVE  DrawInv'
<1>1. PICK h \in Ttys : h = target[t]
  BY Parts DEF Inv
<1>2. PICK f \in Ring(OBUF) : f = ofifo[h] /\ ~Full(f, OBUF)
  BY <1>1, PlaceInHand DEF PutOutput
<1>3. PICK w \in Seq(Bytes) : w = out[t] /\ w # <<>>
  BY Parts DEF Inv, BytesToPut, Putting, PutOutput
<1>4. PICK g : g = Put(f, OBUF, Head(w))
  OBVIOUS
<1>5. PICK to \in {"owait", "drain"} : Goes(t, to, masked[t])
  BY <1>1, <1>2, <1>3 DEF PutOutput
<1>6. /\ TypeOK /\ pc[t] = "oput" /\ InStep(f, OBUF)
      /\ UNCHANGED <<target, parse, shared>>
      /\ ofifo' = [ofifo EXCEPT ![h] = g] /\ out' = [out EXCEPT ![t] = Tail(w)]
  BY <1>1, <1>2, <1>3, <1>4 DEF Inv, RingsInStep, PutOutput
<1>7. pc'[t] = to /\ \A u \in Tasks : u # t => pc'[u] = pc[u]
  BY <1>5, <1>6, GoesThere, Parts DEF PCs
<1>8. /\ pc[t] \in InWrite /\ pc'[t] \in InWrite /\ pc'[t] # "spin" /\ pc[t] \notin Drawing
      /\ out'[t] = Tail(w) /\ \A u \in Tasks : u # t => out'[u] = out[u]
      /\ ofifo'[h] = g /\ \A y \in Ttys : y # h => ofifo'[y] = ofifo[y]
  BY <1>6, <1>7 DEF InWrite, Drawing, TypeOK
<1>9. Alone'
  BY <1>6, <1>7, <1>8, AloneStays DEF DrawInv
<1>10. NoBytesLeft'
  <2> SUFFICES ASSUME NEW y \in Ttys, {v \in Tasks : pc'[v] \in InWrite /\ target[v] = y} = {}
               PROVE  ofifo'[y].count = 0
    BY <1>6 DEF NoBytesLeft, At
  <2>1. y # h
    BY <1>1, <1>8
  <2>2. {v \in Tasks : pc[v] \in InWrite /\ target[v] = y} = {}
    BY <1>1, <1>7, <2>1
  <2>3. QED
    BY <1>8, <2>1, <2>2 DEF DrawInv, NoBytesLeft, At
<1>11. TextFirst'
  BY <1>6, <1>7, <1>8 DEF DrawInv, TextFirst
<1>12. ASSUME NEW u \in Tasks, u # t PROVE CanDraw(u)'
  <2>1. PICK y \in Ttys : y = target[u]
    BY <1>6, Parts
  <2>2. pc[u] \in InWrite /\ ~shared[u] => y # h
    <3> SUFFICES ASSUME pc[u] \in InWrite, ~shared[u], y = h PROVE FALSE
      OBVIOUS
    <3>1. At(target[u], InWrite) = {u}
      BY DEF DrawInv, Alone
    <3>2. t \in At(target[u], InWrite)
      BY <1>1, <1>8, <2>1 DEF At
    <3>3. QED
      BY <1>12, <3>1, <3>2
  <2>3. QED
    BY <1>6, <1>7, <1>8, <1>12, <2>1, <2>2, DrawStays DEF DrawInv, CanBeDrawn
<1>13. CanDraw(t)'
  <2> SUFFICES ASSUME ~shared[t]
               PROVE  Draws(parse[t], Contents(g, OBUF) \o Tail(w))
    BY <1>1, <1>6, <1>8 DEF CanDraw
  <2>1. Head(w) \in Bytes
    BY <1>3, HeadTailProperties
  <2>2. Contents(g, OBUF) = Append(Contents(f, OBUF), Head(w))
    BY <1>2, <1>4, <1>6, <2>1, PutAppends
  <2>3. Contents(g, OBUF) \o Tail(w) = Contents(f, OBUF) \o w
    <3>1. PICK s \in Seq(Bytes) : s = Contents(f, OBUF)
      BY <1>6, Parts, RingParts
    <3>2. Append(s, Head(w)) \o Tail(w) = s \o w
      BY <1>3, MovesOver
    <3>3. QED
      BY <2>2, <3>1, <3>2
  <2>4. Draws(parse[t], Contents(f, OBUF) \o w)
    BY <1>1, <1>2, <1>3, <1>8 DEF DrawInv, CanBeDrawn, CanDraw
  <2>5. QED
    BY <2>3, <2>4
<1>14. QED
  BY <1>9, <1>10, <1>11, <1>12, <1>13 DEF DrawInv, CanBeDrawn

\* A byte is drawn, or the write is over and nothing is left in the ring.
LEMMA DrainDraws ==
    ASSUME Inv, RingsInStep, DrawInv, NEW t \in Tasks, Drain(t)
    PROVE  DrawInv'
<1>1. PICK h \in Ttys : h = target[t]
  BY Parts DEF Inv
<1>2. PICK f \in Ring(OBUF) : f = ofifo[h]
  BY Parts DEF Inv
<1>3. PICK p \in ParseStates : p = parse[t]
  BY Parts DEF Inv
<1>4. PICK s \in Seq(Bytes) : s = Contents(f, OBUF)
  BY Parts, RingParts DEF Inv
<1>5. /\ TypeOK /\ pc[t] = "drain" /\ out[t] = <<>> /\ masked[t] \in BOOLEAN
      /\ UNCHANGED <<out, target, shared>> /\ InStep(f, OBUF)
  BY <1>2, Parts DEF Inv, BytesToPut, Drawing, Drain, RingsInStep
<1>6. ~shared[t] => Draws(p, s)
  <2>1. s \o <<>> = s
    BY ConcatEmptySeq
  <2>2. ~shared[t] => Draws(p, s \o <<>>)
    BY <1>1, <1>2, <1>3, <1>4, <1>5 DEF DrawInv, CanBeDrawn, CanDraw, InWrite
  <2>3. QED
    BY <2>1, <2>2
<1>7. ASSUME NEW u \in Tasks, u # t,
             \/ ofifo' = ofifo
             \/ \A y \in Ttys : y # h => ofifo'[y] = ofifo[y],
             pc'[u] = pc[u], parse'[u] = parse[u]
      PROVE  CanDraw(u)'
  <2>1. PICK y \in Ttys : y = target[u]
    BY <1>5, Parts
  <2>2. pc[u] \in InWrite /\ ~shared[u] => y # h
    <3> SUFFICES ASSUME pc[u] \in InWrite, ~shared[u], y = h PROVE FALSE
      OBVIOUS
    <3>1. At(target[u], InWrite) = {u}
      BY DEF DrawInv, Alone
    <3>2. t \in At(target[u], InWrite)
      BY <1>1, <1>5, <2>1 DEF At, InWrite
    <3>3. QED
      BY <1>7, <3>1, <3>2
  <2>3. QED
    BY <1>5, <1>7, <2>1, <2>2, DrawStays DEF DrawInv, CanBeDrawn
<1>8. CASE Empty(f)
  <2>1. PICK to \in {"spin", "iwait", "user"} :
           /\ \E off \in BOOLEAN : Goes(t, to, off)
           /\ to = "spin" <=> p = "digits"
    BY <1>1, <1>2, <1>3, <1>8 DEF Drain, EndWrite
  <2>2. /\ parse' = [parse EXCEPT ![t] = IF p = "digits" THEN p ELSE "text"]
        /\ ofifo' = ofifo /\ f.count = 0
    BY <1>1, <1>2, <1>3, <1>8 DEF Drain, EndWrite, Empty
  <2>3. pc'[t] = to /\ \A u \in Tasks : u # t => pc'[u] = pc[u]
    BY <1>5, <2>1, GoesThere DEF PCs
  <2>4. /\ parse'[t] = (IF p = "digits" THEN p ELSE "text")
        /\ \A u \in Tasks : u # t => parse'[u] = parse[u]
    BY <1>5, <2>2 DEF TypeOK
  <2>5. pc[t] \in InWrite /\ (to # "spin" => to \notin InWrite /\ to \notin Drawing)
        /\ "spin" \in Drawing
    BY <1>5, <2>1 DEF InWrite, Drawing
  <2>6. Alone'
    BY <1>5, <2>3, <2>5, AloneStays DEF DrawInv
  <2>7. NoBytesLeft'
    <3> SUFFICES ASSUME NEW y \in Ttys, {v \in Tasks : pc'[v] \in InWrite /\ target[v] = y} = {}
                 PROVE  ofifo[y].count = 0
      BY <1>5, <2>2 DEF NoBytesLeft, At
    <3>1. CASE y = h
      BY <1>2, <2>2, <3>1
    <3>2. CASE y # h
      <4>1. {v \in Tasks : pc[v] \in InWrite /\ target[v] = y} = {}
        BY <1>1, <2>3, <3>2
      <4>2. QED
        BY <4>1 DEF DrawInv, NoBytesLeft, At
    <3>3. QED
      BY <3>1, <3>2
  <2>8. TextFirst'
    BY <2>1, <2>3, <2>4, <2>5 DEF DrawInv, TextFirst
  <2>9. CanDraw(t)'
    <3> SUFFICES ASSUME ~shared[t], pc'[t] \in InWrite PROVE FALSE
      BY <1>5 DEF CanDraw
    <3>1. p = "digits"
      BY <2>1, <2>3, <2>5
    <3>2. s = <<>>
      <4>1. Len(s) = 0
        BY <1>4, <1>5, <2>2, Parts, RingParts
      <4>2. QED
        BY <4>1, EmptySeq
    <3>3. QED
      BY <1>6, <3>1, <3>2, NotLost
  <2>10. ASSUME NEW u \in Tasks PROVE CanDraw(u)'
    BY <1>7, <2>2, <2>3, <2>4, <2>9
  <2>11. QED
    BY <2>6, <2>7, <2>8, <2>10 DEF DrawInv, CanBeDrawn
<1>9. CASE ~Empty(f)
  <2>1. PICK g : g = Get(f, OBUF)
    OBVIOUS
  <2>2. s # <<>> /\ Front(f) = Head(s) /\ Contents(g, OBUF) = Tail(s)
    BY <1>4, <1>5, <1>9, <2>1, Parts, GetTakesHead
  <2>3. /\ ofifo' = [ofifo EXCEPT ![h] = g]
        /\ parse' = [parse EXCEPT ![t] = Parsed(p, Head(s))]
        /\ Goes(t, "note", masked[t])
    BY <1>1, <1>2, <1>3, <1>9, <2>1, <2>2 DEF Drain
  <2>4. pc'[t] = "note" /\ \A u \in Tasks : u # t => pc'[u] = pc[u]
    BY <1>5, <2>3, GoesThere DEF PCs
  <2>5. /\ parse'[t] = Parsed(p, Head(s)) /\ \A u \in Tasks : u # t => parse'[u] = parse[u]
        /\ ofifo'[h] = g /\ \A y \in Ttys : y # h => ofifo'[y] = ofifo[y]
    BY <1>5, <2>3 DEF TypeOK
  <2>6. pc[t] \in InWrite /\ "note" \in InWrite /\ "note" \in Drawing
    BY <1>5 DEF InWrite, Drawing
  <2>7. Alone'
    BY <1>5, <2>4, <2>6, AloneStays DEF DrawInv
  <2>8. NoBytesLeft'
    <3> SUFFICES ASSUME NEW y \in Ttys, {v \in Tasks : pc'[v] \in InWrite /\ target[v] = y} = {}
                 PROVE  ofifo'[y].count = 0
      BY <1>5 DEF NoBytesLeft, At
    <3>1. y # h
      BY <1>1, <2>4, <2>6
    <3>2. {v \in Tasks : pc[v] \in InWrite /\ target[v] = y} = {}
      BY <1>1, <2>4, <3>1
    <3>3. QED
      BY <2>5, <3>1, <3>2 DEF DrawInv, NoBytesLeft, At
  <2>9. TextFirst'
    BY <2>4, <2>5, <2>6 DEF DrawInv, TextFirst
  <2>10. CanDraw(t)'
    <3> SUFFICES ASSUME ~shared[t]
                 PROVE  Draws(Parsed(p, Head(s)), Contents(g, OBUF) \o <<>>)
      BY <1>1, <1>5, <2>4, <2>5 DEF CanDraw
    <3>1. Tail(s) \in Seq(Bytes)
      BY <2>2, HeadTailProperties
    <3>2. Contents(g, OBUF) \o <<>> = Tail(s)
      BY <2>2, <3>1, ConcatEmptySeq
    <3>3. Draws(Parsed(p, Head(s)), Tail(s))
      BY <1>6, <2>2, DrawsOn
    <3>4. QED
      BY <3>2, <3>3
  <2>11. ASSUME NEW u \in Tasks PROVE CanDraw(u)'
    BY <1>7, <2>4, <2>5, <2>10
  <2>12. QED
    BY <2>7, <2>8, <2>9, <2>11 DEF DrawInv, CanBeDrawn
<1>10. QED
  BY <1>8, <1>9

\* The place goes back; whoever is lost by now has shared the ring.
LEMMA GiveBackDraws ==
    ASSUME Inv, DrawInv, NEW t \in Tasks, GiveBack(t)
    PROVE  DrawInv'
<1>1. PICK h \in Ttys : h = target[t]
  BY Parts DEF Inv
<1>2. PICK s \in Sem : s = osem[h]
  BY Parts DEF Inv
<1>3. PICK to \in {"spin", "drain"} : /\ pc' = [Passed(s, "oput") EXCEPT ![t] = to]
                                      /\ to = "spin" <=> parse[t] = "lost"
  BY <1>1, <1>2 DEF GiveBack
<1>4. /\ TypeOK /\ pc[t] = "note" /\ OutputAt(h)
      /\ UNCHANGED <<ofifo, out, target, parse, shared>>
  BY <1>1, <1>2 DEF Inv, GiveBack, fifos, local
<1>5. pc \in [Tasks -> PCs] /\ s.queue \in Seq(Tasks)
  BY <1>4 DEF TypeOK, Sem
<1>6. ASSUME NEW u \in Tasks, u # t
      PROVE  \/ pc'[u] = pc[u]
             \/ pc[u] = "osem" /\ pc'[u] = "oput"
  <2>1. CASE s.queue = <<>>
    BY <1>3, <1>5, <1>6, <2>1 DEF Passed
  <2>2. CASE s.queue # <<>>
    <3>1. PICK v \in Tasks : v = Head(s.queue) /\ v \in Elems(s.queue)
      BY <1>5, <2>2, QueueTail
    <3>2. pc[v] = "osem"
      BY <1>2, <1>4, <3>1 DEF OutputAt
    <3>3. pc' = [[pc EXCEPT ![v] = "oput"] EXCEPT ![t] = to]
      BY <1>3, <2>2, <3>1 DEF Passed
    <3>4. QED
      BY <1>5, <1>6, <3>2, <3>3
  <2>3. QED
    BY <2>1, <2>2
<1>7. pc'[t] = to
  BY <1>3, <1>5 DEF Passed
<1>8. to = "spin" => shared[t]
  <2> SUFFICES ASSUME parse[t] = "lost", ~shared[t] PROVE FALSE
    BY <1>3
  <2>1. Draws("lost", Contents(ofifo[h], OBUF) \o out[t])
    BY <1>1, <1>4 DEF DrawInv, CanBeDrawn, CanDraw, InWrite
  <2>2. PICK r \in Seq(Bytes) : r = Contents(ofifo[h], OBUF) \o out[t]
    <3>1. Contents(ofifo[h], OBUF) \in Seq(Bytes) /\ out[t] \in Seq(Bytes)
      BY <1>4, Parts, RingParts
    <3>2. QED
      BY <3>1, ConcatProperties
  <2>3. QED
    BY <2>1, <2>2, NotLost
<1>9. ASSUME NEW u \in Tasks
      PROVE  /\ pc'[u] \in InWrite <=> pc[u] \in InWrite
             /\ pc'[u] \notin Drawing => pc[u] \notin Drawing
             /\ pc'[u] = "spin" => pc[u] = "spin" \/ shared[u]
  BY <1>3, <1>4, <1>6, <1>7, <1>8 DEF InWrite, Drawing
<1>10. QED
  BY <1>4, <1>9, QuietStep

\* A key lets a reader in, and no writer.
LEMMA LetReaderInDraws ==
    ASSUME Inv, DrawInv, NEW h \in Ttys, LetReaderIn(h),
           UNCHANGED <<ofifo, out, target, parse, shared>>
    PROVE  DrawInv'
<1>1. PICK s \in Sem : s = isem[h]
  BY Parts DEF Inv
<1>2. TypeOK /\ InputAt(h) /\ pc' = Passed(s, "iget")
  BY <1>1 DEF Inv, LetReaderIn
<1>3. pc \in [Tasks -> PCs] /\ s.queue \in Seq(Tasks)
  BY <1>2 DEF TypeOK, Sem
<1>4. ASSUME NEW u \in Tasks
      PROVE  \/ pc'[u] = pc[u]
             \/ pc[u] = "isem" /\ pc'[u] = "iget"
  <2>1. CASE s.queue = <<>>
    BY <1>2, <2>1 DEF Passed
  <2>2. CASE s.queue # <<>>
    <3>1. PICK v \in Tasks : v = Head(s.queue) /\ v \in Elems(s.queue)
      BY <1>3, <2>2, QueueTail
    <3>2. pc[v] = "isem"
      BY <1>1, <1>2, <3>1 DEF InputAt
    <3>3. pc' = [pc EXCEPT ![v] = "iget"]
      BY <1>2, <2>2, <3>1 DEF Passed
    <3>4. QED
      BY <1>3, <3>2, <3>3
  <2>3. QED
    BY <2>1, <2>2
<1>5. ASSUME NEW u \in Tasks
      PROVE  /\ pc'[u] \in InWrite <=> pc[u] \in InWrite
             /\ pc'[u] \notin Drawing => pc[u] \notin Drawing
             /\ pc'[u] = "spin" => pc[u] = "spin" \/ shared[u]
  BY <1>4 DEF InWrite, Drawing
<1>6. QED
  BY <1>5, QuietStep

\* Every step.
LEMMA NextDraws ==
    ASSUME WholeSequences, Inv, RingsInStep, DrawInv, [Next]_vars
    PROVE  DrawInv'
<1>1. TypeOK /\ now \in Ttys
  BY DEF Inv, TypeOK
<1>2. ASSUME NEW t \in Tasks, NEW to \in {"iwait", "iget", "isem", "user"}, NEW off \in BOOLEAN,
             Goes(t, to, off), pc[t] \in {"iwait", "iget", "isem", "user"},
             UNCHANGED <<ofifo, out, target, parse, shared>>
      PROVE  DrawInv'
  <2>1. pc'[t] = to /\ \A u \in Tasks : u # t => pc'[u] = pc[u]
    BY <1>1, <1>2, GoesThere DEF PCs
  <2>2. ASSUME NEW u \in Tasks
        PROVE  /\ pc'[u] \in InWrite <=> pc[u] \in InWrite
               /\ pc'[u] \notin Drawing => pc[u] \notin Drawing
               /\ pc'[u] = "spin" => pc[u] = "spin" \/ shared[u]
    BY <1>2, <2>1 DEF InWrite, Drawing
  <2>3. QED
    BY <1>2, <2>2, QuietStep
<1>3. ASSUME NEW t \in Tasks, Call(t) PROVE DrawInv'
  <2>1. ASSUME NEW n \in ReadSizes[t], Read(t, n) PROVE DrawInv'
    BY <1>2, <2>1 DEF Read, fifos
  <2>2. ASSUME NEW w \in Writes[t], Write(t, w) PROVE DrawInv'
    <3>1. w \in Seq(Bytes) /\ Home[t] \in Ttys /\ Draws("text", w)
      BY DEF WholeSequences
    <3>2. /\ BeginWrite(t, Home[t], w) /\ UNCHANGED <<ofifo, parse>> /\ pc[t] = "user"
          /\ Goes(t, "owait", FALSE)
      BY <2>2 DEF Write, fifos
    <3>3. pc[t] \notin InWrite
      BY <3>2 DEF InWrite
    <3>4. pc'[t] = "owait" /\ \A u \in Tasks : u # t => pc'[u] = pc[u]
      BY <1>1, <3>2, GoesThere DEF PCs
    <3>5. QED
      BY <3>1, <3>2, <3>3, <3>4, BeginStep
  <2>3. QED
    BY <1>3, <2>1, <2>2 DEF Call
<1>4. ASSUME NEW t \in Tasks, Continue(t) PROVE DrawInv'
  <2>1. masked[t] \in BOOLEAN
    BY <1>1, Parts
  <2>2. ASSUME WaitInput(t) PROVE DrawInv'
    <3>1. PICK to \in {"iget", "isem"} : Goes(t, to, masked[t])
      BY <2>2 DEF WaitInput
    <3>2. pc[t] = "iwait" /\ UNCHANGED <<ofifo, out, target, parse, shared>>
      BY <2>2 DEF WaitInput, fifos, local
    <3>3. QED
      BY <1>2, <2>1, <3>1, <3>2
  <2>3. ASSUME GetInput(t) PROVE DrawInv'
    <3>1. PICK f \in Ring(IBUF) : f = ififo[Home[t]]
      BY <1>1, Parts
    <3>2. pc[t] = "iget" /\ UNCHANGED <<ofifo, parse>>
      BY <2>3 DEF GetInput
    <3>3. CASE Empty(f)
      <4>1. Goes(t, "user", FALSE) /\ UNCHANGED <<out, target, shared>>
        BY <2>3, <3>1, <3>3 DEF GetInput
      <4>2. QED
        BY <1>2, <3>2, <4>1
    <3>4. CASE ~Empty(f)
      <4>1. BeginWrite(t, now, <<Front(f)>>) /\ Goes(t, "owait", masked[t])
        BY <2>3, <3>1, <3>4 DEF GetInput
      <4>2. Front(f) \in Bytes
        BY <3>4, GetTakesHead
      <4>3. <<Front(f)>> \in Seq(Bytes) /\ Draws("text", <<Front(f)>>)
        BY <4>2, EchoDraws
      <4>4. pc[t] \notin InWrite
        BY <3>2 DEF InWrite
      <4>5. pc'[t] = "owait" /\ \A u \in Tasks : u # t => pc'[u] = pc[u]
        BY <1>1, <2>1, <4>1, GoesThere DEF PCs
      <4>6. QED
        BY <1>1, <3>2, <4>1, <4>3, <4>4, <4>5, BeginStep
    <3>5. QED
      BY <3>3, <3>4
  <2>4. ASSUME WaitOutput(t) PROVE DrawInv'
    <3>1. PICK to \in {"oput", "osem"} : Goes(t, to, masked[t])
      BY <2>4 DEF WaitOutput
    <3>2. pc[t] = "owait" /\ UNCHANGED <<ofifo, out, target, parse, shared>>
      BY <2>4 DEF WaitOutput, fifos, local
    <3>3. pc'[t] = to /\ \A u \in Tasks : u # t => pc'[u] = pc[u]
      BY <1>1, <2>1, <3>1, GoesThere DEF PCs
    <3>4. ASSUME NEW u \in Tasks
          PROVE  /\ pc'[u] \in InWrite <=> pc[u] \in InWrite
                 /\ pc'[u] \notin Drawing => pc[u] \notin Drawing
                 /\ pc'[u] = "spin" => pc[u] = "spin" \/ shared[u]
      BY <3>1, <3>2, <3>3 DEF InWrite, Drawing
    <3>5. QED
      BY <3>2, <3>4, QuietStep
  <2>5. QED
    BY <1>4, <2>2, <2>3, <2>4, PutOutputDraws, DrainDraws, GiveBackDraws DEF Continue
<1>5. ASSUME NEW c \in Keys, Key(c) PROVE DrawInv'
  BY <1>1, <1>5, LetReaderInDraws DEF Key, local
<1>6. ASSUME NEW y \in Ttys, FKey(y) PROVE DrawInv'
  BY <1>6, LetReaderInDraws DEF FKey, fifos, local
<1>7. CASE UNCHANGED vars
  BY <1>7, QuietStep DEF vars
<1>8. QED
  BY <1>3, <1>4, <1>5, <1>6, <1>7 DEF Next

\* If what the tasks write is made of whole escape sequences, com_esc never goes
\* round for ever in a task that has had its terminal to itself during the write.
THEOREM LostWhenShared == ASSUME WholeSequences PROVE Spec => []LostOnlyWhenShared
<1> DEFINE Good == Inv /\ RingsInStep /\ DrawInv
<1>1. Init => Good
  <2> SUFFICES ASSUME Init PROVE Good
    OBVIOUS
  <2>1. Inv /\ RingsInStep
    BY InitInv, EmptyRing DEF Init, RingsInStep
  <2>2. \A u \in Tasks : pc[u] \notin InWrite /\ parse[u] = "text"
    BY DEF Init, InWrite
  <2>3. \A y \in Ttys : ofifo[y].count = 0
    BY EmptyRing DEF Init
  <2>4. DrawInv
    BY <2>2, <2>3 DEF DrawInv, Alone, NoBytesLeft, TextFirst, CanBeDrawn, CanDraw
  <2>5. QED
    BY <2>1, <2>4
<1>2. Good /\ [Next]_vars => Good'
  <2> SUFFICES ASSUME Good, [Next]_vars PROVE Good'
    OBVIOUS
  <2>1. Inv'
    BY NextKeepsInv
  <2>2. RingsInStep'
    BY NextServes DEF Served
  <2>3. DrawInv'
    BY NextDraws
  <2>4. QED
    BY <2>1, <2>2, <2>3
<1>3. Good => LostOnlyWhenShared
  BY DEF DrawInv, CanBeDrawn, CanDraw, LostOnlyWhenShared, InWrite
<1> HIDE DEF Good
<1>4. QED
  BY <1>1, <1>2, <1>3, PTL DEF Spec
==============================================================================
