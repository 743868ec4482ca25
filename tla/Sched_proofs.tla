---------------------------- MODULE Sched_proofs ----------------------------
(***************************************************************************)
(* Proofs about Sched, for every set of tasks, semaphores and mutexes and  *)
(* whether or not the unprotected sections are disturbed.                  *)
(***************************************************************************)
EXTENDS Sched, SequenceTheorems, TLAPS

------------------------------------------------------------------------------
(* Lists.                                                                  *)

\* Taking the k-th element out of a sequence (list_remove) keeps the others in
\* their order.
LEMMA RemoveAtFacts ==
    ASSUME NEW S, NEW q \in Seq(S), NEW k \in 1..Len(q)
    PROVE  /\ RemoveAt(q, k) \in Seq(S)
           /\ Len(RemoveAt(q, k)) = Len(q) - 1
           /\ \A i \in 1..(Len(q) - 1) :
                 RemoveAt(q, k)[i] = IF i < k THEN q[i] ELSE q[i + 1]
<1> DEFINE a == SubSeq(q, 1, k - 1)
           b == SubSeq(q, k + 1, Len(q))
<1>1. /\ a \in Seq(S) /\ Len(a) = k - 1
      /\ \A i \in 1..(k - 1) : a[i] = q[i]
  BY SubSeqProperties
<1>2. /\ b \in Seq(S) /\ Len(b) = Len(q) - k
      /\ \A i \in 1..(Len(q) - k) : b[i] = q[k + i]
  BY SubSeqProperties
<1>3. RemoveAt(q, k) = a \o b
  BY DEF RemoveAt
<1>4. /\ a \o b \in Seq(S) /\ Len(a \o b) = Len(a) + Len(b)
      /\ \A i \in 1..Len(a) + Len(b) :
            (a \o b)[i] = IF i <= Len(a) THEN a[i] ELSE b[i - Len(a)]
  BY <1>1, <1>2, ConcatProperties
<1> HIDE DEF a, b
<1>5. QED
  BY <1>1, <1>2, <1>3, <1>4

Queues == [Lists -> Seq(Tasks)]

\* list_remove of a task that is on list l: it is on no list afterwards, the
\* other tasks stay where they are.
LEMMA Remove1Facts ==
    ASSUME NEW q \in Queues, Sound(q), NEW l \in Lists, NEW t \in Members(q, l)
    PROVE  /\ Remove1(q, l, t) \in Queues
           /\ Sound(Remove1(q, l, t))
           /\ Members(Remove1(q, l, t), l) = Members(q, l) \ {t}
           /\ \A k \in Lists \ {l} : Remove1(q, l, t)[k] = q[k]
           /\ OnNoList(Remove1(q, l, t), t)
<1> DEFINE n == CHOOSE k \in 1..Len(q[l]) : q[l][k] = t
           r == Remove1(q, l, t)
           s == RemoveAt(q[l], n)
<1>1. q[l] \in Seq(Tasks)
  BY DEF Queues
<1>2. n \in 1..Len(q[l]) /\ q[l][n] = t
  BY DEF Members
<1> HIDE DEF n
<1>3. /\ s \in Seq(Tasks)
      /\ Len(s) = Len(q[l]) - 1
      /\ \A i \in 1..(Len(q[l]) - 1) :
            s[i] = IF i < n THEN q[l][i] ELSE q[l][i + 1]
  BY <1>1, <1>2, RemoveAtFacts
<1>4. r = [q EXCEPT ![l] = s]
  BY DEF Remove1, n
<1> HIDE DEF r, s
<1>5. r \in Queues /\ r[l] = s /\ \A k \in Lists \ {l} : r[k] = q[k]
  BY <1>3, <1>4 DEF Queues
<1>6. Len(q[l]) \in Nat
  BY <1>1
<1>7. \A k \in Lists : q[k] \in Seq(Tasks) /\ Len(q[k]) \in Nat
  BY DEF Queues
<1>8. Sound(r)
  <2> SUFFICES ASSUME NEW a \in Lists, NEW b \in Lists,
                      NEW i \in 1..Len(r[a]), NEW j \in 1..Len(r[b]),
                      r[a][i] = r[b][j]
               PROVE  a = b /\ i = j
    BY DEF Sound
  <2> DEFINE x(k, m) == IF k = l /\ ~(m < n) THEN m + 1 ELSE m
  <2>1. \A k \in Lists, m \in Nat : m \in 1..Len(r[k]) =>
            x(k, m) \in 1..Len(q[k]) /\ r[k][m] = q[k][x(k, m)]
    <3> SUFFICES ASSUME NEW k \in Lists, NEW m \in Nat, m \in 1..Len(r[k])
                 PROVE  x(k, m) \in 1..Len(q[k]) /\ r[k][m] = q[k][x(k, m)]
      OBVIOUS
    <3>1. CASE k # l
      BY <3>1, <1>5
    <3>2. CASE k = l
      <4>1. n \in Nat /\ m \in 1..(Len(q[l]) - 1) /\ r[k][m] = s[m]
        BY <3>2, <1>2, <1>3, <1>5, <1>6
      <4>2. s[m] = IF m < n THEN q[l][m] ELSE q[l][m + 1]
        BY <4>1, <1>3
      <4>3. m \in 1..Len(q[l]) /\ m + 1 \in 1..Len(q[l])
        BY <4>1, <1>6
      <4>4. QED
        BY <3>2, <4>1, <4>2, <4>3
    <3>3. QED
      BY <3>1, <3>2
  <2>2. i \in Nat /\ j \in Nat
    BY <1>3, <1>5, <1>7
  <2>3. /\ x(a, i) \in 1..Len(q[a]) /\ x(b, j) \in 1..Len(q[b])
        /\ q[a][x(a, i)] = q[b][x(b, j)]
    BY <2>1, <2>2
  <2>4. a = b /\ x(a, i) = x(b, j)
    <3> HIDE DEF x
    <3> QED BY <2>3 DEF Sound
  <2>5. QED
    BY <2>2, <2>4, <1>2, <1>6
<1>9. Members(r, l) = Members(q, l) \ {t}
  <2>1. ASSUME NEW u \in Members(r, l) PROVE u \in Members(q, l) /\ u # t
    <3>1. PICK i \in 1..Len(s) : u = s[i]
      BY <2>1, <1>5 DEF Members
    <3> DEFINE j == IF i < n THEN i ELSE i + 1
    <3>2. i \in Nat /\ n \in Nat /\ i \in 1..(Len(q[l]) - 1)
      BY <1>2, <1>3, <1>6
    <3>3. j \in 1..Len(q[l]) /\ j # n
      BY <3>2, <1>6
    <3>4. u = q[l][j]
      BY <3>1, <3>2, <1>3
    <3> HIDE DEF j
    <3>5. QED
      BY <3>3, <3>4, <1>2 DEF Members, Sound
  <2>2. ASSUME NEW u \in Members(q, l), u # t PROVE u \in Members(r, l)
    <3>1. PICK j \in 1..Len(q[l]) : u = q[l][j] /\ j # n
      BY <2>2, <1>2 DEF Members
    <3>2. PICK i \in 1..Len(s) : u = s[i]
      <4>1. CASE j < n
        BY <4>1, <3>1, <1>2, <1>3, <1>6
      <4>2. CASE ~(j < n)
        <5>1. j - 1 \in 1..Len(s) /\ s[j - 1] = q[l][j]
          BY <4>2, <3>1, <1>2, <1>3, <1>6
        <5>2. QED
          BY <5>1, <3>1
      <4>3. QED
        BY <4>1, <4>2
    <3>3. QED
      BY <3>2, <1>5 DEF Members
  <2>3. QED
    BY <2>1, <2>2
<1>10. OnNoList(r, t)
  <2> SUFFICES ASSUME NEW k \in Lists, t \in Members(r, k) PROVE FALSE
    BY DEF OnNoList, OnList
  <2>1. k # l
    BY <1>9
  <2>2. PICK i \in 1..Len(q[k]) : q[k][i] = t
    BY <2>1, <1>5 DEF Members
  <2>3. QED
    BY <2>1, <2>2, <1>2 DEF Sound
<1>11. QED
  BY <1>5, <1>8, <1>9, <1>10 DEF r

\* list_insert_back of a task that is on no list.
LEMMA InsertBackFacts ==
    ASSUME NEW q \in Queues, Sound(q), NEW l \in Lists, NEW t \in Tasks,
           OnNoList(q, t)
    PROVE  /\ InsertBack(q, l, t) \in Queues
           /\ Sound(InsertBack(q, l, t))
           /\ Members(InsertBack(q, l, t), l) = Members(q, l) \cup {t}
           /\ \A k \in Lists \ {l} : InsertBack(q, l, t)[k] = q[k]
           /\ InsertBack(q, l, t)[l] = Append(q[l], t)
<1> DEFINE r == InsertBack(q, l, t)
           s == Append(q[l], t)
<1>1. \A k \in Lists : q[k] \in Seq(Tasks) /\ Len(q[k]) \in Nat
  BY DEF Queues
<1>2. /\ s \in Seq(Tasks) /\ Len(s) = Len(q[l]) + 1
      /\ \A i \in 1..Len(q[l]) : s[i] = q[l][i]
      /\ s[Len(q[l]) + 1] = t
  BY <1>1, AppendProperties
<1>3. r \in Queues /\ r[l] = s /\ \A k \in Lists \ {l} : r[k] = q[k]
  BY <1>2 DEF Queues, InsertBack
<1> HIDE DEF r, s
<1>4. \A k \in Lists, i \in Nat : i \in 1..Len(q[k]) => q[k][i] # t
  BY DEF OnNoList, OnList, Members
<1>5. Sound(r)
  <2> SUFFICES ASSUME NEW a \in Lists, NEW b \in Lists,
                      NEW i \in 1..Len(r[a]), NEW j \in 1..Len(r[b]),
                      r[a][i] = r[b][j]
               PROVE  a = b /\ i = j
    BY DEF Sound
  <2>1. \A k \in Lists, m \in Nat : m \in 1..Len(r[k]) =>
            \/ m \in 1..Len(q[k]) /\ r[k][m] = q[k][m]
            \/ k = l /\ m = Len(q[l]) + 1 /\ r[k][m] = t
    <3> TAKE k \in Lists, m \in Nat
    <3>1. CASE k = l
      <4> HAVE m \in 1..Len(r[k])
      <4>1. Len(q[l]) \in Nat
        BY <1>1
      <4>2. m \in 1..(Len(q[l]) + 1)
        BY <3>1, <1>2, <1>3
      <4>3. m \in 1..Len(q[l]) \/ m = Len(q[l]) + 1
        BY <4>1, <4>2
      <4>4. QED
        BY <4>3, <3>1, <1>2, <1>3
    <3>2. CASE k # l
      BY <3>2, <1>3
    <3>3. QED
      BY <3>1, <3>2
  <2>2. i \in Nat /\ j \in Nat
    OBVIOUS
  <2>3. QED
    BY <2>1, <2>2, <1>4 DEF Sound
<1>6. Members(r, l) = Members(q, l) \cup {t}
  <2>1. ASSUME NEW u \in Members(r, l) PROVE u \in Members(q, l) \cup {t}
    BY <1>1, <1>2, <1>3 DEF Members
  <2>2. ASSUME NEW u \in Members(q, l) \cup {t} PROVE u \in Members(r, l)
    <3>1. CASE u = t
      BY <3>1, <1>1, <1>2, <1>3 DEF Members
    <3>2. CASE u \in Members(q, l)
      BY <3>2, <1>1, <1>2, <1>3 DEF Members
    <3>3. QED
      BY <3>1, <3>2
  <2>3. QED
    BY <2>1, <2>2
<1>7. QED
  BY <1>3, <1>5, <1>6 DEF r, s

\* What is on a list, for the invariants that only ask that.
LEMMA ListFacts ==
    ASSUME NEW q \in Queues, NEW l \in Lists
    PROVE  /\ q[l] \in Seq(Tasks)
           /\ q[l] = <<>> <=> \A t \in Tasks : ~OnList(q, l, t)
           /\ q[l] # <<>> => Head(q[l]) \in Tasks /\ OnList(q, l, Head(q[l]))
           /\ Sound(q) => \A t \in Tasks, k \in Lists :
                              OnList(q, k, t) /\ OnList(q, l, t) => k = l
<1>1. q[l] \in Seq(Tasks) /\ Len(q[l]) \in Nat
  BY DEF Queues
<1>2. q[l] # <<>> => Head(q[l]) \in Tasks /\ OnList(q, l, Head(q[l]))
  <2>1. q[l] # <<>> => 1 \in 1..Len(q[l]) /\ Head(q[l]) = q[l][1]
    BY <1>1, EmptySeq, HeadTailProperties
  <2>2. QED
    BY <1>1, <2>1 DEF OnList, Members
<1>3. q[l] = <<>> => \A t \in Tasks : ~OnList(q, l, t)
  BY EmptySeq DEF OnList, Members
<1>4. Sound(q) => \A t \in Tasks, k \in Lists :
                      OnList(q, k, t) /\ OnList(q, l, t) => k = l
  BY DEF Sound, OnList, Members
<1>5. QED
  BY <1>1, <1>2, <1>3, <1>4

\* list_remove and list_insert_back, in the same terms.
LEMMA RemoveFacts ==
    ASSUME NEW q \in Queues, Sound(q), NEW k \in Lists, NEW t \in Tasks,
           OnList(q, k, t)
    PROVE  /\ Remove1(q, k, t) \in Queues
           /\ Sound(Remove1(q, k, t))
           /\ \A u \in Tasks \ {t}, a \in Lists :
                 OnList(Remove1(q, k, t), a, u) <=> OnList(q, a, u)
           /\ OnNoList(Remove1(q, k, t), t)
           /\ \A a \in Lists \ {k} : Remove1(q, k, t)[a] = q[a]
<1> DEFINE p == Remove1(q, k, t)
<1>1. /\ p \in Queues /\ Sound(p)
      /\ Members(p, k) = Members(q, k) \ {t}
      /\ \A a \in Lists \ {k} : p[a] = q[a]
      /\ OnNoList(p, t)
  BY Remove1Facts DEF OnList
<1> HIDE DEF p
<1>2. \A a \in Lists : Members(p, a) = Members(q, a) \ {t}
  <2> TAKE a \in Lists
  <2>1. CASE a = k
    BY <1>1, <2>1
  <2>2. CASE a # k
    BY <1>1, <2>2 DEF OnNoList, OnList, Members
  <2>3. QED
    BY <2>1, <2>2
<1>3. QED
  BY <1>1, <1>2 DEF p, OnList

LEMMA InsertFacts ==
    ASSUME NEW q \in Queues, Sound(q), NEW l \in Lists, NEW t \in Tasks,
           OnNoList(q, t)
    PROVE  /\ InsertBack(q, l, t) \in Queues
           /\ Sound(InsertBack(q, l, t))
           /\ \A u \in Tasks \ {t}, a \in Lists :
                 OnList(InsertBack(q, l, t), a, u) <=> OnList(q, a, u)
           /\ \A a \in Lists : OnList(InsertBack(q, l, t), a, t) <=> a = l
           /\ \A a \in Lists \ {l} : InsertBack(q, l, t)[a] = q[a]
           /\ InsertBack(q, l, t)[l] # <<>>
           /\ q[l] # <<>> => Head(InsertBack(q, l, t)[l]) = Head(q[l])
<1> DEFINE r == InsertBack(q, l, t)
<1>1. /\ r \in Queues /\ Sound(r)
      /\ Members(r, l) = Members(q, l) \cup {t}
      /\ \A a \in Lists \ {l} : r[a] = q[a]
      /\ r[l] = Append(q[l], t)
  BY InsertBackFacts
<1> HIDE DEF r
<1>2. q[l] \in Seq(Tasks)
  BY DEF Queues
<1>3. r[l] # <<>> /\ (q[l] # <<>> => Head(r[l]) = Head(q[l]))
  BY <1>1, <1>2
<1>4. \A a \in Lists : Members(r, a) = IF a = l THEN Members(q, a) \cup {t}
                                        ELSE Members(q, a)
  BY <1>1 DEF Members
<1>5. QED
  BY <1>1, <1>3, <1>4 DEF r, OnList, OnNoList

\* From list k to the end of list l.
Move(q, k, l, t) == InsertBack(Remove1(q, k, t), l, t)

LEMMA MoveFacts ==
    ASSUME NEW q \in Queues, Sound(q), NEW k \in Lists, NEW l \in Lists,
           NEW t \in Tasks, OnList(q, k, t)
    PROVE  /\ Move(q, k, l, t) \in Queues
           /\ Sound(Move(q, k, l, t))
           /\ \A u \in Tasks \ {t}, a \in Lists :
                 OnList(Move(q, k, l, t), a, u) <=> OnList(q, a, u)
           /\ \A a \in Lists : OnList(Move(q, k, l, t), a, t) <=> a = l
           /\ \A a \in Lists \ {k, l} : Move(q, k, l, t)[a] = q[a]
           /\ k # l /\ q[l] # <<>> =>
                  /\ Move(q, k, l, t)[l] # <<>>
                  /\ Head(Move(q, k, l, t)[l]) = Head(q[l])
<1> DEFINE p == Remove1(q, k, t)
           r == InsertBack(p, l, t)
<1>1. /\ p \in Queues /\ Sound(p)
      /\ \A u \in Tasks \ {t}, a \in Lists : OnList(p, a, u) <=> OnList(q, a, u)
      /\ OnNoList(p, t)
      /\ \A a \in Lists \ {k} : p[a] = q[a]
  BY RemoveFacts
<1> HIDE DEF p
<1>2. /\ r \in Queues /\ Sound(r)
      /\ \A u \in Tasks \ {t}, a \in Lists : OnList(r, a, u) <=> OnList(p, a, u)
      /\ \A a \in Lists : OnList(r, a, t) <=> a = l
      /\ \A a \in Lists \ {l} : r[a] = p[a]
      /\ r[l] # <<>>
      /\ p[l] # <<>> => Head(r[l]) = Head(p[l])
  BY <1>1, InsertFacts
<1> HIDE DEF r
<1>3. r = Move(q, k, l, t)
  BY DEF Move, r, p
<1>4. QED
  BY <1>1, <1>2, <1>3

------------------------------------------------------------------------------
(* Every step keeps Inv.                                                   *)

\* A task in its own code is on the ready list and on no other.
LEMMA UserIsReady ==
    ASSUME Inv, NEW t \in Tasks, InUser(t)
    PROVE  /\ queue \in Queues /\ Sound(queue)
           /\ queue["ready"] # <<>> /\ Head(queue["ready"]) = t
           /\ \A l \in Lists : OnList(queue, l, t) <=> l = "ready"
<1>1. queue \in Queues /\ Sound(queue) /\ "ready" \in Lists
  BY DEF Inv, TypeOK, Queues, QueuesSound, Lists
<1>2. queue["ready"] # <<>> /\ Head(queue["ready"]) = t
  BY TasksAssumption DEF Inv, AtHead, InUser
<1>3. QED
  BY <1>1, <1>2, ListFacts

\* The head of the ready list, or the idle task, when a task has left the CPU.
LEMMA DispatchedFacts ==
    ASSUME NEW q \in Queues
    PROVE  /\ Dispatched(q) \in Tasks \cup {Idle}
           /\ Dispatched(q) # Idle => q["ready"] # <<>> /\ Head(q["ready"]) = Dispatched(q)
  BY ListFacts DEF Dispatched, Lists

LEMMA ListNames ==
    /\ "ready" \in Lists /\ "sleep" \in Lists /\ "ready" # "sleep"
    /\ \A s \in Sems : s \in Lists \ {"ready", "sleep"} /\ s \notin Mutexes
    /\ \A m \in Mutexes : m \in Lists \ {"ready", "sleep"} /\ m \notin Sems
  BY ListsAssumption DEF Lists

\* No task begins or ends a stretch between two list edits, or names a slot.
Settled ==
    \A u \in Tasks :
        /\ pc'[u] \in {"free", "yield", "sleep", "exit"} =>
               pc[u] \in {"free", "yield", "sleep", "exit"}
        /\ pc'[u] = "forked" => pc[u] = "forked" /\ child'[u] = child[u]
        /\ pc[u] = "raw" => pc'[u] = "raw"

\* A step that puts nobody to sleep and nobody on a list who was on none.
LEMMA SettledKeeps ==
    ASSUME Inv, Settled, Sound(queue'),
           \A u \in Tasks : OnNoList(queue, u) => OnNoList(queue', u),
           \A u \in Tasks : OnList(queue', "sleep", u) => OnList(queue, "sleep", u)
    PROVE  QueuesSound' /\ OffList' /\ ForksApart'
<1>1. QueuesSound'
  BY DEF QueuesSound
<1>2. OffList'
  BY DEF OffList, Settled, Inv
<1>3. child \in [Tasks -> Tasks]
  BY DEF Inv, TypeOK
<1>4. ForksApart'
  BY <1>3 DEF ForksApart, Settled, Inv
<1>5. QED
  BY <1>1, <1>2, <1>4

\* A task goes from one list to another that is not the sleep list, and the
\* CPU goes to whom dispatch picks.
LEMMA MovedKeeps ==
    ASSUME Inv, Settled, NEW k \in Lists, NEW l \in Lists \ {"sleep"},
           NEW t \in Tasks, OnList(queue, k, t),
           queue' = Move(queue, k, l, t), running' = Dispatched(queue')
    PROVE  /\ queue' \in Queues /\ running' \in Tasks \cup {Idle}
           /\ QueuesSound' /\ AtHead' /\ OffList' /\ ForksApart'
           /\ \A u \in Tasks \ {t}, a \in Lists :
                 OnList(queue', a, u) <=> OnList(queue, a, u)
           /\ \A a \in Lists : OnList(queue', a, t) <=> a = l
           /\ \A a \in Lists \ {k, l} : queue'[a] = queue[a]
<1>1. queue \in Queues /\ Sound(queue)
  BY DEF Inv, TypeOK, Queues, QueuesSound
<1>2. /\ queue' \in Queues /\ Sound(queue')
      /\ \A u \in Tasks \ {t}, a \in Lists :
            OnList(queue', a, u) <=> OnList(queue, a, u)
      /\ \A a \in Lists : OnList(queue', a, t) <=> a = l
      /\ \A a \in Lists \ {k, l} : queue'[a] = queue[a]
  BY <1>1, MoveFacts
<1>3. running' \in Tasks \cup {Idle} /\ AtHead'
  BY <1>2, DispatchedFacts DEF AtHead
<1>4. \A u \in Tasks : OnNoList(queue, u) => OnNoList(queue', u)
  BY <1>2 DEF OnNoList
<1>5. \A u \in Tasks : OnList(queue', "sleep", u) => OnList(queue, "sleep", u)
  BY <1>2, ListNames
<1>6. QED
  BY <1>2, <1>3, <1>4, <1>5, SettledKeeps

\* A step that leaves the semaphores, the mutexes and their waiters alone.
LEMMA LocksKept ==
    ASSUME Inv, UNCHANGED locks, \A l \in Sems \cup Mutexes : queue'[l] = queue[l]
    PROVE  MutualExclusion' /\ LockedIsOwned' /\ NoMissedWakeup'
<1>1. UNCHANGED <<counter, locker, owner, held>>
  BY DEF locks
<1>2. \A m \in Mutexes, u \in Tasks : OnList(queue', m, u) <=> OnList(queue, m, u)
  BY DEF OnList, Members
<1>3. MutualExclusion' /\ LockedIsOwned'
  BY <1>1, <1>2 DEF MutualExclusion, LockedIsOwned, Inv
<1>4. NoMissedWakeup'
  BY <1>1 DEF NoMissedWakeup, Inv
<1>5. QED
  BY <1>3, <1>4

LEMMA MembersTyped ==
    ASSUME NEW q \in Queues, NEW l \in Lists PROVE Members(q, l) \subseteq Tasks
<1>1. q[l] \in Seq(Tasks)
  BY DEF Queues
<1>2. \A i \in 1..Len(q[l]) : q[l][i] \in Tasks
  BY <1>1
<1>3. QED
  BY <1>2 DEF Members

LEMMA SleepersKept ==
    ASSUME Inv, ~broken, sleep' = sleep,
           \A u \in Tasks : OnList(queue', "sleep", u) => OnList(queue, "sleep", u),
           queue' \in Queues
    PROVE  SleepersCount'
<1>1. Members(queue', "sleep") \subseteq Tasks
  BY ListNames, MembersTyped
<1>2. \A u \in Members(queue', "sleep") : u \in Members(queue, "sleep")
  BY <1>1 DEF OnList
<1>3. \A u \in Members(queue, "sleep") : sleep[u] > 0
  BY DEF SleepersCount, Inv
<1>4. QED
  BY <1>2, <1>3 DEF SleepersCount

\* A step after which whoever was on a list is on one.
NobodyDrops == \A u \in Tasks : OnNoList(queue', u) => OnNoList(queue, u)

LEMMA SemWaitKeepsInv ==
    ASSUME Inv, NEW t \in Tasks, NEW s \in Sems, SemWait(t, s)
    PROVE  Inv' /\ broken' = FALSE /\ NobodyDrops
<1>1. /\ queue \in Queues /\ broken = FALSE
      /\ \A l \in Lists : OnList(queue, l, t) <=> l = "ready"
  BY UserIsReady DEF SemWait, InUser, Inv, TypeOK
<1>2. CASE Available(s)
  <2>1. /\ counter' = [counter EXCEPT ![s] = @ - 1]
        /\ UNCHANGED <<queue, running, broken, pc, clocks, locker, owner, held, child>>
    BY <1>2 DEF SemWait
  <2>2. counter \in [Sems -> Nat] /\ counter[s] > 0
    BY <1>2 DEF Available, Inv, TypeOK
  <2>3. counter' \in [Sems -> Nat] /\ \A x \in Sems : counter'[x] > 0 => counter[x] > 0
    BY <2>1, <2>2
  <2>4. TypeOK'
    BY <2>1, <2>3 DEF Inv, TypeOK, clocks
  <2>5. NoMissedWakeup'
    BY <2>1, <2>3 DEF Inv, NoMissedWakeup
  <2>6. broken' = FALSE /\ NobodyDrops
    BY <1>1, <2>1 DEF NobodyDrops
  <2>7. QED
    BY <2>1, <2>4, <2>5, <2>6 DEF Inv, QueuesSound, AtHead, OffList, ForksApart,
       MutualExclusion, LockedIsOwned, SleepersCount, clocks
<1>3. CASE ~Available(s)
  <2>1. /\ broken' = FALSE /\ queue' = Move(queue, "ready", s, t)
        /\ running' = Dispatched(queue')
        /\ UNCHANGED <<counter, pc, clocks, locker, owner, held, child>>
    BY <1>1, <1>3, ListNames, TasksAssumption
       DEF SemWait, Reschedule, MayBlock, SetBlock, Move
  <2>2. /\ queue' \in Queues /\ running' \in Tasks \cup {Idle}
        /\ QueuesSound' /\ AtHead' /\ OffList' /\ ForksApart'
        /\ \A u \in Tasks \ {t}, a \in Lists :
              OnList(queue', a, u) <=> OnList(queue, a, u)
        /\ \A a \in Lists : OnList(queue', a, t) <=> a = s
        /\ \A a \in Lists \ {"ready", s} : queue'[a] = queue[a]
    BY <2>1, <1>1, MovedKeeps, ListNames DEF Settled
  <2>3. TypeOK'
    BY <2>1, <2>2 DEF TypeOK, Inv, Queues, clocks
  <2>4. \A m \in Mutexes, u \in Tasks : OnList(queue', m, u) <=> OnList(queue, m, u)
    BY <1>1, <2>2, ListNames
  <2>5. MutualExclusion' /\ LockedIsOwned'
    BY <2>1, <2>4 DEF MutualExclusion, LockedIsOwned, Inv
  <2>6. NoMissedWakeup'
    BY <2>1, <2>2, <1>3, ListNames DEF NoMissedWakeup, Inv, Available
  <2>7. SleepersCount'
    BY <1>1, <2>1, <2>2, ListNames, SleepersKept DEF clocks
  <2>8. NobodyDrops
    BY <2>2, ListNames DEF NobodyDrops, OnNoList
  <2>9. QED
    BY <2>1, <2>2, <2>3, <2>5, <2>6, <2>7, <2>8 DEF Inv
<1>4. QED
  BY <1>2, <1>3

LEMMA NotifyKeepsInv ==
    ASSUME Inv, ~broken, NEW s \in Sems, Notify(s)
    PROVE  Inv' /\ broken' = FALSE /\ NobodyDrops
<1>1. queue \in Queues /\ Sound(queue) /\ s \in Lists /\ broken = FALSE
  BY ListNames DEF Inv, TypeOK, Queues, QueuesSound
<1>2. CASE ~HasWaiter(s)
  <2>1. /\ counter' = [counter EXCEPT ![s] = @ + 1]
        /\ UNCHANGED <<queue, running, broken, pc, clocks, locker, owner, held, child>>
    BY <1>2 DEF Notify
  <2>2. TypeOK'
    BY <2>1 DEF Inv, TypeOK, clocks
  <2>3. NoMissedWakeup'
    BY <2>1, <1>2 DEF Inv, TypeOK, NoMissedWakeup, HasWaiter
  <2>4. broken' = FALSE /\ NobodyDrops
    BY <1>1, <2>1 DEF NobodyDrops
  <2>5. QED
    BY <2>1, <2>2, <2>3, <2>4 DEF Inv, QueuesSound, AtHead, OffList, ForksApart,
       MutualExclusion, LockedIsOwned, SleepersCount, clocks
<1>3. CASE HasWaiter(s)
  <2> DEFINE w == NextWaiter(s)
  <2>1. w \in Tasks /\ OnList(queue, s, w) /\ w # Idle
    BY <1>1, <1>3, ListFacts, TasksAssumption DEF HasWaiter, NextWaiter
  <2> HIDE DEF w
  <2>2. OnNoList(Remove1(queue, s, w), w)
    BY <1>1, <2>1, RemoveFacts
  <2>3. /\ broken' = FALSE /\ queue' = Move(queue, s, "ready", w)
        /\ running' = Dispatched(queue')
        /\ UNCHANGED <<counter, pc, clocks, locker, owner, held, child>>
    BY <1>3, <2>1, <2>2 DEF Notify, Reschedule, SetReady, Move, w
  <2>4. /\ queue' \in Queues /\ running' \in Tasks \cup {Idle}
        /\ QueuesSound' /\ AtHead' /\ OffList' /\ ForksApart'
        /\ \A u \in Tasks \ {w}, a \in Lists :
              OnList(queue', a, u) <=> OnList(queue, a, u)
        /\ \A a \in Lists : OnList(queue', a, w) <=> a = "ready"
        /\ \A a \in Lists \ {"ready", s} : queue'[a] = queue[a]
    BY <2>3, <2>1, <1>1, MovedKeeps, ListNames DEF Settled
  <2>5. TypeOK'
    BY <2>3, <2>4 DEF TypeOK, Inv, Queues, clocks
  <2>6. \A m \in Mutexes, u \in Tasks : OnList(queue', m, u) <=> OnList(queue, m, u)
    BY <2>4, ListNames DEF OnList, Members
  <2>7. MutualExclusion' /\ LockedIsOwned'
    BY <2>3, <2>6 DEF MutualExclusion, LockedIsOwned, Inv
  <2>8. NoMissedWakeup'
    BY <2>3, <2>4, <1>3, ListNames DEF NoMissedWakeup, Inv, HasWaiter
  <2>9. SleepersCount'
    BY <2>3, <2>4, ListNames, SleepersKept DEF clocks
  <2>10. NobodyDrops
    BY <2>4, ListNames DEF NobodyDrops, OnNoList
  <2>11. QED
    BY <2>3, <2>4, <2>5, <2>7, <2>8, <2>9, <2>10 DEF Inv
<1>4. QED
  BY <1>2, <1>3

LEMMA MutexLockKeepsInv ==
    ASSUME Inv, NEW t \in Tasks, NEW m \in Mutexes, MutexLock(t, m)
    PROVE  Inv' /\ broken' = FALSE /\ NobodyDrops
<1>1. /\ queue \in Queues /\ broken = FALSE /\ m \in Lists /\ t # None
      /\ \A l \in Lists : OnList(queue, l, t) <=> l = "ready"
  BY UserIsReady, ListNames, TasksAssumption DEF MutexLock, InUser, Inv, TypeOK
<1>2. /\ locker \in [Mutexes -> Nat] /\ owner \in [Mutexes -> Tasks \cup {None}]
      /\ held \in [Tasks -> [Mutexes -> Nat]]
  BY DEF Inv, TypeOK
<1>3. /\ held' = [held EXCEPT ![t][m] = @ + 1]
      /\ held' \in [Tasks -> [Mutexes -> Nat]]
      /\ held'[t][m] = held[t][m] + 1
      /\ \A x \in Mutexes, u \in Tasks :
            x # m \/ u # t => held'[u][x] = held[u][x]
      /\ UNCHANGED <<pc, clocks, counter, child>>
  BY <1>2 DEF MutexLock
<1>4. ~OnList(queue, m, t)
  BY <1>1, ListNames
<1>5. CASE MayEnter(t, m)
  <2>1. /\ locker' = [locker EXCEPT ![m] = @ + 1]
        /\ owner' = [owner EXCEPT ![m] = t]
        /\ UNCHANGED <<queue, running, broken>>
    BY <1>5 DEF MutexLock
  <2>2. TypeOK'
    BY <2>1, <1>2, <1>3 DEF Inv, TypeOK, clocks
  <2>3. \/ owner[m] = t
        \/ locker[m] = 0 /\ owner[m] = None /\ queue[m] = <<>>
    BY <1>5 DEF MayEnter, Inv, NoMissedWakeup
  <2>4. held'[t][m] = locker'[m] /\ locker'[m] > 0
    BY <2>1, <2>3, <1>2, <1>3, <1>4 DEF Inv, MutualExclusion
  <2>5. \A u \in Tasks \ {t} : owner[m] # u
    BY <2>3, TasksAssumption
  <2>6. MutualExclusion'
    <3> SUFFICES ASSUME NEW x \in Mutexes, NEW u \in Tasks
                 PROVE held'[u][x] = IF owner'[x] = u THEN locker'[x]
                                     ELSE IF OnList(queue', x, u) THEN 1 ELSE 0
      BY DEF MutualExclusion
    <3>1. CASE x = m /\ u = t
      BY <3>1, <2>1, <2>4, <1>2
    <3>2. CASE x = m /\ u # t
      BY <3>2, <2>1, <2>5, <1>2, <1>3 DEF Inv, MutualExclusion
    <3>3. CASE x # m
      BY <3>3, <2>1, <1>2, <1>3 DEF Inv, MutualExclusion
    <3>4. QED
      BY <3>1, <3>2, <3>3
  <2>7. NoMissedWakeup' /\ LockedIsOwned'
    BY <2>1, <2>4, <1>2, <1>3 DEF Inv, NoMissedWakeup, LockedIsOwned
  <2>8. broken' = FALSE /\ NobodyDrops
    BY <1>1, <2>1 DEF NobodyDrops
  <2>9. QED
    BY <2>1, <2>2, <2>6, <2>7, <2>8, <1>3 DEF Inv, QueuesSound, AtHead, OffList,
       ForksApart, SleepersCount, clocks
<1>6. CASE ~MayEnter(t, m)
  <2>1. /\ broken' = FALSE /\ queue' = Move(queue, "ready", m, t)
        /\ running' = Dispatched(queue')
        /\ UNCHANGED <<locker, owner>>
    BY <1>1, <1>6, ListNames, TasksAssumption
       DEF MutexLock, Reschedule, MayBlock, SetBlock, Move
  <2>2. /\ queue' \in Queues /\ running' \in Tasks \cup {Idle}
        /\ QueuesSound' /\ AtHead' /\ OffList' /\ ForksApart'
        /\ \A u \in Tasks \ {t}, a \in Lists :
              OnList(queue', a, u) <=> OnList(queue, a, u)
        /\ \A a \in Lists : OnList(queue', a, t) <=> a = m
        /\ \A a \in Lists \ {"ready", m} : queue'[a] = queue[a]
    BY <2>1, <1>1, <1>3, MovedKeeps, ListNames DEF Settled
  <2>3. TypeOK'
    BY <2>1, <2>2, <1>3 DEF TypeOK, Inv, Queues, clocks
  <2>4. locker[m] # 0 /\ owner[m] # t
    BY <1>6 DEF MayEnter
  <2>5. held[t][m] = 0
    BY <2>4, <1>4 DEF Inv, MutualExclusion
  <2>6. MutualExclusion'
    <3> SUFFICES ASSUME NEW x \in Mutexes, NEW u \in Tasks
                 PROVE held'[u][x] = IF owner'[x] = u THEN locker'[x]
                                     ELSE IF OnList(queue', x, u) THEN 1 ELSE 0
      BY DEF MutualExclusion
    <3>1. CASE x = m /\ u = t
      BY <3>1, <2>1, <2>2, <2>4, <2>5, <1>1, <1>3
    <3>2. CASE x = m /\ u # t
      BY <3>2, <2>1, <2>2, <1>1, <1>3 DEF Inv, MutualExclusion
    <3>3. CASE x # m
      <4>1. OnList(queue', x, u) <=> OnList(queue, x, u)
        BY <3>3, <2>2, <1>1, ListNames
      <4>2. QED
        BY <3>3, <4>1, <2>1, <1>3 DEF Inv, MutualExclusion
    <3>4. QED
      BY <3>1, <3>2, <3>3
  <2>7. NoMissedWakeup' /\ LockedIsOwned'
    <3>1. \A s \in Sems : queue'[s] = queue[s] /\ counter'[s] = counter[s]
      BY <2>2, <1>1, <1>3, ListNames
    <3>2. \A x \in Mutexes \ {m} : queue'[x] = queue[x]
      BY <2>2, ListNames
    <3>3. locker' = locker /\ owner' = owner
      BY <2>1
    <3>4. NoMissedWakeup /\ LockedIsOwned
      BY DEF Inv
    <3>5. NoMissedWakeup'
      BY <3>1, <3>2, <3>3, <3>4, <2>4 DEF NoMissedWakeup
    <3>6. LockedIsOwned'
      BY <3>3, <3>4 DEF LockedIsOwned
    <3>7. QED
      BY <3>5, <3>6
  <2>8. SleepersCount'
    <3>1. queue'["sleep"] = queue["sleep"]
      BY <2>2, ListNames
    <3>2. \A u \in Tasks : OnList(queue', "sleep", u) => OnList(queue, "sleep", u)
      BY <3>1 DEF OnList, Members
    <3>3. sleep' = sleep /\ ~broken
      BY <1>1, <1>3 DEF clocks
    <3>4. QED
      BY <2>2, <3>2, <3>3, SleepersKept
  <2>9. NobodyDrops
    BY <2>2, <1>1 DEF NobodyDrops, OnNoList
  <2>10. QED
    BY <2>1, <2>2, <2>3, <2>6, <2>7, <2>8, <2>9 DEF Inv
<1>7. QED
  BY <1>5, <1>6

\* mutex_unlock, whatever the call it is part of goes on to do (tss_task_fork
\* makes it inside alloc_task).
LEMMA UnlockKeeps ==
    ASSUME Inv, NEW t \in Tasks, NEW m \in Mutexes, InUser(t), held[t][m] > 0,
           Unlock(t, m), Settled, UNCHANGED <<clocks, counter>>
    PROVE  /\ QueuesSound' /\ OffList' /\ ForksApart'
           /\ MutualExclusion' /\ NoMissedWakeup' /\ LockedIsOwned' /\ SleepersCount'
           /\ queue' \in Queues /\ running' \in Tasks \cup {Idle} /\ broken' = FALSE
           /\ locker' \in [Mutexes -> Nat] /\ owner' \in [Mutexes -> Tasks \cup {None}]
           /\ held' \in [Tasks -> [Mutexes -> Nat]]
           /\ AtHead' \/ UNCHANGED <<queue, running>>
           /\ NobodyDrops /\ running' = t
<1>1. /\ queue \in Queues /\ Sound(queue) /\ broken = FALSE /\ m \in Lists /\ t # None
      /\ \A l \in Lists : OnList(queue, l, t) <=> l = "ready"
  BY UserIsReady, ListNames, TasksAssumption DEF InUser, Inv, TypeOK
<1>2. /\ locker \in [Mutexes -> Nat] /\ owner \in [Mutexes -> Tasks \cup {None}]
      /\ held \in [Tasks -> [Mutexes -> Nat]]
  BY DEF Inv, TypeOK
<1>3. ~OnList(queue, m, t)
  BY <1>1, ListNames
<1>4. owner[m] = t /\ held[t][m] = locker[m] /\ locker[m] > 0
  BY <1>3, <1>2 DEF Inv, MutualExclusion
<1>5. /\ held' = [held EXCEPT ![t][m] = @ - 1]
      /\ held' \in [Tasks -> [Mutexes -> Nat]]
      /\ held'[t][m] = locker[m] - 1
      /\ \A x \in Mutexes, u \in Tasks :
            x # m \/ u # t => held'[u][x] = held[u][x]
  BY <1>2, <1>4 DEF Unlock
<1>6. CASE locker[m] > 1 \/ ~HasWaiter(m)
  <2>1. /\ locker' = [locker EXCEPT ![m] = @ - 1]
        /\ owner' = [owner EXCEPT ![m] = IF locker[m] > 1 THEN t ELSE None]
        /\ UNCHANGED <<queue, running, broken>>
    BY <1>4, <1>6 DEF Unlock
  <2>2. /\ locker' \in [Mutexes -> Nat]
        /\ owner' \in [Mutexes -> Tasks \cup {None}]
        /\ locker'[m] = locker[m] - 1
        /\ owner'[m] = IF locker[m] > 1 THEN t ELSE None
    BY <2>1, <1>2, <1>4
  <2>3. MutualExclusion'
    <3> SUFFICES ASSUME NEW x \in Mutexes, NEW u \in Tasks
                 PROVE held'[u][x] = IF owner'[x] = u THEN locker'[x]
                                     ELSE IF OnList(queue', x, u) THEN 1 ELSE 0
      BY DEF MutualExclusion
    <3>1. CASE x = m /\ u = t
      BY <3>1, <2>1, <2>2, <1>1, <1>2, <1>3, <1>4, <1>5
    <3>2. CASE x = m /\ u # t
      BY <3>2, <2>1, <2>2, <1>4, <1>5, TasksAssumption DEF Inv, MutualExclusion
    <3>3. CASE x # m
      BY <3>3, <2>1, <1>2, <1>5 DEF Inv, MutualExclusion
    <3>4. QED
      BY <3>1, <3>2, <3>3
  <2>4. NoMissedWakeup'
    <3> SUFFICES ASSUME NEW x \in Mutexes, locker'[x] = 0
                 PROVE  queue'[x] = <<>> /\ owner'[x] = None
      BY <2>1 DEF NoMissedWakeup, Inv
    <3>1. CASE x = m
      BY <3>1, <2>1, <2>2, <1>2, <1>4, <1>6 DEF HasWaiter
    <3>2. CASE x # m
      BY <3>2, <2>1, <1>2 DEF Inv, NoMissedWakeup
    <3>3. QED
      BY <3>1, <3>2
  <2>5. LockedIsOwned'
    <3> SUFFICES ASSUME NEW x \in Mutexes, locker'[x] > 0
                 PROVE  owner'[x] \in Tasks
      BY DEF LockedIsOwned
    <3>1. CASE x = m
      BY <3>1, <2>2, <1>2, <1>4
    <3>2. CASE x # m
      BY <3>2, <2>1, <1>2 DEF Inv, LockedIsOwned
    <3>3. QED
      BY <3>1, <3>2
  <2>6. QueuesSound' /\ OffList' /\ ForksApart'
    BY <2>1, <1>1, SettledKeeps
  <2>7. SleepersCount'
    BY <2>1, <1>1 DEF Inv, SleepersCount, clocks
  <2>8. running' \in Tasks \cup {Idle}
    BY <2>1 DEF Inv, TypeOK
  <2>9. NobodyDrops /\ running' = t
    BY <2>1 DEF NobodyDrops, InUser
  <2>10. QED
    BY <2>1, <2>2, <2>3, <2>4, <2>5, <2>6, <2>7, <2>8, <2>9, <1>1, <1>5
<1>7. CASE locker[m] = 1 /\ HasWaiter(m)
  <2> DEFINE w == NextWaiter(m)
  <2>1. w \in Tasks /\ OnList(queue, m, w) /\ w # Idle /\ w # t
    BY <1>1, <1>3, <1>7, ListFacts, TasksAssumption DEF HasWaiter, NextWaiter
  <2> HIDE DEF w
  <2>2. OnNoList(Remove1(queue, m, w), w)
    BY <1>1, <2>1, RemoveFacts
  <2>3. /\ broken' = FALSE /\ queue' = Move(queue, m, "ready", w)
        /\ running' = Dispatched(queue')
        /\ locker' = [locker EXCEPT ![m] = 1]
        /\ owner' = [owner EXCEPT ![m] = w]
    <3>1. ~(locker[m] > 1 \/ ~HasWaiter(m))
      BY <1>7
    <3>2. /\ locker' = [locker EXCEPT ![m] = 1]
          /\ owner' = [owner EXCEPT ![m] = w]
          /\ Reschedule(OnNoList(Remove1(queue, m, w), w),
                        SetReady(Remove1(queue, m, w), w))
      BY <3>1, <1>4 DEF Unlock, w
    <3>3. QED
      BY <3>2, <2>1, <2>2 DEF Reschedule, SetReady, Move
  <2>4. /\ queue' \in Queues /\ running' \in Tasks \cup {Idle}
        /\ QueuesSound' /\ AtHead' /\ OffList' /\ ForksApart'
        /\ \A u \in Tasks \ {w}, a \in Lists :
              OnList(queue', a, u) <=> OnList(queue, a, u)
        /\ \A a \in Lists : OnList(queue', a, w) <=> a = "ready"
        /\ \A a \in Lists \ {"ready", m} : queue'[a] = queue[a]
    BY <2>3, <2>1, <1>1, MovedKeeps, ListNames
  <2>5. MutualExclusion'
    <3> SUFFICES ASSUME NEW x \in Mutexes, NEW u \in Tasks
                 PROVE held'[u][x] = IF owner'[x] = u THEN locker'[x]
                                     ELSE IF OnList(queue', x, u) THEN 1 ELSE 0
      BY DEF MutualExclusion
    <3>1. CASE x = m /\ u = t
      <4>1. ~OnList(queue', x, u)
        BY <3>1, <1>3, <2>1, <2>4, <1>1
      <4>2. QED
        BY <3>1, <4>1, <2>1, <2>3, <1>2, <1>5, <1>7
    <3>2. CASE x = m /\ u = w
      BY <3>2, <2>1, <2>3, <1>2, <1>4, <1>5 DEF Inv, MutualExclusion
    <3>3. CASE x = m /\ u # t /\ u # w
      BY <3>3, <2>1, <2>3, <2>4, <1>1, <1>2, <1>4, <1>5 DEF Inv, MutualExclusion
    <3>4. CASE x # m
      <4>1. OnList(queue', x, u) <=> OnList(queue, x, u)
        BY <3>4, <2>4, ListNames DEF OnList, Members
      <4>2. QED
        BY <3>4, <4>1, <2>3, <1>2, <1>5 DEF Inv, MutualExclusion
    <3>5. QED
      BY <3>1, <3>2, <3>3, <3>4
  <2>6. NoMissedWakeup' /\ LockedIsOwned'
    <3>1. locker' = locker
      BY <2>3, <1>2, <1>7
    <3>2. \A x \in Mutexes \ {m} : queue'[x] = queue[x] /\ owner'[x] = owner[x]
      BY <2>3, <2>4, <1>2, ListNames
    <3>3. \A x \in Sems : queue'[x] = queue[x]
      BY <2>4, ListNames
    <3>4. owner'[m] \in Tasks
      BY <2>1, <2>3, <1>2
    <3>5. counter' = counter
      OBVIOUS
    <3>6. QED
      BY <3>1, <3>2, <3>3, <3>4, <3>5, <1>7 DEF Inv, NoMissedWakeup, LockedIsOwned
  <2>7. SleepersCount'
    BY <1>1, <2>4, ListNames, SleepersKept DEF clocks
  <2>8. /\ locker' \in [Mutexes -> Nat] /\ owner' \in [Mutexes -> Tasks \cup {None}]
    BY <2>1, <2>3, <1>2
  <2>9. NobodyDrops
    BY <2>4, ListNames DEF NobodyDrops, OnNoList
  <2>10. running' = t
    <3>1. queue["ready"] # <<>> /\ Head(queue["ready"]) = t
      BY UserIsReady
    <3>2. queue'["ready"] # <<>> /\ Head(queue'["ready"]) = t
      BY <3>1, <2>1, <2>3, <1>1, MoveFacts, ListNames
    <3>3. QED
      BY <3>2, <2>3 DEF Dispatched
  <2>11. QED
    BY <2>3, <2>4, <2>5, <2>6, <2>7, <2>8, <2>9, <2>10, <1>5
<1>8. (locker[m] > 1 \/ ~HasWaiter(m)) \/ (locker[m] = 1 /\ HasWaiter(m))
  BY <1>2, <1>4
<1>9. QED
  BY <1>6, <1>7, <1>8

LEMMA MutexUnlockKeepsInv ==
    ASSUME Inv, NEW t \in Tasks, NEW m \in Mutexes, MutexUnlock(t, m)
    PROVE  Inv' /\ broken' = FALSE /\ NobodyDrops
<1>1. /\ InUser(t) /\ held[t][m] > 0 /\ Unlock(t, m)
      /\ UNCHANGED <<pc, clocks, counter, child>>
  BY DEF MutexUnlock
<1>2. Settled
  BY <1>1 DEF Settled
<1>3. /\ QueuesSound' /\ OffList' /\ ForksApart'
      /\ MutualExclusion' /\ NoMissedWakeup' /\ LockedIsOwned' /\ SleepersCount'
      /\ queue' \in Queues /\ running' \in Tasks \cup {Idle} /\ broken' = FALSE
      /\ locker' \in [Mutexes -> Nat] /\ owner' \in [Mutexes -> Tasks \cup {None}]
      /\ held' \in [Tasks -> [Mutexes -> Nat]]
      /\ AtHead' \/ UNCHANGED <<queue, running>>
      /\ NobodyDrops /\ running' = t
  BY <1>1, <1>2, UnlockKeeps
<1>4. AtHead'
  BY <1>1, <1>3 DEF AtHead, Inv
<1>5. TypeOK'
  BY <1>1, <1>3 DEF TypeOK, Inv, clocks, Queues
<1>6. QED
  BY <1>3, <1>4, <1>5 DEF Inv

LEMMA ForkKeepsInv ==
    ASSUME Inv, NEW t \in Tasks, NEW c \in Tasks, Fork(t, c)
    PROVE  Inv' /\ broken' = FALSE /\ NobodyDrops /\ running' = t
<1>1. /\ InUser(t) /\ held[t][TaskMutex] > 0 /\ Unlock(t, TaskMutex)
      /\ child' = [child EXCEPT ![t] = c]
      /\ pc' = [pc EXCEPT ![t] = "fork"]
      /\ UNCHANGED <<clocks, counter>>
  BY DEF Fork, GoTo
<1>2. /\ pc \in [Tasks -> PCs] /\ child \in [Tasks -> Tasks] /\ pc[t] = "user"
      /\ TaskMutex \in Mutexes
  BY <1>1, ListsAssumption DEF Inv, TypeOK, InUser
<1>3. Settled
  BY <1>1, <1>2 DEF Settled
<1>4. /\ QueuesSound' /\ OffList' /\ ForksApart'
      /\ MutualExclusion' /\ NoMissedWakeup' /\ LockedIsOwned' /\ SleepersCount'
      /\ queue' \in Queues /\ running' \in Tasks \cup {Idle} /\ broken' = FALSE
      /\ locker' \in [Mutexes -> Nat] /\ owner' \in [Mutexes -> Tasks \cup {None}]
      /\ held' \in [Tasks -> [Mutexes -> Nat]]
      /\ AtHead' \/ UNCHANGED <<queue, running>>
      /\ NobodyDrops /\ running' = t
  BY <1>1, <1>2, <1>3, UnlockKeeps
<1>5. AtHead'
  <2>1. running = t /\ queue["ready"] # <<>> /\ Head(queue["ready"]) = t
    BY <1>1, UserIsReady DEF InUser
  <2>2. QED
    BY <1>4, <2>1 DEF AtHead
<1>6. TypeOK'
  BY <1>1, <1>2, <1>4 DEF TypeOK, Inv, clocks, Queues, PCs
<1>7. QED
  BY <1>4, <1>5, <1>6 DEF Inv

\* The first edit of yield, sleep and exit: off the ready list.
LEMMA OffReadyKeepsInv ==
    ASSUME Inv, NEW t \in Tasks, InUser(t), NEW to \in {"yield", "sleep", "exit"},
           queue' = SetBlock(queue, t), GoTo(t, to),
           UNCHANGED <<running, clocks, locks, child, broken>>
    PROVE  Inv'
<1>1. /\ queue \in Queues /\ Sound(queue) /\ OnList(queue, "ready", t)
      /\ "ready" \in Lists /\ t # Idle
  BY UserIsReady, ListNames, TasksAssumption
<1>2. /\ queue' \in Queues /\ Sound(queue')
      /\ \A u \in Tasks \ {t}, a \in Lists :
            OnList(queue', a, u) <=> OnList(queue, a, u)
      /\ OnNoList(queue', t)
      /\ \A a \in Lists \ {"ready"} : queue'[a] = queue[a]
  BY <1>1, RemoveFacts DEF SetBlock
<1>3. /\ pc \in [Tasks -> PCs] /\ pc' \in [Tasks -> PCs]
      /\ pc' = [pc EXCEPT ![t] = to]
      /\ running = t /\ ~broken /\ pc[t] = "user" /\ child \in [Tasks -> Tasks]
  BY DEF Inv, TypeOK, GoTo, PCs, InUser
<1>4. TypeOK'
  BY <1>2, <1>3 DEF TypeOK, Inv, Queues, clocks, locks
<1>5. AtHead'
  BY <1>3 DEF AtHead
<1>6. QueuesSound'
  BY <1>2 DEF QueuesSound
<1>7. OffList'
  BY <1>2, <1>3 DEF OffList, OnNoList, Inv
<1>8. ForksApart'
  <2>1. \A u \in Tasks : OnList(queue', "sleep", u) => OnList(queue, "sleep", u)
    BY <1>2, ListNames DEF OnNoList
  <2>2. QED
    BY <1>3, <2>1 DEF ForksApart, Inv
<1>9. MutualExclusion' /\ LockedIsOwned' /\ NoMissedWakeup'
  BY <1>2, LocksKept, ListNames
<1>10. SleepersCount'
  BY <1>2, <1>3, ListNames, SleepersKept DEF clocks, OnNoList
<1>11. QED
  BY <1>4, <1>5, <1>6, <1>7, <1>8, <1>9, <1>10 DEF Inv

\* The second edit of yield and of sleep: onto the end of a list.
LEMMA OntoListKeeps ==
    ASSUME Inv, NEW t \in Tasks, NEW l \in {"ready", "sleep"},
           OnNoList(queue, t), pc[t] \in {"yield", "sleep"},
           NEW to \in {"yielded", "slept"}, GoTo(t, to),
           queue' = InsertBack(queue, l, t), running = t,
           UNCHANGED <<running, locks, child>>
    PROVE  /\ queue' \in Queues
           /\ QueuesSound' /\ AtHead' /\ OffList' /\ ForksApart'
           /\ MutualExclusion' /\ LockedIsOwned' /\ NoMissedWakeup'
           /\ \A u \in Tasks \ {t}, a \in Lists :
                 OnList(queue', a, u) <=> OnList(queue, a, u)
           /\ \A a \in Lists : OnList(queue', a, t) <=> a = l
<1>1. queue \in Queues /\ Sound(queue) /\ l \in Lists
  BY ListNames DEF Inv, TypeOK, Queues, QueuesSound
<1>2. /\ queue' \in Queues /\ Sound(queue')
      /\ \A u \in Tasks \ {t}, a \in Lists :
            OnList(queue', a, u) <=> OnList(queue, a, u)
      /\ \A a \in Lists : OnList(queue', a, t) <=> a = l
      /\ \A a \in Lists \ {l} : queue'[a] = queue[a]
  BY <1>1, InsertFacts
<1>3. /\ pc \in [Tasks -> PCs] /\ pc' = [pc EXCEPT ![t] = to]
      /\ child \in [Tasks -> Tasks]
  BY DEF Inv, TypeOK, GoTo
<1>4. AtHead'
  BY <1>3 DEF AtHead
<1>5. QueuesSound'
  BY <1>2 DEF QueuesSound
<1>6. OffList'
  BY <1>2, <1>3 DEF OffList, OnNoList, Inv
<1>7. ForksApart'
  <2>1. \A u \in Tasks \ {t} : OnList(queue', "sleep", u) => OnList(queue, "sleep", u)
    BY <1>2, ListNames
  <2>2. QED
    BY <1>3, <2>1 DEF ForksApart, Inv
<1>8. MutualExclusion' /\ LockedIsOwned' /\ NoMissedWakeup'
  BY <1>2, LocksKept, ListNames
<1>9. QED
  BY <1>2, <1>4, <1>5, <1>6, <1>7, <1>8

LEMMA YieldReadyKeepsInv ==
    ASSUME Inv, NEW t \in Tasks, YieldReady(t)
    PROVE  Inv'
<1>1. /\ running = t /\ pc[t] = "yield" /\ ~broken /\ t # Idle
      /\ queue' = InsertBack(queue, "ready", t) /\ GoTo(t, "yielded")
      /\ UNCHANGED <<running, clocks, locks, child, broken>>
      /\ OnNoList(queue, t)
  BY TasksAssumption DEF YieldReady, SetReady, Inv, OffList
<1>2. /\ queue' \in Queues
      /\ QueuesSound' /\ AtHead' /\ OffList' /\ ForksApart'
      /\ MutualExclusion' /\ LockedIsOwned' /\ NoMissedWakeup'
      /\ \A u \in Tasks \ {t}, a \in Lists :
            OnList(queue', a, u) <=> OnList(queue, a, u)
      /\ \A a \in Lists : OnList(queue', a, t) <=> a = "ready"
  BY <1>1, OntoListKeeps
<1>3. TypeOK'
  BY <1>1, <1>2 DEF TypeOK, Inv, Queues, clocks, locks, GoTo, PCs
<1>4. SleepersCount'
  BY <1>1, <1>2, ListNames, SleepersKept DEF clocks
<1>5. QED
  BY <1>2, <1>3, <1>4 DEF Inv

LEMMA SetSleepKeepsInv ==
    ASSUME Inv, NEW t \in Tasks, NEW n \in SleepArgs, SetSleep(t, n)
    PROVE  Inv'
<1>1. /\ running = t /\ pc[t] = "sleep" /\ ~broken
      /\ pc' = [pc EXCEPT ![t] = "slept"] /\ GoTo(t, "slept")
      /\ UNCHANGED <<running, ticks, locks, child, broken>>
      /\ OnNoList(queue, t)
  BY DEF SetSleep, GoTo, Inv, OffList
<1>2. /\ n \in Nat /\ sleep \in [Tasks -> Nat] /\ pc \in [Tasks -> PCs]
      /\ queue \in Queues
  BY BoundsAssumption DEF Inv, TypeOK, Queues
<1>3. CASE n = 0
  <2>1. queue' = queue /\ sleep' = sleep
    BY <1>3 DEF SetSleep, Enqueued
  <2>2. TypeOK'
    BY <1>1, <1>2, <2>1 DEF TypeOK, Inv, locks, PCs
  <2>3. QueuesSound' /\ OffList' /\ ForksApart'
    BY <1>1, <1>2, <2>1, SettledKeeps DEF Settled, Inv, QueuesSound
  <2>4. AtHead'
    BY <1>1, <1>2 DEF AtHead
  <2>5. MutualExclusion' /\ LockedIsOwned' /\ NoMissedWakeup'
    BY <1>1, <2>1, LocksKept
  <2>6. SleepersCount'
    BY <1>1, <2>1 DEF Inv, SleepersCount
  <2>7. QED
    BY <2>2, <2>3, <2>4, <2>5, <2>6 DEF Inv
<1>4. CASE n # 0
  <2>1. queue' = InsertBack(queue, "sleep", t) /\ sleep' = [sleep EXCEPT ![t] = n]
    BY <1>4 DEF SetSleep, Enqueued
  <2>2. /\ queue' \in Queues
        /\ QueuesSound' /\ AtHead' /\ OffList' /\ ForksApart'
        /\ MutualExclusion' /\ LockedIsOwned' /\ NoMissedWakeup'
        /\ \A u \in Tasks \ {t}, a \in Lists :
              OnList(queue', a, u) <=> OnList(queue, a, u)
        /\ \A a \in Lists : OnList(queue', a, t) <=> a = "sleep"
    BY <1>1, <2>1, OntoListKeeps
  <2>3. TypeOK'
    BY <1>1, <1>2, <2>1, <2>2 DEF TypeOK, Inv, Queues, locks, PCs
  <2>4. SleepersCount'
    <3> SUFFICES ASSUME NEW u \in Members(queue', "sleep") PROVE sleep'[u] > 0
      BY DEF SleepersCount
    <3>1. u \in Tasks /\ OnList(queue', "sleep", u)
      BY <2>2, ListFacts, ListNames DEF OnList, Members
    <3>2. QED
      BY <3>1, <1>1, <1>2, <1>4, <2>1, <2>2, ListNames DEF Inv, SleepersCount, OnList
  <2>5. QED
    BY <2>2, <2>3, <2>4 DEF Inv
<1>5. QED
  BY <1>3, <1>4

LEMMA LeaveKeepsInv ==
    ASSUME Inv, NEW t \in Tasks, Leave(t)
    PROVE  Inv'
<1>1. /\ queue' = queue /\ broken' = FALSE /\ ~broken /\ running' = Dispatched(queue)
      /\ pc' = [pc EXCEPT ![t] = "user"]
      /\ UNCHANGED <<clocks, locks, child>>
  BY DEF Leave, Reschedule, GoTo
<1>2. queue \in Queues /\ pc \in [Tasks -> PCs] /\ pc[t] # "raw"
  BY DEF Inv, TypeOK, Queues, Leave
<1>3. TypeOK'
  BY <1>1, <1>2, DispatchedFacts DEF TypeOK, Inv, clocks, locks, PCs
<1>4. AtHead'
  BY <1>1, <1>2, DispatchedFacts DEF AtHead
<1>5. QueuesSound' /\ OffList' /\ ForksApart'
  BY <1>1, <1>2, SettledKeeps DEF Settled, Inv, QueuesSound
<1>6. MutualExclusion' /\ LockedIsOwned' /\ NoMissedWakeup'
  BY <1>1, LocksKept
<1>7. SleepersCount'
  BY <1>1 DEF Inv, SleepersCount, clocks
<1>8. QED
  BY <1>3, <1>4, <1>5, <1>6, <1>7 DEF Inv

LEMMA ForkInitKeepsInv ==
    ASSUME Inv, NEW t \in Tasks, ForkInit(t)
    PROVE  Inv'
<1> DEFINE c == child[t]
<1>1. /\ queue \in Queues /\ Sound(queue) /\ pc \in [Tasks -> PCs]
      /\ child \in [Tasks -> Tasks] /\ c \in Tasks /\ c # Idle
      /\ running = t /\ pc[t] = "fork" /\ ~broken
      /\ UNCHANGED <<running, clocks, locks, child>>
  BY TasksAssumption DEF Inv, TypeOK, Queues, QueuesSound, ForkInit
<1> HIDE DEF c
<1>2. CASE pc[c] # "free"
  <2>1. broken' = TRUE /\ queue' = queue /\ pc' = pc
    BY <1>2 DEF ForkInit, c
  <2>2. TypeOK'
    BY <1>1, <2>1 DEF TypeOK, Inv, clocks, locks
  <2>3. AtHead' /\ QueuesSound' /\ OffList' /\ ForksApart'
    BY <1>1, <2>1 DEF Inv, AtHead, QueuesSound, OffList, ForksApart
  <2>4. MutualExclusion' /\ LockedIsOwned' /\ NoMissedWakeup'
    BY <1>1, <2>1, LocksKept
  <2>5. QED
    BY <2>1, <2>2, <2>3, <2>4 DEF Inv
<1>3. CASE pc[c] = "free"
  <2>1. /\ broken' = FALSE /\ queue' = InsertBack(queue, "ready", c) /\ c # t
        /\ pc' = [pc EXCEPT ![t] = "forked", ![c] = "raw"]
    BY <1>1, <1>3 DEF ForkInit, SetReady, c
  <2>2. OnNoList(queue, c)
    BY <1>1, <1>3 DEF Inv, OffList
  <2>3. /\ queue' \in Queues /\ Sound(queue')
        /\ \A u \in Tasks \ {c}, a \in Lists :
              OnList(queue', a, u) <=> OnList(queue, a, u)
        /\ \A a \in Lists : OnList(queue', a, c) <=> a = "ready"
        /\ \A a \in Lists \ {"ready"} : queue'[a] = queue[a]
        /\ queue'["ready"] # <<>>
        /\ queue["ready"] # <<>> => Head(queue'["ready"]) = Head(queue["ready"])
    BY <1>1, <2>1, <2>2, InsertFacts, ListNames
  <2>4. TypeOK'
    BY <1>1, <2>1, <2>3 DEF TypeOK, Inv, Queues, clocks, locks, PCs
  <2>5. AtHead'
    BY <1>1, <2>1, <2>3 DEF Inv, AtHead
  <2>6. QueuesSound'
    BY <2>3 DEF QueuesSound
  <2>7. OffList'
    BY <1>1, <2>1, <2>3 DEF Inv, OffList, OnNoList
  <2>8. ForksApart'
    <3> SUFFICES ASSUME NEW u \in Tasks, pc'[u] = "forked"
                 PROVE  /\ pc'[child'[u]] = "raw"
                        /\ ~OnList(queue', "sleep", child'[u])
                        /\ \A v \in Tasks \ {u} : pc'[v] = "forked" => child'[v] # child'[u]
      BY DEF ForksApart
    <3>1. \A v \in Tasks : pc'[v] = "forked" =>
              \/ v = t /\ child'[v] = c
              \/ pc[v] = "forked" /\ child'[v] = child[v] /\ child[v] # c
      BY <1>1, <1>3, <2>1 DEF Inv, ForksApart, c
    <3>2. pc'[c] = "raw" /\ ~OnList(queue', "sleep", c)
      BY <1>1, <2>1, <2>3, ListNames
    <3>3. CASE u = t
      BY <3>1, <3>2, <3>3, <1>1, <2>1 DEF c
    <3>4. CASE u # t
      <4>1. pc[u] = "forked" /\ child'[u] = child[u] /\ child[u] # c /\ child[u] \in Tasks
        BY <3>1, <3>4, <1>1
      <4>2. pc[child[u]] = "raw" /\ ~OnList(queue, "sleep", child[u])
        BY <4>1 DEF Inv, ForksApart
      <4>3. pc'[child[u]] = "raw" /\ ~OnList(queue', "sleep", child[u])
        BY <4>1, <4>2, <1>1, <2>1, <2>3, ListNames
      <4>4. \A v \in Tasks \ {u} : pc'[v] = "forked" => child'[v] # child'[u]
        BY <3>1, <4>1 DEF Inv, ForksApart
      <4>5. QED
        BY <4>1, <4>3, <4>4
    <3>5. QED
      BY <3>3, <3>4
  <2>9. MutualExclusion' /\ LockedIsOwned' /\ NoMissedWakeup'
    BY <1>1, <2>3, LocksKept, ListNames
  <2>10. SleepersCount'
    BY <1>1, <2>3, ListNames, SleepersKept DEF clocks
  <2>11. QED
    BY <2>4, <2>5, <2>6, <2>7, <2>8, <2>9, <2>10 DEF Inv
<1>4. QED
  BY <1>2, <1>3

LEMMA ForkFailKeepsInv ==
    ASSUME Inv, NEW t \in Tasks, ForkFail(t)
    PROVE  Inv'
<1>1. /\ running = t /\ pc[t] = "fork" /\ ~broken /\ broken' \in BOOLEAN
      /\ child' = [child EXCEPT ![t] = t] /\ pc' = [pc EXCEPT ![t] = "user"]
      /\ UNCHANGED <<queue, running, clocks, locks>>
      /\ pc \in [Tasks -> PCs] /\ child \in [Tasks -> Tasks]
  BY DEF ForkFail, GoTo, Inv, TypeOK
<1>2. TypeOK'
  BY <1>1 DEF TypeOK, Inv, clocks, locks, PCs
<1>3. QueuesSound' /\ OffList' /\ ForksApart'
  BY <1>1, SettledKeeps DEF Settled, Inv, QueuesSound
<1>4. AtHead'
  BY <1>1 DEF AtHead, Inv
<1>5. MutualExclusion' /\ LockedIsOwned' /\ NoMissedWakeup'
  BY <1>1, LocksKept
<1>6. SleepersCount'
  BY <1>1 DEF Inv, SleepersCount, clocks
<1>7. QED
  BY <1>2, <1>3, <1>4, <1>5, <1>6 DEF Inv

LEMMA ForkFillKeepsInv ==
    ASSUME Inv, NEW t \in Tasks, ForkFill(t)
    PROVE  Inv'
<1>1. /\ running = t /\ pc[t] = "forked" /\ ~broken
      /\ ticks' = [ticks EXCEPT ![child[t]] = Slices]
      /\ sleep' = [sleep EXCEPT ![child[t]] = 0]
      /\ child' = [child EXCEPT ![t] = t]
      /\ pc' = [pc EXCEPT ![t] = "user", ![child[t]] = "user"]
      /\ UNCHANGED <<queue, running, locks, broken>>
      /\ pc \in [Tasks -> PCs] /\ child \in [Tasks -> Tasks]
      /\ sleep \in [Tasks -> Nat]
      /\ queue \in Queues
  BY DEF ForkFill, Inv, TypeOK, Queues
<1>2. /\ child[t] \in Tasks /\ pc[child[t]] = "raw"
      /\ ~OnList(queue, "sleep", child[t])
      /\ \A u \in Tasks \ {t} : pc[u] = "forked" => child[u] # child[t]
  BY <1>1 DEF Inv, ForksApart
<1>3. TypeOK'
  <2>1. Slices \in 1..Slices /\ "user" \in PCs
    BY BoundsAssumption DEF PCs
  <2>2. ticks \in [Tasks \cup {Idle} -> 1..Slices]
    BY DEF Inv, TypeOK
  <2>3. ticks' \in [Tasks \cup {Idle} -> 1..Slices] /\ sleep' \in [Tasks -> Nat]
    BY <1>1, <1>2, <2>1, <2>2
  <2>4. pc' \in [Tasks -> PCs] /\ child' \in [Tasks -> Tasks]
    BY <1>1, <1>2, <2>1
  <2>5. QED
    BY <1>1, <2>3, <2>4 DEF TypeOK, Inv, locks
<1>4. QueuesSound' /\ OffList' /\ AtHead'
  BY <1>1, <1>2 DEF Inv, QueuesSound, OffList, AtHead
<1>5. ForksApart'
  BY <1>1, <1>2 DEF Inv, ForksApart
<1>6. MutualExclusion' /\ LockedIsOwned' /\ NoMissedWakeup'
  BY <1>1, LocksKept
<1>7. SleepersCount'
  <2>1. \A u \in Members(queue, "sleep") : u \in Tasks /\ u # child[t]
    BY <1>1, <1>2, ListFacts, ListNames DEF OnList, Members
  <2>2. QED
    BY <1>1, <2>1 DEF SleepersCount, Inv
<1>8. QED
  BY <1>3, <1>4, <1>5, <1>6, <1>7 DEF Inv

LEMMA DestroyKeepsInv ==
    ASSUME Inv, NEW t \in Tasks, Destroy(t)
    PROVE  Inv'
<1>1. /\ running = t /\ pc[t] = "exit" /\ ~broken /\ broken' \in BOOLEAN
      /\ queue' = queue /\ running' \in {running, Dispatched(queue)}
      /\ running' # running => running' = Dispatched(queue)
      /\ pc' = [pc EXCEPT ![t] = "free"]
      /\ UNCHANGED <<clocks, locks, child>>
      /\ pc \in [Tasks -> PCs] /\ queue \in Queues
  BY DEF Destroy, Reschedule, GoTo, Inv, TypeOK, Queues
<1>2. TypeOK'
  BY <1>1, DispatchedFacts DEF TypeOK, Inv, clocks, locks, PCs
<1>3. QueuesSound' /\ OffList' /\ ForksApart'
  BY <1>1, SettledKeeps DEF Settled, Inv, QueuesSound
<1>4. AtHead'
  BY <1>1, DispatchedFacts DEF AtHead
<1>5. MutualExclusion' /\ LockedIsOwned' /\ NoMissedWakeup'
  BY <1>1, LocksKept
<1>6. SleepersCount'
  BY <1>1 DEF Inv, SleepersCount, clocks
<1>7. QED
  BY <1>2, <1>3, <1>4, <1>5, <1>6 DEF Inv

------------------------------------------------------------------------------
(* The timer.                                                              *)

\* The walk wakes at most one sleeper: the ready list is where it goes on from
\* there, and there it ends.
LEMMA WalkFacts ==
    ASSUME Inv
    PROVE  /\ Walked \subseteq Members(queue, "sleep")
           /\ \A u, v \in Woken : u = v
<1>1. Walked \subseteq Members(queue, "sleep")
  BY DEF Walked, Walk, Members
<1>2. queue["sleep"] \in Seq(Tasks) /\ Len(queue["sleep"]) \in Nat
  BY ListNames DEF Inv, TypeOK
<1>3. ASSUME NEW u \in Woken, NEW v \in Woken PROVE u = v
  <2>1. PICK i \in 1..Len(queue["sleep"]) :
            queue["sleep"][i] = u /\ \A d \in Due : i <= d
    BY <1>2 DEF Woken, Walked, Walk
  <2>2. PICK j \in 1..Len(queue["sleep"]) :
            queue["sleep"][j] = v /\ \A d \in Due : j <= d
    BY <1>2 DEF Woken, Walked, Walk
  <2>3. i \in Due /\ j \in Due
    BY <2>1, <2>2 DEF Due, Woken
  <2>4. i = j
    BY <2>1, <2>2, <2>3, <1>2
  <2>5. QED
    BY <2>1, <2>2, <2>4
<1>4. QED
  BY <1>1, <1>3

LEMMA AfterWalkFacts ==
    ASSUME Inv
    PROVE  /\ AfterWalk \in Queues /\ Sound(AfterWalk)
           /\ \A u \in Tasks : OnNoList(queue, u) <=> OnNoList(AfterWalk, u)
           /\ \A u \in Tasks : OnList(AfterWalk, "sleep", u) <=>
                  OnList(queue, "sleep", u) /\ u \notin Woken
           /\ \A u \in Tasks : OnList(queue, "ready", u) => OnList(AfterWalk, "ready", u)
           /\ \A l \in Lists \ {"ready", "sleep"} : AfterWalk[l] = queue[l]
           /\ queue["ready"] # <<>> =>
                  /\ AfterWalk["ready"] # <<>>
                  /\ Head(AfterWalk["ready"]) = Head(queue["ready"])
<1>1. queue \in Queues /\ Sound(queue)
  BY DEF Inv, TypeOK, Queues, QueuesSound
<1>2. CASE Woken = {}
  BY <1>1, <1>2 DEF AfterWalk
<1>3. CASE Woken # {}
  <2> DEFINE w == CHOOSE t \in Woken : TRUE
             p == Remove1(queue, "sleep", w)
             r == InsertBack(p, "ready", w)
  <2>1. w \in Woken
    BY <1>3
  <2> HIDE DEF w
  <2>2. w \in Tasks /\ w # Idle /\ OnList(queue, "sleep", w) /\ Woken = {w}
    BY <2>1, WalkFacts, <1>1, ListNames, TasksAssumption
       DEF Woken, Members, OnList, Queues
  <2>3. /\ p \in Queues /\ Sound(p)
        /\ \A u \in Tasks \ {w}, a \in Lists : OnList(p, a, u) <=> OnList(queue, a, u)
        /\ OnNoList(p, w)
        /\ \A a \in Lists \ {"sleep"} : p[a] = queue[a]
    BY <1>1, <2>2, RemoveFacts, ListNames
  <2> HIDE DEF p
  <2>4. /\ r \in Queues /\ Sound(r)
        /\ \A u \in Tasks \ {w}, a \in Lists : OnList(r, a, u) <=> OnList(p, a, u)
        /\ \A a \in Lists : OnList(r, a, w) <=> a = "ready"
        /\ \A a \in Lists \ {"ready"} : r[a] = p[a]
        /\ r["ready"] # <<>>
        /\ p["ready"] # <<>> => Head(r["ready"]) = Head(p["ready"])
    BY <2>2, <2>3, InsertFacts, ListNames
  <2>5. AfterWalk = r
    BY <1>3, <2>2 DEF AfterWalk, SetReady, r, p, w
  <2> HIDE DEF r
  <2>6. \A u \in Tasks : OnNoList(queue, u) <=> OnNoList(r, u)
    <3>1. ~OnNoList(queue, w) /\ ~OnNoList(r, w)
      BY <2>2, <2>4, ListNames DEF OnNoList
    <3>2. \A u \in Tasks \ {w}, a \in Lists : OnList(r, a, u) <=> OnList(queue, a, u)
      BY <2>3, <2>4
    <3>3. QED
      BY <3>1, <3>2 DEF OnNoList
  <2>7. \A u \in Tasks : OnList(r, "sleep", u) <=>
            OnList(queue, "sleep", u) /\ u \notin Woken
    BY <2>2, <2>3, <2>4, ListNames
  <2>8. \A u \in Tasks : OnList(queue, "ready", u) => OnList(r, "ready", u)
    BY <2>2, <2>3, <2>4, ListNames
  <2>9. p["ready"] = queue["ready"]
    BY <2>3, ListNames
  <2>10. QED
    BY <2>3, <2>4, <2>5, <2>6, <2>7, <2>8, <2>9
<1>4. QED
  BY <1>2, <1>3

LEMMA TimerKeepsInv ==
    ASSUME Inv, Timer
    PROVE  /\ Inv'
           /\ InUser(running) \/ running = Idle => broken' = FALSE /\ NobodyDrops
<1> DEFINE a == AfterWalk
<1>1. /\ a \in Queues /\ Sound(a)
      /\ \A u \in Tasks : OnNoList(queue, u) <=> OnNoList(a, u)
      /\ \A u \in Tasks : OnList(a, "sleep", u) <=>
             OnList(queue, "sleep", u) /\ u \notin Woken
      /\ \A l \in Lists \ {"ready", "sleep"} : a[l] = queue[l]
      /\ queue["ready"] # <<>> =>
             a["ready"] # <<>> /\ Head(a["ready"]) = Head(queue["ready"])
  BY AfterWalkFacts
<1>2. /\ ~broken /\ queue \in Queues /\ running \in Tasks \cup {Idle}
      /\ sleep \in [Tasks -> Nat] /\ ticks \in [Tasks \cup {Idle} -> 1..Slices]
      /\ UNCHANGED <<pc, locks, child>>
      /\ sleep' = [t \in Tasks |-> IF t \in Walked THEN sleep[t] - 1 ELSE sleep[t]]
  BY DEF Timer, Inv, TypeOK, Queues
<1>3. \A u \in Tasks : u \in Walked => sleep[u] > 0
  BY <1>2, WalkFacts DEF Inv, SleepersCount
<1>4. sleep' \in [Tasks -> Nat]
  BY <1>2, <1>3
<1>5. \A u \in Tasks : OnList(a, "sleep", u) => sleep'[u] > 0
  BY <1>1, <1>2 DEF Inv, SleepersCount, OnList, Woken
<1>6. Settled
  BY <1>2 DEF Settled
<1> HIDE DEF a
<1>7. /\ ticks' \in [Tasks \cup {Idle} -> 1..Slices] /\ broken' \in BOOLEAN
      /\ \/ /\ queue' = a /\ running' = running
         \/ /\ ~broken' /\ running = Idle /\ queue' = a
            /\ running' = Dispatched(queue')
         \/ /\ ~broken' /\ running \in Tasks /\ OnList(a, "ready", running)
            /\ queue' = Move(a, "ready", "ready", running)
            /\ running' = Dispatched(queue')
         \/ broken' /\ queue' = queue /\ running' = running
  <2>1. CASE ticks[running] > 1
    <3>1. /\ ticks' = [ticks EXCEPT ![running] = @ - 1]
          /\ queue' = a /\ UNCHANGED <<running, broken>>
      BY <2>1 DEF Timer, a
    <3>2. ticks[running] \in 1..Slices /\ Slices \in Nat
      BY <1>2, BoundsAssumption
    <3>3. ticks[running] - 1 \in 1..Slices
      BY <2>1, <3>2
    <3>4. ticks' \in [Tasks \cup {Idle} -> 1..Slices]
      BY <3>1, <3>3, <1>2
    <3>5. QED
      BY <3>1, <3>4 DEF Inv, TypeOK
  <2>2. CASE ~(ticks[running] > 1)
    <3>1. ticks' = [ticks EXCEPT ![running] = Slices] /\ Slices \in 1..Slices
      BY <2>2, BoundsAssumption DEF Timer, Reload
    <3>2. Reschedule(MayBlock(a, running), Rotate(a, running))
      BY <2>2 DEF Timer, a
    <3>3. CASE running = Idle
      BY <1>2, <3>1, <3>2, <3>3 DEF Reschedule, MayBlock, Rotate, SetReady, SetBlock
    <3>4. CASE running # Idle /\ OnList(a, "ready", running)
      BY <1>2, <3>1, <3>2, <3>4 DEF Reschedule, MayBlock, Rotate, SetReady, SetBlock, Move
    <3>5. CASE running # Idle /\ ~OnList(a, "ready", running)
      BY <1>2, <3>1, <3>2, <3>5 DEF Reschedule, MayBlock
    <3>6. QED
      BY <3>3, <3>4, <3>5
  <2>3. QED
    BY <2>1, <2>2
<1>8. /\ queue' \in Queues /\ Sound(queue') /\ running' \in Tasks \cup {Idle}
      /\ \A u \in Tasks : OnNoList(queue, u) => OnNoList(queue', u)
      /\ \A u \in Tasks : OnList(queue', "sleep", u) => OnList(queue, "sleep", u)
      /\ ~broken' => \A u \in Tasks : OnList(queue', "sleep", u) => OnList(a, "sleep", u)
      /\ \A l \in Lists \ {"ready", "sleep"} : queue'[l] = queue[l]
      /\ AtHead'
  <2>1. CASE queue' = a /\ running' = running
    BY <2>1, <1>1, <1>2 DEF Inv, AtHead
  <2>2. CASE /\ ~broken' /\ running = Idle /\ queue' = a
             /\ running' = Dispatched(queue')
    BY <2>2, <1>1, <1>2, DispatchedFacts DEF AtHead
  <2>3. CASE /\ ~broken' /\ running \in Tasks /\ OnList(a, "ready", running)
             /\ queue' = Move(a, "ready", "ready", running)
             /\ running' = Dispatched(queue')
    <3>1. /\ queue' \in Queues /\ Sound(queue')
          /\ \A u \in Tasks \ {running}, l \in Lists :
                OnList(queue', l, u) <=> OnList(a, l, u)
          /\ \A l \in Lists : OnList(queue', l, running) <=> l = "ready"
          /\ \A l \in Lists \ {"ready"} : queue'[l] = a[l]
      BY <2>3, <1>1, MoveFacts, ListNames
    <3>2. AtHead' /\ running' \in Tasks \cup {Idle}
      BY <2>3, <3>1, DispatchedFacts DEF AtHead
    <3>3. \A u \in Tasks : OnNoList(a, u) => OnNoList(queue', u)
      BY <2>3, <3>1, ListNames DEF OnNoList
    <3>4. \A u \in Tasks : OnList(queue', "sleep", u) => OnList(a, "sleep", u)
      BY <3>1, ListNames
    <3>5. QED
      BY <1>1, <3>1, <3>2, <3>3, <3>4
  <2>4. CASE broken' /\ queue' = queue /\ running' = running
    BY <2>4, <1>2 DEF Inv, QueuesSound, AtHead
  <2>5. QED
    BY <1>7, <2>1, <2>2, <2>3, <2>4
<1>9. TypeOK'
  BY <1>2, <1>4, <1>7, <1>8 DEF TypeOK, Inv, Queues, locks
<1>10. QueuesSound' /\ OffList' /\ ForksApart'
  BY <1>6, <1>8, SettledKeeps
<1>11. MutualExclusion' /\ LockedIsOwned' /\ NoMissedWakeup'
  BY <1>2, <1>8, LocksKept, ListNames
<1>12. ~broken' => SleepersCount'
  <2> SUFFICES ASSUME ~broken', NEW u \in Members(queue', "sleep") PROVE sleep'[u] > 0
    BY DEF SleepersCount
  <2>1. u \in Tasks /\ OnList(queue', "sleep", u)
    BY <1>8, ListNames, MembersTyped DEF OnList
  <2>2. QED
    BY <2>1, <1>5, <1>8
<1>13. ASSUME InUser(running) \/ running = Idle PROVE broken' = FALSE /\ NobodyDrops
  <2>1. running # Idle => OnList(a, "ready", running)
    <3> SUFFICES ASSUME running # Idle PROVE OnList(a, "ready", running)
      OBVIOUS
    <3>1. OnList(queue, "ready", running)
      BY <1>2, <1>13, UserIsReady, ListNames
    <3>2. QED
      BY <1>2, <3>1, AfterWalkFacts DEF a
  <2>2. broken' = FALSE
    <3>1. CASE ticks[running] > 1
      BY <3>1, <1>2 DEF Timer, Inv, TypeOK
    <3>2. CASE ~(ticks[running] > 1)
      BY <3>2, <2>1 DEF Timer, Reschedule, MayBlock, a
    <3>3. QED
      BY <3>1, <3>2
  <2>3. \A u \in Tasks : OnNoList(a, u) => OnNoList(queue, u)
    BY AfterWalkFacts DEF a
  <2>4. \A u \in Tasks : OnNoList(queue', u) => OnNoList(a, u)
    <3>1. CASE queue' = a
      BY <3>1
    <3>2. CASE running \in Tasks /\ OnList(a, "ready", running)
               /\ queue' = Move(a, "ready", "ready", running)
      BY <3>2, <1>1, MoveFacts, ListNames DEF OnNoList
    <3>3. QED
      BY <3>1, <3>2, <2>2, <1>7
  <2>5. QED
    BY <2>2, <2>3, <2>4 DEF NobodyDrops
<1>14. QED
  BY <1>8, <1>9, <1>10, <1>11, <1>12, <1>13 DEF Inv

------------------------------------------------------------------------------
(* The theorems.                                                           *)

LEMMA InitInv == Init => Inv
<1> SUFFICES ASSUME Init PROVE Inv
  OBVIOUS
<1>1. /\ queue = [l \in Lists |-> IF l = "ready" THEN <<InitTask>> ELSE <<>>]
      /\ InitTask \in Tasks /\ "ready" \in Lists
  BY TasksAssumption, ListNames DEF Init
<1>2. /\ queue \in Queues
      /\ \A l \in Lists, t \in Tasks : OnList(queue, l, t) <=> l = "ready" /\ t = InitTask
      /\ Sound(queue)
      /\ queue["ready"] # <<>> /\ Head(queue["ready"]) = InitTask
      /\ \A l \in Sems \cup Mutexes : queue[l] = <<>>
      /\ Members(queue, "sleep") = {}
  BY <1>1, ListNames DEF Queues, OnList, Members, Sound
<1>3. TypeOK
  <2>1. /\ Slices \in 1..Slices
        /\ SemInit \in [Sems -> Nat]
    BY BoundsAssumption
  <2>2. ticks \in [Tasks \cup {Idle} -> 1..Slices] /\ sleep \in [Tasks -> Nat]
    BY <2>1 DEF Init
  <2>3. /\ pc \in [Tasks -> PCs] /\ child \in [Tasks -> Tasks]
        /\ running \in Tasks \cup {Idle} /\ broken \in BOOLEAN
    BY <1>1 DEF Init, PCs
  <2>4. /\ counter \in [Sems -> Nat] /\ locker \in [Mutexes -> Nat]
        /\ owner \in [Mutexes -> Tasks \cup {None}]
        /\ held \in [Tasks -> [Mutexes -> Nat]]
    BY <2>1 DEF Init
  <2>5. QED
    BY <1>2, <2>2, <2>3, <2>4 DEF TypeOK, Queues
<1>4. QueuesSound /\ AtHead /\ SleepersCount
  BY <1>2 DEF Init, QueuesSound, AtHead, SleepersCount
<1>5. OffList /\ ForksApart
  BY <1>2 DEF Init, OffList, OnNoList, ForksApart
<1>6. MutualExclusion /\ NoMissedWakeup /\ LockedIsOwned
  BY <1>2, ListNames, TasksAssumption
     DEF Init, MutualExclusion, NoMissedWakeup, LockedIsOwned
<1>7. QED
  BY <1>3, <1>4, <1>5, <1>6 DEF Inv

LEMMA NextKeepsInv == Inv /\ [Next]_vars => Inv'
<1> SUFFICES ASSUME Inv, [Next]_vars PROVE Inv'
  OBVIOUS
<1>1. ASSUME NEW t \in Tasks, Call(t) PROVE Inv'
  <2>1. ASSUME NEW s \in Sems, SemWait(t, s) PROVE Inv'
    BY <2>1, SemWaitKeepsInv
  <2>2. ASSUME NEW s \in Sems, SemNotify(t, s) PROVE Inv'
    BY <2>2, NotifyKeepsInv DEF SemNotify, InUser
  <2>3. ASSUME NEW m \in Mutexes, MutexLock(t, m) PROVE Inv'
    BY <2>3, MutexLockKeepsInv
  <2>4. ASSUME NEW m \in Mutexes, MutexUnlock(t, m) PROVE Inv'
    BY <2>4, MutexUnlockKeepsInv
  <2>5. CASE Yield(t)
    BY <2>5, OffReadyKeepsInv DEF Yield
  <2>6. CASE Sleep(t)
    BY <2>6, OffReadyKeepsInv DEF Sleep
  <2>7. ASSUME NEW c \in Tasks, Fork(t, c) PROVE Inv'
    BY <2>7, ForkKeepsInv
  <2>8. CASE Exit(t)
    BY <2>8, OffReadyKeepsInv DEF Exit
  <2>9. QED
    BY <1>1, <2>1, <2>2, <2>3, <2>4, <2>5, <2>6, <2>7, <2>8 DEF Call
<1>2. ASSUME NEW t \in Tasks, Continue(t) PROVE Inv'
  BY <1>2, YieldReadyKeepsInv, SetSleepKeepsInv, LeaveKeepsInv, ForkInitKeepsInv,
     ForkFailKeepsInv, ForkFillKeepsInv, DestroyKeepsInv DEF Continue
<1>3. ASSUME NEW s \in IrqSems, Irq(s) PROVE Inv'
  BY <1>3, NotifyKeepsInv, ListsAssumption DEF Irq
<1>4. CASE Timer
  BY <1>4, TimerKeepsInv
<1>5. CASE UNCHANGED vars
  BY <1>5 DEF vars, Inv, TypeOK, QueuesSound, AtHead, OffList, ForksApart,
     MutualExclusion, NoMissedWakeup, LockedIsOwned, SleepersCount
<1>6. QED
  BY <1>1, <1>2, <1>3, <1>4, <1>5 DEF Next

\* The lists, the locks and the places of the tasks stay consistent, whatever
\* interrupts the unprotected sections.
THEOREM InvHolds == Spec => []Inv
  BY InitInv, NextKeepsInv, PTL DEF Spec

\* Every variable keeps its type.
THEOREM TypeCorrect == Spec => []TypeOK
<1>1. Inv => TypeOK
  BY DEF Inv
<1>2. QED
  BY <1>1, InvHolds, PTL

\* No task is ever on two lists, or twice on one (tss.c and list.c).
THEOREM QueuesStaySound == Spec => []QueuesSound
<1>1. Inv => QueuesSound
  BY DEF Inv
<1>2. QED
  BY <1>1, InvHolds, PTL

\* mutex_lock lets one task in at a time and counts its nested calls.
THEOREM MutexExcludes == Spec => []MutualExclusion
<1>1. Inv => MutualExclusion
  BY DEF Inv
<1>2. QED
  BY <1>1, InvHolds, PTL

\* sem_notify and mutex_unlock leave nobody waiting for what is free.
THEOREM WakeupsReachWaiters == Spec => []NoMissedWakeup
<1>1. Inv => NoMissedWakeup
  BY DEF Inv
<1>2. QED
  BY <1>1, InvHolds, PTL

------------------------------------------------------------------------------
(* Queues are served in the order their tasks came.                        *)

\* Who comes before whom in a list is on that list.
LEMMA BeforeIsOn ==
    ASSUME NEW q, NEW l, NEW a, NEW b, Before(q[l], a, b)
    PROVE  OnList(q, l, a) /\ OnList(q, l, b)
  BY DEF Before, OnList, Members

\* Nobody comes before the first task of a list.
LEMMA HeadIsFirst ==
    ASSUME NEW q \in Queues, Sound(q), NEW l \in Lists, NEW a, NEW b,
           Before(q[l], a, b)
    PROVE  b # Head(q[l])
<1>1. q[l] \in Seq(Tasks) /\ Len(q[l]) \in Nat
  BY DEF Queues
<1>2. PICK i, j \in 1..Len(q[l]) : i < j /\ q[l][i] = a /\ q[l][j] = b
  BY DEF Before
<1>3. 1 \in 1..Len(q[l]) /\ Head(q[l]) = q[l][1] /\ j # 1
  BY <1>1, <1>2
<1>4. QED
  BY <1>2, <1>3 DEF Sound

\* list_remove keeps the order of the others.
LEMMA RemoveKeepsOrder ==
    ASSUME NEW q \in Queues, NEW k \in Lists, NEW x, OnList(q, k, x),
           NEW l \in Lists, NEW a, NEW b, a # x, b # x, Before(q[l], a, b)
    PROVE  Before(Remove1(q, k, x)[l], a, b)
<1> DEFINE n == CHOOSE m \in 1..Len(q[k]) : q[k][m] = x
           s == RemoveAt(q[k], n)
           y(m) == IF m < n THEN m ELSE m - 1
<1>1. q[k] \in Seq(Tasks) /\ Len(q[k]) \in Nat
  BY DEF Queues
<1>2. n \in 1..Len(q[k]) /\ q[k][n] = x
  BY DEF OnList, Members
<1>3. Remove1(q, k, x) = [q EXCEPT ![k] = s]
  BY DEF Remove1
<1> HIDE DEF n
<1>4. /\ Len(s) = Len(q[k]) - 1
      /\ \A i \in 1..(Len(q[k]) - 1) :
            s[i] = IF i < n THEN q[k][i] ELSE q[k][i + 1]
  BY <1>1, <1>2, RemoveAtFacts
<1> HIDE DEF s
<1>5. CASE l # k
  BY <1>3, <1>5 DEF Queues
<1>6. CASE l = k
  <2>1. PICK i, j \in 1..Len(q[k]) : i < j /\ q[k][i] = a /\ q[k][j] = b
    BY <1>6 DEF Before
  <2>2. i # n /\ j # n
    BY <1>2, <2>1
  <2>3. y(i) \in 1..Len(s) /\ y(j) \in 1..Len(s) /\ y(i) < y(j)
    BY <1>1, <1>2, <1>4, <2>1, <2>2
  <2>4. s[y(i)] = a
    BY <1>1, <1>2, <1>4, <2>1, <2>2
  <2>5. s[y(j)] = b
    BY <1>1, <1>2, <1>4, <2>1, <2>2
  <2> HIDE DEF y
  <2>6. Before(s, a, b)
    BY <2>3, <2>4, <2>5 DEF Before
  <2>7. QED
    BY <1>3, <1>6, <2>6 DEF Queues
<1>7. QED
  BY <1>5, <1>6

\* list_insert_back keeps the order, and puts the task after all others.
LEMMA InsertKeepsOrder ==
    ASSUME NEW q \in Queues, NEW k \in Lists, NEW x \in Tasks,
           NEW l \in Lists, NEW a
    PROVE  /\ \A b : Before(q[l], a, b) => Before(InsertBack(q, k, x)[l], a, b)
           /\ OnList(q, k, a) => Before(InsertBack(q, k, x)[k], a, x)
<1> DEFINE s == Append(q[k], x)
<1>1. InsertBack(q, k, x) = [q EXCEPT ![k] = s]
  BY DEF InsertBack
<1>2. q[k] \in Seq(Tasks) /\ Len(q[k]) \in Nat
  BY DEF Queues
<1>3. /\ Len(s) = Len(q[k]) + 1
      /\ \A i \in 1..Len(q[k]) : s[i] = q[k][i]
      /\ s[Len(q[k]) + 1] = x
  BY <1>2, AppendProperties
<1> HIDE DEF s
<1>4. ASSUME NEW b, Before(q[l], a, b)
      PROVE  Before(InsertBack(q, k, x)[l], a, b)
  <2>1. CASE l # k
    BY <1>1, <1>4, <2>1 DEF Queues
  <2>2. CASE l = k
    <3>1. PICK i, j \in 1..Len(q[k]) : i < j /\ q[k][i] = a /\ q[k][j] = b
      BY <1>4, <2>2 DEF Before
    <3>2. i \in 1..Len(s) /\ j \in 1..Len(s) /\ s[i] = a /\ s[j] = b
      BY <1>2, <1>3, <3>1
    <3>3. Before(s, a, b)
      BY <3>1, <3>2 DEF Before
    <3>4. QED
      BY <1>1, <2>2, <3>3 DEF Queues
  <2>3. QED
    BY <2>1, <2>2
<1>5. ASSUME OnList(q, k, a) PROVE Before(InsertBack(q, k, x)[k], a, x)
  <2>1. PICK i \in 1..Len(q[k]) : q[k][i] = a
    BY <1>5 DEF OnList, Members
  <2> DEFINE j == Len(q[k]) + 1
  <2>2. i \in 1..Len(s) /\ j \in 1..Len(s) /\ i < j /\ s[i] = a /\ s[j] = x
    BY <1>2, <1>3, <2>1
  <2> HIDE DEF j
  <2>3. Before(s, a, x)
    BY <2>2 DEF Before
  <2>4. QED
    BY <1>1, <2>3 DEF Queues
<1>6. QED
  BY <1>4, <1>5

\* A step that turns q into r lets nobody but x fall behind.
InTurn(q, r, x) ==
    \A l \in Lists \ {"sleep"}, a, b \in Tasks :
        Before(q[l], a, b) /\ a # x /\ OnList(r, l, a) => Before(r[l], a, b)

LEMMA AppendedInTurn ==
    ASSUME NEW q \in Queues, NEW k \in Lists, NEW t \in Tasks, NEW x
    PROVE  InTurn(q, InsertBack(q, k, t), x)
  BY InsertKeepsOrder DEF InTurn

\* The first task of a list leaves it.
LEMMA RemovedInTurn ==
    ASSUME NEW q \in Queues, Sound(q), NEW k \in Lists, q[k] # <<>>, NEW x
    PROVE  InTurn(q, Remove1(q, k, Head(q[k])), x)
<1> DEFINE h == Head(q[k])
           r == Remove1(q, k, h)
<1>1. h \in Tasks /\ OnList(q, k, h)
  BY ListFacts
<1> SUFFICES ASSUME NEW l \in Lists \ {"sleep"}, NEW a \in Tasks, NEW b \in Tasks,
                    Before(q[l], a, b), OnList(r, l, a)
             PROVE  Before(r[l], a, b)
  BY DEF InTurn
<1>2. b # h
  <2>1. CASE l = k
    BY <2>1, HeadIsFirst
  <2>2. CASE l # k
    BY <1>1, <2>2, BeforeIsOn, ListFacts
  <2>3. QED
    BY <2>1, <2>2
<1> HIDE DEF h
<1>3. a # h
  BY <1>1, RemoveFacts DEF OnNoList
<1>4. QED
  BY <1>1, <1>2, <1>3, RemoveKeepsOrder

\* The first task of a list goes to the end of another one.
LEMMA MovedInTurn ==
    ASSUME NEW q \in Queues, Sound(q), NEW k \in Lists, NEW l \in Lists \ {k},
           q[k] # <<>>, NEW x
    PROVE  InTurn(q, Move(q, k, l, Head(q[k])), x)
<1> DEFINE h == Head(q[k])
           p == Remove1(q, k, h)
           r == InsertBack(p, l, h)
<1>1. h \in Tasks /\ OnList(q, k, h)
  BY ListFacts
<1>2. InTurn(q, p, x)
  BY RemovedInTurn
<1> HIDE DEF h
<1>3. /\ p \in Queues /\ Sound(p) /\ OnNoList(p, h)
      /\ \A u \in Tasks \ {h}, c \in Lists : OnList(p, c, u) <=> OnList(q, c, u)
  BY <1>1, RemoveFacts
<1> HIDE DEF p
<1>4. /\ \A u \in Tasks \ {h}, c \in Lists : OnList(r, c, u) <=> OnList(p, c, u)
      /\ \A c \in Lists : OnList(r, c, h) <=> c = l
  BY <1>1, <1>3, InsertFacts
<1>5. ASSUME NEW c \in Lists \ {"sleep"}, NEW a \in Tasks, NEW b \in Tasks,
             Before(q[c], a, b), a # x, OnList(r, c, a)
      PROVE  Before(r[c], a, b)
  <2>1. OnList(q, c, a)
    BY <1>5, BeforeIsOn
  <2>2. a # h
    BY <1>1, <1>4, <1>5, <2>1, ListFacts
  <2>3. OnList(p, c, a)
    BY <1>4, <1>5, <2>2
  <2>4. Before(p[c], a, b)
    BY <1>2, <1>5, <2>3 DEF InTurn
  <2>5. QED
    BY <1>1, <1>3, <2>4, InsertKeepsOrder
<1> HIDE DEF r
<1>6. InTurn(q, r, x)
  BY <1>5 DEF InTurn
<1>7. QED
  BY <1>6 DEF r, p, h, Move

\* Whom a semaphore or a mutex lets through is the first of its waiters.
LEMMA WakeInTurn ==
    ASSUME Inv, NEW l \in Sems \cup Mutexes, HasWaiter(l),
           Reschedule(OnNoList(Remove1(queue, l, NextWaiter(l)), NextWaiter(l)),
                      SetReady(Remove1(queue, l, NextWaiter(l)), NextWaiter(l)))
    PROVE  InTurn(queue, queue', running)
<1>1. /\ queue \in Queues /\ Sound(queue)
      /\ l \in Lists /\ "ready" \in Lists \ {l}
  BY ListNames DEF Inv, TypeOK, Queues, QueuesSound
<1>2. queue[l] # <<>>
  BY DEF HasWaiter
<1> DEFINE w == Head(queue[l])
<1>3. w \in Tasks /\ OnList(queue, l, w) /\ w # Idle
  BY <1>1, <1>2, ListFacts, TasksAssumption
<1>4. InTurn(queue, Move(queue, l, "ready", w), running)
  BY <1>1, <1>2, MovedInTurn
<1>5. w = NextWaiter(l)
  BY DEF NextWaiter
<1> HIDE DEF w
<1>6. OnNoList(Remove1(queue, l, w), w)
  BY <1>1, <1>3, RemoveFacts
<1>7. queue' = Move(queue, l, "ready", w)
  BY <1>3, <1>5, <1>6 DEF Reschedule, SetReady, Move
<1>8. QED
  BY <1>4, <1>7

LEMMA StayedInTurn == \A q, x : InTurn(q, q, x)
  BY DEF InTurn

\* sem_notify, from a task or from an interrupt handler.
LEMMA NotifyInTurn ==
    ASSUME Inv, NEW s \in Sems, Notify(s) PROVE InTurn(queue, queue', running)
<1>1. CASE HasWaiter(s)
  BY <1>1, WakeInTurn DEF Notify
<1>2. CASE ~HasWaiter(s)
  BY <1>2, StayedInTurn DEF Notify
<1>3. QED
  BY <1>1, <1>2

\* The last mutex_unlock.
LEMMA UnlockInTurn ==
    ASSUME Inv, NEW t \in Tasks, NEW m \in Mutexes, Unlock(t, m)
    PROVE  InTurn(queue, queue', running)
<1>1. CASE owner[m] # t
  BY <1>1, StayedInTurn DEF Unlock
<1>2. CASE owner[m] = t /\ (locker[m] > 1 \/ ~HasWaiter(m))
  BY <1>2, StayedInTurn DEF Unlock
<1>3. CASE owner[m] = t /\ ~(locker[m] > 1 \/ ~HasWaiter(m))
  BY <1>3, WakeInTurn DEF Unlock
<1>4. QED
  BY <1>1, <1>2, <1>3

\* A task that finds the semaphore or the mutex taken goes to its waiters.
LEMMA StopInTurn ==
    ASSUME Inv, NEW t \in Tasks, InUser(t), NEW l \in Sems \cup Mutexes,
           Reschedule(MayBlock(queue, t), InsertBack(SetBlock(queue, t), l, t))
    PROVE  InTurn(queue, queue', running)
<1>1. /\ queue \in Queues /\ Sound(queue)
      /\ queue["ready"] # <<>> /\ Head(queue["ready"]) = t
      /\ OnList(queue, "ready", t) /\ t # Idle
  BY UserIsReady, ListNames, TasksAssumption
<1>2. "ready" \in Lists /\ l \in Lists \ {"ready"}
  BY ListNames
<1>3. InTurn(queue, Move(queue, "ready", l, t), running)
  BY <1>1, <1>2, MovedInTurn
<1>4. queue' = Move(queue, "ready", l, t)
  BY <1>1 DEF Reschedule, MayBlock, SetBlock, Move
<1>5. QED
  BY <1>3, <1>4

\* The calls that begin by taking the caller off the ready list.
LEMMA BlockInTurn ==
    ASSUME Inv, NEW t \in Tasks, InUser(t), queue' = SetBlock(queue, t)
    PROVE  InTurn(queue, queue', running)
<1>1. /\ queue \in Queues /\ Sound(queue) /\ "ready" \in Lists /\ t # Idle
      /\ queue["ready"] # <<>> /\ Head(queue["ready"]) = t
  BY UserIsReady, ListNames, TasksAssumption
<1>2. InTurn(queue, Remove1(queue, "ready", t), running)
  BY <1>1, RemovedInTurn
<1>3. QED
  BY <1>1, <1>2 DEF SetBlock

\* The timer wakes a sleeper to the end of the ready list and sends the running
\* task there: nobody else falls behind.
LEMMA TimerInTurn == ASSUME Inv, Timer PROVE InTurn(queue, queue', running)
<1> DEFINE a == AfterWalk
<1>1. /\ queue \in Queues /\ Sound(queue)
      /\ "ready" \in Lists /\ "sleep" \in Lists /\ "ready" # "sleep"
  BY ListNames DEF Inv, TypeOK, Queues, QueuesSound
<1>2. a \in Queues /\ Sound(a)
  BY AfterWalkFacts
<1>3. \A l \in Lists \ {"sleep"}, u, v \in Tasks :
          Before(queue[l], u, v) => Before(a[l], u, v)
  <2>1. CASE Woken = {}
    BY <2>1 DEF AfterWalk
  <2>2. CASE Woken # {}
    <3> DEFINE w == CHOOSE t \in Woken : TRUE
               p == Remove1(queue, "sleep", w)
    <3>1. w \in Woken
      BY <2>2
    <3>2. a = SetReady(p, w)
      BY <2>2 DEF AfterWalk
    <3> HIDE DEF w, a
    <3>3. w \in Tasks /\ w # Idle /\ OnList(queue, "sleep", w)
      BY <3>1, WalkFacts, <1>1, TasksAssumption DEF Woken, Members, OnList, Queues
    <3>4. /\ p \in Queues
          /\ \A l \in Lists \ {"sleep"} : p[l] = queue[l]
      BY <1>1, <3>3, RemoveFacts
    <3> HIDE DEF p
    <3>5. a = InsertBack(p, "ready", w)
      BY <3>2, <3>3 DEF SetReady
    <3>6. ASSUME NEW l \in Lists \ {"sleep"}, NEW u \in Tasks, NEW v \in Tasks,
                 Before(queue[l], u, v)
          PROVE  Before(a[l], u, v)
      BY <1>1, <3>3, <3>4, <3>5, <3>6, InsertKeepsOrder
    <3>7. QED
      BY <3>6
  <2>3. QED
    BY <2>1, <2>2
<1> HIDE DEF a
<1>4. ASSUME running \in Tasks, OnList(a, "ready", running)
      PROVE  InTurn(queue, Move(a, "ready", "ready", running), running)
  <2> DEFINE p == Remove1(a, "ready", running)
             r == InsertBack(p, "ready", running)
  <2>1. /\ p \in Queues
        /\ \A u \in Tasks \ {running}, c \in Lists : OnList(p, c, u) <=> OnList(a, c, u)
    BY <1>1, <1>2, <1>4, RemoveFacts
  <2>2. ASSUME NEW l \in Lists \ {"sleep"}, NEW u \in Tasks, NEW v \in Tasks,
               Before(queue[l], u, v), u # running
        PROVE  Before(r[l], u, v)
    <3>1. Before(a[l], u, v)
      BY <1>3, <2>2
    <3>2. CASE v # running
      <4>1. Before(p[l], u, v)
        BY <1>1, <1>2, <1>4, <2>2, <3>1, <3>2, RemoveKeepsOrder
      <4> HIDE DEF p
      <4>2. QED
        BY <1>1, <1>4, <2>1, <4>1, InsertKeepsOrder
    <3>3. CASE v = running
      <4>1. l = "ready"
        BY <1>1, <1>2, <1>4, <3>1, <3>3, BeforeIsOn, ListFacts
      <4>2. OnList(p, "ready", u)
        BY <1>1, <2>1, <2>2, <3>1, <4>1, BeforeIsOn
      <4> HIDE DEF p
      <4>3. QED
        BY <1>1, <1>4, <2>1, <3>3, <4>1, <4>2, InsertKeepsOrder
    <3>4. QED
      BY <3>2, <3>3
  <2> HIDE DEF r
  <2>3. InTurn(queue, r, running)
    BY <2>2 DEF InTurn
  <2>4. QED
    BY <2>3 DEF r, p, Move
<1>5. InTurn(queue, a, running)
  BY <1>3 DEF InTurn
<1>6. queue' \in {queue, a, Rotate(a, running)}
      /\ (queue' = Rotate(a, running) =>
             queue' = a \/ queue' = queue \/ MayBlock(a, running))
  BY DEF Timer, Reschedule, a
<1>7. CASE queue' = queue \/ queue' = a
  BY <1>5, <1>7, StayedInTurn
<1>8. CASE queue' = Rotate(a, running) /\ MayBlock(a, running)
  <2>1. CASE running = Idle
    BY <1>5, <1>8, <2>1 DEF Rotate, SetReady, SetBlock
  <2>2. CASE running # Idle
    <3>1. running \in Tasks /\ OnList(a, "ready", running)
      BY <1>8, <2>2 DEF MayBlock, Inv, TypeOK
    <3>2. QED
      BY <1>4, <1>8, <2>2, <3>1 DEF Rotate, SetReady, SetBlock, Move
  <2>3. QED
    BY <2>1, <2>2
<1>9. QED
  BY <1>6, <1>7, <1>8

\* The later steps of the calls append to a list or leave the lists alone.
LEMMA ContinueInTurn ==
    ASSUME Inv, NEW t \in Tasks, Continue(t)
    PROVE  InTurn(queue, queue', running)
<1>1. /\ queue \in Queues /\ child[t] \in Tasks
      /\ "ready" \in Lists /\ "sleep" \in Lists
  BY ListNames DEF Inv, TypeOK, Queues
<1>2. \/ queue' = queue
      \/ \E k \in Lists, u \in Tasks : queue' = InsertBack(queue, k, u)
  BY <1>1, TasksAssumption
     DEF Continue, YieldReady, SetSleep, Leave, ForkInit, ForkFail, ForkFill,
         Destroy, Reschedule, SetReady, Enqueued
<1>3. QED
  BY <1>1, <1>2, AppendedInTurn, StayedInTurn

LEMMA NextInTurn == Inv /\ [Next]_vars => InTurn(queue, queue', running)
<1> SUFFICES ASSUME Inv, [Next]_vars PROVE InTurn(queue, queue', running)
  OBVIOUS
<1>1. ASSUME NEW t \in Tasks, Call(t) PROVE InTurn(queue, queue', running)
  <2>1. ASSUME NEW s \in Sems, SemWait(t, s) PROVE InTurn(queue, queue', running)
    <3>1. CASE Available(s)
      BY <2>1, <3>1, StayedInTurn DEF SemWait
    <3>2. CASE ~Available(s)
      BY <2>1, <3>2, StopInTurn DEF SemWait
    <3>3. QED
      BY <3>1, <3>2
  <2>2. ASSUME NEW s \in Sems, SemNotify(t, s) PROVE InTurn(queue, queue', running)
    BY <2>2, NotifyInTurn DEF SemNotify
  <2>3. ASSUME NEW m \in Mutexes, MutexLock(t, m) PROVE InTurn(queue, queue', running)
    <3>1. CASE MayEnter(t, m)
      BY <2>3, <3>1, StayedInTurn DEF MutexLock
    <3>2. CASE ~MayEnter(t, m)
      BY <2>3, <3>2, StopInTurn DEF MutexLock
    <3>3. QED
      BY <3>1, <3>2
  <2>4. ASSUME NEW m \in Mutexes, MutexUnlock(t, m) PROVE InTurn(queue, queue', running)
    BY <2>4, UnlockInTurn DEF MutexUnlock
  <2>5. CASE Yield(t) \/ Sleep(t) \/ Exit(t)
    BY <2>5, BlockInTurn DEF Yield, Sleep, Exit
  <2>6. ASSUME NEW c \in Tasks, Fork(t, c) PROVE InTurn(queue, queue', running)
    BY <2>6, UnlockInTurn, ListsAssumption DEF Fork
  <2>7. QED
    BY <1>1, <2>1, <2>2, <2>3, <2>4, <2>5, <2>6 DEF Call
<1>2. ASSUME NEW t \in Tasks, Continue(t) PROVE InTurn(queue, queue', running)
  BY <1>2, ContinueInTurn
<1>3. ASSUME NEW s \in IrqSems, Irq(s) PROVE InTurn(queue, queue', running)
  BY <1>3, NotifyInTurn, ListsAssumption DEF Irq
<1>4. CASE Timer
  BY <1>4, TimerInTurn
<1>5. CASE UNCHANGED vars
  BY <1>5, StayedInTurn DEF vars
<1>6. QED
  BY <1>1, <1>2, <1>3, <1>4, <1>5 DEF Next

\* No task that is ready or waits is passed by one that came after it: only the
\* running task can fall behind (list_insert_back and the removals of tss.c,
\* sem.c and mutex.c).
THEOREM ServedInTurn == Spec => FirstComeFirstServed
<1>1. Inv /\ [Next]_vars =>
          [\A l \in Lists \ {"sleep"}, t, u \in Tasks :
              /\ Before(queue[l], t, u)
              /\ t # running
              /\ OnList(queue', l, t)
              => Before(queue'[l], t, u)]_vars
  BY NextInTurn DEF InTurn
<1>2. QED
  BY <1>1, InvHolds, PTL DEF Spec, FirstComeFirstServed

------------------------------------------------------------------------------
(* With the unprotected sections undisturbed, and nobody asking for a sleep *)
(* of no ticks, no list edit goes wrong and no task is lost.                *)

Quiet == Undisturbed = TRUE /\ 0 \notin SleepArgs

\* Steps taken by or on behalf of a task in its own code, or while idling, that
\* leave every task where it is in its calls.
LEMMA OutsideEditsKeeps ==
    ASSUME Inv, QuietInv, InUser(running) \/ running = Idle,
           broken' = FALSE, NobodyDrops, UNCHANGED <<pc, child>>
    PROVE  QuietInv'
<1>1. pc \in [Tasks -> PCs] /\ running \in Tasks \cup {Idle}
  BY DEF Inv, TypeOK
<1>2. \A t \in Tasks : pc[t] \in {"free", "raw", "user"}
  BY <1>1, TasksAssumption DEF QuietInv, OneEditor, InUser
<1>3. \A t \in Tasks : pc[t] # "raw"
  BY <1>2 DEF QuietInv, ForkOwnsSlot
<1>4. OneEditor' /\ ForkOwnsSlot' /\ ExitWillNotBlock'
  BY <1>2, <1>3 DEF OneEditor, ForkOwnsSlot, ExitWillNotBlock
<1>5. Listed'
  BY DEF Listed, NobodyDrops, QuietInv
<1>6. QED
  BY <1>4, <1>5 DEF QuietInv, ListContract

\* Between its two edits a task is alone: no interrupt, no other task.
LEMMA EditorIsAlone ==
    ASSUME Inv, QuietInv, NEW t \in Tasks, running = t,
           pc[t] \in PCs \ {"free", "raw"}
    PROVE  /\ \A u \in Tasks \ {t} : pc[u] \in {"free", "raw", "user"}
           /\ \A u \in Tasks : pc[u] = "raw" => pc[t] = "forked" /\ child[t] = u
<1>1. pc \in [Tasks -> PCs]
  BY DEF Inv, TypeOK
<1>2. \A u \in Tasks \ {t} : pc[u] \in {"free", "raw", "user"}
  BY <1>1 DEF QuietInv, OneEditor
<1>3. QED
  BY <1>2 DEF QuietInv, ForkOwnsSlot

LEMMA FirstEditKeepsQuiet ==
    ASSUME Inv, QuietInv, NEW t \in Tasks, InUser(t),
           NEW to \in {"yield", "sleep", "exit"},
           queue' = SetBlock(queue, t), GoTo(t, to),
           UNCHANGED <<running, locks, child, broken>>,
           to = "exit" => \A m \in ReclaimMutexes : locker[m] = 0
    PROVE  QuietInv'
<1>1. /\ pc \in [Tasks -> PCs] /\ pc' = [pc EXCEPT ![t] = to]
      /\ running' = t /\ pc[t] = "user" /\ locker' = locker /\ t # Idle
  BY TasksAssumption DEF Inv, TypeOK, GoTo, InUser, locks
<1>2. /\ \A u \in Tasks \ {t} : pc[u] \in {"free", "user"}
  BY <1>1, EditorIsAlone DEF InUser, PCs
<1>3. /\ queue \in Queues /\ Sound(queue) /\ OnList(queue, "ready", t)
      /\ "ready" \in Lists
  BY UserIsReady, ListNames
<1>4. \A u \in Tasks \ {t}, a \in Lists : OnList(queue', a, u) <=> OnList(queue, a, u)
  BY <1>1, <1>3, RemoveFacts DEF SetBlock
<1>5. ListContract'
  BY DEF QuietInv, ListContract
<1>6. OneEditor' /\ ForkOwnsSlot' /\ ExitWillNotBlock'
  BY <1>1, <1>2 DEF OneEditor, ForkOwnsSlot, ExitWillNotBlock
<1>7. Listed'
  BY <1>1, <1>4 DEF Listed, QuietInv, OnNoList
<1>8. QED
  BY <1>5, <1>6, <1>7 DEF QuietInv

LEMMA SecondEditKeepsQuiet ==
    ASSUME Inv, QuietInv, NEW t \in Tasks, NEW l \in {"ready", "sleep"},
           running = t, pc[t] \in {"yield", "sleep"},
           NEW to \in {"yielded", "slept"}, GoTo(t, to),
           queue' = InsertBack(queue, l, t),
           UNCHANGED <<running, locks, child, broken>>
    PROVE  QuietInv'
<1>1. /\ pc \in [Tasks -> PCs] /\ pc' = [pc EXCEPT ![t] = to]
      /\ running' = t /\ OnNoList(queue, t)
  BY DEF Inv, TypeOK, GoTo, OffList
<1>2. \A u \in Tasks \ {t} : pc[u] \in {"free", "user"}
  BY <1>1, EditorIsAlone DEF PCs
<1>3. queue \in Queues /\ Sound(queue) /\ l \in Lists
  BY ListNames DEF Inv, TypeOK, Queues, QueuesSound
<1>4. /\ \A u \in Tasks \ {t}, a \in Lists : OnList(queue', a, u) <=> OnList(queue, a, u)
      /\ OnList(queue', l, t)
  BY <1>1, <1>3, InsertFacts
<1>5. ListContract'
  BY DEF QuietInv, ListContract
<1>6. OneEditor' /\ ForkOwnsSlot' /\ ExitWillNotBlock'
  BY <1>1, <1>2 DEF OneEditor, ForkOwnsSlot, ExitWillNotBlock
<1>7. Listed'
  BY <1>1, <1>3, <1>4 DEF Listed, QuietInv, OnNoList
<1>8. QED
  BY <1>5, <1>6, <1>7 DEF QuietInv

LEMMA ForkKeepsQuiet ==
    ASSUME Inv, QuietInv, NEW t \in Tasks, NEW c \in Tasks, Fork(t, c)
    PROVE  QuietInv'
<1>1. /\ pc \in [Tasks -> PCs] /\ pc' = [pc EXCEPT ![t] = "fork"]
      /\ child \in [Tasks -> Tasks] /\ child' = [child EXCEPT ![t] = c]
      /\ running = t /\ pc[t] = "user" /\ pc[c] = "free"
  BY DEF Inv, TypeOK, Fork, GoTo, InUser
<1>2. broken' = FALSE /\ NobodyDrops /\ running' = t
  BY ForkKeepsInv
<1>3. \A u \in Tasks \ {t} : pc[u] \in {"free", "user"}
  BY <1>1, EditorIsAlone DEF PCs
<1>4. OneEditor' /\ ForkOwnsSlot' /\ ExitWillNotBlock'
  BY <1>1, <1>2, <1>3 DEF OneEditor, ForkOwnsSlot, ExitWillNotBlock
<1>5. Listed'
  BY <1>1, <1>2 DEF Listed, NobodyDrops, QuietInv
<1>6. QED
  BY <1>2, <1>4, <1>5 DEF QuietInv, ListContract

LEMMA ForkInitKeepsQuiet ==
    ASSUME Inv, QuietInv, NEW t \in Tasks, ForkInit(t)
    PROVE  QuietInv'
<1> DEFINE c == child[t]
<1>1. /\ queue \in Queues /\ Sound(queue) /\ pc \in [Tasks -> PCs]
      /\ child \in [Tasks -> Tasks] /\ c \in Tasks /\ c # Idle
      /\ running = t /\ pc[t] = "fork" /\ pc[c] = "free"
      /\ UNCHANGED <<running, locks, child>>
  BY TasksAssumption DEF Inv, TypeOK, Queues, QueuesSound, ForkInit, QuietInv, ForkOwnsSlot
<1> HIDE DEF c
<1>2. /\ broken' = FALSE /\ queue' = InsertBack(queue, "ready", c)
      /\ pc' = [pc EXCEPT ![t] = "forked", ![c] = "raw"]
  BY <1>1 DEF ForkInit, SetReady, c
<1>3. \A u \in Tasks \ {t} : pc[u] \in {"free", "user"}
  BY <1>1, EditorIsAlone DEF PCs
<1>4. OneEditor' /\ ForkOwnsSlot' /\ ExitWillNotBlock'
  BY <1>1, <1>2, <1>3 DEF OneEditor, ForkOwnsSlot, ExitWillNotBlock, c
<1>5. OnNoList(queue, c)
  BY <1>1 DEF Inv, OffList
<1>6. /\ \A u \in Tasks \ {c}, a \in Lists : OnList(queue', a, u) <=> OnList(queue, a, u)
      /\ OnList(queue', "ready", c)
  BY <1>1, <1>2, <1>5, InsertFacts, ListNames
<1>7. Listed'
  BY <1>1, <1>2, <1>6, ListNames DEF Listed, QuietInv, OnNoList
<1>8. QED
  BY <1>2, <1>4, <1>7 DEF QuietInv, ListContract

\* The steps that end a call edit no list.
LEMMA CallEndKeepsQuiet ==
    ASSUME Inv, QuietInv, NEW t \in Tasks, running = t,
           pc[t] \in {"fork", "forked", "yielded", "slept", "exit"},
           queue' = queue, broken' = FALSE,
           NEW to \in {"user", "free"}, to = "free" <=> pc[t] = "exit",
           \/ pc[t] # "forked" /\ pc' = [pc EXCEPT ![t] = to]
           \/ pc[t] = "forked" /\ pc' = [pc EXCEPT ![t] = to, ![child[t]] = "user"]
    PROVE  QuietInv'
<1>1. pc \in [Tasks -> PCs] /\ child \in [Tasks -> Tasks]
  BY DEF Inv, TypeOK
<1>2. /\ \A u \in Tasks \ {t} : pc[u] \in {"free", "raw", "user"}
      /\ \A u \in Tasks : pc[u] = "raw" => pc[t] = "forked" /\ child[t] = u
  BY <1>1, EditorIsAlone DEF PCs
<1>3. \A u \in Tasks : pc'[u] \in {"free", "user"}
  BY <1>1, <1>2
<1>4. OneEditor' /\ ForkOwnsSlot' /\ ExitWillNotBlock'
  BY <1>3 DEF OneEditor, ForkOwnsSlot, ExitWillNotBlock
<1>5. Listed'
  <2>1. pc[t] = "forked" => pc[child[t]] = "raw"
    BY DEF Inv, ForksApart
  <2>2. QED
    BY <1>1, <2>1 DEF Listed, QuietInv
<1>6. QED
  BY <1>4, <1>5 DEF QuietInv, ListContract

LEMMA NextKeepsQuiet ==
    ASSUME Quiet, Inv, QuietInv, [Next]_vars PROVE QuietInv'
<1>1. /\ broken = FALSE /\ running \in Tasks \cup {Idle}
      /\ Undisturbed = TRUE /\ 0 \notin SleepArgs
  BY DEF QuietInv, ListContract, Inv, TypeOK, Quiet
<1>2. ASSUME NEW t \in Tasks, Call(t) PROVE QuietInv'
  <2>1. ASSUME NEW s \in Sems, SemWait(t, s) PROVE QuietInv'
    BY <2>1, SemWaitKeepsInv, OutsideEditsKeeps DEF SemWait, InUser
  <2>2. ASSUME NEW s \in Sems, SemNotify(t, s) PROVE QuietInv'
    BY <2>2, NotifyKeepsInv, OutsideEditsKeeps DEF SemNotify, Notify, InUser
  <2>3. ASSUME NEW m \in Mutexes, MutexLock(t, m) PROVE QuietInv'
    BY <2>3, MutexLockKeepsInv, OutsideEditsKeeps DEF MutexLock, InUser
  <2>4. ASSUME NEW m \in Mutexes, MutexUnlock(t, m) PROVE QuietInv'
    BY <2>4, MutexUnlockKeepsInv, OutsideEditsKeeps DEF MutexUnlock, InUser
  <2>5. CASE Yield(t)
    BY <2>5, FirstEditKeepsQuiet DEF Yield
  <2>6. CASE Sleep(t)
    BY <2>6, FirstEditKeepsQuiet DEF Sleep
  <2>7. ASSUME NEW c \in Tasks, Fork(t, c) PROVE QuietInv'
    BY <2>7, ForkKeepsQuiet
  <2>8. CASE Exit(t)
    BY <2>8, <1>1, FirstEditKeepsQuiet DEF Exit
  <2>9. QED
    BY <1>2, <2>1, <2>2, <2>3, <2>4, <2>5, <2>6, <2>7, <2>8 DEF Call
<1>3. ASSUME NEW t \in Tasks, Continue(t) PROVE QuietInv'
  <2>1. CASE YieldReady(t)
    <3>1. queue' = InsertBack(queue, "ready", t)
      BY <2>1, TasksAssumption DEF YieldReady, SetReady
    <3>2. QED
      BY <2>1, <3>1, SecondEditKeepsQuiet DEF YieldReady
  <2>2. ASSUME NEW n \in SleepArgs, SetSleep(t, n) PROVE QuietInv'
    <3>1. queue' = InsertBack(queue, "sleep", t)
      BY <2>2, <1>1 DEF SetSleep, Enqueued
    <3>2. QED
      BY <2>2, <3>1, SecondEditKeepsQuiet DEF SetSleep
  <2>3. CASE Leave(t)
    BY <2>3, CallEndKeepsQuiet DEF Leave, Reschedule, GoTo
  <2>4. CASE ForkInit(t)
    BY <2>4, ForkInitKeepsQuiet
  <2>5. CASE ForkFail(t)
    <3>1. broken' = FALSE
      BY <2>5 DEF ForkFail, QuietInv, ForkOwnsSlot
    <3>2. QED
      BY <2>5, <3>1, CallEndKeepsQuiet DEF ForkFail, GoTo
  <2>6. CASE ForkFill(t)
    BY <2>6, <1>1, CallEndKeepsQuiet DEF ForkFill
  <2>7. CASE Destroy(t)
    <3>1. \A m \in ReclaimMutexes : locker[m] = 0
      BY <2>7 DEF Destroy, QuietInv, ExitWillNotBlock
    <3>2. QED
      BY <2>7, <3>1, CallEndKeepsQuiet DEF Destroy, Reschedule, GoTo
  <2>8. QED
    BY <1>3, <2>1, <2>2, <2>3, <2>4, <2>5, <2>6, <2>7 DEF Continue
<1>4. InterruptsOn => InUser(running) \/ running = Idle
  BY <1>1 DEF InterruptsOn, InUser
<1>5. ASSUME NEW s \in IrqSems, Irq(s) PROVE QuietInv'
  BY <1>4, <1>5, NotifyKeepsInv, OutsideEditsKeeps, ListsAssumption DEF Irq, Notify
<1>6. CASE Timer
  BY <1>4, <1>6, TimerKeepsInv, OutsideEditsKeeps DEF Timer
<1>7. CASE UNCHANGED vars
  BY <1>7 DEF vars, QuietInv, ListContract, OneEditor, ForkOwnsSlot, ExitWillNotBlock, Listed
<1>8. QED
  BY <1>2, <1>3, <1>5, <1>6, <1>7 DEF Next

LEMMA InitQuiet == Init => QuietInv
<1> SUFFICES ASSUME Init PROVE QuietInv
  OBVIOUS
<1>1. /\ ListContract /\ OneEditor /\ ForkOwnsSlot /\ ExitWillNotBlock
  BY DEF Init, ListContract, OneEditor, ForkOwnsSlot, ExitWillNotBlock, PCs
<1>2. OnList(queue, "ready", InitTask)
  <2>1. queue["ready"] = <<InitTask>>
    BY ListNames DEF Init
  <2>2. QED
    BY <2>1 DEF OnList, Members
<1>3. Listed
  BY <1>2, ListNames DEF Init, Listed, OnNoList
<1>4. QED
  BY <1>1, <1>3 DEF QuietInv

LEMMA QuietInvHolds == ASSUME Quiet PROVE Spec => []QuietInv
<1>1. Inv /\ QuietInv /\ [Next]_vars => QuietInv'
  BY NextKeepsQuiet
<1>2. QED
  BY <1>1, InvHolds, InitQuiet, PTL DEF Spec

\* Where nothing disturbs the unprotected sections, every list edit meets the
\* node where it has to be (tss.c:153, 145, 453).
THEOREM ListEditsMeetTheirNodes == ASSUME Quiet PROVE Spec => []ListContract
<1>1. QuietInv => ListContract
  BY DEF QuietInv
<1>2. QED
  BY <1>1, QuietInvHolds, PTL

\* There, no live task drops out of the kernel's lists.
THEOREM NoTaskIsLost == ASSUME Quiet PROVE Spec => []NoTaskLost
<1>1. Inv /\ QuietInv => NoTaskLost
  BY DEF Inv, TypeOK, PCs, QuietInv, Listed, OneEditor, NoTaskLost, OnNoList
<1>2. QED
  BY <1>1, InvHolds, QuietInvHolds, PTL

------------------------------------------------------------------------------
(* The semaphores and mutexes, as the scheduler makes them, keep the        *)
(* promises of Sync.                                                        *)

Waiters == [l \in Sems \cup Mutexes |-> Members(queue, l)]

LEMMA WaitersFacts ==
    ASSUME Inv
    PROVE  /\ \A l \in Sems \cup Mutexes, u \in Tasks :
                  u \in Waiters[l] <=> OnList(queue, l, u)
           /\ \A l \in Sems \cup Mutexes : Waiters[l] \subseteq Tasks
           /\ \A l \in Sems \cup Mutexes : Waiters[l] = {} <=> queue[l] = <<>>
<1>1. queue \in Queues /\ Sems \cup Mutexes \subseteq Lists
  BY ListNames DEF Inv, TypeOK, Queues
<1>2. \A l \in Lists : Members(queue, l) \subseteq Tasks
  BY <1>1 DEF Members, Queues
<1>3. \A l \in Lists : Members(queue, l) = {} <=> queue[l] = <<>>
  <2> TAKE l \in Lists
  <2>1. queue[l] = <<>> <=> \A t \in Tasks : ~OnList(queue, l, t)
    BY <1>1, ListFacts
  <2>2. QED
    BY <2>1, <1>2 DEF OnList
<1>4. QED
  BY <1>1, <1>2, <1>3 DEF Waiters, OnList

\* How the wait sets change when one task comes to wait or is let through.
LEMMA WaitersStep ==
    ASSUME Inv, Inv', NEW l \in Sems \cup Mutexes, NEW t \in Tasks,
           \A u \in Tasks \ {t}, a \in Lists : OnList(queue', a, u) <=> OnList(queue, a, u)
    PROVE  /\ (\A a \in Lists : OnList(queue', a, t) <=> a = l)
                  /\ (\A a \in Lists : OnList(queue, a, t) <=> a = "ready")
              => Waiters' = [Waiters EXCEPT ![l] = @ \cup {t}]
           /\ (\A a \in Lists : OnList(queue', a, t) <=> a = "ready")
                  /\ (\A a \in Lists : OnList(queue, a, t) <=> a = l)
              => Waiters' = [Waiters EXCEPT ![l] = @ \ {t}]
<1>1. /\ queue \in Queues /\ queue' \in Queues /\ Sems \cup Mutexes \subseteq Lists
      /\ "ready" \notin Sems \cup Mutexes /\ "ready" \in Lists
  BY ListNames DEF Inv, TypeOK, Queues
<1>2. \A a \in Lists : Members(queue, a) \subseteq Tasks /\ Members(queue', a) \subseteq Tasks
  BY <1>1 DEF Members, Queues
<1>3. Waiters' = [a \in Sems \cup Mutexes |-> Members(queue', a)]
  BY DEF Waiters
<1>4. ASSUME \A a \in Lists : OnList(queue', a, t) <=> a = l,
             \A a \in Lists : OnList(queue, a, t) <=> a = "ready"
      PROVE  Waiters' = [Waiters EXCEPT ![l] = @ \cup {t}]
  <2>1. \A a \in Sems \cup Mutexes :
            Members(queue', a) = IF a = l THEN Members(queue, a) \cup {t}
                                 ELSE Members(queue, a)
    BY <1>1, <1>2, <1>4 DEF OnList
  <2>2. QED
    BY <1>3, <2>1 DEF Waiters
<1>5. ASSUME \A a \in Lists : OnList(queue', a, t) <=> a = "ready",
             \A a \in Lists : OnList(queue, a, t) <=> a = l
      PROVE  Waiters' = [Waiters EXCEPT ![l] = @ \ {t}]
  <2>1. \A a \in Sems \cup Mutexes :
            Members(queue', a) = IF a = l THEN Members(queue, a) \ {t}
                                 ELSE Members(queue, a)
    <3> TAKE a \in Sems \cup Mutexes
    <3>1. a \in Lists /\ a # "ready"
      BY <1>1
    <3>2. \A u \in Tasks \ {t} : u \in Members(queue', a) <=> u \in Members(queue, a)
      BY <3>1 DEF OnList
    <3>3. t \notin Members(queue', a) /\ (t \in Members(queue, a) <=> a = l)
      BY <3>1, <1>5 DEF OnList
    <3>4. QED
      BY <3>1, <3>2, <3>3, <1>2
  <2>2. QED
    BY <1>3, <2>1 DEF Waiters
<1>6. QED
  BY <1>4, <1>5

SyncStep == Abs!Next \/ UNCHANGED <<counter, owner, locker, Waiters>>

\* Steps that touch the ready list and the sleep list only.
LEMMA OtherListsKept ==
    ASSUME UNCHANGED <<counter, owner, locker>>,
           \A l \in Sems \cup Mutexes : queue'[l] = queue[l]
    PROVE  SyncStep
  BY DEF SyncStep, Waiters, Members

LEMMA SemWaitIsSync ==
    ASSUME Inv, Inv', NEW t \in Tasks, NEW s \in Sems, SemWait(t, s)
    PROVE  SyncStep
<1>1. /\ queue \in Queues /\ Sound(queue)
      /\ \A l \in Lists : OnList(queue, l, t) <=> l = "ready"
  BY UserIsReady DEF SemWait
<1>2. Abs!Free(t)
  BY <1>1, ListNames, WaitersFacts DEF Abs!Free, Waiters, OnList
<1>3. CASE Available(s)
  <2>1. Abs!TakePermit(t, s)
    BY <1>2, <1>3 DEF SemWait, Available, Abs!TakePermit
  <2>2. QED
    BY <2>1 DEF SyncStep, Abs!Next
<1>4. CASE ~Available(s)
  <2>1. counter[s] = 0
    BY <1>4 DEF Available, Inv, TypeOK
  <2>2. /\ queue' = Move(queue, "ready", s, t)
        /\ UNCHANGED <<counter, owner, locker>>
    BY <1>1, <1>4, ListNames, TasksAssumption
       DEF SemWait, Reschedule, MayBlock, SetBlock, Move
  <2>3. Waiters' = [Waiters EXCEPT ![s] = @ \cup {t}]
    BY <2>2, <1>1, MoveFacts, WaitersStep, ListNames
  <2>4. Abs!AwaitPermit(t, s)
    BY <1>2, <2>1, <2>2, <2>3 DEF Abs!AwaitPermit, Abs!Stop, Waiters
  <2>5. QED
    BY <2>4 DEF SyncStep, Abs!Next
<1>5. QED
  BY <1>3, <1>4

LEMMA NotifyIsSync ==
    ASSUME Inv, Inv', NEW s \in Sems, Notify(s)
    PROVE  SyncStep
<1>1. queue \in Queues /\ Sound(queue) /\ s \in Lists
  BY ListNames DEF Inv, TypeOK, Queues, QueuesSound
<1>2. CASE ~HasWaiter(s)
  <2>1. Waiters[s] = {}
    BY <1>2, WaitersFacts DEF HasWaiter
  <2>2. Abs!AddPermit(s)
    BY <1>2, <2>1 DEF Notify, Abs!AddPermit, Waiters
  <2>3. QED
    BY <2>2 DEF SyncStep, Abs!Next
<1>3. CASE HasWaiter(s)
  <2> DEFINE w == NextWaiter(s)
  <2>1. w \in Tasks /\ OnList(queue, s, w) /\ w # Idle
    BY <1>1, <1>3, ListFacts, TasksAssumption DEF HasWaiter, NextWaiter
  <2> HIDE DEF w
  <2>2. OnNoList(Remove1(queue, s, w), w)
    BY <1>1, <2>1, RemoveFacts
  <2>3. /\ queue' = Move(queue, s, "ready", w)
        /\ UNCHANGED <<counter, owner, locker>>
    BY <1>3, <2>1, <2>2 DEF Notify, Reschedule, SetReady, Move, w
  <2>4. \A a \in Lists : OnList(queue, a, w) <=> a = s
    BY <1>1, <2>1, ListFacts
  <2>5. Waiters' = [Waiters EXCEPT ![s] = @ \ {w}] /\ w \in Waiters[s]
    BY <2>1, <2>3, <2>4, <1>1, MoveFacts, WaitersStep, WaitersFacts, ListNames
  <2>6. Abs!PassPermit(s)
    BY <2>3, <2>5 DEF Abs!PassPermit, Abs!LetThrough, Waiters
  <2>7. QED
    BY <2>6 DEF SyncStep, Abs!Next
<1>4. QED
  BY <1>2, <1>3

LEMMA MutexLockIsSync ==
    ASSUME Inv, Inv', NEW t \in Tasks, NEW m \in Mutexes, MutexLock(t, m)
    PROVE  SyncStep
<1>1. /\ queue \in Queues /\ Sound(queue) /\ t # None
      /\ \A l \in Lists : OnList(queue, l, t) <=> l = "ready"
  BY UserIsReady, TasksAssumption DEF MutexLock
<1>2. Abs!Free(t)
  BY <1>1, ListNames, WaitersFacts DEF Abs!Free, Waiters, OnList
<1>3. CASE MayEnter(t, m)
  <2>1. owner[m] \in {None, t}
    BY <1>3 DEF MayEnter, Inv, NoMissedWakeup
  <2>2. Abs!Acquire(t, m)
    BY <1>2, <1>3, <2>1 DEF MutexLock, Abs!Acquire
  <2>3. QED
    BY <2>2 DEF SyncStep, Abs!Next
<1>4. CASE ~MayEnter(t, m)
  <2>1. owner[m] \notin {None, t}
    BY <1>4, TasksAssumption DEF MayEnter, Inv, TypeOK, LockedIsOwned
  <2>2. /\ queue' = Move(queue, "ready", m, t)
        /\ UNCHANGED <<counter, owner, locker>>
    BY <1>1, <1>4, ListNames, TasksAssumption
       DEF MutexLock, Reschedule, MayBlock, SetBlock, Move
  <2>3. Waiters' = [Waiters EXCEPT ![m] = @ \cup {t}]
    BY <2>2, <1>1, MoveFacts, WaitersStep, ListNames
  <2>4. Abs!AwaitMutex(t, m)
    BY <1>2, <2>1, <2>2, <2>3 DEF Abs!AwaitMutex, Abs!Stop, Waiters
  <2>5. QED
    BY <2>4 DEF SyncStep, Abs!Next
<1>5. QED
  BY <1>3, <1>4

LEMMA UnlockIsSync ==
    ASSUME Inv, Inv', NEW t \in Tasks, NEW m \in Mutexes, InUser(t),
           held[t][m] > 0, Unlock(t, m), counter' = counter
    PROVE  SyncStep
<1>1. /\ queue \in Queues /\ Sound(queue) /\ m \in Lists /\ t # None
      /\ \A l \in Lists : OnList(queue, l, t) <=> l = "ready"
  BY UserIsReady, ListNames, TasksAssumption
<1>2. Abs!Free(t)
  BY <1>1, ListNames, WaitersFacts DEF Abs!Free, Waiters, OnList
<1>3. owner[m] = t /\ locker[m] > 0 /\ locker[m] \in Nat
  <2>1. ~OnList(queue, m, t)
    BY <1>1, ListNames
  <2>2. locker[m] \in Nat /\ held[t][m] \in Nat
    BY DEF Inv, TypeOK
  <2>3. held[t][m] = IF owner[m] = t THEN locker[m]
                     ELSE IF OnList(queue, m, t) THEN 1 ELSE 0
    BY DEF Inv, MutualExclusion
  <2>4. QED
    BY <2>1, <2>2, <2>3
<1>4. CASE locker[m] > 1 \/ ~HasWaiter(m)
  <2>1. locker[m] > 1 \/ Waiters[m] = {}
    BY <1>4, WaitersFacts DEF HasWaiter
  <2>2. /\ locker' = [locker EXCEPT ![m] = @ - 1]
        /\ owner' = [owner EXCEPT ![m] = IF locker[m] > 1 THEN t ELSE None]
        /\ queue' = queue
    BY <1>3, <1>4 DEF Unlock
  <2>3. Abs!Release(t, m)
    BY <1>2, <1>3, <2>1, <2>2 DEF Abs!Release, Waiters
  <2>4. QED
    BY <2>3 DEF SyncStep, Abs!Next
<1>5. CASE ~(locker[m] > 1 \/ ~HasWaiter(m))
  <2> DEFINE w == NextWaiter(m)
  <2>1. w \in Tasks /\ OnList(queue, m, w) /\ w # Idle
    BY <1>1, <1>5, ListFacts, TasksAssumption DEF HasWaiter, NextWaiter
  <2> HIDE DEF w
  <2>2. OnNoList(Remove1(queue, m, w), w)
    BY <1>1, <2>1, RemoveFacts
  <2>3. /\ locker' = [locker EXCEPT ![m] = 1]
        /\ owner' = [owner EXCEPT ![m] = w]
        /\ Reschedule(OnNoList(Remove1(queue, m, w), w),
                      SetReady(Remove1(queue, m, w), w))
    BY <1>3, <1>5 DEF Unlock, w
  <2>4. queue' = Move(queue, m, "ready", w) /\ locker[m] = 1
    BY <2>1, <2>2, <2>3, <1>3, <1>5 DEF Reschedule, SetReady, Move
  <2>5. locker' = locker
    BY <2>3, <2>4 DEF Inv, TypeOK
  <2>6. \A a \in Lists : OnList(queue, a, w) <=> a = m
    BY <1>1, <2>1, ListFacts
  <2>7. Waiters' = [Waiters EXCEPT ![m] = @ \ {w}] /\ w \in Waiters[m]
    <3>1. /\ \A u \in Tasks \ {w}, a \in Lists : OnList(queue', a, u) <=> OnList(queue, a, u)
          /\ \A a \in Lists : OnList(queue', a, w) <=> a = "ready"
      BY <2>1, <2>4, <1>1, MoveFacts, ListNames
    <3>2. QED
      BY <3>1, <2>1, <2>6, WaitersStep, WaitersFacts
  <2>8. Abs!HandOver(t, m)
    BY <1>2, <1>3, <2>3, <2>4, <2>5, <2>7 DEF Abs!HandOver, Abs!LetThrough, Waiters
  <2>9. QED
    BY <2>8 DEF SyncStep, Abs!Next
<1>6. QED
  BY <1>4, <1>5

LEMMA NextIsSync == Inv /\ Inv' /\ [Next]_vars => SyncStep
<1> SUFFICES ASSUME Inv, Inv', [Next]_vars PROVE SyncStep
  OBVIOUS
<1>1. /\ queue \in [Lists -> Seq(Tasks)]
      /\ \A l \in Sems \cup Mutexes : l \in Lists /\ l # "ready" /\ l # "sleep"
  BY ListNames DEF Inv, TypeOK
<1>2. ASSUME NEW t \in Tasks, Call(t) PROVE SyncStep
  <2>1. ASSUME NEW s \in Sems, SemWait(t, s) PROVE SyncStep
    BY <2>1, SemWaitIsSync
  <2>2. ASSUME NEW s \in Sems, SemNotify(t, s) PROVE SyncStep
    BY <2>2, NotifyIsSync DEF SemNotify
  <2>3. ASSUME NEW m \in Mutexes, MutexLock(t, m) PROVE SyncStep
    BY <2>3, MutexLockIsSync
  <2>4. ASSUME NEW m \in Mutexes, MutexUnlock(t, m) PROVE SyncStep
    BY <2>4, UnlockIsSync DEF MutexUnlock
  <2>5. ASSUME queue' = SetBlock(queue, t), UNCHANGED locks PROVE SyncStep
    BY <2>5, <1>1, OtherListsKept DEF SetBlock, Remove1, locks
  <2>6. CASE Yield(t) \/ Sleep(t) \/ Exit(t)
    BY <2>5, <2>6 DEF Yield, Sleep, Exit
  <2>7. ASSUME NEW c \in Tasks, Fork(t, c) PROVE SyncStep
    BY <2>7, UnlockIsSync, ListsAssumption DEF Fork
  <2>8. QED
    BY <1>2, <2>1, <2>2, <2>3, <2>4, <2>6, <2>7 DEF Call
<1>3. ASSUME NEW t \in Tasks, Continue(t) PROVE SyncStep
  <2>1. UNCHANGED locks
    BY <1>3 DEF Continue, YieldReady, SetSleep, Leave, ForkInit, ForkFail, ForkFill, Destroy
  <2>2. \A l \in Sems \cup Mutexes : queue'[l] = queue[l]
    BY <1>1, <1>3 DEF Continue, YieldReady, SetSleep, Leave, ForkInit, ForkFail,
       ForkFill, Destroy, Reschedule, SetReady, InsertBack, Enqueued
  <2>3. QED
    BY <2>1, <2>2, OtherListsKept DEF locks
<1>4. ASSUME NEW s \in IrqSems, Irq(s) PROVE SyncStep
  BY <1>4, NotifyIsSync, ListsAssumption DEF Irq
<1>5. CASE Timer
  <2>1. \A l \in Sems \cup Mutexes : AfterWalk[l] = queue[l]
    BY <1>1, AfterWalkFacts
  <2>2. AfterWalk \in [Lists -> Seq(Tasks)]
    BY AfterWalkFacts DEF Queues
  <2>3. queue' \in {queue, AfterWalk, Rotate(AfterWalk, running)}
    BY <1>5 DEF Timer, Reschedule
  <2>4. \A l \in Sems \cup Mutexes : queue'[l] = queue[l]
    BY <1>1, <2>1, <2>2, <2>3 DEF Rotate, SetReady, SetBlock, InsertBack, Remove1
  <2>5. QED
    BY <1>5, <2>4, OtherListsKept DEF Timer, locks
<1>6. CASE UNCHANGED vars
  BY <1>6, OtherListsKept DEF vars
<1>7. QED
  BY <1>2, <1>3, <1>4, <1>5, <1>6 DEF Next

\* sem.c and mutex.c over the scheduler's lists implement Sync: nobody takes a
\* permit that is not there, nobody enters a mutex that is held, and whoever
\* stops is let through only by a notify or by the owner's last unlock.
THEOREM ImplementsSync == Spec => SyncRefined
<1>1. Init => Abs!Init
  <2> SUFFICES ASSUME Init PROVE Abs!Init
    OBVIOUS
  <2>1. \A l \in Sems \cup Mutexes : Members(queue, l) = {}
    BY ListNames DEF Init, Members
  <2>2. QED
    BY <2>1 DEF Init, Abs!Init
<1>2. Inv /\ Inv' /\ [Next]_vars => [Abs!Next]_(Abs!svars)
  BY NextIsSync DEF SyncStep, Abs!svars, Waiters
<1>3. QED
  BY <1>1, <1>2, InvHolds, PTL DEF Spec, SyncRefined, Abs!Spec
==============================================================================
