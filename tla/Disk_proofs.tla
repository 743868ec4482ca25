----------------------------- MODULE Disk_proofs -----------------------------
(***************************************************************************)
(* Proofs about Disk, for every set of tasks, whichever of them go past    *)
(* the driver, and every number of sectors.                                *)
(***************************************************************************)
EXTENDS Disk, SequenceTheorems, TLAPS

In(s) == {s[i] : i \in 1..Len(s)}
Once(s) == \A i, j \in 1..Len(s) : s[i] = s[j] => i = j

\* Whoever is in a call is the owner, and a queue holds, once each, the tasks
\* that stopped for it.
OwnerInCall == \A t \in Tasks : pc[t] \in InCall <=> owner = t
LockersWait ==
    /\ Once(lockers)
    /\ In(lockers) = {t \in Tasks : pc[t] \in {"rmutex", "wmutex"}}
    /\ owner = None => lockers = <<>>
WaitersWait ==
    /\ Once(waiters)
    /\ In(waiters) = {t \in Tasks : pc[t] \in {"rsem", "wsem"}}

\* One command at a time.
Commanding == UnderWay \cup Polling
Alone == \A t, u \in Tasks : pc[t] \in Commanding /\ pc[u] \in Commanding => t = u

\* What the disk shows goes with the sectors it has to move.
DeviceSound ==
    /\ disk = "data" => left > 0
    /\ disk \in {"idle", "error"} => left = 0
    /\ disk = "busy" /\ command = "read" => left > 0
    /\ disk \in {"busy", "data"} => \E t \in Tasks : pc[t] \in Commanding

\* A task that moves sectors has some left, and the disk as many.
Moving == {"rcommand", "wcommand", "rwait", "rsem", "rpoll", "copy", "load",
           "save", "loading", "saving", "rmutex", "wmutex"}
Reading == {"rwait", "rsem", "rpoll", "loading"}
HasSectors ==
    \A t \in Tasks :
       /\ pc[t] \in Moving => todo[t] > 0
       /\ pc[t] \in {"save", "saving"} => todo[t] = 1
       /\ pc[t] \in {"saved", "flushing"} => todo[t] = 0
TaskSound(t) ==
    /\ pc[t] \in {"copy", "saving"} => disk = "data"
    /\ pc[t] \in Commanding => command = IF pc[t] \in Reading THEN "read" ELSE "write"
    /\ pc[t] \in Commanding /\ disk # "error" => left = todo[t]

\* A task before or at the semaphore has its interrupt ahead of it.
Awaited(t) ==
    pc[t] \in {"rwait", "wwait", "rsem", "wsem"} /\ disk # "busy" =>
        irr \/ (count > 0 /\ pc[t] \in {"rwait", "wwait"})

\* How many permits there can be beyond those of strays: one, and one more while
\* the sector of a call has been served and not been waited for, and none while
\* it has been waited for and not been served.
Latched == IF irr THEN 1 ELSE 0
Ahead(t) == pc[t] \in {"rwait", "wwait", "rsem", "wsem"} /\ disk # "busy"
Behind(t) == pc[t] \in {"rpoll", "wpoll"} /\ disk = "busy"
Balance ==
    /\ count + Latched <= 2 + strays
    /\ (\A t \in Tasks : ~Ahead(t)) => count + Latched <= 1 + strays
    /\ (\E t \in Tasks : Behind(t)) => count + Latched <= strays

Apart ==
    /\ Alone
    /\ DeviceSound
    /\ \A t \in Tasks : TaskSound(t) /\ Awaited(t)
    /\ Balance

Inv ==
    /\ TypeOK
    /\ OwnerInCall
    /\ LockersWait
    /\ WaitersWait
    /\ PermitsStayBounded
    /\ HasSectors
    /\ ~mixed => Apart

------------------------------------------------------------------------------
(* Queues in which everybody stands once.                                  *)

\* A task that joins a queue it is not in (list_pushback).
LEMMA AppendOnce ==
    ASSUME NEW S, NEW s \in Seq(S), Once(s), NEW x \in S, x \notin In(s)
    PROVE  /\ Append(s, x) \in Seq(S) /\ Append(s, x) # <<>>
           /\ Once(Append(s, x))
           /\ In(Append(s, x)) = In(s) \cup {x}
<1> DEFINE a == Append(s, x)
<1>1. /\ a \in Seq(S) /\ a # <<>> /\ Len(a) = Len(s) + 1 /\ Len(s) \in Nat
      /\ \A i \in 1..Len(s) : a[i] = s[i]
      /\ a[Len(s) + 1] = x
  BY AppendProperties, LenProperties
<1> HIDE DEF a
<1>2. Once(a)
  BY <1>1 DEF Once, In
<1>3. In(a) = In(s) \cup {x}
  <2>1. \A y \in In(a) : y \in In(s) \cup {x}
    BY <1>1 DEF In
  <2>2. \A i \in 1..Len(s) : s[i] = a[i] /\ i \in 1..Len(a)
    BY <1>1
  <2>3. \A y \in In(s) : y \in In(a)
    BY <2>2 DEF In
  <2>4. x \in In(a)
    BY <1>1 DEF In
  <2>5. QED
    BY <2>1, <2>3, <2>4
<1>4. QED
  BY <1>1, <1>2, <1>3 DEF a

\* The first one leaves the queue (list_popfront).
LEMMA TailOnce ==
    ASSUME NEW S, NEW s \in Seq(S), Once(s), s # <<>>
    PROVE  /\ Head(s) \in S /\ Head(s) \in In(s)
           /\ Tail(s) \in Seq(S)
           /\ Once(Tail(s))
           /\ In(Tail(s)) = In(s) \ {Head(s)}
<1> DEFINE a == Tail(s)
<1>1. /\ a \in Seq(S) /\ Len(a) = Len(s) - 1 /\ Len(s) \in Nat /\ Len(s) > 0
      /\ \A i \in 1..Len(a) : a[i] = s[i + 1]
      /\ Head(s) = s[1] /\ Head(s) \in S
  BY HeadTailProperties, LenProperties, EmptySeq
<1> HIDE DEF a
<1>2. Once(a)
  BY <1>1 DEF Once
<1>3. Head(s) \in In(s)
  BY <1>1 DEF In
<1>4. In(a) = In(s) \ {Head(s)}
  <2>1. ASSUME NEW i \in 1..Len(a) PROVE a[i] \in In(s) \ {Head(s)}
    <3>1. i \in Nat /\ i + 1 \in 1..Len(s) /\ i + 1 # 1 /\ 1 \in 1..Len(s)
      BY <1>1
    <3>2. QED
      BY <1>1, <3>1 DEF Once, In
  <2>2. ASSUME NEW j \in 1..Len(s), s[j] # Head(s) PROVE s[j] \in In(a)
    <3>1. j # 1 /\ j - 1 \in 1..Len(a) /\ (j - 1) + 1 = j
      BY <1>1, <2>2
    <3>2. a[j - 1] = s[j]
      BY <1>1, <3>1
    <3>3. QED
      BY <3>1, <3>2 DEF In
  <2>3. QED
    BY <2>1, <2>2 DEF In
<1>5. QED
  BY <1>1, <1>2, <1>3, <1>4 DEF a

\* Nobody stands in an empty queue.
LEMMA EmptyOnce == Once(<<>>) /\ In(<<>>) = {}
BY DEF Once, In

\* Somebody stands in a queue that is not empty.
LEMMA NotEmpty ==
    ASSUME NEW S, NEW s \in Seq(S), s # <<>>
    PROVE  \E x \in S : x \in In(s)
<1>1. Len(s) > 0 /\ Len(s) \in Nat
  BY EmptySeq, LenProperties
<1>2. 1 \in 1..Len(s) /\ s[1] \in S
  BY <1>1, ElementOfSeq
<1>3. QED
  BY <1>2 DEF In
------------------------------------------------------------------------------
(* The invariant, step by step.                                            *)

Stops == {"rmutex", "wmutex", "rsem", "wsem"}

\* While one task commands the disk, the others do not.
LEMMA OnlyOne ==
    ASSUME Inv, ~mixed, NEW t \in Tasks, pc[t] \in Commanding
    PROVE  \A u \in Tasks \ {t} :
              pc[u] \notin Commanding /\ ~Ahead(u) /\ ~Behind(u)
<1>1. \A u \in Tasks \ {t} : pc[u] \notin Commanding
  BY DEF Inv, Apart, Alone
<1>2. QED
  BY <1>1 DEF Ahead, Behind, Commanding, UnderWay, InCall

\* A step of one task that neither stops nor enters or leaves a call.
LEMMA QueuesKept ==
    ASSUME Inv, NEW t \in Tasks, NEW b \in PCs, pc' = [pc EXCEPT ![t] = b],
           UNCHANGED <<owner, lockers, waiters>>,
           pc[t] \notin Stops, b \notin Stops,
           pc[t] \in InCall <=> b \in InCall
    PROVE  OwnerInCall' /\ LockersWait' /\ WaitersWait'
<1>1. /\ pc \in [Tasks -> PCs] /\ pc' \in [Tasks -> PCs]
      /\ pc'[t] = b /\ \A u \in Tasks \ {t} : pc'[u] = pc[u]
  BY DEF Inv, TypeOK
<1>2. OwnerInCall'
  BY <1>1 DEF Inv, OwnerInCall
<1>3. LockersWait'
  <2>1. {u \in Tasks : pc'[u] \in {"rmutex", "wmutex"}}
           = {u \in Tasks : pc[u] \in {"rmutex", "wmutex"}}
    BY <1>1 DEF Stops
  <2>2. QED
    BY <2>1 DEF Inv, LockersWait
<1>4. WaitersWait'
  <2>1. {u \in Tasks : pc'[u] \in {"rsem", "wsem"}}
           = {u \in Tasks : pc[u] \in {"rsem", "wsem"}}
    BY <1>1 DEF Stops
  <2>2. QED
    BY <2>1 DEF Inv, WaitersWait
<1>5. QED
  BY <1>2, <1>3, <1>4

\* If no call is between commands, the balance holds for the permits.
LEMMA BalanceGives ==
    ASSUME Balance'
    PROVE  PermitsStayBounded'
<1> SUFFICES ASSUME \A t \in Tasks : pc'[t] \notin InCall
             PROVE  (count + Latched <= 1 + strays)'
  BY DEF PermitsStayBounded, Latched
<1>1. \A t \in Tasks : ~Ahead(t)'
  BY DEF Ahead, InCall
<1>2. QED
  BY <1>1 DEF Balance

\* dev_disk_command.
LEMMA CommandStep ==
    ASSUME Inv, ~mixed, NEW t \in Tasks, Command(t)
    PROVE  Inv'
<1>1. TypeOK'
  BY DEF Inv, TypeOK, Command, InUse, GoTo, PCs, sem, locking
<1>2. /\ pc \in [Tasks -> PCs]
      /\ pc[t] \in {"rcommand", "wcommand"} /\ pc'[t] \in {"rwait", "copy"}
      /\ pc' = [pc EXCEPT ![t] = pc'[t]]
      /\ \A u \in Tasks \ {t} : pc'[u] = pc[u]
      /\ disk' = IF pc'[t] = "rwait" THEN "busy" ELSE "data"
      /\ command' = IF pc'[t] = "rwait" THEN "read" ELSE "write"
      /\ left' = todo[t] /\ todo' = todo /\ todo[t] > 0
      /\ UNCHANGED <<owner, lockers, waiters, count, irr, strays>>
  BY DEF Inv, TypeOK, Command, GoTo, HasSectors, Moving, sem, locking
<1>3. OwnerInCall' /\ LockersWait' /\ WaitersWait'
  BY <1>2, QueuesKept DEF PCs, Stops, InCall
<1>4. HasSectors'
  BY <1>2 DEF Inv, HasSectors, Moving
<1>5. PermitsStayBounded'
  BY <1>2 DEF InCall, PermitsStayBounded
<1>6. ASSUME ~mixed'
      PROVE  Apart'
  <2>1. \A u \in Tasks \ {t} : pc[u] \notin Commanding
    <3>1. \A u \in Tasks : pc[u] \in InCall => u = t
      BY <1>2 DEF Inv, TypeOK, OwnerInCall, InCall
    <3>2. QED
      BY <1>6, <3>1 DEF Command, InUse, Directly, Commanding, UnderWay
  <2>2. Alone'
    BY <2>1, <1>2 DEF Alone
  <2>3. DeviceSound'
    BY <1>2 DEF DeviceSound, Commanding, UnderWay, InCall
  <2>4. \A u \in Tasks : TaskSound(u)'
    BY <2>1, <1>2 DEF TaskSound, Commanding, Reading, UnderWay, InCall, Polling
  <2>5. \A u \in Tasks : Awaited(u)'
    BY <2>1, <1>2 DEF Awaited, Commanding, UnderWay, InCall
  <2>6. Balance'
    <3>1. \A u \in Tasks : ~Ahead(u)
      BY <2>1, <1>2 DEF Ahead, Commanding, UnderWay, InCall
    <3>2. \A u \in Tasks : ~Behind(u)'
      BY <2>1, <1>2 DEF Behind, Commanding, UnderWay, InCall
    <3>3. count + Latched <= 1 + strays
      BY <3>1 DEF Inv, Apart, Balance
    <3>4. QED
      BY <1>2, <3>2, <3>3 DEF Inv, TypeOK, Balance, Latched
  <2>7. QED
    BY <2>2, <2>3, <2>4, <2>5, <2>6 DEF Apart
<1>7. QED
  BY <1>1, <1>3, <1>4, <1>5, <1>6 DEF Inv

\* A sector is given to the disk (disk_write_data).
LEMMA WriteDataStep ==
    ASSUME Inv, ~mixed, NEW t \in Tasks, WriteData(t)
    PROVE  Inv'
<1>1. /\ pc \in [Tasks -> PCs] /\ todo \in [Tasks -> Nat] /\ left \in Nat
      /\ pc[t] = "copy" /\ pc[t] \in Commanding
      /\ todo[t] > 0 /\ left = todo[t] /\ command = "write" /\ disk = "data"
  BY DEF Inv, Apart, TypeOK, WriteData, HasSectors, Moving, TaskSound,
       Commanding, UnderWay, InCall, Reading
<1>2. /\ pc' = [pc EXCEPT ![t] = "wwait"] /\ pc'[t] = "wwait"
      /\ todo' = [todo EXCEPT ![t] = todo[t] - 1] /\ todo'[t] = left'
      /\ \A u \in Tasks \ {t} : pc'[u] = pc[u] /\ todo'[u] = todo[u]
      /\ left' = left - 1 /\ disk' = "busy" /\ owed' = owed
      /\ UNCHANGED <<owner, lockers, waiters, count, irr, strays, mixed, command>>
  BY <1>1 DEF WriteData, GoTo, sem, locking, past
<1>3. TypeOK'
  BY <1>1, <1>2 DEF Inv, TypeOK, PCs
<1>4. OwnerInCall' /\ LockersWait' /\ WaitersWait'
  BY <1>1, <1>2, QueuesKept DEF PCs, Stops, InCall
<1>5. HasSectors'
  BY <1>2 DEF Inv, HasSectors, Moving
<1>6. \A u \in Tasks \ {t} : pc[u] \notin Commanding /\ ~Ahead(u) /\ ~Behind(u)
  BY <1>1, OnlyOne
<1>7. Alone' /\ DeviceSound'
  BY <1>1, <1>2, <1>6 DEF Alone, DeviceSound, Commanding, UnderWay, InCall
<1>8. \A u \in Tasks : TaskSound(u)' /\ Awaited(u)'
  BY <1>1, <1>2, <1>6 DEF TaskSound, Awaited, Commanding, Reading, UnderWay, InCall, Polling
<1>9. Balance'
  <2>1. count + Latched <= 1 + strays
    BY <1>1, <1>6 DEF Inv, Apart, Balance, Ahead
  <2>2. \A u \in Tasks : ~Behind(u)'
    BY <1>2, <1>6 DEF Behind, Commanding, UnderWay, InCall
  <2>3. QED
    BY <1>2, <2>1, <2>2 DEF Inv, TypeOK, Balance, Latched
<1>10. QED
  BY <1>3, <1>4, <1>5, <1>7, <1>8, <1>9, BalanceGives DEF Inv, Apart

\* disk_wait: through with a permit, or stopped.
LEMMA SemWaitStep ==
    ASSUME Inv, ~mixed, NEW t \in Tasks, SemWait(t)
    PROVE  Inv'
<1>1. /\ pc \in [Tasks -> PCs] /\ todo \in [Tasks -> Nat] /\ count \in Nat
      /\ pc[t] \in {"rwait", "wwait"} /\ pc[t] \in Commanding /\ pc[t] \in InCall
  BY DEF Inv, TypeOK, SemWait, Commanding, UnderWay, InCall
<1>2. /\ UNCHANGED <<todo, owner, lockers, disk, command, left, irr, strays, mixed>>
  BY DEF SemWait, locking, device, past
<1>3. \A u \in Tasks \ {t} : pc[u] \notin Commanding /\ ~Ahead(u) /\ ~Behind(u)
  BY <1>1, OnlyOne
<1>4. CASE count > 0
  <2> DEFINE b == IF pc[t] = "rwait" THEN "rpoll" ELSE "wpoll"
  <2>1. /\ pc' = [pc EXCEPT ![t] = b] /\ pc'[t] = b
        /\ \A u \in Tasks \ {t} : pc'[u] = pc[u]
        /\ count' = count - 1 /\ waiters' = waiters /\ owed' = owed
    BY <1>1, <1>4 DEF SemWait, GoTo
  <2>2. b \in PCs /\ b \in {"rpoll", "wpoll"} /\ (pc[t] = "rwait" <=> b = "rpoll")
    BY <1>1 DEF PCs
  <2> HIDE DEF b
  <2>3. TypeOK'
    BY <1>1, <1>2, <1>4, <2>1, <2>2 DEF Inv, TypeOK
  <2>4. OwnerInCall' /\ LockersWait' /\ WaitersWait'
    BY <1>1, <1>2, <2>1, <2>2, QueuesKept DEF Stops, InCall
  <2>5. HasSectors'
    BY <1>1, <1>2, <2>1, <2>2 DEF Inv, HasSectors, Moving
  <2>6. Alone' /\ DeviceSound'
    BY <1>1, <1>2, <1>3, <2>1, <2>2
       DEF Inv, Apart, Alone, DeviceSound, Commanding, UnderWay, InCall
  <2>7. \A u \in Tasks : TaskSound(u)' /\ Awaited(u)'
    BY <1>1, <1>2, <1>3, <2>1, <2>2
       DEF Inv, Apart, TaskSound, Awaited, Commanding, Reading, UnderWay, InCall, Polling
  <2>8. Balance'
    <3>1. \A u \in Tasks : ~Ahead(u)'
      BY <1>3, <2>1, <2>2 DEF Ahead, Commanding, UnderWay, InCall
    <3>2. CASE disk = "busy"
      <4>1. count + Latched <= 1 + strays
        BY <1>1, <1>3, <3>2 DEF Inv, Apart, Balance, Ahead
      <4>2. QED
        BY <1>1, <1>2, <2>1, <4>1 DEF Inv, TypeOK, Balance, Latched
    <3>3. CASE disk # "busy"
      <4>1. \A u \in Tasks : ~Behind(u)'
        BY <1>2, <3>3 DEF Behind
      <4>2. count + Latched <= 2 + strays
        BY DEF Inv, Apart, Balance
      <4>3. QED
        BY <1>1, <1>2, <2>1, <4>1, <4>2 DEF Inv, TypeOK, Balance, Latched
    <3>4. QED
      BY <3>2, <3>3
  <2>9. QED
    BY <2>3, <2>4, <2>5, <2>6, <2>7, <2>8, BalanceGives DEF Inv, Apart
<1>5. CASE ~(count > 0)
  <2> DEFINE b == IF pc[t] = "rwait" THEN "rsem" ELSE "wsem"
  <2>1. /\ pc' = [pc EXCEPT ![t] = b] /\ pc'[t] = b
        /\ \A u \in Tasks \ {t} : pc'[u] = pc[u]
        /\ count' = count /\ waiters' = Append(waiters, t)
        /\ owed' \in {"nothing", owed}
    BY <1>1, <1>5 DEF SemWait, Settle
  <2>2. b \in PCs /\ b \in {"rsem", "wsem"} /\ (pc[t] = "rwait" <=> b = "rsem")
    BY <1>1 DEF PCs
  <2> HIDE DEF b
  <2>3. /\ waiters' \in Seq(Tasks) /\ Once(waiters')
        /\ In(waiters') = In(waiters) \cup {t}
    <3>1. t \notin In(waiters)
      BY <1>1 DEF Inv, WaitersWait
    <3>2. QED
      BY <2>1, <3>1, AppendOnce DEF Inv, TypeOK, WaitersWait
  <2>4. TypeOK'
    BY <1>1, <1>2, <2>1, <2>2, <2>3 DEF Inv, TypeOK
  <2>5. WaitersWait'
    BY <1>1, <2>1, <2>2, <2>3 DEF Inv, WaitersWait
  <2>6. OwnerInCall'
    BY <1>1, <1>2, <2>1, <2>2 DEF Inv, OwnerInCall, InCall
  <2>7. LockersWait'
    <3>1. {u \in Tasks : pc'[u] \in {"rmutex", "wmutex"}}
             = {u \in Tasks : pc[u] \in {"rmutex", "wmutex"}}
      BY <1>1, <2>1, <2>2
    <3>2. QED
      BY <1>2, <3>1 DEF Inv, LockersWait
  <2>8. HasSectors'
    BY <1>1, <1>2, <2>1, <2>2 DEF Inv, HasSectors, Moving
  <2>9. Alone' /\ DeviceSound'
    BY <1>1, <1>2, <1>3, <2>1, <2>2
       DEF Inv, Apart, Alone, DeviceSound, Commanding, UnderWay, InCall
  <2>10. \A u \in Tasks : TaskSound(u)' /\ Awaited(u)'
    BY <1>1, <1>2, <1>3, <1>5, <2>1, <2>2
       DEF Inv, Apart, TaskSound, Awaited, Commanding, Reading, UnderWay, InCall, Polling
  <2>11. Balance'
    <3>1. \A u \in Tasks : Ahead(u)' <=> Ahead(u)
      BY <1>1, <1>2, <2>1, <2>2 DEF Ahead
    <3>2. \A u \in Tasks : Behind(u)' <=> Behind(u)
      BY <1>1, <1>2, <2>1, <2>2 DEF Behind
    <3>3. QED
      BY <1>2, <2>1, <3>1, <3>2 DEF Inv, Apart, Balance, Latched
  <2>12. QED
    BY <2>4, <2>5, <2>6, <2>7, <2>8, <2>9, <2>10, <2>11, BalanceGives DEF Inv, Apart
<1>6. QED
  BY <1>4, <1>5

\* A sector is taken, or the call ends (dev_disk_read).
LEMMA ReadDataStep ==
    ASSUME Inv, ~mixed, NEW t \in Tasks, ReadData(t)
    PROVE  Inv'
<1> DEFINE b == IF disk # "error" /\ todo[t] - 1 > 0 THEN "rwait" ELSE "unlock"
<1>1. /\ pc \in [Tasks -> PCs] /\ todo \in [Tasks -> Nat] /\ left \in Nat
      /\ pc[t] = "rpoll" /\ pc[t] \in Commanding /\ pc[t] \in InCall
      /\ todo[t] > 0 /\ disk # "busy" /\ command = "read"
      /\ disk # "error" => left = todo[t]
      /\ disk \in {"idle", "data", "error"} /\ disk # "idle"
  <2>1. /\ pc \in [Tasks -> PCs] /\ todo \in [Tasks -> Nat] /\ left \in Nat
        /\ pc[t] = "rpoll" /\ disk \in {"idle", "data", "error"} /\ disk # "busy"
    BY DEF Inv, TypeOK, ReadData, StatusSeen
  <2>2. pc[t] \in Commanding /\ pc[t] \in InCall /\ pc[t] \in Reading
    BY <2>1 DEF Commanding, UnderWay, InCall, Reading
  <2>3. todo[t] > 0
    BY <2>1 DEF Inv, HasSectors, Moving
  <2>4. command = "read" /\ (disk # "error" => left = todo[t])
    BY <2>2 DEF Inv, Apart, TaskSound
  <2>5. disk = "idle" => left = 0
    BY DEF Inv, Apart, DeviceSound
  <2>6. QED
    BY <2>1, <2>2, <2>3, <2>4, <2>5
<1>2. /\ pc' = [pc EXCEPT ![t] = b] /\ pc'[t] = b
      /\ \A u \in Tasks \ {t} : pc'[u] = pc[u]
      /\ UNCHANGED <<owner, lockers, waiters, count, irr, strays, mixed, command, owed>>
  BY <1>1 DEF ReadData, GoTo, More, sem, locking, past
<1>3. /\ todo' \in [Tasks -> Nat] /\ left' \in Nat
      /\ \A u \in Tasks \ {t} : todo'[u] = todo[u]
      /\ disk' \in {"busy", "idle", "error"}
      /\ disk' = "busy" <=> b = "rwait"
      /\ b = "rwait" => todo'[t] > 0 /\ left' = todo'[t]
      /\ disk' # "busy" => left' = 0
    BY <1>1 DEF ReadData, More, Inv, Apart, DeviceSound
<1>4. b \in PCs /\ b \in {"rwait", "unlock"}
  BY DEF PCs
<1> HIDE DEF b
<1>5. TypeOK'
  BY <1>1, <1>2, <1>3, <1>4 DEF Inv, TypeOK
<1>6. OwnerInCall' /\ LockersWait' /\ WaitersWait'
  BY <1>1, <1>2, <1>4, QueuesKept DEF Stops, InCall
<1>7. HasSectors'
  BY <1>2, <1>3, <1>4 DEF Inv, HasSectors, Moving
<1>8. \A u \in Tasks \ {t} : pc[u] \notin Commanding /\ ~Ahead(u) /\ ~Behind(u)
  BY <1>1, OnlyOne
<1>9. Alone' /\ DeviceSound'
  BY <1>1, <1>2, <1>3, <1>4, <1>8 DEF Alone, DeviceSound, Commanding, UnderWay, InCall
<1>10. \A u \in Tasks : TaskSound(u)' /\ Awaited(u)'
  BY <1>1, <1>2, <1>3, <1>4, <1>8
     DEF TaskSound, Awaited, Commanding, Reading, UnderWay, InCall, Polling
<1>11. Balance'
  <2>1. count + Latched <= 1 + strays
    BY <1>1, <1>8 DEF Inv, Apart, Balance, Ahead
  <2>2. \A u \in Tasks : ~Behind(u)'
    BY <1>2, <1>4, <1>8 DEF Behind, Commanding, UnderWay, InCall
  <2>3. QED
    BY <1>2, <2>1, <2>2 DEF Inv, TypeOK, Balance, Latched
<1>12. QED
  BY <1>5, <1>6, <1>7, <1>9, <1>10, <1>11, BalanceGives DEF Inv, Apart

\* A sector is stored, or the call ends (dev_disk_write).
LEMMA WrittenStep ==
    ASSUME Inv, ~mixed, NEW t \in Tasks, Written(t)
    PROVE  Inv'
<1> DEFINE b == IF disk # "error" /\ todo[t] > 0 THEN "copy" ELSE "unlock"
<1>1. /\ pc \in [Tasks -> PCs] /\ todo \in [Tasks -> Nat] /\ left \in Nat
      /\ pc[t] = "wpoll" /\ pc[t] \in Commanding /\ pc[t] \in InCall
      /\ command = "write" /\ disk # "busy"
      /\ disk # "error" => left = todo[t]
      /\ disk \in {"idle", "data", "error"}
      /\ disk = "data" <=> b = "copy"
  <2>1. /\ pc \in [Tasks -> PCs] /\ todo \in [Tasks -> Nat] /\ left \in Nat
        /\ pc[t] = "wpoll" /\ disk \in {"idle", "data", "error"} /\ disk # "busy"
    BY DEF Inv, TypeOK, Written, StatusSeen
  <2>2. pc[t] \in Commanding /\ pc[t] \in InCall /\ pc[t] \notin Reading
    BY <2>1 DEF Commanding, UnderWay, InCall, Reading
  <2>3. command = "write" /\ (disk # "error" => left = todo[t])
    BY <2>2 DEF Inv, Apart, TaskSound
  <2>4. (disk = "idle" => left = 0) /\ (disk = "data" => left > 0)
    BY DEF Inv, Apart, DeviceSound
  <2>5. QED
    BY <2>1, <2>2, <2>3, <2>4
<1>2. /\ pc' = [pc EXCEPT ![t] = b] /\ pc'[t] = b
      /\ \A u \in Tasks \ {t} : pc'[u] = pc[u]
      /\ UNCHANGED <<todo, owner, lockers, waiters, count, irr, strays, mixed,
                     command, owed, disk, left>>
  BY <1>1 DEF Written, GoTo, More, sem, locking, past, device
<1>3. b \in PCs /\ b \in {"copy", "unlock"} /\ (b = "copy" => todo[t] > 0)
  BY DEF PCs
<1> HIDE DEF b
<1>4. TypeOK'
  BY <1>1, <1>2, <1>3 DEF Inv, TypeOK
<1>5. OwnerInCall' /\ LockersWait' /\ WaitersWait'
  BY <1>1, <1>2, <1>3, QueuesKept DEF Stops, InCall
<1>6. HasSectors'
  BY <1>1, <1>2, <1>3 DEF Inv, HasSectors, Moving
<1>7. \A u \in Tasks \ {t} : pc[u] \notin Commanding /\ ~Ahead(u) /\ ~Behind(u)
  BY <1>1, OnlyOne
<1>8. Alone' /\ DeviceSound'
  BY <1>1, <1>2, <1>3, <1>7
     DEF Inv, Apart, Alone, DeviceSound, Commanding, UnderWay, InCall
<1>9. \A u \in Tasks : TaskSound(u)' /\ Awaited(u)'
  BY <1>1, <1>2, <1>3, <1>7
     DEF TaskSound, Awaited, Commanding, Reading, UnderWay, InCall, Polling
<1>10. Balance'
  <2>1. count + Latched <= 1 + strays
    BY <1>1, <1>7 DEF Inv, Apart, Balance, Ahead
  <2>2. \A u \in Tasks : ~Behind(u)'
    BY <1>2, <1>3, <1>7 DEF Behind, Commanding, UnderWay, InCall
  <2>3. QED
    BY <1>2, <2>1, <2>2 DEF Inv, TypeOK, Balance, Latched
<1>11. QED
  BY <1>4, <1>5, <1>6, <1>8, <1>9, <1>10, BalanceGives DEF Inv, Apart

\* What a step that neither touches the disk nor a task that commands it leaves
\* as it was.
LEMMA CommandsKept ==
    ASSUME Inv, ~mixed,
           \A u \in Tasks : pc[u] \in Commanding \/ pc'[u] \in Commanding =>
              pc'[u] = pc[u] /\ todo'[u] = todo[u],
           UNCHANGED <<disk, command, left, count, irr, strays>>
    PROVE  Apart'
<1>1. \A u \in Tasks : pc'[u] \in Commanding <=> pc[u] \in Commanding
  OBVIOUS
<1>2. Alone' /\ DeviceSound'
  BY <1>1 DEF Inv, Apart, Alone, DeviceSound
<1>3. \A u \in Tasks : TaskSound(u)' /\ Awaited(u)'
  BY DEF Inv, Apart, TaskSound, Awaited, Commanding, UnderWay, InCall, Polling
<1>4. \A u \in Tasks : (Ahead(u)' <=> Ahead(u)) /\ (Behind(u)' <=> Behind(u))
  BY DEF Ahead, Behind, Commanding, UnderWay, InCall
<1>5. Balance'
  BY <1>4 DEF Inv, Apart, Balance, Latched
<1>6. QED
  BY <1>2, <1>3, <1>5 DEF Apart

\* mutex_unlock: nobody, or the first who waits, has the disk.
LEMMA UnlockStep ==
    ASSUME Inv, ~mixed, NEW t \in Tasks, Unlock(t)
    PROVE  Inv'
<1>1. /\ pc \in [Tasks -> PCs] /\ todo \in [Tasks -> Nat] /\ lockers \in Seq(Tasks)
      /\ pc[t] = "unlock" /\ owner = t
      /\ \A u \in Tasks \ {t} : pc[u] \notin InCall
      /\ None \notin Tasks
  BY DiskAssumption DEF Inv, TypeOK, Unlock, OwnerInCall, InCall
<1>2. /\ UNCHANGED <<count, waiters, disk, command, left, irr, strays, mixed, owed>>
      /\ todo' = [todo EXCEPT ![t] = 0]
      /\ \A u \in Tasks \ {t} : todo'[u] = todo[u]
  BY <1>1 DEF Unlock, GoTo, sem, device, past
<1>3. CASE lockers = <<>>
  <2>1. /\ pc' = [pc EXCEPT ![t] = "user"] /\ pc'[t] = "user"
        /\ \A u \in Tasks \ {t} : pc'[u] = pc[u]
        /\ owner' = None /\ lockers' = lockers
    BY <1>1, <1>3 DEF Unlock, GoTo
  <2>2. TypeOK'
    BY <1>1, <1>2, <2>1 DEF Inv, TypeOK, PCs
  <2>3. OwnerInCall'
    BY <1>1, <2>1 DEF OwnerInCall, InCall
  <2>4. LockersWait' /\ WaitersWait'
    <3>1. \A u \in Tasks : /\ pc'[u] \in {"rmutex", "wmutex"} <=> pc[u] \in {"rmutex", "wmutex"}
                           /\ pc'[u] \in {"rsem", "wsem"} <=> pc[u] \in {"rsem", "wsem"}
      BY <1>1, <2>1
    <3>2. QED
      BY <1>2, <1>3, <2>1, <3>1 DEF Inv, LockersWait, WaitersWait
  <2>5. HasSectors'
    BY <1>1, <1>2, <2>1 DEF Inv, HasSectors, Moving
  <2>6. Apart'
    BY <1>1, <1>2, <2>1, CommandsKept DEF Commanding, UnderWay, InCall, Polling
  <2>7. QED
    BY <2>2, <2>3, <2>4, <2>5, <2>6, BalanceGives DEF Inv, Apart
<1>4. CASE lockers # <<>>
  <2> DEFINE w == Head(lockers)
             b == IF pc[w] = "rmutex" THEN "rcommand" ELSE "wcommand"
  <2>1. /\ w \in Tasks /\ w \in In(lockers) /\ lockers' = Tail(lockers)
        /\ lockers' \in Seq(Tasks) /\ Once(lockers') /\ In(lockers') = In(lockers) \ {w}
    <3>1. Once(lockers) /\ lockers' = Tail(lockers)
      BY <1>4 DEF Inv, LockersWait, Unlock
    <3>2. QED
      BY <1>1, <1>4, <3>1, TailOnce
  <2>2. pc[w] \in {"rmutex", "wmutex"} /\ w # t
    BY <1>1, <2>1 DEF Inv, LockersWait
  <2>3. /\ pc' = [pc EXCEPT ![t] = "user", ![w] = b]
        /\ owner' = w
    BY <1>4, <2>1, <2>2 DEF Unlock
  <2>4. /\ pc'[t] = "user" /\ pc'[w] = b /\ b \in {"rcommand", "wcommand"}
        /\ \A u \in Tasks \ {t, w} : pc'[u] = pc[u]
        /\ b \in PCs /\ pc' \in [Tasks -> PCs]
    BY <1>1, <2>1, <2>2, <2>3 DEF PCs
  <2> HIDE DEF b, w
  <2>5. TypeOK'
    BY <1>1, <1>2, <2>1, <2>3, <2>4 DEF Inv, TypeOK
  <2>6. OwnerInCall'
    BY <1>1, <2>1, <2>2, <2>3, <2>4 DEF OwnerInCall, InCall
  <2>7. LockersWait'
    <3>1. {u \in Tasks : pc'[u] \in {"rmutex", "wmutex"}}
             = {u \in Tasks : pc[u] \in {"rmutex", "wmutex"}} \ {w}
      BY <1>1, <2>1, <2>2, <2>4
    <3>2. owner' # None
      BY <1>1, <2>1, <2>3
    <3>3. QED
      BY <2>1, <3>1, <3>2 DEF Inv, LockersWait
  <2>8. WaitersWait'
    <3>1. {u \in Tasks : pc'[u] \in {"rsem", "wsem"}}
             = {u \in Tasks : pc[u] \in {"rsem", "wsem"}}
      BY <1>1, <2>1, <2>2, <2>4
    <3>2. QED
      BY <1>2, <3>1 DEF Inv, WaitersWait
  <2>9. HasSectors'
    BY <1>1, <1>2, <2>1, <2>2, <2>4 DEF Inv, HasSectors, Moving
  <2>10. Apart'
    BY <1>1, <1>2, <2>1, <2>2, <2>4, CommandsKept DEF Commanding, UnderWay, InCall, Polling
  <2>11. QED
    BY <2>5, <2>6, <2>7, <2>8, <2>9, <2>10, BalanceGives DEF Inv, Apart
<1>5. QED
  BY <1>3, <1>4

\* mutex_lock at the start of a call.
LEMMA LockStep ==
    ASSUME Inv, ~mixed, NEW t \in Tasks, NEW call \in {"read", "write"},
           NEW n \in Nat, n > 0, Lock(t, call, n)
    PROVE  Inv'
<1>1. /\ pc \in [Tasks -> PCs] /\ todo \in [Tasks -> Nat] /\ lockers \in Seq(Tasks)
      /\ pc[t] = "user" /\ None \notin Tasks
  BY DiskAssumption DEF Inv, TypeOK, Lock
<1>2. /\ UNCHANGED <<count, waiters, disk, command, left, irr, strays, mixed>>
      /\ todo' = [todo EXCEPT ![t] = n] /\ todo'[t] = n
      /\ \A u \in Tasks \ {t} : todo'[u] = todo[u]
  BY <1>1 DEF Lock, sem, device, past
<1>3. CASE owner = None
  <2> DEFINE b == IF call = "read" THEN "rcommand" ELSE "wcommand"
  <2>1. /\ pc' = [pc EXCEPT ![t] = b] /\ pc'[t] = b
        /\ \A u \in Tasks \ {t} : pc'[u] = pc[u]
        /\ owner' = t /\ lockers' = lockers /\ owed' = owed
    BY <1>1, <1>3 DEF Lock, GoTo
  <2>2. b \in {"rcommand", "wcommand"} /\ b \in PCs
    BY DEF PCs
  <2> HIDE DEF b
  <2>3. TypeOK'
    BY <1>1, <1>2, <2>1, <2>2 DEF Inv, TypeOK
  <2>4. OwnerInCall'
    <3>1. \A u \in Tasks : pc[u] \notin InCall
      BY <1>1, <1>3 DEF Inv, OwnerInCall
    <3>2. QED
      BY <2>1, <2>2, <3>1 DEF OwnerInCall, InCall
  <2>5. LockersWait' /\ WaitersWait'
    <3>1. /\ {u \in Tasks : pc'[u] \in {"rmutex", "wmutex"}}
                = {u \in Tasks : pc[u] \in {"rmutex", "wmutex"}}
          /\ {u \in Tasks : pc'[u] \in {"rsem", "wsem"}}
                = {u \in Tasks : pc[u] \in {"rsem", "wsem"}}
      BY <1>1, <2>1, <2>2
    <3>2. owner' # None
      BY <1>1, <2>1
    <3>3. QED
      BY <1>2, <2>1, <3>1, <3>2 DEF Inv, LockersWait, WaitersWait
  <2>6. HasSectors'
    BY <1>1, <1>2, <2>1, <2>2 DEF Inv, HasSectors, Moving
  <2>7. Apart'
    BY <1>1, <1>2, <2>1, <2>2, CommandsKept DEF Commanding, UnderWay, InCall, Polling
  <2>8. QED
    BY <2>3, <2>4, <2>5, <2>6, <2>7, BalanceGives DEF Inv, Apart
<1>4. CASE owner # None
  <2> DEFINE b == IF call = "read" THEN "rmutex" ELSE "wmutex"
  <2>1. /\ pc' = [pc EXCEPT ![t] = b] /\ pc'[t] = b
        /\ \A u \in Tasks \ {t} : pc'[u] = pc[u]
        /\ owner' = owner /\ lockers' = Append(lockers, t)
        /\ owed' \in {"nothing", owed}
    BY <1>1, <1>4 DEF Lock, Settle
  <2>2. b \in {"rmutex", "wmutex"} /\ b \in PCs
    BY DEF PCs
  <2> HIDE DEF b
  <2>3. /\ lockers' \in Seq(Tasks) /\ Once(lockers')
        /\ In(lockers') = In(lockers) \cup {t}
    <3>1. t \notin In(lockers) /\ Once(lockers)
      BY <1>1 DEF Inv, LockersWait
    <3>2. QED
      BY <1>1, <2>1, <3>1, AppendOnce
  <2>4. TypeOK'
    BY <1>1, <1>2, <2>1, <2>2, <2>3 DEF Inv, TypeOK
  <2>5. OwnerInCall'
    BY <1>1, <2>1, <2>2 DEF Inv, OwnerInCall, InCall
  <2>6. LockersWait'
    <3>1. {u \in Tasks : pc'[u] \in {"rmutex", "wmutex"}}
             = {u \in Tasks : pc[u] \in {"rmutex", "wmutex"}} \cup {t}
      BY <2>1, <2>2
    <3>2. QED
      BY <1>4, <2>1, <2>3, <3>1 DEF Inv, LockersWait
  <2>7. WaitersWait'
    <3>1. {u \in Tasks : pc'[u] \in {"rsem", "wsem"}}
             = {u \in Tasks : pc[u] \in {"rsem", "wsem"}}
      BY <1>1, <2>1, <2>2
    <3>2. QED
      BY <1>2, <3>1 DEF Inv, WaitersWait
  <2>8. HasSectors'
    BY <1>1, <1>2, <2>1, <2>2 DEF Inv, HasSectors, Moving
  <2>9. Apart'
    BY <1>1, <1>2, <2>1, <2>2, CommandsKept DEF Commanding, UnderWay, InCall, Polling
  <2>10. QED
    BY <2>4, <2>5, <2>6, <2>7, <2>8, <2>9, BalanceGives DEF Inv, Apart
<1>5. QED
  BY <1>3, <1>4

\* A task stops, wakes up, or enters a transfer past the driver.
Outside == {"user", "rest", "load", "save"}

LEMMA OutsideStep ==
    ASSUME Inv, ~mixed, NEW t \in Tasks, NEW b \in Outside,
           pc[t] \in Outside, pc' = [pc EXCEPT ![t] = b],
           todo' \in [Tasks -> Nat], owed' \in {"nothing", "hdc", "kbd"},
           \A u \in Tasks \ {t} : todo'[u] = todo[u],
           b \in {"load", "save"} => todo'[t] > 0,
           b = "save" => todo'[t] = 1,
           UNCHANGED <<locking, sem, device, irr, past>>
    PROVE  Inv'
<1>1. /\ pc \in [Tasks -> PCs] /\ b \in PCs
      /\ pc'[t] = b /\ \A u \in Tasks \ {t} : pc'[u] = pc[u]
      /\ UNCHANGED <<owner, lockers, waiters, count, disk, command, left, irr, strays, mixed>>
  BY DEF Inv, TypeOK, Outside, PCs, Directly, locking, sem, device, past
<1>2. TypeOK'
  BY <1>1 DEF Inv, TypeOK
<1>3. OwnerInCall' /\ LockersWait' /\ WaitersWait'
  BY <1>1, QueuesKept DEF Outside, Stops, InCall
<1>4. HasSectors'
  BY <1>1 DEF Inv, HasSectors, Moving, Outside
<1>5. Apart'
  BY <1>1, CommandsKept DEF Commanding, UnderWay, InCall, Polling, Outside
<1>6. QED
  BY <1>2, <1>3, <1>4, <1>5, BalanceGives DEF Inv, Apart

\* A task stops or wakes up, or enters read_disk or write_disk.
LEMMA RestStep ==
    ASSUME Inv, ~mixed, NEW t \in Tasks,
           \/ Rest(t) \/ WakeByTimer(t) \/ WakeByKey(t)
           \/ Enter(t, "load", LoadSize) \/ Enter(t, "save", 1)
    PROVE  Inv'
<1>1. /\ pc \in [Tasks -> PCs] /\ todo \in [Tasks -> Nat]
      /\ owed \in {"nothing", "hdc", "kbd"}
      /\ LoadSize \in Nat /\ LoadSize > 0
  BY DiskAssumption DEF Inv, TypeOK
<1>2. CASE Rest(t)
  BY <1>1, <1>2, OutsideStep DEF Rest, Settle, Outside
<1>3. CASE WakeByTimer(t)
  BY <1>1, <1>3, OutsideStep DEF WakeByTimer, GoTo, Outside
<1>4. CASE WakeByKey(t)
  BY <1>1, <1>4, OutsideStep DEF WakeByKey, Outside
<1>5. CASE Enter(t, "load", LoadSize)
  <2>1. /\ pc[t] = "user" /\ pc' = [pc EXCEPT ![t] = "load"] /\ owed' = owed
        /\ todo' = [todo EXCEPT ![t] = LoadSize]
        /\ UNCHANGED <<locking, sem, device, irr, past>>
    BY <1>5 DEF Enter, GoTo
  <2>2. /\ todo' \in [Tasks -> Nat] /\ todo'[t] > 0
        /\ \A u \in Tasks \ {t} : todo'[u] = todo[u]
    BY <1>1, <2>1
  <2>3. QED
    BY <1>1, <2>1, <2>2, OutsideStep DEF Outside
<1>6. CASE Enter(t, "save", 1)
  <2>1. /\ pc[t] = "user" /\ pc' = [pc EXCEPT ![t] = "save"] /\ owed' = owed
        /\ todo' = [todo EXCEPT ![t] = 1]
        /\ UNCHANGED <<locking, sem, device, irr, past>>
    BY <1>6 DEF Enter, GoTo
  <2>2. /\ todo' \in [Tasks -> Nat] /\ todo'[t] > 0
        /\ \A u \in Tasks \ {t} : todo'[u] = todo[u]
    BY <1>1, <2>1
  <2>3. QED
    BY <1>1, <2>1, <2>2, OutsideStep DEF Outside
<1>7. QED
  BY <1>2, <1>3, <1>4, <1>5, <1>6

\* The steps of a transfer past the driver.
LEMMA DirectCommandStep ==
    ASSUME Inv, ~mixed, NEW t \in Tasks, DirectCommand(t)
    PROVE  Inv'
<1> DEFINE b == IF pc[t] = "load" THEN "loading" ELSE "saving"
<1>1. /\ pc \in [Tasks -> PCs] /\ todo \in [Tasks -> Nat]
      /\ pc[t] \in {"load", "save"} /\ todo[t] > 0
      /\ b \in {"loading", "saving"} /\ b \in PCs
      /\ b = "saving" => todo[t] = 1
  BY DEF Inv, TypeOK, DirectCommand, HasSectors, Moving, PCs, Directly, Polling
<1>2. /\ pc' = [pc EXCEPT ![t] = b] /\ pc'[t] = b
      /\ \A u \in Tasks \ {t} : pc'[u] = pc[u]
      /\ disk' = IF b = "loading" THEN "busy" ELSE "data"
      /\ command' = IF b = "loading" THEN "read" ELSE "write"
      /\ left' = todo[t] /\ todo' = todo /\ mixed' = InUse(t) /\ owed' = owed
      /\ UNCHANGED <<owner, lockers, waiters, count, irr, strays>>
  BY <1>1 DEF DirectCommand, GoTo, sem, locking
<1> HIDE DEF b
<1>3. TypeOK'
  BY <1>1, <1>2 DEF Inv, TypeOK, InUse
<1>4. OwnerInCall' /\ LockersWait' /\ WaitersWait'
  BY <1>1, <1>2, QueuesKept DEF Stops, InCall
<1>5. HasSectors'
  BY <1>1, <1>2 DEF Inv, HasSectors, Moving
<1>6. PermitsStayBounded'
  <2>1. \A u \in Tasks : pc'[u] \in InCall <=> pc[u] \in InCall
    BY <1>1, <1>2 DEF InCall
  <2>2. QED
    BY <1>2, <2>1 DEF Inv, PermitsStayBounded
<1>7. ASSUME ~mixed'
      PROVE  Apart'
  <2>1. \A u \in Tasks : pc[u] \notin Commanding
    <3>1. \A u \in Tasks : pc[u] \notin InCall
      BY <1>1, <1>2, <1>7, DiskAssumption DEF Inv, OwnerInCall, InUse, InCall
    <3>2. \A u \in Tasks \ {t} : pc[u] \notin Directly
      BY <1>2, <1>7 DEF InUse
    <3>3. QED
      BY <1>1, <3>1, <3>2 DEF Commanding, UnderWay, Directly, Polling
  <2>2. Alone' /\ DeviceSound'
    BY <2>1, <1>1, <1>2 DEF Alone, DeviceSound, Commanding, UnderWay, InCall, Polling
  <2>3. \A u \in Tasks : TaskSound(u)' /\ Awaited(u)'
    BY <2>1, <1>1, <1>2
       DEF TaskSound, Awaited, Commanding, Reading, UnderWay, InCall, Polling
  <2>4. Balance'
    <3>1. \A u \in Tasks : ~Ahead(u) /\ ~Behind(u)'
      BY <2>1, <1>1, <1>2 DEF Ahead, Behind, Commanding, UnderWay, InCall
    <3>2. count + Latched <= 1 + strays
      BY <3>1 DEF Inv, Apart, Balance
    <3>3. QED
      BY <1>2, <3>1, <3>2 DEF Inv, TypeOK, Balance, Latched
  <2>5. QED
    BY <2>2, <2>3, <2>4 DEF Apart
<1>8. QED
  BY <1>3, <1>4, <1>5, <1>6, <1>7 DEF Inv

\* A step of the task that commands the disk past the driver.
LEMMA PollingStep ==
    ASSUME Inv, ~mixed, NEW t \in Tasks, pc[t] \in Polling,
           NEW b \in Polling \cup {"user"}, pc' = [pc EXCEPT ![t] = b],
           todo' \in [Tasks -> Nat], left' \in Nat,
           \A u \in Tasks \ {t} : todo'[u] = todo[u],
           disk' \in {"idle", "busy", "data", "error"},
           b = "loading" => todo'[t] > 0 /\ command = "read",
           b \in {"saved", "flushing"} => command = "write",
           b # "saving",
           b \in {"saved", "flushing"} => todo'[t] = 0,
           b # "user" /\ disk' # "error" => left' = todo'[t],
           disk' = "data" => left' > 0,
           disk' \in {"idle", "error"} => left' = 0,
           disk' = "busy" /\ command = "read" => left' > 0,
           disk' \in {"busy", "data"} => b # "user",
           UNCHANGED <<owner, lockers, waiters, count, irr, owed, command, past>>
    PROVE  Inv'
<1>1. /\ pc \in [Tasks -> PCs] /\ b \in PCs
      /\ pc'[t] = b /\ \A u \in Tasks \ {t} : pc'[u] = pc[u]
      /\ pc[t] \in Commanding /\ strays' = strays /\ mixed' = mixed
  BY DEF Inv, TypeOK, PCs, Directly, Polling, Commanding, past
<1>2. TypeOK'
  BY <1>1 DEF Inv, TypeOK
<1>3. OwnerInCall' /\ LockersWait' /\ WaitersWait'
  BY <1>1, QueuesKept DEF Stops, InCall, Polling
<1>4. HasSectors'
  BY <1>1 DEF Inv, HasSectors, Moving, Polling
<1>5. \A u \in Tasks \ {t} : pc[u] \notin Commanding /\ ~Ahead(u) /\ ~Behind(u)
  BY <1>1, OnlyOne
<1>6. Alone'
  BY <1>1, <1>5 DEF Alone
<1>7. DeviceSound'
  BY <1>1 DEF DeviceSound, Commanding
<1>8. \A u \in Tasks : TaskSound(u)' /\ Awaited(u)'
  BY <1>1, <1>5 DEF TaskSound, Awaited, Commanding, Reading, UnderWay, InCall, Polling
<1>9. Balance'
  <2>1. \A u \in Tasks : ~Ahead(u) /\ ~Behind(u)'
    BY <1>1, <1>5 DEF Ahead, Behind, Commanding, UnderWay, InCall, Polling
  <2>2. count + Latched <= 1 + strays
    BY <2>1 DEF Inv, Apart, Balance
  <2>3. QED
    BY <1>1, <2>1, <2>2 DEF Inv, TypeOK, Balance, Latched
<1>10. QED
  BY <1>2, <1>3, <1>4, <1>6, <1>7, <1>8, <1>9, BalanceGives DEF Inv, Apart

\* The polling steps of read_disk and write_disk.
LEMMA DirectStep ==
    ASSUME Inv, ~mixed, NEW t \in Tasks,
           Load(t) \/ Save(t) \/ Flush(t) \/ Flushed(t)
    PROVE  Inv'
<1>1. /\ pc \in [Tasks -> PCs] /\ todo \in [Tasks -> Nat] /\ left \in Nat
      /\ disk \in {"idle", "busy", "data", "error"}
      /\ pc[t] \in Polling /\ pc[t] \in Commanding
      /\ pc[t] \in {"loading", "saving"} => todo[t] > 0
  BY DEF Inv, TypeOK, Load, Save, Flush, Flushed, Polling, Commanding, HasSectors, Moving
<1>2. /\ disk # "error" => left = todo[t]
      /\ command = IF pc[t] = "loading" THEN "read" ELSE "write"
  BY <1>1 DEF Inv, Apart, TaskSound, Reading, Polling
<1>3. /\ disk = "data" => left > 0
      /\ disk \in {"idle", "error"} => left = 0
  BY DEF Inv, Apart, DeviceSound
<1>4. CASE Load(t)
  <2> DEFINE b == IF todo[t] - 1 > 0 THEN "loading" ELSE "user"
  <2>1. /\ pc[t] = "loading" /\ disk = "data" /\ pc' = [pc EXCEPT ![t] = b]
        /\ todo' = [todo EXCEPT ![t] = todo[t] - 1] /\ left' = left - 1
        /\ disk' = IF left > 1 THEN "busy" ELSE "idle"
        /\ UNCHANGED <<owner, lockers, waiters, count, irr, owed, command, past>>
    BY <1>1, <1>4 DEF Load, GoTo, More, locking, sem
  <2>2. /\ todo' \in [Tasks -> Nat] /\ todo'[t] = todo[t] - 1 /\ left' \in Nat
        /\ \A u \in Tasks \ {t} : todo'[u] = todo[u]
        /\ left' = todo'[t] /\ b = IF left > 1 THEN "loading" ELSE "user"
    BY <1>1, <1>2, <2>1
  <2>3. b \in Polling \cup {"user"} /\ (b # "user" <=> b = "loading") /\ b # "saving"
    BY DEF Polling
  <2> HIDE DEF b
  <2>4. /\ disk' \in {"busy", "idle"} /\ (disk' = "busy" => left' > 0)
        /\ disk' = "idle" => left' = 0
        /\ disk' = "busy" <=> b # "user"
        /\ b = "loading" => todo'[t] > 0
    BY <1>1, <1>3, <2>1, <2>2
  <2>5. command = "read"
    BY <1>2, <2>1
  <2>6. QED
    BY <1>1, <2>1, <2>2, <2>3, <2>4, <2>5, PollingStep
<1>5. CASE Save(t)
  <2>1. /\ pc[t] = "saving" /\ disk = "data" /\ pc' = [pc EXCEPT ![t] = "saved"]
        /\ todo' = [todo EXCEPT ![t] = todo[t] - 1] /\ left' = left - 1
        /\ disk' = "busy"
        /\ UNCHANGED <<owner, lockers, waiters, count, irr, owed, command, past>>
    BY <1>1, <1>5 DEF Save, GoTo, locking, sem
  <2>2. /\ todo' \in [Tasks -> Nat] /\ left' = todo'[t] /\ left' \in Nat
        /\ \A u \in Tasks \ {t} : todo'[u] = todo[u]
        /\ todo'[t] = 0
    BY <1>1, <1>2, <2>1 DEF Inv, HasSectors
  <2>3. "saved" \in Polling
    BY DEF Polling
  <2>4. QED
    BY <1>1, <1>2, <2>1, <2>2, <2>3, PollingStep
<1>6. CASE Flush(t) \/ Flushed(t)
  <2> DEFINE b == pc'[t]
  <2>1. /\ pc[t] \in {"saved", "flushing"} /\ disk # "busy"
        /\ pc' = [pc EXCEPT ![t] = b] /\ b \in {"flushing", "user"}
        /\ UNCHANGED <<owner, lockers, waiters, count, irr, owed, command, past, todo, left>>
        /\ \/ b = "flushing" /\ disk = "idle" /\ disk' = "busy"
           \/ b = "user" /\ disk' = disk
    BY <1>1, <1>6 DEF Flush, Flushed, GoTo, locking, sem, device
  <2>2. command = "write" /\ (disk # "error" => left = todo[t])
    BY <1>2, <2>1
  <2>3. disk # "data" /\ todo[t] = 0
    <3>1. todo[t] = 0
      BY <2>1 DEF Inv, HasSectors
    <3>2. QED
      BY <1>3, <2>2, <3>1
  <2>4. QED
    BY <1>1, <1>2, <1>3, <2>1, <2>2, <2>3, PollingStep DEF Polling
<1>7. QED
  BY <1>4, <1>5, <1>6

\* The clock's interrupt saves the ARP table.
LEMMA HandlerRtcStep ==
    ASSUME Inv, ~mixed, HandlerRtc
    PROVE  Inv'
<1>1. /\ UNCHANGED <<pc, todo, owner, lockers, count, waiters, owed>>
      /\ disk' = "idle" /\ command' = "write" /\ left' = 0 /\ irr' = TRUE
      /\ strays' = strays + 1
      /\ mixed' = (owner # None \/ \E t \in Tasks : pc[t] \in Directly)
  BY DEF HandlerRtc, locking, sem
<1>2. TypeOK'
  BY <1>1 DEF Inv, TypeOK
<1>3. OwnerInCall' /\ LockersWait' /\ WaitersWait' /\ HasSectors'
  BY <1>1 DEF Inv, OwnerInCall, LockersWait, WaitersWait, HasSectors
<1>4. PermitsStayBounded'
  BY <1>1 DEF Inv, TypeOK, PermitsStayBounded
<1>5. ASSUME ~mixed'
      PROVE  Apart'
  <2>1. \A u \in Tasks : pc[u] \notin InCall
    BY <1>1, <1>5, DiskAssumption DEF Inv, OwnerInCall
  <2>2. \A u \in Tasks : pc[u] \notin Commanding
    BY <1>1, <1>5, <2>1 DEF Commanding, UnderWay, Directly
  <2>3. Alone' /\ DeviceSound'
    BY <1>1, <2>2 DEF Alone, DeviceSound
  <2>4. \A u \in Tasks : TaskSound(u)' /\ Awaited(u)'
    BY <1>1, <2>2 DEF TaskSound, Awaited, Commanding, UnderWay, InCall, Polling
  <2>5. Balance'
    <3>1. \A u \in Tasks : ~Behind(u)'
      BY <1>1 DEF Behind
    <3>2. count + Latched <= 1 + strays
      BY <2>1 DEF Inv, PermitsStayBounded, Latched
    <3>3. QED
      BY <1>1, <3>1, <3>2 DEF Inv, TypeOK, Balance, Latched
  <2>6. QED
    BY <2>3, <2>4, <2>5 DEF Apart
<1>6. QED
  BY <1>2, <1>3, <1>4, <1>5 DEF Inv

\* The disk has served a sector, or gives up.
LEMMA ServeStep ==
    ASSUME Inv, NEW ok \in BOOLEAN, Serve(ok)
    PROVE  Inv'
<1>1. /\ disk = "busy" /\ ~mixed /\ irr' = TRUE
      /\ UNCHANGED <<pc, todo, owner, lockers, count, waiters, command, owed, mixed>>
      /\ left \in Nat /\ strays \in Nat /\ pc \in [Tasks -> PCs]
  BY DEF Inv, TypeOK, Serve, locking, sem
<1>2. PICK t \in Tasks : pc[t] \in Commanding
  BY <1>1 DEF Inv, Apart, DeviceSound
<1>3. \A u \in Tasks \ {t} : pc[u] \notin Commanding /\ ~Ahead(u) /\ ~Behind(u)
  BY <1>1, <1>2, OnlyOne
<1>4. /\ disk' \in {"idle", "data", "error"} /\ left' \in Nat
      /\ disk' = "data" => left' > 0
      /\ disk' # "data" => left' = 0
      /\ disk' # "error" => left' = left
  BY <1>1 DEF Serve, Inv, Apart, DeviceSound
<1>5. strays' = IF pc[t] \in Polling THEN strays + 1 ELSE strays
  BY <1>2, <1>3 DEF Serve, Commanding
<1>6. TypeOK'
  BY <1>1, <1>4, <1>5 DEF Inv, TypeOK
<1>7. OwnerInCall' /\ LockersWait' /\ WaitersWait' /\ HasSectors'
  BY <1>1 DEF Inv, OwnerInCall, LockersWait, WaitersWait, HasSectors
<1>8. Alone' /\ DeviceSound'
  BY <1>1, <1>2, <1>4 DEF Inv, Apart, Alone, DeviceSound
<1>9. \A u \in Tasks : TaskSound(u)' /\ Awaited(u)'
  <2>1. pc[t] \notin {"copy", "saving"}
    BY <1>1 DEF Inv, Apart, TaskSound
  <2>2. left = todo[t]
    BY <1>1, <1>2 DEF Inv, Apart, TaskSound
  <2>3. pc[t] \in Commanding => command = IF pc[t] \in Reading THEN "read" ELSE "write"
    BY <1>1 DEF Inv, Apart, TaskSound
  <2>4. TaskSound(t)'
    BY <1>1, <1>4, <2>1, <2>2, <2>3 DEF TaskSound
  <2>5. \A u \in Tasks \ {t} : TaskSound(u)'
    BY <1>1, <1>3 DEF TaskSound, Commanding, UnderWay, InCall, Polling
  <2>6. QED
    BY <1>1, <2>4, <2>5 DEF Awaited
<1>10. Balance'
  <2>1. \A u \in Tasks : ~Behind(u)'
    BY <1>1, <1>4 DEF Behind
  <2>2. \A u \in Tasks : ~Ahead(u)
    BY <1>1 DEF Ahead
  <2>3. count + Latched <= 1 + strays
    BY <1>1, <2>2 DEF Inv, Apart, Balance
  <2>4. \A u \in Tasks \ {t} : ~Ahead(u)'
    BY <1>1, <1>3 DEF Ahead, Commanding, UnderWay, InCall
  <2>5. CASE Ahead(t)' \/ pc[t] \in Polling
    <3>1. Ahead(t)' => pc[t] \notin Polling
      BY <1>1 DEF Ahead, Polling
    <3>2. CASE Ahead(t)'
      BY <1>1, <1>5, <2>1, <2>3, <3>1, <3>2 DEF Inv, TypeOK, Balance, Latched
    <3>3. CASE pc[t] \in Polling
      BY <1>1, <1>5, <2>1, <2>3, <3>3 DEF Inv, TypeOK, Balance, Latched
    <3>4. QED
      BY <2>5, <3>2, <3>3
  <2>6. CASE ~Ahead(t)' /\ pc[t] \notin Polling
    <3>1. Behind(t)
      <4>1. pc[t] \notin {"copy", "saving"}
        BY <1>1 DEF Inv, Apart, TaskSound
      <4>2. QED
        <5>1. pc'[t] = pc[t] /\ disk' # "busy" /\ disk = "busy"
          BY <1>1, <1>4
        <5>2. pc[t] \notin {"rwait", "wwait", "rsem", "wsem"}
          BY <2>6, <5>1 DEF Ahead
        <5>3. pc[t] \in UnderWay
          BY <1>2, <2>6 DEF Commanding
        <5>4. QED
          BY <4>1, <5>1, <5>2, <5>3 DEF Behind, UnderWay, InCall
    <3>2. count + Latched <= strays
      BY <1>1, <3>1 DEF Inv, Apart, Balance
    <3>3. QED
      BY <1>1, <1>5, <2>1, <2>6, <3>2 DEF Inv, TypeOK, Balance, Latched
  <2>7. QED
    BY <2>5, <2>6
<1>11. QED
  BY <1>6, <1>7, <1>8, <1>9, <1>10, BalanceGives DEF Inv, Apart

\* handler_hdc: a permit, or the waiter is let through.
LEMMA HandlerHdcStep ==
    ASSUME Inv, HandlerHdc
    PROVE  Inv'
<1>1. /\ irr = TRUE /\ irr' = FALSE /\ ~mixed
      /\ UNCHANGED <<todo, owner, lockers, disk, command, left, strays, mixed>>
      /\ count \in Nat /\ strays \in Nat /\ pc \in [Tasks -> PCs]
  BY DEF Inv, TypeOK, HandlerHdc, Deliverable, locking, device, past
<1>2. CASE waiters = <<>>
  <2>1. pc' = pc /\ waiters' = waiters /\ owed' = owed /\ count' = count + 1
    BY <1>2 DEF HandlerHdc, Counted
  <2>2. TypeOK'
    <3>1. count' \in Nat
      BY <1>1, <2>1
    <3>2. (irr \in BOOLEAN)'
      <4>1. irr' = FALSE
        BY <1>1
      <4>2. QED
        BY <4>1, Zenon
    <3>3. QED
      BY <1>1, <2>1, <3>1, <3>2 DEF Inv, TypeOK
  <2>3. OwnerInCall' /\ LockersWait' /\ WaitersWait' /\ HasSectors'
    BY <1>1, <2>1 DEF Inv, OwnerInCall, LockersWait, WaitersWait, HasSectors
  <2>4. Alone' /\ DeviceSound'
    BY <1>1, <2>1 DEF Inv, Apart, Alone, DeviceSound
  <2>5. \A u \in Tasks : TaskSound(u)' /\ Awaited(u)'
    <3>1. \A u \in Tasks : pc[u] \notin {"rsem", "wsem"}
      BY <1>2, EmptyOnce DEF Inv, WaitersWait
    <3>2. QED
      BY <1>1, <2>1, <3>1 DEF Inv, Apart, TaskSound, Awaited
  <2>6. Balance'
    <3>1. \A u \in Tasks : (Ahead(u)' <=> Ahead(u)) /\ (Behind(u)' <=> Behind(u))
      BY <1>1, <2>1 DEF Ahead, Behind
    <3>2. QED
      BY <1>1, <2>1, <3>1 DEF Inv, Apart, Balance, Latched
  <2>7. QED
    BY <2>2, <2>3, <2>4, <2>5, <2>6, BalanceGives DEF Inv, Apart
<1>3. CASE waiters # <<>>
  <2> DEFINE w == Head(waiters)
             b == IF pc[w] = "rsem" THEN "rpoll" ELSE "wpoll"
  <2>1. /\ w \in Tasks /\ w \in In(waiters) /\ Tail(waiters) \in Seq(Tasks)
        /\ Once(Tail(waiters)) /\ In(Tail(waiters)) = In(waiters) \ {w}
    BY <1>3, TailOnce DEF Inv, TypeOK, WaitersWait
  <2>2. pc[w] \in {"rsem", "wsem"} /\ pc[w] \in Commanding /\ pc[w] \in InCall
    BY <2>1 DEF Inv, WaitersWait, Commanding, UnderWay, InCall
  <2>3. /\ pc' = [pc EXCEPT ![w] = b] /\ pc'[w] = b
        /\ \A u \in Tasks \ {w} : pc'[u] = pc[u]
        /\ waiters' = Tail(waiters) /\ count' = count /\ owed' \in {"hdc", owed}
    BY <1>1, <1>3, <2>1 DEF HandlerHdc, Counted, Resumed
  <2>4. /\ b \in {"rpoll", "wpoll"} /\ b \in PCs /\ (pc[w] = "rsem" <=> b = "rpoll")
    BY <2>2 DEF PCs
  <2> HIDE DEF w, b
  <2>5. TypeOK'
    BY <1>1, <2>1, <2>3, <2>4 DEF Inv, TypeOK
  <2>6. OwnerInCall'
    BY <1>1, <2>1, <2>2, <2>3, <2>4 DEF Inv, OwnerInCall, InCall
  <2>7. LockersWait'
    <3>1. {u \in Tasks : pc'[u] \in {"rmutex", "wmutex"}}
             = {u \in Tasks : pc[u] \in {"rmutex", "wmutex"}}
      BY <2>2, <2>3, <2>4
    <3>2. QED
      BY <1>1, <3>1 DEF Inv, LockersWait
  <2>8. WaitersWait'
    <3>1. {u \in Tasks : pc'[u] \in {"rsem", "wsem"}}
             = {u \in Tasks : pc[u] \in {"rsem", "wsem"}} \ {w}
      BY <2>2, <2>3, <2>4
    <3>2. QED
      BY <2>1, <2>3, <3>1 DEF Inv, WaitersWait
  <2>9. HasSectors'
    BY <1>1, <2>2, <2>3, <2>4 DEF Inv, HasSectors, Moving
  <2>10. \A u \in Tasks \ {w} : pc[u] \notin Commanding /\ ~Ahead(u) /\ ~Behind(u)
    BY <1>1, <2>1, <2>2, OnlyOne
  <2>11. Alone' /\ DeviceSound'
    BY <1>1, <2>1, <2>2, <2>3, <2>4, <2>10
       DEF Inv, Apart, Alone, DeviceSound, Commanding, UnderWay, InCall
  <2>12. \A u \in Tasks : TaskSound(u)' /\ Awaited(u)'
    BY <1>1, <2>1, <2>2, <2>3, <2>4, <2>10
       DEF Inv, Apart, TaskSound, Awaited, Commanding, Reading, UnderWay, InCall, Polling
  <2>13. Balance'
    <3>1. \A u \in Tasks : ~Ahead(u)'
      BY <2>3, <2>4, <2>10 DEF Ahead, Commanding, UnderWay, InCall
    <3>2. CASE disk = "busy"
      <4>1. count + Latched <= 1 + strays
        BY <1>1, <3>2 DEF Inv, Apart, Balance, Ahead
      <4>2. QED
        BY <1>1, <2>3, <4>1 DEF Inv, TypeOK, Balance, Latched
    <3>3. CASE disk # "busy"
      <4>1. \A u \in Tasks : ~Behind(u)'
        BY <1>1, <3>3 DEF Behind
      <4>2. count + Latched <= 2 + strays
        BY <1>1 DEF Inv, Apart, Balance
      <4>3. QED
        BY <1>1, <2>3, <3>1, <4>1, <4>2 DEF Inv, TypeOK, Balance, Latched
    <3>4. QED
      BY <3>2, <3>3
  <2>14. QED
    BY <2>5, <2>6, <2>7, <2>8, <2>9, <2>11, <2>12, <2>13, BalanceGives DEF Inv, Apart
<1>4. QED
  BY <1>2, <1>3

------------------------------------------------------------------------------
(* The results.                                                            *)

\* The invariant holds at the start.
LEMMA InitInv == Init => Inv
<1> SUFFICES ASSUME Init PROVE Inv
  OBVIOUS
<1>1. TypeOK
  <2>1. pc \in [Tasks -> PCs] /\ todo \in [Tasks -> Nat]
    BY DEF Init, PCs
  <2>2. lockers \in Seq(Tasks) /\ waiters \in Seq(Tasks)
    BY DEF Init
  <2>3. QED
    BY <2>1, <2>2 DEF Init, TypeOK
<1>2. OwnerInCall
  BY DiskAssumption DEF Init, OwnerInCall, InCall
<1>3. LockersWait /\ WaitersWait
  BY EmptyOnce DEF Init, LockersWait, WaitersWait
<1>4. HasSectors
  BY DEF Init, HasSectors, Moving
<1>5. \A u \in Tasks : pc[u] \notin Commanding /\ ~Ahead(u) /\ ~Behind(u)
  BY DEF Init, Commanding, UnderWay, InCall, Polling, Ahead, Behind
<1>6. Alone /\ DeviceSound
  BY <1>5 DEF Init, Alone, DeviceSound
<1>7. \A u \in Tasks : TaskSound(u) /\ Awaited(u)
  BY <1>5 DEF Init, TaskSound, Awaited, Commanding, UnderWay, InCall, Polling
<1>8. Balance
  BY <1>5 DEF Init, Balance, Latched
<1>9. PermitsStayBounded
  BY DEF Init, PermitsStayBounded
<1>10. QED
  BY <1>1, <1>2, <1>3, <1>4, <1>6, <1>7, <1>8, <1>9 DEF Inv, Apart

\* Every step keeps the invariant.
LEMMA NextInv == Inv /\ [Next]_vars => Inv'
<1> SUFFICES ASSUME Inv, [Next]_vars PROVE Inv'
  OBVIOUS
<1>1. CASE UNCHANGED vars
  <2>1. UNCHANGED <<pc, todo, owner, lockers, count, waiters, disk, command, left,
                    irr, owed, strays, mixed>>
    BY <1>1 DEF vars, locking, sem, device, past
  <2>2. TypeOK' /\ OwnerInCall' /\ LockersWait' /\ WaitersWait' /\ HasSectors'
    BY <2>1 DEF Inv, TypeOK, OwnerInCall, LockersWait, WaitersWait, HasSectors
  <2>3. PermitsStayBounded'
    BY <2>1 DEF Inv, PermitsStayBounded
  <2>4. ~mixed' => Apart'
    BY <2>1 DEF Inv, Apart, Alone, DeviceSound, TaskSound, Awaited, Balance,
         Ahead, Behind, Latched
  <2>5. QED
    BY <2>2, <2>3, <2>4 DEF Inv
<1>2. ASSUME NEW t \in Tasks, Continue(t) PROVE Inv'
  BY <1>2, CommandStep, WriteDataStep, SemWaitStep, ReadDataStep, WrittenStep,
     UnlockStep, DirectCommandStep, DirectStep DEF Continue
<1>3. ASSUME NEW t \in Tasks, ~mixed, Call(t) \/ WakeByTimer(t) \/ WakeByKey(t)
      PROVE  Inv'
  <2>1. \A n \in ReadSizes \cup WriteSizes : n \in Nat /\ n > 0
    BY DiskAssumption
  <2>2. CASE Call(t)
    BY <1>3, <2>1, <2>2, LockStep, RestStep DEF Call
  <2>3. QED
    BY <1>3, <2>2, RestStep
<1>4. ASSUME NEW ok \in BOOLEAN, Serve(ok) PROVE Inv'
  BY <1>4, ServeStep
<1>5. CASE HandlerHdc
  BY <1>5, HandlerHdcStep
<1>6. CASE ~mixed /\ HandlerRtc
  BY <1>6, HandlerRtcStep
<1>7. CASE Stopped
  BY <1>1, <1>7 DEF Stopped
<1>8. QED
  BY <1>1, <1>2, <1>3, <1>4, <1>5, <1>6, <1>7 DEF Next

\* So it holds for ever.
LEMMA InvHolds == Spec => []Inv
BY InitInv, NextInv, PTL DEF Spec

\* The state of the driver stays in its types.
THEOREM TypeCorrect == Spec => []TypeOK
<1>1. Inv => TypeOK
  BY DEF Inv
<1>2. QED
  BY <1>1, InvHolds, PTL

\* One semaphore and one command register serve every task, and yet no sector
\* is moved for another call, until a transfer past the driver meets one.
THEOREM CommandsStayApart == Spec => []CommandIsOwners
<1>1. Inv => CommandIsOwners
  <2> SUFFICES ASSUME Inv PROVE CommandIsOwners
    OBVIOUS
  <2>1. \A t \in Tasks : pc[t] \in InCall => owner = t
    BY DEF Inv, OwnerInCall
  <2>2. ASSUME ~mixed, NEW t \in Tasks, pc[t] \in UnderWay, disk # "error"
        PROVE  /\ left = todo[t]
               /\ command = IF pc[t] \in {"rwait", "rsem", "rpoll"} THEN "read" ELSE "write"
    <3>1. pc[t] \in Commanding /\ pc[t] # "loading"
      BY <2>2 DEF Commanding, UnderWay, InCall
    <3>2. TaskSound(t)
      BY <2>2 DEF Inv, Apart
    <3>3. QED
      BY <2>2, <3>1, <3>2 DEF TaskSound, Reading
  <2>3. ASSUME ~mixed, disk \in {"busy", "data"}
        PROVE  \E t \in Tasks : pc[t] \in UnderWay \cup Polling
    BY <2>3 DEF Inv, Apart, DeviceSound, Commanding
  <2>4. QED
    BY <2>1, <2>2, <2>3 DEF CommandIsOwners
<1>2. QED
  BY <1>1, InvHolds, PTL

\* No task waits at the semaphore for an interrupt that has come already.
THEOREM WaitersAreServed == Spec => []InterruptIsToCome
<1>1. Inv => InterruptIsToCome
  <2> SUFFICES ASSUME Inv, waiters # <<>>, ~mixed
               PROVE  disk = "busy" \/ irr
    BY DEF InterruptIsToCome
  <2>1. PICK t \in Tasks : t \in In(waiters)
    BY NotEmpty DEF Inv, TypeOK
  <2>2. pc[t] \in {"rsem", "wsem"}
    BY <2>1 DEF Inv, WaitersWait
  <2>3. Awaited(t)
    BY DEF Inv, Apart
  <2>4. QED
    BY <2>2, <2>3 DEF Awaited
<1>2. QED
  BY <1>1, InvHolds, PTL

\* The waits and the interrupts of a call make up for each other, whatever merges
\* and whatever a transfer past the driver leaves behind.
THEOREM PermitsBalance == Spec => []PermitsStayBounded
<1>1. Inv => PermitsStayBounded
  BY DEF Inv
<1>2. QED
  BY <1>1, InvHolds, PTL

\* No sector is taken before it is there, however early a permit lets the task
\* through, and none given before the disk waits for it.
THEOREM SectorsInTime == Spec => DataWhenReady
<1>1. ASSUME Inv, [Next]_vars, NEW t \in Tasks,
             pc[t] \in {"rpoll", "copy", "loading", "saving"}, todo'[t] = todo[t] - 1
      PROVE  disk = "data"
  <2>1. todo[t] \in Nat /\ todo[t] > 0 /\ todo \in [Tasks -> Nat]
    BY <1>1 DEF Inv, TypeOK, HasSectors, Moving
  <2>2. todo' # todo
    BY <1>1, <2>1
  <2>3. CASE \E u \in Tasks : Continue(u)
    <3>1. PICK u \in Tasks : Continue(u)
      BY <2>3
    <3>2. ~mixed
      BY <3>1 DEF Continue
    <3>3. CASE WriteData(u) \/ Load(u) \/ Save(u)
      <4>1. u = t
        BY <1>1, <2>1, <3>3 DEF WriteData, Load, Save
      <4>2. CASE WriteData(u)
        <5>1. TaskSound(t)
          BY <1>1, <3>2 DEF Inv, Apart
        <5>2. pc[t] = "copy"
          BY <4>1, <4>2 DEF WriteData
        <5>3. QED
          BY <5>1, <5>2 DEF TaskSound
      <4>3. CASE Load(u) \/ Save(u)
        BY <4>3 DEF Load, Save
      <4>4. QED
        BY <3>3, <4>2, <4>3
    <3>4. CASE ReadData(u)
      <4>1. u = t /\ disk # "error"
        BY <1>1, <2>1, <2>2, <3>4 DEF ReadData
      <4>2. pc[t] = "rpoll" /\ disk # "busy"
        BY <3>4, <4>1 DEF ReadData, StatusSeen
      <4>3. left = todo[t]
        <5>1. TaskSound(t)
          BY <1>1, <3>2 DEF Inv, Apart
        <5>2. pc[t] \in Commanding
          BY <4>2 DEF Commanding, UnderWay, InCall
        <5>3. QED
          BY <4>1, <5>1, <5>2 DEF TaskSound
      <4>4. disk # "idle"
        BY <1>1, <3>2, <4>3, <2>1 DEF Inv, Apart, DeviceSound
      <4>5. QED
        BY <1>1, <4>1, <4>2, <4>4 DEF Inv, TypeOK
    <3>5. CASE Unlock(u)
      <4>1. u # t
        BY <1>1, <3>5 DEF Unlock
      <4>2. QED
        BY <1>1, <2>1, <3>5, <4>1 DEF Unlock
    <3>6. CASE Command(u) \/ SemWait(u) \/ Written(u) \/ DirectCommand(u)
               \/ Flush(u) \/ Flushed(u)
      BY <2>2, <3>6 DEF Command, SemWait, Written, DirectCommand, Flush, Flushed
    <3>7. QED
      BY <3>1, <3>3, <3>4, <3>5, <3>6 DEF Continue
  <2>4. CASE \E u \in Tasks : Call(u) \/ WakeByTimer(u) \/ WakeByKey(u)
    <3>1. PICK u \in Tasks : Call(u) \/ WakeByTimer(u) \/ WakeByKey(u)
      BY <2>4
    <3>2. pc[u] \in {"user", "rest"}
      BY <3>1 DEF Call, Lock, Enter, Rest, WakeByTimer, WakeByKey
    <3>3. todo'[t] = todo[t]
      <4>1. t # u
        BY <1>1, <3>2
      <4>2. ASSUME NEW n \in Nat, todo' = [todo EXCEPT ![u] = n]
            PROVE  todo'[t] = todo[t]
        BY <2>1, <4>1, <4>2
      <4>3. \A n \in ReadSizes \cup WriteSizes \cup {LoadSize, 1} : n \in Nat
        BY DiskAssumption
      <4>4. CASE Call(u)
        BY <4>2, <4>3, <4>4 DEF Call, Lock, Enter, Rest
      <4>5. CASE WakeByTimer(u) \/ WakeByKey(u)
        BY <4>5 DEF WakeByTimer, WakeByKey
      <4>6. QED
        BY <3>1, <4>4, <4>5
    <3>4. QED
      BY <1>1, <2>1, <3>3
  <2>5. CASE (\E ok \in BOOLEAN : Serve(ok)) \/ HandlerHdc \/ HandlerRtc \/ Stopped
             \/ UNCHANGED vars
    <3>1. UNCHANGED todo
      BY <2>5 DEF Serve, HandlerHdc, HandlerRtc, Stopped, vars
    <3>2. QED
      BY <2>2, <3>1
  <2>6. QED
    BY <1>1, <2>3, <2>4, <2>5 DEF Next
<1>2. Inv /\ [Next]_vars =>
         [\A t \in Tasks :
             pc[t] \in {"rpoll", "copy", "loading", "saving"} /\ todo'[t] = todo[t] - 1
                => disk = "data"]_vars
  BY <1>1
<1>3. QED
  BY <1>2, InvHolds, PTL DEF Spec, DataWhenReady
==============================================================================
