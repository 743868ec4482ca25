----------------------------- MODULE Files_proofs -----------------------------
(***************************************************************************)
(* Proofs about Files, for any number of tasks, device slots, descriptors, *)
(* terminals and mount points, without a bound on what is opened.          *)
(***************************************************************************)
EXTENDS Files, FiniteSetTheorems, SequenceTheorems, WellFoundedInduction, TLAPS

InUse(i) == dt[i].opc > 0

\* Slots are taken from the front and none in use is ever given back.
Packed == \A i, j \in Slots : i < j /\ InUse(j) => InUse(i)
OneSlotEach ==
    \A i, j \in Slots : InUse(i) /\ InUse(j)
                           /\ dt[i].major = dt[j].major /\ dt[i].minor = dt[j].minor => i = j
TtysExist == \A i \in Slots : InUse(i) /\ dt[i].major = Tty => dt[i].minor \in Ttys
\* A terminal that has been initialised, has been so once, and has a slot.
InitHasSlot ==
    \A n \in Ttys : inits[n] # 0 =>
       inits[n] = 1 /\ \E i \in Slots : InUse(i) /\ dt[i].major = Tty /\ dt[i].minor = n

\* Nothing is opened before the mounts are done.
BootIsQuiet ==
    /\ kernel = "boot" => mounted = <<>>
    /\ kernel = "mounting" => mounted = <<Dev>> \/ (mounted = <<>> /\ NFs = 0)
    /\ kernel \in {"boot", "mounting"} =>
          /\ dt = [i \in Slots |-> Unused] /\ first = None
          /\ \A t \in Tasks : files[t] = <<>>

\* The disk has the first slot and the terminal opened first the next one.
DiskThenTerminal ==
    HasRoot =>
       /\ 0 \in Slots => dt[0].major = Disk /\ InUse(0)
       /\ first = None => \A i \in Slots : i > 0 => ~InUse(i)
       /\ first # None => DevTty \in Slots /\ InUse(DevTty)
                          /\ dt[DevTty].major = Tty /\ dt[DevTty].minor = first

TtyFiles ==
    \A t \in Tasks : \A i \in DOMAIN files[t] :
       files[t][i].type = Tty => first # None /\ files[t][i].devid = DevTty

Inv ==
    /\ TypeOK
    /\ Packed /\ OneSlotEach /\ TtysExist /\ InitHasSlot
    /\ BootIsQuiet /\ DiskThenTerminal /\ TtyFiles

------------------------------------------------------------------------------
(* The first of a set of numbers, and the first slot that fits.            *)

\* A set of numbers that is not empty has a least one.
LEMMA Least ==
    ASSUME NEW T, T \subseteq Nat, T # {}
    PROVE  \E x \in T : \A y \in T : x <= y
<1>1. \E x \in T : \A y \in T : ~ (<<y, x>> \in OpToRel(<, Nat))
  BY NatLessThanWellFounded, WFMin
<1>2. PICK x \in T : \A y \in T : ~ (<<y, x>> \in OpToRel(<, Nat))
  BY <1>1
<1>3. \A y \in T : ~(y < x)
  BY <1>2 DEF OpToRel
<1>4. QED
  BY <1>3

\* task_alloc_fd finds a descriptor that is free.
LEMMA MinIsLeast ==
    ASSUME NEW T, T \subseteq Nat, T # {}
    PROVE  Min(T) \in T /\ \A y \in T : Min(T) <= y
BY Least DEF Min

\* device_open takes the first slot that fits, when there is one.
LEMMA SlotIsFirst ==
    ASSUME FilesAssumption, NEW major, NEW minor, \E i \in Slots : Fits(i, major, minor)
    PROVE  /\ Slot(major, minor) \in Slots /\ Fits(Slot(major, minor), major, minor)
           /\ \A j \in Slots : j < Slot(major, minor) => ~Fits(j, major, minor)
<1> DEFINE T == {i \in Slots : Fits(i, major, minor)}
<1>1. T \subseteq Nat /\ T # {} /\ Slots \subseteq Nat
  BY DEF Slots, FilesAssumption
<1>2. PICK i \in T : \A j \in T : i <= j
  BY <1>1, Least
<1>3. /\ i \in Slots /\ Fits(i, major, minor)
      /\ \A j \in 0..(i - 1) : ~Fits(j, major, minor)
  <2>1. ASSUME NEW j \in 0..(i - 1) PROVE ~Fits(j, major, minor)
    <3>1. j \in Slots /\ ~(i <= j)
      BY <1>1, <1>2 DEF Slots, FilesAssumption
    <3>2. QED
      BY <1>2, <3>1
  <2>2. QED
    BY <1>2, <2>1
<1> DEFINE s == Slot(major, minor)
<1>4. s \in Slots /\ Fits(s, major, minor) /\ \A j \in 0..(s - 1) : ~Fits(j, major, minor)
  <2>1. \E x \in Slots : Fits(x, major, minor) /\ \A j \in 0..(x - 1) : ~Fits(j, major, minor)
    BY <1>3
  <2>2. QED
    BY <2>1 DEF Slot
<1> HIDE DEF s
<1>5. \A j \in Slots : j < s => j \in 0..(s - 1)
  BY <1>1, <1>4 DEF Slots
<1>6. QED
  BY <1>4, <1>5 DEF s

------------------------------------------------------------------------------
(* The device table.                                                       *)

USE FilesAssumption

\* The invariant holds before anything is mounted.
LEMMA InitInv == Init => Inv
<1> SUFFICES ASSUME Init PROVE Inv
  OBVIOUS
<1>1. TypeOK
  BY DEF Init, TypeOK, Unused, Slots, Fds, Ttys, None, Tty, Disk
<1>2. Packed /\ OneSlotEach /\ TtysExist /\ InitHasSlot
  BY DEF Init, Packed, OneSlotEach, TtysExist, InitHasSlot, InUse, Unused, Slots, Ttys
<1>3. BootIsQuiet /\ DiskThenTerminal /\ TtyFiles
  BY DEF Init, BootIsQuiet, DiskThenTerminal, TtyFiles, HasRoot
<1>4. QED
  BY <1>1, <1>2, <1>3 DEF Inv

TableType == [major : {"none", Tty, Disk}, minor : 0..NTty, opc : Nat]

\* What device_open of a terminal does to the table: a slot in use keeps its
\* device, and one that is not gets what no other has.
LEMMA OpenKeepsTable ==
    ASSUME Inv, kernel = "up", NEW screen \in 0..NTty, NEW id \in Slots \cup {None},
           DeviceOpen(Tty, screen, id), UNCHANGED <<kernel, mounted>>
    PROVE  /\ dt' \in [Slots -> TableType] /\ inits' \in [Ttys -> Nat]
           /\ Packed' /\ OneSlotEach' /\ TtysExist' /\ InitHasSlot'
           /\ \A i \in Slots : InUse(i) => /\ InUse(i)' /\ dt'[i].major = dt[i].major
                                           /\ dt'[i].minor = dt[i].minor
           /\ id = None => \A i \in Slots : InUse(i)' <=> InUse(i)
           /\ id # None => /\ id \in Slots /\ screen \in Ttys
                           /\ InUse(id)' /\ dt'[id].major = Tty /\ dt'[id].minor = screen
                           /\ \A j \in Slots : j < id => InUse(j) /\ ~Fits(j, Tty, screen)
                           /\ \A j \in Slots : j # id => (InUse(j)' <=> InUse(j))
<1>1. /\ dt \in [Slots -> TableType] /\ inits \in [Ttys -> Nat] /\ None \notin Slots
      /\ Slots \subseteq Nat
  BY DEF Inv, TypeOK, TableType, None, Slots
<1>2. CASE \A i \in Slots : ~Fits(i, Tty, screen)
  <2>1. id = None /\ dt' = dt /\ inits' = inits
    BY <1>2 DEF DeviceOpen
  <2>2. QED
    BY <2>1, <1>1 DEF Inv, Packed, OneSlotEach, TtysExist, InitHasSlot, InUse
<1>3. CASE \E i \in Slots : Fits(i, Tty, screen)
  <2>1. PICK i \in Slots :
           /\ i = Slot(Tty, screen) /\ Fits(i, Tty, screen)
           /\ \A j \in Slots : j < i => ~Fits(j, Tty, screen)
    BY <1>3, SlotIsFirst
  <2>2. dt[i] \in TableType /\ dt[i].opc \in Nat /\ i \in Nat
    BY <1>1 DEF TableType
  <2>3. PICK o \in Nat :
           /\ o > 0 <=> (dt[i].opc # 0 \/ screen \in Ttys)
           /\ id = IF o > 0 THEN i ELSE None
           /\ dt' = [dt EXCEPT ![i] = [major |-> Tty, minor |-> screen, opc |-> o]]
           /\ inits' = IF dt[i].opc = 0 /\ o > 0 THEN [inits EXCEPT ![screen] = @ + 1] ELSE inits
    <3> DEFINE ok == dt[i].opc = 0 => screen \in Ttys
    <3>1. /\ id = IF ok THEN i ELSE None
          /\ dt' = [dt EXCEPT ![i] = [major |-> Tty, minor |-> screen,
                                      opc |-> IF ok THEN dt[i].opc + 1 ELSE 0]]
          /\ inits' = IF dt[i].opc = 0 /\ ok THEN [inits EXCEPT ![screen] = @ + 1] ELSE inits
      BY <1>3, <2>1 DEF DeviceOpen, Tty, Disk
    <3>2. CASE ok
      <4>1. /\ id = i
            /\ dt' = [dt EXCEPT ![i] = [major |-> Tty, minor |-> screen, opc |-> dt[i].opc + 1]]
            /\ inits' = IF dt[i].opc = 0 THEN [inits EXCEPT ![screen] = @ + 1] ELSE inits
        BY <3>1, <3>2
      <4>2. dt[i].opc + 1 \in Nat /\ dt[i].opc + 1 > 0
        BY <2>2
      <4>3. dt[i].opc # 0 \/ screen \in Ttys
        BY <3>2
      <4>4. QED
        BY <4>1, <4>2, <4>3
    <3>3. CASE ~ok
      <4>1. /\ id = None /\ inits' = inits
            /\ dt' = [dt EXCEPT ![i] = [major |-> Tty, minor |-> screen, opc |-> 0]]
            /\ ~(dt[i].opc # 0 \/ screen \in Ttys)
        BY <3>1, <3>3
      <4>2. 0 \in Nat /\ ~(0 > 0)
        OBVIOUS
      <4>3. QED
        BY <4>1, <4>2
    <3>4. QED
      BY <3>2, <3>3
  <2>4. [major |-> Tty, minor |-> screen, opc |-> o] \in TableType
    BY DEF TableType
  <2>5. /\ \A j \in Slots \ {i} : dt'[j] = dt[j]
        /\ dt'[i].major = Tty /\ dt'[i].minor = screen /\ dt'[i].opc = o
        /\ dt' \in [Slots -> TableType]
    BY <1>1, <2>3, <2>4
  <2>6. inits' \in [Ttys -> Nat]
    BY <1>1, <2>3
  <2> DEFINE fresh == dt[i].opc = 0
             ok == o > 0
  <2>7. /\ \A j \in Slots \ {i} : InUse(j)' <=> InUse(j)
        /\ InUse(i)' <=> ok
        /\ InUse(i) <=> ~fresh
        /\ ~fresh => dt[i].major = Tty /\ dt[i].minor = screen
        /\ ~fresh => ok
    BY <2>1, <2>2, <2>3, <2>5 DEF InUse, Fits
  <2>8. \A j \in Slots : j < i => InUse(j)
    <3> SUFFICES ASSUME NEW j \in Slots, j < i PROVE InUse(j)
      OBVIOUS
    <3>1. dt[j].opc \in Nat /\ dt[j].opc # 0
      BY <2>1, <1>1 DEF Fits, TableType
    <3>2. QED
      BY <3>1 DEF InUse
  <2>9. \A j \in Slots : j \in Nat /\ (j < i \/ j = i \/ j > i)
    BY <1>1, <2>2
  <2> HIDE DEF fresh, ok
  <2>10. fresh => \A j \in Slots : j >= i => ~InUse(j)
    <3>1. ASSUME fresh, NEW j \in Slots, j > i PROVE ~InUse(j)
      BY <3>1, <2>1, <2>7 DEF Inv, Packed
    <3>2. QED
      BY <3>1, <2>1, <2>7, <2>9
  <2>11. ok => screen \in Ttys
    BY <2>3, <2>7 DEF Inv, TtysExist, ok, fresh
  <2>12. Packed'
    <3> SUFFICES ASSUME NEW j \in Slots, NEW l \in Slots, j < l, InUse(l)' PROVE InUse(j)'
      BY DEF Packed
    <3>1. CASE l = i
      BY <3>1, <2>7, <2>8, <2>9
    <3>2. CASE l # i
      <4>1. InUse(l) /\ InUse(j)
        BY <3>2, <2>7 DEF Inv, Packed
      <4>2. QED
        BY <4>1, <2>7
    <3>3. QED
      BY <3>1, <3>2
  <2>13. \A j \in Slots : j # i /\ InUse(j) => ~(dt[j].major = Tty /\ dt[j].minor = screen)
    <3> SUFFICES ASSUME NEW j \in Slots, j # i, InUse(j), dt[j].major = Tty, dt[j].minor = screen
                 PROVE  FALSE
      OBVIOUS
    <3>1. j > i
      BY <2>1, <2>9 DEF Fits
    <3>2. ~fresh
      BY <3>1, <2>2, <2>9, <2>10
    <3>3. QED
      BY <3>2, <2>1, <2>7 DEF Inv, OneSlotEach
  <2>14. OneSlotEach'
    <3> SUFFICES ASSUME NEW j \in Slots, NEW l \in Slots, InUse(j)', InUse(l)',
                        dt'[j].major = dt'[l].major, dt'[j].minor = dt'[l].minor
                 PROVE  j = l
      BY DEF OneSlotEach
    <3>1. CASE j # i /\ l # i
      BY <3>1, <2>5, <2>7 DEF Inv, OneSlotEach
    <3>2. CASE j = i \/ l = i
      BY <3>2, <2>5, <2>7, <2>13
    <3>3. QED
      BY <3>1, <3>2
  <2>15. TtysExist'
    BY <2>5, <2>7, <2>11 DEF Inv, TtysExist
  <2>16. \A j \in Slots : InUse(j) => /\ InUse(j)' /\ dt'[j].major = dt[j].major
                                      /\ dt'[j].minor = dt[j].minor
    BY <2>5, <2>7
  <2>17. InitHasSlot'
    <3> SUFFICES ASSUME NEW n \in Ttys, inits'[n] # 0
                 PROVE  inits'[n] = 1 /\ \E j \in Slots : InUse(j)' /\ dt'[j].major = Tty /\ dt'[j].minor = n
      BY DEF InitHasSlot
    <3>1. CASE fresh /\ ok /\ n = screen
      <4>1. inits[n] = 0
        BY <3>1, <2>7, <2>13 DEF Inv, InitHasSlot
      <4>2. inits'[n] = 1
        BY <3>1, <4>1, <2>3, <1>1 DEF fresh, ok
      <4>3. QED
        BY <3>1, <4>2, <2>5, <2>7
    <3>2. CASE ~(fresh /\ ok /\ n = screen)
      <4>1. inits'[n] = inits[n]
        BY <3>2, <2>3, <1>1 DEF fresh, ok
      <4>2. PICK j \in Slots : inits[n] = 1 /\ InUse(j) /\ dt[j].major = Tty /\ dt[j].minor = n
        BY <3>2, <4>1 DEF Inv, InitHasSlot
      <4>3. QED
        BY <4>1, <4>2, <2>16
    <3>3. QED
      BY <3>1, <3>2
  <2>18. id = None => \A j \in Slots : InUse(j)' <=> InUse(j)
    BY <2>3, <2>7, <1>1 DEF ok
  <2>19. id # None => id = i /\ ok
    BY <2>3 DEF ok
  <2>20. QED
    BY <2>1, <2>5, <2>6, <2>7, <2>8, <2>11, <2>12, <2>14, <2>15, <2>17, <2>16, <2>18, <2>19
<1>4. QED
  BY <1>2, <1>3

------------------------------------------------------------------------------
(* The mounts.                                                             *)

\* The two mount points differ.
LEMMA DevIsNotRoot == Dev # Root /\ Root # Dev
<1>1. Len(Dev) = 2 /\ Len(Root) = 1
  BY DEF Dev, Root
<1>2. QED
  BY <1>1

\* Before the root is mounted, it is not among the mounts.
LEMMA NoRootYet ==
    /\ mounted \in {<<>>, <<Dev>>} => ~HasRoot
    /\ mounted' \in {<<>>, <<Dev>>} => ~HasRoot'
<1>1. \A m \in {<<>>, <<Dev>>} : Root \notin {m[i] : i \in DOMAIN m}
  <2>1. Root \notin {<<>>[i] : i \in DOMAIN <<>>}
    OBVIOUS
  <2>2. Root \notin {<<Dev>>[i] : i \in DOMAIN <<Dev>>}
    BY DevIsNotRoot
  <2>3. QED
    BY <2>1, <2>2
<1>2. QED
  BY <1>1 DEF HasRoot

\* Mounting /dev opens no device.
LEMMA MountDevKeepsInv == Inv /\ MountDev => Inv'
<1> SUFFICES ASSUME Inv, MountDev PROVE Inv'
  OBVIOUS
<1>1. /\ kernel = "boot" /\ kernel' = "mounting" /\ mounted = <<>>
      /\ UNCHANGED <<dt, inits, first, files, ftb>>
  BY DEF MountDev, Inv, BootIsQuiet, tables
<1>2. mounted' = <<Dev>> \/ (mounted' = <<>> /\ NFs = 0)
  <2>1. ~Taken(Dev) /\ Len(mounted) = 0 /\ Append(<<>>, Dev) = <<Dev>>
    BY <1>1 DEF Taken
  <2>2. QED
    BY <1>1, <2>1 DEF MountDev
<1>3. TypeOK'
  BY <1>1, <1>2 DEF Inv, TypeOK
<1>4. Packed' /\ OneSlotEach' /\ TtysExist' /\ InitHasSlot' /\ TtyFiles'
  BY <1>1 DEF Inv, Packed, OneSlotEach, TtysExist, InitHasSlot, TtyFiles, InUse
<1>5. BootIsQuiet'
  BY <1>1, <1>2 DEF Inv, BootIsQuiet
<1>6. DiskThenTerminal'
  BY <1>2, NoRootYet DEF DiskThenTerminal
<1>7. QED
  BY <1>3, <1>4, <1>5, <1>6 DEF Inv

\* What Append makes of one mount and a second one.
LEMMA PairAppend ==
    ASSUME NEW S, NEW a \in S, NEW b \in S
    PROVE  Append(<<a>>, b) = <<a, b>>
<1>1. /\ <<a>> \in Seq(S) /\ Len(<<a>>) = 1 /\ <<a>>[1] = a
      /\ <<a, b>> \in Seq(S) /\ Len(<<a, b>>) = 2 /\ <<a, b>>[1] = a /\ <<a, b>>[2] = b
  OBVIOUS
<1> DEFINE s == <<a>>
           u == <<a, b>>
           v == Append(s, b)
<1> HIDE DEF s
<1>2. /\ v \in Seq(S) /\ Len(v) = 2 /\ v[1] = a /\ v[2] = b
  BY <1>1, AppendProperties DEF s
<1> HIDE DEF u, v
<1>3. u \in Seq(S) /\ Len(u) = 2 /\ u[1] = a /\ u[2] = b
  BY <1>1 DEF u
<1>4. \A i \in 1..Len(v) : v[i] = u[i]
  <2>1. \A i \in 1..2 : i = 1 \/ i = 2
    OBVIOUS
  <2>2. QED
    BY <1>2, <1>3, <2>1
<1>5. v = u
  BY <1>2, <1>3, <1>4, SeqEqual
<1>6. QED
  BY <1>5 DEF s, u, v

\* Whether the disk is mounted or not, no other slot is in use.
LEMMA MountRootKeepsInv == Inv /\ MountRoot => Inv'
<1> SUFFICES ASSUME Inv, MountRoot PROVE Inv'
  OBVIOUS
<1>1. /\ kernel = "mounting" /\ kernel' = "up" /\ (mounted = <<Dev>> \/ (mounted = <<>> /\ NFs = 0))
      /\ dt = [i \in Slots |-> Unused] /\ first = None /\ \A t \in Tasks : files[t] = <<>>
      /\ UNCHANGED <<inits, first, files, ftb>>
  BY DEF MountRoot, Inv, BootIsQuiet, tables
<1>2. \/ dt' = WithDisk(dt) /\ mounted' = <<Dev, Root>>
      \/ dt' = MountFails(dt) /\ mounted' = mounted
  <2>1. Append(<<Dev>>, Root) = <<Dev, Root>> /\ Len(<<>>) = 0
    <3>1. Dev \in {Dev, Root} /\ Root \in {Dev, Root}
      OBVIOUS
    <3>2. QED
      BY <3>1, PairAppend
  <2>2. CASE ~Taken(Root) /\ Len(mounted) < NFs /\ dt' = Mounts(dt)
             /\ mounted' = Append(mounted, Root)
    <3>1. mounted = <<Dev>>
      <4>1. ~(0 < 0)
        OBVIOUS
      <4>2. QED
        BY <1>1, <2>1, <2>2, <4>1
    <3>2. QED
      BY <3>1, <2>1, <2>2 DEF Mounts
  <2>3. CASE dt' = MountFails(dt) /\ UNCHANGED mounted
    BY <2>3
  <2>4. QED
    BY <2>2, <2>3 DEF MountRoot
<1> DEFINE disk == [major |-> Disk, minor |-> 0, opc |-> 1]
<1>3. /\ disk \in TableType /\ Unused \in TableType /\ Unused.opc = 0
      /\ disk.major = Disk /\ disk.opc = 1
  BY DEF TableType, Unused
<1> HIDE DEF disk
<1>4. \/ dt' = [i \in Slots |-> IF i = 0 THEN disk ELSE Unused]
         /\ mounted' = <<Dev, Root>>
      \/ dt' = [i \in Slots |-> Unused] /\ mounted' = mounted
  <2>1. WithDisk(dt) = [i \in Slots |-> IF i = 0 THEN disk ELSE Unused]
    BY <1>1 DEF WithDisk, disk
  <2>2. MountFails(dt) = [i \in Slots |-> Unused]
    <3> DEFINE d == WithDisk(dt)
    <3>1. MountFails(dt) = DeviceClose(d, 0) /\ d = [i \in Slots |-> IF i = 0 THEN disk ELSE Unused]
      BY <2>1 DEF MountFails
    <3> HIDE DEF d
    <3>2. CASE 0 \in Slots
      <4>1. d[0].opc = 1
        BY <3>1, <3>2, <1>3
      <4>2. DeviceClose(d, 0) = [d EXCEPT ![0] = Unused]
        BY <4>1 DEF DeviceClose
      <4>3. QED
        BY <3>1, <4>2
    <3>3. CASE 0 \notin Slots
      BY <3>1, <3>3 DEF DeviceClose
    <3>4. QED
      BY <3>2, <3>3
  <2>3. QED
    BY <1>2, <2>1, <2>2
<1>5. /\ dt' \in [Slots -> TableType]
      /\ \A i \in Slots : InUse(i)' => i = 0 /\ dt'[i].major = Disk
  BY <1>3, <1>4 DEF InUse
<1>6. TypeOK'
  BY <1>1, <1>4, <1>5 DEF Inv, TypeOK, TableType
<1>7. Packed' /\ OneSlotEach' /\ TtysExist'
  BY <1>5 DEF Packed, OneSlotEach, TtysExist, Slots, Tty, Disk
<1>8. InitHasSlot'
  <2>1. \A i \in Slots : ~InUse(i)
    BY <1>1, <1>3 DEF InUse
  <2>2. \A n \in Ttys : inits[n] = 0
    BY <2>1 DEF Inv, InitHasSlot
  <2>3. QED
    BY <1>1, <2>2 DEF InitHasSlot
<1>9. BootIsQuiet'
  BY <1>1 DEF BootIsQuiet
<1>10. DiskThenTerminal'
  <2>1. CASE mounted' = mounted
    BY <2>1, <1>1, NoRootYet DEF DiskThenTerminal
  <2>2. CASE dt' = [i \in Slots |-> IF i = 0 THEN disk ELSE Unused]
    BY <2>2, <1>1, <1>3, <1>5 DEF DiskThenTerminal, InUse
  <2>3. QED
    BY <1>4, <2>1, <2>2
<1>11. TtyFiles'
  BY <1>1 DEF TtyFiles
<1>12. QED
  BY <1>6, <1>7, <1>8, <1>9, <1>10, <1>11 DEF Inv

------------------------------------------------------------------------------
(* The calls.                                                              *)

\* A call on descriptors: no file becomes another one's.
LEMMA FilesKept ==
    ASSUME Inv, kernel = "up", kernel' \in {"up", "down"}, UNCHANGED <<mounted, dt, inits, first>>,
           files' \in [Tasks -> Seq(File)], ftb' \in [Tasks -> [Fds -> Nat]],
           \A t \in Tasks : \A fd \in Fds : ftb'[t][fd] <= Len(files'[t]),
           \A t \in Tasks : \A i \in DOMAIN files'[t] :
              \/ files'[t][i].type # Tty
              \/ /\ i \in DOMAIN files[t] /\ files'[t][i].type = files[t][i].type
                 /\ files'[t][i].devid = files[t][i].devid
    PROVE  Inv'
<1>1. TypeOK'
  BY DEF Inv, TypeOK
<1>2. Packed' /\ OneSlotEach' /\ TtysExist' /\ InitHasSlot'
  BY DEF Inv, Packed, OneSlotEach, TtysExist, InitHasSlot, InUse
<1>3. BootIsQuiet'
  BY DEF BootIsQuiet
<1>4. DiskThenTerminal'
  BY DEF Inv, DiskThenTerminal, HasRoot, InUse
<1>5. TtyFiles'
  BY DEF Inv, TtyFiles
<1>6. QED
  BY <1>1, <1>2, <1>3, <1>4, <1>5 DEF Inv

\* A file is opened at the end of the list of the task's files.
LEMMA NewFileTypes ==
    ASSUME Inv, NEW t \in Tasks, NEW type \in {Tty, "file"}, NEW screen \in Ttys,
           NEW devid \in {0, DevTty}, NewFile(t, type, screen, devid)
    PROVE  /\ files' \in [Tasks -> Seq(File)] /\ ftb' \in [Tasks -> [Fds -> Nat]]
           /\ \A u \in Tasks : \A fd \in Fds : ftb'[u][fd] <= Len(files'[u])
           /\ \A u \in Tasks : \A i \in DOMAIN files'[u] :
                 \/ i \in DOMAIN files[u] /\ files'[u][i] = files[u][i]
                 \/ files'[u][i].type = type /\ files'[u][i].devid = devid
<1> DEFINE fd == IF FreeFds(t) = {} THEN None ELSE Min(FreeFds(t))
           f == [type |-> type, screen |-> screen, devid |-> devid, fd |-> fd, ref |-> 1]
<1>1. fd \in Fds \cup {None} /\ (FreeFds(t) # {} => fd \in Fds)
  <2>1. FreeFds(t) \subseteq Fds /\ Fds \subseteq Nat
    BY DEF FreeFds, Fds
  <2>2. QED
    BY <2>1, MinIsLeast
<1>2. /\ files' = [files EXCEPT ![t] = Append(@, f)]
      /\ ftb' = IF fd = None THEN ftb ELSE [ftb EXCEPT ![t][fd] = Len(files[t]) + 1]
  BY DEF NewFile
<1> HIDE DEF fd
<1>3. f \in File /\ f.type = type /\ f.devid = devid
  BY <1>1 DEF File
<1> HIDE DEF f
<1>4. /\ files[t] \in Seq(File) /\ files \in [Tasks -> Seq(File)] /\ Len(files[t]) \in Nat
      /\ ftb \in [Tasks -> [Fds -> Nat]]
      /\ \A u \in Tasks : \A x \in Fds : ftb[u][x] <= Len(files[u]) /\ ftb[u][x] \in Nat
  BY DEF Inv, TypeOK
<1>5. /\ Append(files[t], f) \in Seq(File) /\ Len(Append(files[t], f)) = Len(files[t]) + 1
      /\ DOMAIN Append(files[t], f) = 1..(Len(files[t]) + 1)
      /\ \A i \in 1..Len(files[t]) : Append(files[t], f)[i] = files[t][i]
      /\ Append(files[t], f)[Len(files[t]) + 1] = f
      /\ DOMAIN files[t] = 1..Len(files[t])
  BY <1>3, <1>4
<1>6. /\ files' \in [Tasks -> Seq(File)]
      /\ files'[t] = Append(files[t], f)
      /\ \A u \in Tasks \ {t} : files'[u] = files[u]
  BY <1>2, <1>4, <1>5
<1>7. ftb' \in [Tasks -> [Fds -> Nat]]
  BY <1>1, <1>2, <1>4
<1>8. ASSUME NEW u \in Tasks, NEW x \in Fds PROVE ftb'[u][x] <= Len(files'[u])
  <2>1. ftb'[u][x] = ftb[u][x] \/ (u = t /\ ftb'[u][x] = Len(files[t]) + 1)
    BY <1>2, <1>4
  <2>2. Len(files'[u]) = Len(files[u]) \/ (u = t /\ Len(files'[u]) = Len(files[t]) + 1)
    BY <1>5, <1>6
  <2>3. Len(files[u]) \in Nat
    BY <1>4
  <2>4. QED
    BY <2>1, <2>2, <2>3, <1>4, <1>5, <1>6
<1>9. ASSUME NEW u \in Tasks, NEW i \in DOMAIN files'[u]
      PROVE  \/ i \in DOMAIN files[u] /\ files'[u][i] = files[u][i]
             \/ files'[u][i].type = type /\ files'[u][i].devid = devid
  <2>1. CASE u # t
    BY <2>1, <1>6
  <2>2. CASE u = t
    <3>1. i \in 1..Len(files[t]) \/ i = Len(files[t]) + 1
      BY <2>2, <1>4, <1>5, <1>6
    <3>2. QED
      BY <3>1, <2>2, <1>3, <1>5, <1>6
  <2>3. QED
    BY <2>1, <2>2
<1>10. QED
  BY <1>6, <1>7, <1>8, <1>9

\* fopen of a terminal: the first one gets the slot after the disk's.
LEMMA OpenTtyKeepsInv ==
    ASSUME Inv, NEW t \in Tasks, NEW screen \in 0..NTty, OpenTty(t, screen)
    PROVE  Inv'
<1>1. PICK id \in Slots \cup {None} :
         /\ DeviceOpen(Tty, screen, id)
         /\ IF id = None
            THEN UNCHANGED <<tables, first>>
            ELSE /\ NewFile(t, Tty, screen, DevTty)
                 /\ first' = IF first = None THEN screen ELSE first
  BY DEF OpenTty
<1>2. kernel = "up" /\ UNCHANGED <<kernel, mounted>>
  BY DEF OpenTty
<1>3. /\ dt' \in [Slots -> TableType] /\ inits' \in [Ttys -> Nat]
      /\ Packed' /\ OneSlotEach' /\ TtysExist' /\ InitHasSlot'
  BY <1>1, <1>2, OpenKeepsTable
<1>4. \A i \in Slots : InUse(i) => /\ InUse(i)' /\ dt'[i].major = dt[i].major
                                    /\ dt'[i].minor = dt[i].minor
  BY <1>1, <1>2, OpenKeepsTable
<1>5. BootIsQuiet' /\ (HasRoot' <=> HasRoot)
  BY <1>2 DEF BootIsQuiet, HasRoot
<1>6. CASE id = None
  <2>1. UNCHANGED <<files, ftb, first>>
    BY <1>1, <1>6 DEF tables
  <2>2. \A i \in Slots : InUse(i)' <=> InUse(i)
    BY <1>1, <1>2, <1>6, OpenKeepsTable
  <2>3. TypeOK'
    BY <1>2, <1>3, <2>1 DEF Inv, TypeOK, TableType
  <2>4. DiskThenTerminal'
    BY <1>4, <1>5, <2>1, <2>2 DEF Inv, DiskThenTerminal
  <2>5. TtyFiles'
    BY <2>1 DEF Inv, TtyFiles
  <2>6. QED
    BY <1>3, <1>5, <2>3, <2>4, <2>5 DEF Inv
<1>7. CASE id # None
  <2>1. /\ NewFile(t, Tty, screen, DevTty)
        /\ first' = IF first = None THEN screen ELSE first
    BY <1>1, <1>7
  <2>2. /\ id \in Slots /\ screen \in Ttys
        /\ InUse(id)' /\ dt'[id].major = Tty /\ dt'[id].minor = screen
        /\ \A j \in Slots : j < id => InUse(j)
    BY <1>1, <1>2, <1>7, OpenKeepsTable
  <2>3. first' \in Ttys /\ first' # None /\ (first # None => first' = first)
    BY <2>1, <2>2 DEF Inv, TypeOK, None, Ttys
  <2>4. /\ files' \in [Tasks -> Seq(File)] /\ ftb' \in [Tasks -> [Fds -> Nat]]
        /\ \A u \in Tasks : \A fd \in Fds : ftb'[u][fd] <= Len(files'[u])
        /\ \A u \in Tasks : \A i \in DOMAIN files'[u] :
              \/ i \in DOMAIN files[u] /\ files'[u][i] = files[u][i]
              \/ files'[u][i].type = Tty /\ files'[u][i].devid = DevTty
    BY <2>1, <2>2, NewFileTypes DEF DevTty
  <2>5. TypeOK'
    BY <1>2, <1>3, <2>3, <2>4 DEF Inv, TypeOK, TableType
  <2>6. TtyFiles'
    BY <2>3, <2>4 DEF Inv, TtyFiles
  <2>7. ASSUME HasRoot, first = None PROVE id = 1
    <3>1. id \in Nat /\ \A i \in Slots : i > 0 => ~InUse(i)
      BY <2>2, <2>7 DEF Inv, DiskThenTerminal, Slots
    <3>2. id # 0
      BY <2>2, <2>7, <1>4 DEF Inv, DiskThenTerminal, Tty, Disk
    <3>3. ~(1 < id)
      <4>1. 1 < id => 1 \in Slots
        BY <2>2 DEF Slots
      <4>2. QED
        BY <4>1, <3>1, <2>2
    <3>4. QED
      BY <3>1, <3>2, <3>3
  <2>8. DiskThenTerminal'
    <3> SUFFICES ASSUME HasRoot PROVE DiskThenTerminal'
      BY <1>5 DEF DiskThenTerminal
    <3>1. 0 \in Slots => dt'[0].major = Disk /\ InUse(0)'
      BY <1>4 DEF Inv, DiskThenTerminal
    <3>2. CASE first = None
      <4>1. id = DevTty /\ first' = screen
        BY <3>2, <2>1, <2>7 DEF DevTty
      <4>2. QED
        BY <4>1, <3>1, <2>2, <2>3 DEF DiskThenTerminal
    <3>3. CASE first # None
      <4>1. DevTty \in Slots /\ InUse(DevTty) /\ dt[DevTty].major = Tty /\ dt[DevTty].minor = first
        BY <3>3 DEF Inv, DiskThenTerminal
      <4>2. InUse(DevTty)' /\ dt'[DevTty].major = Tty /\ dt'[DevTty].minor = first'
        BY <4>1, <3>3, <1>4, <2>3
      <4>3. QED
        BY <4>1, <4>2, <3>1, <2>3 DEF DiskThenTerminal
    <3>4. QED
      BY <3>2, <3>3
  <2>9. QED
    BY <1>3, <1>5, <2>5, <2>6, <2>8 DEF Inv
<1>8. QED
  BY <1>6, <1>7

\* fopen of a disk file.
LEMMA OpenFileKeepsInv ==
    ASSUME Inv, NEW t \in Tasks, OpenFile(t)
    PROVE  Inv'
<1>1. kernel = "up" /\ UNCHANGED <<mounted, dt, inits, first>>
  BY DEF OpenFile
<1>2. CASE HasRoot
  <2>1. NewFile(t, "file", 0, 0) /\ kernel' = "up"
    BY <1>1, <1>2 DEF OpenFile
  <2>2. 0 \in Ttys /\ "file" \in {Tty, "file"} /\ 0 \in {0, DevTty} /\ "file" # Tty
    BY DEF Ttys, Tty
  <2>3. /\ files' \in [Tasks -> Seq(File)] /\ ftb' \in [Tasks -> [Fds -> Nat]]
        /\ \A u \in Tasks : \A fd \in Fds : ftb'[u][fd] <= Len(files'[u])
        /\ \A u \in Tasks : \A i \in DOMAIN files'[u] :
              \/ i \in DOMAIN files[u] /\ files'[u][i] = files[u][i]
              \/ files'[u][i].type = "file" /\ files'[u][i].devid = 0
    BY <2>1, <2>2, NewFileTypes
  <2>4. QED
    BY <1>1, <2>1, <2>2, <2>3, FilesKept
<1>3. CASE ~HasRoot
  <2>1. kernel' = "down" /\ UNCHANGED <<files, ftb>>
    BY <1>3 DEF OpenFile, tables
  <2>2. QED
    BY <1>1, <2>1, FilesKept DEF Inv, TypeOK
<1>4. QED
  BY <1>2, <1>3

\* A descriptor that is taken names a file of its task.
LEMMA DescriptorHasFile ==
    ASSUME Inv, NEW t \in Tasks, NEW fd \in Fds, Has(t, fd)
    PROVE  ftb[t][fd] \in DOMAIN files[t] /\ ftb[t][fd] \in Nat
<1>1. /\ files[t] \in Seq(File) /\ ftb[t][fd] \in Nat /\ ftb[t][fd] # 0
      /\ ftb[t][fd] <= Len(files[t])
  BY DEF Inv, TypeOK, Has
<1>2. DOMAIN files[t] = 1..Len(files[t]) /\ Len(files[t]) \in Nat
  BY <1>1
<1>3. QED
  BY <1>1, <1>2

\* One file is changed, and stays a file of the same device.
LEMMA OneFileChanged ==
    ASSUME Inv, NEW t \in Tasks, NEW k \in DOMAIN files[t], NEW f \in File,
           f.type = files[t][k].type, f.devid = files[t][k].devid,
           files' = [files EXCEPT ![t] = [@ EXCEPT ![k] = f]]
    PROVE  /\ files' \in [Tasks -> Seq(File)]
           /\ \A u \in Tasks : Len(files'[u]) = Len(files[u])
           /\ \A u \in Tasks : \A i \in DOMAIN files'[u] :
                 /\ i \in DOMAIN files[u] /\ files'[u][i].type = files[u][i].type
                 /\ files'[u][i].devid = files[u][i].devid
<1>1. files \in [Tasks -> Seq(File)] /\ files[t] \in Seq(File)
  BY DEF Inv, TypeOK
<1> DEFINE g == [files[t] EXCEPT ![k] = f]
<1>2. /\ g \in Seq(File) /\ Len(g) = Len(files[t]) /\ DOMAIN g = DOMAIN files[t]
      /\ g[k] = f /\ \A i \in DOMAIN files[t] \ {k} : g[i] = files[t][i]
  BY <1>1
<1>3. files' = [files EXCEPT ![t] = g]
  OBVIOUS
<1> HIDE DEF g
<1>4. files'[t] = g /\ \A u \in Tasks \ {t} : files'[u] = files[u]
  BY <1>1, <1>3
<1>5. files' \in [Tasks -> Seq(File)]
  BY <1>1, <1>2, <1>3
<1>6. \A u \in Tasks : Len(files'[u]) = Len(files[u])
  BY <1>2, <1>4
<1>7. ASSUME NEW u \in Tasks, NEW i \in DOMAIN files'[u]
      PROVE  /\ i \in DOMAIN files[u] /\ files'[u][i].type = files[u][i].type
             /\ files'[u][i].devid = files[u][i].devid
  BY <1>2, <1>4
<1>8. QED
  BY <1>5, <1>6, <1>7

\* dup.
LEMMA DupKeepsInv ==
    ASSUME Inv, NEW t \in Tasks, NEW fd \in Fds, Dup(t, fd)
    PROVE  Inv'
<1> DEFINE k == ftb[t][fd]
           nfd == Min(FreeFds(t))
           f == [files[t][k] EXCEPT !.ref = @ + 1]
<1>1. k \in DOMAIN files[t] /\ k \in Nat
  BY DescriptorHasFile DEF Dup
<1>2. /\ kernel = "up" /\ UNCHANGED <<kernel, mounted, dt, inits, first>> /\ FreeFds(t) # {}
      /\ ftb' = [ftb EXCEPT ![t][nfd] = k]
      /\ files' = [files EXCEPT ![t] = [@ EXCEPT ![k] = f]]
  BY DEF Dup, Has
<1>3. nfd \in Fds
  <2>1. FreeFds(t) \subseteq Fds /\ Fds \subseteq Nat
    BY DEF FreeFds, Fds
  <2>2. QED
    BY <2>1, <1>2, MinIsLeast
<1>4. files[t] \in Seq(File) /\ files[t][k] \in File
  BY <1>1 DEF Inv, TypeOK
<1>5. f \in File /\ f.type = files[t][k].type /\ f.devid = files[t][k].devid
  <2>1. files[t][k].ref \in Nat \ {0}
    BY <1>4 DEF File
  <2>2. PICK r \in Nat \ {0} : r = files[t][k].ref + 1
    BY <2>1
  <2>3. f = [files[t][k] EXCEPT !.ref = r]
    BY <2>2
  <2>4. QED
    BY <1>4, <2>3 DEF File
<1> HIDE DEF nfd, f
<1>6. /\ files' \in [Tasks -> Seq(File)]
      /\ \A u \in Tasks : Len(files'[u]) = Len(files[u])
      /\ \A u \in Tasks : \A i \in DOMAIN files'[u] :
            /\ i \in DOMAIN files[u] /\ files'[u][i].type = files[u][i].type
            /\ files'[u][i].devid = files[u][i].devid
  BY <1>1, <1>2, <1>5, OneFileChanged
<1>7. /\ ftb \in [Tasks -> [Fds -> Nat]]
      /\ \A u \in Tasks : \A x \in Fds : ftb[u][x] <= Len(files[u])
  BY DEF Inv, TypeOK
<1>8. /\ ftb' \in [Tasks -> [Fds -> Nat]]
      /\ \A u \in Tasks : \A x \in Fds : ftb'[u][x] = ftb[u][x] \/ (u = t /\ ftb'[u][x] = ftb[t][fd])
  BY <1>1, <1>2, <1>3, <1>7
<1>9. \A u \in Tasks : \A x \in Fds : ftb'[u][x] <= Len(files'[u])
  BY <1>6, <1>7, <1>8
<1>10. QED
  BY <1>2, <1>6, <1>8, <1>9, FilesKept

\* fclose, any number of times, leaves a file of the same device.
LEMMA ClosedIsFile ==
    ASSUME NEW f \in File, NEW n \in Nat, n > 0, 0 \in Fds
    PROVE  Closed(f, n) \in File /\ Closed(f, n).type = f.type /\ Closed(f, n).devid = f.devid
<1>1. CASE n < f.ref
  <2>1. f.ref \in Nat
    BY DEF File
  <2>2. PICK r \in Nat \ {0} : r = f.ref - n
    BY <1>1, <2>1
  <2>3. Closed(f, n) = [f EXCEPT !.ref = r]
    BY <1>1, <2>2 DEF Closed
  <2>4. QED
    BY <2>3 DEF File
<1>2. CASE ~(n < f.ref)
  <2> DEFINE g == [f EXCEPT !.ref = 1]
             h == [g EXCEPT !.fd = 0]
  <2>1. Closed(f, n) = h
    BY <1>2 DEF Closed
  <2>2. 1 \in Nat \ {0} /\ 0 \in Fds \cup {None}
    OBVIOUS
  <2>3. g \in File /\ g.type = f.type /\ g.devid = f.devid
    BY <2>2 DEF File
  <2> HIDE DEF g
  <2>4. h \in File /\ h.type = g.type /\ h.devid = g.devid
    BY <2>2, <2>3 DEF File
  <2>5. QED
    BY <2>1, <2>3, <2>4
<1>3. QED
  BY <1>1, <1>2

\* fclose of one descriptor.
LEMMA CloseKeepsInv ==
    ASSUME Inv, NEW t \in Tasks, NEW fd \in Fds, Close(t, fd)
    PROVE  Inv'
<1> DEFINE k == ftb[t][fd]
           f == Closed(files[t][k], 1)
<1>1. k \in DOMAIN files[t] /\ k \in Nat
  BY DescriptorHasFile DEF Close
<1>2. kernel = "up" /\ UNCHANGED <<mounted, dt, inits, first, ftb>>
  BY DEF Close, Has
<1>3. CASE kernel' = "down" /\ UNCHANGED files
  BY <1>2, <1>3, FilesKept DEF Inv, TypeOK
<1>4. CASE files' = [files EXCEPT ![t] = [@ EXCEPT ![k] = f]] /\ UNCHANGED kernel
  <2>1. files[t] \in Seq(File) /\ files[t][k] \in File
    BY <1>1 DEF Inv, TypeOK
  <2>2. 0 \in Fds /\ 1 \in Nat /\ 1 > 0
    BY DEF Fds
  <2>3. f \in File /\ f.type = files[t][k].type /\ f.devid = files[t][k].devid
    BY <2>1, <2>2, ClosedIsFile
  <2> HIDE DEF f
  <2>4. /\ files' \in [Tasks -> Seq(File)]
        /\ \A u \in Tasks : Len(files'[u]) = Len(files[u])
        /\ \A u \in Tasks : \A i \in DOMAIN files'[u] :
              /\ i \in DOMAIN files[u] /\ files'[u][i].type = files[u][i].type
              /\ files'[u][i].devid = files[u][i].devid
    BY <1>1, <1>4, <2>3, OneFileChanged
  <2>5. /\ ftb' \in [Tasks -> [Fds -> Nat]]
        /\ \A u \in Tasks : \A x \in Fds : ftb'[u][x] <= Len(files'[u])
    BY <1>2, <2>4 DEF Inv, TypeOK
  <2>6. QED
    BY <1>2, <1>4, <2>4, <2>5, FilesKept
<1>5. QED
  BY <1>3, <1>4 DEF Close, FileOf

\* tss_task_wait: as many references go as there are descriptors of the file.
LEMMA WaitKeepsInv ==
    ASSUME Inv, NEW t \in Tasks, Wait(t)
    PROVE  Inv'
<1> DEFINE n(i) == Cardinality({fd \in Fds : ftb[t][fd] = i})
           all == {i \in DOMAIN files[t] : n(i) > 0}
           g == [i \in DOMAIN files[t] |-> IF i \in all THEN Closed(files[t][i], n(i)) ELSE files[t][i]]
<1>1. kernel = "up" /\ UNCHANGED <<mounted, dt, inits, first, ftb>>
  BY DEF Wait
<1>2. /\ files \in [Tasks -> Seq(File)] /\ files[t] \in Seq(File)
      /\ \A i \in DOMAIN files[t] : files[t][i] \in File
  BY DEF Inv, TypeOK
<1>3. CASE kernel' = "down" /\ UNCHANGED files
  BY <1>1, <1>3, FilesKept DEF Inv, TypeOK
<1>4. CASE files' = [files EXCEPT ![t] = g] /\ UNCHANGED kernel
  <2>1. ASSUME NEW i \in DOMAIN files[t]
        PROVE  g[i] \in File /\ g[i].type = files[t][i].type /\ g[i].devid = files[t][i].devid
    <3>1. CASE i \in all
      <4> DEFINE T == {fd \in Fds : ftb[t][fd] = i}
      <4>1. IsFiniteSet(Fds) /\ T \subseteq Fds
        BY FS_Interval DEF Fds
      <4>2. IsFiniteSet(T) /\ Cardinality(T) \in Nat
        BY <4>1, FS_Subset, FS_CardinalityType
      <4>3. n(i) \in Nat /\ n(i) > 0
        BY <3>1, <4>2
      <4>4. 0 \in Fds
        <5>1. T # {}
          BY <4>3, FS_EmptySet
        <5>2. QED
          BY <5>1 DEF Fds
      <4>5. g[i] = Closed(files[t][i], n(i))
        BY <3>1
      <4> HIDE DEF n, g, all
      <4>6. QED
        BY <4>3, <4>4, <4>5, <1>2, ClosedIsFile
    <3>2. CASE i \notin all
      BY <3>2, <1>2
    <3>3. QED
      BY <3>1, <3>2
  <2>2. DOMAIN g = DOMAIN files[t]
    OBVIOUS
  <2> HIDE DEF g, n, all
  <2>3. g \in Seq(File) /\ Len(g) = Len(files[t])
    <3>1. DOMAIN files[t] = 1..Len(files[t]) /\ Len(files[t]) \in Nat
      BY <1>2
    <3>2. g = [i \in 1..Len(files[t]) |-> g[i]]
      BY <2>2, <3>1 DEF g
    <3> DEFINE len == Len(files[t])
    <3> HIDE DEF len
    <3>3. len \in Nat /\ \A i \in 1..len : g[i] \in File
      BY <2>1, <3>1 DEF len
    <3>4. DOMAIN g = 1..len /\ g = [i \in 1..len |-> g[i]]
      BY <3>1, <3>2, <2>2 DEF len
    <3>5. g \in [1..len -> File]
      BY <3>3, <3>4
    <3>6. g \in Seq(File) /\ Len(g) = len
      BY <3>3, <3>4, <3>5, SeqDef
    <3>7. QED
      BY <3>6 DEF len
  <2>4. files'[t] = g /\ files' \in [Tasks -> Seq(File)] /\ \A u \in Tasks \ {t} : files'[u] = files[u]
    BY <1>2, <1>4, <2>3
  <2>5. \A u \in Tasks : Len(files'[u]) = Len(files[u])
    BY <2>3, <2>4
  <2>6. /\ ftb' \in [Tasks -> [Fds -> Nat]]
        /\ \A u \in Tasks : \A x \in Fds : ftb'[u][x] <= Len(files'[u])
    BY <1>1, <2>5 DEF Inv, TypeOK
  <2>7. \A u \in Tasks : \A i \in DOMAIN files'[u] :
           /\ i \in DOMAIN files[u] /\ files'[u][i].type = files[u][i].type
           /\ files'[u][i].devid = files[u][i].devid
    BY <2>1, <2>2, <2>4
  <2>8. QED
    BY <1>1, <1>4, <2>4, <2>6, <2>7, FilesKept
<1>5. QED
  BY <1>3, <1>4 DEF Wait

\* read, write, getc and putc.
LEMMA UseKeepsInv ==
    ASSUME Inv, NEW t \in Tasks, NEW fd \in Fds, Use(t, fd)
    PROVE  Inv'
<1>1. kernel = "up" /\ UNCHANGED <<mounted, dt, inits, first, files, ftb>>
  BY DEF Use, Has, tables
<1>2. kernel' \in {"up", "down"}
  BY DEF Use
<1>3. QED
  BY <1>1, <1>2, FilesKept DEF Inv, TypeOK

\* The end of a task.
LEMMA ExitKeepsInv ==
    ASSUME Inv, NEW t \in Tasks, Exit(t)
    PROVE  Inv'
<1>1. /\ kernel = "up" /\ UNCHANGED <<kernel, mounted, dt, inits, first>>
      /\ files' = [files EXCEPT ![t] = <<>>]
      /\ ftb' = [ftb EXCEPT ![t] = [fd \in Fds |-> 0]]
  BY DEF Exit
<1>2. /\ files \in [Tasks -> Seq(File)] /\ ftb \in [Tasks -> [Fds -> Nat]]
      /\ \A u \in Tasks : \A x \in Fds : ftb[u][x] <= Len(files[u])
  BY DEF Inv, TypeOK
<1>3. <<>> \in Seq(File) /\ Len(<<>>) = 0 /\ DOMAIN <<>> = {} /\ [fd \in Fds |-> 0] \in [Fds -> Nat]
  OBVIOUS
<1>4. /\ files' \in [Tasks -> Seq(File)] /\ ftb' \in [Tasks -> [Fds -> Nat]]
      /\ files'[t] = <<>> /\ ftb'[t] = [fd \in Fds |-> 0]
      /\ \A u \in Tasks \ {t} : files'[u] = files[u] /\ ftb'[u] = ftb[u]
  BY <1>1, <1>2, <1>3
<1>5. ASSUME NEW u \in Tasks, NEW x \in Fds PROVE ftb'[u][x] <= Len(files'[u])
  <2>1. CASE u = t
    <3>1. ftb'[u][x] = 0 /\ Len(files'[u]) = 0
      BY <2>1, <1>3, <1>4
    <3>2. QED
      BY <3>1
  <2>2. CASE u # t
    BY <2>2, <1>2, <1>4
  <2>3. QED
    BY <2>1, <2>2
<1>6. \A u \in Tasks : \A i \in DOMAIN files'[u] :
         i \in DOMAIN files[u] /\ files'[u][i] = files[u][i]
  BY <1>3, <1>4
<1>7. QED
  BY <1>1, <1>4, <1>5, <1>6, FilesKept

------------------------------------------------------------------------------
(* The theorems.                                                           *)

\* Every step keeps the invariant.
LEMMA NextKeepsInv == Inv /\ [Next]_vars => Inv'
<1> SUFFICES ASSUME Inv, [Next]_vars PROVE Inv'
  OBVIOUS
<1>1. CASE MountDev
  BY <1>1, MountDevKeepsInv
<1>2. CASE MountRoot
  BY <1>2, MountRootKeepsInv
<1>3. ASSUME NEW t \in Tasks, NEW screen \in 0..NTty, OpenTty(t, screen) PROVE Inv'
  BY <1>3, OpenTtyKeepsInv
<1>4. ASSUME NEW t \in Tasks, OpenFile(t) \/ Wait(t) \/ Exit(t) PROVE Inv'
  BY <1>4, OpenFileKeepsInv, WaitKeepsInv, ExitKeepsInv
<1>5. ASSUME NEW t \in Tasks, NEW fd \in Fds, Dup(t, fd) \/ Close(t, fd) \/ Use(t, fd) PROVE Inv'
  BY <1>5, DupKeepsInv, CloseKeepsInv, UseKeepsInv
<1>6. CASE UNCHANGED vars
  <2>1. UNCHANGED <<kernel, mounted, dt, inits, first, files, ftb>>
    BY <1>6 DEF vars, tables
  <2>2. TypeOK' /\ HasRoot' = HasRoot
    BY <2>1 DEF Inv, TypeOK, HasRoot
  <2>3. Packed' /\ OneSlotEach' /\ TtysExist' /\ InitHasSlot'
    BY <2>1 DEF Inv, Packed, OneSlotEach, TtysExist, InitHasSlot, InUse
  <2>4. BootIsQuiet' /\ DiskThenTerminal' /\ TtyFiles'
    BY <2>1, <2>2 DEF Inv, BootIsQuiet, DiskThenTerminal, TtyFiles, InUse
  <2>5. QED
    BY <2>2, <2>3, <2>4 DEF Inv
<1>7. QED
  BY <1>1, <1>2, <1>3, <1>4, <1>5, <1>6 DEF Next

\* The inductive invariant of the device table and the descriptors.
LEMMA InvHolds == Spec => []Inv
BY InitInv, NextKeepsInv, PTL DEF Spec

\* Descriptors always name files of their task, and files and device slots are
\* well formed, whatever is opened, duplicated, closed and left behind.
THEOREM TypeCorrect == Spec => []TypeOK
<1>1. Inv => TypeOK
  BY DEF Inv
<1>2. QED
  BY <1>1, InvHolds, PTL

\* Once the disk is mounted, a terminal's file reaches its own terminal exactly
\* when terminal 0 was the first that anybody opened (dev_tty_open and the slot
\* that device_open takes).
THEOREM TerminalsReached == Spec => []RightTerminal
<1>1. Inv => RightTerminal
  <2> SUFFICES ASSUME Inv, HasRoot, NEW t \in Tasks, NEW i \in DOMAIN files[t],
                      files[t][i].type = Tty
               PROVE  dt[DevTty].major = Tty /\ Reach(files[t][i]) = files[t][i].screen <=> first = 0
    BY DEF RightTerminal
  <2>1. files[t][i].devid = DevTty /\ first # None
    BY DEF Inv, TtyFiles
  <2>2. dt[DevTty].major = Tty /\ dt[DevTty].minor = first
    BY <2>1 DEF Inv, DiskThenTerminal
  <2>3. files[t] \in Seq(File) /\ files[t][i] \in File /\ first \in Ttys
    BY <2>1 DEF Inv, TypeOK
  <2>4. files[t][i].screen \in Nat /\ first \in Nat
    BY <2>3 DEF File, Ttys
  <2>5. Reach(files[t][i]) = first + files[t][i].screen
    BY <2>1, <2>2 DEF Reach
  <2>6. QED
    BY <2>2, <2>4, <2>5
<1>2. QED
  BY <1>1, InvHolds, PTL

\* No terminal is initialised twice and no device has two slots (device_open).
THEOREM DevicesOnce == Spec => []InitialisedOnce
<1>1. Inv => InitialisedOnce
  <2> SUFFICES ASSUME Inv PROVE InitialisedOnce
    OBVIOUS
  <2>1. \A n \in Ttys : inits[n] <= 1
    <3> SUFFICES ASSUME NEW n \in Ttys PROVE inits[n] <= 1
      OBVIOUS
    <3>1. inits[n] \in Nat /\ (inits[n] # 0 => inits[n] = 1)
      BY DEF Inv, TypeOK, InitHasSlot
    <3>2. QED
      BY <3>1
  <2>2. QED
    BY <2>1 DEF InitialisedOnce, Inv, OneSlotEach, InUse
<1>2. QED
  BY <1>1, InvHolds, PTL

==============================================================================
