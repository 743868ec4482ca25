--------------------------------- MODULE Files ---------------------------------
(***************************************************************************)
(* File descriptors, mounts and the device table: kernel32/fs.c,           *)
(* kernel32/device.c, kernel32/fs/dev.c, the descriptor table of           *)
(* kernel32/task/tss.c and dev_tty_open.                                   *)
(*                                                                         *)
(* A FILE lives in the heap of the task that opens it, so files[t] are the *)
(* files of one task and ftb[t] its descriptors, as indices into files[t]. *)
(* What a FAT call finds on the disk is left open here: it succeeds or     *)
(* fails.  device_open masks interrupts and the descriptor table belongs   *)
(* to one task, so every call is one step.                                 *)
(*                                                                         *)
(* kernel = "down": it has followed a null pointer, read a terminal that   *)
(* is not there, or written over its own stack.                            *)
(*                                                                         *)
(* A definition X_How is X with a plausible slip in it; nothing uses it.   *)
(***************************************************************************)
EXTENDS Integers, SequencesExt

CONSTANTS
    Tasks,
    NDev,       \* DEVICE_TABLE_SIZE
    NFd,        \* TASK_FT_SIZE
    NTty,       \* TTY_DEV_NR
    NFs,        \* FS_TABLE_SIZE
    MaxOpens,   \* bound: files a task opens
    MaxOpc      \* bound: times one device is opened

ASSUME FilesAssumption ==
    /\ NDev \in Nat /\ NFd \in Nat /\ NTty \in Nat \ {0} /\ NFs \in Nat
    /\ MaxOpens \in Nat
    /\ MaxOpc \in Nat

VARIABLES
    kernel,     \* "boot", "mounting", "up" or "down"
    mounted,    \* the mounted list: mount points, oldest first
    dt,         \* the device table
    inits,      \* how often each terminal has been initialised
    first,      \* the first terminal that was opened (history)
    files, ftb

tables == <<files, ftb>>
vars == <<kernel, mounted, dt, inits, first, tables>>

None == -1
Tty == "tty"        \* DEV_TTY, whose number is also the devid of every terminal
DevTty == 1
Disk == "disk"
Slots == 0..(NDev - 1)
Fds == 0..(NFd - 1)
Ttys == 0..(NTty - 1)
Unused == [major |-> "none", minor |-> 0, opc |-> 0]

\* "/dev" and "/", component by component.
Dev == <<"/", "dev">>
Root == <<"/">>

File == [type : {Tty, "file"}, screen : Ttys, devid : {0, DevTty},
         fd : Fds \cup {None}, ref : Nat \ {0}]

TypeOK ==
    /\ kernel \in {"boot", "mounting", "up", "down"}
    /\ mounted \in {<<>>, <<Dev>>, <<Dev, Root>>}
    /\ dt \in [Slots -> [major : {"none", Tty, Disk}, minor : 0..NTty, opc : Nat]]
    /\ inits \in [Ttys -> Nat]
    /\ first \in Ttys \cup {None}
    /\ files \in [Tasks -> Seq(File)]
    /\ ftb \in [Tasks -> [Fds -> Nat]]
    /\ \A t \in Tasks : \A fd \in Fds : ftb[t][fd] <= Len(files[t])

Init ==
    /\ kernel = "boot" /\ mounted = <<>> /\ first = None
    /\ dt = [i \in Slots |-> Unused]
    /\ inits = [n \in Ttys |-> 0]
    /\ files = [t \in Tasks |-> <<>>]
    /\ ftb = [t \in Tasks |-> [i \in Fds |-> 0]]

-----------------------------------------------------------------------------
(* The device table. *)

Fits_Free(i, major, minor) == dt[i].opc = 0
\* device_open stops at the first slot that is unused or has the device.
Fits(i, major, minor) == dt[i].opc = 0 \/ (dt[i].major = major /\ dt[i].minor = minor)
Slot(major, minor) ==
    CHOOSE i \in Slots : /\ Fits(i, major, minor)
                         /\ \A j \in 0..(i - 1) : ~Fits(j, major, minor)

\* The driver is asked for a device no slot has; the slot is filled in by then,
\* and stays unused if the driver refuses.
DeviceOpen(major, minor, id) ==
    IF \A i \in Slots : ~Fits(i, major, minor)
    THEN id = None /\ UNCHANGED <<dt, inits>>
    ELSE LET i == Slot(major, minor)
             fresh == dt[i].opc = 0
             ok == fresh => major = Disk \/ minor \in Ttys
         IN  /\ id = IF ok THEN i ELSE None
             /\ dt' = [dt EXCEPT ![i] = [major |-> major, minor |-> minor,
                                         opc |-> IF ok THEN @.opc + 1 ELSE 0]]
             /\ inits' = IF fresh /\ ok /\ major = Tty
                         THEN [inits EXCEPT ![minor] = @ + 1]
                         ELSE inits

DeviceClose(d, id) ==
    [d EXCEPT ![id] = IF @.opc = 1 THEN Unused ELSE [@ EXCEPT !.opc = @ - 1]]

\* The terminal that reads and writes of file f reach: the driver adds the
\* screen kept in dcluster to the terminal of slot devid.
Reach(f) == dt[f.devid].minor + f.screen

-----------------------------------------------------------------------------
(* Mounting, at boot. *)

\* mount takes the mount point for one that is in use unless one of the two
\* names begins with the other.
Taken(mp) == \E i \in DOMAIN mounted :
                ~IsPrefix(mounted[i], mp) /\ ~IsPrefix(mp, mounted[i])

MountDev ==
    /\ kernel = "boot" /\ kernel' = "mounting"
    /\ mounted' = IF Taken(Dev) \/ Len(mounted) = NFs THEN mounted ELSE Append(mounted, Dev)
    /\ UNCHANGED <<dt, inits, first, tables>>

\* fat_fs_mount opens the disk, the first device of all, and closes it again if
\* what it reads there is no FAT16 volume or there is no page for its buffer.
WithDisk(d) == [d EXCEPT ![0] = [major |-> Disk, minor |-> 0, opc |-> 1]]
MountFails(d) == DeviceClose(WithDisk(d), 0)
Mounts_Closes(d) == DeviceClose(WithDisk(d), 0)
Mounts(d) == WithDisk(d)

MountRoot ==
    /\ kernel = "mounting" /\ kernel' = "up"
    /\ \/ /\ ~Taken(Root) /\ Len(mounted) < NFs
          /\ dt' = Mounts(dt)
          /\ mounted' = Append(mounted, Root)
       \/ /\ dt' = MountFails(dt)
          /\ UNCHANGED mounted
    /\ UNCHANGED <<inits, first, tables>>

HasRoot == Root \in {mounted[i] : i \in DOMAIN mounted}

-----------------------------------------------------------------------------
(* The calls of the tasks. *)

Has(t, fd) == kernel = "up" /\ ftb[t][fd] # 0
FileOf(t, fd) == files[t][ftb[t][fd]]

\* task_alloc_fd: the first free descriptor.  With none left, fopen returns -1
\* and leaves the device open.
FreeFds(t) == {fd \in Fds : ftb[t][fd] = 0}
NewFile(t, type, screen, devid) ==
    LET fd == IF FreeFds(t) = {} THEN None ELSE Min(FreeFds(t))
    IN  /\ files' = [files EXCEPT ![t] =
              Append(@, [type |-> type, screen |-> screen, devid |-> devid, fd |-> fd, ref |-> 1])]
        /\ ftb' = IF fd = None THEN ftb ELSE [ftb EXCEPT ![t][fd] = Len(files[t]) + 1]

\* fopen of /dev/ttyN, of any N.  Any name that "/dev/" begins with comes here
\* too, and the characters after its end say which terminal is meant, if any.
OpenTty(t, screen) ==
    /\ kernel = "up" /\ Len(files[t]) < MaxOpens /\ \A i \in Slots : dt[i].opc < MaxOpc
    /\ \E id \in Slots \cup {None} :
          /\ DeviceOpen(Tty, screen, id)
          /\ IF id = None
             THEN UNCHANGED <<tables, first>>
             ELSE /\ NewFile(t, Tty, screen, DevTty)
                  /\ first' = IF first = None THEN screen ELSE first
    /\ UNCHANGED <<kernel, mounted>>

\* fopen of a disk file that is there.
OpenFile(t) ==
    /\ kernel = "up" /\ Len(files[t]) < MaxOpens
    /\ IF HasRoot
       THEN NewFile(t, "file", 0, 0) /\ UNCHANGED kernel
       ELSE kernel' = "down" /\ UNCHANGED tables
    /\ UNCHANGED <<mounted, dt, inits, first>>

Dup(t, fd) ==
    /\ Has(t, fd) /\ FreeFds(t) # {}
    /\ LET nfd == Min(FreeFds(t))
       IN  /\ ftb' = [ftb EXCEPT ![t][nfd] = ftb[t][fd]]
           /\ files' = [files EXCEPT ![t][ftb[t][fd]].ref = @ + 1]
    /\ UNCHANGED <<kernel, mounted, dt, inits, first>>

Closed_ToZero(f, n) == [f EXCEPT !.ref = @ - n]
\* n times fclose.  The last reference is closed as a disk file, whatever it is:
\* that clears the first word of the FILE, its fd.  The descriptor stays, and
\* so does the open device.
Closed(f, n) ==
    IF n < f.ref THEN [f EXCEPT !.ref = @ - n] ELSE [f EXCEPT !.ref = 1, !.fd = 0]

Close(t, fd) ==
    /\ Has(t, fd)
    /\ IF FileOf(t, fd).ref = 1 /\ ~HasRoot
       THEN kernel' = "down" /\ UNCHANGED files
       ELSE /\ files' = [files EXCEPT ![t][ftb[t][fd]] = Closed(@, 1)]
            /\ UNCHANGED kernel
    /\ UNCHANGED <<mounted, dt, inits, first, ftb>>

\* tss_task_wait closes every descriptor of the caller.
Wait(t) ==
    LET n(i) == Cardinality({fd \in Fds : ftb[t][fd] = i})
        all == {i \in DOMAIN files[t] : n(i) > 0}
    IN  /\ kernel = "up" /\ all # {}
        /\ IF ~HasRoot /\ \E i \in all : n(i) >= files[t][i].ref
           THEN kernel' = "down" /\ UNCHANGED files
           ELSE /\ files' = [files EXCEPT ![t] =
                      [i \in DOMAIN @ |-> IF i \in all THEN Closed(@[i], n(i)) ELSE @[i]]]
                /\ UNCHANGED kernel
        /\ UNCHANGED <<mounted, dt, inits, first, ftb>>

\* read, write, getc and putc.  Of a terminal, they go where Reach says; getc
\* and putc of a disk file move a whole sector over a single character.
Use(t, fd) ==
    /\ Has(t, fd)
    /\ LET f == FileOf(t, fd)
           driver == dt[f.devid]
           reached == driver.major = Tty => driver.opc > 0 /\ Reach(f) \in Ttys
       IN  \/ f.type = "file" /\ kernel' \in {"up", "down"}
           \/ f.type = Tty /\ kernel' = IF reached THEN "up" ELSE "down"
    /\ UNCHANGED <<mounted, dt, inits, first, tables>>

\* tss_task_exit and the clearing of the task, which closes nothing.
Exit(t) ==
    /\ kernel = "up" /\ files[t] # <<>>
    /\ files' = [files EXCEPT ![t] = <<>>]
    /\ ftb' = [ftb EXCEPT ![t] = [fd \in Fds |-> 0]]
    /\ UNCHANGED <<kernel, mounted, dt, inits, first>>

Next ==
    \/ MountDev \/ MountRoot
    \/ \E t \in Tasks :
          \/ \E screen \in 0..NTty : OpenTty(t, screen)
          \/ OpenFile(t) \/ Wait(t) \/ Exit(t)
          \/ \E fd \in Fds : Dup(t, fd) \/ Close(t, fd) \/ Use(t, fd)

Spec == Init /\ [][Next]_vars

-----------------------------------------------------------------------------
(* Properties. *)

\* A terminal's file reaches its own terminal exactly when terminal 0 was the
\* first one that anybody opened: every terminal has the device id of the slot
\* after the disk's, so that slot must go to terminal 0 and never change hands,
\* whatever is opened, refused, closed and left behind by tasks that exit.
RightTerminal ==
    HasRoot => \A t \in Tasks : \A i \in DOMAIN files[t] :
        files[t][i].type = Tty =>
            (dt[DevTty].major = Tty /\ Reach(files[t][i]) = files[t][i].screen <=> first = 0)

\* Opening a terminal that is in use never initialises it again: its rings and
\* semaphores, which a task may be waiting on, belong to every opener.  And no
\* device has two slots.
InitialisedOnce ==
    /\ \A n \in Ttys : inits[n] <= 1
    /\ \A i, j \in Slots : dt[i].opc > 0 /\ dt[j].opc > 0
                              /\ dt[i].major = dt[j].major /\ dt[i].minor = dt[j].minor => i = j

=============================================================================
