---------------------------------- MODULE Disk ----------------------------------
(***************************************************************************)
(* The disk driver, kernel32/device/disk.c, with its interrupt, the        *)
(* end-of-interrupt order of kernel32/pic.c and the idle task.             *)
(*                                                                         *)
(* A call locks the disk, sends one command, and for every sector waits on *)
(* the semaphore that the interrupt notifies and then polls the status     *)
(* until the disk is no longer busy.  handler_hdc and handler_kbd notify   *)
(* before they send their end of interrupt.  If they have interrupted the  *)
(* idle task, the notify dispatches the task it wakes, and the handler is  *)
(* finished only when the idle task runs again: until then the interrupt   *)
(* controller keeps the disk's interrupt back (owed).                      *)
(*                                                                         *)
(* The kernel also moves sectors past the driver: read_disk loads a        *)
(* program, write_disk saves the interfaces and, from the clock's          *)
(* interrupt, the ARP table.  They take no lock and poll, and leave their  *)
(* interrupts to the driver's semaphore.  Nothing keeps such a command     *)
(* from meeting another one; what the disk makes of two commands at once   *)
(* is not defined, so the model records it (mixed) and stops.              *)
(*                                                                         *)
(* Only one disk is ever opened (ROOT_DEV), so one stands for the channel. *)
(* What the sectors hold is left out.                                      *)
(*                                                                         *)
(* A definition X_How is X with a plausible slip in it; nothing uses it.   *)
(***************************************************************************)
EXTENDS Naturals, Sequences, FiniteSets

CONSTANTS
    Tasks,
    None,
    ReadSizes,      \* sectors per read: one, or a cluster
    WriteSizes,     \* sectors per write: one
    Direct,         \* the tasks that go past the driver
    LoadSize,       \* sectors read to load a program
    MaxDirect       \* after so many strays no transfer goes past the driver

ASSUME DiskAssumption ==
    /\ None \notin Tasks
    /\ ReadSizes \subseteq Nat \ {0}
    /\ WriteSizes \subseteq Nat \ {0}
    /\ Direct \subseteq Tasks
    /\ LoadSize \in Nat \ {0}
    /\ MaxDirect \in Nat

VARIABLES
    pc,         \* where each task is
    todo,       \* sectors its call has still to move
    owner,      \* disk->mutex: its owner ...
    lockers,    \* ... and the tasks that wait for it
    count,      \* sem: its counter ...
    waiters,    \* ... and the tasks that wait
    disk,       \* what the status register shows
    command,    \* the command the disk is at
    left,       \* the sectors it has still to move
    irr,        \* its interrupt is latched in the interrupt controller
    owed,       \* whose end of interrupt the idle task has still to send
    strays,     \* interrupts of transfers past the driver
    mixed       \* a command was given while another one was under way

locking == <<owner, lockers>>
sem == <<count, waiters>>
device == <<disk, command, left>>
past == <<strays, mixed>>
vars == <<pc, todo, locking, sem, device, irr, owed, past>>

\* In read_disk or write_disk.
Polling == {"loading", "saving", "saved", "flushing"}
Directly == {"load", "save"} \cup Polling

PCs == {"user", "rest", "rmutex", "wmutex", "rcommand",
        "wcommand", "rwait", "wwait", "rsem", "wsem", "rpoll", "wpoll",
        "copy", "unlock"} \cup Directly

\* A task stopped at the semaphore, at the mutex, or somewhere else.
Blocked == {"rest", "rmutex", "wmutex", "rsem", "wsem"}

TypeOK ==
    /\ pc \in [Tasks -> PCs]
    /\ todo \in [Tasks -> Nat]
    /\ owner \in Tasks \cup {None}
    /\ lockers \in Seq(Tasks)
    /\ count \in Nat
    /\ waiters \in Seq(Tasks)
    /\ disk \in {"idle", "busy", "data", "error"}
    /\ command \in {"none", "read", "write"}
    /\ left \in Nat
    /\ irr \in BOOLEAN
    /\ owed \in {"nothing", "hdc", "kbd"}
    /\ strays \in Nat
    /\ mixed \in BOOLEAN

Ready(at) == {t \in Tasks : at[t] \notin Blocked}

\* A task that stops leaves the CPU to the idle task when it was the last one
\* ready; the idle task then finishes the handler it had been taken out of.
Settle_Forget(at) == pc' = at /\ UNCHANGED owed
Settle(at) ==
    /\ pc' = at
    /\ owed' = IF Ready(at) = {} THEN "nothing" ELSE owed

GoTo(t, to) == pc' = [pc EXCEPT ![t] = to] /\ UNCHANGED owed

------------------------------------------------------------------------------
(* dev_disk_read and dev_disk_write.                                       *)

\* mutex_lock, entered with the call.
Lock(t, call, n) ==
    /\ pc[t] = "user"
    /\ todo' = [todo EXCEPT ![t] = n]
    /\ IF owner = None
       THEN /\ owner' = t
            /\ GoTo(t, IF call = "read" THEN "rcommand" ELSE "wcommand")
            /\ UNCHANGED lockers
       ELSE /\ lockers' = Append(lockers, t)
            /\ Settle([pc EXCEPT ![t] = IF call = "read" THEN "rmutex" ELSE "wmutex"])
            /\ UNCHANGED owner
    /\ UNCHANGED <<sem, device, irr, past>>

\* Somebody else has the disk: a call that has locked it, or a transfer past
\* the driver.
InUse(t) == owner \notin {t, None} \/ \E u \in Tasks \ {t} : pc[u] \in Directly

\* dev_disk_command.
Command(t) ==
    /\ pc[t] \in {"rcommand", "wcommand"}
    /\ mixed' = InUse(t)
    /\ left' = todo[t]
    /\ IF pc[t] = "rcommand"
       THEN disk' = "busy" /\ command' = "read" /\ GoTo(t, "rwait")
       ELSE disk' = "data" /\ command' = "write" /\ GoTo(t, "copy")
    /\ UNCHANGED <<todo, locking, sem, irr, strays>>

\* disk_write_data; the disk takes the sector.
WriteData(t) ==
    /\ pc[t] = "copy"
    /\ disk' = "busy"
    /\ left' = left - 1
    /\ todo' = [todo EXCEPT ![t] = @ - 1]
    /\ GoTo(t, "wwait")
    /\ UNCHANGED <<locking, sem, command, irr, past>>

\* disk_wait.
SemWait(t) ==
    /\ pc[t] \in {"rwait", "wwait"}
    /\ LET reading == pc[t] = "rwait"
       IN  IF count > 0
           THEN /\ count' = count - 1
                /\ GoTo(t, IF reading THEN "rpoll" ELSE "wpoll")
                /\ UNCHANGED waiters
           ELSE /\ waiters' = Append(waiters, t)
                /\ Settle([pc EXCEPT ![t] = IF reading THEN "rsem" ELSE "wsem"])
                /\ UNCHANGED count
    /\ UNCHANGED <<todo, locking, device, irr, past>>

\* disk_wait_data goes round until the disk is no longer busy.
StatusSeen_AtOnce == disk # "none"
StatusSeen == disk # "busy"

\* ... and disk_read_data takes the sector.  On an error the loop is left and
\* the call goes on to report success.
More_OffByOne(n) == n > 1
More_Again(n) == n >= 0
More(n) == n > 0

ReadData(t) ==
    /\ pc[t] = "rpoll" /\ StatusSeen
    /\ IF disk = "error"
       THEN /\ GoTo(t, "unlock")
            /\ UNCHANGED <<todo, disk, left>>
       ELSE /\ todo' = [todo EXCEPT ![t] = @ - 1]
            /\ left' = IF left > 0 THEN left - 1 ELSE 0
            /\ disk' = IF left > 1 THEN "busy" ELSE "idle"
            /\ GoTo(t, IF More(todo[t] - 1) THEN "rwait" ELSE "unlock")
    /\ UNCHANGED <<locking, sem, command, irr, past>>

Written(t) ==
    /\ pc[t] = "wpoll" /\ StatusSeen
    /\ GoTo(t, IF disk # "error" /\ More(todo[t]) THEN "copy" ELSE "unlock")
    /\ UNCHANGED <<todo, locking, sem, device, irr, past>>

\* mutex_unlock hands the disk to the first who waits.
Unlock(t) ==
    /\ pc[t] = "unlock"
    /\ todo' = [todo EXCEPT ![t] = 0]
    /\ IF lockers = <<>>
       THEN /\ owner' = None
            /\ GoTo(t, "user")
            /\ UNCHANGED lockers
       ELSE LET w == Head(lockers)
            IN  /\ owner' = w
                /\ lockers' = Tail(lockers)
                /\ pc' = [pc EXCEPT ![t] = "user",
                                    ![w] = IF @ = "rmutex" THEN "rcommand" ELSE "wcommand"]
                /\ UNCHANGED owed
    /\ UNCHANGED <<sem, device, irr, past>>

------------------------------------------------------------------------------
(* read_disk and write_disk.                                               *)

\* load_elf_file reads a program, net_save writes the sector of interfaces.
Enter(t, call, n) ==
    /\ t \in Direct
    /\ pc[t] = "user"
    /\ strays < MaxDirect
    /\ todo' = [todo EXCEPT ![t] = n]
    /\ GoTo(t, call)
    /\ UNCHANGED <<locking, sem, device, irr, past>>

DirectCommand(t) ==
    /\ pc[t] \in {"load", "save"}
    /\ mixed' = InUse(t)
    /\ left' = todo[t]
    /\ IF pc[t] = "load"
       THEN disk' = "busy" /\ command' = "read" /\ GoTo(t, "loading")
       ELSE disk' = "data" /\ command' = "write" /\ GoTo(t, "saving")
    /\ UNCHANGED <<todo, locking, sem, irr, strays>>

\* Both go round until the disk shows DRQ: on an error, for ever.
Load(t) ==
    /\ pc[t] = "loading" /\ disk = "data"
    /\ todo' = [todo EXCEPT ![t] = @ - 1]
    /\ left' = left - 1
    /\ disk' = IF left > 1 THEN "busy" ELSE "idle"
    /\ GoTo(t, IF More(todo[t] - 1) THEN "loading" ELSE "user")
    /\ UNCHANGED <<locking, sem, command, irr, past>>

Save(t) ==
    /\ pc[t] = "saving" /\ disk = "data"
    /\ todo' = [todo EXCEPT ![t] = @ - 1]
    /\ left' = left - 1
    /\ disk' = "busy"
    /\ GoTo(t, "saved")
    /\ UNCHANGED <<locking, sem, command, irr, past>>

\* FLUSH CACHE is sent while the disk may still be at the sector, and so may
\* be taken or not.
Flush(t) ==
    /\ pc[t] = "saved" /\ disk # "busy"
    /\ \/ disk = "idle" /\ disk' = "busy" /\ GoTo(t, "flushing")
       \/ GoTo(t, "user") /\ UNCHANGED disk
    /\ UNCHANGED <<todo, locking, sem, command, left, irr, past>>

Flushed(t) ==
    /\ pc[t] = "flushing" /\ disk # "busy"
    /\ GoTo(t, "user")
    /\ UNCHANGED <<todo, locking, sem, device, irr, past>>

\* handler_rtc: flush_arp_map, with interrupts off to the end of the transfer
\* (on an error, for ever).  The disk's interrupts become one, which is latched.
HandlerRtc ==
    /\ owed = "nothing"
    /\ strays < MaxDirect /\ strays' = strays + 1
    /\ mixed' = (owner # None \/ \E t \in Tasks : pc[t] \in Directly)
    /\ irr' = TRUE
    /\ disk' = "idle" /\ command' = "write" /\ left' = 0
    /\ UNCHANGED <<pc, todo, locking, sem, owed>>

------------------------------------------------------------------------------
(* The disk, and what makes a task stop for other reasons.                 *)

\* The disk has a sector ready, has stored one, or gives up; each time it
\* raises its interrupt, which the controller keeps until it can deliver it.
Serve(ok) ==
    /\ disk = "busy" /\ ~mixed
    /\ irr' = TRUE
    /\ disk' = IF ~ok THEN "error"
               ELSE IF command = "read" \/ left > 0 THEN "data" ELSE "idle"
    /\ left' = IF ok THEN left ELSE 0
    /\ strays' = IF \E t \in Tasks : pc[t] \in Polling THEN strays + 1 ELSE strays
    /\ UNCHANGED <<pc, todo, locking, sem, command, owed, mixed>>

\* sem_notify lets the first waiter through to the polling.
Resumed_Rewait(at, t) ==
    [at EXCEPT ![t] = IF @ = "rsem" THEN "rwait" ELSE "wwait"]
Resumed(at, t) == [at EXCEPT ![t] = IF @ = "rsem" THEN "rpoll" ELSE "wpoll"]

Deliverable == irr /\ owed = "nothing" /\ ~mixed

Counted_Always == count + 1
Counted == IF waiters # <<>> THEN count ELSE count + 1

\* handler_hdc: disk_notify, then the end of interrupt, unless that is put off
\* because the idle task has been taken out of the handler.
HandlerHdc ==
    /\ Deliverable
    /\ irr' = FALSE
    /\ count' = Counted
    /\ IF waiters # <<>>
       THEN /\ waiters' = Tail(waiters)
            /\ pc' = Resumed(pc, Head(waiters))
            /\ owed' = IF Ready(pc) = {} THEN "hdc" ELSE owed
       ELSE UNCHANGED <<waiters, pc, owed>>
    /\ UNCHANGED <<todo, locking, device, past>>

\* A task stops until a key or the clock wakes it.
Rest(t) ==
    /\ pc[t] = "user"
    /\ Settle([pc EXCEPT ![t] = "rest"])
    /\ UNCHANGED <<todo, locking, sem, device, irr, past>>

\* handler_timer sends its end of interrupt first.
WakeByTimer(t) ==
    /\ pc[t] = "rest"
    /\ GoTo(t, "user")
    /\ UNCHANGED <<todo, locking, sem, device, irr, past>>

\* handler_kbd does so last; the keyboard's interrupt comes before the disk's.
WakeByKey(t) ==
    /\ pc[t] = "rest" /\ owed # "kbd"
    /\ pc' = [pc EXCEPT ![t] = "user"]
    /\ owed' = IF Ready(pc) = {} THEN "kbd" ELSE owed
    /\ UNCHANGED <<todo, locking, sem, device, irr, past>>

------------------------------------------------------------------------------
\* fs_init has read the disk before there are tasks: disk_notify does nothing
\* then, and an interrupt that came while interrupts were off is still latched.
Init ==
    /\ pc = [t \in Tasks |-> "user"]
    /\ todo = [t \in Tasks |-> 0]
    /\ owner = None /\ lockers = <<>>
    /\ count = 0 /\ waiters = <<>>
    /\ disk = "idle" /\ command = "none" /\ left = 0
    /\ irr \in BOOLEAN
    /\ owed = "nothing"
    /\ strays = 0 /\ mixed = FALSE

Call(t) ==
    \/ \E n \in ReadSizes : Lock(t, "read", n)
    \/ \E n \in WriteSizes : Lock(t, "write", n)
    \/ Enter(t, "load", LoadSize) \/ Enter(t, "save", 1)
    \/ Rest(t)

Continue(t) ==
    /\ ~mixed
    /\ \/ Command(t) \/ WriteData(t) \/ SemWait(t)
       \/ ReadData(t) \/ Written(t) \/ Unlock(t)
       \/ DirectCommand(t) \/ Load(t) \/ Save(t) \/ Flush(t) \/ Flushed(t)

\* Commands have met: the model says no more.
Stopped == mixed /\ UNCHANGED vars

Next ==
    \/ \E t \in Tasks :
          \/ Continue(t)
          \/ ~mixed /\ (Call(t) \/ WakeByTimer(t) \/ WakeByKey(t))
    \/ \E ok \in BOOLEAN : Serve(ok)
    \/ HandlerHdc
    \/ ~mixed /\ HandlerRtc
    \/ Stopped

Spec == Init /\ [][Next]_vars

\* Ready tasks get their turn (ReadyRuns of Sched), and the disk answers.  A
\* latched interrupt is delivered when the idle task comes out of a handler,
\* unless a key has been pressed just then; it is not always.
FairSpec ==
    /\ Spec
    /\ \A t \in Tasks : WF_vars(Continue(t))
    /\ WF_vars(\E ok \in BOOLEAN : Serve(ok))
    /\ SF_vars(HandlerHdc)

------------------------------------------------------------------------------
(* What the driver has to keep.                                            *)

InCall == {"rcommand", "wcommand", "rwait", "wwait", "rsem", "wsem", "rpoll",
           "wpoll", "copy", "unlock"}
UnderWay == InCall \ {"rcommand", "wcommand", "unlock"}

\* As long as no command has met another, only the task that has the disk is
\* between command and end, and the disk is at that task's command, with as
\* many sectors to go as the task: so no sector is ever moved for another call,
\* though the semaphore's permits and the sectors need not match.
CommandIsOwners ==
    /\ \A t \in Tasks : pc[t] \in InCall => owner = t
    /\ ~mixed =>
          /\ \A t \in Tasks : pc[t] \in UnderWay /\ disk # "error" =>
                /\ left = todo[t]
                /\ command = IF pc[t] \in {"rwait", "rsem", "rpoll"} THEN "read" ELSE "write"
          /\ disk \in {"busy", "data"} =>
                \E t \in Tasks : pc[t] \in UnderWay \cup Polling

\* A sector is taken from the data port only when the disk has one there, and
\* given to it only when it waits for one, however early the semaphore has let
\* the task through.
DataWhenReady ==
    [][\A t \in Tasks :
          pc[t] \in {"rpoll", "copy", "loading", "saving"} /\ todo'[t] = todo[t] - 1 => disk = "data"]_vars

\* A task that waits for an interrupt has one to come: the disk is at its
\* sector, or its interrupt is latched.
InterruptIsToCome == waiters # <<>> /\ ~mixed => disk = "busy" \/ irr

\* The permits left over between calls are at most the one of a boot-time
\* interrupt and those of transfers past the driver: the waits and the
\* interrupts of a call make up for each other, whatever merges.
PermitsStayBounded ==
    (\A t \in Tasks : pc[t] \notin InCall) =>
        count + (IF irr THEN 1 ELSE 0) <= 1 + strays

\* If the idle task runs again and again, every call comes to an end.  Without
\* that, a task that never stops can hold back the end of interrupt, and with
\* it the disk, for ever.
CallsEnd ==
    [](~mixed) /\ []<>(Ready(pc) = {}) =>
        \A t \in Tasks : (pc[t] \in InCall \cup {"rmutex", "wmutex"}) ~> pc[t] = "user"
==============================================================================
