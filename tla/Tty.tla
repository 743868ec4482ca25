---------------------------------- MODULE Tty ----------------------------------
(***************************************************************************)
(* The terminals: kernel32/device/tty.c with the keyboard handler of       *)
(* kernel32/kbd.c that feeds them.                                         *)
(*                                                                         *)
(* A terminal has an input and an output ring of bytes and a semaphore for *)
(* each.  A writer takes a permit of osem for every byte it puts into the  *)
(* output ring; then it draws, itself, whatever the ring holds, and gives  *)
(* a permit back for every byte it takes out.  A reader takes a permit of  *)
(* isem for every byte and echoes the byte through a write of its own.     *)
(*                                                                         *)
(* tty_fifo_put and tty_fifo_get return from their error exits without     *)
(* protect_exit: the rest of the system call runs with interrupts off, and *)
(* only the popf of the call gate lets them in again.  cpu is the task     *)
(* that has the processor to itself in this way.                           *)
(*                                                                         *)
(* The cells of the screen, the line cursor and the modifier keys are left *)
(* out: a key is the byte it yields.  Semaphores are those of Sync with    *)
(* their waiters in order.                                                 *)
(*                                                                         *)
(* A definition X_How is X with a plausible slip in it; nothing uses it.   *)
(***************************************************************************)
EXTENDS Naturals, Sequences, FiniteSets

CONSTANTS
    Tasks,
    Nobody,         \* every task can be interrupted
    Ttys,           \* the terminals, ttys[]
    Keys,           \* the bytes the keyboard yields
    Writes,         \* what each task may write, sequences of Bytes
    ReadSizes,      \* how many bytes each task may ask for
    Home,           \* the terminal each task reads and writes
    IBUF, OBUF,     \* TTY_IBUF_SIZE, TTY_OBUF_SIZE
    MaxPermits      \* bound on isem, which F-keys can push past IBUF

\* "x" is any byte that means nothing to the drawing code and "m" any of the
\* bytes that end an escape sequence.
Bytes == {"x", "y", "esc", "[", ";", "digit", "m"}

ASSUME TtyAssumption ==
    /\ Nobody \notin Tasks
    /\ Home \in [Tasks -> Ttys]
    /\ Keys \subseteq Bytes
    /\ \A t \in Tasks : Writes[t] \subseteq Seq(Bytes) \ {<<>>}
    /\ \A t \in Tasks : ReadSizes[t] \subseteq Nat \ {0}
    /\ IBUF \in Nat \ {0} /\ OBUF \in Nat \ {0} /\ MaxPermits \in Nat

VARIABLES
    ififo, ofifo,   \* the rings of each terminal
    isem, osem,     \* their semaphores: a count and the tasks that wait
    now,            \* tty_now, the terminal on the screen
    pc,             \* where each task is in dev_tty_read and dev_tty_write
    want,           \* the bytes a reader still asks for
    out,            \* the bytes a writer still has to put
    target,         \* the terminal a writer puts them to
    parse,          \* how far com_esc has got in what a writer draws
    masked,         \* the task's eflags have IF clear
    cpu,
    shared          \* history: during this write another task wrote there too

fifos == <<ififo, ofifo>>
sems == <<isem, osem>>
local == <<want, out, target, parse>>
vars == <<ififo, ofifo, isem, osem, now, pc, want, out, target, parse, masked, cpu,
          shared>>

PCs == {"user", "iwait", "isem", "iget", "owait", "osem", "oput", "drain",
        "note", "spin"}
Ring(n) == [buf : [0..n-1 -> Bytes], read : 0..n-1, write : 0..n-1, count : 0..n]
Sem == [count : Nat, queue : Seq(Tasks)]

TypeOK ==
    /\ ififo \in [Ttys -> Ring(IBUF)]
    /\ ofifo \in [Ttys -> Ring(OBUF)]
    /\ isem \in [Ttys -> Sem]
    /\ osem \in [Ttys -> Sem]
    /\ now \in Ttys
    /\ pc \in [Tasks -> PCs]
    /\ want \in [Tasks -> Nat]
    /\ out \in [Tasks -> Seq(Bytes)]
    /\ target \in [Tasks -> Ttys]
    /\ parse \in [Tasks -> {"text", "esc", "args", "digits", "lost"}]
    /\ masked \in [Tasks -> BOOLEAN]
    /\ cpu \in Tasks \cup {Nobody}
    /\ shared \in [Tasks -> BOOLEAN]

------------------------------------------------------------------------------
(* tty_fifo_put and tty_fifo_get.                                          *)

Full_OffByOne(f, n) == f.count > n
Full(f, n) == f.count >= n
Empty_OffByOne(f) == f.count <= 1
Empty(f) == f.count = 0

Step_Short(i, n) == IF i + 2 >= n THEN 0 ELSE i + 1
Step(i, n) == IF i + 1 >= n THEN 0 ELSE i + 1

Put(f, n, c) ==
    [f EXCEPT !.buf[f.write] = c, !.write = Step(f.write, n), !.count = @ + 1]
Front(f) == f.buf[f.read]

\* The cell keeps its byte in the code; nothing reads it again, and the model
\* forgets it.
Get(f, n) ==
    [f EXCEPT !.buf[f.read] = "x", !.read = Step(f.read, n), !.count = @ - 1]

\* The bytes in a ring, oldest first.
Contents(f, n) == [i \in 1..f.count |-> f.buf[(f.read + i - 1) % n]]

------------------------------------------------------------------------------
(* Who has the processor, and the semaphores.                              *)

\* A task can take a step unless another one runs with interrupts off.
Runs(t) == cpu \in {Nobody, t}

\* After its step t is at `to' with interrupts off or on; a task that stops at
\* a semaphore lets the others run with their own eflags.
Goes(t, to, off) ==
    /\ pc' = [pc EXCEPT ![t] = to]
    /\ masked' = [masked EXCEPT ![t] = off]
    /\ cpu' = IF off /\ to \notin {"isem", "osem"} THEN t ELSE Nobody

\* sem_wait.
Wait(s, t) ==
    IF s.count > 0 THEN [s EXCEPT !.count = @ - 1]
                   ELSE [s EXCEPT !.queue = Append(@, t)]

\* sem_notify lets the first waiter through or counts up.
Notify_Lost(s) == [s EXCEPT !.queue = IF @ = <<>> THEN @ ELSE Tail(@)]
Notify(s) ==
    IF s.queue # <<>> THEN [s EXCEPT !.queue = Tail(@)]
                      ELSE [s EXCEPT !.count = @ + 1]

\* The place a waiter has been stopped at, and where it goes on.
Passed_Rewait(s, to) ==
    IF s.queue = <<>> THEN pc
    ELSE [pc EXCEPT ![Head(s.queue)] = IF to = "iget" THEN "iwait" ELSE "owait"]
Passed(s, to) == IF s.queue = <<>> THEN pc ELSE [pc EXCEPT ![Head(s.queue)] = to]

InWrite == {"owait", "osem", "oput", "drain", "note", "spin"}
At(y, places) == {t \in Tasks : pc[t] \in places /\ target[t] = y}

\* What a write begins with.
BeginWrite(t, y, w) ==
    /\ out' = [out EXCEPT ![t] = w]
    /\ target' = [target EXCEPT ![t] = y]
    /\ shared' = [u \in Tasks |-> IF u = t THEN At(y, InWrite) # {}
                                   ELSE shared[u] \/ u \in At(y, InWrite)]

------------------------------------------------------------------------------
(* dev_tty_read.                                                           *)

Read(t, n) ==
    /\ pc[t] = "user" /\ Runs(t)
    /\ want' = [want EXCEPT ![t] = n]
    /\ Goes(t, "iwait", FALSE)
    /\ UNCHANGED <<fifos, sems, now, out, target, parse, shared>>

WaitInput(t) ==
    /\ pc[t] = "iwait" /\ Runs(t)
    /\ LET s == isem[Home[t]]
       IN  /\ isem' = [isem EXCEPT ![Home[t]] = Wait(s, t)]
           /\ Goes(t, IF s.count > 0 THEN "iget" ELSE "isem", masked[t])
    /\ UNCHANGED <<fifos, osem, now, local, shared>>

\* A byte is echoed on the terminal that is on the screen.  Without a byte the
\* read is over.
GetInput(t) ==
    /\ pc[t] = "iget" /\ Runs(t)
    /\ LET f == ififo[Home[t]]
       IN  IF Empty(f)
           THEN /\ want' = [want EXCEPT ![t] = 0]
                /\ Goes(t, "user", FALSE)
                /\ UNCHANGED <<ififo, out, target, shared>>
           ELSE /\ ififo' = [ififo EXCEPT ![Home[t]] = Get(f, IBUF)]
                /\ BeginWrite(t, now, <<Front(f)>>)
                /\ Goes(t, "owait", masked[t])
                /\ UNCHANGED want
    /\ UNCHANGED <<ofifo, sems, now, parse>>

------------------------------------------------------------------------------
(* dev_tty_write.                                                          *)

Write(t, w) ==
    /\ pc[t] = "user" /\ Runs(t)
    /\ BeginWrite(t, Home[t], w)
    /\ Goes(t, "owait", FALSE)
    /\ UNCHANGED <<fifos, sems, now, want, parse>>

WaitOutput(t) ==
    /\ pc[t] = "owait" /\ Runs(t)
    /\ LET s == osem[target[t]]
       IN  /\ osem' = [osem EXCEPT ![target[t]] = Wait(s, t)]
           /\ Goes(t, IF s.count > 0 THEN "oput" ELSE "osem", masked[t])
    /\ UNCHANGED <<fifos, isem, now, local, shared>>

PutOutput(t) ==
    /\ pc[t] = "oput" /\ Runs(t)
    /\ LET f == ofifo[target[t]]
       IN  IF Full(f, OBUF)
           THEN /\ out' = [out EXCEPT ![t] = <<>>]
                /\ Goes(t, "drain", TRUE)
                /\ UNCHANGED ofifo
           ELSE /\ ofifo' = [ofifo EXCEPT ![target[t]] = Put(f, OBUF, Head(out[t]))]
                /\ out' = [out EXCEPT ![t] = Tail(@)]
                /\ Goes(t, IF Len(out[t]) > 1 THEN "owait" ELSE "drain", masked[t])
    /\ UNCHANGED <<ififo, sems, now, want, target, parse, shared>>

\* tty_write and com_esc, a byte at a time: what the bytes so far amount to.
\* com_esc never gets past a byte it does not know among the parameters.
Parameter_NoEnd(c) ==
    CASE c = ";" -> "args"
      [] c = "digit" -> "digits"
      [] OTHER -> "lost"
Parameter(c) ==
    CASE c = "m" -> "text"
      [] c = ";" -> "args"
      [] c = "digit" -> "digits"
      [] OTHER -> "lost"

Parsed(p, c) ==
    CASE p = "text" -> IF c = "esc" THEN "esc" ELSE "text"
      [] p = "esc" -> IF c = "[" THEN "args" ELSE "text"
      [] OTHER -> Parameter(c)

\* The ring is empty, and tty_fifo_get leaves interrupts off.  Among the digits
\* of a parameter com_esc goes round for ever; otherwise the write is over, and
\* with it the system call unless it is an echo and the reader wants more.
EndWrite(t) ==
    /\ parse' = [parse EXCEPT ![t] = IF @ = "digits" THEN @ ELSE "text"]
    /\ IF parse[t] = "digits"
       THEN /\ Goes(t, "spin", TRUE)
            /\ UNCHANGED want
       ELSE /\ want' = [want EXCEPT ![t] = IF @ > 0 THEN @ - 1 ELSE 0]
            /\ IF want[t] > 1 THEN Goes(t, "iwait", TRUE) ELSE Goes(t, "user", FALSE)
    /\ UNCHANGED ofifo

Drain(t) ==
    /\ pc[t] = "drain" /\ Runs(t)
    /\ LET f == ofifo[target[t]]
       IN  IF Empty(f)
           THEN EndWrite(t)
           ELSE /\ ofifo' = [ofifo EXCEPT ![target[t]] = Get(f, OBUF)]
                /\ parse' = [parse EXCEPT ![t] = Parsed(@, Front(f))]
                /\ Goes(t, "note", masked[t])
                /\ UNCHANGED want
    /\ UNCHANGED <<ififo, sems, now, out, target, shared>>

\* The permit goes back as soon as the byte is out, before it is drawn.
GiveBack(t) ==
    /\ pc[t] = "note" /\ Runs(t)
    /\ LET s == osem[target[t]]
           to == IF parse[t] = "lost" THEN "spin" ELSE "drain"
       IN  /\ osem' = [osem EXCEPT ![target[t]] = Notify(s)]
           /\ pc' = [Passed(s, "oput") EXCEPT ![t] = to]
    /\ UNCHANGED <<fifos, isem, now, local, masked, cpu, shared>>

------------------------------------------------------------------------------
(* kbd.c, in interrupt context.                                            *)

LetReaderIn(y) ==
    /\ isem' = [isem EXCEPT ![y] = Notify(@)]
    /\ pc' = Passed(isem[y], "iget")

\* tty_put: a byte for the terminal on the screen, dropped when isem says that
\* the ring is full.  isem can lag behind: then the byte is lost, and there is
\* a permit for it all the same.
Key(c) ==
    /\ cpu = Nobody
    /\ isem[now].count < IBUF
    /\ ififo' = IF Full(ififo[now], IBUF) THEN ififo
                ELSE [ififo EXCEPT ![now] = Put(@, IBUF, c)]
    /\ LetReaderIn(now)
    /\ UNCHANGED <<ofifo, osem, now, local, masked, cpu, shared>>

\* handle_fx, at the press and at the release of a function key: the reader of
\* the terminal that comes up is let in with nothing to read.
FKey(y) ==
    /\ cpu = Nobody
    /\ isem[y].count < MaxPermits
    /\ now' = y
    /\ LetReaderIn(y)
    /\ UNCHANGED <<fifos, osem, local, masked, cpu, shared>>

------------------------------------------------------------------------------
\* Every terminal as dev_tty_open leaves it.
Ring0(n) == [buf |-> [i \in 0..n-1 |-> "x"], read |-> 0, write |-> 0, count |-> 0]

Init ==
    /\ ififo = [y \in Ttys |-> Ring0(IBUF)]
    /\ ofifo = [y \in Ttys |-> Ring0(OBUF)]
    /\ isem = [y \in Ttys |-> [count |-> 0, queue |-> <<>>]]
    /\ osem = [y \in Ttys |-> [count |-> OBUF, queue |-> <<>>]]
    /\ now \in Ttys
    /\ pc = [t \in Tasks |-> "user"]
    /\ want = [t \in Tasks |-> 0]
    /\ out = [t \in Tasks |-> <<>>]
    /\ target = Home
    /\ parse = [t \in Tasks |-> "text"]
    /\ masked = [t \in Tasks |-> FALSE]
    /\ cpu = Nobody
    /\ shared = [t \in Tasks |-> FALSE]

Call(t) ==
    \/ \E n \in ReadSizes[t] : Read(t, n)
    \/ \E w \in Writes[t] : Write(t, w)

Continue(t) ==
    \/ WaitInput(t) \/ GetInput(t)
    \/ WaitOutput(t) \/ PutOutput(t)
    \/ Drain(t) \/ GiveBack(t)

Next ==
    \/ \E t \in Tasks : Call(t) \/ Continue(t)
    \/ \E c \in Keys : Key(c)
    \/ \E y \in Ttys : FKey(y)

Spec == Init /\ [][Next]_vars

\* The scheduler gives every ready task its turn, over and over (ReadyRuns of
\* Sched).  Nobody has to read, write or type.
FairSpec == Spec /\ \A t \in Tasks : SF_vars(Continue(t))

------------------------------------------------------------------------------
(* What a terminal has to keep.                                            *)

\* A place in the output ring is a permit, a byte in the ring, or in the hands
\* of a task between sem_wait and tty_fifo_put or between tty_fifo_get and
\* sem_notify: so a writer that was let through always finds room, and no
\* place is ever lost.
SlotsConserved ==
    \A y \in Ttys :
        osem[y].count + ofifo[y].count + Cardinality(At(y, {"oput", "note"})) = OBUF

\* Every byte in the input ring has a permit or a reader that is on its way to
\* it, and nobody stops while there are permits: so no byte can be stranded
\* beside a reader that waits.
EveryByteHasAPermit ==
    \A y \in Ttys :
        /\ ififo[y].count <= isem[y].count
                 + Cardinality({t \in Tasks : pc[t] = "iget" /\ Home[t] = y})
        /\ isem[y].queue # <<>> => isem[y].count = 0

\* A ring hands out what was put into it, once and in order, whatever readers
\* and writers do between their sections.
Queue(before, after, taken) ==
    \/ after = before
    \/ \E c \in Bytes : after = Append(before, c)
    \/ before # <<>> /\ after = Tail(before) /\ taken = Head(before)

ServedInOrder ==
    [][\A y \in Ttys :
          /\ Queue(Contents(ofifo[y], OBUF), Contents(ofifo'[y], OBUF),
                   Front(ofifo[y]))
          /\ \E t \in Tasks :
                 Queue(Contents(ififo[y], IBUF), Contents(ififo'[y], IBUF),
                       IF out'[t] = <<>> THEN "none" ELSE Head(out'[t]))]_vars

\* A task that draws never gets lost in an escape sequence unless another task
\* has written to the same terminal meanwhile: then com_esc can take the other's
\* bytes for its parameters, or find its own ones gone.
LostOnlyWhenShared == \A t \in Tasks : pc[t] = "spin" => shared[t]

\* Unless some task gets lost like that, every writer gets all its bytes into
\* the ring, though it waits for places its own bytes can take: what all tasks
\* write at one time fits.  (It may still draw for the others as long as they
\* go on writing.)
WritersGetThrough ==
    [](\A t \in Tasks : pc[t] # "spin") =>
        \A t \in Tasks : out[t] # <<>> ~> out[t] = <<>>

\* Under the same condition the output ring never fills up for good: over and
\* over it has been drawn to the last byte.
OutputIsDrawn ==
    [](\A t \in Tasks : pc[t] # "spin") =>
        \A y \in Ttys : []<>(ofifo[y].count = 0)
==============================================================================
