-------------------------------- MODULE Sched --------------------------------
(***************************************************************************)
(* The task scheduler of kernel32/task/tss.c with the semaphores and       *)
(* mutexes (kernel32/sem.c, kernel32/mutex.c) that move tasks in and out   *)
(* of its queues.                                                          *)
(*                                                                         *)
(* There is one CPU.  A task keeps its place at the head of the ready list *)
(* while it runs, and the idle task is never on a list.  Every list of the *)
(* kernel that a task can be on is one entry of `queue'.                   *)
(*                                                                         *)
(* protect_enter / protect_exit sections run without interrupts and are    *)
(* one step.  The system call gate leaves interrupts enabled, so the calls *)
(* that edit the lists outside such a section (yield, sleep, exit, the     *)
(* tail of fork) are several steps: pc is the point a task has reached.    *)
(* With Undisturbed = TRUE no interrupt and no lock contention hits those  *)
(* sections; with FALSE they can, as in the code.                          *)
(*                                                                         *)
(* A definition X_How is X with a plausible slip in it; nothing uses it.   *)
(***************************************************************************)
EXTENDS Naturals, Sequences, SequencesExt

CONSTANTS
    Tasks,          \* slots of task_table, and the default task
    Idle,           \* tss_task_queue.idle_task
    InitTask,       \* tss_task_queue.default_task
    None,           \* the NULL owner of a mutex
    Sems, Mutexes,  \* the kernel's semaphores and mutexes
    IrqSems,        \* the semaphores interrupt handlers notify
    TaskMutex,      \* task_mutex, which alloc_task and execve take
    ReclaimMutexes, \* those tss_task_destroy takes to give a task's memory back
    SemInit,        \* the count a semaphore starts with
    Slices,         \* TASK_DEFAULT_TICKS
    SleepArgs,      \* what callers pass to sleep
    MaxCount,       \* bound on a semaphore's counter
    MaxNest,        \* bound on how deep a mutex is re-entered
    Undisturbed     \* no interrupt or contention in an unprotected section

ASSUME TasksAssumption ==
    /\ InitTask \in Tasks
    /\ Idle \notin Tasks
    /\ None \notin Tasks
    /\ Idle # None

ASSUME ListsAssumption ==
    /\ Sems \cap Mutexes = {}
    /\ "ready" \notin Sems \cup Mutexes
    /\ "sleep" \notin Sems \cup Mutexes
    /\ IrqSems \subseteq Sems
    /\ TaskMutex \in Mutexes
    /\ ReclaimMutexes \subseteq Mutexes

ASSUME BoundsAssumption ==
    /\ SemInit \in [Sems -> Nat]
    /\ Slices \in Nat \ {0}
    /\ SleepArgs \subseteq Nat
    /\ MaxCount \in Nat
    /\ MaxNest \in Nat \ {0}
    /\ Undisturbed \in BOOLEAN

Lists == {"ready", "sleep"} \cup Sems \cup Mutexes

\* "user" is a task between list-editing steps: in its own code or in a
\* protected section it is about to leave.  "raw" is a child that is on the
\* ready list before fork has filled its registers and its address space.
PCs == {"free", "raw", "user", "fork", "forked", "yield", "yielded",
        "sleep", "slept", "exit"}

VARIABLES
    queue,      \* the tasks on each list, in order
    running,    \* tss_task_queue.running_task
    pc,         \* where each task is
    ticks,      \* what is left of each task's time slice
    sleep,      \* the ticks a sleeper still has to sleep
    counter,    \* sem_t.counter
    locker,     \* mutex_t.locker
    owner,      \* mutex_t.owner
    held,       \* mutex_lock calls less mutex_unlock calls of each task
    child,      \* the slot a fork is filling, the task itself outside fork
    broken      \* a list edit has hit a node that was not where it had to be

vars == <<queue, running, pc, ticks, sleep, counter, locker, owner, held,
          child, broken>>
locks == <<counter, locker, owner, held>>
clocks == <<ticks, sleep>>

TypeOK ==
    /\ queue \in [Lists -> Seq(Tasks)]
    /\ running \in Tasks \cup {Idle}
    /\ pc \in [Tasks -> PCs]
    /\ ticks \in [Tasks \cup {Idle} -> 1..Slices]
    /\ sleep \in [Tasks -> Nat]
    /\ counter \in [Sems -> Nat]
    /\ locker \in [Mutexes -> Nat]
    /\ owner \in [Mutexes -> Tasks \cup {None}]
    /\ held \in [Tasks -> [Mutexes -> Nat]]
    /\ child \in [Tasks -> Tasks]
    /\ broken \in BOOLEAN

------------------------------------------------------------------------------
(* lib/list.c, as the scheduler uses it.                                   *)

\* The tasks on list l.
Members(q, l) == {q[l][i] : i \in 1..Len(q[l])}

\* list_insert_back.
InsertBack_Front(q, l, t) == [q EXCEPT ![l] = <<t>> \o @]
InsertBack(q, l, t) == [q EXCEPT ![l] = Append(@, t)]

\* list_remove and list_remove_front of a node that is on the list.
Remove1_Keep(q, l, t) == q
Remove1(q, l, t) ==
    [q EXCEPT ![l] = RemoveAt(@, CHOOSE k \in 1..Len(@) : @[k] = t)]

\* list_remove of a node that is elsewhere drops the size of the list all the
\* same, and inserting a node that is already linked tears the chain it is on:
\* neither edit is defined, and the model stops there with broken set.
OnList(q, l, t) == t \in Members(q, l)
OnNoList(q, t) == \A l \in Lists : ~OnList(q, l, t)

------------------------------------------------------------------------------
(* tss.c: the pieces every operation is made of.                           *)

\* tss_task_set_ready; the idle task never enters the ready list.
SetReady(q, t) == IF t = Idle THEN q ELSE InsertBack(q, "ready", t)

\* tss_task_set_block.
SetBlock_Stay(q, t) == q
SetBlock(q, t) == IF t = Idle THEN q ELSE Remove1(q, "ready", t)
MayBlock(q, t) == t = Idle \/ OnList(q, "ready", t)

\* tss_task_dispatch: the head of the ready list, else the idle task.
Dispatched(q) == IF q["ready"] = <<>> THEN Idle ELSE Head(q["ready"])

\* Interrupts reach the CPU: always in user code and in the idle task, and in
\* an unprotected section of the kernel unless it is left undisturbed.  A raw
\* child faults at once and handler_page halts with interrupts off.
InterruptsOn ==
    running # Idle =>
        pc[running] \in IF Undisturbed THEN {"user"} ELSE PCs \ {"free", "raw"}

\* A step that leaves the CPU to whom tss_task_dispatch picks from q, or, when
\* the edits that made q are not defined, the end of what is modelled.
Reschedule(ok, q) ==
    /\ broken' = ~ok
    /\ queue' = IF ok THEN q ELSE queue
    /\ running' = IF ok THEN Dispatched(q) ELSE running

InUser(t) == running = t /\ pc[t] = "user" /\ ~broken
GoTo(t, to) == pc' = [pc EXCEPT ![t] = to]

------------------------------------------------------------------------------
(* sem.c.                                                                  *)

Available_OffByOne(s) == counter[s] >= 0
Available(s) == counter[s] > 0

SemWait(t, s) ==
    /\ InUser(t)
    /\ IF Available(s)
       THEN /\ counter' = [counter EXCEPT ![s] = @ - 1]
            /\ UNCHANGED <<queue, running, broken>>
       ELSE /\ Reschedule(MayBlock(queue, t),
                          InsertBack(SetBlock(queue, t), s, t))
            /\ UNCHANGED counter
    /\ UNCHANGED <<pc, clocks, locker, owner, held, child>>

\* Whom a semaphore or a mutex lets through next.
HasWaiter_OffByOne(l) == Len(queue[l]) > 1
HasWaiter(l) == queue[l] # <<>>
NextWaiter_Last(l) == Last(queue[l])
NextWaiter(l) == Head(queue[l])

\* The first waiter is handed the count and never sees the counter.
Notify(s) ==
    /\ IF HasWaiter(s)
       THEN LET w == NextWaiter(s)
                q == Remove1(queue, s, w)
            IN  /\ Reschedule(OnNoList(q, w), SetReady(q, w))
                /\ UNCHANGED counter
       ELSE /\ counter' = [counter EXCEPT ![s] = @ + 1]
            /\ UNCHANGED <<queue, running, broken>>
    /\ UNCHANGED <<pc, clocks, locker, owner, held, child>>

SemNotify(t, s) ==
    /\ InUser(t)
    /\ counter[s] < MaxCount
    /\ Notify(s)

\* handler_hdc, handler_kbd and handler_e1000 notify on behalf of whatever task
\* they interrupted.
Irq(s) ==
    /\ ~broken /\ InterruptsOn
    /\ counter[s] < MaxCount
    /\ Notify(s)

------------------------------------------------------------------------------
(* mutex.c.                                                                *)

MayEnter_NobodyWaits(t, m) == owner[m] = t \/ ~HasWaiter(m)
MayEnter(t, m) == locker[m] = 0 \/ owner[m] = t

MutexLock(t, m) ==
    /\ InUser(t)
    /\ held[t][m] < MaxNest
    /\ IF MayEnter(t, m)
       THEN /\ locker' = [locker EXCEPT ![m] = @ + 1]
            /\ owner' = [owner EXCEPT ![m] = t]
            /\ UNCHANGED <<queue, running, broken>>
       ELSE /\ Reschedule(MayBlock(queue, t),
                          InsertBack(SetBlock(queue, t), m, t))
            /\ UNCHANGED <<locker, owner>>
    /\ held' = [held EXCEPT ![t][m] = @ + 1]
    /\ UNCHANGED <<pc, clocks, counter, child>>

\* The last unlock hands the mutex to the first waiter, which owns it from
\* then on whether or not it has run yet.  A caller that is not the owner
\* changes nothing.
Unlock(t, m) ==
    /\ IF owner[m] # t
       THEN UNCHANGED <<locker, owner, queue, running, broken>>
       ELSE IF locker[m] > 1 \/ ~HasWaiter(m)
       THEN /\ locker' = [locker EXCEPT ![m] = @ - 1]
            /\ owner' = [owner EXCEPT ![m] = IF locker[m] > 1 THEN t ELSE None]
            /\ UNCHANGED <<queue, running, broken>>
       ELSE LET w == NextWaiter(m)
                q == Remove1(queue, m, w)
            IN  /\ locker' = [locker EXCEPT ![m] = 1]
                /\ owner' = [owner EXCEPT ![m] = w]
                /\ Reschedule(OnNoList(q, w), SetReady(q, w))
    /\ held' = [held EXCEPT ![t][m] = @ - 1]

MutexUnlock(t, m) ==
    /\ InUser(t)
    /\ held[t][m] > 0
    /\ Unlock(t, m)
    /\ UNCHANGED <<pc, clocks, counter, child>>

------------------------------------------------------------------------------
(* tss.c: the timer, and the calls that edit the lists unprotected.        *)

\* tss_task_ts.  The walk over the sleepers goes on from running_node.next of
\* the task it is at; waking a task puts it last on the ready list, so its next
\* is NULL and the walk ends there: later sleepers are not counted down.
Due == {i \in 1..Len(queue["sleep"]) : sleep[queue["sleep"][i]] = 1}
Walk(from) == {queue["sleep"][i] : i \in {j \in from..Len(queue["sleep"]) :
                                             \A d \in Due : j <= d}}
Walked_PastHead == Walk(2)
Walked == Walk(1)
Woken == {t \in Walked : sleep[t] = 1}

AfterWalk ==
    IF Woken = {} THEN queue
    ELSE LET w == CHOOSE t \in Woken : TRUE
         IN  SetReady(Remove1(queue, "sleep", w), w)

\* A task whose slice is over goes to the end of the ready list.
Rotate_Not(q, t) == q
Rotate(q, t) == SetReady(SetBlock(q, t), t)
Reload_Not(t) == ticks[t] - 1
Reload(t) == Slices

Timer ==
    /\ ~broken /\ InterruptsOn
    /\ sleep' = [t \in Tasks |-> IF t \in Walked THEN sleep[t] - 1 ELSE sleep[t]]
    /\ IF ticks[running] > 1
       THEN /\ ticks' = [ticks EXCEPT ![running] = @ - 1]
            /\ queue' = AfterWalk
            /\ UNCHANGED <<running, broken>>
       ELSE /\ ticks' = [ticks EXCEPT ![running] = Reload(running)]
            /\ Reschedule(MayBlock(AfterWalk, running), Rotate(AfterWalk, running))
    /\ UNCHANGED <<pc, locks, child>>

\* tss_task_yield: off the list, onto its end, dispatch.
Yield(t) ==
    /\ InUser(t)
    /\ Len(queue["ready"]) > 1
    /\ queue' = SetBlock(queue, t)
    /\ GoTo(t, "yield")
    /\ UNCHANGED <<running, clocks, locks, child, broken>>

YieldReady(t) ==
    /\ running = t /\ pc[t] = "yield" /\ ~broken
    /\ queue' = SetReady(queue, t)
    /\ GoTo(t, "yielded")
    /\ UNCHANGED <<running, clocks, locks, child, broken>>

\* tss_task_sleep: off the list, onto the sleep list, dispatch.
Sleep(t) ==
    /\ InUser(t)
    /\ queue' = SetBlock(queue, t)
    /\ GoTo(t, "sleep")
    /\ UNCHANGED <<running, clocks, locks, child, broken>>

\* tss_task_set_sleep.  Asked to sleep for no time at all it does nothing, and
\* the task, off the ready list by then, is on no list for good.
Enqueued_OffByOne(t, n) == IF n <= 1 THEN queue ELSE InsertBack(queue, "sleep", t)
Enqueued(t, n) == IF n = 0 THEN queue ELSE InsertBack(queue, "sleep", t)

SetSleep(t, n) ==
    /\ running = t /\ pc[t] = "sleep" /\ ~broken
    /\ sleep' = IF n = 0 THEN sleep ELSE [sleep EXCEPT ![t] = n]
    /\ queue' = Enqueued(t, n)
    /\ GoTo(t, "slept")
    /\ UNCHANGED <<running, ticks, locks, child, broken>>

\* The tss_task_dispatch that ends tss_task_yield and tss_task_sleep.
Leave(t) ==
    /\ running = t /\ pc[t] \in {"yielded", "slept"} /\ ~broken
    /\ Reschedule(TRUE, queue)
    /\ GoTo(t, "user")
    /\ UNCHANGED <<clocks, locks, child>>

\* tss_task_fork.  alloc_task finds a free slot under task_mutex and does not
\* mark it.
Fork(t, c) ==
    /\ InUser(t)
    /\ owner[TaskMutex] = t /\ held[t][TaskMutex] > 0
    /\ pc[c] = "free"
    /\ Unlock(t, TaskMutex)
    /\ child' = [child EXCEPT ![t] = c]
    /\ GoTo(t, "fork")
    /\ UNCHANGED <<clocks, counter>>

\* tss_task_init names the slot, so that it is no longer free, and makes the
\* child ready before its clock, registers and address space are filled in.
ForkInit(t) ==
    /\ running = t /\ pc[t] = "fork" /\ ~broken
    /\ LET c == child[t]
           ok == pc[c] = "free"
       IN  /\ broken' = ~ok
           /\ queue' = IF ok THEN SetReady(queue, c) ELSE queue
           /\ pc' = IF ok THEN [pc EXCEPT ![t] = "forked", ![c] = "raw"] ELSE pc
    /\ UNCHANGED <<running, clocks, locks, child>>

\* tss_init found no page for the directory: the slot is wiped, fork fails.
ForkFail(t) ==
    /\ running = t /\ pc[t] = "fork" /\ ~broken
    /\ broken' = (pc[child[t]] # "free")
    /\ child' = [child EXCEPT ![t] = t]
    /\ GoTo(t, "user")
    /\ UNCHANGED <<queue, running, clocks, locks>>

ForkFill(t) ==
    /\ running = t /\ pc[t] = "forked" /\ ~broken
    /\ ticks' = [ticks EXCEPT ![child[t]] = Slices]
    /\ sleep' = [sleep EXCEPT ![child[t]] = 0]
    /\ pc' = [pc EXCEPT ![t] = "user", ![child[t]] = "user"]
    /\ child' = [child EXCEPT ![t] = t]
    /\ UNCHANGED <<queue, running, locks, broken>>

\* tss_task_exit.  The init task never exits, and a task makes the call from
\* its own code, where it holds no kernel mutex.
Exit(t) ==
    /\ InUser(t)
    /\ t # InitTask
    /\ \A m \in Mutexes : held[t][m] = 0
    /\ Undisturbed => \A m \in ReclaimMutexes : locker[m] = 0
    /\ queue' = SetBlock(queue, t)
    /\ GoTo(t, "exit")
    /\ UNCHANGED <<running, clocks, locks, child, broken>>

\* tss_task_destroy takes mutexes while its task is on no list: if one is held,
\* mutex_lock would block a task that is not on the ready list.
Destroy(t) ==
    /\ running = t /\ pc[t] = "exit" /\ ~broken
    /\ Reschedule(\A m \in ReclaimMutexes : locker[m] = 0, queue)
    /\ GoTo(t, "free")
    /\ UNCHANGED <<clocks, locks, child>>

------------------------------------------------------------------------------
\* kernel_init has made the default task and runs in its context.
Init ==
    /\ queue = [l \in Lists |-> IF l = "ready" THEN <<InitTask>> ELSE <<>>]
    /\ running = InitTask
    /\ pc = [t \in Tasks |-> IF t = InitTask THEN "user" ELSE "free"]
    /\ ticks = [t \in Tasks \cup {Idle} |-> Slices]
    /\ sleep = [t \in Tasks |-> 0]
    /\ counter = SemInit
    /\ locker = [m \in Mutexes |-> 0]
    /\ owner = [m \in Mutexes |-> None]
    /\ held = [t \in Tasks |-> [m \in Mutexes |-> 0]]
    /\ child = [t \in Tasks |-> t]
    /\ broken = FALSE

\* What a task does next, of its own accord ...
Call(t) ==
    \/ \E s \in Sems : SemWait(t, s) \/ SemNotify(t, s)
    \/ \E m \in Mutexes : MutexLock(t, m) \/ MutexUnlock(t, m)
    \/ Yield(t)
    \/ Sleep(t)
    \/ \E c \in Tasks : Fork(t, c)
    \/ Exit(t)

\* ... and how a call it is in goes on.
Continue(t) ==
    \/ YieldReady(t)
    \/ \E n \in SleepArgs : SetSleep(t, n)
    \/ Leave(t)
    \/ ForkInit(t)
    \/ ForkFail(t)
    \/ ForkFill(t)
    \/ Destroy(t)

Next ==
    \/ \E t \in Tasks : Call(t) \/ Continue(t)
    \/ \E s \in IrqSems : Irq(s)
    \/ Timer

Spec == Init /\ [][Next]_vars

\* The timer never stops, and the interrupt controller keeps a tick that comes
\* while interrupts are off for the moment they are on again; a call that has
\* begun goes on when its task runs.  No task has to make a call, and no device
\* has to interrupt.
Fairness == SF_vars(Timer) /\ WF_vars(\E t \in Tasks : Continue(t))
FairSpec == Spec /\ Fairness

------------------------------------------------------------------------------
(* What the scheduler has to keep.                                         *)

\* No list edit ever hits a node that is linked elsewhere: set_block is called
\* only for a task on the ready list (tss.c:153), and no list_insert_back
\* (tss.c:145, 453; sem.c:21; mutex.c:24) meets a node still on a list.
ListContract == ~broken

\* Every list names each of its tasks once, and no task is on two lists, though
\* the ready list and the sleep list share a task's running_node.
Sound(q) ==
    \A k, l \in Lists : \A i \in 1..Len(q[k]), j \in 1..Len(q[l]) :
        q[k][i] = q[l][j] => k = l /\ i = j
QueuesSound == Sound(queue)

\* A live task can always be found again: it is on some list, or it is running
\* and between the two list edits of a call it is making.
NoTaskLost ==
    \A t \in Tasks : pc[t] # "free" =>
        \/ \E l \in Lists : OnList(queue, l, t)
        \/ running = t /\ pc[t] \in {"yield", "sleep", "exit"}

\* Whoever has come back from mutex_lock is the owner, and the mutex counts
\* exactly its lock calls: so no two tasks are ever inside.  A waiter has one
\* call outstanding, the one it is stopped in.
MutualExclusion ==
    \A m \in Mutexes, t \in Tasks :
        held[t][m] = IF owner[m] = t THEN locker[m]
                     ELSE IF OnList(queue, m, t) THEN 1 ELSE 0

\* Nobody waits for what is there to be taken: a counted-up semaphore and a
\* free mutex have no waiters (sem.c:30-37, mutex.c:38-46).
NoMissedWakeup ==
    /\ \A s \in Sems : counter[s] > 0 => queue[s] = <<>>
    /\ \A m \in Mutexes : locker[m] = 0 => queue[m] = <<>> /\ owner[m] = None

(* The inductive invariant behind the four above. *)

\* A task in its own code is the first one on the ready list.
AtHead ==
    running # Idle /\ pc[running] \in {"user", "fork", "forked"} =>
        queue["ready"] # <<>> /\ Head(queue["ready"]) = running

\* Between its two list edits a task is on no list, like a free slot.
OffList ==
    \A t \in Tasks :
        pc[t] \in {"free", "yield", "sleep", "exit"} => OnNoList(queue, t)

\* The slot a fork is filling is named, is filled by nobody else, and does not
\* sleep.
ForksApart ==
    \A t \in Tasks : pc[t] = "forked" =>
        /\ pc[child[t]] = "raw"
        /\ ~OnList(queue, "sleep", child[t])
        /\ \A u \in Tasks \ {t} : pc[u] = "forked" => child[u] # child[t]

\* A sleeper has ticks left to count down.
SleepersCount == \A t \in Members(queue, "sleep") : sleep[t] > 0

\* A locked mutex has an owner.
LockedIsOwned == \A m \in Mutexes : locker[m] > 0 => owner[m] \in Tasks

Inv ==
    /\ TypeOK /\ QueuesSound /\ AtHead /\ OffList /\ ForksApart
    /\ MutualExclusion /\ NoMissedWakeup /\ LockedIsOwned
    /\ ~broken => SleepersCount

(* What is true besides while nothing disturbs the unprotected sections and
   nobody sleeps for no time at all. *)

\* A task between the edits of a call has the CPU.
OneEditor ==
    \A t \in Tasks : pc[t] \in PCs \ {"free", "raw", "user"} => running = t

\* The slot a fork has found is still free, and a raw child has its parent's
\* attention.
ForkOwnsSlot ==
    /\ \A t \in Tasks : pc[t] = "fork" => pc[child[t]] = "free"
    /\ \A c \in Tasks : pc[c] = "raw" => \E t \in Tasks : pc[t] = "forked" /\ child[t] = c

\* Nobody holds what an exiting task is about to lock.
ExitWillNotBlock ==
    \A t \in Tasks : pc[t] = "exit" => \A m \in ReclaimMutexes : locker[m] = 0

\* A live task that is not between two edits is on a list.
Listed ==
    \A t \in Tasks :
        pc[t] \notin {"free", "yield", "sleep", "exit"} => ~OnNoList(queue, t)

QuietInv == ListContract /\ OneEditor /\ ForkOwnsSlot /\ ExitWillNotBlock /\ Listed

Before(q, t, u) == \E i, j \in 1..Len(q) : i < j /\ q[i] = t /\ q[j] = u

\* Queues are served in order: only the task that is running can fall behind
\* another one on the ready list, and no waiter is passed by a later one.
FirstComeFirstServed ==
    [][\A l \in Lists \ {"sleep"}, t, u \in Tasks :
          /\ Before(queue[l], t, u)
          /\ t # running
          /\ OnList(queue', l, t)
          => Before(queue'[l], t, u)]_vars

\* A task that could go on if it were given the CPU.
Runnable(t) ==
    /\ pc[t] \in {"user", "fork", "forked", "yield", "yielded"}
    /\ \A l \in Lists \ {"ready"} : ~OnList(queue, l, t)

\* tss.c:477: dispatch runs the idle task when the run queue is empty, which is
\* when nobody can go on.
IdleOnlyWhenNoneRunnable ==
    [][running # Idle /\ running' = Idle => \A t \in Tasks : ~Runnable(t)']_vars

\* A ready task gets the CPU, whatever the others do: their slices run out.
ReadyRuns ==
    \A t \in Tasks : OnList(queue, "ready", t) ~> running = t

\* A sleeper wakes up, though a tick can pass it by when it wakes an earlier one.
SleeperWakes ==
    \A t \in Tasks : OnList(queue, "sleep", t) ~> OnList(queue, "ready", t)

\* If no owner keeps the mutex for ever, every waiter comes to own it.
WaiterOwns ==
    \A m \in Mutexes :
        (\A t \in Tasks : []<>(owner[m] # t)) =>
            \A t \in Tasks : OnList(queue, m, t) ~> owner[m] = t

\* The scheduler's lists and counters implement the promises of Sync.
Abs == INSTANCE Sync WITH
           permits <- counter, holder <- owner, nest <- locker,
           waiters <- [l \in Sems \cup Mutexes |-> Members(queue, l)]
SyncRefined == Abs!Spec
==============================================================================
