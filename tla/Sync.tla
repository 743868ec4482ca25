--------------------------------- MODULE Sync ---------------------------------
(***************************************************************************)
(* What the semaphores and mutexes of the kernel promise to their callers, *)
(* with nothing of the scheduler in it: a permit is used once, a mutex has *)
(* one holder, and whoever is let through is let through by name.  Sched   *)
(* implements this specification.                                          *)
(***************************************************************************)
EXTENDS Naturals

CONSTANTS Tasks, Sems, Mutexes, None, SemInit

VARIABLES
    permits,    \* what each semaphore has to give away
    holder,     \* who has each mutex
    nest,       \* how many unlocks its holder owes
    waiters     \* who is stopped at each semaphore and mutex

svars == <<permits, holder, nest, waiters>>

Free(t) == \A l \in Sems \cup Mutexes : t \notin waiters[l]

Stop(t, l) == waiters' = [waiters EXCEPT ![l] = @ \cup {t}]
LetThrough(t, l) == waiters' = [waiters EXCEPT ![l] = @ \ {t}]

TakePermit(t, s) ==
    /\ Free(t)
    /\ permits[s] > 0
    /\ permits' = [permits EXCEPT ![s] = @ - 1]
    /\ UNCHANGED <<holder, nest, waiters>>

AwaitPermit(t, s) ==
    /\ Free(t)
    /\ permits[s] = 0
    /\ Stop(t, s)
    /\ UNCHANGED <<permits, holder, nest>>

AddPermit(s) ==
    /\ waiters[s] = {}
    /\ permits' = [permits EXCEPT ![s] = @ + 1]
    /\ UNCHANGED <<holder, nest, waiters>>

PassPermit(s) ==
    /\ \E t \in waiters[s] : LetThrough(t, s)
    /\ UNCHANGED <<permits, holder, nest>>

Acquire(t, m) ==
    /\ Free(t)
    /\ holder[m] \in {None, t}
    /\ holder' = [holder EXCEPT ![m] = t]
    /\ nest' = [nest EXCEPT ![m] = @ + 1]
    /\ UNCHANGED <<permits, waiters>>

AwaitMutex(t, m) ==
    /\ Free(t)
    /\ holder[m] \notin {None, t}
    /\ Stop(t, m)
    /\ UNCHANGED <<permits, holder, nest>>

Release(t, m) ==
    /\ Free(t)
    /\ holder[m] = t
    /\ nest[m] > 1 \/ waiters[m] = {}
    /\ nest' = [nest EXCEPT ![m] = @ - 1]
    /\ holder' = [holder EXCEPT ![m] = IF nest[m] > 1 THEN t ELSE None]
    /\ UNCHANGED <<permits, waiters>>

HandOver(t, m) ==
    /\ Free(t)
    /\ holder[m] = t /\ nest[m] = 1
    /\ \E w \in waiters[m] :
          /\ LetThrough(w, m)
          /\ holder' = [holder EXCEPT ![m] = w]
    /\ UNCHANGED <<permits, nest>>

Init ==
    /\ permits = SemInit
    /\ holder = [m \in Mutexes |-> None]
    /\ nest = [m \in Mutexes |-> 0]
    /\ waiters = [l \in Sems \cup Mutexes |-> {}]

Next ==
    \/ \E s \in Sems :
          \/ AddPermit(s)
          \/ PassPermit(s)
          \/ \E t \in Tasks : TakePermit(t, s) \/ AwaitPermit(t, s)
    \/ \E m \in Mutexes, t \in Tasks :
          Acquire(t, m) \/ AwaitMutex(t, m) \/ Release(t, m) \/ HandOver(t, m)

Spec == Init /\ [][Next]_svars
==============================================================================
