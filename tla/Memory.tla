--------------------------------- MODULE Memory ---------------------------------
(***************************************************************************)
(* Physical pages and who has them: kernel32/memory32.c, and the page side *)
(* of fork, execve, exit, sbrk and free in kernel32/task/tss.c.            *)
(*                                                                         *)
(* A task has a kernel stack and an address space: a page directory, one   *)
(* page table for each region, and frames.  Page 1 holds the kernel's own  *)
(* table, 2 and 3 belong to the idle task, 4 to 7 to the default task,     *)
(* which is task 0.  leaked are the pages that are marked but that nothing *)
(* points to any more.                                                     *)
(*                                                                         *)
(* A call allocates its pages one by one, each under the allocator's mutex.*)
(* The network card's interrupt allocates on the identity of the task it   *)
(* interrupts, which the recursive mutex lets in.                          *)
(*                                                                         *)
(* astray: a page that is in use has been unmarked or given out again, or  *)
(* a task runs without the memory it needs.  The model stops there.        *)
(*                                                                         *)
(* A definition X_How is X with a plausible slip in it; nothing uses it.   *)
(***************************************************************************)
EXTENDS Integers, SequencesExt

CONSTANTS
    NPages,     \* bits of the page bitmap
    NTasks,     \* OS_TASK_MAX_SIZE
    NImage,     \* pages execve maps for a program: what it loads, and spare ones
    NHeap,      \* bound: image pages a heap reaches
    PageSize,   \* in units of a block header
    MemSize,    \* p_memsz of the program: where its heap begins
    Sizes,      \* what sbrk is called with
    MaxBlocks,  \* bound: blocks a task has at once
    MaxCalls    \* bound: fork, execve, exit and the card's interrupt altogether

ASSUME MemoryAssumption ==
    /\ NPages \in Nat /\ NPages > 8 /\ NTasks \in Nat \ {0} /\ PageSize \in Nat \ {0}
    /\ NImage \in Nat \ {0} /\ NHeap \in Nat /\ NHeap >= NImage
    /\ MemSize \in Nat /\ MemSize + 1 < NImage * PageSize
    /\ Sizes \subseteq Nat \ {0} /\ MaxBlocks \in Nat
    /\ MaxCalls \in Nat

VARIABLES
    used,       \* memory32_info.bitmap: the pages that are marked
    leaked,     \* pages no one has any more (history)
    card,       \* pages the card's driver has
    alive,      \* "none", "new" (forked, not ready) or "run"
    space,      \* kernel stack and address space of each task
    call,       \* the call a task is in
    heap,       \* end of the heap, and its blocks
    taskLock,   \* task_mutex, while it stays locked between steps
    calls,
    astray

pages == <<used, leaked, card>>
vars == <<pages, alive, space, call, heap, taskLock, calls, astray>>

Pages == 1..NPages
Kernel == {1, 2, 3}
Slots == 0..NTasks
Nobody == -1

\* Virtual pages: 0 of the default task, the image with the heap, the stack.
Stack == NHeap + 1
VPages == 0..Stack
Image == 1..NImage
Regions == 0..2
Region(v) == IF v = 0 THEN 0 ELSE IF v = Stack THEN 2 ELSE 1

NoSpace == [kstk |-> 0, dir |-> 0, tab |-> [r \in Regions |-> 0], frame |-> [v \in VPages |-> 0]]
NoCall == [op |-> "none", kid |-> 0, dir0 |-> 0, new |-> NoSpace, at |-> 0, stop |-> 0]
NoHeap == [end |-> 0, blocks |-> <<>>, tidy |-> TRUE]

Init ==
    /\ used = 1..7 /\ leaked = {} /\ card = {}
    /\ alive = [t \in Slots |-> IF t = 0 THEN "run" ELSE "none"]
    /\ space = [t \in Slots |-> IF t # 0 THEN NoSpace ELSE
                  [NoSpace EXCEPT !.kstk = 4, !.dir = 5, !.frame[0] = 6, !.tab[0] = 7]]
    /\ call = [t \in Slots |-> NoCall] /\ heap = [t \in Slots |-> NoHeap]
    /\ taskLock = Nobody /\ calls = 0 /\ astray = FALSE

-----------------------------------------------------------------------------
(* Who has what. *)

PagesOf(s) ==
    ({s.kstk, s.dir} \cup {s.tab[r] : r \in Regions} \cup {s.frame[v] : v \in VPages}) \ {0}
Held(t) == PagesOf(space[t]) \cup PagesOf(call[t].new) \cup ({call[t].dir0} \ {0})
Owned == Kernel \cup card \cup UNION {Held(t) : t \in Slots}

\* destroy_pde frees the frames.  Not the tables, and not the directory, but
\* the page that the word behind the directory names.
FramesOf(s) == {s.frame[v] : v \in VPages} \ {0}
FramesOf_Image(s) == {s.frame[v] : v \in 1..NHeap} \ {0}
Released(s) == FramesOf(s)
Abandoned(s) == PagesOf(s) \ (FramesOf(s) \cup {s.kstk})

\* That word is the kernel's first table if another directory comes there, the
\* first frame of a table, or whatever a stack or a program has left there.
PastDirectory(d) ==
    LET p == d + 1
        tables == {x \in Slots \X Regions : space[x[1]].tab[x[2]] = p}
        first(r) == CASE r = 0 -> 0 [] r = 1 -> 1 [] OTHER -> Stack
    IN  CASE \E t \in Slots : space[t].dir = p -> {1}
          [] (\A t \in Slots : space[t].dir # p) /\ tables # {} ->
                {IF x[2] = 2 THEN 0 ELSE space[x[1]].frame[first(x[2])] : x \in tables}
          [] OTHER -> {0} \cup Pages

-----------------------------------------------------------------------------
(* The allocator. *)

Goes(t) == alive[t] = "run" /\ ~astray
Idle(t) == Goes(t) /\ call[t].op = "none"

Lowest == Min(Pages \ used)

\* What a call needs next: a frame comes before the table it is entered in.
Wanted(s, vs) ==
    LET open == {v \in vs : s.frame[v] = 0 \/ s.tab[Region(v)] = 0}
        v == Min(open)
    IN  CASE s.dir = 0 -> <<"dir", 0>>
          [] s.dir # 0 /\ open = {} -> <<"nothing", 0>>
          [] OTHER -> IF s.frame[v] = 0 THEN <<"frame", v>> ELSE <<"table", v>>

Wants(t) ==
    LET c == call[t]
    IN  CASE c.op = "fork" /\ c.new.kstk = 0 -> <<"kstk", 0>>
          [] c.op = "fork" /\ c.new.kstk # 0 /\ c.dir0 = 0 -> <<"dir0", 0>>
          [] c.op = "fork" /\ c.new.kstk # 0 /\ c.dir0 # 0 ->
                Wanted(c.new, {v \in VPages : space[t].frame[v] # 0})
          [] c.op = "exec" -> Wanted(c.new, Image \cup {Stack})
          [] c.op = "sbrk" -> IF c.at * PageSize > c.stop - 1 THEN <<"nothing", 0>>
                              ELSE <<"heap", c.at + 1>>
          [] OTHER -> <<"nothing", 0>>

\* memory32_alloc_page, and where the caller enters the page.  A page sbrk maps
\* takes the place of the one that was mapped there.
AllocPage(t) ==
    LET w == Wants(t)
        old == space[t].frame[w[2]]
    IN  /\ Goes(t) /\ w[1] # "nothing" /\ used # Pages
        /\ used' = used \cup {Lowest}
        /\ CASE w[1] = "heap" ->
                  /\ space' = [space EXCEPT ![t].frame[w[2]] = Lowest]
                  /\ call' = [call EXCEPT ![t].at = @ + 1]
                  /\ leaked' = leaked \cup ({old} \ {0})
             [] w[1] = "dir0" ->
                  call' = [call EXCEPT ![t].dir0 = Lowest] /\ UNCHANGED <<space, leaked>>
             [] OTHER ->
                  /\ call' = [call EXCEPT ![t].new =
                       CASE w[1] = "kstk" -> [@ EXCEPT !.kstk = Lowest]
                         [] w[1] = "dir" -> [@ EXCEPT !.dir = Lowest]
                         [] w[1] = "table" -> [@ EXCEPT !.tab[Region(w[2])] = Lowest]
                         [] OTHER -> [@ EXCEPT !.frame[w[2]] = Lowest]]
                  /\ UNCHANGED <<space, leaked>>
        /\ alive' = IF w[1] = "dir0" THEN [alive EXCEPT ![call[t].kid] = "new"] ELSE alive
        /\ UNCHANGED <<calls, card, heap, taskLock, astray>>

Counted == calls < MaxCalls /\ calls' = calls + 1

\* The card's interrupt takes a page for buffers, and netout gives one back.
CardAlloc ==
    /\ ~astray /\ used # Pages /\ Counted
    /\ card' = card \cup {Lowest} /\ used' = used \cup {Lowest}
    /\ UNCHANGED <<leaked, alive, space, call, heap, taskLock, astray>>

\* It comes when the task has found a page and not yet marked it: the page goes
\* to both.
CardAllocInside(t) ==
    /\ Goes(t) /\ Wants(t)[1] # "nothing" /\ used # Pages
    /\ astray' = TRUE
    /\ UNCHANGED <<calls, pages, alive, space, call, heap, taskLock>>

CardFree ==
    /\ ~astray
    /\ \E p \in card : card' = card \ {p} /\ used' = used \ {p}
    /\ UNCHANGED <<calls, leaked, alive, space, call, heap, taskLock, astray>>

\* free_page of pages that may be anybody's, by a task that has those in mine.
Unmark(freed, mine, lost) ==
    /\ freed \cap (Owned \ mine) = {}
    /\ used' = used \ freed /\ leaked' = (leaked \cup lost) \ freed
    /\ UNCHANGED astray
Harm(freed, mine) ==
    /\ freed \cap (Owned \ mine) # {}
    /\ astray' = TRUE
    /\ UNCHANGED <<used, leaked, alive, space, call, heap, taskLock>>

-----------------------------------------------------------------------------
(* fork *)

LockFree(t) == taskLock \in {Nobody, t}

\* alloc_task returns a slot it does not reserve: the name is set, after
\* tss_init, when the child has its first directory.
ForkBegin(t) ==
    LET free == {u \in Slots : alive[u] = "none"}
    IN  /\ Idle(t) /\ LockFree(t) /\ free # {} /\ Counted
        /\ call' = [call EXCEPT ![t] = [NoCall EXCEPT !.op = "fork", !.kid = Min(free)]]
        /\ astray' = (\E u \in Slots : call[u].op = "fork" /\ call[u].kid = Min(free))
        /\ UNCHANGED <<pages, alive, space, heap, taskLock>>

\* The child is on the ready list before it has a copy of its parent's space.
ChildRunsEarly(u) ==
    /\ ~astray /\ alive[u] = "new"
    /\ astray' = TRUE
    /\ UNCHANGED <<calls, pages, alive, space, call, heap, taskLock>>

\* copy_page has made the child a directory of its own.
ForkEnd(t) ==
    LET c == call[t]
    IN  /\ Goes(t) /\ c.op = "fork" /\ Wants(t)[1] = "nothing"
        /\ space' = [space EXCEPT ![c.kid] = c.new]
        /\ alive' = [alive EXCEPT ![c.kid] = "run"]
        /\ leaked' = leaked \cup {c.dir0}
        /\ call' = [call EXCEPT ![t] = NoCall]
        /\ UNCHANGED <<calls, used, card, heap, taskLock, astray>>

\* No page.  For the kernel stack nobody asks: the first directory comes next,
\* and there may be a page by then, for a child whose stack is at address 0.
\* Without a directory the page below the child's stack pointer is freed, which
\* is the parent's.  After that fork says nothing, and the child has no space.
ForkFails(t) ==
    LET c == call[t]
        below == space[t].frame[Stack]
    IN  /\ Goes(t) /\ c.op = "fork" /\ used = Pages
        /\ \/ /\ c.new.dir = 0 /\ c.dir0 = 0
              /\ space' = [space EXCEPT ![t].frame[Stack] = 0]
              /\ leaked' = leaked \cup ({c.new.kstk, below} \ {0})
              /\ call' = [call EXCEPT ![t] = NoCall]
              /\ UNCHANGED astray
           \/ /\ c.new.kstk = 0 \/ (c.dir0 # 0 /\ Wants(t)[1] # "nothing")
              /\ astray' = TRUE
              /\ UNCHANGED <<space, leaked, call>>
        /\ UNCHANGED <<calls, used, card, alive, heap, taskLock>>

-----------------------------------------------------------------------------
(* execve and exit *)

ExecBegin(t) ==
    /\ Idle(t) /\ t # 0 /\ LockFree(t) /\ Counted
    /\ taskLock' = t
    /\ call' = [call EXCEPT ![t] = [NoCall EXCEPT !.op = "exec"]]
    /\ UNCHANGED <<pages, alive, space, heap, astray>>

ExecEnd(t) ==
    LET old == space[t]
        mine == FramesOf(old) \cup Abandoned(old)
        freed(p) == Released(old) \cup ({p} \ {0})
    IN  /\ Goes(t) /\ call[t].op = "exec" /\ Wants(t)[1] = "nothing"
        /\ \E p \in PastDirectory(old.dir) :
              \/ Harm(freed(p), mine)
              \/ /\ Unmark(freed(p), mine, Abandoned(old))
                 /\ space' = [space EXCEPT ![t] = [call[t].new EXCEPT !.kstk = old.kstk]]
                 /\ heap' = [heap EXCEPT ![t] = [NoHeap EXCEPT !.end = MemSize + 1]]
                 /\ call' = [call EXCEPT ![t] = NoCall]
                 /\ taskLock' = Nobody /\ UNCHANGED alive
        /\ UNCHANGED <<card, calls>>

\* With no page for the directory, execve returns and keeps task_mutex.  Every
\* later failure, and a file that is no program, destroys the space the task
\* goes back to.
ExecFails(t) ==
    /\ Goes(t) /\ call[t].op = "exec"
    /\ \/ /\ used = Pages /\ call[t].new.dir = 0
          /\ call' = [call EXCEPT ![t] = NoCall] /\ UNCHANGED astray
       \/ /\ call[t].new.dir # 0 /\ call[t].new.frame[1] = 0
          /\ astray' = TRUE /\ UNCHANGED call
       \/ /\ used = Pages /\ Wants(t)[1] # "nothing" /\ call[t].new.frame[1] # 0
          /\ astray' = TRUE /\ UNCHANGED call
    /\ UNCHANGED <<calls, pages, alive, space, heap, taskLock>>

\* tss_task_destroy.  The stack page is looked for below the saved stack
\* pointer: of a task that has been switched out in the kernel that is the page
\* below its kernel stack, of another one a page of its own user stack.
Exit(t) ==
    LET s == space[t]
        mine(switched) == IF switched THEN PagesOf(s) ELSE PagesOf(s) \ {s.frame[Stack]}
        freed(p, switched) ==
            ((Released(s) \cap mine(switched)) \cup {p, IF switched THEN s.kstk - 1 ELSE 0}) \ {0}
    IN  /\ Idle(t) /\ t # 0 /\ Counted
        /\ \E p \in PastDirectory(s.dir), switched \in BOOLEAN :
              \/ Harm(freed(p, switched), PagesOf(s))
              \/ /\ Unmark(freed(p, switched), PagesOf(s),
                           PagesOf(s) \ (Released(s) \cap mine(switched)))
                 /\ alive' = [alive EXCEPT ![t] = "none"]
                 /\ space' = [space EXCEPT ![t] = NoSpace]
                 /\ heap' = [heap EXCEPT ![t] = NoHeap]
                 /\ UNCHANGED <<call, taskLock>>
        /\ UNCHANGED <<card>>

-----------------------------------------------------------------------------
(* sbrk and free.  A block is a header and size units; page v of the image
   begins at unit (v - 1) * PageSize. *)

PageAt(a) == 1 + a \div PageSize
Covers(b) == PageAt(b.at)..PageAt(b.at + b.size)
Block(t, a, n) == [at |-> a, size |-> n, on |-> space[t].frame]

FirstNew_Again(a) == a \div PageSize
\* Only what lies beyond the page the heap ends in is mapped.
FirstNew(a) == IF a % PageSize = 0 THEN a \div PageSize ELSE a \div PageSize + 1

\* The header is written first.  If the heap ends where a page does, either no
\* page is there, or the page is then mapped anew and the header lost.  A task
\* that was forked and has not called execve has no heap to call sbrk for.
Sbrk(t, n) ==
    LET a == heap[t].end
        stop == a + n + 1
    IN  /\ Idle(t) /\ Len(heap[t].blocks) < MaxBlocks /\ PageAt(stop) <= NHeap
        /\ a # 0
        /\ IF space[t].frame[PageAt(a)] = 0
           THEN astray' = TRUE /\ UNCHANGED <<call, heap>>
           ELSE /\ heap' = [heap EXCEPT ![t].tidy = @ /\ a % PageSize # 0]
                /\ call' = [call EXCEPT ![t] =
                     [NoCall EXCEPT !.op = "sbrk", !.at = FirstNew(a), !.stop = stop]]
                /\ UNCHANGED astray
        /\ UNCHANGED <<calls, pages, alive, space, taskLock>>

SbrkEnd(t) ==
    LET a == heap[t].end
        stop == call[t].stop
    IN  /\ Goes(t) /\ call[t].op = "sbrk" /\ Wants(t)[1] = "nothing"
        /\ heap' = [heap EXCEPT ![t].end = stop,
                                ![t].blocks = Append(@, Block(t, a, stop - a - 1))]
        /\ call' = [call EXCEPT ![t] = NoCall]
        /\ UNCHANGED <<calls, pages, alive, space, taskLock, astray>>

\* The block stays in the list, and the next one will be put in its place.
SbrkFails(t) ==
    /\ Goes(t) /\ call[t].op = "sbrk" /\ Wants(t)[1] # "nothing" /\ used = Pages
    /\ heap' = [heap EXCEPT ![t].tidy = FALSE]
    /\ call' = [call EXCEPT ![t] = NoCall]
    /\ UNCHANGED <<calls, pages, alive, space, taskLock, astray>>

Unmapped_First(b) == IF PageAt(b.at) < PageAt(b.at + b.size + 1) THEN PageAt(b.at) ELSE 0
\* Of the last block, the page it ends in is unmapped if it began in another.
\* Nothing is unmarked: free_page takes the number of the page-table entry for
\* that of a page.  The end of the heap goes down to the block, whichever it is.
Unmapped(b) == IF PageAt(b.at) < PageAt(b.at + b.size + 1) THEN PageAt(b.at + b.size + 1) ELSE 0

FreeBlock(t, i) ==
    LET bs == heap[t].blocks
        v == IF i = Len(bs) THEN Unmapped(bs[i]) ELSE 0
    IN  /\ Idle(t) /\ i \in DOMAIN bs
        /\ heap' = [heap EXCEPT ![t].end = bs[i].at, ![t].blocks = RemoveAt(@, i),
                                ![t].tidy = @ /\ i = Len(bs)]
        /\ IF v = 0 THEN UNCHANGED <<space, leaked>>
           ELSE /\ space' = [space EXCEPT ![t].frame[v] = 0]
                /\ leaked' = leaked \cup ({space[t].frame[v]} \ {0})
        /\ UNCHANGED <<calls, used, card, alive, call, taskLock, astray>>

Next ==
    \/ CardAlloc \/ CardFree
    \/ \E t \in Slots :
          \/ AllocPage(t) \/ CardAllocInside(t)
          \/ ForkBegin(t) \/ ChildRunsEarly(t) \/ ForkEnd(t) \/ ForkFails(t)
          \/ ExecBegin(t) \/ ExecEnd(t) \/ ExecFails(t) \/ Exit(t)
          \/ \E n \in Sizes : Sbrk(t, n)
          \/ SbrkEnd(t) \/ SbrkFails(t)
          \/ \E i \in 1..MaxBlocks : FreeBlock(t, i)

Spec == Init /\ [][Next]_vars

-----------------------------------------------------------------------------
(* Properties. *)

\* As long as none of the known mishaps has unmarked or shared a page in use
\* (astray), every marked page is either somebody's or one the code has lost
\* count of, never two of these, and what anybody has is marked: whatever
\* order forks, programs, exits, heaps and the card's interrupts come in, and
\* wherever memory runs out.
Holding(t) ==
    {<<t, "space", p>> : p \in PagesOf(space[t])} \cup
    {<<t, "call", p>> : p \in PagesOf(call[t].new) \cup ({call[t].dir0} \ {0})}
Holdings == UNION {Holding(t) : t \in Slots}
PagesAccounted ==
    ~astray =>
       /\ used = Owned \cup leaked
       /\ Cardinality(used) = Cardinality(Kernel) + Cardinality(card) + Cardinality(leaked)
                                + Cardinality(Holdings)

\* What sbrk has handed out keeps its contents until it is freed: every block
\* still lies on the frames it was given, and no two blocks overlap, as long as
\* blocks are freed in the order last in, first out, and no block began at the
\* start of a page or was refused.
HeapSound ==
    ~astray => \A t \in Slots : heap[t].tidy =>
       \A i \in DOMAIN heap[t].blocks :
          LET b == heap[t].blocks[i]
          IN  /\ \A v \in Covers(b) : space[t].frame[v] = b.on[v] /\ b.on[v] # 0
              /\ b.at + b.size + 1 <= heap[t].end
              /\ \A j \in 1..(i - 1) : heap[t].blocks[j].at + heap[t].blocks[j].size < b.at

=============================================================================
