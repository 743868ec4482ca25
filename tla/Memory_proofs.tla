----------------------------- MODULE Memory_proofs -----------------------------
(***************************************************************************)
(* Proofs about Memory, for any number of pages, tasks and blocks, any     *)
(* size of a page, of the image and of the heap.                           *)
(***************************************************************************)
EXTENDS Memory, Bitmap, FiniteSetTheorems, FunctionTheorems, SequenceTheorems, WellFoundedInduction, TLAPS

Entries == 0..NPages
Spaces == [kstk : Entries, dir : Entries, tab : [Regions -> Entries],
           frame : [VPages -> Entries]]
Calls == [op : {"none", "fork", "exec", "sbrk"}, kid : Slots, dir0 : Entries,
          new : Spaces, at : Nat, stop : Nat]
Blocks == [at : Nat, size : Nat, on : [VPages -> Entries]]
Heaps == [end : Nat, blocks : Seq(Blocks), tidy : BOOLEAN]

TypeInv ==
    /\ used \subseteq Pages
    /\ alive \in [Slots -> {"none", "new", "run"}]
    /\ space \in [Slots -> Spaces]
    /\ call \in [Slots -> Calls]
    /\ heap \in [Slots -> Heaps]

\* No page is entered twice in one space.
Once(s) ==
    /\ s.kstk # 0 => s.kstk # s.dir
    /\ \A r \in Regions : s.tab[r] # 0 => s.tab[r] # s.kstk /\ s.tab[r] # s.dir
    /\ \A v \in VPages : s.frame[v] # 0 => s.frame[v] # s.kstk /\ s.frame[v] # s.dir
    /\ \A r, q \in Regions : s.tab[r] # 0 /\ s.tab[r] = s.tab[q] => r = q
    /\ \A r \in Regions, v \in VPages : s.tab[r] # 0 => s.tab[r] # s.frame[v]
    /\ \A v, w \in VPages : s.frame[v] # 0 /\ s.frame[v] = s.frame[w] => v = w
EachOnce == \A t \in Slots : Once(space[t]) /\ Once(call[t].new)

\* Every marked page has one owner, which is named by what it is and a task.
K == <<"kernel", 0>>
C == <<"card", 0>>
L == <<"leaked", 0>>
Sp(t) == <<"space", t>>
Nw(t) == <<"new", t>>
Dr(t) == <<"dir0", t>>
Owners == {K, C, L} \cup ({"space", "new", "dir0"} \X Slots)

\* who is the owner of each page of the set u.
Books(who, u) ==
    /\ who \in [u -> Owners]
    /\ Kernel = {p \in u : who[p] = K}
    /\ card = {p \in u : who[p] = C}
    /\ leaked = {p \in u : who[p] = L}
    /\ \A t \in Slots : PagesOf(space[t]) = {p \in u : who[p] = Sp(t)}
    /\ \A t \in Slots : PagesOf(call[t].new) = {p \in u : who[p] = Nw(t)}
    /\ \A t \in Slots : {call[t].dir0} \ {0} = {p \in u : who[p] = Dr(t)}
OneOwner == \E who : Books(who, used)

\* How far a call has got says what it has allocated.
Empty(s) == s.dir = 0 => (\A r \in Regions : s.tab[r] = 0) /\ (\A v \in VPages : s.frame[v] = 0)
CallAt(t) ==
    LET c == call[t]
    IN  /\ c.op \in {"none", "sbrk"} => c.new = NoSpace /\ c.dir0 = 0
        /\ c.op = "exec" => c.new.kstk = 0 /\ c.dir0 = 0
        /\ c.op = "fork" => /\ c.dir0 = 0 => c.new.dir = 0
                            /\ alive[c.kid] = IF c.dir0 = 0 THEN "none" ELSE "new"
        /\ Empty(c.new)
        /\ alive[t] # "run" => c.op = "none" /\ space[t] = NoSpace /\ heap[t] = NoHeap
OneParent ==
    \A t, u \in Slots : call[t].op = "fork" /\ call[u].op = "fork"
                           /\ call[t].kid = call[u].kid => t = u

\* A heap lies on the pages of the image, and sbrk maps those beyond its end.
HeapAt(t) ==
    LET h == heap[t]   c == call[t]
    IN  /\ \A i \in DOMAIN h.blocks : PageAt(h.blocks[i].at + h.blocks[i].size + 1) <= NHeap
        /\ c.op = "sbrk" => c.stop > h.end /\ PageAt(c.stop) <= NHeap
        /\ h.tidy =>
             /\ PageAt(h.end) <= NHeap
             /\ c.op = "sbrk" =>
                  /\ h.end % PageSize # 0 /\ c.at >= PageAt(h.end)
                  /\ \A v \in PageAt(h.end)..c.at : v \in VPages => space[t].frame[v] # 0
BlocksAt(t) ==
    heap[t].tidy =>
       \A i \in DOMAIN heap[t].blocks :
          LET b == heap[t].blocks[i]
          IN  /\ \A v \in Covers(b) : space[t].frame[v] = b.on[v] /\ b.on[v] # 0
              /\ b.at + b.size + 1 <= heap[t].end
              /\ \A j \in 1..(i - 1) : heap[t].blocks[j].at + heap[t].blocks[j].size < b.at

Sound ==
    /\ TypeInv /\ EachOnce /\ OneOwner /\ OneParent
    /\ \A t \in Slots : CallAt(t) /\ HeapAt(t) /\ BlocksAt(t)

\* After a mishap nothing happens any more.
Inv == astray \in BOOLEAN /\ (astray = FALSE => Sound)

USE MemoryAssumption

------------------------------------------------------------------------------
(* Owners, and the pages of a space.                                       *)

\* The owners are different from one another.
LEMMA OwnersDiffer ==
    /\ K \in Owners /\ C \in Owners /\ L \in Owners
    /\ K # C /\ K # L /\ C # L
    /\ \A t \in Slots : /\ Sp(t) \in Owners /\ Nw(t) \in Owners /\ Dr(t) \in Owners
                        /\ Sp(t) \notin {K, C, L} /\ Nw(t) \notin {K, C, L}
                        /\ Dr(t) \notin {K, C, L}
    /\ \A t, u \in Slots : /\ Sp(t) # Nw(u) /\ Sp(t) # Dr(u) /\ Nw(t) # Dr(u)
                           /\ Sp(t) = Sp(u) => t = u
                           /\ Nw(t) = Nw(u) => t = u
                           /\ Dr(t) = Dr(u) => t = u
BY DEF K, C, L, Sp, Nw, Dr, Owners

\* The pages of a space.
LEMMA InSpace ==
    ASSUME NEW s, NEW q
    PROVE  q \in PagesOf(s) <=> q # 0 /\ \/ q = s.kstk \/ q = s.dir
                                         \/ \E r \in Regions : q = s.tab[r]
                                         \/ \E v \in VPages : q = s.frame[v]
BY DEF PagesOf

\* What is in a space.
LEMMA SpaceParts ==
    ASSUME NEW s \in Spaces
    PROVE  /\ s.kstk \in Entries /\ s.dir \in Entries
           /\ s.tab \in [Regions -> Entries] /\ s.frame \in [VPages -> Entries]
           /\ PagesOf(s) \subseteq Pages /\ 0 \notin PagesOf(s)
           /\ \A p : p \in PagesOf(s) <=> p # 0 /\ \/ p = s.kstk \/ p = s.dir
                                                   \/ \E r \in Regions : p = s.tab[r]
                                                   \/ \E v \in VPages : p = s.frame[v]
<1>1. /\ s.kstk \in Entries /\ s.dir \in Entries
      /\ s.tab \in [Regions -> Entries] /\ s.frame \in [VPages -> Entries]
  BY DEF Spaces
<1>2. \A p : p \in PagesOf(s) <=> p # 0 /\ \/ p = s.kstk \/ p = s.dir
                                           \/ \E r \in Regions : p = s.tab[r]
                                           \/ \E v \in VPages : p = s.frame[v]
  BY InSpace
<1>3. Entries \ {0} = Pages
  BY MemoryAssumption DEF Entries, Pages
<1>4. ASSUME NEW p \in PagesOf(s) PROVE p \in Pages
  BY <1>1, <1>2, <1>3
<1>5. QED
  BY <1>1, <1>2, <1>4

\* A space with nothing in it.
LEMMA NothingThere ==
    /\ NoSpace \in Spaces /\ PagesOf(NoSpace) = {} /\ Once(NoSpace) /\ Empty(NoSpace)
    /\ NoSpace.kstk = 0 /\ NoSpace.dir = 0
    /\ \A r \in Regions : NoSpace.tab[r] = 0
    /\ \A v \in VPages : NoSpace.frame[v] = 0
<1>1. 0 \in Entries
  BY MemoryAssumption DEF Entries
<1>2. PICK a \in [Regions -> Entries] : a = [r \in Regions |-> 0]
  <2>1. [r \in Regions |-> 0] \in [Regions -> Entries]
    BY <1>1
  <2>2. QED
    BY <2>1
<1>3. PICK f \in [VPages -> Entries] : f = [v \in VPages |-> 0]
  <2>1. [v \in VPages |-> 0] \in [VPages -> Entries]
    BY <1>1
  <2>2. QED
    BY <2>1
<1>4. NoSpace = [kstk |-> 0, dir |-> 0, tab |-> a, frame |-> f]
  BY <1>2, <1>3 DEF NoSpace
<1>5. /\ NoSpace \in Spaces /\ NoSpace.kstk = 0 /\ NoSpace.dir = 0
      /\ NoSpace.tab = a /\ NoSpace.frame = f
  BY <1>1, <1>4 DEF Spaces
<1>6. (\A r \in Regions : a[r] = 0) /\ (\A v \in VPages : f[v] = 0)
  BY <1>2, <1>3
<1>7. PagesOf(NoSpace) = {}
  <2>1. \A p : p \notin PagesOf(NoSpace)
    BY <1>5, <1>6, SpaceParts
  <2>2. QED
    BY <2>1
<1>8. Once(NoSpace) /\ Empty(NoSpace)
  BY <1>5, <1>6 DEF Once, Empty
<1>9. QED
  BY <1>5, <1>6, <1>7, <1>8

\* A page comes in as the kernel stack of a space that had none.
LEMMA PutKstk ==
    ASSUME NEW s \in Spaces, Once(s), NEW p, p = 0 \/ p \notin PagesOf(s), s.kstk = 0,
           NEW n \in Spaces, n.kstk = p, n.dir = s.dir, n.tab = s.tab, n.frame = s.frame
    PROVE  Once(n) /\ PagesOf(n) = PagesOf(s) \cup ({p} \ {0})
<1>1. \A q : q \in PagesOf(n) <=> q \in PagesOf(s) \/ (q = p /\ q # 0)
  BY DEF PagesOf
<1>2. Once(n)
  BY InSpace DEF Once
<1>3. QED
  BY <1>1, <1>2

\* A page comes in as the directory of a space that had none.
LEMMA PutDir ==
    ASSUME NEW s \in Spaces, Once(s), NEW p, p = 0 \/ p \notin PagesOf(s), s.dir = 0,
           NEW n \in Spaces, n.kstk = s.kstk, n.dir = p, n.tab = s.tab, n.frame = s.frame
    PROVE  Once(n) /\ PagesOf(n) = PagesOf(s) \cup ({p} \ {0})
<1>1. \A q : q \in PagesOf(n) <=> q \in PagesOf(s) \/ (q = p /\ q # 0)
  BY DEF PagesOf
<1>2. Once(n)
  BY InSpace DEF Once
<1>3. QED
  BY <1>1, <1>2

\* A page comes in as the table of a region that had none.
LEMMA PutTab ==
    ASSUME NEW s \in Spaces, Once(s), NEW p, p = 0 \/ p \notin PagesOf(s),
           NEW r \in Regions, s.tab[r] = 0,
           NEW n \in Spaces, n.kstk = s.kstk, n.dir = s.dir, n.frame = s.frame, n.tab[r] = p,
           \A q \in Regions : q # r => n.tab[q] = s.tab[q]
    PROVE  Once(n) /\ PagesOf(n) = PagesOf(s) \cup ({p} \ {0})
<1>1. \A q : q \in PagesOf(n) <=> q \in PagesOf(s) \/ (q = p /\ q # 0)
  BY InSpace
<1>2. Once(n)
  BY InSpace DEF Once
<1>3. QED
  BY <1>1, <1>2

\* A page is mapped, and whatever was mapped there goes.
LEMMA PutFrame ==
    ASSUME NEW s \in Spaces, Once(s), NEW p, p = 0 \/ p \notin PagesOf(s),
           NEW v \in VPages,
           NEW n \in Spaces, n.kstk = s.kstk, n.dir = s.dir, n.tab = s.tab, n.frame[v] = p,
           \A w \in VPages : w # v => n.frame[w] = s.frame[w]
    PROVE  Once(n) /\ PagesOf(n) = (PagesOf(s) \ {s.frame[v]}) \cup ({p} \ {0})
<1>1. s.frame[v] # 0 =>
        /\ s.frame[v] # s.kstk /\ s.frame[v] # s.dir
        /\ \A i \in Regions : s.frame[v] # s.tab[i]
        /\ \A w \in VPages : w # v => s.frame[v] # s.frame[w]
  BY DEF Once
<1>2. ASSUME NEW q
      PROVE  q \in PagesOf(n) <=> (q \in PagesOf(s) /\ q # s.frame[v]) \/ (q = p /\ q # 0)
  <2>1. CASE q = p
    BY <2>1, InSpace
  <2>2. CASE q # p /\ q = s.frame[v]
    BY <1>1, <2>2, InSpace
  <2>3. CASE q # p /\ q # s.frame[v]
    BY <2>3, InSpace
  <2>4. QED
    BY <2>1, <2>2, <2>3
<1>3. Once(n)
  BY InSpace DEF Once
<1>4. QED
  BY <1>2, <1>3

------------------------------------------------------------------------------
(* The least of a set, what a call wants, and the owners' books.           *)

\* A set of numbers that is not empty has a least one.
LEMMA MinIsLeast ==
    ASSUME NEW T, T \subseteq Nat, T # {}
    PROVE  Min(T) \in T /\ \A y \in T : Min(T) <= y
<1>1. \E x \in T : \A y \in T : ~ (<<y, x>> \in OpToRel(<, Nat))
  BY NatLessThanWellFounded, WFMin
<1>2. PICK x \in T : \A y \in T : ~ (<<y, x>> \in OpToRel(<, Nat))
  BY <1>1
<1>3. \A y \in T : ~(y < x)
  BY <1>2 DEF OpToRel
<1>4. x \in T /\ \A y \in T : x <= y
  BY <1>3
<1>5. QED
  BY <1>4 DEF Min

\* The allocator finds a page that is not marked.
LEMMA LowestFree ==
    ASSUME TypeInv, used # Pages
    PROVE  /\ Lowest \in Pages /\ Lowest \notin used /\ Lowest # 0 /\ Lowest \in Entries
           /\ 0 \in Entries /\ 0 \notin Pages
<1>1. Pages \ used \subseteq Nat /\ Pages \ used # {}
  <2>1. Pages \subseteq Nat
    BY MemoryAssumption DEF Pages
  <2>2. QED
    BY <2>1 DEF TypeInv
<1>2. Lowest \in Pages \ used
  BY <1>1, MinIsLeast DEF Lowest
<1>3. QED
  BY <1>2, MemoryAssumption DEF Pages, Entries

\* The virtual pages.
LEMMA Virtual ==
    /\ NHeap \in Nat /\ NHeap >= 1 /\ Stack = NHeap + 1 /\ Stack \in VPages
    /\ VPages \subseteq Nat /\ 0 \in VPages /\ Image \subseteq VPages /\ 1 \in Image
    /\ \A v \in VPages : Region(v) \in Regions
    /\ \A v \in Nat : v \in VPages <=> v <= Stack
BY MemoryAssumption DEF Stack, VPages, Image, Region, Regions

\* What a space still needs of the virtual pages vs.
LEMMA WantedWhat ==
    ASSUME NEW s \in Spaces, NEW vs, vs \subseteq VPages, NEW w, w = Wanted(s, vs)
    PROVE  \/ w = <<"dir", 0>> /\ s.dir = 0
           \/ w = <<"nothing", 0>> /\ s.dir # 0 /\ \A v \in vs : s.frame[v] # 0
           \/ \E v \in vs : w = <<"frame", v>> /\ s.dir # 0 /\ s.frame[v] = 0
           \/ \E v \in vs : w = <<"table", v>> /\ s.dir # 0 /\ s.frame[v] # 0
                                               /\ s.tab[Region(v)] = 0
<1> DEFINE open == {v \in vs : s.frame[v] = 0 \/ s.tab[Region(v)] = 0}
<1>1. CASE s.dir = 0
  BY <1>1 DEF Wanted
<1>2. CASE s.dir # 0 /\ open = {}
  BY <1>2 DEF Wanted
<1>3. CASE s.dir # 0 /\ open # {}
  <2>1. PICK v \in open : v = Min(open)
    BY <1>3, MinIsLeast, Virtual
  <2>2. w = IF s.frame[v] = 0 THEN <<"frame", v>> ELSE <<"table", v>>
    BY <1>3, <2>1 DEF Wanted
  <2>3. QED
    BY <1>3, <2>1, <2>2
<1>4. QED
  BY <1>1, <1>2, <1>3

\* What a call wants, and where it is then.
LEMMA WantsWhat ==
    ASSUME TypeInv, NEW t \in Slots, CallAt(t), NEW w, w = Wants(t)
    PROVE  LET c == call[t] IN
           \/ /\ w[1] = "nothing"
              /\ c.op = "fork" => c.new.kstk # 0 /\ c.dir0 # 0 /\ c.new.dir # 0
              /\ c.op = "exec" => c.new.dir # 0
              /\ c.op = "sbrk" => c.at * PageSize > c.stop - 1
           \/ w = <<"kstk", 0>> /\ c.op = "fork" /\ c.new.kstk = 0 /\ c.dir0 = 0
           \/ w = <<"kstk", 0>> /\ c.op = "fork" /\ c.new.kstk = 0 /\ c.dir0 # 0
           \/ w = <<"dir0", 0>> /\ c.op = "fork" /\ c.new.kstk # 0 /\ c.dir0 = 0
           \/ w = <<"dir", 0>> /\ c.op \in {"fork", "exec"} /\ c.new.dir = 0
                               /\ (c.op = "fork" => c.dir0 # 0)
           \/ \E v \in VPages : w = <<"frame", v>> /\ c.op \in {"fork", "exec"} /\ c.new.dir # 0
                                                   /\ c.new.frame[v] = 0
           \/ \E v \in VPages : w = <<"table", v>> /\ c.op \in {"fork", "exec"} /\ c.new.dir # 0
                                                   /\ c.new.tab[Region(v)] = 0
           \/ w = <<"heap", c.at + 1>> /\ c.op = "sbrk" /\ ~(c.at * PageSize > c.stop - 1)
<1>1. PICK c \in Calls : c = call[t]
  BY DEF TypeInv
<1>2. c.new \in Spaces /\ c.op \in {"none", "fork", "exec", "sbrk"}
  BY DEF Calls
<1>3. CASE c.op = "fork"
  <2>1. CASE c.new.kstk = 0 \/ c.dir0 = 0
    BY <1>1, <1>3, <2>1 DEF Wants
  <2>2. CASE c.new.kstk # 0 /\ c.dir0 # 0
    <3>1. PICK vs : vs = {v \in VPages : space[t].frame[v] # 0}
      OBVIOUS
    <3>2. w = Wanted(c.new, vs) /\ vs \subseteq VPages
      BY <1>1, <1>3, <2>2, <3>1 DEF Wants
    <3>3. QED
      BY <1>1, <1>2, <1>3, <2>2, <3>2, WantedWhat
  <2>3. QED
    BY <2>1, <2>2
<1>4. CASE c.op = "exec"
  <2>1. PICK vs : vs = Image \cup {Stack}
    OBVIOUS
  <2>2. w = Wanted(c.new, vs) /\ vs \subseteq VPages
    BY <1>1, <1>4, <2>1, Virtual DEF Wants
  <2>3. QED
    BY <1>1, <1>2, <1>4, <2>2, WantedWhat
<1>5. CASE c.op = "sbrk"
  BY <1>1, <1>5 DEF Wants
<1>6. CASE c.op = "none"
  BY <1>1, <1>6 DEF Wants
<1>7. QED
  BY <1>2, <1>3, <1>4, <1>5, <1>6

\* The books, page by page.
LEMMA Booked ==
    ASSUME OneOwner
    PROVE  \E who \in [used -> Owners] :
             /\ \A q : q \in Kernel <=> q \in used /\ who[q] = K
             /\ \A q : q \in card <=> q \in used /\ who[q] = C
             /\ \A q : q \in leaked <=> q \in used /\ who[q] = L
             /\ \A u \in Slots : \A q : q \in PagesOf(space[u]) <=> q \in used /\ who[q] = Sp(u)
             /\ \A u \in Slots : \A q : q \in PagesOf(call[u].new) <=> q \in used /\ who[q] = Nw(u)
             /\ \A u \in Slots : \A q : q = call[u].dir0 /\ q # 0 <=> q \in used /\ who[q] = Dr(u)
<1>1. PICK who : Books(who, used)
  BY DEF OneOwner
<1>2. who \in [used -> Owners]
  BY <1>1 DEF Books
<1>3. /\ \A q : q \in Kernel <=> q \in used /\ who[q] = K
      /\ \A q : q \in card <=> q \in used /\ who[q] = C
      /\ \A q : q \in leaked <=> q \in used /\ who[q] = L
  BY <1>1 DEF Books
<1>4. ASSUME NEW u \in Slots, NEW q
      PROVE  /\ q \in PagesOf(space[u]) <=> q \in used /\ who[q] = Sp(u)
             /\ q \in PagesOf(call[u].new) <=> q \in used /\ who[q] = Nw(u)
             /\ q = call[u].dir0 /\ q # 0 <=> q \in used /\ who[q] = Dr(u)
  <2>1. /\ PagesOf(space[u]) = {p \in used : who[p] = Sp(u)}
        /\ PagesOf(call[u].new) = {p \in used : who[p] = Nw(u)}
        /\ {call[u].dir0} \ {0} = {p \in used : who[p] = Dr(u)}
    BY <1>1 DEF Books
  <2>2. q = call[u].dir0 /\ q # 0 <=> q \in {call[u].dir0} \ {0}
    OBVIOUS
  <2>3. QED
    BY <2>1, <2>2
<1>5. QED
  BY <1>2, <1>3, <1>4

\* New books make every page owned once after a step.
LEMMA Rebooked ==
    ASSUME NEW who \in [used' -> Owners],
           \A q : q \in Kernel <=> q \in used' /\ who[q] = K,
           \A q : q \in card' <=> q \in used' /\ who[q] = C,
           \A q : q \in leaked' <=> q \in used' /\ who[q] = L,
           \A u \in Slots : \A q : q \in PagesOf(space'[u]) <=> q \in used' /\ who[q] = Sp(u),
           \A u \in Slots : \A q : q \in PagesOf(call'[u].new) <=> q \in used' /\ who[q] = Nw(u),
           \A u \in Slots : \A q : q = call'[u].dir0 /\ q # 0 <=> q \in used' /\ who[q] = Dr(u)
    PROVE  OneOwner'
<1>1. /\ Kernel = {p \in used' : who[p] = K}
      /\ card' = {p \in used' : who[p] = C}
      /\ leaked' = {p \in used' : who[p] = L}
  OBVIOUS
<1>2. ASSUME NEW u \in Slots
      PROVE  /\ PagesOf(space'[u]) = {p \in used' : who[p] = Sp(u)}
             /\ PagesOf(call'[u].new) = {p \in used' : who[p] = Nw(u)}
             /\ {call'[u].dir0} \ {0} = {p \in used' : who[p] = Dr(u)}
  <2>1. \A q : q = call'[u].dir0 /\ q # 0 <=> q \in {call'[u].dir0} \ {0}
    OBVIOUS
  <2>2. QED
    BY <2>1
<1>3. QED
  BY <1>1, <1>2 DEF OneOwner, Books

------------------------------------------------------------------------------
(* Pages of the image, and what a step leaves as it was.                   *)

\* A number is the units of whole pages and a rest.
LEMMA Division ==
    ASSUME NEW a \in Nat
    PROVE  /\ a \div PageSize \in Nat /\ a % PageSize \in Nat /\ a % PageSize < PageSize
           /\ a = (PageSize * (a \div PageSize)) + (a % PageSize)
<1>1. PageSize \in Nat /\ PageSize > 0
  BY MemoryAssumption
<1>2. /\ a \div PageSize \in Nat /\ a % PageSize \in Nat /\ a % PageSize < PageSize
  BY <1>1
<1>3. a = (PageSize * (a \div PageSize)) + (a % PageSize)
  BY <1>1
<1>4. QED
  BY <1>2, <1>3

\* Of two factors the larger one makes the larger product.
LEMMA Product ==
    ASSUME NEW m \in Nat, NEW x \in Nat, NEW y \in Nat, x < y
    PROVE  m * x + m <= m * y
<1>1. PICK d \in Nat : y = x + 1 + d
  <2>1. y - x - 1 \in Nat /\ y = x + 1 + (y - x - 1)
    OBVIOUS
  <2>2. QED
    BY <2>1
<1>2. m * y = m * x + m + m * d /\ m * d \in Nat
  BY <1>1
<1>3. m * x \in Nat /\ m * y \in Nat
  OBVIOUS
<1>4. QED
  BY <1>2, <1>3

\* Pages come in the order of the units in them.
LEMMA PageOrder ==
    ASSUME NEW a \in Nat, NEW b \in Nat, a <= b
    PROVE  /\ PageAt(a) \in Nat /\ PageAt(b) \in Nat
           /\ 1 <= PageAt(a) /\ PageAt(a) <= PageAt(b)
<1>1. PageSize \in Nat \ {0}
  BY MemoryAssumption
<1>2. PICK q \in Nat, r \in Nat : q = a \div PageSize /\ a = PageSize * q + r /\ r < PageSize
  BY Division
<1>3. PICK x \in Nat, y \in Nat : x = b \div PageSize /\ b = PageSize * x + y /\ y < PageSize
  BY Division
<1>4. q <= x
  <2>1. SUFFICES ASSUME x < q PROVE FALSE
    BY <1>2, <1>3
  <2>2. PageSize * x + PageSize <= PageSize * q
    BY <1>1, <2>1, Product
  <2>3. PageSize * x \in Nat /\ PageSize * q \in Nat
    BY <1>1
  <2>4. QED
    BY <1>1, <1>2, <1>3, <2>2, <2>3
<1>5. PageAt(a) = 1 + q /\ PageAt(b) = 1 + x
  BY <1>2, <1>3 DEF PageAt
<1>6. QED
  BY <1>4, <1>5

\* The units of n pages end in page n at most.
LEMMA PageWithin ==
    ASSUME NEW a \in Nat, NEW n \in Nat, a < n * PageSize
    PROVE  PageAt(a) <= n
<1>1. PageSize \in Nat \ {0}
  BY MemoryAssumption
<1>2. PICK q \in Nat, r \in Nat : q = a \div PageSize /\ a = PageSize * q + r /\ r < PageSize
  BY Division
<1>3. q < n
  <2>1. SUFFICES ASSUME n <= q PROVE FALSE
    BY <1>2
  <2>2. CASE n = q
    <3>1. PageSize * q \in Nat /\ n * PageSize = PageSize * q
      BY <1>1, <2>2
    <3>2. QED
      BY <1>2, <3>1
  <2>3. CASE n < q
    <3>1. PageSize * n + PageSize <= PageSize * q
      BY <1>1, <2>3, Product
    <3>2. PageSize * n \in Nat /\ PageSize * q \in Nat /\ n * PageSize = PageSize * n
      BY <1>1
    <3>3. QED
      BY <1>1, <1>2, <3>1, <3>2
  <2>4. QED
    BY <1>2, <2>1, <2>2, <2>3
<1>4. PageAt(a) = 1 + q
  BY <1>2 DEF PageAt
<1>5. QED
  BY <1>3, <1>4

\* What begins in the units before b is in a page no later than that of b.
LEMMA PageReached ==
    ASSUME NEW n \in Nat, NEW b \in Nat, n * PageSize <= b
    PROVE  n + 1 <= PageAt(b)
<1>1. PageSize \in Nat \ {0}
  BY MemoryAssumption
<1>2. PICK q \in Nat, r \in Nat : q = b \div PageSize /\ b = PageSize * q + r /\ r < PageSize
  BY Division
<1>3. n <= q
  <2>1. SUFFICES ASSUME q < n PROVE FALSE
    BY <1>2
  <2>2. PageSize * q + PageSize <= PageSize * n
    BY <1>1, <2>1, Product
  <2>3. PageSize * n \in Nat /\ PageSize * q \in Nat /\ n * PageSize = PageSize * n
    BY <1>1
  <2>4. QED
    BY <1>1, <1>2, <2>2, <2>3
<1>4. PageAt(b) = 1 + q
  BY <1>2 DEF PageAt
<1>5. QED
  BY <1>3, <1>4

\* sbrk maps from the page after the one the heap ends in.
LEMMA FirstAfter ==
    ASSUME NEW a \in Nat
    PROVE  FirstNew(a) \in Nat /\ (a % PageSize # 0 => FirstNew(a) = PageAt(a))
<1>1. PICK q \in Nat : q = a \div PageSize
  BY Division
<1>2. PageAt(a) = 1 + q /\ FirstNew(a) = IF a % PageSize = 0 THEN q ELSE q + 1
  BY <1>1 DEF PageAt, FirstNew
<1>3. QED
  BY <1>1, <1>2

\* A heap stays as sound as it is if neither it nor the frames change, and
\* no sbrk begins.
LEMMA HeapKept ==
    ASSUME NEW u \in Slots, HeapAt(u), BlocksAt(u), heap'[u] = heap[u],
           space'[u].frame = space[u].frame,
           call'[u].op = "sbrk" => /\ call[u].op = "sbrk" /\ call'[u].at = call[u].at
                                   /\ call'[u].stop = call[u].stop
    PROVE  HeapAt(u)' /\ BlocksAt(u)'
<1>1. HeapAt(u)'
  BY DEF HeapAt
<1>2. BlocksAt(u)'
  BY DEF BlocksAt
<1>3. QED
  BY <1>1, <1>2

\* A new heap is sound.
LEMMA HeapNew ==
    ASSUME NEW u \in Slots, heap'[u].blocks = <<>>, call'[u].op # "sbrk",
           heap'[u].end \in Nat, heap'[u].end < NImage * PageSize
    PROVE  HeapAt(u)' /\ BlocksAt(u)'
<1>1. PageAt(heap'[u].end) <= NImage
  BY PageWithin, MemoryAssumption
<1>2. PageAt(heap'[u].end) <= NHeap
  <2>1. NImage \in Nat /\ NHeap \in Nat /\ NHeap >= NImage
    BY MemoryAssumption
  <2>2. PageAt(heap'[u].end) \in Nat
    BY PageOrder
  <2>3. QED
    BY <1>1, <2>1, <2>2
<1>3. DOMAIN heap'[u].blocks = {}
  OBVIOUS
<1>4. HeapAt(u)'
  BY <1>2, <1>3 DEF HeapAt
<1>5. BlocksAt(u)'
  BY <1>3 DEF BlocksAt
<1>6. QED
  BY <1>4, <1>5

\* A call is where it was if nothing of its task changes, nor the child it makes.
LEMMA CallKept ==
    ASSUME NEW u \in Slots, CallAt(u), call'[u] = call[u], alive'[u] = alive[u],
           space'[u] = space[u] \/ alive[u] = "run", heap'[u] = heap[u] \/ alive[u] = "run",
           call[u].op = "fork" => alive'[call[u].kid] = alive[call[u].kid]
    PROVE  CallAt(u)'
BY DEF CallAt

\* A task in no call may be whatever its space says.
LEMMA CallOver ==
    ASSUME NEW u \in Slots, call'[u] = NoCall,
           \/ alive'[u] = "run"
           \/ space'[u] = NoSpace /\ heap'[u] = NoHeap
    PROVE  CallAt(u)'
<1>1. /\ call'[u].op = "none" /\ call'[u].new = NoSpace /\ call'[u].dir0 = 0
  BY DEF NoCall
<1>2. QED
  BY <1>1, NothingThere DEF CallAt

------------------------------------------------------------------------------
(* Pages that change hands.                                                *)

\* No page has two owners.
LEMMA Apart ==
    ASSUME OneOwner
    PROVE  /\ Kernel \subseteq used /\ card \subseteq used /\ leaked \subseteq used
           /\ \A q \in Kernel : q \notin card /\ q \notin leaked
           /\ \A q \in card : q \notin leaked
           /\ \A u \in Slots : /\ PagesOf(space[u]) \subseteq used
                               /\ PagesOf(call[u].new) \subseteq used
                               /\ call[u].dir0 # 0 => call[u].dir0 \in used
           /\ \A u \in Slots : \A q :
                 (q = call[u].dir0 /\ q # 0) \/ q \in PagesOf(call[u].new) \/ q \in PagesOf(space[u])
                    => q \notin Kernel /\ q \notin card /\ q \notin leaked
           /\ \A u, x \in Slots : \A q : q \in PagesOf(space[u]) =>
                 /\ q \notin PagesOf(call[x].new) /\ (q # 0 => q # call[x].dir0)
                 /\ q \in PagesOf(space[x]) => u = x
           /\ \A u, x \in Slots : \A q : q \in PagesOf(call[u].new) =>
                 /\ (q # 0 => q # call[x].dir0)
                 /\ q \in PagesOf(call[x].new) => u = x
           /\ \A u, x \in Slots : call[u].dir0 # 0 /\ call[u].dir0 = call[x].dir0 => u = x
<1>1. PICK who \in [used -> Owners] :
             /\ \A q : q \in Kernel <=> q \in used /\ who[q] = K
             /\ \A q : q \in card <=> q \in used /\ who[q] = C
             /\ \A q : q \in leaked <=> q \in used /\ who[q] = L
             /\ \A u \in Slots : \A q : q \in PagesOf(space[u]) <=> q \in used /\ who[q] = Sp(u)
             /\ \A u \in Slots : \A q : q \in PagesOf(call[u].new) <=> q \in used /\ who[q] = Nw(u)
             /\ \A u \in Slots : \A q : q = call[u].dir0 /\ q # 0 <=> q \in used /\ who[q] = Dr(u)
  BY Booked
<1>2. /\ Kernel \subseteq used /\ card \subseteq used /\ leaked \subseteq used
      /\ \A q \in Kernel : q \notin card /\ q \notin leaked
      /\ \A q \in card : q \notin leaked
  BY <1>1, OwnersDiffer
<1>3. ASSUME NEW u \in Slots
      PROVE  /\ PagesOf(space[u]) \subseteq used
             /\ PagesOf(call[u].new) \subseteq used
             /\ call[u].dir0 # 0 => call[u].dir0 \in used
  BY <1>1
<1>4. ASSUME NEW u \in Slots, NEW q,
             (q = call[u].dir0 /\ q # 0) \/ q \in PagesOf(call[u].new) \/ q \in PagesOf(space[u])
      PROVE  q \notin Kernel /\ q \notin card /\ q \notin leaked
  <2>1. who[q] \in {Sp(u), Nw(u), Dr(u)}
    BY <1>1, <1>4
  <2>2. who[q] # K /\ who[q] # C /\ who[q] # L
    BY <2>1, OwnersDiffer
  <2>3. QED
    BY <1>1, <2>2
<1>5. ASSUME NEW u \in Slots, NEW x \in Slots, NEW q, q \in PagesOf(space[u])
      PROVE  /\ q \notin PagesOf(call[x].new) /\ (q # 0 => q # call[x].dir0)
             /\ q \in PagesOf(space[x]) => u = x
  BY <1>1, <1>5, OwnersDiffer
<1>6. ASSUME NEW u \in Slots, NEW x \in Slots, NEW q, q \in PagesOf(call[u].new)
      PROVE  /\ (q # 0 => q # call[x].dir0)
             /\ q \in PagesOf(call[x].new) => u = x
  BY <1>1, <1>6, OwnersDiffer
<1>7. ASSUME NEW u \in Slots, NEW x \in Slots, call[u].dir0 # 0, call[u].dir0 = call[x].dir0
      PROVE  u = x
  BY <1>1, <1>7, OwnersDiffer
<1>8. QED
  BY <1>2, <1>3, <1>4, <1>5, <1>6, <1>7

\* Nothing changes hands.
LEMMA StillOneOwner ==
    ASSUME OneOwner, UNCHANGED <<used, card, leaked>>,
           \A u \in Slots : /\ PagesOf(space'[u]) = PagesOf(space[u])
                            /\ PagesOf(call'[u].new) = PagesOf(call[u].new)
                            /\ call'[u].dir0 = call[u].dir0
    PROVE  OneOwner'
<1>1. PICK who : Books(who, used)
  BY DEF OneOwner
<1>2. Books(who, used)'
  BY <1>1 DEF Books
<1>3. QED
  BY <1>2 DEF OneOwner

\* A page that was not marked goes to the owner o.
LEMMA Taken ==
    ASSUME OneOwner, NEW o \in Owners, o # K, o # L, NEW p, p \notin used,
           used' = used \cup {p}, leaked' = leaked,
           \A q : q \in card' <=> q \in card \/ (o = C /\ q = p),
           \A u \in Slots : \A q :
              q \in PagesOf(space'[u]) <=> q \in PagesOf(space[u]) \/ (o = Sp(u) /\ q = p),
           \A u \in Slots : \A q :
              q \in PagesOf(call'[u].new) <=> q \in PagesOf(call[u].new) \/ (o = Nw(u) /\ q = p),
           \A u \in Slots : \A q :
              q = call'[u].dir0 /\ q # 0 <=> (q = call[u].dir0 /\ q # 0) \/ (o = Dr(u) /\ q = p)
    PROVE  OneOwner'
<1>1. PICK who \in [used -> Owners] :
             /\ \A q : q \in Kernel <=> q \in used /\ who[q] = K
             /\ \A q : q \in card <=> q \in used /\ who[q] = C
             /\ \A q : q \in leaked <=> q \in used /\ who[q] = L
             /\ \A u \in Slots : \A q : q \in PagesOf(space[u]) <=> q \in used /\ who[q] = Sp(u)
             /\ \A u \in Slots : \A q : q \in PagesOf(call[u].new) <=> q \in used /\ who[q] = Nw(u)
             /\ \A u \in Slots : \A q : q = call[u].dir0 /\ q # 0 <=> q \in used /\ who[q] = Dr(u)
  BY Booked
<1>2. PICK w \in [used' -> Owners] : \A q \in used' : w[q] = IF q = p THEN o ELSE who[q]
  <2>1. [q \in used' |-> IF q = p THEN o ELSE who[q]] \in [used' -> Owners]
    BY <1>1
  <2>2. QED
    BY <2>1
<1>3. \A q : q \in used' <=> q \in used \/ q = p
  OBVIOUS
<1>4. \A q : q \in Kernel <=> q \in used' /\ w[q] = K
  BY <1>1, <1>2, <1>3
<1>5. \A q : q \in card' <=> q \in used' /\ w[q] = C
  BY <1>1, <1>2, <1>3
<1>6. \A q : q \in leaked' <=> q \in used' /\ w[q] = L
  BY <1>1, <1>2, <1>3
<1>7. ASSUME NEW u \in Slots, NEW q
      PROVE  q \in PagesOf(space'[u]) <=> q \in used' /\ w[q] = Sp(u)
  BY <1>1, <1>2, <1>3
<1>8. ASSUME NEW u \in Slots, NEW q
      PROVE  q \in PagesOf(call'[u].new) <=> q \in used' /\ w[q] = Nw(u)
  BY <1>1, <1>2, <1>3
<1>9. ASSUME NEW u \in Slots, NEW q
      PROVE  q = call'[u].dir0 /\ q # 0 <=> q \in used' /\ w[q] = Dr(u)
  BY <1>1, <1>2, <1>3
<1>10. QED
  BY <1>4, <1>5, <1>6, <1>7, <1>8, <1>9, Rebooked

------------------------------------------------------------------------------
(* The allocator.                                                          *)

\* One field of a call changes.
LEMMA CallParts ==
    ASSUME NEW c \in Calls
    PROVE  /\ c.op \in {"none", "fork", "exec", "sbrk"} /\ c.kid \in Slots
           /\ c.dir0 \in Entries /\ c.new \in Spaces /\ c.at \in Nat /\ c.stop \in Nat
           /\ \A n \in Spaces : \E d \in Calls :
                 /\ d = [c EXCEPT !.new = n]
                 /\ d.op = c.op /\ d.kid = c.kid /\ d.dir0 = c.dir0 /\ d.new = n
                 /\ d.at = c.at /\ d.stop = c.stop
           /\ \A p \in Entries : \E d \in Calls :
                 /\ d = [c EXCEPT !.dir0 = p]
                 /\ d.op = c.op /\ d.kid = c.kid /\ d.dir0 = p /\ d.new = c.new
                 /\ d.at = c.at /\ d.stop = c.stop
           /\ \A m \in Nat : \E d \in Calls :
                 /\ d = [c EXCEPT !.at = m]
                 /\ d.op = c.op /\ d.kid = c.kid /\ d.dir0 = c.dir0 /\ d.new = c.new
                 /\ d.at = m /\ d.stop = c.stop
<1>1. /\ c.op \in {"none", "fork", "exec", "sbrk"} /\ c.kid \in Slots
      /\ c.dir0 \in Entries /\ c.new \in Spaces /\ c.at \in Nat /\ c.stop \in Nat
  BY DEF Calls
<1>2. ASSUME NEW n \in Spaces
      PROVE  \E d \in Calls :
                 /\ d = [c EXCEPT !.new = n]
                 /\ d.op = c.op /\ d.kid = c.kid /\ d.dir0 = c.dir0 /\ d.new = n
                 /\ d.at = c.at /\ d.stop = c.stop
  <2>1. PICK d : d = [c EXCEPT !.new = n]
    OBVIOUS
  <2>2. /\ d \in Calls /\ d.op = c.op /\ d.kid = c.kid /\ d.dir0 = c.dir0 /\ d.new = n
        /\ d.at = c.at /\ d.stop = c.stop
    BY <2>1 DEF Calls
  <2>3. QED
    BY <2>1, <2>2
<1>3. ASSUME NEW p \in Entries
      PROVE  \E d \in Calls :
                 /\ d = [c EXCEPT !.dir0 = p]
                 /\ d.op = c.op /\ d.kid = c.kid /\ d.dir0 = p /\ d.new = c.new
                 /\ d.at = c.at /\ d.stop = c.stop
  <2>1. PICK d : d = [c EXCEPT !.dir0 = p]
    OBVIOUS
  <2>2. /\ d \in Calls /\ d.op = c.op /\ d.kid = c.kid /\ d.dir0 = p /\ d.new = c.new
        /\ d.at = c.at /\ d.stop = c.stop
    BY <2>1 DEF Calls
  <2>3. QED
    BY <2>1, <2>2
<1>4. ASSUME NEW m \in Nat
      PROVE  \E d \in Calls :
                 /\ d = [c EXCEPT !.at = m]
                 /\ d.op = c.op /\ d.kid = c.kid /\ d.dir0 = c.dir0 /\ d.new = c.new
                 /\ d.at = m /\ d.stop = c.stop
  <2>1. PICK d : d = [c EXCEPT !.at = m]
    OBVIOUS
  <2>2. /\ d \in Calls /\ d.op = c.op /\ d.kid = c.kid /\ d.dir0 = c.dir0 /\ d.new = c.new
        /\ d.at = m /\ d.stop = c.stop
    BY <2>1 DEF Calls
  <2>3. QED
    BY <2>1, <2>2
<1>5. QED
  BY <1>1, <1>2, <1>3, <1>4

\* A space that is being made for a child or a program gets one more page.
LEMMA NewGrows ==
    ASSUME Sound, used # Pages, NEW t \in Slots, call[t].op \in {"fork", "exec"},
           NEW n \in Spaces, Once(n), Empty(n), PagesOf(n) = PagesOf(call[t].new) \cup {Lowest},
           call[t].op = "exec" => n.kstk = 0,
           call[t].op = "fork" /\ call[t].dir0 = 0 => n.dir = 0,
           used' = used \cup {Lowest}, call' = [call EXCEPT ![t].new = n],
           UNCHANGED <<leaked, card, alive, space, heap>>
    PROVE  Sound'
<1>1. PICK c \in Calls : c = call[t]
  BY DEF Sound, TypeInv
<1>2. PICK p \in Pages : p = Lowest /\ p \notin used /\ p # 0
  BY LowestFree DEF Sound
<1>3. PICK d \in Calls : /\ d = [c EXCEPT !.new = n]
                         /\ d.op = c.op /\ d.kid = c.kid /\ d.dir0 = c.dir0 /\ d.new = n
                         /\ d.at = c.at /\ d.stop = c.stop
  BY CallParts
<1>4. call'[t] = d /\ \A u \in Slots : u # t => call'[u] = call[u]
  BY <1>1, <1>3 DEF Sound, TypeInv
<1>5. TypeInv'
  <2>1. call' \in [Slots -> Calls]
    BY <1>1, <1>3, <1>4 DEF Sound, TypeInv
  <2>2. used' \subseteq Pages
    BY <1>2 DEF Sound, TypeInv
  <2>3. QED
    BY <2>1, <2>2 DEF Sound, TypeInv
<1>6. EachOnce'
  BY <1>3, <1>4 DEF Sound, EachOnce
<1>7. OneOwner'
  <2>1. /\ Nw(t) \in Owners /\ Nw(t) # K /\ Nw(t) # L /\ Nw(t) # C
        /\ \A u \in Slots : Nw(t) # Sp(u) /\ Nw(t) # Dr(u) /\ (Nw(t) = Nw(u) <=> u = t)
    BY OwnersDiffer
  <2>2. ASSUME NEW u \in Slots
        PROVE  /\ PagesOf(call'[u].new) = PagesOf(call[u].new) \cup (IF u = t THEN {p} ELSE {})
               /\ call'[u].dir0 = call[u].dir0
    BY <1>1, <1>2, <1>3, <1>4
  <2>3. OneOwner
    BY DEF Sound
  <2>4. \A u \in Slots : \A q :
           q \in PagesOf(call'[u].new) <=> q \in PagesOf(call[u].new) \/ (Nw(t) = Nw(u) /\ q = p)
    BY <2>1, <2>2
  <2>5. /\ \A q : q \in card' <=> q \in card \/ (Nw(t) = C /\ q = p)
        /\ \A u \in Slots : \A q :
              q \in PagesOf(space'[u]) <=> q \in PagesOf(space[u]) \/ (Nw(t) = Sp(u) /\ q = p)
        /\ \A u \in Slots : \A q : q = call'[u].dir0 /\ q # 0 <=>
              (q = call[u].dir0 /\ q # 0) \/ (Nw(t) = Dr(u) /\ q = p)
    BY <2>1, <2>2
  <2>6. p \notin used /\ used' = used \cup {p} /\ leaked' = leaked
    BY <1>2
  <2>7. QED
    BY <2>1, <2>3, <2>4, <2>5, <2>6, Taken
<1>8. OneParent'
  BY <1>1, <1>3, <1>4 DEF Sound, OneParent
<1>9. ASSUME NEW u \in Slots PROVE CallAt(u)'
  <2>1. CallAt(u)
    BY DEF Sound
  <2>2. CASE u = t
    BY <1>1, <1>3, <1>4, <2>1, <2>2 DEF CallAt
  <2>3. CASE u # t
    BY <1>4, <2>1, <2>3, CallKept
  <2>4. QED
    BY <2>2, <2>3
<1>10. ASSUME NEW u \in Slots PROVE HeapAt(u)' /\ BlocksAt(u)'
  <2>1. HeapAt(u) /\ BlocksAt(u)
    BY DEF Sound
  <2>2. call'[u].op = call[u].op /\ call'[u].at = call[u].at /\ call'[u].stop = call[u].stop
    BY <1>1, <1>3, <1>4
  <2>3. QED
    BY <2>1, <2>2, HeapKept
<1>11. QED
  BY <1>5, <1>6, <1>7, <1>8, <1>9, <1>10 DEF Sound

\* A space gets its kernel stack.
LEMMA KstkSet ==
    ASSUME NEW s \in Spaces, Once(s), NEW p \in Entries, p = 0 \/ p \notin PagesOf(s), s.kstk = 0
    PROVE  \E n \in Spaces :
              /\ n = [s EXCEPT !.kstk = p]
              /\ n.kstk = p /\ n.dir = s.dir /\ n.tab = s.tab /\ n.frame = s.frame
              /\ Once(n) /\ PagesOf(n) = PagesOf(s) \cup ({p} \ {0})
<1>1. PICK n : n = [s EXCEPT !.kstk = p]
  OBVIOUS
<1>2. n \in Spaces /\ n.kstk = p /\ n.dir = s.dir /\ n.tab = s.tab /\ n.frame = s.frame
  BY <1>1 DEF Spaces
<1>3. Once(n) /\ PagesOf(n) = PagesOf(s) \cup ({p} \ {0})
  BY <1>2, PutKstk
<1>4. QED
  BY <1>1, <1>2, <1>3

\* A space gets its directory.
LEMMA DirSet ==
    ASSUME NEW s \in Spaces, Once(s), NEW p \in Entries, p = 0 \/ p \notin PagesOf(s), s.dir = 0
    PROVE  \E n \in Spaces :
              /\ n = [s EXCEPT !.dir = p]
              /\ n.kstk = s.kstk /\ n.dir = p /\ n.tab = s.tab /\ n.frame = s.frame
              /\ Once(n) /\ PagesOf(n) = PagesOf(s) \cup ({p} \ {0})
<1>1. PICK n : n = [s EXCEPT !.dir = p]
  OBVIOUS
<1>2. n \in Spaces /\ n.kstk = s.kstk /\ n.dir = p /\ n.tab = s.tab /\ n.frame = s.frame
  BY <1>1 DEF Spaces
<1>3. Once(n) /\ PagesOf(n) = PagesOf(s) \cup ({p} \ {0})
  BY <1>2, PutDir
<1>4. QED
  BY <1>1, <1>2, <1>3

\* A space gets the table of a region.
LEMMA TabSet ==
    ASSUME NEW s \in Spaces, Once(s), NEW p \in Entries, p = 0 \/ p \notin PagesOf(s),
           NEW r \in Regions, s.tab[r] = 0
    PROVE  \E n \in Spaces :
              /\ n = [s EXCEPT !.tab[r] = p]
              /\ n.kstk = s.kstk /\ n.dir = s.dir /\ n.frame = s.frame
              /\ Once(n) /\ PagesOf(n) = PagesOf(s) \cup ({p} \ {0})
<1>1. PICK a \in [Regions -> Entries] : a = [s.tab EXCEPT ![r] = p]
  BY SpaceParts
<1>2. a[r] = p /\ \A q \in Regions : q # r => a[q] = s.tab[q]
  BY <1>1, SpaceParts
<1>3. PICK n : n = [s EXCEPT !.tab[r] = p]
  OBVIOUS
<1>4. n \in Spaces /\ n.kstk = s.kstk /\ n.dir = s.dir /\ n.tab = a /\ n.frame = s.frame
  BY <1>1, <1>3 DEF Spaces
<1>5. n.tab[r] = p /\ \A q \in Regions : q # r => n.tab[q] = s.tab[q]
  BY <1>2, <1>4
<1>6. Once(n) /\ PagesOf(n) = PagesOf(s) \cup ({p} \ {0})
  BY <1>4, <1>5, PutTab
<1>7. QED
  BY <1>3, <1>4, <1>6

\* A space gets a frame.
LEMMA FrameSet ==
    ASSUME NEW s \in Spaces, Once(s), NEW p \in Entries, p = 0 \/ p \notin PagesOf(s),
           NEW v \in VPages
    PROVE  \E n \in Spaces :
              /\ n = [s EXCEPT !.frame[v] = p]
              /\ n.kstk = s.kstk /\ n.dir = s.dir /\ n.tab = s.tab /\ n.frame[v] = p
              /\ \A w \in VPages : w # v => n.frame[w] = s.frame[w]
              /\ Once(n) /\ PagesOf(n) = (PagesOf(s) \ {s.frame[v]}) \cup ({p} \ {0})
<1>1. PICK f \in [VPages -> Entries] : f = [s.frame EXCEPT ![v] = p]
  BY SpaceParts
<1>2. f[v] = p /\ \A w \in VPages : w # v => f[w] = s.frame[w]
  BY <1>1, SpaceParts
<1>3. PICK n : n = [s EXCEPT !.frame[v] = p]
  OBVIOUS
<1>4. n \in Spaces /\ n.kstk = s.kstk /\ n.dir = s.dir /\ n.tab = s.tab /\ n.frame = f
  BY <1>1, <1>3 DEF Spaces
<1>5. n.frame[v] = p /\ \A w \in VPages : w # v => n.frame[w] = s.frame[w]
  BY <1>2, <1>4
<1>6. Once(n) /\ PagesOf(n) = (PagesOf(s) \ {s.frame[v]}) \cup ({p} \ {0})
  BY <1>4, <1>5, PutFrame
<1>7. QED
  BY <1>3, <1>4, <1>5, <1>6

\* fork's kernel stack, a directory, a table or a frame of a new space.
LEMMA AllocNew ==
    ASSUME Sound, astray = FALSE, NEW t \in Slots, AllocPage(t),
           Wants(t)[1] \in {"kstk", "dir", "table", "frame"}
    PROVE  Sound'
<1>1. PICK c \in Calls : c = call[t] /\ c.new \in Spaces
  <2>1. call[t] \in Calls
    BY DEF Sound, TypeInv
  <2>2. QED
    BY <2>1, CallParts
<1>2. PICK s \in Spaces : s = c.new /\ Once(s) /\ Empty(s)
  BY <1>1 DEF Sound, EachOnce, CallAt
<1>3. PICK w : w = Wants(t)
  OBVIOUS
<1>4. PICK p \in Entries : p = Lowest /\ p \notin used /\ p # 0
  BY LowestFree DEF Sound, AllocPage
<1>5. /\ used # Pages /\ used' = used \cup {Lowest}
      /\ UNCHANGED <<leaked, card, alive, space, heap>>
      /\ call' = [call EXCEPT ![t].new =
                       CASE w[1] = "kstk" -> [@ EXCEPT !.kstk = p]
                         [] w[1] = "dir" -> [@ EXCEPT !.dir = p]
                         [] w[1] = "table" -> [@ EXCEPT !.tab[Region(w[2])] = p]
                         [] OTHER -> [@ EXCEPT !.frame[w[2]] = p]]
  BY <1>3, <1>4 DEF AllocPage
<1>6. p \notin PagesOf(s)
  BY <1>1, <1>2, <1>4, Apart DEF Sound
<1>7. TypeInv /\ CallAt(t) /\ call \in [Slots -> Calls]
  BY DEF Sound, TypeInv
<1>8. \/ w = <<"kstk", 0>> /\ c.op = "fork" /\ c.new.kstk = 0
      \/ w = <<"dir", 0>> /\ c.op \in {"fork", "exec"} /\ c.new.dir = 0
                          /\ (c.op = "fork" => c.dir0 # 0)
      \/ \E v \in VPages : w = <<"frame", v>> /\ c.op \in {"fork", "exec"} /\ c.new.dir # 0
                                              /\ c.new.frame[v] = 0
      \/ \E v \in VPages : w = <<"table", v>> /\ c.op \in {"fork", "exec"} /\ c.new.dir # 0
                                              /\ c.new.tab[Region(v)] = 0
  <2>1. w[1] \in {"kstk", "dir", "table", "frame"}
    BY <1>3
  <2>2. QED
    BY <1>1, <1>3, <1>7, <2>1, WantsWhat
<1>9. /\ c.op = "exec" => s.kstk = 0
      /\ c.op = "fork" /\ c.dir0 = 0 => s.dir = 0
  BY <1>1, <1>2, <1>7 DEF CallAt
<1>10. ASSUME NEW n \in Spaces, call' = [call EXCEPT ![t].new = n], c.op \in {"fork", "exec"},
              Once(n), Empty(n), PagesOf(n) = PagesOf(s) \cup ({p} \ {0}),
              c.op = "exec" => n.kstk = 0, c.op = "fork" /\ c.dir0 = 0 => n.dir = 0
       PROVE  Sound'
  <2>1. PagesOf(n) = PagesOf(call[t].new) \cup {Lowest}
    BY <1>1, <1>2, <1>4, <1>10
  <2>2. QED
    BY <1>1, <1>5, <1>10, <2>1, NewGrows
<1>11. CASE w = <<"kstk", 0>> /\ c.op = "fork" /\ c.new.kstk = 0
  <2>1. PICK n \in Spaces : n = [s EXCEPT !.kstk = p] /\ n.kstk = p /\ n.dir = s.dir
                            /\ n.tab = s.tab /\ n.frame = s.frame
                            /\ Once(n) /\ PagesOf(n) = PagesOf(s) \cup ({p} \ {0})
    BY <1>2, <1>6, <1>11, KstkSet
  <2>2. call' = [call EXCEPT ![t].new = n]
    BY <1>1, <1>2, <1>5, <1>7, <1>11, <2>1
  <2>3. Once(n) /\ PagesOf(n) = PagesOf(s) \cup ({p} \ {0})
    BY <2>1
  <2>4. Empty(n)
    BY <1>2, <2>1 DEF Empty
  <2>5. QED
    BY <1>9, <1>10, <1>11, <2>1, <2>2, <2>3, <2>4
<1>12. CASE w = <<"dir", 0>> /\ c.op \in {"fork", "exec"} /\ c.new.dir = 0
                             /\ (c.op = "fork" => c.dir0 # 0)
  <2>1. PICK n \in Spaces : n = [s EXCEPT !.dir = p] /\ n.kstk = s.kstk /\ n.dir = p
                            /\ n.tab = s.tab /\ n.frame = s.frame
                            /\ Once(n) /\ PagesOf(n) = PagesOf(s) \cup ({p} \ {0})
    BY <1>2, <1>6, <1>12, DirSet
  <2>2. call' = [call EXCEPT ![t].new = n]
    BY <1>1, <1>2, <1>5, <1>7, <1>12, <2>1
  <2>3. Once(n) /\ PagesOf(n) = PagesOf(s) \cup ({p} \ {0})
    BY <2>1
  <2>4. Empty(n)
    BY <1>4, <2>1 DEF Empty
  <2>5. QED
    BY <1>9, <1>10, <1>12, <2>1, <2>2, <2>3, <2>4
<1>13. ASSUME NEW v \in VPages, w = <<"frame", v>>, c.op \in {"fork", "exec"}, c.new.dir # 0,
              c.new.frame[v] = 0
       PROVE  Sound'
  <2>1. PICK n \in Spaces : /\ n = [s EXCEPT !.frame[v] = p] /\ n.kstk = s.kstk /\ n.dir = s.dir
                            /\ n.tab = s.tab /\ n.frame[v] = p
                            /\ Once(n)
                            /\ PagesOf(n) = (PagesOf(s) \ {s.frame[v]}) \cup ({p} \ {0})
    BY <1>2, <1>6, FrameSet
  <2>2. call' = [call EXCEPT ![t].new = n]
    BY <1>1, <1>2, <1>5, <1>7, <1>13, <2>1
  <2>3. s.frame[v] = 0 /\ 0 \notin PagesOf(s)
    BY <1>2, <1>13, SpaceParts
  <2>4. Once(n) /\ PagesOf(n) = (PagesOf(s) \ {s.frame[v]}) \cup ({p} \ {0})
    BY <2>1
  <2>5. PagesOf(n) = PagesOf(s) \cup ({p} \ {0})
    BY <2>3, <2>4
  <2>6. Empty(n)
    BY <1>2, <1>13, <2>1 DEF Empty
  <2>7. QED
    BY <1>2, <1>9, <1>10, <1>13, <2>1, <2>2, <2>4, <2>5, <2>6
<1>14. ASSUME NEW v \in VPages, w = <<"table", v>>, c.op \in {"fork", "exec"}, c.new.dir # 0,
              c.new.tab[Region(v)] = 0
       PROVE  Sound'
  <2>1. PICK r \in Regions : r = Region(v)
    BY Virtual
  <2>2. PICK n \in Spaces : /\ n = [s EXCEPT !.tab[r] = p] /\ n.kstk = s.kstk /\ n.dir = s.dir
                            /\ n.frame = s.frame
                            /\ Once(n) /\ PagesOf(n) = PagesOf(s) \cup ({p} \ {0})
    BY <1>2, <1>6, <1>14, <2>1, TabSet
  <2>3. call' = [call EXCEPT ![t].new = n]
    BY <1>1, <1>2, <1>5, <1>7, <1>14, <2>1, <2>2
  <2>4. Once(n) /\ PagesOf(n) = PagesOf(s) \cup ({p} \ {0})
    BY <2>2
  <2>5. Empty(n)
    BY <1>2, <1>14, <2>2 DEF Empty
  <2>6. QED
    BY <1>2, <1>9, <1>10, <1>14, <2>2, <2>3, <2>4, <2>5
<1>15. QED
  BY <1>8, <1>11, <1>12, <1>13, <1>14

\* fork's first directory, with which the child is on the ready list.
LEMMA AllocDir0 ==
    ASSUME Sound, astray = FALSE, NEW t \in Slots, AllocPage(t), Wants(t)[1] = "dir0"
    PROVE  Sound'
<1>1. PICK c \in Calls : c = call[t]
  BY DEF Sound, TypeInv
<1>2. PICK p \in Entries : p = Lowest /\ p \notin used /\ p # 0 /\ p \in Pages
  BY LowestFree DEF Sound, AllocPage
<1>3. TypeInv /\ CallAt(t) /\ call \in [Slots -> Calls] /\ alive \in [Slots -> {"none", "new", "run"}]
  BY DEF Sound, TypeInv
<1>4. c.op = "fork" /\ c.dir0 = 0 /\ c.kid \in Slots /\ alive[c.kid] = "none"
  <2>1. c.op = "fork" /\ c.dir0 = 0
    BY <1>1, <1>3, WantsWhat
  <2>2. QED
    BY <1>1, <1>3, <2>1, CallParts DEF CallAt
<1>5. /\ used' = used \cup {p} /\ call' = [call EXCEPT ![t].dir0 = p]
      /\ alive' = [alive EXCEPT ![c.kid] = "new"] /\ alive[t] = "run"
      /\ UNCHANGED <<leaked, card, space, heap>>
  BY <1>1, <1>2 DEF AllocPage, Goes
<1>6. PICK d \in Calls : /\ d = [c EXCEPT !.dir0 = p]
                         /\ d.op = c.op /\ d.kid = c.kid /\ d.dir0 = p /\ d.new = c.new
                         /\ d.at = c.at /\ d.stop = c.stop
  BY CallParts
<1>7. call'[t] = d /\ \A u \in Slots : u # t => call'[u] = call[u]
  BY <1>1, <1>3, <1>5, <1>6
<1>8. TypeInv'
  <2>1. call' \in [Slots -> Calls]
    BY <1>1, <1>3, <1>5, <1>6
  <2>2. alive' \in [Slots -> {"none", "new", "run"}]
    BY <1>3, <1>5
  <2>3. used' \subseteq Pages
    BY <1>2, <1>3, <1>5 DEF TypeInv
  <2>4. QED
    BY <1>3, <1>5, <2>1, <2>2, <2>3 DEF TypeInv
<1>9. EachOnce'
  BY <1>1, <1>5, <1>6, <1>7 DEF Sound, EachOnce
<1>10. OneOwner'
  <2>1. /\ Dr(t) \in Owners /\ Dr(t) # K /\ Dr(t) # L /\ Dr(t) # C
        /\ \A u \in Slots : Dr(t) # Sp(u) /\ Dr(t) # Nw(u) /\ (Dr(t) = Dr(u) <=> u = t)
    BY OwnersDiffer
  <2>2. OneOwner
    BY DEF Sound
  <2>3. ASSUME NEW u \in Slots, NEW q
        PROVE  q = call'[u].dir0 /\ q # 0 <=> (q = call[u].dir0 /\ q # 0) \/ (Dr(t) = Dr(u) /\ q = p)
    <3>1. CASE u = t
      <4>1. call'[u].dir0 = p /\ call[u].dir0 = 0 /\ p # 0 /\ Dr(t) = Dr(u)
        BY <1>1, <1>2, <1>4, <1>6, <1>7, <3>1
      <4>2. QED
        BY <4>1
    <3>2. CASE u # t
      BY <1>7, <2>1, <3>2
    <3>3. QED
      BY <3>1, <3>2
  <2>4. \A u \in Slots : call'[u].new = call[u].new
    BY <1>1, <1>6, <1>7
  <2>5. /\ \A q : q \in card' <=> q \in card \/ (Dr(t) = C /\ q = p)
        /\ \A u \in Slots : \A q :
              q \in PagesOf(space'[u]) <=> q \in PagesOf(space[u]) \/ (Dr(t) = Sp(u) /\ q = p)
        /\ \A u \in Slots : \A q :
              q \in PagesOf(call'[u].new) <=> q \in PagesOf(call[u].new) \/ (Dr(t) = Nw(u) /\ q = p)
    BY <1>5, <2>1, <2>4
  <2>6. p \notin used /\ used' = used \cup {p} /\ leaked' = leaked
    BY <1>2, <1>5
  <2>7. QED
    BY <2>1, <2>2, <2>3, <2>5, <2>6, Taken
<1>11. OneParent'
  <2>1. \A u \in Slots : call'[u].op = call[u].op /\ call'[u].kid = call[u].kid
    BY <1>1, <1>6, <1>7
  <2>2. QED
    BY <2>1 DEF Sound, OneParent
<1>12. ASSUME NEW u \in Slots PROVE CallAt(u)'
  <2>1. CallAt(u)
    BY DEF Sound
  <2>2. CASE u = t
    <3>1. t # c.kid /\ alive'[t] = "run" /\ alive'[c.kid] = "new"
      BY <1>3, <1>4, <1>5
    <3>2. d.op = "fork" /\ d.dir0 # 0 /\ Empty(d.new)
      BY <1>1, <1>2, <1>3, <1>4, <1>6 DEF CallAt
    <3>3. QED
      BY <1>6, <1>7, <2>2, <3>1, <3>2 DEF CallAt
  <2>3. CASE u # t /\ u # c.kid
    <3>1. call'[u] = call[u] /\ alive'[u] = alive[u]
      BY <1>3, <1>5, <1>7, <2>3
    <3>2. call[u].op = "fork" => alive'[call[u].kid] = alive[call[u].kid]
      <4>1. call[u] \in Calls
        BY <1>3
      <4>2. call[u].op = "fork" => call[u].kid # c.kid /\ call[u].kid \in Slots
        <5>1. OneParent
          BY DEF Sound
        <5>2. call[u].kid \in Slots
          BY <4>1, CallParts
        <5>3. QED
          BY <1>1, <1>4, <2>3, <5>1, <5>2 DEF OneParent
      <4>3. QED
        BY <1>3, <1>5, <4>2
    <3>3. QED
      BY <1>5, <2>1, <3>1, <3>2, CallKept
  <2>4. CASE u # t /\ u = c.kid
    <3>1. alive'[u] = "new" /\ alive[u] # "run" /\ call'[u] = call[u]
      BY <1>3, <1>4, <1>5, <1>7, <2>4
    <3>2. QED
      BY <1>5, <2>1, <3>1 DEF CallAt
  <2>5. QED
    BY <2>2, <2>3, <2>4
<1>13. ASSUME NEW u \in Slots PROVE HeapAt(u)' /\ BlocksAt(u)'
  <2>1. HeapAt(u) /\ BlocksAt(u)
    BY DEF Sound
  <2>2. call'[u].op = call[u].op /\ call'[u].at = call[u].at /\ call'[u].stop = call[u].stop
    BY <1>1, <1>6, <1>7
  <2>3. QED
    BY <1>5, <2>1, <2>2, HeapKept
<1>14. QED
  BY <1>8, <1>9, <1>10, <1>11, <1>12, <1>13 DEF Sound

\* A page for the card's driver, and back.
LEMMA CardAllocKeeps ==
    ASSUME Sound, CardAlloc
    PROVE  Sound'
<1>1. /\ used # Pages /\ card' = card \cup {Lowest} /\ used' = used \cup {Lowest}
      /\ UNCHANGED <<leaked, alive, space, call, heap>>
  BY DEF CardAlloc
<1>2. PICK p \in Pages : p = Lowest /\ p \notin used
  BY <1>1, LowestFree DEF Sound
<1>3. OneOwner'
  <2>1. /\ C \in Owners /\ C # K /\ C # L
        /\ \A u \in Slots : C # Sp(u) /\ C # Nw(u) /\ C # Dr(u)
    BY OwnersDiffer
  <2>2. OneOwner
    BY DEF Sound
  <2>3. ASSUME NEW u \in Slots, NEW q
        PROVE  q = call'[u].dir0 /\ q # 0 <=> (q = call[u].dir0 /\ q # 0) \/ (C = Dr(u) /\ q = p)
    BY <1>1, <2>1
  <2>4. /\ \A q : q \in card' <=> q \in card \/ (C = C /\ q = p)
        /\ \A u \in Slots : \A q :
              q \in PagesOf(space'[u]) <=> q \in PagesOf(space[u]) \/ (C = Sp(u) /\ q = p)
        /\ \A u \in Slots : \A q :
              q \in PagesOf(call'[u].new) <=> q \in PagesOf(call[u].new) \/ (C = Nw(u) /\ q = p)
    BY <1>1, <1>2, <2>1
  <2>5. p \notin used /\ used' = used \cup {p} /\ leaked' = leaked
    BY <1>1, <1>2
  <2>6. QED
    BY <2>1, <2>2, <2>3, <2>4, <2>5, Taken
<1>4. TypeInv'
  BY <1>1, <1>2 DEF Sound, TypeInv
<1>5. EachOnce' /\ OneParent'
  BY <1>1 DEF Sound, EachOnce, OneParent
<1>6. ASSUME NEW u \in Slots PROVE CallAt(u)' /\ HeapAt(u)' /\ BlocksAt(u)'
  BY <1>1, HeapKept, CallKept DEF Sound
<1>7. QED
  BY <1>3, <1>4, <1>5, <1>6 DEF Sound

\* The card's driver gives a page back.
LEMMA CardFreeKeeps ==
    ASSUME Sound, CardFree
    PROVE  Sound'
<1>1. PICK p \in card : card' = card \ {p} /\ used' = used \ {p}
  BY DEF CardFree
<1>2. UNCHANGED <<leaked, alive, space, call, heap>>
  BY DEF CardFree
<1>3. OneOwner'
  <2>1. PICK who \in [used -> Owners] :
             /\ \A q : q \in Kernel <=> q \in used /\ who[q] = K
             /\ \A q : q \in card <=> q \in used /\ who[q] = C
             /\ \A q : q \in leaked <=> q \in used /\ who[q] = L
             /\ \A u \in Slots : \A q : q \in PagesOf(space[u]) <=> q \in used /\ who[q] = Sp(u)
             /\ \A u \in Slots : \A q : q \in PagesOf(call[u].new) <=> q \in used /\ who[q] = Nw(u)
             /\ \A u \in Slots : \A q : q = call[u].dir0 /\ q # 0 <=> q \in used /\ who[q] = Dr(u)
    BY Booked DEF Sound
  <2>2. PICK w \in [used' -> Owners] : \A q \in used' : w[q] = who[q]
    <3>1. [q \in used' |-> who[q]] \in [used' -> Owners]
      BY <1>1, <2>1
    <3>2. QED
      BY <3>1
  <2>3. p \in used /\ who[p] = C /\ \A q : q \in used' <=> q \in used /\ q # p
    BY <1>1, <2>1
  <2>4. /\ \A q : q \in Kernel <=> q \in used' /\ w[q] = K
        /\ \A q : q \in card' <=> q \in used' /\ w[q] = C
        /\ \A q : q \in leaked' <=> q \in used' /\ w[q] = L
    BY <1>1, <1>2, <2>1, <2>2, <2>3, OwnersDiffer
  <2>5. \A u \in Slots : \A q : q \in PagesOf(space'[u]) <=> q \in used' /\ w[q] = Sp(u)
    BY <1>2, <2>1, <2>2, <2>3, OwnersDiffer
  <2>6. \A u \in Slots : \A q : q \in PagesOf(call'[u].new) <=> q \in used' /\ w[q] = Nw(u)
    BY <1>2, <2>1, <2>2, <2>3, OwnersDiffer
  <2>7. \A u \in Slots : \A q : q = call'[u].dir0 /\ q # 0 <=> q \in used' /\ w[q] = Dr(u)
    BY <1>2, <2>1, <2>2, <2>3, OwnersDiffer
  <2>8. QED
    BY <2>4, <2>5, <2>6, <2>7, Rebooked
<1>4. TypeInv'
  BY <1>1, <1>2 DEF Sound, TypeInv
<1>5. EachOnce' /\ OneParent'
  BY <1>2 DEF Sound, EachOnce, OneParent
<1>6. ASSUME NEW u \in Slots PROVE CallAt(u)' /\ HeapAt(u)' /\ BlocksAt(u)'
  BY <1>2, HeapKept, CallKept DEF Sound
<1>7. QED
  BY <1>3, <1>4, <1>5, <1>6 DEF Sound

\* A page that sbrk maps takes the place of the one that was mapped there.
LEMMA AllocHeap ==
    ASSUME Sound, astray = FALSE, NEW t \in Slots, AllocPage(t), Wants(t)[1] = "heap"
    PROVE  Sound'
<1>1. PICK c \in Calls : c = call[t]
  BY DEF Sound, TypeInv
<1>2. PICK p \in Entries : p = Lowest /\ p \notin used /\ p # 0 /\ p \in Pages
  BY LowestFree DEF Sound, AllocPage
<1>3. TypeInv /\ CallAt(t) /\ HeapAt(t) /\ BlocksAt(t) /\ OneOwner
  BY DEF Sound
<1>4. /\ call \in [Slots -> Calls] /\ alive \in [Slots -> {"none", "new", "run"}]
      /\ space \in [Slots -> Spaces] /\ heap \in [Slots -> Heaps]
  BY <1>3 DEF TypeInv
<1>5. /\ Wants(t) = <<"heap", c.at + 1>> /\ c.op = "sbrk" /\ ~(c.at * PageSize > c.stop - 1)
      /\ c.at \in Nat /\ c.stop \in Nat
  <2>1. c.at \in Nat /\ c.stop \in Nat
    BY CallParts
  <2>2. PICK w : w = Wants(t)
    OBVIOUS
  <2>3. w[1] = "heap"
    BY <2>2
  <2>4. w = <<"heap", c.at + 1>> /\ c.op = "sbrk" /\ ~(c.at * PageSize > c.stop - 1)
    BY <1>1, <1>3, <2>2, <2>3, WantsWhat
  <2>5. QED
    BY <2>1, <2>2, <2>4
<1>6. PICK v \in VPages : v = c.at + 1 /\ v \in Nat /\ v <= NHeap
  <2>1. PICK m \in Nat : m = c.at * PageSize
    BY <1>5, MemoryAssumption
  <2>2. c.at * PageSize <= c.stop
    BY <1>5, <2>1
  <2>3. c.at + 1 <= PageAt(c.stop) /\ PageAt(c.stop) \in Nat
    BY <1>5, <2>2, PageReached, PageOrder
  <2>4. PageAt(c.stop) <= NHeap
    BY <1>1, <1>3, <1>5 DEF HeapAt
  <2>5. c.at + 1 \in Nat /\ c.at + 1 <= NHeap
    BY <1>5, <2>3, <2>4, Virtual
  <2>6. c.at + 1 \in VPages
    BY <2>5, Virtual
  <2>7. QED
    BY <2>5, <2>6
<1>7. PICK s \in Spaces : s = space[t] /\ Once(s)
  BY <1>4 DEF Sound, EachOnce
<1>8. PICK old \in Entries : old = s.frame[v]
  BY SpaceParts
<1>9. /\ used' = used \cup {p} /\ space' = [space EXCEPT ![t].frame[v] = p]
      /\ call' = [call EXCEPT ![t].at = @ + 1] /\ leaked' = leaked \cup ({old} \ {0})
      /\ alive[t] = "run" /\ UNCHANGED <<card, alive, heap>>
  BY <1>2, <1>5, <1>6, <1>7, <1>8 DEF AllocPage, Goes
<1>10. p \notin PagesOf(s)
  BY <1>2, <1>3, <1>7, Apart
<1>11. PICK n \in Spaces : /\ n = [s EXCEPT !.frame[v] = p]
                           /\ n.kstk = s.kstk /\ n.dir = s.dir /\ n.tab = s.tab /\ n.frame[v] = p
                           /\ \A w \in VPages : w # v => n.frame[w] = s.frame[w]
                           /\ Once(n) /\ PagesOf(n) = (PagesOf(s) \ {s.frame[v]}) \cup ({p} \ {0})
  BY <1>7, <1>10, FrameSet
<1>12. space'[t] = n /\ \A u \in Slots : u # t => space'[u] = space[u]
  BY <1>4, <1>7, <1>9, <1>11
<1>13. PICK m \in Nat : m = c.at + 1
  BY <1>5
<1>14. PICK d \in Calls : /\ d = [c EXCEPT !.at = m]
                          /\ d.op = c.op /\ d.kid = c.kid /\ d.dir0 = c.dir0 /\ d.new = c.new
                          /\ d.at = m /\ d.stop = c.stop
  BY CallParts
<1>15. call'[t] = d /\ \A u \in Slots : u # t => call'[u] = call[u]
  BY <1>1, <1>4, <1>9, <1>13, <1>14
<1>16. TypeInv'
  <2>1. call' \in [Slots -> Calls]
    BY <1>4, <1>9, <1>14, <1>15
  <2>2. space' \in [Slots -> Spaces]
    BY <1>4, <1>9, <1>11, <1>12
  <2>3. used' \subseteq Pages
    BY <1>2, <1>3, <1>9 DEF TypeInv
  <2>4. QED
    BY <1>4, <1>9, <2>1, <2>2, <2>3 DEF TypeInv
<1>17. EachOnce'
  <2>1. ASSUME NEW u \in Slots PROVE Once(space'[u]) /\ Once(call'[u].new)
    <3>1. Once(space[u]) /\ Once(call[u].new)
      BY DEF Sound, EachOnce
    <3>2. call'[u].new = call[u].new
      BY <1>1, <1>14, <1>15
    <3>3. space'[u] = n \/ space'[u] = space[u]
      BY <1>12
    <3>4. QED
      BY <1>11, <3>1, <3>2, <3>3
  <2>2. QED
    BY <2>1 DEF EachOnce
<1>18. OneOwner'
  <2>1. PICK who \in [used -> Owners] :
             /\ \A q : q \in Kernel <=> q \in used /\ who[q] = K
             /\ \A q : q \in card <=> q \in used /\ who[q] = C
             /\ \A q : q \in leaked <=> q \in used /\ who[q] = L
             /\ \A u \in Slots : \A q : q \in PagesOf(space[u]) <=> q \in used /\ who[q] = Sp(u)
             /\ \A u \in Slots : \A q : q \in PagesOf(call[u].new) <=> q \in used /\ who[q] = Nw(u)
             /\ \A u \in Slots : \A q : q = call[u].dir0 /\ q # 0 <=> q \in used /\ who[q] = Dr(u)
    BY <1>3, Booked
  <2>2. PICK w \in [used' -> Owners] :
             \A q \in used' : w[q] = IF q = p THEN Sp(t) ELSE IF q = old THEN L ELSE who[q]
    <3>1. [q \in used' |-> IF q = p THEN Sp(t) ELSE IF q = old THEN L ELSE who[q]]
             \in [used' -> Owners]
      BY <1>9, <2>1, OwnersDiffer
    <3>2. QED
      BY <3>1
  <2>3. \A q : q \in used' <=> q \in used \/ q = p
    BY <1>9
  <2>4. old # 0 => old \in used /\ who[old] = Sp(t)
    BY <1>7, <1>8, <2>1, InSpace
  <2>5. 0 \notin used /\ old # p
    <3>1. 0 \notin used
      BY <1>3, LowestFree DEF TypeInv, Pages
    <3>2. QED
      BY <1>2, <2>4, <3>1
  <2>6. /\ \A q : q \in Kernel <=> q \in used' /\ w[q] = K
        /\ \A q : q \in card' <=> q \in used' /\ w[q] = C
    BY <1>2, <1>9, <2>1, <2>2, <2>3, <2>4, <2>5, OwnersDiffer
  <2>7. \A q : q \in leaked' <=> q \in used' /\ w[q] = L
    BY <1>2, <1>9, <2>1, <2>2, <2>3, <2>4, <2>5, OwnersDiffer
  <2>8. ASSUME NEW u \in Slots, NEW q
        PROVE  q \in PagesOf(space'[u]) <=> q \in used' /\ w[q] = Sp(u)
    <3>1. CASE u = t
      <4>1. q \in PagesOf(space'[u]) <=> (q \in PagesOf(space[t]) /\ q # old) \/ q = p
        BY <1>2, <1>7, <1>8, <1>11, <1>12, <3>1
      <4>2. q \in PagesOf(space[t]) <=> q \in used /\ who[q] = Sp(t)
        BY <2>1
      <4>3. q \in used' => w[q] = IF q = p THEN Sp(t) ELSE IF q = old THEN L ELSE who[q]
        BY <2>2
      <4>4. QED
        BY <1>2, <2>3, <3>1, <4>1, <4>2, <4>3, OwnersDiffer
    <3>2. CASE u # t
      <4>1. q \in PagesOf(space'[u]) <=> q \in used /\ who[q] = Sp(u)
        BY <1>12, <2>1, <3>2
      <4>2. q \in used' => w[q] = IF q = p THEN Sp(t) ELSE IF q = old THEN L ELSE who[q]
        BY <2>2
      <4>3. Sp(u) # L /\ Sp(u) # Sp(t)
        BY <3>2, OwnersDiffer
      <4>4. QED
        BY <1>2, <2>3, <2>4, <2>5, <4>1, <4>2, <4>3
    <3>3. QED
      BY <3>1, <3>2
  <2>9. ASSUME NEW u \in Slots, NEW q
        PROVE  /\ q \in PagesOf(call'[u].new) <=> q \in used' /\ w[q] = Nw(u)
               /\ q = call'[u].dir0 /\ q # 0 <=> q \in used' /\ w[q] = Dr(u)
    <3>1. call'[u].new = call[u].new /\ call'[u].dir0 = call[u].dir0
      BY <1>1, <1>14, <1>15
    <3>2. q \in used' => w[q] = IF q = p THEN Sp(t) ELSE IF q = old THEN L ELSE who[q]
      BY <2>2
    <3>3. /\ Sp(t) # Nw(u) /\ L # Nw(u) /\ Sp(t) # Dr(u) /\ L # Dr(u)
      BY OwnersDiffer
    <3>4. /\ q \in PagesOf(call'[u].new) <=> q \in used /\ who[q] = Nw(u)
          /\ q = call'[u].dir0 /\ q # 0 <=> q \in used /\ who[q] = Dr(u)
      BY <2>1, <3>1
    <3>5. QED
      BY <1>2, <2>3, <2>4, <2>5, <3>2, <3>3, <3>4
  <2>10. QED
    BY <2>6, <2>7, <2>8, <2>9, Rebooked
<1>19. OneParent'
  <2>1. \A u \in Slots : call'[u].op = call[u].op /\ call'[u].kid = call[u].kid
    BY <1>1, <1>14, <1>15
  <2>2. QED
    BY <2>1 DEF Sound, OneParent
<1>20. ASSUME NEW u \in Slots PROVE CallAt(u)'
  <2>1. CallAt(u)
    BY DEF Sound
  <2>2. CASE u = t
    <3>1. d.new = NoSpace /\ d.dir0 = 0 /\ d.op = "sbrk" /\ alive'[u] = "run"
      BY <1>1, <1>3, <1>5, <1>9, <1>14, <2>2 DEF CallAt
    <3>2. QED
      BY <1>15, <2>2, <3>1, NothingThere DEF CallAt
  <2>3. CASE u # t
    BY <1>9, <1>12, <1>15, <2>1, <2>3, CallKept
  <2>4. QED
    BY <2>2, <2>3
<1>21. ASSUME NEW u \in Slots PROVE HeapAt(u)' /\ BlocksAt(u)'
  <2>1. HeapAt(u) /\ BlocksAt(u)
    BY DEF Sound
  <2>2. CASE u # t
    BY <1>9, <1>12, <1>15, <2>1, <2>2, HeapKept
  <2>3. CASE u = t
    <3>1. HeapAt(t)'
      <4>1. /\ call'[t].op = "sbrk" /\ call'[t].at = c.at + 1 /\ call'[t].stop = c.stop
            /\ heap'[t] = heap[t] /\ heap[t].end \in Nat
        BY <1>4, <1>5, <1>9, <1>13, <1>14, <1>15 DEF Heaps
      <4>2. /\ \A i \in DOMAIN heap[t].blocks :
                 PageAt(heap[t].blocks[i].at + heap[t].blocks[i].size + 1) <= NHeap
            /\ c.stop > heap[t].end /\ PageAt(c.stop) <= NHeap
        BY <1>1, <1>3, <1>5 DEF HeapAt
      <4>3. ASSUME heap[t].tidy
            PROVE  /\ PageAt(heap[t].end) <= NHeap
                   /\ heap[t].end % PageSize # 0 /\ c.at >= PageAt(heap[t].end)
                   /\ \A x \in PageAt(heap[t].end)..c.at : x \in VPages => s.frame[x] # 0
        BY <1>1, <1>3, <1>5, <1>7, <4>3 DEF HeapAt
      <4>4. ASSUME heap[t].tidy
            PROVE  /\ c.at + 1 >= PageAt(heap[t].end)
                   /\ \A x \in PageAt(heap[t].end)..(c.at + 1) : x \in VPages => n.frame[x] # 0
        <5>1. PICK e \in Nat : e = PageAt(heap[t].end)
          BY <4>1, PageOrder
        <5>2. c.at >= e /\ \A x \in e..c.at : x \in VPages => s.frame[x] # 0
          BY <4>3, <4>4, <5>1
        <5>3. ASSUME NEW x \in e..(c.at + 1), x \in VPages PROVE n.frame[x] # 0
          BY <1>2, <1>5, <1>6, <1>11, <5>2, <5>3
        <5>4. c.at + 1 >= e
          BY <1>5, <5>2
        <5>5. QED
          BY <5>1, <5>3, <5>4
      <4>5. QED
        BY <1>12, <4>1, <4>2, <4>3, <4>4 DEF HeapAt
    <3>2. BlocksAt(t)'
      <4>1. ASSUME heap[t].tidy, NEW i \in DOMAIN heap[t].blocks, NEW b \in Blocks,
                   b = heap[t].blocks[i], NEW x \in Covers(b)
            PROVE  n.frame[x] = s.frame[x]
        <5>1. b.at \in Nat /\ b.size \in Nat /\ b.at + b.size \in Nat /\ heap[t].end \in Nat
          BY <1>4 DEF Blocks, Heaps
        <5>2. b.at + b.size + 1 <= heap[t].end
          BY <1>3, <4>1 DEF BlocksAt
        <5>3. PageAt(b.at + b.size) <= PageAt(heap[t].end) /\ PageAt(b.at + b.size) \in Nat
              /\ PageAt(heap[t].end) \in Nat /\ PageAt(b.at) \in Nat /\ 1 <= PageAt(b.at)
          BY <5>1, <5>2, PageOrder
        <5>4. PageAt(heap[t].end) <= c.at
          BY <1>1, <1>3, <1>5, <4>1 DEF HeapAt
        <5>5. x \in PageAt(b.at)..PageAt(b.at + b.size)
          BY <4>1 DEF Covers
        <5>6. x \in Nat /\ x # v /\ x <= v
          BY <1>5, <1>6, <5>3, <5>4, <5>5
        <5>7. x \in VPages
          BY <1>6, <5>6, Virtual
        <5>8. QED
          BY <1>11, <5>6, <5>7
      <4>2. ASSUME NEW i \in DOMAIN heap[t].blocks PROVE heap[t].blocks[i] \in Blocks
        BY <1>4 DEF Heaps
      <4>3. heap'[t] = heap[t] /\ space'[t] = n
        BY <1>9, <1>12
      <4>4. ASSUME heap[t].tidy, NEW i \in DOMAIN heap[t].blocks
            PROVE  LET b == heap[t].blocks[i]
                   IN  /\ \A x \in Covers(b) : n.frame[x] = b.on[x] /\ b.on[x] # 0
                       /\ b.at + b.size + 1 <= heap[t].end
                       /\ \A j \in 1..(i - 1) :
                             heap[t].blocks[j].at + heap[t].blocks[j].size < b.at
        <5>1. PICK b \in Blocks : b = heap[t].blocks[i]
          BY <4>2
        <5>2. /\ \A x \in Covers(b) : s.frame[x] = b.on[x] /\ b.on[x] # 0
              /\ b.at + b.size + 1 <= heap[t].end
              /\ \A j \in 1..(i - 1) : heap[t].blocks[j].at + heap[t].blocks[j].size < b.at
          BY <1>3, <1>7, <4>4, <5>1 DEF BlocksAt
        <5>3. \A x \in Covers(b) : n.frame[x] = s.frame[x]
          BY <4>1, <4>4, <5>1
        <5>4. QED
          BY <5>1, <5>2, <5>3
      <4>5. QED
        BY <4>3, <4>4 DEF BlocksAt
    <3>3. QED
      BY <2>3, <3>1, <3>2
  <2>4. QED
    BY <2>2, <2>3
<1>22. QED
  BY <1>16, <1>17, <1>18, <1>19, <1>20, <1>21 DEF Sound

\* memory32_alloc_page, whatever it is for.
LEMMA AllocPageKeeps ==
    ASSUME Sound, astray = FALSE, NEW t \in Slots, AllocPage(t)
    PROVE  Sound'
<1>1. Wants(t)[1] \in {"kstk", "dir", "table", "frame", "dir0", "heap"}
  <2>1. TypeInv /\ CallAt(t)
    BY DEF Sound
  <2>2. Wants(t)[1] # "nothing"
    BY DEF AllocPage
  <2>3. QED
    BY <2>1, <2>2, WantsWhat
<1>2. QED
  BY <1>1, AllocNew, AllocDir0, AllocHeap

------------------------------------------------------------------------------
(* Calls that begin or end without a page changing hands.                  *)

\* A task in no call.
LEMMA NoCallParts ==
    /\ NoCall \in Calls /\ NoCall.op = "none" /\ NoCall.new = NoSpace /\ NoCall.dir0 = 0
    /\ \E d \in Calls : /\ d = [NoCall EXCEPT !.op = "exec"]
                        /\ d.op = "exec" /\ d.new = NoSpace /\ d.dir0 = 0
    /\ \A k \in Slots : \E d \in Calls :
          /\ d = [NoCall EXCEPT !.op = "fork", !.kid = k]
          /\ d.op = "fork" /\ d.kid = k /\ d.new = NoSpace /\ d.dir0 = 0
<1>1. 0 \in Slots /\ 0 \in Entries /\ NoSpace \in Spaces /\ 0 \in Nat
  BY NothingThere, MemoryAssumption DEF Slots, Entries
<1>2. NoCall \in Calls /\ NoCall.op = "none" /\ NoCall.new = NoSpace /\ NoCall.dir0 = 0
  BY <1>1 DEF NoCall, Calls
<1>3. \E d \in Calls : /\ d = [NoCall EXCEPT !.op = "exec"]
                       /\ d.op = "exec" /\ d.new = NoSpace /\ d.dir0 = 0
  <2>1. PICK d : d = [NoCall EXCEPT !.op = "exec"]
    OBVIOUS
  <2>2. d \in Calls /\ d.op = "exec" /\ d.new = NoSpace /\ d.dir0 = 0
    BY <1>1, <2>1 DEF NoCall, Calls
  <2>3. QED
    BY <2>1, <2>2
<1>4. ASSUME NEW k \in Slots
      PROVE  \E d \in Calls : /\ d = [NoCall EXCEPT !.op = "fork", !.kid = k]
                              /\ d.op = "fork" /\ d.kid = k /\ d.new = NoSpace /\ d.dir0 = 0
  <2>1. PICK d : d = [NoCall EXCEPT !.op = "fork", !.kid = k]
    OBVIOUS
  <2>2. d \in Calls /\ d.op = "fork" /\ d.kid = k /\ d.new = NoSpace /\ d.dir0 = 0
    BY <1>1, <2>1 DEF NoCall, Calls
  <2>3. QED
    BY <2>1, <2>2
<1>5. QED
  BY <1>2, <1>3, <1>4

\* Only one task's call, space and heap change.
LEMMA OneTaskMoves ==
    ASSUME Sound, NEW t \in Slots, UNCHANGED alive, used' \subseteq Pages, OneOwner',
           NEW d \in Calls, call' = [call EXCEPT ![t] = d], Once(d.new),
           d.op = "fork" =>
              \A u \in Slots \ {t} : call[u].op = "fork" => call[u].kid # d.kid,
           NEW n \in Spaces, space' = [space EXCEPT ![t] = n], Once(n),
           NEW h \in Heaps, heap' = [heap EXCEPT ![t] = h],
           CallAt(t)', HeapAt(t)', BlocksAt(t)'
    PROVE  Sound'
<1>1. /\ call \in [Slots -> Calls] /\ heap \in [Slots -> Heaps] /\ space \in [Slots -> Spaces]
      /\ TypeInv /\ EachOnce /\ OneParent
  BY DEF Sound, TypeInv
<1>2. /\ call'[t] = d /\ heap'[t] = h /\ space'[t] = n
      /\ \A u \in Slots : u # t =>
            call'[u] = call[u] /\ heap'[u] = heap[u] /\ space'[u] = space[u]
  BY <1>1
<1>3. TypeInv'
  BY <1>1 DEF TypeInv
<1>4. EachOnce'
  BY <1>1, <1>2 DEF EachOnce
<1>5. OneParent'
  <2>1. ASSUME NEW u \in Slots, NEW x \in Slots, call'[u].op = "fork", call'[x].op = "fork",
               call'[u].kid = call'[x].kid
        PROVE  u = x
    <3>1. CASE u # t /\ x # t
      BY <1>1, <1>2, <2>1, <3>1 DEF OneParent
    <3>2. CASE u = t /\ x # t
      BY <1>2, <2>1, <3>2
    <3>3. CASE u # t /\ x = t
      BY <1>2, <2>1, <3>3
    <3>4. QED
      BY <3>1, <3>2, <3>3
  <2>2. QED
    BY <2>1 DEF OneParent
<1>6. ASSUME NEW u \in Slots PROVE CallAt(u)' /\ HeapAt(u)' /\ BlocksAt(u)'
  <2>1. CASE u = t
    BY <2>1
  <2>2. CASE u # t
    <3>1. CallAt(u) /\ HeapAt(u) /\ BlocksAt(u)
      BY DEF Sound
    <3>2. CallAt(u)'
      BY <1>2, <2>2, <3>1, CallKept
    <3>3. HeapAt(u)' /\ BlocksAt(u)'
      BY <1>2, <2>2, <3>1, HeapKept
    <3>4. QED
      BY <3>2, <3>3
  <2>3. QED
    BY <2>1, <2>2
<1>7. QED
  BY <1>3, <1>4, <1>5, <1>6 DEF Sound

\* The call and the heap of one task change, and no page changes hands.
LEMMA NothingMoves ==
    ASSUME Sound, NEW t \in Slots, NEW d \in Calls, call' = [call EXCEPT ![t] = d],
           UNCHANGED <<used, card, leaked, alive, space>>,
           NEW h \in Heaps, heap' = [heap EXCEPT ![t] = h],
           PagesOf(d.new) = PagesOf(call[t].new), d.dir0 = call[t].dir0, Once(d.new),
           d.op = "fork" =>
              \A u \in Slots \ {t} : call[u].op = "fork" => call[u].kid # d.kid,
           CallAt(t)', HeapAt(t)', BlocksAt(t)'
    PROVE  Sound'
<1>1. /\ call \in [Slots -> Calls] /\ space \in [Slots -> Spaces] /\ used \subseteq Pages
      /\ OneOwner /\ Once(space[t])
  BY DEF Sound, TypeInv, EachOnce
<1>2. call'[t] = d /\ \A u \in Slots : u # t => call'[u] = call[u]
  BY <1>1
<1>3. OneOwner'
  BY <1>1, <1>2, StillOneOwner
<1>4. PICK n \in Spaces : n = space[t]
  BY <1>1
<1>5. space' = [space EXCEPT ![t] = n]
  BY <1>1, <1>4
<1>6. QED
  BY <1>1, <1>3, <1>4, <1>5, OneTaskMoves

\* A task in no call has no pages in one.
LEMMA IdleCall ==
    ASSUME Sound, NEW t \in Slots, Idle(t)
    PROVE  call[t].new = NoSpace /\ call[t].dir0 = 0 /\ alive[t] = "run" /\ call[t].op = "none"
<1>1. CallAt(t) /\ alive[t] = "run" /\ call[t].op = "none"
  BY DEF Sound, Idle, Goes
<1>2. QED
  BY <1>1 DEF CallAt

\* A fork picks a free slot that no other fork has picked, and has no page yet.
LEMMA ForkBeginKeeps ==
    ASSUME Sound, NEW t \in Slots, ForkBegin(t), ~astray'
    PROVE  Sound'
<1>1. PICK free : free = {u \in Slots : alive[u] = "none"}
  OBVIOUS
<1>2. PICK k \in free : k = Min(free)
  <2>1. free # {} /\ free \subseteq Nat
    BY <1>1, MemoryAssumption DEF ForkBegin, Slots
  <2>2. QED
    BY <2>1, MinIsLeast
<1>3. k \in Slots /\ alive[k] = "none"
  BY <1>1, <1>2
<1>4. PICK d \in Calls : /\ d = [NoCall EXCEPT !.op = "fork", !.kid = k]
                         /\ d.op = "fork" /\ d.kid = k /\ d.new = NoSpace /\ d.dir0 = 0
  BY <1>3, NoCallParts
<1>5. /\ call' = [call EXCEPT ![t] = d] /\ Idle(t)
      /\ ~ \E u \in Slots : call[u].op = "fork" /\ call[u].kid = k
      /\ UNCHANGED <<used, card, leaked, alive, space, heap>>
  BY <1>1, <1>2, <1>4 DEF ForkBegin, pages
<1>6. call[t].new = NoSpace /\ call[t].dir0 = 0 /\ alive[t] = "run"
  BY <1>5, IdleCall
<1>7. call'[t] = d /\ HeapAt(t) /\ BlocksAt(t) /\ heap \in [Slots -> Heaps]
  BY <1>5 DEF Sound, TypeInv
<1>8. PICK h \in Heaps : h = heap[t]
  BY <1>7
<1>9. heap' = [heap EXCEPT ![t] = h]
  BY <1>5, <1>7, <1>8
<1>10. CallAt(t)'
  BY <1>3, <1>4, <1>5, <1>6, <1>7, NothingThere DEF CallAt
<1>11. HeapAt(t)' /\ BlocksAt(t)'
  BY <1>4, <1>5, <1>7, HeapKept
<1>12. \A u \in Slots \ {t} : call[u].op = "fork" => call[u].kid # d.kid
  BY <1>4, <1>5
<1>13. Once(d.new) /\ PagesOf(d.new) = PagesOf(call[t].new) /\ d.dir0 = call[t].dir0
  BY <1>4, <1>6, NothingThere
<1>14. UNCHANGED <<used, card, leaked, alive, space>>
  BY <1>5
<1>15. QED
  BY <1>5, <1>9, <1>10, <1>11, <1>12, <1>13, <1>14, NothingMoves

\* execve begins with an empty space of its own.
LEMMA ExecBeginKeeps ==
    ASSUME Sound, NEW t \in Slots, ExecBegin(t)
    PROVE  Sound'
<1>1. PICK d \in Calls : /\ d = [NoCall EXCEPT !.op = "exec"]
                         /\ d.op = "exec" /\ d.new = NoSpace /\ d.dir0 = 0
  BY NoCallParts
<1>2. /\ call' = [call EXCEPT ![t] = d] /\ Idle(t)
      /\ UNCHANGED <<used, card, leaked, alive, space, heap>>
  BY <1>1 DEF ExecBegin, pages
<1>3. call[t].new = NoSpace /\ call[t].dir0 = 0 /\ alive[t] = "run"
  BY <1>2, IdleCall
<1>4. call'[t] = d /\ HeapAt(t) /\ BlocksAt(t) /\ heap \in [Slots -> Heaps]
  BY <1>2 DEF Sound, TypeInv
<1>5. PICK h \in Heaps : h = heap[t]
  BY <1>4
<1>6. heap' = [heap EXCEPT ![t] = h]
  BY <1>2, <1>4, <1>5
<1>7. CallAt(t)'
  BY <1>1, <1>2, <1>3, <1>4, NothingThere DEF CallAt
<1>8. HeapAt(t)' /\ BlocksAt(t)'
  BY <1>1, <1>2, <1>4, HeapKept
<1>9. QED
  BY <1>1, <1>2, <1>3, <1>6, <1>7, <1>8, NothingMoves, NothingThere

\* With no page for the directory there is nothing in the new space yet.
LEMMA ExecFailsKeeps ==
    ASSUME Sound, NEW t \in Slots, ExecFails(t), ~astray'
    PROVE  Sound'
<1>1. /\ call[t].op = "exec" /\ call[t].new.dir = 0 /\ alive[t] = "run"
      /\ call' = [call EXCEPT ![t] = NoCall]
      /\ UNCHANGED <<used, card, leaked, alive, space, heap>>
  BY DEF ExecFails, pages, Goes
<1>2. NoCall \in Calls /\ NoCall.op = "none" /\ NoCall.new = NoSpace /\ NoCall.dir0 = 0
  BY NoCallParts
<1>3. /\ call'[t] = NoCall /\ HeapAt(t) /\ BlocksAt(t) /\ heap \in [Slots -> Heaps]
      /\ CallAt(t) /\ call[t].new \in Spaces
  <2>1. call[t] \in Calls
    BY DEF Sound, TypeInv
  <2>2. QED
    BY <1>1, <2>1, CallParts DEF Sound, TypeInv
<1>4. PICK h \in Heaps : h = heap[t]
  BY <1>3
<1>5. heap' = [heap EXCEPT ![t] = h]
  BY <1>1, <1>3, <1>4
<1>6. CallAt(t)'
  BY <1>1, <1>3, CallOver
<1>7. HeapAt(t)' /\ BlocksAt(t)'
  BY <1>1, <1>2, <1>3, HeapKept
<1>8. PagesOf(call[t].new) = {} /\ call[t].dir0 = 0
  <2>1. PICK s \in Spaces : s = call[t].new
    BY <1>3
  <2>2. /\ s.kstk = 0 /\ s.dir = 0 /\ call[t].dir0 = 0
        /\ \A r \in Regions : s.tab[r] = 0
        /\ \A v \in VPages : s.frame[v] = 0
    BY <1>1, <1>3, <2>1 DEF CallAt, Empty
  <2>3. \A q : q \notin PagesOf(s)
    BY <2>2, InSpace
  <2>4. QED
    BY <2>1, <2>2, <2>3
<1>9. QED
  BY <1>1, <1>2, <1>5, <1>6, <1>7, <1>8, NothingMoves, NothingThere

------------------------------------------------------------------------------
(* sbrk and free.                                                          *)

\* The header of a block is written on a page of the heap.
LEMMA SbrkKeeps ==
    ASSUME Sound, NEW t \in Slots, NEW n \in Sizes, Sbrk(t, n), ~astray'
    PROVE  Sound'
<1>1. heap \in [Slots -> Heaps] /\ call \in [Slots -> Calls] /\ HeapAt(t) /\ BlocksAt(t)
  BY DEF Sound, TypeInv
<1>2. PICK g \in Heaps : g = heap[t] /\ g.end \in Nat /\ g.tidy \in BOOLEAN
  BY <1>1 DEF Heaps
<1>3. PICK a \in Nat : a = g.end
  BY <1>2
<1>4. n \in Nat /\ n > 0
  BY MemoryAssumption
<1>5. PICK stop \in Nat : stop = a + n + 1
  BY <1>4
<1>6. PICK m \in Nat : m = FirstNew(a) /\ (a % PageSize # 0 => m = PageAt(a))
  BY FirstAfter
<1>7. PICK d \in Calls : /\ d = [NoCall EXCEPT !.op = "sbrk", !.at = m, !.stop = stop]
                         /\ d.op = "sbrk" /\ d.at = m /\ d.stop = stop
                         /\ d.new = NoSpace /\ d.dir0 = 0
  <2>1. PICK d : d = [NoCall EXCEPT !.op = "sbrk", !.at = m, !.stop = stop]
    OBVIOUS
  <2>2. 0 \in Slots /\ 0 \in Entries /\ NoSpace \in Spaces
    BY NothingThere, MemoryAssumption DEF Slots, Entries
  <2>3. /\ d \in Calls /\ d.op = "sbrk" /\ d.at = m /\ d.stop = stop
        /\ d.new = NoSpace /\ d.dir0 = 0
    BY <2>1, <2>2 DEF NoCall, Calls
  <2>4. QED
    BY <2>1, <2>3
<1>8. /\ Idle(t) /\ PageAt(stop) <= NHeap /\ space[t].frame[PageAt(a)] # 0
      /\ heap' = [heap EXCEPT ![t].tidy = @ /\ a % PageSize # 0]
      /\ call' = [call EXCEPT ![t] = d]
      /\ UNCHANGED <<used, card, leaked, alive, space>>
  BY <1>2, <1>3, <1>5, <1>6, <1>7 DEF Sbrk, pages
<1>9. call[t].new = NoSpace /\ call[t].dir0 = 0 /\ alive[t] = "run"
  BY <1>8, IdleCall
<1>10. PICK still \in BOOLEAN : still = (g.tidy /\ a % PageSize # 0)
  BY <1>2
<1>11. PICK h \in Heaps : h = [g EXCEPT !.tidy = still]
                          /\ h.end = a /\ h.blocks = g.blocks /\ h.tidy = still
  <2>1. PICK h : h = [g EXCEPT !.tidy = still]
    OBVIOUS
  <2>2. h \in Heaps /\ h.end = a /\ h.blocks = g.blocks /\ h.tidy = still
    BY <1>3, <2>1 DEF Heaps
  <2>3. QED
    BY <2>1, <2>2
<1>12. heap' = [heap EXCEPT ![t] = h]
  BY <1>1, <1>2, <1>8, <1>10, <1>11
<1>13. heap'[t] = h /\ call'[t] = d
  BY <1>1, <1>8, <1>12
<1>14. CallAt(t)'
  BY <1>7, <1>8, <1>9, <1>13, NothingThere DEF CallAt
<1>15. HeapAt(t)'
  <2>1. PICK e \in Nat : e = PageAt(a)
    BY PageOrder
  <2>2. /\ \A i \in DOMAIN h.blocks : PageAt(h.blocks[i].at + h.blocks[i].size + 1) <= NHeap
        /\ d.stop > h.end /\ PageAt(d.stop) <= NHeap
    BY <1>1, <1>2, <1>4, <1>5, <1>7, <1>8, <1>11 DEF HeapAt
  <2>3. ASSUME h.tidy
        PROVE  /\ PageAt(h.end) <= NHeap /\ h.end % PageSize # 0 /\ d.at >= PageAt(h.end)
               /\ \A v \in PageAt(h.end)..d.at : v \in VPages => space[t].frame[v] # 0
    <3>1. g.tidy /\ a % PageSize # 0
      BY <1>10, <1>11, <2>3
    <3>2. PageAt(a) <= NHeap
      BY <1>1, <1>2, <1>3, <3>1 DEF HeapAt
    <3>3. m = e /\ space[t].frame[e] # 0
      BY <1>6, <1>8, <2>1, <3>1
    <3>4. \A v \in e..e : v = e
      OBVIOUS
    <3>5. QED
      BY <1>7, <1>11, <2>1, <3>1, <3>2, <3>3, <3>4
  <2>4. QED
    BY <1>7, <1>8, <1>13, <2>2, <2>3 DEF HeapAt
<1>16. BlocksAt(t)'
  <2>1. h.tidy => heap[t].tidy
    BY <1>2, <1>10, <1>11
  <2>2. h.blocks = heap[t].blocks /\ h.end = heap[t].end
    BY <1>2, <1>3, <1>11
  <2>3. QED
    BY <1>1, <1>8, <1>13, <2>1, <2>2 DEF BlocksAt
<1>17. Once(d.new) /\ PagesOf(d.new) = PagesOf(call[t].new) /\ d.dir0 = call[t].dir0
  BY <1>7, <1>9, NothingThere
<1>18. UNCHANGED <<used, card, leaked, alive, space>> /\ d.op # "fork"
  BY <1>7, <1>8
<1>19. QED
  BY <1>8, <1>12, <1>14, <1>15, <1>16, <1>17, <1>18, NothingMoves

\* Every page of the new block is mapped, and it lies behind all others.
LEMMA SbrkEndKeeps ==
    ASSUME Sound, NEW t \in Slots, SbrkEnd(t)
    PROVE  Sound'
<1>1. /\ heap \in [Slots -> Heaps] /\ call \in [Slots -> Calls] /\ space \in [Slots -> Spaces]
      /\ HeapAt(t) /\ BlocksAt(t) /\ CallAt(t) /\ TypeInv
  BY DEF Sound, TypeInv
<1>2. PICK g \in Heaps : /\ g = heap[t] /\ g.end \in Nat /\ g.tidy \in BOOLEAN
                         /\ g.blocks \in Seq(Blocks)
  BY <1>1 DEF Heaps
<1>3. PICK a \in Nat : a = g.end
  BY <1>2
<1>4. PICK c \in Calls : c = call[t] /\ c.at \in Nat /\ c.stop \in Nat
  BY <1>1, CallParts
<1>5. PICK f \in [VPages -> Entries] : f = space[t].frame
  BY <1>1, SpaceParts
<1>6. /\ c.op = "sbrk" /\ alive[t] = "run" /\ Wants(t)[1] = "nothing"
      /\ heap' = [heap EXCEPT ![t].end = c.stop,
                              ![t].blocks = Append(@, Block(t, a, c.stop - a - 1))]
      /\ call' = [call EXCEPT ![t] = NoCall]
      /\ UNCHANGED <<used, card, leaked, alive, space>>
  BY <1>2, <1>3, <1>4 DEF SbrkEnd, pages, Goes
<1>7. c.at * PageSize > c.stop - 1
  <2>1. Wants(t) = IF c.at * PageSize > c.stop - 1 THEN <<"nothing", 0>>
                   ELSE <<"heap", c.at + 1>>
    BY <1>4, <1>6 DEF Wants
  <2>2. "heap" # "nothing"
    OBVIOUS
  <2>3. QED
    BY <1>6, <2>1, <2>2
<1>8. c.stop > a /\ PageAt(c.stop) <= NHeap /\ c.stop \in Nat /\ c.at \in Nat
  BY <1>1, <1>2, <1>3, <1>4, <1>6 DEF HeapAt
<1>9. PICK size \in Nat : size = c.stop - a - 1
  <2>1. c.stop - a - 1 \in Nat
    BY <1>8
  <2>2. QED
    BY <2>1
<1>10. PICK b \in Blocks : b = Block(t, a, size) /\ b.at = a /\ b.size = size /\ b.on = f
  <2>1. PICK b : b = Block(t, a, size)
    OBVIOUS
  <2>2. b = [at |-> a, size |-> size, on |-> f]
    BY <1>5, <2>1 DEF Block
  <2>3. b \in Blocks /\ b.at = a /\ b.size = size /\ b.on = f
    BY <2>2 DEF Blocks
  <2>4. QED
    BY <2>1, <2>3
<1>11. PICK bs \in Seq(Blocks) : /\ bs = Append(g.blocks, b) /\ Len(bs) = Len(g.blocks) + 1
                                 /\ \A i \in 1..Len(g.blocks) : bs[i] = g.blocks[i]
                                 /\ bs[Len(g.blocks) + 1] = b /\ Len(g.blocks) \in Nat
                                 /\ DOMAIN bs = 1..Len(bs)
  <2>1. g.blocks \in Seq(Blocks) /\ Len(g.blocks) \in Nat
    BY <1>2
  <2>2. PICK bs : bs = Append(g.blocks, b)
    OBVIOUS
  <2>3. /\ bs \in Seq(Blocks) /\ Len(bs) = Len(g.blocks) + 1
        /\ \A i \in 1..Len(g.blocks) : bs[i] = g.blocks[i]
        /\ bs[Len(g.blocks) + 1] = b
    BY <2>1, <2>2, AppendProperties
  <2>4. DOMAIN bs = 1..Len(bs)
    BY <2>3
  <2>5. QED
    BY <2>1, <2>2, <2>3, <2>4
<1>12. PICK h \in Heaps : h = [g EXCEPT !.end = c.stop, !.blocks = bs]
                          /\ h.end = c.stop /\ h.blocks = bs /\ h.tidy = g.tidy
  <2>1. PICK h : h = [g EXCEPT !.end = c.stop, !.blocks = bs]
    OBVIOUS
  <2>2. h \in Heaps /\ h.end = c.stop /\ h.blocks = bs /\ h.tidy = g.tidy
    BY <1>4, <2>1 DEF Heaps
  <2>3. QED
    BY <2>1, <2>2
<1>13. heap' = [heap EXCEPT ![t] = h]
  BY <1>1, <1>2, <1>6, <1>9, <1>10, <1>11, <1>12
<1>14. heap'[t] = h /\ call'[t] = NoCall
  BY <1>1, <1>6, <1>13
<1>15. NoCall \in Calls /\ NoCall.op = "none" /\ NoCall.new = NoSpace /\ NoCall.dir0 = 0
  BY NoCallParts
<1>16. c.new = NoSpace /\ c.dir0 = 0
  BY <1>1, <1>4, <1>6 DEF CallAt
<1>17. CallAt(t)'
  BY <1>6, <1>14, CallOver
<1>18. HeapAt(t)'
  <2>1. a + size + 1 = c.stop
    BY <1>8, <1>9
  <2>2. \A i \in 1..Len(bs) : PageAt(bs[i].at + bs[i].size + 1) <= NHeap
    <3>1. ASSUME NEW i \in 1..Len(bs) PROVE PageAt(bs[i].at + bs[i].size + 1) <= NHeap
      <4>1. CASE i = Len(g.blocks) + 1
        BY <1>8, <1>10, <1>11, <2>1, <4>1
      <4>2. CASE i # Len(g.blocks) + 1
        <5>1. i \in 1..Len(g.blocks) /\ i \in DOMAIN g.blocks
          BY <1>2, <1>11, <3>1, <4>2
        <5>2. QED
          BY <1>1, <1>2, <1>11, <5>1 DEF HeapAt
      <4>3. QED
        BY <4>1, <4>2
    <3>2. QED
      BY <3>1
  <2>3. QED
    BY <1>8, <1>11, <1>12, <1>14, <1>15, <2>2 DEF HeapAt
<1>19. ASSUME g.tidy, NEW i \in 1..Len(bs)
       PROVE  /\ \A v \in Covers(bs[i]) : f[v] = bs[i].on[v] /\ bs[i].on[v] # 0
              /\ bs[i].at + bs[i].size + 1 <= c.stop
              /\ \A j \in 1..(i - 1) : bs[j].at + bs[j].size < bs[i].at
  <2>1. \A j \in 1..Len(g.blocks) :
           /\ g.blocks[j] \in Blocks /\ g.blocks[j].at \in Nat /\ g.blocks[j].size \in Nat
           /\ \A v \in Covers(g.blocks[j]) : f[v] = g.blocks[j].on[v] /\ g.blocks[j].on[v] # 0
           /\ g.blocks[j].at + g.blocks[j].size + 1 <= a
           /\ \A k \in 1..(j - 1) :
                 g.blocks[k].at + g.blocks[k].size < g.blocks[j].at
    <3>1. ASSUME NEW j \in 1..Len(g.blocks)
          PROVE  /\ g.blocks[j] \in Blocks /\ g.blocks[j].at \in Nat /\ g.blocks[j].size \in Nat
      <4>1. g.blocks[j] \in Blocks
        BY <1>2
      <4>2. QED
        BY <4>1 DEF Blocks
    <3>2. DOMAIN g.blocks = 1..Len(g.blocks)
      BY <1>2
    <3>3. QED
      BY <1>1, <1>2, <1>3, <1>5, <1>19, <3>1, <3>2 DEF BlocksAt
  <2>2. CASE i \in 1..Len(g.blocks)
    <3>1. bs[i] = g.blocks[i] /\ \A j \in 1..(i - 1) : bs[j] = g.blocks[j]
      BY <1>11, <2>2
    <3>2. g.blocks[i].at + g.blocks[i].size + 1 <= c.stop
      BY <1>8, <2>1, <2>2
    <3>3. QED
      BY <2>1, <2>2, <3>1, <3>2
  <2>3. CASE i = Len(g.blocks) + 1
    <3>1. bs[i] = b /\ \A j \in 1..(i - 1) : j \in 1..Len(g.blocks) /\ bs[j] = g.blocks[j]
      BY <1>11, <2>3
    <3>2. b.at + b.size + 1 <= c.stop
      BY <1>8, <1>9, <1>10
    <3>3. ASSUME NEW j \in 1..(i - 1) PROVE bs[j].at + bs[j].size < b.at
      BY <1>10, <2>1, <3>1
    <3>4. ASSUME NEW v \in Covers(b) PROVE f[v] # 0
      <4>1. a + size \in Nat /\ a + size < c.at * PageSize /\ a + size <= c.stop
        <5>1. PICK m \in Nat : m = c.at * PageSize
          BY <1>4, MemoryAssumption
        <5>2. QED
          BY <1>7, <1>8, <1>9, <5>1
      <4>2. PageAt(a + size) <= c.at
        BY <1>4, <4>1, PageWithin
      <4>3. PageAt(a + size) <= PageAt(c.stop) /\ PageAt(a + size) \in Nat
            /\ PageAt(c.stop) \in Nat /\ PageAt(a) \in Nat /\ 1 <= PageAt(a)
        <5>1. PICK x \in Nat : x = a + size /\ x <= c.stop
          BY <4>1
        <5>2. PageAt(x) <= PageAt(c.stop) /\ PageAt(x) \in Nat /\ PageAt(c.stop) \in Nat
          BY <1>8, <5>1, PageOrder
        <5>3. PageAt(a) \in Nat /\ 1 <= PageAt(a)
          BY PageOrder
        <5>4. QED
          BY <5>1, <5>2, <5>3
      <4>4. v \in PageAt(a)..PageAt(a + size)
        BY <1>10, <3>4 DEF Covers
      <4>5. v \in PageAt(a)..c.at /\ v \in VPages
        BY <1>8, <4>2, <4>3, <4>4, Virtual
      <4>6. \A x \in PageAt(a)..c.at : x \in VPages => f[x] # 0
        BY <1>1, <1>2, <1>3, <1>4, <1>5, <1>6, <1>19 DEF HeapAt
      <4>7. QED
        BY <4>5, <4>6
    <3>5. QED
      BY <1>10, <3>1, <3>2, <3>3, <3>4
  <2>4. QED
    BY <1>11, <2>2, <2>3
<1>20. BlocksAt(t)'
  <2>1. heap'[t].blocks = bs /\ heap'[t].end = c.stop /\ heap'[t].tidy = g.tidy
    BY <1>12, <1>14
  <2>2. space'[t].frame = f
    BY <1>5, <1>6
  <2>3. QED
    BY <1>11, <1>19, <2>1, <2>2 DEF BlocksAt
<1>21. Once(NoCall.new) /\ PagesOf(NoCall.new) = PagesOf(call[t].new) /\ NoCall.dir0 = call[t].dir0
  BY <1>4, <1>15, <1>16, NothingThere
<1>22. UNCHANGED <<used, card, leaked, alive, space>> /\ NoCall.op # "fork"
  BY <1>6, <1>15
<1>23. QED
  BY <1>6, <1>13, <1>15, <1>17, <1>18, <1>20, <1>21, <1>22, NothingMoves

\* The block of a refused sbrk stays in the list.
LEMMA SbrkFailsKeeps ==
    ASSUME Sound, NEW t \in Slots, SbrkFails(t)
    PROVE  Sound'
<1>1. /\ heap \in [Slots -> Heaps] /\ call \in [Slots -> Calls]
      /\ HeapAt(t) /\ BlocksAt(t) /\ CallAt(t)
  BY DEF Sound, TypeInv
<1>2. PICK g \in Heaps : g = heap[t]
  BY <1>1
<1>3. /\ call[t].op = "sbrk" /\ alive[t] = "run"
      /\ heap' = [heap EXCEPT ![t].tidy = FALSE] /\ call' = [call EXCEPT ![t] = NoCall]
      /\ UNCHANGED <<used, card, leaked, alive, space>>
  BY DEF SbrkFails, pages, Goes
<1>4. PICK h \in Heaps : /\ h = [g EXCEPT !.tidy = FALSE]
                         /\ h.end = g.end /\ h.blocks = g.blocks /\ h.tidy = FALSE
  <2>1. PICK h : h = [g EXCEPT !.tidy = FALSE]
    OBVIOUS
  <2>2. h \in Heaps /\ h.end = g.end /\ h.blocks = g.blocks /\ h.tidy = FALSE
    BY <2>1 DEF Heaps
  <2>3. QED
    BY <2>1, <2>2
<1>5. heap' = [heap EXCEPT ![t] = h]
  BY <1>1, <1>2, <1>3, <1>4
<1>6. heap'[t] = h /\ call'[t] = NoCall
  BY <1>1, <1>3, <1>5
<1>7. NoCall \in Calls /\ NoCall.op = "none" /\ NoCall.new = NoSpace /\ NoCall.dir0 = 0
  BY NoCallParts
<1>8. CallAt(t)'
  BY <1>3, <1>6, CallOver
<1>9. HeapAt(t)'
  BY <1>1, <1>2, <1>4, <1>6, <1>7 DEF HeapAt
<1>10. BlocksAt(t)'
  BY <1>4, <1>6 DEF BlocksAt
<1>11. /\ Once(NoCall.new) /\ PagesOf(NoCall.new) = PagesOf(call[t].new)
       /\ NoCall.dir0 = call[t].dir0
  BY <1>1, <1>3, <1>7, NothingThere DEF CallAt
<1>12. UNCHANGED <<used, card, leaked, alive, space>> /\ NoCall.op # "fork"
  BY <1>3, <1>7
<1>13. QED
  BY <1>3, <1>5, <1>7, <1>8, <1>9, <1>10, <1>11, <1>12, NothingMoves

\* A task loses count of some of its pages.
LEMMA Forgotten ==
    ASSUME OneOwner, NEW t \in Slots, NEW lost, UNCHANGED <<used, card>>, leaked' = leaked \cup lost,
           lost \subseteq PagesOf(space[t]) \cup PagesOf(call[t].new),
           PagesOf(space'[t]) = PagesOf(space[t]) \ lost,
           PagesOf(call'[t].new) = PagesOf(call[t].new) \ lost,
           \A u \in Slots : call'[u].dir0 = call[u].dir0,
           \A u \in Slots : u # t => /\ PagesOf(space'[u]) = PagesOf(space[u])
                                     /\ PagesOf(call'[u].new) = PagesOf(call[u].new)
    PROVE  OneOwner'
<1>1. PICK who \in [used -> Owners] :
             /\ \A q : q \in Kernel <=> q \in used /\ who[q] = K
             /\ \A q : q \in card <=> q \in used /\ who[q] = C
             /\ \A q : q \in leaked <=> q \in used /\ who[q] = L
             /\ \A u \in Slots : \A q : q \in PagesOf(space[u]) <=> q \in used /\ who[q] = Sp(u)
             /\ \A u \in Slots : \A q : q \in PagesOf(call[u].new) <=> q \in used /\ who[q] = Nw(u)
             /\ \A u \in Slots : \A q : q = call[u].dir0 /\ q # 0 <=> q \in used /\ who[q] = Dr(u)
  BY Booked
<1>2. PICK w \in [used' -> Owners] : \A q \in used' : w[q] = IF q \in lost THEN L ELSE who[q]
  <2>1. [q \in used' |-> IF q \in lost THEN L ELSE who[q]] \in [used' -> Owners]
    BY <1>1, OwnersDiffer
  <2>2. QED
    BY <2>1
<1>3. used' = used /\ \A q \in lost : q \in used /\ who[q] \in {Sp(t), Nw(t)}
  BY <1>1
<1>4. \A q \in lost : \A u \in Slots :
         who[q] # K /\ who[q] # C /\ who[q] # L /\ who[q] # Dr(u)
  BY <1>3, OwnersDiffer
<1>5. /\ \A q : q \in Kernel <=> q \in used' /\ w[q] = K
      /\ \A q : q \in card' <=> q \in used' /\ w[q] = C
  BY <1>1, <1>2, <1>3, <1>4, OwnersDiffer
<1>6. \A q : q \in leaked' <=> q \in used' /\ w[q] = L
  BY <1>1, <1>2, <1>3
<1>7. ASSUME NEW u \in Slots, NEW q
      PROVE  /\ q \in PagesOf(space'[u]) <=> q \in used' /\ w[q] = Sp(u)
             /\ q \in PagesOf(call'[u].new) <=> q \in used' /\ w[q] = Nw(u)
             /\ q = call'[u].dir0 /\ q # 0 <=> q \in used' /\ w[q] = Dr(u)
  <2>1. q \in used' => w[q] = IF q \in lost THEN L ELSE who[q]
    BY <1>2
  <2>2. /\ q \in PagesOf(space[u]) <=> q \in used /\ who[q] = Sp(u)
        /\ q \in PagesOf(call[u].new) <=> q \in used /\ who[q] = Nw(u)
        /\ q = call'[u].dir0 /\ q # 0 <=> q \in used /\ who[q] = Dr(u)
    BY <1>1
  <2>3. L # Sp(u) /\ L # Nw(u) /\ L # Dr(u)
    BY OwnersDiffer
  <2>4. CASE u = t
    BY <1>3, <1>4, <2>1, <2>2, <2>3, <2>4
  <2>5. CASE u # t
    <3>1. PagesOf(space'[u]) = PagesOf(space[u]) /\ PagesOf(call'[u].new) = PagesOf(call[u].new)
      BY <2>5
    <3>2. q \in lost => who[q] # Sp(u) /\ who[q] # Nw(u)
      BY <1>3, <2>5, OwnersDiffer
    <3>3. QED
      BY <1>3, <1>4, <2>1, <2>2, <2>3, <3>1, <3>2
  <2>6. QED
    BY <2>4, <2>5
<1>8. QED
  BY <1>5, <1>6, <1>7, Rebooked

\* What is left of a list when one of it is taken out.
LEMMA Removed ==
    ASSUME NEW S, NEW s \in Seq(S), NEW i \in 1..Len(s), NEW r, r = RemoveAt(s, i)
    PROVE  /\ r \in Seq(S) /\ Len(r) = Len(s) - 1 /\ DOMAIN r = 1..Len(r)
           /\ \A j \in 1..Len(r) : r[j] = IF j < i THEN s[j] ELSE s[j + 1]
<1>1. PICK n \in Nat : n = Len(s)
  OBVIOUS
<1>2. i \in 1..n /\ i \in Nat /\ i >= 1 /\ i <= n
  BY <1>1
<1>3. PICK a, b : /\ a = SubSeq(s, 1, i - 1) /\ b = SubSeq(s, i + 1, n)
  OBVIOUS
<1>4. /\ a \in Seq(S) /\ Len(a) = i - 1 /\ \A j \in 1..(i - 1) : a[j] = s[j]
  BY <1>1, <1>2, <1>3
<1>5. /\ b \in Seq(S) /\ Len(b) = n - i /\ \A j \in 1..(n - i) : b[j] = s[i + j]
  BY <1>1, <1>2, <1>3
<1>6. r = a \o b
  BY <1>1, <1>3 DEF RemoveAt
<1>7. /\ r \in Seq(S) /\ Len(r) = n - 1
      /\ \A j \in 1..(n - 1) : r[j] = IF j <= i - 1 THEN a[j] ELSE b[j - (i - 1)]
  BY <1>2, <1>4, <1>5, <1>6, ConcatProperties
<1>8. ASSUME NEW j \in 1..(n - 1) PROVE r[j] = IF j < i THEN s[j] ELSE s[j + 1]
  <2>1. CASE j < i
    BY <1>2, <1>4, <1>7, <1>8, <2>1
  <2>2. CASE ~(j < i)
    <3>1. PICK k \in 1..(n - i) : k = j - (i - 1) /\ i + k = j + 1
      <4>1. j - (i - 1) \in 1..(n - i) /\ i + (j - (i - 1)) = j + 1
        BY <1>2, <1>8, <2>2
      <4>2. QED
        BY <4>1
    <3>2. r[j] = b[k] /\ b[k] = s[i + k]
      BY <1>2, <1>5, <1>7, <1>8, <2>2, <3>1
    <3>3. QED
      BY <2>2, <3>1, <3>2
  <2>3. QED
    BY <2>1, <2>2
<1>9. DOMAIN r = 1..Len(r)
  BY <1>7
<1>10. QED
  BY <1>1, <1>7, <1>8, <1>9

\* Only the last block of a heap is taken from its end, and then only a page
\* that no other block reaches is unmapped.
LEMMA FreeBlockKeeps ==
    ASSUME Sound, NEW t \in Slots, NEW i, FreeBlock(t, i)
    PROVE  Sound'
<1>1. /\ heap \in [Slots -> Heaps] /\ space \in [Slots -> Spaces] /\ call \in [Slots -> Calls]
      /\ HeapAt(t) /\ BlocksAt(t) /\ OneOwner /\ used \subseteq Pages
  BY DEF Sound, TypeInv
<1>2. PICK g \in Heaps : /\ g = heap[t] /\ g.end \in Nat /\ g.tidy \in BOOLEAN
                         /\ g.blocks \in Seq(Blocks)
  BY <1>1 DEF Heaps
<1>3. PICK bs \in Seq(Blocks) : bs = g.blocks /\ Len(bs) \in Nat /\ DOMAIN bs = 1..Len(bs)
  BY <1>2
<1>4. PICK s \in Spaces : s = space[t] /\ Once(s)
  BY <1>1 DEF Sound, EachOnce
<1>5. i \in 1..Len(bs) /\ Idle(t) /\ UNCHANGED <<used, card, alive, call>>
  BY <1>2, <1>3 DEF FreeBlock
<1>6. PICK b \in Blocks : b = bs[i] /\ b.at \in Nat /\ b.size \in Nat
  <2>1. bs[i] \in Blocks
    BY <1>3, <1>5
  <2>2. QED
    BY <2>1 DEF Blocks
<1>7. \A j \in 1..Len(bs) : bs[j] \in Blocks /\ bs[j].at \in Nat /\ bs[j].size \in Nat
  <2>1. \A j \in 1..Len(bs) : bs[j] \in Blocks
    BY <1>3
  <2>2. QED
    BY <2>1 DEF Blocks
<1>8. PICK v : v = IF i = Len(bs) THEN Unmapped(b) ELSE 0
  OBVIOUS
<1>9. PICK r : r = RemoveAt(bs, i)
  OBVIOUS
<1>10. /\ r \in Seq(Blocks) /\ Len(r) = Len(bs) - 1 /\ DOMAIN r = 1..Len(r)
       /\ \A j \in 1..Len(r) : r[j] = IF j < i THEN bs[j] ELSE bs[j + 1]
  BY <1>5, <1>9, Removed
<1>11. PICK still \in BOOLEAN : still = (g.tidy /\ i = Len(bs))
  BY <1>2
<1>12. PICK h \in Heaps : /\ h = [g EXCEPT !.end = b.at, !.blocks = r, !.tidy = still]
                          /\ h.end = b.at /\ h.blocks = r /\ h.tidy = still
  <2>1. PICK h : h = [g EXCEPT !.end = b.at, !.blocks = r, !.tidy = still]
    OBVIOUS
  <2>2. h \in Heaps /\ h.end = b.at /\ h.blocks = r /\ h.tidy = still
    BY <1>6, <1>10, <2>1 DEF Heaps
  <2>3. QED
    BY <2>1, <2>2
<1>13. heap' = [heap EXCEPT ![t] = h]
  <2>1. heap' = [heap EXCEPT ![t].end = bs[i].at, ![t].blocks = RemoveAt(@, i),
                             ![t].tidy = @ /\ i = Len(bs)]
    BY <1>2, <1>3 DEF FreeBlock
  <2>2. QED
    BY <1>1, <1>2, <1>3, <1>6, <1>9, <1>11, <1>12, <2>1
<1>14. /\ PageAt(b.at + b.size + 1) <= NHeap /\ PageAt(b.at) <= PageAt(b.at + b.size + 1)
       /\ PageAt(b.at) \in Nat /\ PageAt(b.at + b.size + 1) \in Nat /\ 1 <= PageAt(b.at)
  <2>1. PageAt(b.at + b.size + 1) <= NHeap
    <3>1. \A k \in DOMAIN heap[t].blocks :
             PageAt(heap[t].blocks[k].at + heap[t].blocks[k].size + 1) <= NHeap
      BY <1>1 DEF HeapAt
    <3>2. heap[t].blocks = bs /\ i \in DOMAIN bs
      BY <1>2, <1>3, <1>5
    <3>3. QED
      BY <1>6, <3>1, <3>2
  <2>2. PICK x \in Nat : x = b.at + b.size + 1 /\ b.at <= x
    <3>1. b.at + b.size + 1 \in Nat /\ b.at <= b.at + b.size + 1
      BY <1>6
    <3>2. QED
      BY <3>1
  <2>3. QED
    BY <1>6, <2>1, <2>2, PageOrder
<1>15. v # 0 => v \in VPages /\ v > PageAt(b.at) /\ i = Len(bs)
  <2>1. ASSUME v # 0 PROVE i = Len(bs) /\ v = PageAt(b.at + b.size + 1) /\ v > PageAt(b.at)
    BY <1>8, <1>14, <2>1 DEF Unmapped
  <2>2. QED
    BY <1>14, <2>1, Virtual
<1>16. PICK n \in Spaces : /\ space' = [space EXCEPT ![t] = n] /\ Once(n)
                           /\ \A w \in VPages : w # v => n.frame[w] = s.frame[w]
                           /\ \E lost : /\ leaked' = leaked \cup lost
                                        /\ lost \subseteq PagesOf(s) /\ PagesOf(n) = PagesOf(s) \ lost
  <2>1. CASE v = 0
    <3>1. space' = space /\ leaked' = leaked
      BY <1>2, <1>3, <1>6, <1>8, <2>1 DEF FreeBlock
    <3>2. space' = [space EXCEPT ![t] = s]
      BY <1>1, <1>4, <3>1
    <3>3. \E lost : /\ leaked' = leaked \cup lost
                    /\ lost \subseteq PagesOf(s) /\ PagesOf(s) = PagesOf(s) \ lost
      <4>1. leaked' = leaked \cup {} /\ {} \subseteq PagesOf(s) /\ PagesOf(s) = PagesOf(s) \ {}
        BY <3>1
      <4>2. QED
        BY <4>1
    <3>4. QED
      BY <1>4, <3>2, <3>3
  <2>2. CASE v # 0
    <3>1. v \in VPages
      BY <1>15, <2>2
    <3>2. space' = [space EXCEPT ![t].frame[v] = 0] /\ leaked' = leaked \cup ({s.frame[v]} \ {0})
      BY <1>2, <1>3, <1>4, <1>6, <1>8, <2>2 DEF FreeBlock
    <3>3. 0 \in Entries
      BY MemoryAssumption DEF Entries
    <3>4. PICK n \in Spaces :
             /\ n = [s EXCEPT !.frame[v] = 0]
             /\ n.kstk = s.kstk /\ n.dir = s.dir /\ n.tab = s.tab /\ n.frame[v] = 0
             /\ \A w \in VPages : w # v => n.frame[w] = s.frame[w]
             /\ Once(n) /\ PagesOf(n) = (PagesOf(s) \ {s.frame[v]}) \cup ({0} \ {0})
      BY <1>4, <3>1, <3>3, FrameSet
    <3>5. space' = [space EXCEPT ![t] = n]
      BY <1>1, <1>4, <3>2, <3>4
    <3>6. PICK lost : lost = {s.frame[v]} \ {0}
      OBVIOUS
    <3>7. lost \subseteq PagesOf(s) /\ PagesOf(n) = PagesOf(s) \ lost
      <4>1. s.frame[v] # 0 => s.frame[v] \in PagesOf(s)
        BY <3>1, InSpace
      <4>2. 0 \notin PagesOf(s)
        BY SpaceParts
      <4>3. QED
        BY <3>4, <3>6, <4>1, <4>2
    <3>8. QED
      BY <3>2, <3>4, <3>5, <3>6, <3>7
  <2>3. QED
    BY <2>1, <2>2
<1>17. /\ heap'[t] = h /\ space'[t] = n /\ \A u \in Slots : u # t => space'[u] = space[u]
  BY <1>1, <1>13, <1>16
<1>18. OneOwner'
  <2>1. PICK lost : /\ leaked' = leaked \cup lost
                    /\ lost \subseteq PagesOf(s) /\ PagesOf(n) = PagesOf(s) \ lost
    BY <1>16
  <2>2. PagesOf(call'[t].new) = PagesOf(call[t].new) \ lost
    BY <1>1, <1>4, <1>5, <2>1, Apart
  <2>3. /\ UNCHANGED <<used, card>> /\ lost \subseteq PagesOf(space[t]) \cup PagesOf(call[t].new)
        /\ PagesOf(space'[t]) = PagesOf(space[t]) \ lost
        /\ \A u \in Slots : call'[u].dir0 = call[u].dir0
        /\ \A u \in Slots : u # t => /\ PagesOf(space'[u]) = PagesOf(space[u])
                                     /\ PagesOf(call'[u].new) = PagesOf(call[u].new)
    BY <1>4, <1>5, <1>17, <2>1
  <2>4. QED
    BY <1>1, <2>1, <2>2, <2>3, Forgotten
<1>19. PICK d \in Calls : d = call[t]
  BY <1>1
<1>20. d.op = "none" /\ alive[t] = "run" /\ d.new = NoSpace /\ d.dir0 = 0
  BY <1>5, <1>19, IdleCall
<1>21. call' = [call EXCEPT ![t] = d] /\ call'[t] = d
  BY <1>1, <1>5, <1>19
<1>22. CallAt(t)'
  BY <1>5, <1>20, <1>21, NothingThere DEF CallAt
<1>23. HeapAt(t)'
  <2>1. \A j \in 1..Len(r) : PageAt(r[j].at + r[j].size + 1) <= NHeap
    <3>1. ASSUME NEW j \in 1..Len(r) PROVE PageAt(r[j].at + r[j].size + 1) <= NHeap
      <4>1. PICK k \in 1..Len(bs) : r[j] = bs[k]
        <5>1. j \in 1..Len(bs) /\ j + 1 \in 1..Len(bs)
          BY <1>3, <1>10
        <5>2. QED
          BY <1>10, <5>1
      <4>2. QED
        BY <1>1, <1>2, <1>3, <4>1 DEF HeapAt
    <3>2. QED
      BY <3>1
  <2>2. PageAt(b.at) <= NHeap
    BY <1>14, Virtual
  <2>3. QED
    BY <1>10, <1>12, <1>17, <1>20, <1>21, <2>1, <2>2 DEF HeapAt
<1>24. ASSUME still, NEW j \in 1..Len(r)
       PROVE  /\ \A w \in Covers(r[j]) : n.frame[w] = r[j].on[w] /\ r[j].on[w] # 0
              /\ r[j].at + r[j].size + 1 <= b.at
              /\ \A k \in 1..(j - 1) : r[k].at + r[k].size < r[j].at
  <2>1. i = Len(bs) /\ g.tidy
    BY <1>11, <1>24
  <2>2. j \in 1..Len(bs) /\ j \in 1..(i - 1) /\ r[j] = bs[j]
    BY <1>3, <1>10, <2>1
  <2>3. \A k \in 1..(j - 1) : r[k] = bs[k]
    BY <1>3, <1>10, <2>1, <2>2
  <2>4. /\ \A w \in Covers(bs[j]) : s.frame[w] = bs[j].on[w] /\ bs[j].on[w] # 0
        /\ \A k \in 1..(j - 1) : bs[k].at + bs[k].size < bs[j].at
    BY <1>1, <1>2, <1>3, <1>4, <2>1, <2>2 DEF BlocksAt
  <2>5. bs[j].at + bs[j].size < b.at
    BY <1>1, <1>2, <1>3, <1>5, <1>6, <2>1, <2>2 DEF BlocksAt
  <2>6. ASSUME NEW w \in Covers(bs[j]) PROVE n.frame[w] = s.frame[w]
    <3>1. PICK x \in Nat, y \in Nat : x = bs[j].at /\ y = bs[j].at + bs[j].size /\ x <= y /\ y <= b.at
      BY <1>6, <1>7, <2>2, <2>5
    <3>2. PageAt(y) <= PageAt(b.at) /\ PageAt(y) \in Nat /\ PageAt(x) \in Nat /\ 1 <= PageAt(x)
      BY <1>6, <3>1, PageOrder
    <3>3. w \in PageAt(x)..PageAt(y)
      BY <2>6, <3>1 DEF Covers
    <3>4. w \in Nat /\ w <= PageAt(b.at)
      BY <1>14, <3>2, <3>3
    <3>5. w \in VPages
      BY <1>14, <3>4, Virtual
    <3>6. w # v
      <4>1. CASE v = 0
        BY <3>2, <3>3, <4>1
      <4>2. CASE v # 0
        BY <1>14, <1>15, <3>4, <4>2
      <4>3. QED
        BY <4>1, <4>2
    <3>7. QED
      BY <1>16, <3>5, <3>6
  <2>7. bs[j].at + bs[j].size + 1 <= b.at
    BY <1>6, <1>7, <2>2, <2>5
  <2>8. QED
    BY <2>2, <2>3, <2>4, <2>6, <2>7
<1>25. BlocksAt(t)'
  <2>1. heap'[t].blocks = r /\ heap'[t].end = b.at /\ heap'[t].tidy = still /\ space'[t] = n
    BY <1>12, <1>17
  <2>2. QED
    BY <1>10, <1>24, <2>1 DEF BlocksAt
<1>26. Once(d.new) /\ d.op # "fork" /\ used' \subseteq Pages /\ UNCHANGED alive
  BY <1>1, <1>5, <1>20, NothingThere
<1>27. QED
  BY <1>13, <1>16, <1>18, <1>21, <1>22, <1>23, <1>25, <1>26, OneTaskMoves

------------------------------------------------------------------------------
(* The end of fork.                                                        *)

\* The child gets the space that was made for it.
LEMMA ForkEndKeeps ==
    ASSUME Sound, NEW t \in Slots, ForkEnd(t)
    PROVE  Sound'
<1>1. /\ heap \in [Slots -> Heaps] /\ space \in [Slots -> Spaces] /\ call \in [Slots -> Calls]
      /\ alive \in [Slots -> {"none", "new", "run"}]
      /\ TypeInv /\ EachOnce /\ OneParent /\ OneOwner /\ CallAt(t)
  BY DEF Sound, TypeInv
<1>2. PICK c \in Calls : c = call[t] /\ c.kid \in Slots /\ c.dir0 \in Entries /\ c.new \in Spaces
  BY <1>1, CallParts
<1>3. /\ c.op = "fork" /\ alive[t] = "run" /\ Wants(t)[1] = "nothing"
      /\ space' = [space EXCEPT ![c.kid] = c.new] /\ alive' = [alive EXCEPT ![c.kid] = "run"]
      /\ leaked' = leaked \cup {c.dir0} /\ call' = [call EXCEPT ![t] = NoCall]
      /\ UNCHANGED <<used, card, heap>>
  BY <1>2 DEF ForkEnd, Goes
<1>4. PICK k \in Slots, s \in Spaces : k = c.kid /\ s = c.new
  BY <1>2
<1>5. c.dir0 # 0
  <2>1. PICK w : w = Wants(t)
    OBVIOUS
  <2>2. QED
    BY <1>1, <1>2, <1>3, <2>1, WantsWhat
<1>6. alive[k] = "new" /\ k # t
  BY <1>1, <1>2, <1>3, <1>4, <1>5 DEF CallAt
<1>7. call[k].op = "none" /\ space[k] = NoSpace /\ heap[k] = NoHeap /\ CallAt(k)
  BY <1>6 DEF Sound, CallAt
<1>8. NoCall \in Calls /\ NoCall.op = "none" /\ NoCall.new = NoSpace /\ NoCall.dir0 = 0
  BY NoCallParts
<1>9. /\ call'[t] = NoCall /\ \A u \in Slots : u # t => call'[u] = call[u]
      /\ space'[k] = s /\ \A u \in Slots : u # k => space'[u] = space[u]
      /\ alive'[k] = "run" /\ \A u \in Slots : u # k => alive'[u] = alive[u]
  BY <1>1, <1>3, <1>4
<1>10. TypeInv'
  <2>1. call' \in [Slots -> Calls] /\ space' \in [Slots -> Spaces]
    BY <1>1, <1>3, <1>4, <1>8
  <2>2. alive' \in [Slots -> {"none", "new", "run"}]
    BY <1>1, <1>3
  <2>3. QED
    BY <1>1, <1>3, <2>1, <2>2 DEF TypeInv
<1>11. EachOnce'
  <2>1. ASSUME NEW u \in Slots PROVE Once(space'[u]) /\ Once(call'[u].new)
    <3>1. Once(space[u]) /\ Once(call[u].new) /\ Once(s)
      BY <1>1, <1>2, <1>4 DEF EachOnce
    <3>2. QED
      BY <1>8, <1>9, <3>1, NothingThere
  <2>2. QED
    BY <2>1 DEF EachOnce
<1>12. OneOwner'
  <2>1. PICK who \in [used -> Owners] :
             /\ \A q : q \in Kernel <=> q \in used /\ who[q] = K
             /\ \A q : q \in card <=> q \in used /\ who[q] = C
             /\ \A q : q \in leaked <=> q \in used /\ who[q] = L
             /\ \A u \in Slots : \A q : q \in PagesOf(space[u]) <=> q \in used /\ who[q] = Sp(u)
             /\ \A u \in Slots : \A q : q \in PagesOf(call[u].new) <=> q \in used /\ who[q] = Nw(u)
             /\ \A u \in Slots : \A q : q = call[u].dir0 /\ q # 0 <=> q \in used /\ who[q] = Dr(u)
    BY <1>1, Booked
  <2>2. PICK w \in [used' -> Owners] :
             \A q \in used' : w[q] = IF who[q] = Nw(t) THEN Sp(k)
                                     ELSE IF who[q] = Dr(t) THEN L ELSE who[q]
    <3>1. [q \in used' |-> IF who[q] = Nw(t) THEN Sp(k)
                           ELSE IF who[q] = Dr(t) THEN L ELSE who[q]] \in [used' -> Owners]
      BY <1>3, <2>1, OwnersDiffer
    <3>2. QED
      BY <3>1
  <2>3. used' = used
    BY <1>3
  <2>4. /\ \A q : q \in Kernel <=> q \in used' /\ w[q] = K
        /\ \A q : q \in card' <=> q \in used' /\ w[q] = C
    BY <1>3, <2>1, <2>2, <2>3, OwnersDiffer
  <2>5. ASSUME NEW q PROVE q \in leaked' <=> q \in used' /\ w[q] = L
    <3>1. q = c.dir0 <=> q \in used /\ who[q] = Dr(t)
      BY <1>2, <1>5, <2>1
    <3>2. q \in used' => w[q] = IF who[q] = Nw(t) THEN Sp(k)
                                ELSE IF who[q] = Dr(t) THEN L ELSE who[q]
      BY <2>2
    <3>3. Nw(t) # L /\ Sp(k) # L /\ Dr(t) # Nw(t)
      BY OwnersDiffer
    <3>4. q \in leaked <=> q \in used /\ who[q] = L
      BY <2>1
    <3>5. q \in leaked' <=> q \in leaked \/ q = c.dir0
      BY <1>3
    <3>6. QED
      BY <2>3, <3>1, <3>2, <3>3, <3>4, <3>5
  <2>6. PagesOf(space[k]) = {}
    BY <1>7, NothingThere
  <2>7. ASSUME NEW u \in Slots, NEW q
        PROVE  /\ q \in PagesOf(space'[u]) <=> q \in used' /\ w[q] = Sp(u)
               /\ q \in PagesOf(call'[u].new) <=> q \in used' /\ w[q] = Nw(u)
               /\ q = call'[u].dir0 /\ q # 0 <=> q \in used' /\ w[q] = Dr(u)
    <3>1. q \in used' => w[q] = IF who[q] = Nw(t) THEN Sp(k)
                                ELSE IF who[q] = Dr(t) THEN L ELSE who[q]
      BY <2>2
    <3>2. /\ q \in PagesOf(space[u]) <=> q \in used /\ who[q] = Sp(u)
          /\ q \in PagesOf(call[u].new) <=> q \in used /\ who[q] = Nw(u)
          /\ q = call[u].dir0 /\ q # 0 <=> q \in used /\ who[q] = Dr(u)
      BY <2>1
    <3>3. /\ L # Sp(u) /\ L # Nw(u) /\ L # Dr(u) /\ Nw(t) # Sp(u) /\ Nw(t) # Dr(u) /\ Dr(t) # Sp(u)
          /\ Dr(t) # Nw(u) /\ Sp(k) # Nw(u) /\ Sp(k) # Dr(u)
          /\ (Sp(k) = Sp(u) <=> u = k) /\ (Nw(t) = Nw(u) <=> u = t) /\ (Dr(t) = Dr(u) <=> u = t)
      BY OwnersDiffer
    <3>4. q \in PagesOf(space'[u]) <=> q \in used' /\ w[q] = Sp(u)
      <4>1. CASE u = k
        <5>1. q \in PagesOf(space'[u]) <=> q \in used /\ who[q] = Nw(t)
          BY <1>2, <1>4, <1>9, <2>1, <4>1
        <5>2. ~(q \in used /\ who[q] = Sp(u))
          BY <2>6, <3>2, <4>1
        <5>3. QED
          BY <2>3, <3>1, <3>3, <4>1, <5>1, <5>2
      <4>2. CASE u # k
        BY <1>9, <2>3, <3>1, <3>2, <3>3, <4>2
      <4>3. QED
        BY <4>1, <4>2
    <3>5. /\ q \in PagesOf(call'[u].new) <=> q \in used' /\ w[q] = Nw(u)
          /\ q = call'[u].dir0 /\ q # 0 <=> q \in used' /\ w[q] = Dr(u)
      <4>1. CASE u = t
        <5>1. q \notin PagesOf(call'[u].new) /\ ~(q = call'[u].dir0 /\ q # 0)
          BY <1>8, <1>9, <4>1, NothingThere
        <5>2. QED
          BY <3>1, <3>3, <4>1, <5>1
      <4>2. CASE u # t
        BY <1>9, <2>3, <3>1, <3>2, <3>3, <4>2
      <4>3. QED
        BY <4>1, <4>2
    <3>6. QED
      BY <3>4, <3>5
  <2>8. QED
    BY <2>4, <2>5, <2>7, Rebooked
<1>13. OneParent'
  BY <1>1, <1>8, <1>9 DEF OneParent
<1>14. ASSUME NEW u \in Slots PROVE CallAt(u)'
  <2>1. CallAt(u)
    BY DEF Sound
  <2>2. CASE u = t
    BY <1>3, <1>6, <1>9, <2>2, CallOver
  <2>3. CASE u = k
    <3>1. call'[u] = call[u] /\ alive'[u] = "run" /\ call[u].op = "none"
      BY <1>6, <1>7, <1>9, <2>3
    <3>2. QED
      BY <2>1, <3>1 DEF CallAt
  <2>4. CASE u # t /\ u # k
    <3>1. call[u].op = "fork" => call[u].kid # k /\ call[u].kid \in Slots
      <4>1. call[u] \in Calls
        BY <1>1
      <4>2. call[u].kid \in Slots
        BY <4>1, CallParts
      <4>3. QED
        BY <1>1, <1>2, <1>3, <1>4, <2>4, <4>2 DEF OneParent
    <3>2. call[u].op = "fork" => alive'[call[u].kid] = alive[call[u].kid]
      BY <1>9, <3>1
    <3>3. QED
      BY <1>3, <1>9, <2>1, <2>4, <3>2, CallKept
  <2>5. QED
    BY <2>2, <2>3, <2>4
<1>15. ASSUME NEW u \in Slots PROVE HeapAt(u)' /\ BlocksAt(u)'
  <2>1. HeapAt(u) /\ BlocksAt(u)
    BY DEF Sound
  <2>2. CASE u = k
    <3>1. heap'[u] = NoHeap /\ call'[u].op # "sbrk"
      BY <1>3, <1>6, <1>7, <1>9, <2>2
    <3>2. heap'[u].blocks = <<>> /\ heap'[u].end = 0
      BY <3>1 DEF NoHeap
    <3>3. 0 \in Nat /\ 0 < NImage * PageSize
      <4>1. NImage * PageSize \in Nat /\ MemSize \in Nat /\ MemSize + 1 < NImage * PageSize
        BY MemoryAssumption
      <4>2. QED
        BY <4>1
    <3>4. QED
      BY <3>1, <3>2, <3>3, HeapNew
  <2>3. CASE u = t
    BY <1>3, <1>6, <1>8, <1>9, <2>1, <2>3, HeapKept
  <2>4. CASE u # t /\ u # k
    BY <1>3, <1>9, <2>1, <2>4, HeapKept
  <2>5. QED
    BY <2>2, <2>3, <2>4
<1>16. QED
  BY <1>10, <1>11, <1>12, <1>13, <1>14, <1>15 DEF Sound

\* The stack that a fork unmaps when it has no page is not among the pages of
\* the parent's heap.
LEMMA ForkFailsKeeps ==
    ASSUME Sound, NEW t \in Slots, ForkFails(t), ~astray'
    PROVE  Sound'
<1>1. /\ heap \in [Slots -> Heaps] /\ space \in [Slots -> Spaces] /\ call \in [Slots -> Calls]
      /\ HeapAt(t) /\ BlocksAt(t) /\ CallAt(t) /\ OneOwner /\ EachOnce /\ used \subseteq Pages
  BY DEF Sound, TypeInv
<1>2. PICK c \in Calls : c = call[t] /\ c.new \in Spaces
  BY <1>1, CallParts
<1>3. PICK s \in Spaces : s = space[t] /\ Once(s)
  BY <1>1 DEF EachOnce
<1>4. PICK lost : lost = {c.new.kstk, s.frame[Stack]} \ {0}
  OBVIOUS
<1>5. /\ c.op = "fork" /\ c.new.dir = 0 /\ c.dir0 = 0 /\ alive[t] = "run"
      /\ space' = [space EXCEPT ![t].frame[Stack] = 0] /\ leaked' = leaked \cup lost
      /\ call' = [call EXCEPT ![t] = NoCall]
      /\ UNCHANGED <<used, card, alive, heap>>
  BY <1>2, <1>3, <1>4 DEF ForkFails, Goes
<1>6. 0 \in Entries
  BY MemoryAssumption DEF Entries
<1>7. PICK n \in Spaces : /\ n = [s EXCEPT !.frame[Stack] = 0]
                          /\ n.kstk = s.kstk /\ n.dir = s.dir /\ n.tab = s.tab /\ n.frame[Stack] = 0
                          /\ \A w \in VPages : w # Stack => n.frame[w] = s.frame[w]
                          /\ Once(n) /\ PagesOf(n) = (PagesOf(s) \ {s.frame[Stack]}) \cup ({0} \ {0})
  <2>1. PICK top \in VPages : top = Stack
    BY Virtual
  <2>2. PICK n \in Spaces :
           /\ n = [s EXCEPT !.frame[top] = 0]
           /\ n.kstk = s.kstk /\ n.dir = s.dir /\ n.tab = s.tab /\ n.frame[top] = 0
           /\ \A w \in VPages : w # top => n.frame[w] = s.frame[w]
           /\ Once(n) /\ PagesOf(n) = (PagesOf(s) \ {s.frame[top]}) \cup ({0} \ {0})
    BY <1>3, <1>6, FrameSet
  <2>3. QED
    BY <2>1, <2>2
<1>8. space' = [space EXCEPT ![t] = n]
  BY <1>1, <1>3, <1>5, <1>7
<1>9. NoCall \in Calls /\ NoCall.op = "none" /\ NoCall.new = NoSpace /\ NoCall.dir0 = 0
  BY NoCallParts
<1>10. /\ space'[t] = n /\ call'[t] = NoCall
       /\ \A u \in Slots : u # t => space'[u] = space[u] /\ call'[u] = call[u]
  BY <1>1, <1>5, <1>8
<1>11. PagesOf(c.new) = {c.new.kstk} \ {0}
  <2>1. (\A r \in Regions : c.new.tab[r] = 0) /\ (\A v \in VPages : c.new.frame[v] = 0)
    BY <1>1, <1>2, <1>5 DEF CallAt, Empty
  <2>2. \A q : q \in PagesOf(c.new) <=> q # 0 /\ q = c.new.kstk
    BY <1>5, <2>1, InSpace
  <2>3. QED
    BY <2>2
<1>12. OneOwner'
  <2>1. /\ s.frame[Stack] # 0 => s.frame[Stack] \in PagesOf(s)
        /\ 0 \notin PagesOf(s)
    BY Virtual, InSpace, SpaceParts
  <2>2. \A q : q \in PagesOf(s) => q \notin PagesOf(c.new)
    BY <1>1, <1>2, <1>3, Apart
  <2>3. lost \subseteq PagesOf(space[t]) \cup PagesOf(call[t].new)
    BY <1>2, <1>3, <1>4, <1>11, <2>1
  <2>4. PagesOf(space'[t]) = PagesOf(space[t]) \ lost
    BY <1>3, <1>4, <1>7, <1>10, <1>11, <2>1, <2>2
  <2>5. PagesOf(call'[t].new) = PagesOf(call[t].new) \ lost
    BY <1>2, <1>4, <1>9, <1>10, <1>11, NothingThere
  <2>6. /\ UNCHANGED <<used, card>>
        /\ \A u \in Slots : call'[u].dir0 = call[u].dir0
        /\ \A u \in Slots : u # t => /\ PagesOf(space'[u]) = PagesOf(space[u])
                                     /\ PagesOf(call'[u].new) = PagesOf(call[u].new)
    BY <1>2, <1>5, <1>9, <1>10
  <2>7. QED
    BY <1>1, <1>5, <2>3, <2>4, <2>5, <2>6, Forgotten
<1>13. PICK h \in Heaps : h = heap[t] /\ h.blocks \in Seq(Blocks)
  BY <1>1 DEF Heaps
<1>14. heap' = [heap EXCEPT ![t] = h] /\ heap'[t] = h
  BY <1>1, <1>5, <1>13
<1>15. CallAt(t)'
  BY <1>5, <1>10, CallOver
<1>16. HeapAt(t)'
  BY <1>1, <1>9, <1>10, <1>13, <1>14 DEF HeapAt
<1>17. ASSUME NEW i \in DOMAIN h.blocks, NEW w \in Covers(h.blocks[i])
       PROVE  n.frame[w] = s.frame[w]
  <2>1. PICK b \in Blocks : b = h.blocks[i] /\ b.at \in Nat /\ b.size \in Nat
    <3>1. h.blocks[i] \in Blocks
      BY <1>13, <1>17
    <3>2. QED
      BY <3>1 DEF Blocks
  <2>2. PageAt(b.at + b.size + 1) <= NHeap
    BY <1>1, <1>13, <1>17, <2>1 DEF HeapAt
  <2>3. PICK x \in Nat : x = b.at + b.size /\ b.at <= x
    BY <2>1
  <2>4. PICK y \in Nat : y = b.at + b.size + 1 /\ x <= y
    BY <2>1, <2>3
  <2>5. /\ PageAt(x) \in Nat /\ PageAt(y) \in Nat /\ PageAt(b.at) \in Nat
        /\ 1 <= PageAt(b.at) /\ PageAt(x) <= PageAt(y)
    BY <2>1, <2>3, <2>4, PageOrder
  <2>6. w \in PageAt(b.at)..PageAt(x)
    BY <1>17, <2>1, <2>3 DEF Covers
  <2>7. w \in Nat /\ w <= NHeap
    BY <2>2, <2>4, <2>5, <2>6, Virtual
  <2>8. w \in VPages /\ w # Stack
    BY <2>7, Virtual
  <2>9. QED
    BY <1>7, <2>8
<1>18. BlocksAt(t)'
  <2>1. heap'[t] = h /\ space'[t] = n
    BY <1>10, <1>14
  <2>2. ASSUME h.tidy, NEW i \in DOMAIN h.blocks
        PROVE  /\ \A w \in Covers(h.blocks[i]) : n.frame[w] = h.blocks[i].on[w] /\ h.blocks[i].on[w] # 0
               /\ h.blocks[i].at + h.blocks[i].size + 1 <= h.end
               /\ \A j \in 1..(i - 1) : h.blocks[j].at + h.blocks[j].size < h.blocks[i].at
    <3>1. /\ \A w \in Covers(h.blocks[i]) : s.frame[w] = h.blocks[i].on[w] /\ h.blocks[i].on[w] # 0
          /\ h.blocks[i].at + h.blocks[i].size + 1 <= h.end
          /\ \A j \in 1..(i - 1) : h.blocks[j].at + h.blocks[j].size < h.blocks[i].at
      BY <1>1, <1>3, <1>13, <2>2 DEF BlocksAt
    <3>2. QED
      BY <1>17, <2>2, <3>1
  <2>3. QED
    BY <2>1, <2>2 DEF BlocksAt
<1>19. Once(NoCall.new) /\ NoCall.op # "fork" /\ used' \subseteq Pages /\ UNCHANGED alive
  BY <1>1, <1>5, <1>9, NothingThere
<1>20. QED
  BY <1>5, <1>7, <1>8, <1>9, <1>12, <1>14, <1>15, <1>16, <1>18, <1>19, OneTaskMoves

------------------------------------------------------------------------------
(* The end of execve, and exit.                                            *)

\* What destroy_pde gives back and what it leaves behind are a space's pages
\* but for its kernel stack.
LEMMA Destroyed ==
    ASSUME NEW s \in Spaces, Once(s)
    PROVE  /\ FramesOf(s) \subseteq PagesOf(s) /\ Abandoned(s) \subseteq PagesOf(s)
           /\ FramesOf(s) \cap Abandoned(s) = {}
           /\ s.kstk \notin FramesOf(s) /\ s.kstk \notin Abandoned(s)
           /\ \A q : q \in PagesOf(s) =>
                 q \in FramesOf(s) \/ q \in Abandoned(s) \/ (q = s.kstk /\ q # 0)
<1>1. FramesOf(s) \subseteq PagesOf(s)
  BY DEF FramesOf, PagesOf
<1>2. \A q : q \in Abandoned(s) <=> q \in PagesOf(s) /\ q \notin FramesOf(s) /\ q # s.kstk
  BY DEF Abandoned
<1>3. s.kstk \notin FramesOf(s)
  <2>1. SUFFICES ASSUME s.kstk \in FramesOf(s) PROVE FALSE
    OBVIOUS
  <2>2. PICK v \in VPages : s.frame[v] = s.kstk /\ s.kstk # 0
    BY <2>1 DEF FramesOf
  <2>3. QED
    BY <2>2 DEF Once
<1>4. \A q : q \in PagesOf(s) => q # 0
  BY SpaceParts
<1>5. QED
  BY <1>1, <1>2, <1>3, <1>4

\* What a page is that may be unmarked: nobody's but the caller's.
LEMMA OwnedParts ==
    /\ Kernel \subseteq Owned /\ card \subseteq Owned
    /\ \A u \in Slots : /\ PagesOf(space[u]) \subseteq Owned
                        /\ PagesOf(call[u].new) \subseteq Owned
                        /\ call[u].dir0 # 0 => call[u].dir0 \in Owned
<1>1. ASSUME NEW u \in Slots
      PROVE  /\ PagesOf(space[u]) \subseteq Owned
             /\ PagesOf(call[u].new) \subseteq Owned
             /\ call[u].dir0 # 0 => call[u].dir0 \in Owned
  <2>1. Held(u) \subseteq Owned
    BY DEF Owned
  <2>2. QED
    BY <2>1 DEF Held
<1>2. QED
  BY <1>1 DEF Owned

\* The new space takes the place of the old one, but for the kernel stack.
LEMMA ExecEndKeeps ==
    ASSUME Sound, NEW t \in Slots, ExecEnd(t), astray = FALSE, ~astray'
    PROVE  Sound'
<1>1. /\ heap \in [Slots -> Heaps] /\ space \in [Slots -> Spaces] /\ call \in [Slots -> Calls]
      /\ CallAt(t) /\ OneOwner /\ EachOnce /\ used \subseteq Pages
  BY DEF Sound, TypeInv
<1>2. PICK c \in Calls : c = call[t]
  BY <1>1
<1>3. PICK s \in Spaces : s = space[t] /\ Once(s)
  BY <1>1 DEF EachOnce
<1>4. PICK m \in Spaces : m = c.new /\ Once(m)
  BY <1>1, <1>2, CallParts DEF EachOnce
<1>5. PICK p, freed, mine :
         /\ freed = FramesOf(s) \cup ({p} \ {0}) /\ mine = FramesOf(s) \cup Abandoned(s)
         /\ Unmark(freed, mine, Abandoned(s))
         /\ space' = [space EXCEPT ![t] = [m EXCEPT !.kstk = s.kstk]]
         /\ heap' = [heap EXCEPT ![t] = [NoHeap EXCEPT !.end = MemSize + 1]]
         /\ call' = [call EXCEPT ![t] = NoCall] /\ UNCHANGED alive
  <2>1. PICK p \in PastDirectory(s.dir) :
           \/ Harm(FramesOf(s) \cup ({p} \ {0}), FramesOf(s) \cup Abandoned(s))
           \/ /\ Unmark(FramesOf(s) \cup ({p} \ {0}), FramesOf(s) \cup Abandoned(s), Abandoned(s))
              /\ space' = [space EXCEPT ![t] = [m EXCEPT !.kstk = s.kstk]]
              /\ heap' = [heap EXCEPT ![t] = [NoHeap EXCEPT !.end = MemSize + 1]]
              /\ call' = [call EXCEPT ![t] = NoCall] /\ UNCHANGED alive
    BY <1>2, <1>3, <1>4 DEF ExecEnd, Released
  <2>2. ~ Harm(FramesOf(s) \cup ({p} \ {0}), FramesOf(s) \cup Abandoned(s))
    BY DEF Harm
  <2>3. QED
    BY <2>1, <2>2
<1>6. /\ \A q : q \in freed => q \notin Owned \/ q \in FramesOf(s) \/ q \in Abandoned(s)
      /\ used' = used \ freed /\ leaked' = (leaked \cup Abandoned(s)) \ freed
      /\ FramesOf(s) \subseteq freed
  BY <1>5 DEF Unmark
<1>7. c.op = "exec" /\ alive[t] = "run" /\ card' = card
  BY <1>2 DEF ExecEnd, Goes
<1>8. m.kstk = 0 /\ c.dir0 = 0
  BY <1>1, <1>2, <1>4, <1>7 DEF CallAt
<1>9. PICK k \in Entries : k = s.kstk /\ (k # 0 => k \in PagesOf(s))
  BY InSpace, SpaceParts
<1>10. k = 0 \/ k \notin PagesOf(m)
  BY <1>1, <1>2, <1>3, <1>4, <1>9, Apart
<1>11. PICK n \in Spaces :
          /\ n = [m EXCEPT !.kstk = k]
          /\ n.kstk = k /\ n.dir = m.dir /\ n.tab = m.tab /\ n.frame = m.frame
          /\ Once(n) /\ PagesOf(n) = PagesOf(m) \cup ({k} \ {0})
  BY <1>4, <1>8, <1>10, KstkSet
<1>12. NoCall \in Calls /\ NoCall.op = "none" /\ NoCall.new = NoSpace /\ NoCall.dir0 = 0
  BY NoCallParts
<1>13. PICK h \in Heaps : /\ h = [NoHeap EXCEPT !.end = MemSize + 1]
                          /\ h.end = MemSize + 1 /\ h.blocks = <<>>
  <2>1. PICK e \in Nat : e = MemSize + 1
    BY MemoryAssumption
  <2>2. PICK h : h = [NoHeap EXCEPT !.end = e]
    OBVIOUS
  <2>3. <<>> \in Seq(Blocks)
    OBVIOUS
  <2>4. h \in Heaps /\ h.end = e /\ h.blocks = <<>>
    BY <2>2, <2>3 DEF NoHeap, Heaps
  <2>5. QED
    BY <2>1, <2>2, <2>4
<1>14. /\ space' = [space EXCEPT ![t] = n] /\ heap' = [heap EXCEPT ![t] = h]
       /\ call' = [call EXCEPT ![t] = NoCall] /\ alive' = alive
  BY <1>5, <1>9, <1>11, <1>13
<1>15. /\ space'[t] = n /\ heap'[t] = h /\ call'[t] = NoCall
       /\ \A u \in Slots : u # t => space'[u] = space[u] /\ call'[u] = call[u]
  BY <1>1, <1>14
<1>16. OneOwner'
  <2>1. PICK who \in [used -> Owners] :
             /\ \A q : q \in Kernel <=> q \in used /\ who[q] = K
             /\ \A q : q \in card <=> q \in used /\ who[q] = C
             /\ \A q : q \in leaked <=> q \in used /\ who[q] = L
             /\ \A u \in Slots : \A q : q \in PagesOf(space[u]) <=> q \in used /\ who[q] = Sp(u)
             /\ \A u \in Slots : \A q : q \in PagesOf(call[u].new) <=> q \in used /\ who[q] = Nw(u)
             /\ \A u \in Slots : \A q : q = call[u].dir0 /\ q # 0 <=> q \in used /\ who[q] = Dr(u)
    BY <1>1, Booked
  <2>2. PICK w \in [used' -> Owners] :
             \A q \in used' : w[q] = IF who[q] = Nw(t) THEN Sp(t)
                                     ELSE IF q \in Abandoned(s) THEN L ELSE who[q]
    <3>1. [q \in used' |-> IF who[q] = Nw(t) THEN Sp(t)
                           ELSE IF q \in Abandoned(s) THEN L ELSE who[q]] \in [used' -> Owners]
      BY <1>6, <2>1, OwnersDiffer
    <3>2. QED
      BY <3>1
  <2>3. \A q : q \in used' <=> q \in used /\ q \notin freed
    BY <1>6
  <2>4. /\ FramesOf(s) \subseteq PagesOf(s) /\ Abandoned(s) \subseteq PagesOf(s)
        /\ FramesOf(s) \cap Abandoned(s) = {}
        /\ k \notin FramesOf(s) /\ k \notin Abandoned(s)
        /\ \A q : q \in PagesOf(s) =>
              q \in FramesOf(s) \/ q \in Abandoned(s) \/ (q = k /\ q # 0)
    BY <1>3, <1>9, Destroyed
  <2>5. \A q : q \in PagesOf(s) <=> q \in used /\ who[q] = Sp(t)
    BY <1>3, <2>1
  <2>6. ASSUME NEW q, q \in used, who[q] # Sp(t), who[q] # L PROVE q \in used'
    <3>1. q \notin FramesOf(s) /\ q \notin Abandoned(s)
      BY <2>4, <2>5, <2>6
    <3>2. q \in Owned
      <4>1. \/ who[q] = K \/ who[q] = C
            \/ \E u \in Slots : who[q] \in {Sp(u), Nw(u), Dr(u)}
        BY <2>1, <2>6 DEF Owners, K, C, L, Sp, Nw, Dr
      <4>2. CASE who[q] = K \/ who[q] = C
        BY <2>1, <2>6, <4>2, OwnedParts
      <4>3. ASSUME NEW u \in Slots, who[q] \in {Sp(u), Nw(u), Dr(u)} PROVE q \in Owned
        BY <2>1, <2>6, <4>3, OwnedParts
      <4>4. QED
        BY <4>1, <4>2, <4>3
    <3>3. QED
      BY <1>6, <2>3, <2>6, <3>1, <3>2
  <2>7. k # 0 => k \in used'
    <3>1. k # 0 => k \in Owned /\ k \in used
      BY <1>3, <1>9, <2>5, OwnedParts
    <3>2. QED
      BY <1>6, <2>3, <2>4, <3>1
  <2>8. /\ \A q : q \in Kernel <=> q \in used' /\ w[q] = K
        /\ \A q : q \in card' <=> q \in used' /\ w[q] = C
    <3>1. ASSUME NEW q
          PROVE  /\ q \in Kernel <=> q \in used' /\ w[q] = K
                 /\ q \in card' <=> q \in used' /\ w[q] = C
      <4>1. /\ K # L /\ C # L /\ K # Sp(t) /\ C # Sp(t) /\ K # Nw(t) /\ C # Nw(t)
        BY OwnersDiffer
      <4>2. /\ q \in Kernel <=> q \in used /\ who[q] = K
            /\ q \in card' <=> q \in used /\ who[q] = C
        BY <1>7, <2>1
      <4>3. q \in used' => w[q] = IF who[q] = Nw(t) THEN Sp(t)
                                  ELSE IF q \in Abandoned(s) THEN L ELSE who[q]
        BY <2>2
      <4>4. q \in Abandoned(s) => who[q] = Sp(t)
        BY <2>4, <2>5
      <4>5. q \in used' => q \in used
        BY <2>3
      <4>6. QED
        BY <2>6, <4>1, <4>2, <4>3, <4>4, <4>5
    <3>2. QED
      BY <3>1
  <2>9. ASSUME NEW q PROVE q \in leaked' <=> q \in used' /\ w[q] = L
    <3>1. q \in leaked' <=> (q \in leaked \/ q \in Abandoned(s)) /\ q \notin freed
      BY <1>6
    <3>2. q \in leaked <=> q \in used /\ who[q] = L
      BY <2>1
    <3>3. q \in Abandoned(s) => q \in used /\ who[q] = Sp(t)
      BY <2>4, <2>5
    <3>4. q \in used' => w[q] = IF who[q] = Nw(t) THEN Sp(t)
                                ELSE IF q \in Abandoned(s) THEN L ELSE who[q]
      BY <2>2
    <3>5. Nw(t) # L /\ Sp(t) # L /\ Nw(t) # Sp(t)
      BY OwnersDiffer
    <3>6. QED
      BY <2>3, <3>1, <3>2, <3>3, <3>4, <3>5
  <2>10. ASSUME NEW u \in Slots, NEW q
         PROVE  /\ q \in PagesOf(space'[u]) <=> q \in used' /\ w[q] = Sp(u)
                /\ q \in PagesOf(call'[u].new) <=> q \in used' /\ w[q] = Nw(u)
                /\ q = call'[u].dir0 /\ q # 0 <=> q \in used' /\ w[q] = Dr(u)
    <3>1. q \in used' => w[q] = IF who[q] = Nw(t) THEN Sp(t)
                                ELSE IF q \in Abandoned(s) THEN L ELSE who[q]
      BY <2>2
    <3>2. /\ q \in PagesOf(space[u]) <=> q \in used /\ who[q] = Sp(u)
          /\ q \in PagesOf(call[u].new) <=> q \in used /\ who[q] = Nw(u)
          /\ q = call[u].dir0 /\ q # 0 <=> q \in used /\ who[q] = Dr(u)
      BY <2>1
    <3>3. /\ L # Sp(u) /\ L # Nw(u) /\ L # Dr(u) /\ Nw(t) # Sp(u) /\ Nw(t) # Dr(u)
          /\ Sp(t) # Nw(u) /\ Sp(t) # Dr(u) /\ Nw(t) # Sp(t) /\ L # Sp(t) /\ Dr(u) # Sp(t)
          /\ (Sp(t) = Sp(u) <=> u = t) /\ (Nw(t) = Nw(u) <=> u = t)
      BY OwnersDiffer
    <3>4. q \in Abandoned(s) => q \in used /\ who[q] = Sp(t)
      BY <2>4, <2>5
    <3>5. q \in used' => q \in used
      BY <2>3
    <3>6. q \in used /\ who[q] # Sp(t) /\ who[q] # L => q \in used'
      BY <2>6
    <3>7. q \in PagesOf(space'[u]) <=> q \in used' /\ w[q] = Sp(u)
      <4>1. CASE u = t
        <5>1. q \in PagesOf(space'[u]) <=> q \in PagesOf(m) \/ (q = k /\ q # 0)
          BY <1>11, <1>15, <4>1
        <5>2. q \in PagesOf(m) <=> q \in used /\ who[q] = Nw(t)
          BY <1>2, <1>4, <2>1
        <5>3. q = k /\ q # 0 => q \in used' /\ q \notin Abandoned(s) /\ who[q] = Sp(t)
          BY <1>9, <2>4, <2>5, <2>7
        <5>4. q \in used' /\ q \notin Abandoned(s) /\ who[q] = Sp(t) => q = k /\ q # 0
          BY <1>6, <2>3, <2>4, <2>5
        <5>5. QED
          BY <3>1, <3>3, <3>5, <3>6, <4>1, <5>1, <5>2, <5>3, <5>4
      <4>2. CASE u # t
        <5>1. q \in PagesOf(space'[u]) <=> q \in used /\ who[q] = Sp(u)
          BY <1>15, <3>2, <4>2
        <5>2. QED
          BY <3>1, <3>3, <3>4, <3>5, <3>6, <4>2, <5>1
      <4>3. QED
        BY <4>1, <4>2
    <3>8. /\ q \in PagesOf(call'[u].new) <=> q \in used' /\ w[q] = Nw(u)
          /\ q = call'[u].dir0 /\ q # 0 <=> q \in used' /\ w[q] = Dr(u)
      <4>1. CASE u = t
        <5>1. q \notin PagesOf(call'[u].new) /\ ~(q = call'[u].dir0 /\ q # 0)
          BY <1>12, <1>15, <4>1, NothingThere
        <5>2. ~(q \in used /\ who[q] = Dr(t))
          BY <1>2, <1>8, <2>1
        <5>3. QED
          BY <3>1, <3>3, <3>5, <4>1, <5>1, <5>2
      <4>2. CASE u # t
        <5>1. /\ q \in PagesOf(call'[u].new) <=> q \in used /\ who[q] = Nw(u)
              /\ q = call'[u].dir0 /\ q # 0 <=> q \in used /\ who[q] = Dr(u)
          BY <1>15, <3>2, <4>2
        <5>2. QED
          BY <3>1, <3>3, <3>4, <3>5, <3>6, <4>2, <5>1
      <4>3. QED
        BY <4>1, <4>2
    <3>9. QED
      BY <3>7, <3>8
  <2>11. QED
    BY <2>8, <2>9, <2>10, Rebooked
<1>17. CallAt(t)'
  BY <1>7, <1>14, <1>15, CallOver
<1>18. HeapAt(t)' /\ BlocksAt(t)'
  <2>1. MemSize + 1 \in Nat /\ MemSize + 1 < NImage * PageSize
    BY MemoryAssumption
  <2>2. QED
    BY <1>12, <1>13, <1>15, <2>1, HeapNew
<1>19. Once(NoCall.new) /\ NoCall.op # "fork" /\ used' \subseteq Pages
  BY <1>1, <1>6, <1>12, NothingThere
<1>20. QED
  BY <1>11, <1>12, <1>14, <1>16, <1>17, <1>18, <1>19, OneTaskMoves

\* Every page of a task that is not unmarked is forgotten.
LEMMA ExitKeeps ==
    ASSUME Sound, NEW t \in Slots, Exit(t), astray = FALSE, ~astray'
    PROVE  Sound'
<1>1. /\ heap \in [Slots -> Heaps] /\ space \in [Slots -> Spaces] /\ call \in [Slots -> Calls]
      /\ alive \in [Slots -> {"none", "new", "run"}]
      /\ OneOwner /\ OneParent /\ EachOnce /\ used \subseteq Pages
  BY DEF Sound, TypeInv
<1>2. PICK s \in Spaces : s = space[t]
  BY <1>1
<1>3. PICK freed, kept :
         /\ kept = PagesOf(s) \ freed
         /\ freed \cap (Owned \ PagesOf(s)) = {} /\ used' = used \ freed
         /\ leaked' = (leaked \cup kept) \ freed
         /\ alive' = [alive EXCEPT ![t] = "none"] /\ space' = [space EXCEPT ![t] = NoSpace]
         /\ heap' = [heap EXCEPT ![t] = NoHeap] /\ call' = call
  <2> DEFINE mineIf(sw) == IF sw THEN PagesOf(s) ELSE PagesOf(s) \ {s.frame[Stack]}
             freedIf(p, sw) == ((Released(s) \cap mineIf(sw))
                                  \cup {p, IF sw THEN s.kstk - 1 ELSE 0}) \ {0}
  <2>1. PICK p \in PastDirectory(s.dir), switched \in BOOLEAN :
           \/ Harm(freedIf(p, switched), PagesOf(s))
           \/ /\ Unmark(freedIf(p, switched), PagesOf(s),
                        PagesOf(s) \ (Released(s) \cap mineIf(switched)))
              /\ alive' = [alive EXCEPT ![t] = "none"]
              /\ space' = [space EXCEPT ![t] = NoSpace]
              /\ heap' = [heap EXCEPT ![t] = NoHeap]
              /\ UNCHANGED <<call, taskLock>>
    BY <1>2 DEF Exit
  <2>2. PICK some, freed : /\ some = Released(s) \cap mineIf(switched)
                           /\ freed = freedIf(p, switched)
    OBVIOUS
  <2>3. \/ Harm(freed, PagesOf(s))
        \/ /\ Unmark(freed, PagesOf(s), PagesOf(s) \ some)
           /\ alive' = [alive EXCEPT ![t] = "none"]
           /\ space' = [space EXCEPT ![t] = NoSpace]
           /\ heap' = [heap EXCEPT ![t] = NoHeap]
           /\ UNCHANGED <<call, taskLock>>
    BY <2>1, <2>2
  <2>4. some \subseteq freed
    <3>1. 0 \notin some
      BY <2>2 DEF Released, FramesOf
    <3>2. QED
      BY <2>2, <3>1
  <2> HIDE DEF mineIf, freedIf
  <2>5. ~ Harm(freed, PagesOf(s))
    BY DEF Harm
  <2>6. /\ freed \cap (Owned \ PagesOf(s)) = {} /\ used' = used \ freed
        /\ leaked' = (leaked \cup (PagesOf(s) \ some)) \ freed
        /\ alive' = [alive EXCEPT ![t] = "none"] /\ space' = [space EXCEPT ![t] = NoSpace]
        /\ heap' = [heap EXCEPT ![t] = NoHeap] /\ call' = call
    BY <2>3, <2>5 DEF Unmark
  <2>7. PICK kept : kept = PagesOf(s) \ freed
    OBVIOUS
  <2>8. leaked' = (leaked \cup kept) \ freed
    BY <2>4, <2>6, <2>7
  <2>9. QED
    BY <2>6, <2>7, <2>8
<1>4. Idle(t) /\ card' = card
  BY DEF Exit
<1>5. call[t].new = NoSpace /\ call[t].dir0 = 0 /\ alive[t] = "run" /\ call[t].op = "none"
  BY <1>4, IdleCall
<1>6. /\ space'[t] = NoSpace /\ heap'[t] = NoHeap /\ alive'[t] = "none"
      /\ \A u \in Slots : u # t =>
            space'[u] = space[u] /\ heap'[u] = heap[u] /\ alive'[u] = alive[u]
  BY <1>1, <1>3
<1>7. TypeInv'
  <2>1. space' \in [Slots -> Spaces]
    BY <1>1, <1>3, NothingThere
  <2>2. NoHeap \in Heaps
    <3>1. <<>> \in Seq(Blocks)
      OBVIOUS
    <3>2. QED
      BY <3>1 DEF NoHeap, Heaps
  <2>3. heap' \in [Slots -> Heaps] /\ alive' \in [Slots -> {"none", "new", "run"}]
    BY <1>1, <1>3, <2>2
  <2>4. QED
    BY <1>1, <1>3, <2>1, <2>3 DEF TypeInv
<1>8. EachOnce' /\ OneParent'
  BY <1>1, <1>3, <1>6, NothingThere DEF EachOnce, OneParent
<1>9. OneOwner'
  <2>1. PICK who \in [used -> Owners] :
             /\ \A q : q \in Kernel <=> q \in used /\ who[q] = K
             /\ \A q : q \in card <=> q \in used /\ who[q] = C
             /\ \A q : q \in leaked <=> q \in used /\ who[q] = L
             /\ \A u \in Slots : \A q : q \in PagesOf(space[u]) <=> q \in used /\ who[q] = Sp(u)
             /\ \A u \in Slots : \A q : q \in PagesOf(call[u].new) <=> q \in used /\ who[q] = Nw(u)
             /\ \A u \in Slots : \A q : q = call[u].dir0 /\ q # 0 <=> q \in used /\ who[q] = Dr(u)
    BY <1>1, Booked
  <2>2. PICK w \in [used' -> Owners] : \A q \in used' : w[q] = IF who[q] = Sp(t) THEN L ELSE who[q]
    <3>1. [q \in used' |-> IF who[q] = Sp(t) THEN L ELSE who[q]] \in [used' -> Owners]
      BY <1>3, <2>1, OwnersDiffer
    <3>2. QED
      BY <3>1
  <2>3. \A q : q \in used' <=> q \in used /\ q \notin freed
    BY <1>3
  <2>4. \A q : q \in PagesOf(s) <=> q \in used /\ who[q] = Sp(t)
    BY <1>2, <2>1
  <2>5. ASSUME NEW q, q \in used, who[q] # Sp(t), who[q] # L PROVE q \in used'
    <3>1. q \notin PagesOf(s)
      BY <2>4, <2>5
    <3>2. q \in Owned
      <4>1. \/ who[q] = K \/ who[q] = C
            \/ \E u \in Slots : who[q] \in {Sp(u), Nw(u), Dr(u)}
        BY <2>1, <2>5 DEF Owners, K, C, L, Sp, Nw, Dr
      <4>2. CASE who[q] = K \/ who[q] = C
        BY <2>1, <2>5, <4>2, OwnedParts
      <4>3. ASSUME NEW u \in Slots, who[q] \in {Sp(u), Nw(u), Dr(u)} PROVE q \in Owned
        BY <2>1, <2>5, <4>3, OwnedParts
      <4>4. QED
        BY <4>1, <4>2, <4>3
    <3>3. QED
      BY <1>3, <2>5, <3>1, <3>2
  <2>6. ASSUME NEW q
        PROVE  /\ q \in Kernel <=> q \in used' /\ w[q] = K
               /\ q \in card' <=> q \in used' /\ w[q] = C
               /\ q \in leaked' <=> q \in used' /\ w[q] = L
    <3>1. q \in used' => q \in used /\ w[q] = IF who[q] = Sp(t) THEN L ELSE who[q]
      BY <2>2, <2>3
    <3>2. /\ q \in Kernel <=> q \in used /\ who[q] = K
          /\ q \in card' <=> q \in used /\ who[q] = C
          /\ q \in leaked <=> q \in used /\ who[q] = L
      BY <1>4, <2>1
    <3>3. K # L /\ C # L /\ K # Sp(t) /\ C # Sp(t) /\ L # Sp(t)
      BY OwnersDiffer
    <3>4. q \in leaked' <=> (q \in leaked \/ q \in PagesOf(s)) /\ q \notin freed
      BY <1>3
    <3>5. q \in used /\ who[q] # Sp(t) /\ who[q] # L => q \in used'
      BY <2>5
    <3>6. q \in PagesOf(s) <=> q \in used /\ who[q] = Sp(t)
      BY <2>4
    <3>7. q \in used' <=> q \in used /\ q \notin freed
      BY <2>3
    <3>8. QED
      BY <3>1, <3>2, <3>3, <3>4, <3>5, <3>6, <3>7
  <2>7. ASSUME NEW u \in Slots, NEW q
        PROVE  /\ q \in PagesOf(space'[u]) <=> q \in used' /\ w[q] = Sp(u)
               /\ q \in PagesOf(call'[u].new) <=> q \in used' /\ w[q] = Nw(u)
               /\ q = call'[u].dir0 /\ q # 0 <=> q \in used' /\ w[q] = Dr(u)
    <3>1. q \in used' => q \in used /\ w[q] = IF who[q] = Sp(t) THEN L ELSE who[q]
      BY <2>2, <2>3
    <3>2. /\ q \in PagesOf(space[u]) <=> q \in used /\ who[q] = Sp(u)
          /\ q \in PagesOf(call'[u].new) <=> q \in used /\ who[q] = Nw(u)
          /\ q = call'[u].dir0 /\ q # 0 <=> q \in used /\ who[q] = Dr(u)
      BY <1>3, <2>1
    <3>3. /\ L # Sp(u) /\ L # Nw(u) /\ L # Dr(u) /\ Nw(u) # Sp(t) /\ Dr(u) # Sp(t)
          /\ (Sp(t) = Sp(u) <=> u = t)
      BY OwnersDiffer
    <3>4. q \in used /\ who[q] # Sp(t) /\ who[q] # L => q \in used'
      BY <2>5
    <3>5. q \in PagesOf(space'[u]) <=> u # t /\ q \in used /\ who[q] = Sp(u)
      BY <1>6, <3>2, NothingThere
    <3>6. QED
      BY <3>1, <3>2, <3>3, <3>4, <3>5
  <2>8. QED
    BY <2>6, <2>7, Rebooked
<1>10. ASSUME NEW u \in Slots PROVE CallAt(u)' /\ HeapAt(u)' /\ BlocksAt(u)'
  <2>1. CallAt(u) /\ HeapAt(u) /\ BlocksAt(u)
    BY DEF Sound
  <2>2. CASE u = t
    <3>1. CallAt(u)'
      BY <1>3, <1>5, <1>6, <2>2, NothingThere DEF CallAt
    <3>2. heap'[u].blocks = <<>> /\ heap'[u].end = 0
      BY <1>6, <2>2 DEF NoHeap
    <3>3. 0 \in Nat /\ 0 < NImage * PageSize
      <4>1. NImage * PageSize \in Nat /\ MemSize \in Nat /\ MemSize + 1 < NImage * PageSize
        BY MemoryAssumption
      <4>2. QED
        BY <4>1
    <3>4. HeapAt(u)' /\ BlocksAt(u)'
      BY <1>3, <1>5, <2>2, <3>2, <3>3, HeapNew
    <3>5. QED
      BY <3>1, <3>4
  <2>3. CASE u # t
    <3>1. call[u].op = "fork" => alive'[call[u].kid] = alive[call[u].kid]
      <4>1. ASSUME call[u].op = "fork" PROVE call[u].kid # t /\ call[u].kid \in Slots
        <5>1. call[u] \in Calls
          BY <1>1
        <5>2. call[u].kid \in Slots
          BY <5>1, CallParts
        <5>3. alive[call[u].kid] # "run"
          BY <2>1, <4>1 DEF CallAt
        <5>4. QED
          BY <1>5, <5>2, <5>3
      <4>2. QED
        BY <1>6, <4>1
    <3>2. CallAt(u)'
      BY <1>3, <1>6, <2>1, <2>3, <3>1, CallKept
    <3>3. HeapAt(u)' /\ BlocksAt(u)'
      BY <1>3, <1>6, <2>1, <2>3, HeapKept
    <3>4. QED
      BY <3>2, <3>3
  <2>4. QED
    BY <2>2, <2>3
<1>11. QED
  BY <1>7, <1>8, <1>9, <1>10 DEF Sound


------------------------------------------------------------------------------
(* The invariant.                                                          *)

\* The pages of the default task.
LEMMA FirstSpace ==
    ASSUME Init
    PROVE  /\ space[0] \in Spaces /\ Once(space[0])
           /\ \A q : q \in PagesOf(space[0]) <=> q \in {4, 5, 6, 7}
<1>1. PICK f \in [VPages -> Entries] : f = [NoSpace.frame EXCEPT ![0] = 6]
  <2>1. NoSpace.frame \in [VPages -> Entries] /\ 6 \in Entries
    BY NothingThere, SpaceParts, MemoryAssumption DEF Entries
  <2>2. QED
    BY <2>1
<1>2. PICK a \in [Regions -> Entries] : a = [NoSpace.tab EXCEPT ![0] = 7]
  <2>1. NoSpace.tab \in [Regions -> Entries] /\ 7 \in Entries
    BY NothingThere, SpaceParts, MemoryAssumption DEF Entries
  <2>2. QED
    BY <2>1
<1>3. 0 \in Slots /\ 0 \in VPages /\ 0 \in Regions
  BY MemoryAssumption, Virtual DEF Slots, Regions
<1>4. /\ f[0] = 6 /\ \A v \in VPages : v # 0 => f[v] = 0
      /\ a[0] = 7 /\ \A r \in Regions : r # 0 => a[r] = 0
  <2>1. /\ NoSpace.frame \in [VPages -> Entries] /\ NoSpace.tab \in [Regions -> Entries]
        /\ \A r \in Regions : NoSpace.tab[r] = 0
        /\ \A v \in VPages : NoSpace.frame[v] = 0
    BY NothingThere, SpaceParts
  <2>2. QED
    BY <1>1, <1>2, <1>3, <2>1
<1>5. space[0] = [kstk |-> 4, dir |-> 5, tab |-> a, frame |-> f]
  <2>1. space[0] = [NoSpace EXCEPT !.kstk = 4, !.dir = 5, !.frame[0] = 6, !.tab[0] = 7]
    BY <1>3 DEF Init
  <2>2. QED
    BY <1>1, <1>2, <2>1 DEF NoSpace
<1>6. space[0].kstk = 4 /\ space[0].dir = 5 /\ space[0].tab = a /\ space[0].frame = f
  BY <1>5
<1>7. space[0] \in Spaces
  <2>1. 4 \in Entries /\ 5 \in Entries
    BY MemoryAssumption DEF Entries
  <2>2. QED
    BY <1>5, <2>1 DEF Spaces
<1>8. Once(space[0])
  BY <1>3, <1>4, <1>6 DEF Once
<1>9. ASSUME NEW q
      PROVE  q \in PagesOf(space[0]) <=> q \in {4, 5, 6, 7}
  BY <1>3, <1>4, <1>6, InSpace
<1>10. QED
  BY <1>7, <1>8, <1>9

\* The books at the start.
LEMMA FirstBooks == Init => OneOwner
<1> SUFFICES ASSUME Init PROVE OneOwner
  OBVIOUS
<1>1. 0 \in Slots
  BY MemoryAssumption DEF Slots
<1>2. PICK who : who = [q \in used |-> IF q \in {1, 2, 3} THEN K ELSE Sp(0)]
  OBVIOUS
<1>3. used = {1, 2, 3, 4, 5, 6, 7} /\ card = {} /\ leaked = {}
  BY DEF Init
<1>4. /\ who \in [used -> Owners]
      /\ \A q \in used : q \in {1, 2, 3} => who[q] = K
      /\ \A q \in used : q \notin {1, 2, 3} => who[q] = Sp(0)
  BY <1>1, <1>2, OwnersDiffer
<1>5. Kernel = {p \in used : who[p] = K}
  BY <1>1, <1>3, <1>4, OwnersDiffer DEF Kernel
<1>6. card = {p \in used : who[p] = C} /\ leaked = {p \in used : who[p] = L}
  BY <1>1, <1>3, <1>4, OwnersDiffer
<1>7. ASSUME NEW u \in Slots
      PROVE  PagesOf(space[u]) = {p \in used : who[p] = Sp(u)}
  <2>1. CASE u = 0
    BY <1>1, <1>3, <1>4, <2>1, OwnersDiffer, FirstSpace
  <2>2. CASE u # 0
    <3>1. PagesOf(space[u]) = {}
      BY <2>2, NothingThere DEF Init
    <3>2. QED
      BY <1>1, <1>4, <2>2, <3>1, OwnersDiffer
  <2>3. QED
    BY <2>1, <2>2
<1>8. ASSUME NEW u \in Slots
      PROVE  /\ PagesOf(call[u].new) = {p \in used : who[p] = Nw(u)}
             /\ {call[u].dir0} \ {0} = {p \in used : who[p] = Dr(u)}
  <2>1. call[u].new = NoSpace /\ call[u].dir0 = 0
    BY DEF Init, NoCall
  <2>2. QED
    BY <1>1, <1>4, <2>1, NothingThere, OwnersDiffer
<1>9. QED
  BY <1>4, <1>5, <1>6, <1>7, <1>8 DEF OneOwner, Books

\* The initial state is sound.
LEMMA InvInit == Init => Inv
<1> SUFFICES ASSUME Init PROVE Inv
  OBVIOUS
<1>1. astray \in BOOLEAN
  BY DEF Init
<1>2. 0 \in Slots /\ 0 \in Entries /\ 0 \in Nat
  BY MemoryAssumption DEF Slots, Entries
<1>3. ASSUME NEW u \in Slots
      PROVE  /\ call[u] = NoCall /\ heap[u] = NoHeap
             /\ u # 0 => space[u] = NoSpace
             /\ alive[u] = IF u = 0 THEN "run" ELSE "none"
  BY DEF Init
<1>4. NoCall \in Calls /\ NoHeap \in Heaps
  <2>1. NoCall \in Calls
    BY <1>2, NothingThere DEF NoCall, Calls
  <2>2. <<>> \in Seq(Blocks)
    OBVIOUS
  <2>3. NoHeap \in Heaps
    BY <1>2, <2>2 DEF NoHeap, Heaps
  <2>4. QED
    BY <2>1, <2>3
<1>5. \A u \in Slots : space[u] \in Spaces /\ Once(space[u]) /\ call[u].new = NoSpace
  BY <1>3, FirstSpace, NothingThere DEF NoCall
<1>6. TypeInv
  <2>1. used \subseteq Pages
    BY MemoryAssumption DEF Init, Pages
  <2>2. alive \in [Slots -> {"none", "new", "run"}]
    BY DEF Init
  <2>3. space \in [Slots -> Spaces]
    <3>1. PICK s : s = [t \in Slots |-> IF t # 0 THEN NoSpace ELSE
              [NoSpace EXCEPT !.kstk = 4, !.dir = 5, !.frame[0] = 6, !.tab[0] = 7]]
      OBVIOUS
    <3>2. space = s
      BY <3>1 DEF Init
    <3>3. DOMAIN s = Slots /\ s = [t \in Slots |-> s[t]]
      BY <3>1
    <3>4. QED
      BY <1>5, <3>2, <3>3
  <2>4. call \in [Slots -> Calls] /\ heap \in [Slots -> Heaps]
    BY <1>4 DEF Init
  <2>5. QED
    BY <2>1, <2>2, <2>3, <2>4 DEF TypeInv
<1>7. EachOnce
  BY <1>5, NothingThere DEF EachOnce
<1>8. ASSUME NEW u \in Slots
      PROVE  CallAt(u) /\ call[u].op = "none"
  <2>1. call[u].op = "none" /\ call[u].dir0 = 0 /\ call[u].new = NoSpace
    BY <1>3 DEF NoCall
  <2>2. alive[u] # "run" => space[u] = NoSpace /\ heap[u] = NoHeap
    BY <1>3
  <2>3. QED
    BY <2>1, <2>2, NothingThere DEF CallAt
<1>9. OneParent
  BY <1>8 DEF OneParent
<1>10. ASSUME NEW u \in Slots
       PROVE  HeapAt(u) /\ BlocksAt(u)
  <2>1. heap[u].end = 0 /\ heap[u].blocks = <<>> /\ DOMAIN heap[u].blocks = {}
    BY <1>3 DEF NoHeap
  <2>2. PageAt(0) <= NHeap
    <3>1. 0 < NHeap * PageSize
      BY Virtual, MemoryAssumption, Product
    <3>2. QED
      BY <3>1, PageWithin, MemoryAssumption
  <2>3. QED
    BY <1>8, <2>1, <2>2 DEF HeapAt, BlocksAt
<1>11. QED
  BY <1>1, <1>6, <1>7, <1>8, <1>9, <1>10, FirstBooks DEF Inv, Sound

\* Every step keeps what is sound.
LEMMA StepKeeps == Sound /\ astray = FALSE /\ Next /\ ~astray' => Sound'
<1> SUFFICES ASSUME Sound, astray = FALSE, Next, ~astray'
             PROVE  Sound'
  OBVIOUS
<1>1. CASE CardAlloc
  BY <1>1, CardAllocKeeps
<1>2. CASE CardFree
  BY <1>2, CardFreeKeeps
<1>3. ASSUME NEW t \in Slots, AllocPage(t)
      PROVE  Sound'
  BY <1>3, AllocPageKeeps
<1>4. ASSUME NEW t \in Slots, CardAllocInside(t) \/ ChildRunsEarly(t)
      PROVE  Sound'
  BY <1>4 DEF CardAllocInside, ChildRunsEarly
<1>5. ASSUME NEW t \in Slots, ForkBegin(t)
      PROVE  Sound'
  BY <1>5, ForkBeginKeeps
<1>6. ASSUME NEW t \in Slots, ForkEnd(t)
      PROVE  Sound'
  BY <1>6, ForkEndKeeps
<1>7. ASSUME NEW t \in Slots, ForkFails(t)
      PROVE  Sound'
  BY <1>7, ForkFailsKeeps
<1>8. ASSUME NEW t \in Slots, ExecBegin(t)
      PROVE  Sound'
  BY <1>8, ExecBeginKeeps
<1>9. ASSUME NEW t \in Slots, ExecEnd(t)
      PROVE  Sound'
  BY <1>9, ExecEndKeeps
<1>10. ASSUME NEW t \in Slots, ExecFails(t)
       PROVE  Sound'
  BY <1>10, ExecFailsKeeps
<1>11. ASSUME NEW t \in Slots, Exit(t)
       PROVE  Sound'
  BY <1>11, ExitKeeps
<1>12. ASSUME NEW t \in Slots, NEW n \in Sizes, Sbrk(t, n)
       PROVE  Sound'
  BY <1>12, SbrkKeeps
<1>13. ASSUME NEW t \in Slots, SbrkEnd(t)
       PROVE  Sound'
  BY <1>13, SbrkEndKeeps
<1>14. ASSUME NEW t \in Slots, SbrkFails(t)
       PROVE  Sound'
  BY <1>14, SbrkFailsKeeps
<1>15. ASSUME NEW t \in Slots, NEW i \in 1..MaxBlocks, FreeBlock(t, i)
       PROVE  Sound'
  BY <1>15, FreeBlockKeeps
<1>16. QED
  BY <1>1, <1>2, <1>3, <1>4, <1>5, <1>6, <1>7, <1>8, <1>9, <1>10, <1>11, <1>12, <1>13,
     <1>14, <1>15 DEF Next

\* Once something has gone astray nothing happens.
LEMMA NextAstray == astray \in BOOLEAN /\ Next => astray = FALSE /\ astray' \in BOOLEAN
<1> SUFFICES ASSUME astray \in BOOLEAN, Next
             PROVE  astray = FALSE /\ astray' \in BOOLEAN
  OBVIOUS
<1>1. CASE CardAlloc \/ CardFree
  BY <1>1 DEF CardAlloc, CardFree
<1>2. ASSUME NEW t \in Slots, AllocPage(t) \/ CardAllocInside(t) \/ ChildRunsEarly(t)
                                \/ ForkEnd(t) \/ ForkFails(t) \/ ExecFails(t)
                                \/ SbrkEnd(t) \/ SbrkFails(t)
      PROVE  astray = FALSE /\ astray' \in BOOLEAN
  <2>1. astray = FALSE
    BY <1>2 DEF Goes, AllocPage, CardAllocInside, ChildRunsEarly, ForkEnd, ForkFails,
       ExecFails, SbrkEnd, SbrkFails
  <2>2. astray' = astray \/ astray' = TRUE
    BY <1>2 DEF AllocPage, CardAllocInside, ChildRunsEarly, ForkEnd, ForkFails,
       ExecFails, SbrkEnd, SbrkFails
  <2>3. QED
    BY <2>1, <2>2
<1>3. ASSUME NEW t \in Slots, ForkBegin(t)
      PROVE  astray = FALSE /\ astray' \in BOOLEAN
  BY <1>3 DEF ForkBegin, Idle, Goes
<1>4. ASSUME NEW t \in Slots, ExecBegin(t)
      PROVE  astray = FALSE /\ astray' \in BOOLEAN
  BY <1>4 DEF ExecBegin, Idle, Goes
<1>5. ASSUME NEW t \in Slots, ExecEnd(t)
      PROVE  astray = FALSE /\ astray' \in BOOLEAN
  BY <1>5 DEF ExecEnd, Goes, Harm, Unmark
<1>6. ASSUME NEW t \in Slots, Exit(t)
      PROVE  astray = FALSE /\ astray' \in BOOLEAN
  BY <1>6 DEF Exit, Idle, Goes, Harm, Unmark
<1>7. ASSUME NEW t \in Slots, NEW n \in Sizes, Sbrk(t, n)
      PROVE  astray = FALSE /\ astray' \in BOOLEAN
  BY <1>7 DEF Sbrk, Idle, Goes
<1>8. ASSUME NEW t \in Slots, NEW i \in 1..MaxBlocks, FreeBlock(t, i)
      PROVE  astray = FALSE /\ astray' \in BOOLEAN
  BY <1>8 DEF FreeBlock, Idle, Goes
<1>9. QED
  BY <1>1, <1>2, <1>3, <1>4, <1>5, <1>6, <1>7, <1>8 DEF Next

\* Whatever order forks, programs, exits, heaps and the card's interrupts come
\* in, and wherever memory runs out: while no page in use has been unmarked or
\* given out again, no page has two owners, each call has what it has allocated
\* and the heaps lie on the pages they were given.
THEOREM InvHolds == Spec => []Inv
<1>1. Init => Inv
  BY InvInit
<1>2. Inv /\ [Next]_vars => Inv'
  <2> SUFFICES ASSUME Inv, [Next]_vars PROVE Inv'
    OBVIOUS
  <2>1. CASE Next
    <3>1. astray = FALSE /\ astray' \in BOOLEAN
      BY <2>1, NextAstray DEF Inv
    <3>2. astray' = FALSE => Sound'
      BY <2>1, <3>1, StepKeeps DEF Inv
    <3>3. QED
      BY <3>1, <3>2 DEF Inv
  <2>2. CASE UNCHANGED vars
    <3>1. UNCHANGED <<used, leaked, card, alive, space, call, heap, astray>>
      BY <2>2 DEF vars, pages
    <3>2. TypeInv => TypeInv'
      BY <3>1 DEF TypeInv
    <3>3. EachOnce => EachOnce'
      BY <3>1 DEF EachOnce
    <3>4. OneOwner => OneOwner'
      BY <3>1 DEF OneOwner, Books
    <3>5. OneParent => OneParent'
      BY <3>1 DEF OneParent
    <3>6. \A t \in Slots : CallAt(t) /\ HeapAt(t) /\ BlocksAt(t)
                             => CallAt(t)' /\ HeapAt(t)' /\ BlocksAt(t)'
      BY <3>1 DEF CallAt, HeapAt, BlocksAt
    <3>7. QED
      BY <3>1, <3>2, <3>3, <3>4, <3>5, <3>6 DEF Inv, Sound
  <2>3. QED
    BY <2>1, <2>2
<1>3. QED
  BY <1>1, <1>2, PTL DEF Spec

------------------------------------------------------------------------------
(* What the runs check.                                                    *)

\* What sbrk has handed out keeps its contents until it is freed: as long as
\* the program frees its blocks in the order last in, first out, and no block
\* began at the start of a page or was refused, every block still lies on the
\* frames it was given and no two blocks overlap.
THEOREM HeapsKept == Spec => []HeapSound
<1>1. Inv => HeapSound
  BY DEF Inv, Sound, BlocksAt, HeapSound
<1>2. QED
  BY <1>1, InvHolds, PTL

\* A holding is a page of a task's space or of the call it is in.
LEMMA HoldingParts ==
    ASSUME NEW h
    PROVE  h \in Holdings <=>
              \E u \in Slots :
                 \/ \E q \in PagesOf(space[u]) : h = <<u, "space", q>>
                 \/ \E q \in PagesOf(call[u].new) \cup ({call[u].dir0} \ {0}) :
                       h = <<u, "call", q>>
<1>1. h \in Holdings <=> \E u \in Slots : h \in Holding(u)
  BY DEF Holdings
<1>2. ASSUME NEW u
      PROVE  h \in Holding(u) <=>
                \/ \E q \in PagesOf(space[u]) : h = <<u, "space", q>>
                \/ \E q \in PagesOf(call[u].new) \cup ({call[u].dir0} \ {0}) :
                      h = <<u, "call", q>>
  BY DEF Holding
<1>3. QED
  BY <1>1, <1>2

\* The set of pages whose owner is a task has as many elements as Holdings.
LEMMA HoldingsCount ==
    ASSUME Sound, NEW P, P = used \ (Kernel \cup card \cup leaked), IsFiniteSet(P)
    PROVE  /\ P = UNION {Held(t) : t \in Slots}
           /\ IsFiniteSet(Holdings) /\ Cardinality(Holdings) = Cardinality(P)
<1>1. OneOwner
  BY DEF Sound
<1>2. PICK who \in [used -> Owners] :
             /\ \A q : q \in Kernel <=> q \in used /\ who[q] = K
             /\ \A q : q \in card <=> q \in used /\ who[q] = C
             /\ \A q : q \in leaked <=> q \in used /\ who[q] = L
             /\ \A u \in Slots : \A q : q \in PagesOf(space[u]) <=> q \in used /\ who[q] = Sp(u)
             /\ \A u \in Slots : \A q : q \in PagesOf(call[u].new) <=> q \in used /\ who[q] = Nw(u)
             /\ \A u \in Slots : \A q : q = call[u].dir0 /\ q # 0 <=> q \in used /\ who[q] = Dr(u)
  BY <1>1, Booked
<1>3. \A q : q \in P <=> q \in used /\ who[q] # K /\ who[q] # C /\ who[q] # L
  BY <1>2
<1>4. \A o \in Owners : o # K /\ o # C /\ o # L =>
         \E u \in Slots : o = Sp(u) \/ o = Nw(u) \/ o = Dr(u)
  BY DEF Owners, K, C, L, Sp, Nw, Dr
<1>5. \A q : q \in P <=> \E u \in Slots : q \in used /\ who[q] \in {Sp(u), Nw(u), Dr(u)}
  <2>1. ASSUME NEW q \in P
        PROVE  \E u \in Slots : q \in used /\ who[q] \in {Sp(u), Nw(u), Dr(u)}
    BY <1>2, <1>3, <1>4
  <2>2. ASSUME NEW q, NEW u \in Slots, q \in used, who[q] \in {Sp(u), Nw(u), Dr(u)}
        PROVE  q \in P
    BY <1>3, <2>2, OwnersDiffer
  <2>3. QED
    BY <2>1, <2>2
<1>6. P = UNION {Held(t) : t \in Slots}
  <2>1. \A u \in Slots : \A q : q \in Held(u) <=> q \in used /\ who[q] \in {Sp(u), Nw(u), Dr(u)}
    BY <1>2 DEF Held
  <2>2. QED
    BY <1>5, <2>1
<1>7. \A q \in P : \E h \in Holdings :
         \E u \in Slots : \/ h = <<u, "space", q>> /\ who[q] = Sp(u)
                          \/ h = <<u, "call", q>> /\ who[q] \in {Nw(u), Dr(u)}
  <2> SUFFICES ASSUME NEW q \in P, NEW u \in Slots, q \in used, who[q] \in {Sp(u), Nw(u), Dr(u)}
               PROVE  \E h \in Holdings : \/ h = <<u, "space", q>> /\ who[q] = Sp(u)
                                          \/ h = <<u, "call", q>> /\ who[q] \in {Nw(u), Dr(u)}
    BY <1>5
  <2>1. CASE who[q] = Sp(u)
    <3>1. q \in PagesOf(space[u])
      BY <1>2, <2>1
    <3>2. <<u, "space", q>> \in Holdings
      BY <3>1, HoldingParts
    <3>3. QED
      BY <2>1, <3>2
  <2>2. CASE who[q] \in {Nw(u), Dr(u)}
    <3>1. q \in PagesOf(call[u].new) \cup ({call[u].dir0} \ {0})
      BY <1>2, <2>2
    <3>2. <<u, "call", q>> \in Holdings
      BY <3>1, HoldingParts
    <3>3. QED
      BY <2>2, <3>2
  <2>3. QED
    BY <2>1, <2>2
<1>8. ASSUME NEW h \in Holdings
      PROVE  h[3] \in P /\ \E u \in Slots :
                 \/ h = <<u, "space", h[3]>> /\ who[h[3]] = Sp(u)
                 \/ h = <<u, "call", h[3]>> /\ who[h[3]] \in {Nw(u), Dr(u)}
  <2>1. PICK u \in Slots :
           \E q :
             \/ h = <<u, "space", q>> /\ q \in PagesOf(space[u])
             \/ h = <<u, "call", q>> /\ q \in PagesOf(call[u].new) \cup ({call[u].dir0} \ {0})
    BY HoldingParts
  <2>2. PICK q :
           \/ h = <<u, "space", q>> /\ q \in PagesOf(space[u])
           \/ h = <<u, "call", q>> /\ q \in PagesOf(call[u].new) \cup ({call[u].dir0} \ {0})
    BY <2>1
  <2>3. h[3] = q
    BY <2>2
  <2>4. CASE h = <<u, "space", q>> /\ q \in PagesOf(space[u])
    <3>1. q \in used /\ who[q] = Sp(u)
      BY <1>2, <2>4
    <3>2. QED
      BY <1>5, <2>3, <2>4, <3>1
  <2>5. CASE h = <<u, "call", q>> /\ q \in PagesOf(call[u].new) \cup ({call[u].dir0} \ {0})
    <3>1. q \in used /\ who[q] \in {Nw(u), Dr(u)}
      BY <1>2, <2>5
    <3>2. QED
      BY <1>5, <2>3, <2>5, <3>1
  <2>6. QED
    BY <2>2, <2>4, <2>5
<1>9. PICK g \in [Holdings -> P] : \A h \in Holdings : g[h] = h[3]
  <2>1. [h \in Holdings |-> h[3]] \in [Holdings -> P]
    BY <1>8
  <2>2. QED
    BY <2>1
<1>10. ASSUME NEW h \in Holdings, NEW i \in Holdings, g[h] = g[i]
       PROVE  h = i
  <2>1. h[3] = i[3]
    BY <1>9, <1>10
  <2>2. PICK q : q = h[3]
    OBVIOUS
  <2>3. PICK u \in Slots : \/ h = <<u, "space", q>> /\ who[q] = Sp(u)
                           \/ h = <<u, "call", q>> /\ who[q] \in {Nw(u), Dr(u)}
    BY <1>8, <2>2
  <2>4. PICK x \in Slots : \/ i = <<x, "space", q>> /\ who[q] = Sp(x)
                           \/ i = <<x, "call", q>> /\ who[q] \in {Nw(x), Dr(x)}
    BY <1>8, <2>1, <2>2
  <2>5. QED
    BY <2>3, <2>4, OwnersDiffer
<1>11. \A q \in P : \E h \in Holdings : g[h] = q
  <2>1. ASSUME NEW q \in P, NEW h \in Holdings, NEW u \in Slots,
               h = <<u, "space", q>> \/ h = <<u, "call", q>>
        PROVE  g[h] = q
    BY <1>9, <2>1
  <2>2. QED
    BY <1>7, <2>1
<1>12. ExistsBijection(P, Holdings)
  <2>1. IsInjective(g)
    BY <1>9, <1>10 DEF IsInjective
  <2>2. g \in Bijection(Holdings, P)
    BY <1>9, <1>11, <2>1 DEF Bijection, Injection, Surjection
  <2>3. ExistsBijection(Holdings, P)
    BY <2>2 DEF ExistsBijection
  <2>4. QED
    BY <2>3, Fun_ExistsBijSymmetric
<1>13. QED
  BY <1>6, <1>12, FS_Bijection

\* Two finite sets with nothing in common.
LEMMA DisjointSum ==
    ASSUME NEW S, NEW T, IsFiniteSet(S), IsFiniteSet(T), S \cap T = {}
    PROVE  /\ IsFiniteSet(S \cup T)
           /\ Cardinality(S \cup T) = Cardinality(S) + Cardinality(T)
<1>1. /\ IsFiniteSet(S \cup T)
      /\ Cardinality(S \cup T) = Cardinality(S) + Cardinality(T) - Cardinality(S \cap T)
  BY FS_Union
<1>2. Cardinality(S \cap T) = 0
  BY FS_EmptySet
<1>3. Cardinality(S) \in Nat /\ Cardinality(T) \in Nat
  BY FS_CardinalityType
<1>4. QED
  BY <1>1, <1>2, <1>3

\* Every marked page belongs to the kernel, the card, nobody, or once to a task.
LEMMA Accounts ==
    ASSUME Sound
    PROVE  /\ used = Owned \cup leaked
           /\ Cardinality(used) = Cardinality(Kernel) + Cardinality(card) + Cardinality(leaked)
                                    + Cardinality(Holdings)
<1>1. IsFiniteSet(used)
  <2>1. IsFiniteSet(Pages)
    BY MemoryAssumption, FS_Interval DEF Pages
  <2>2. QED
    BY <2>1, FS_Subset DEF Sound, TypeInv
<1>2. /\ Kernel \subseteq used /\ card \subseteq used /\ leaked \subseteq used
      /\ Kernel \cap card = {} /\ (Kernel \cup card) \cap leaked = {}
  BY Apart DEF Sound
<1>3. PICK P : P = used \ (Kernel \cup card \cup leaked)
  OBVIOUS
<1>4. IsFiniteSet(P) /\ IsFiniteSet(Kernel) /\ IsFiniteSet(card) /\ IsFiniteSet(leaked)
  BY <1>1, <1>2, <1>3, FS_Subset
<1>5. /\ P = UNION {Held(t) : t \in Slots}
      /\ IsFiniteSet(Holdings) /\ Cardinality(Holdings) = Cardinality(P)
  BY <1>3, <1>4, HoldingsCount
<1>6. used = Owned \cup leaked
  BY <1>2, <1>3, <1>5 DEF Owned
<1>7. /\ IsFiniteSet(Kernel \cup card)
      /\ Cardinality(Kernel \cup card) = Cardinality(Kernel) + Cardinality(card)
  BY <1>2, <1>4, DisjointSum
<1>8. /\ IsFiniteSet(Kernel \cup card \cup leaked)
      /\ Cardinality(Kernel \cup card \cup leaked)
           = Cardinality(Kernel \cup card) + Cardinality(leaked)
  BY <1>2, <1>4, <1>7, DisjointSum
<1>9. Cardinality((Kernel \cup card \cup leaked) \cup P)
        = Cardinality(Kernel \cup card \cup leaked) + Cardinality(P)
  <2>1. (Kernel \cup card \cup leaked) \cap P = {}
    BY <1>3
  <2>2. QED
    BY <1>4, <1>8, <2>1, DisjointSum
<1>10. used = (Kernel \cup card \cup leaked) \cup P
  BY <1>2, <1>3
<1>11. /\ Cardinality(Kernel) \in Nat /\ Cardinality(card) \in Nat /\ Cardinality(leaked) \in Nat
       /\ Cardinality(Holdings) \in Nat
  BY <1>4, <1>5, FS_CardinalityType
<1>12. QED
  BY <1>5, <1>6, <1>7, <1>8, <1>9, <1>10, <1>11

\* As long as none of the known mishaps has unmarked or shared a page in use,
\* every marked page is either somebody's or one the code has lost count of,
\* never two of these, and what anybody has is marked.
THEOREM PagesKept == Spec => []PagesAccounted
<1>1. Inv => PagesAccounted
  BY Accounts DEF Inv, PagesAccounted
<1>2. QED
  BY <1>1, InvHolds, PTL

------------------------------------------------------------------------------
(* The bitmap, for maps of any size and any sizes asked for.               *)

\* One round of the outer loop, where f says what comes of going on behind bit s.
TakenBits(b, size, s) == {i \in LookedAt(s, size) \cap Index : b[i]}
FirstOf(T) == CHOOSE i \in T : \A j \in T : i <= j
Round(b, size, f, s) ==
    IF s = BitSize THEN [index |-> NotFound, mark |-> FALSE]
    ELSE IF b[s] THEN f[s + 1]
    ELSE IF TakenBits(b, size, s) # {} THEN f[1 + FirstOf(TakenBits(b, size, s))]
    ELSE [index |-> s, mark |-> LookedAt(s, size) \cap Index = LookedAt(s, size)]
Rounds(b, size, f) == f = [s \in 0..BitSize |-> Round(b, size, f, s)]

------------------------------------------------------------------------------
(* Induction, and the recursion of the search.                             *)

LEMMA LeastOf ==
    ASSUME NEW T, T \subseteq Nat, T # {}
    PROVE  FirstOf(T) \in T /\ \A y \in T : FirstOf(T) <= y
BY MinIsLeast DEF Min, FirstOf

\* A set of numbers that has 0 and the successor of each of its elements.
LEMMA AllNumbers ==
    ASSUME NEW T, T \subseteq Nat, 0 \in T, \A k \in T : k + 1 \in T
    PROVE  T = Nat
<1>1. SUFFICES ASSUME Nat \ T # {}
               PROVE  FALSE
  OBVIOUS
<1>2. PICK m : m = FirstOf(Nat \ T)
  OBVIOUS
<1>3. m \in Nat \ T /\ \A y \in Nat \ T : m <= y
  BY <1>1, <1>2, LeastOf
<1>4. m - 1 \in Nat /\ m - 1 + 1 = m
  BY <1>3
<1>5. m - 1 \notin Nat \ T
  BY <1>3, <1>4
<1>6. QED
  BY <1>3, <1>4, <1>5

\* The first taken bit of a run is a bit of the run and of the map.
LEMMA TakenBit ==
    ASSUME NEW b, NEW size \in Nat, NEW s \in 0..BitSize, TakenBits(b, size, s) # {},
           NEW m, m = FirstOf(TakenBits(b, size, s))
    PROVE  /\ m \in Index /\ s <= m /\ m <= s + size - 2 /\ b[m] /\ m + 1 \in 0..BitSize
           /\ s < 1 + m
<1>1. TakenBits(b, size, s) \subseteq Nat
  BY BitmapAssumption DEF TakenBits, Index
<1>2. m \in TakenBits(b, size, s)
  BY <1>1, LeastOf
<1>3. m \in Index /\ m \in LookedAt(s, size) /\ b[m]
  BY <1>2 DEF TakenBits
<1>4. QED
  BY <1>3, BitmapAssumption DEF LookedAt, Index

\* A round looks only at what comes behind its bit.
LEMMA RoundBehind ==
    ASSUME NEW b, NEW size \in Nat, NEW s \in 0..BitSize, NEW f, NEW g,
           \A i \in 0..BitSize : i > s => f[i] = g[i]
    PROVE  Round(b, size, f, s) = Round(b, size, g, s)
<1>1. CASE s = BitSize
  BY <1>1 DEF Round
<1>2. CASE s # BitSize /\ b[s]
  <2>1. s + 1 \in 0..BitSize /\ s + 1 > s
    BY <1>2, BitmapAssumption
  <2>2. f[s + 1] = g[s + 1]
    BY <2>1
  <2>3. QED
    BY <1>2, <2>2 DEF Round
<1>3. CASE s # BitSize /\ ~b[s] /\ TakenBits(b, size, s) # {}
  <2>1. PICK m : m = FirstOf(TakenBits(b, size, s))
    OBVIOUS
  <2>2. 1 + m \in 0..BitSize /\ 1 + m > s
    BY <1>3, <2>1, TakenBit, BitmapAssumption DEF Index
  <2>3. f[1 + m] = g[1 + m]
    BY <2>2
  <2>4. QED
    BY <1>3, <2>1, <2>3 DEF Round
<1>4. CASE s # BitSize /\ ~b[s] /\ TakenBits(b, size, s) = {}
  BY <1>4 DEF Round
<1>5. QED
  BY <1>1, <1>2, <1>3, <1>4

\* The recursion has a solution, which is found from the end of the map back.
LEMMA RoundsExist ==
    ASSUME NEW b, NEW size \in Nat
    PROVE  \E f : Rounds(b, size, f)
<1> DEFINE Part(k) == \E f : \A s \in 0..BitSize : BitSize - s <= k => f[s] = Round(b, size, f, s)
           T == {k \in Nat : Part(k)}
<1>1. Part(0)
  <2>1. PICK f : f = [s \in 0..BitSize |-> [index |-> NotFound, mark |-> FALSE]]
    OBVIOUS
  <2>2. ASSUME NEW s \in 0..BitSize, BitSize - s <= 0
        PROVE  f[s] = Round(b, size, f, s)
    <3>1. s = BitSize
      BY <2>2, BitmapAssumption
    <3>2. QED
      BY <2>1, <3>1 DEF Round
  <2>3. QED
    BY <2>2
<1>2. ASSUME NEW k \in Nat, Part(k)
      PROVE  Part(k + 1)
  <2>1. PICK f : \A s \in 0..BitSize : BitSize - s <= k => f[s] = Round(b, size, f, s)
    BY <1>2
  <2>2. PICK g : g = [s \in 0..BitSize |-> IF BitSize - s <= k THEN f[s] ELSE Round(b, size, f, s)]
    OBVIOUS
  <2>3. ASSUME NEW s \in 0..BitSize, BitSize - s <= k + 1
        PROVE  g[s] = Round(b, size, g, s)
    <3>1. g[s] = Round(b, size, f, s)
      BY <2>1, <2>2
    <3>2. ASSUME NEW i \in 0..BitSize, i > s
          PROVE  f[i] = g[i]
      <4>1. BitSize - i <= k
        BY <2>3, <3>2, BitmapAssumption
      <4>2. QED
        BY <2>2, <4>1
    <3>3. Round(b, size, f, s) = Round(b, size, g, s)
      BY <3>2, RoundBehind
    <3>4. QED
      BY <3>1, <3>3
  <2>4. QED
    BY <2>3
<1> HIDE DEF Part
<1>3. T = Nat
  <2>1. T \subseteq Nat /\ 0 \in T
    BY <1>1
  <2>2. \A k \in T : k + 1 \in T
    BY <1>2
  <2> HIDE DEF T
  <2>3. QED
    BY <2>1, <2>2, AllNumbers
<1>4. BitSize \in Nat
  BY BitmapAssumption
<1>5. Part(BitSize)
  BY <1>3, <1>4
<1> USE DEF Part
<1>6. PICK f : \A s \in 0..BitSize : BitSize - s <= BitSize => f[s] = Round(b, size, f, s)
  BY <1>5
<1>7. PICK g : g = [s \in 0..BitSize |-> f[s]]
  OBVIOUS
<1>8. ASSUME NEW s \in 0..BitSize
      PROVE  g[s] = Round(b, size, g, s)
  <2>1. BitSize - s <= BitSize
    BY BitmapAssumption
  <2>2. g[s] = Round(b, size, f, s)
    BY <1>6, <1>7, <2>1
  <2>3. \A i \in 0..BitSize : i > s => f[i] = g[i]
    BY <1>7
  <2>4. QED
    BY <2>2, <2>3, RoundBehind
<1>9. Rounds(b, size, g)
  <2>1. g = [s \in 0..BitSize |-> g[s]]
    BY <1>7
  <2>2. QED
    BY <1>8, <2>1 DEF Rounds
<1>10. QED
  BY <1>9

\* What bitmap_alloc_bits finds is what the first round comes to.
LEMMA RunIs ==
    ASSUME NEW b, NEW size \in Nat
    PROVE  \E f : /\ Run(b, size) = f[0]
                  /\ \A s \in 0..BitSize : f[s] = Round(b, size, f, s)
<1>1. PICK f : f = CHOOSE h : Rounds(b, size, h)
  OBVIOUS
<1>2. Rounds(b, size, f)
  BY <1>1, RoundsExist
<1>3. Run(b, size) = f[0]
  BY <1>1 DEF Run, Rounds, Round, TakenBits, FirstOf
<1>4. \A s \in 0..BitSize : f[s] = Round(b, size, f, s)
  BY <1>2 DEF Rounds
<1>5. QED
  BY <1>3, <1>4

------------------------------------------------------------------------------
(* What the search returns.                                                *)

\* No run of free bits has been passed over, and the bits looked at are free.
Missed(b, size, from, to) == \E i \in Index : from <= i /\ i < to /\ Free(b, i, size)
Good(b, size, s, r) ==
    \/ r = [index |-> NotFound, mark |-> FALSE] /\ ~Missed(b, size, s, BitSize)
    \/ \E i \in Index :
          /\ s <= i /\ ~b[i] /\ ~Missed(b, size, s, i)
          /\ \A j \in LookedAt(i, size) : j \in Index => ~b[j]
          /\ r = [index |-> i, mark |-> LookedAt(i, size) \cap Index = LookedAt(i, size)]

\* A run that holds a taken bit is not free.
LEMMA NotFree ==
    ASSUME NEW b, NEW size \in Nat \ {0}, NEW m \in Index, b[m], NEW i \in Index,
           i <= m, m <= i + size - 1
    PROVE  ~Free(b, i, size)
<1>1. m \in i..i+size-1
  BY BitmapAssumption DEF Index
<1>2. QED
  BY <1>1 DEF Free

\* What is good from bit m + 1 on is good from bit s on, if no run from a bit
\* between the two is free.
LEMMA PassedOver ==
    ASSUME NEW b, NEW size \in Nat \ {0}, NEW s \in 0..BitSize, NEW m \in Index, s <= m,
           b[m], m <= s + size - 1, NEW r, Good(b, size, m + 1, r)
    PROVE  Good(b, size, s, r)
<1>1. ASSUME NEW i \in Index, s <= i, Free(b, i, size)
      PROVE  m + 1 <= i
  <2>1. s \in Nat /\ m \in Nat /\ i \in Nat
    BY BitmapAssumption DEF Index
  <2>2. ~(i <= m /\ m <= i + size - 1)
    BY <1>1, NotFree
  <2>3. m <= i + size - 1
    BY <1>1, <2>1
  <2>4. QED
    BY <2>1, <2>2, <2>3
<1>2. \A to : Missed(b, size, s, to) => Missed(b, size, m + 1, to)
  BY <1>1 DEF Missed
<1>3. \A i \in Index : m + 1 <= i => s <= i
  BY BitmapAssumption DEF Index
<1>4. QED
  BY <1>2, <1>3 DEF Good

\* One round is good if what it goes on with is.
LEMMA RoundGood ==
    ASSUME NEW b \in [Index -> BOOLEAN], NEW size \in Nat \ {0}, NEW f, NEW s \in 0..BitSize,
           \A i \in 0..BitSize : i > s => Good(b, size, i, f[i])
    PROVE  Good(b, size, s, Round(b, size, f, s))
<1>1. CASE s = BitSize
  <2>1. ~Missed(b, size, s, BitSize)
    BY <1>1, BitmapAssumption DEF Missed, Index
  <2>2. Round(b, size, f, s) = [index |-> NotFound, mark |-> FALSE]
    BY <1>1 DEF Round
  <2>3. QED
    BY <2>1, <2>2 DEF Good
<1>2. CASE s # BitSize /\ b[s]
  <2>1. s \in Index /\ s + 1 \in 0..BitSize /\ s + 1 > s /\ s <= s /\ s <= s + size - 1
    BY <1>2, BitmapAssumption DEF Index
  <2>2. Good(b, size, s + 1, f[s + 1])
    BY <2>1
  <2>3. Good(b, size, s, f[s + 1])
    BY <1>2, <2>1, <2>2, PassedOver
  <2>4. QED
    BY <1>2, <2>3 DEF Round
<1>3. CASE s # BitSize /\ ~b[s] /\ TakenBits(b, size, s) # {}
  <2>1. PICK m : m = FirstOf(TakenBits(b, size, s))
    OBVIOUS
  <2>2. m \in Index /\ s <= m /\ m <= s + size - 2 /\ b[m] /\ m + 1 \in 0..BitSize /\ s < 1 + m
    BY <1>3, <2>1, TakenBit
  <2>3. m + 1 > s /\ m <= s + size - 1 /\ 1 + m = m + 1
    BY <2>2, BitmapAssumption DEF Index
  <2>4. Good(b, size, m + 1, f[m + 1])
    BY <2>2, <2>3
  <2>5. Good(b, size, s, f[m + 1])
    BY <2>2, <2>3, <2>4, PassedOver
  <2>6. Round(b, size, f, s) = f[m + 1]
    BY <1>3, <2>1, <2>3 DEF Round
  <2>7. QED
    BY <2>5, <2>6
<1>4. CASE s # BitSize /\ ~b[s] /\ TakenBits(b, size, s) = {}
  <2>1. s \in Index /\ s <= s
    BY <1>4, BitmapAssumption DEF Index
  <2>2. ~Missed(b, size, s, s)
    BY BitmapAssumption DEF Missed, Index
  <2>3. \A j \in LookedAt(s, size) : j \in Index => ~b[j]
    BY <1>4 DEF TakenBits
  <2>4. Round(b, size, f, s)
          = [index |-> s, mark |-> LookedAt(s, size) \cap Index = LookedAt(s, size)]
    BY <1>4 DEF Round
  <2>5. QED
    BY <1>4, <2>1, <2>2, <2>3, <2>4 DEF Good
<1>5. QED
  BY <1>1, <1>2, <1>3, <1>4

\* bitmap_alloc_bits returns the first place where the bits it looks at are
\* free, and none only if no run is free.
LEMMA FirstFit ==
    ASSUME NEW b \in [Index -> BOOLEAN], NEW size \in Nat \ {0}
    PROVE  Good(b, size, 0, Run(b, size))
<1>1. PICK f : /\ Run(b, size) = f[0]
               /\ \A s \in 0..BitSize : f[s] = Round(b, size, f, s)
  BY RunIs
<1> DEFINE Sure(k) == \A s \in 0..BitSize : BitSize - s <= k => Good(b, size, s, f[s])
           T == {k \in Nat : Sure(k)}
<1>2. Sure(0)
  <2> SUFFICES ASSUME NEW s \in 0..BitSize, BitSize - s <= 0
               PROVE  Good(b, size, s, f[s])
    OBVIOUS
  <2>1. \A i \in 0..BitSize : ~(i > s)
    BY BitmapAssumption
  <2>2. QED
    BY <1>1, <2>1, RoundGood
<1>3. ASSUME NEW k \in Nat, Sure(k)
      PROVE  Sure(k + 1)
  <2> SUFFICES ASSUME NEW s \in 0..BitSize, BitSize - s <= k + 1
               PROVE  Good(b, size, s, f[s])
    OBVIOUS
  <2>1. ASSUME NEW i \in 0..BitSize, i > s
        PROVE  Good(b, size, i, f[i])
    <3>1. BitSize - i <= k
      BY <2>1, BitmapAssumption
    <3>2. QED
      BY <1>3, <3>1
  <2>2. QED
    BY <1>1, <2>1, RoundGood
<1>4. T = Nat
  <2>1. T \subseteq Nat /\ 0 \in T
    BY <1>2
  <2>2. \A k \in T : k + 1 \in T
    BY <1>3
  <2> HIDE DEF T
  <2>3. QED
    BY <2>1, <2>2, AllNumbers
<1>5. Sure(BitSize)
  BY <1>4, BitmapAssumption
<1>6. 0 \in 0..BitSize /\ BitSize - 0 <= BitSize
  BY BitmapAssumption
<1>7. Good(b, size, 0, f[0])
  BY <1>5, <1>6
<1>8. QED
  BY <1>1, <1>7
------------------------------------------------------------------------------
(* What the runs check.                                                    *)

\* What an allocation returns, in the state it is called in.
LEMMA Allocation ==
    ASSUME BitsTypeOK, NEW size \in RunSizes, AllocBits(size)
    PROVE  /\ last' = [call |-> "alloc", size |-> size, index |-> last'.index]
           /\ \/ /\ last'.index = -1 /\ bits' = bits
                 /\ ~Missed(bits, size, 0, BitSize)
              \/ \E i \in Index :
                    /\ last'.index = i /\ ~bits[i] /\ ~Missed(bits, size, 0, i)
                    /\ \A j \in LookedAt(i, size) : j \in Index => ~bits[j]
                    /\ bits' = IF LookedAt(i, size) \cap Index = LookedAt(i, size)
                               THEN SetBits(bits, i, size, TRUE) ELSE bits
<1>1. bits \in [Index -> BOOLEAN] /\ size \in Nat \ {0}
  BY BitmapAssumption DEF BitsTypeOK
<1>2. PICK r : r = Run(bits, size)
  OBVIOUS
<1>3. Good(bits, size, 0, r)
  BY <1>1, <1>2, FirstFit
<1>4. /\ bits' = IF r.mark THEN SetBits(bits, r.index, size, TRUE) ELSE bits
      /\ last' = [call |-> "alloc", size |-> size, index |-> r.index]
  BY <1>2 DEF AllocBits
<1>5. CASE r = [index |-> NotFound, mark |-> FALSE] /\ ~Missed(bits, size, 0, BitSize)
  BY <1>4, <1>5 DEF NotFound
<1>6. ASSUME NEW i \in Index,
             ~bits[i] /\ ~Missed(bits, size, 0, i),
             \A j \in LookedAt(i, size) : j \in Index => ~bits[j],
             r = [index |-> i, mark |-> LookedAt(i, size) \cap Index = LookedAt(i, size)]
      PROVE  /\ last'.index = i
             /\ bits' = IF LookedAt(i, size) \cap Index = LookedAt(i, size)
                        THEN SetBits(bits, i, size, TRUE) ELSE bits
  BY <1>4, <1>6
<1>7. last' = [call |-> "alloc", size |-> size, index |-> last'.index]
  BY <1>4
<1>8. QED
  BY <1>3, <1>5, <1>6, <1>7 DEF Good

\* A step that allocates n bits is a call with that size.
LEMMA WhichCall ==
    ASSUME BitsNext, NEW n, Allocates(n)
    PROVE  n \in RunSizes /\ AllocBits(n)
<1>1. ASSUME NEW size \in RunSizes, AllocBits(size)
      PROVE  size = n
  <2>1. \E i : last' = [call |-> "alloc", size |-> size, index |-> i]
    BY <1>1 DEF AllocBits
  <2>2. QED
    BY <2>1 DEF Allocates
<1>2. ASSUME NEW index \in Index, NEW size \in RunSizes, FreeBits(index, size)
      PROVE  FALSE
  BY <1>2 DEF FreeBits, Allocates
<1>3. QED
  BY <1>1, <1>2 DEF BitsNext

\* Bits stay bits, and an allocation returns a bit of the map or nothing.
THEOREM BitsTypeCorrect == BitsSpec => []BitsTypeOK
<1>1. BitsInit => BitsTypeOK
  BY BitmapAssumption DEF BitsInit, BitsTypeOK
<1>2. BitsTypeOK /\ [BitsNext]_bitVars => BitsTypeOK'
  <2> SUFFICES ASSUME BitsTypeOK, [BitsNext]_bitVars PROVE BitsTypeOK'
    OBVIOUS
  <2>1. bits \in [Index -> BOOLEAN] /\ RunSizes \subseteq Nat
    BY BitmapAssumption DEF BitsTypeOK
  <2>2. \A i, n, v : v \in BOOLEAN => SetBits(bits, i, n, v) \in [Index -> BOOLEAN]
    BY <2>1 DEF SetBits
  <2>3. ASSUME NEW size \in RunSizes, AllocBits(size)
        PROVE  BitsTypeOK'
    <3>1. bits' \in [Index -> BOOLEAN] /\ last'.index \in Index \cup {-1}
      <4>1. CASE last'.index = -1 /\ bits' = bits
        BY <2>1, <4>1
      <4>2. ASSUME NEW i \in Index, last'.index = i,
                   bits' = IF LookedAt(i, size) \cap Index = LookedAt(i, size)
                           THEN SetBits(bits, i, size, TRUE) ELSE bits
            PROVE  bits' \in [Index -> BOOLEAN] /\ last'.index \in Index
        BY <2>1, <2>2, <4>2
      <4>3. QED
        BY <2>3, <4>1, <4>2, Allocation
    <3>2. last' = [call |-> "alloc", size |-> size, index |-> last'.index]
      BY <2>3, Allocation
    <3>3. QED
      BY <2>1, <3>1, <3>2 DEF BitsTypeOK
  <2>4. ASSUME NEW index \in Index, NEW size \in RunSizes, FreeBits(index, size)
        PROVE  BitsTypeOK'
    BY <2>1, <2>2, <2>4 DEF FreeBits, BitsTypeOK
  <2>5. CASE UNCHANGED bitVars
    BY <2>5 DEF bitVars, BitsTypeOK
  <2>6. QED
    BY <2>3, <2>4, <2>5 DEF BitsNext
<1>3. QED
  BY <1>1, <1>2, PTL DEF BitsSpec

\* A page asked for by itself is the lowest free one, and nothing else changes;
\* there is none only when all are taken.
THEOREM PageIsFirstFit == BitsSpec => OnePageIsFirstFit
<1> DEFINE A == Allocates(1) =>
          IF \A i \in Index : bits[i]
          THEN last'.index = -1 /\ bits' = bits
          ELSE LET r == last'.index
               IN  /\ ~bits[r] /\ \A i \in 0..r-1 : bits[i]
                   /\ bits' = [bits EXCEPT ![r] = TRUE]
<1>1. BitsTypeOK /\ [BitsNext]_bitVars => [A]_bitVars
  <2> SUFFICES ASSUME BitsTypeOK, BitsNext, Allocates(1)
               PROVE  A
    OBVIOUS
  <2>1. AllocBits(1) /\ 1 \in RunSizes
    BY WhichCall
  <2>2. bits \in [Index -> BOOLEAN]
    BY DEF BitsTypeOK
  <2>3. \A i \in Index : LookedAt(i, 1) = {} /\ i..i+1-1 = {i} /\ i \in Int /\ i >= 0 /\ i < BitSize
    BY BitmapAssumption DEF Index, LookedAt
  <2>4. \A i \in Index : Free(bits, i, 1) <=> ~bits[i]
    BY <2>3 DEF Free
  <2>5. CASE last'.index = -1 /\ bits' = bits /\ ~Missed(bits, 1, 0, BitSize)
    <3>1. \A i \in Index : bits[i]
      BY <2>3, <2>4, <2>5 DEF Missed
    <3>2. QED
      BY <2>5, <3>1
  <2>6. ASSUME NEW i \in Index, last'.index = i, ~bits[i], ~Missed(bits, 1, 0, i),
               bits' = IF LookedAt(i, 1) \cap Index = LookedAt(i, 1)
                       THEN SetBits(bits, i, 1, TRUE) ELSE bits
        PROVE  A
    <3>1. bits' = SetBits(bits, i, 1, TRUE)
      <4>1. LookedAt(i, 1) \cap Index = LookedAt(i, 1)
        BY <2>3
      <4>2. QED
        BY <2>6, <4>1
    <3>2. bits' = [bits EXCEPT ![i] = TRUE]
      BY <2>2, <2>3, <3>1 DEF SetBits
    <3>3. ASSUME NEW j \in 0..i-1
          PROVE  bits[j]
      <4>1. j \in Index /\ 0 <= j /\ j < i
        BY <2>3, BitmapAssumption DEF Index
      <4>2. QED
        BY <2>4, <2>6, <4>1 DEF Missed
    <3>4. QED
      BY <2>6, <3>2, <3>3
  <2>7. QED
    BY <2>1, <2>5, <2>6, Allocation
<1>2. QED
  BY <1>1, BitsTypeCorrect, PTL DEF BitsSpec, OnePageIsFirstFit

\* Of a longer run, all bits but the last were free unless the map ends first,
\* and a run that is there is never missed.
THEOREM RunsAreFound == BitsSpec => OnlyTheEndIsUnchecked
<1> DEFINE A == \A n \in RunSizes : n > 1 /\ Allocates(n) =>
          IF last'.index = -1
          THEN \A i \in Index : ~Free(bits, i, n)
          ELSE \A i \in last'.index..last'.index+n-2 : i \in Index => ~bits[i]
<1>1. BitsTypeOK /\ [BitsNext]_bitVars => [A]_bitVars
  <2> SUFFICES ASSUME BitsTypeOK, BitsNext, NEW n \in RunSizes, Allocates(n)
               PROVE  IF last'.index = -1
                      THEN \A i \in Index : ~Free(bits, i, n)
                      ELSE \A i \in last'.index..last'.index+n-2 : i \in Index => ~bits[i]
    OBVIOUS
  <2>1. AllocBits(n)
    BY WhichCall
  <2>2. \A i \in Index : i \in Int /\ i >= 0 /\ i < BitSize
    BY BitmapAssumption DEF Index
  <2>3. CASE last'.index = -1 /\ ~Missed(bits, n, 0, BitSize)
    BY <2>2, <2>3 DEF Missed
  <2>4. ASSUME NEW i \in Index, last'.index = i,
               \A j \in LookedAt(i, n) : j \in Index => ~bits[j]
        PROVE  last'.index # -1 /\ \A j \in i..i+n-2 : j \in Index => ~bits[j]
    BY <2>2, <2>4 DEF LookedAt
  <2>5. QED
    BY <2>1, <2>3, <2>4, Allocation
<1>2. QED
  BY <1>1, BitsTypeCorrect, PTL DEF BitsSpec, OnlyTheEndIsUnchecked

------------------------------------------------------------------------------
(* Memory and the bitmap.                                                  *)

\* The bits for a set of marked pages.
Marks(u) == [i \in Index |-> i + 1 \in u]

\* Lowest, which Memory takes a page with, is what bitmap_alloc_bits finds in the
\* bitmap of the marked pages: that call marks the page and no other, and it
\* finds nothing if and only if all are marked (memory32.c memory32_alloc_page).
THEOREM LowestIsAllocated ==
    ASSUME TypeInv, BitSize = NPages, bits = Marks(used), AllocBits(1)
    PROVE  IF used = Pages
           THEN last'.index = NotFound /\ bits' = Marks(used)
           ELSE last'.index = Lowest - 1 /\ bits' = Marks(used \cup {Lowest})
<1>1. /\ used \subseteq Pages
      /\ \A i \in Index : i + 1 \in Pages
      /\ \A q \in Pages : q - 1 \in Index /\ q - 1 + 1 = q
  <2>1. used \subseteq Pages
    BY DEF TypeInv
  <2>2. NPages \in Nat /\ Index = 0..NPages-1 /\ Pages = 1..NPages
    BY MemoryAssumption DEF Index, Pages
  <2>3. QED
    BY <2>1, <2>2
<1>2. bits \in [Index -> BOOLEAN] /\ \A i \in Index : bits[i] <=> i + 1 \in used
  <2>1. bits = [i \in Index |-> i + 1 \in used]
    BY DEF Marks
  <2>2. \A i \in Index : (i + 1 \in used) \in BOOLEAN
    OBVIOUS
  <2>3. bits \in [Index -> BOOLEAN]
    BY <2>1, <2>2
  <2>4. \A i \in Index : bits[i] = (i + 1 \in used)
    BY <2>1
  <2>5. QED
    BY <2>3, <2>4
<1>3. \A i \in Index : LookedAt(i, 1) = {} /\ i..i+1-1 = {i} /\ i \in Nat /\ i < BitSize
  BY BitmapAssumption DEF Index, LookedAt
<1>4. \A i \in Index : Free(bits, i, 1) <=> i + 1 \notin used
  BY <1>2, <1>3 DEF Free
<1>5. PICK r : r = Run(bits, 1)
  OBVIOUS
<1>6. Good(bits, 1, 0, r)
  BY <1>2, <1>5, FirstFit
<1>7. /\ bits' = IF r.mark THEN SetBits(bits, r.index, 1, TRUE) ELSE bits
      /\ last'.index = r.index
  BY <1>5 DEF AllocBits
<1>8. CASE r = [index |-> NotFound, mark |-> FALSE] /\ ~Missed(bits, 1, 0, BitSize)
  <2>1. \A i \in Index : i + 1 \in used
    BY <1>3, <1>4, <1>8 DEF Missed
  <2>2. used = Pages
    BY <1>1, <2>1
  <2>3. last'.index = NotFound /\ bits' = bits
    BY <1>7, <1>8
  <2>4. QED
    BY <2>2, <2>3
<1>9. ASSUME NEW i \in Index, ~bits[i], ~Missed(bits, 1, 0, i),
             r = [index |-> i, mark |-> LookedAt(i, 1) \cap Index = LookedAt(i, 1)]
      PROVE  used # Pages /\ last'.index = Lowest - 1 /\ bits' = Marks(used \cup {Lowest})
  <2>1. PICK p : p = i + 1
    OBVIOUS
  <2>2. p \in Pages \ used /\ p - 1 = i
    BY <1>1, <1>2, <1>3, <1>9, <2>1
  <2>3. \A q \in Pages \ used : p <= q
    <3>1. SUFFICES ASSUME NEW q \in Pages \ used, q < p PROVE FALSE
      BY <2>2, MemoryAssumption DEF Pages
    <3>2. q - 1 \in Index /\ q - 1 + 1 = q /\ 0 <= q - 1 /\ q - 1 < i
      BY <1>1, <2>2, <3>1, MemoryAssumption DEF Pages
    <3>3. QED
      BY <1>4, <1>9, <3>1, <3>2 DEF Missed
  <2>4. Lowest = p
    <3>1. Pages \ used \subseteq Nat
      BY MemoryAssumption DEF Pages
    <3>2. Lowest \in Pages \ used /\ Lowest <= p
      BY <2>2, <3>1, MinIsLeast DEF Lowest
    <3>3. QED
      BY <2>2, <2>3, <3>1, <3>2
  <2>5. bits' = SetBits(bits, i, 1, TRUE)
    <3>1. r.mark = TRUE /\ r.index = i
      BY <1>3, <1>9
    <3>2. QED
      BY <1>7, <3>1
  <2>6. bits' = Marks(used \cup {p})
    <3>1. bits' = [j \in Index |-> IF j \in i..i+1-1 THEN TRUE ELSE bits[j]]
      BY <2>5 DEF SetBits
    <3>2. ASSUME NEW j \in Index
          PROVE  bits'[j] = (j + 1 \in used \cup {p})
      <4>1. j = i => j + 1 = p
        BY <2>1
      <4>2. j # i => j + 1 # p
        BY <1>3, <2>1
      <4>3. j \in i..i+1-1 <=> j = i
        BY <1>3
      <4>4. bits[j] = (j + 1 \in used)
        BY DEF Marks
      <4>5. bits'[j] = IF j = i THEN TRUE ELSE (j + 1 \in used)
        BY <3>1, <4>3, <4>4
      <4>6. CASE j = i
        <5>1. j + 1 \in used \cup {p} /\ bits'[j] = TRUE
          BY <4>1, <4>5, <4>6
        <5>2. QED
          BY <5>1
      <4>7. CASE j # i
        <5>1. j + 1 \in used \cup {p} <=> j + 1 \in used
          BY <4>2, <4>7
        <5>2. bits'[j] = (j + 1 \in used)
          BY <4>5, <4>7
        <5>3. QED
          BY <5>1, <5>2
      <4>8. QED
        BY <4>6, <4>7
    <3>3. QED
      BY <3>1, <3>2 DEF Marks
  <2>7. QED
    BY <1>7, <1>9, <2>2, <2>4, <2>6
<1>10. QED
  BY <1>6, <1>7, <1>8, <1>9 DEF Good

==============================================================================
