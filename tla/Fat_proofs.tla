------------------------------- MODULE Fat_proofs -------------------------------
(***************************************************************************)
(* Proofs about Fat, for any number of tasks, clusters, entries and calls, *)
(* any size of a sector and any sizes and offsets asked for.               *)
(***************************************************************************)
EXTENDS Fat, FiniteSetTheorems, SequenceTheorems, WellFoundedInduction, TLAPS

Fats == [Clusters -> 0..Media]
Listings == [1..NEnt -> Entries]
Sectors == {NoSector, FatSector} \cup DirSectors
Buffers == [of : Sectors, fat : Fats \cup {<<>>}, dir : {NoDir} \cup Listings]
Ops == {"none", "openr", "openw", "mkdir", "rmdir", "remove", "list", "write", "read"}
Locs == [op : Ops, path : Seq(Names), size : Nat, left : Nat, sec : Clusters,
         idx : 1..(NEnt + 1), clu : Clusters, fat : Fats \cup {<<>>},
         dir : {NoDir} \cup Listings, missed : BOOLEAN]

\* A cluster is free, ends a chain or is linked to the next one.
Ahead(f) == \A c \in Data : f[c] \in {0, Eoc, c + 1}

BufferOK(b) ==
    /\ b \in Buffers
    /\ b.dir # NoDir => b.of \in DirSectors
    /\ b.of = FatSector => b.fat \in Fats /\ Ahead(b.fat)

TypeInv ==
    /\ fat \in Fats /\ Ahead(fat)
    /\ dirs \in [DirSectors -> {NoDir} \cup Listings]
    /\ cache \in [pcs : Sectors, buf : Buffers] /\ BufferOK(cache.buf)
    /\ file \in [Tasks -> Handles \cup {NoFile}]
    /\ pc \in [Tasks -> PCs] /\ loc \in [Tasks -> Locs]
    /\ mixed \in BOOLEAN /\ stale \in BOOLEAN /\ astray \in BOOLEAN

\* What a call at p has in its locals l, with the handle h of its task.
Searches == {"openr", "openw", "mkdir", "rmdir", "remove", "list"}
Erasing == {"rmdir", "remove"}
Writing(l, h) == l.op = "write" /\ h \in Handles /\ ~h.plain
Reading(l, h) == l.op = "read" /\ h \in Handles
Placed(l) == l.idx \in 1..NEnt
NewFile(l) == l.op = "openw" /\ l.path # <<>> /\ Placed(l) /\ l.sec \in DirSectors
                /\ l.dir \in Listings
CallOK(p, l, h) ==
    /\ p = "lookup" => l.op \in Searches /\ l.path # <<>>
    /\ p = "entry" => l.op \in Searches /\ l.path # <<>> /\ Placed(l) /\ l.sec \in DirSectors
    /\ p = "scan" => l.op \in {"openr", "openw"} /\ l.path # <<>>
    /\ p \in {"fatread", "fatwrite"} =>
          \/ l.op \in Erasing /\ Placed(l)
          \/ l.op = "mkdir" /\ l.path # <<>> /\ Placed(l)
          \/ NewFile(l)
          \/ Writing(l, h) /\ l.left > 0
    /\ p = "fatwrite" => l.fat \in Fats /\ Ahead(l.fat)
    /\ p = "dirwrite" => NewFile(l)
    /\ p = "load" => l.op = "mkdir" /\ l.path # <<>>
    /\ p = "back" => l.op \in {"mkdir", "rmdir", "remove", "write"}
    /\ p = "dots" => l.op = "mkdir"
    /\ p = "loop" => Writing(l, h) \/ Reading(l, h)
    /\ p = "data" => Writing(l, h) /\ l.left > 0
    /\ p = "size" => Writing(l, h)
    /\ p = "next" => Reading(l, h) /\ l.left > 0 /\ h.cblk \in Data
    /\ p = "list" => l.op = "list"

\* A handle that is not at the cluster its offset lies in is at none.
HandleOK(h) ==
    h # NoFile /\ h.plain /\ h.cblk \in Data => h.cblk = h.sblk + (h.offset \div Bps)
CallsOK == \A t \in Tasks : CallOK(pc[t], loc[t], file[t]) /\ HandleOK(file[t])

\* The entries a path reaches if the directories are D.
NamedAt(D, s, i) ==
    /\ D[s] # NoDir /\ i \in 1..NEnt
    /\ \A j \in 1..i : D[s][j].name # End
    /\ D[s][i].name \in Names
Leads(D, k, s) == NamedAt(D, Root, k) /\ D[Root][k].kind = "dir" /\ D[Root][k].first = s
LiveAt(D, s, i) == NamedAt(D, s, i) /\ (s = Root \/ (s \in Data /\ \E k \in 1..NEnt : Leads(D, k, s)))

\* Behind the end of a directory there is nothing.
Ended(d) == \A i, j \in 1..NEnt : i < j /\ d[i].name = End => d[j].name = End

\* The FAT f goes with the directories D.
Linked(f) == /\ f[0] # 0 /\ f[1] # 0
             /\ \A c \in Clusters \ {0} : f[c] = c + 1 => c + 1 \in Data /\ f[c + 1] # 0
Begins(f, c) == c \in Data /\ f[c] # 0 /\ f[c - 1] # c
Owned(f, D) ==
    /\ D[Root] # NoDir
    /\ \A s \in DirSectors, i \in 1..NEnt : LiveAt(D, s, i) => Begins(f, D[s][i].first)
    /\ \A s, r \in DirSectors, i, j \in 1..NEnt :
          LiveAt(D, s, i) /\ LiveAt(D, r, j) /\ D[s][i].first = D[r][j].first => s = r /\ i = j
    /\ \A s \in DirSectors : D[s] # NoDir => Ended(D[s])

\* A cluster that is allocated and that no entry names yet.
Fresh(f, D, c) ==
    /\ Begins(f, c)
    /\ \A s \in DirSectors, i \in 1..NEnt : LiveAt(D, s, i) => D[s][i].first # c

\* Two directory sectors differ at most in marks and sizes, but for entry i.
Alike(x, y) == x.name = y.name /\ x.kind = y.kind /\ x.first = y.first
AlikeBut(d, e, i) == \A j \in 1..NEnt : j # i => Alike(d[j], e[j])
Matches(d, e) == \A j \in 1..NEnt : Alike(d[j], e[j])
FirstEnd(d, i) == d[i].name = End /\ \A j \in 1..(i - 1) : d[j].name # End

\* While calls come one at a time and none has used a sector older than the
\* disk, what the disk, with the FAT f and the directories D, and the buffer b
\* are when the one call under way is at p with the locals l.
InBuffer(b, D, s) ==
    /\ b.of = s /\ s \in DirSectors /\ b.dir # NoDir /\ D[s] # NoDir
ToErase(l, D, b) ==
    /\ InBuffer(b, D, l.sec) /\ Matches(b.dir, D[l.sec]) /\ b.dir[l.idx].mark = l.sec
    /\ LiveAt(D, l.sec, l.idx) /\ l.clu = D[l.sec][l.idx].first
ToMake(l, D, b) ==
    /\ InBuffer(b, D, b.of) /\ Matches(b.dir, D[b.of])
    /\ b.dir[l.idx].name = End => FirstEnd(b.dir, l.idx) /\ b.dir[l.idx].mark = b.of
ToCreate(l, D) == l.dir = D[l.sec] /\ FirstEnd(l.dir, l.idx)
Erased(l, f, D, b) ==
    AlikeBut(b.dir, D[l.sec], l.idx) /\ Owned(f, [D EXCEPT ![l.sec] = b.dir])
Made(l, f, D, b) ==
    /\ \E i \in 1..NEnt : D[l.sec][i].name = End /\ AlikeBut(b.dir, D[l.sec], i)
    /\ l.clu \in Data
    /\ Owned(f, [D EXCEPT ![l.sec] = b.dir, ![l.clu] = NewDir(l.clu)])
AloneAt(p, l, f, D, b) ==
    /\ p \notin {"back", "dots"} \/ (p = "back" /\ l.op = "write") => Owned(f, D)
    /\ p = "entry" => LiveAt(D, l.sec, l.idx)
    /\ p \in {"fatread", "fatwrite"} =>
          /\ l.op \in Erasing => ToErase(l, D, b)
          /\ l.op = "mkdir" => ToMake(l, D, b)
          /\ l.op = "openw" => ToCreate(l, D)
    /\ p = "fatwrite" => l.fat = f
    /\ p = "dirwrite" => ToCreate(l, D) /\ Fresh(f, D, l.clu)
    /\ p = "load" => Fresh(f, D, l.clu)
    /\ p = "back" =>
          /\ InBuffer(b, D, l.sec)
          /\ l.op = "write" => Matches(b.dir, D[l.sec])
          /\ l.op \in Erasing => Erased(l, f, D, b)
          /\ l.op = "mkdir" => Made(l, f, D, b)
    /\ p = "dots" => l.clu \in Data /\ Owned(f, [D EXCEPT ![l.clu] = NewDir(l.clu)])
Alone ==
    /\ Linked(fat)
    /\ (\A t \in Tasks : pc[t] = "idle") => Owned(fat, dirs)
    /\ \A t, u \in Tasks : pc[t] # "idle" /\ pc[u] # "idle" => t = u
    /\ \A t \in Tasks : pc[t] # "idle" => AloneAt(pc[t], loc[t], fat, dirs, cache.buf)

Inv == TypeInv /\ CallsOK /\ (~mixed /\ ~stale /\ ~astray => Alone)

------------------------------------------------------------------------------
(* Numbers, entries and buffers.                                           *)

\* Sectors, clusters and the marks of the FAT.
LEMMA Numbers ==
    /\ NClus \in Nat /\ NClus > 4 /\ NEnt \in Nat /\ NEnt > 2 /\ Bps \in Nat /\ Bps > 0
    /\ Data \subseteq Clusters /\ Data \subseteq DirSectors /\ DirSectors \subseteq Clusters
    /\ Clusters \subseteq Nat /\ Clusters \subseteq 0..Media /\ 0..Media \subseteq Nat
    /\ Root \in DirSectors /\ Root \notin Data /\ 0 \in Clusters /\ 1 \in Clusters
    /\ FatSector \notin DirSectors /\ NoSector \notin DirSectors /\ NoSector # FatSector
    /\ 0 \notin Data /\ 1 \notin Data /\ Eoc \in 0..Media /\ Media \in 0..Media /\ Eoc # 0
    /\ \A c \in Clusters : c < Eoc /\ c + 1 < Eoc /\ (c \in Data <=> c # 0 /\ c # 1)
    /\ DirSectors = Clusters \ {0} /\ Sectors = {NoSector} \cup Clusters
BY FatAssumption DEF Clusters, Data, DirSectors, Root, FatSector, NoSector, Eoc, Media, Sectors

\* A set of numbers that is not empty has a least one.
LEMMA MinIsLeast ==
    ASSUME NEW T, T \subseteq Nat, T # {}
    PROVE  Min(T) \in T /\ \A y \in T : Min(T) <= y
<1>1. \E x \in T : \A y \in T : ~ (<<y, x>> \in OpToRel(<, Nat))
  BY NatLessThanWellFounded, WFMin
<1>2. PICK x \in T : \A y \in T : ~ (<<y, x>> \in OpToRel(<, Nat))
  BY <1>1
<1>3. \A y \in T : ~(y < x)
  BY <1>2 DEF OpToRel
<1>4. x \in T /\ \A y \in T : x <= y
  BY <1>3
<1>5. QED
  BY <1>4 DEF Min

\* A listing is not the absence of one, and its entries are entries.
LEMMA ListingParts ==
    ASSUME NEW d \in Listings
    PROVE  /\ d # NoDir /\ DOMAIN d = 1..NEnt
           /\ \A i \in 1..NEnt : /\ d[i] \in Entries
                                 /\ d[i].name \in Names \cup {".", "..", Free, End}
                                 /\ d[i].kind \in {"file", "dir"} /\ d[i].first \in Clusters
                                 /\ d[i].size \in Nat /\ d[i].mark \in {NoSector} \cup DirSectors
<1>1. DOMAIN d = 1..NEnt
  BY DEF Listings
<1>2. 1 \in 1..NEnt
  BY Numbers
<1>3. d # NoDir
  <2>1. DOMAIN NoDir = {}
    BY DEF NoDir
  <2>2. QED
    BY <1>1, <1>2, <2>1
<1>4. \A i \in 1..NEnt : d[i] \in Entries
  BY DEF Listings
<1>5. QED
  BY <1>1, <1>3, <1>4 DEF Entries

\* No name is a mark of the directory.
LEMMA NamesApart ==
    ASSUME NEW n \in Names
    PROVE  n # End /\ n # Free /\ n # "." /\ n # ".."
BY FatAssumption DEF End, Free

\* The place of the first entry that has never been used.
LEMMA FirstEndIs ==
    ASSUME NEW d \in Listings, Ends(d) # {}, NEW i, i = Min(Ends(d))
    PROVE  i \in 1..NEnt /\ FirstEnd(d, i)
<1>1. Ends(d) \subseteq Nat /\ \A j : j \in Ends(d) <=> j \in 1..NEnt /\ d[j].name = End
  BY Numbers DEF Ends
<1>2. i \in Ends(d) /\ \A j \in Ends(d) : i <= j
  BY <1>1, MinIsLeast
<1>3. ASSUME NEW j \in 1..(i - 1)
      PROVE  d[j].name # End
  <2>1. j \in 1..NEnt /\ ~(i <= j)
    BY <1>1, <1>2, Numbers
  <2>2. QED
    BY <1>1, <1>2, <2>1
<1>4. QED
  BY <1>1, <1>2, <1>3 DEF FirstEnd

\* The place of the entry a search finds.
LEMMA FoundIs ==
    ASSUME NEW d \in Listings, NEW n, NEW kinds, Find(d, n, kinds) # {}, NEW i,
           i = Min(Find(d, n, kinds))
    PROVE  /\ i \in 1..NEnt /\ d[i].name = n /\ d[i].kind \in kinds
           /\ \A j \in 1..i : d[j].name # End
<1>1. /\ Find(d, n, kinds) \subseteq Nat
      /\ \A j \in Find(d, n, kinds) : /\ j \in 1..NEnt /\ d[j].name = n /\ d[j].kind \in kinds
                                      /\ \A k \in 1..j : d[k].name # End
  BY Numbers DEF Find, Visible
<1>2. i \in Find(d, n, kinds)
  BY <1>1, MinIsLeast
<1>3. QED
  BY <1>1, <1>2

\* The parts of the buffer.
LEMMA CacheParts ==
    ASSUME NEW c \in [pcs : Sectors, buf : Buffers]
    PROVE  /\ c.pcs \in Sectors /\ c.buf \in Buffers
           /\ c.buf.of \in Sectors /\ c.buf.fat \in Fats \cup {<<>>}
           /\ c.buf.dir \in {NoDir} \cup Listings
BY DEF Buffers

\* A step of a call looks at the sector it wants, or at what it takes for it.
LEMMA LoadedOK ==
    ASSUME TypeInv, NEW t, NEW s \in {FatSector} \cup DirSectors, NEW c, c = Loaded(t, s)
    PROVE  c \in [pcs : Sectors, buf : Buffers] /\ BufferOK(c.buf)
<1>1. CASE cache.pcs = s /\ ~loc[t].missed
  BY <1>1 DEF TypeInv, Loaded
<1>2. CASE ~(cache.pcs = s /\ ~loc[t].missed)
  <2>1. c = [pcs |-> s, buf |-> Image(s)] /\ s \in Sectors
    BY <1>2 DEF Loaded, Sectors
  <2>2. CASE s = FatSector
    <3>1. Image(s) = [of |-> s, fat |-> fat, dir |-> NoDir]
      BY <2>2 DEF Image
    <3>2. QED
      BY <2>1, <2>2, <3>1 DEF TypeInv, Buffers, BufferOK
  <2>3. CASE s # FatSector
    <3>1. Image(s) = [of |-> s, fat |-> <<>>, dir |-> dirs[s]] /\ s \in DirSectors
      BY <2>3 DEF Image
    <3>2. dirs[s] \in {NoDir} \cup Listings
      BY <3>1 DEF TypeInv
    <3>3. QED
      BY <2>1, <2>3, <3>1, <3>2 DEF Buffers, BufferOK
  <2>4. QED
    BY <2>2, <2>3
<1>3. QED
  BY <1>1, <1>2

\* An entry is changed in the buffer.
LEMMA EditedOK ==
    ASSUME NEW c \in [pcs : Sectors, buf : Buffers], BufferOK(c.buf), c.buf.dir # NoDir,
           NEW i \in 1..NEnt, NEW e \in Entries, NEW n, n = Edited(c, i, e)
    PROVE  /\ n \in [pcs : Sectors, buf : Buffers] /\ BufferOK(n.buf)
           /\ n.buf.of = c.buf.of /\ n.buf.of \in DirSectors
           /\ n.buf.dir \in Listings /\ n.buf.dir # NoDir
           /\ n.buf.dir[i] = e /\ \A j \in 1..NEnt : j # i => n.buf.dir[j] = c.buf.dir[j]
<1>1. /\ c.buf.of \in DirSectors /\ c.buf.fat \in Fats \cup {<<>>} /\ c.buf.dir \in Listings
      /\ c.buf.of \in Sectors
  BY CacheParts DEF BufferOK
<1>2. PICK d \in Listings : d = [c.buf.dir EXCEPT ![i] = e]
  <2>1. [c.buf.dir EXCEPT ![i] = e] \in Listings
    BY <1>1 DEF Listings
  <2>2. QED
    BY <2>1
<1>3. d[i] = e /\ \A j \in 1..NEnt : j # i => d[j] = c.buf.dir[j]
  BY <1>1, <1>2 DEF Listings
<1>4. PICK b : b = [c.buf EXCEPT !.dir = d]
  OBVIOUS
<1>5. n = [c EXCEPT !.buf = b]
  BY <1>2, <1>4 DEF Edited
<1>6. b \in Buffers /\ b.of = c.buf.of /\ b.dir = d
  BY <1>1, <1>4, CacheParts DEF Buffers
<1>7. n.buf = b /\ n \in [pcs : Sectors, buf : Buffers]
  BY <1>5, <1>6
<1>8. d # NoDir /\ b.of # FatSector
  BY <1>1, <1>6, ListingParts, Numbers
<1>9. QED
  BY <1>1, <1>3, <1>6, <1>7, <1>8 DEF BufferOK

\* An entry is marked in the buffer with the number of its sector.
LEMMA MarkedOK ==
    ASSUME NEW c \in [pcs : Sectors, buf : Buffers], BufferOK(c.buf), c.buf.dir # NoDir,
           NEW i \in 1..NEnt, NEW n, n = Marked(c, i)
    PROVE  /\ n \in [pcs : Sectors, buf : Buffers] /\ BufferOK(n.buf)
           /\ n.buf.of = c.buf.of /\ n.buf.of \in DirSectors
           /\ n.buf.dir \in Listings /\ n.buf.dir # NoDir
           /\ Matches(n.buf.dir, c.buf.dir) /\ n.buf.dir[i].mark = c.buf.of
<1>1. c.buf.of \in DirSectors /\ c.buf.dir \in Listings
  BY CacheParts DEF BufferOK
<1>2. PICK e : e = [c.buf.dir[i] EXCEPT !.mark = c.buf.of]
  OBVIOUS
<1>3. c.buf.dir[i] \in Entries
  BY <1>1, ListingParts
<1>4. e \in Entries /\ e.mark = c.buf.of /\ Alike(e, c.buf.dir[i])
  BY <1>1, <1>2, <1>3 DEF Entries, Alike
<1>5. n = Edited(c, i, e)
  BY <1>2 DEF Marked, Edited
<1>6. \A x : Alike(x, x)
  BY DEF Alike
<1>7. QED
  BY <1>1, <1>4, <1>5, <1>6, EditedOK DEF Matches

------------------------------------------------------------------------------
(* How a step leaves the calls.                                            *)

\* The parts of a call's locals.
LEMMA LocsParts ==
    ASSUME NEW l \in Locs
    PROVE  /\ l.op \in Ops /\ l.path \in Seq(Names) /\ l.size \in Nat /\ l.left \in Nat
           /\ l.sec \in Clusters /\ l.idx \in 1..(NEnt + 1) /\ l.clu \in Clusters
           /\ l.fat \in Fats \cup {<<>>} /\ l.dir \in {NoDir} \cup Listings
           /\ l.missed \in BOOLEAN
BY DEF Locs

\* The parts of a handle.
LEMMA HandleParts ==
    ASSUME NEW h \in Handles
    PROVE  /\ h.sec \in DirSectors /\ h.idx \in 1..NEnt /\ h.sblk \in Clusters
           /\ h.cblk \in Nat /\ h.offset \in Nat /\ h.size \in Nat
           /\ h.writes \in BOOLEAN /\ h.plain \in BOOLEAN
BY DEF Handles

\* What is known of a task.
LEMMA TaskParts ==
    ASSUME TypeInv, CallsOK, NEW t \in Tasks
    PROVE  /\ loc[t] \in Locs /\ pc[t] \in PCs /\ file[t] \in Handles \cup {NoFile}
           /\ CallOK(pc[t], loc[t], file[t]) /\ HandleOK(file[t])
           /\ loc = [loc EXCEPT ![t] = loc[t]] /\ pc = [pc EXCEPT ![t] = pc[t]]
           /\ file = [file EXCEPT ![t] = file[t]]
BY DEF TypeInv, CallsOK

\* A step of a call changes its task's program counter, locals and handle, the
\* disk and the buffer, and leaves the other calls alone.
LEMMA Moves ==
    ASSUME TypeInv, CallsOK, NEW t \in Tasks, NEW p \in PCs, NEW l \in Locs,
           NEW h \in Handles \cup {NoFile}, CallOK(p, l, h), HandleOK(h),
           pc' = [pc EXCEPT ![t] = p], loc' = [loc EXCEPT ![t] = l],
           file' = [file EXCEPT ![t] = h],
           fat' \in Fats, Ahead(fat'), dirs' \in [DirSectors -> {NoDir} \cup Listings],
           cache' \in [pcs : Sectors, buf : Buffers], BufferOK(cache'.buf),
           mixed' \in BOOLEAN, stale' \in BOOLEAN, astray' \in BOOLEAN
    PROVE  TypeInv' /\ CallsOK'
<1>1. /\ pc' \in [Tasks -> PCs] /\ loc' \in [Tasks -> Locs]
      /\ file' \in [Tasks -> Handles \cup {NoFile}]
  BY DEF TypeInv
<1>2. ASSUME NEW u \in Tasks
      PROVE  CallOK(pc'[u], loc'[u], file'[u]) /\ HandleOK(file'[u])
  <2>1. CASE u = t
    <3>1. pc'[u] = p /\ loc'[u] = l /\ file'[u] = h
      BY <2>1 DEF TypeInv
    <3>2. QED
      BY <3>1
  <2>2. CASE u # t
    <3>1. pc'[u] = pc[u] /\ loc'[u] = loc[u] /\ file'[u] = file[u]
      BY <2>2 DEF TypeInv
    <3>2. QED
      BY <3>1 DEF CallsOK
  <2>3. QED
    BY <2>1, <2>2
<1>3. TypeInv'
  BY <1>1 DEF TypeInv
<1>4. CallsOK'
  BY <1>2 DEF CallsOK
<1>5. QED
  BY <1>3, <1>4

\* A call that is over.
LEMMA OverOK ==
    ASSUME NEW h \in Handles \cup {NoFile}
    PROVE  Loc0 \in Locs /\ "idle" \in PCs /\ CallOK("idle", Loc0, h)
<1>1. <<>> \in Seq(Names) /\ Root \in Clusters /\ 1 \in 1..(NEnt + 1) /\ 0 \in Clusters
  BY Numbers
<1>2. Loc0 \in Locs
  BY <1>1 DEF Loc0, Locs, Ops
<1>3. QED
  BY <1>2 DEF CallOK, PCs

\* A step in which the code goes astray leaves its call where it is.
LEMMA Strays ==
    ASSUME TypeInv, CallsOK, NEW t \in Tasks, Stray, file' = file,
           fat' \in Fats, Ahead(fat'), dirs' \in [DirSectors -> {NoDir} \cup Listings],
           cache' \in [pcs : Sectors, buf : Buffers], BufferOK(cache'.buf),
           mixed' \in BOOLEAN, stale' \in BOOLEAN
    PROVE  TypeInv' /\ CallsOK'
<1>1. pc' = pc /\ loc' = loc /\ astray' = TRUE
  BY DEF Stray
<1>2. QED
  BY <1>1, TaskParts, Moves

\* So does one that ends the call.
LEMMA Finishes ==
    ASSUME TypeInv, CallsOK, NEW t \in Tasks, Finish(t), NEW h \in Handles \cup {NoFile},
           HandleOK(h), file' = [file EXCEPT ![t] = h],
           fat' \in Fats, Ahead(fat'), dirs' \in [DirSectors -> {NoDir} \cup Listings],
           cache' \in [pcs : Sectors, buf : Buffers], BufferOK(cache'.buf),
           mixed' \in BOOLEAN, stale' \in BOOLEAN
    PROVE  TypeInv' /\ CallsOK'
<1>1. /\ pc' = [pc EXCEPT ![t] = "idle"] /\ loc' = [loc EXCEPT ![t] = Loc0]
      /\ astray' = astray /\ astray \in BOOLEAN
  BY DEF Finish, Goto, TypeInv
<1>2. Loc0 \in Locs /\ "idle" \in PCs /\ CallOK("idle", Loc0, h)
  BY OverOK
<1>3. QED
  BY <1>1, <1>2, Moves

\* And one that goes on with other locals.
LEMMA GoesOn ==
    ASSUME TypeInv, CallsOK, NEW t \in Tasks, NEW p \in PCs, Goto(t, p), NEW l \in Locs,
           loc' = [loc EXCEPT ![t] = l], NEW h \in Handles \cup {NoFile},
           CallOK(p, l, h), HandleOK(h), file' = [file EXCEPT ![t] = h],
           fat' \in Fats, Ahead(fat'), dirs' \in [DirSectors -> {NoDir} \cup Listings],
           cache' \in [pcs : Sectors, buf : Buffers], BufferOK(cache'.buf),
           mixed' \in BOOLEAN, stale' \in BOOLEAN
    PROVE  TypeInv' /\ CallsOK'
<1>1. pc' = [pc EXCEPT ![t] = p] /\ astray' = astray /\ astray \in BOOLEAN
  BY DEF Goto, TypeInv
<1>2. QED
  BY <1>1, Moves

\* What a step leaves alone keeps its type.
LEMMA StillTyped ==
    ASSUME TypeInv
    PROVE  /\ fat \in Fats /\ Ahead(fat) /\ dirs \in [DirSectors -> {NoDir} \cup Listings]
           /\ cache \in [pcs : Sectors, buf : Buffers] /\ BufferOK(cache.buf)
           /\ mixed \in BOOLEAN /\ stale \in BOOLEAN /\ astray \in BOOLEAN
           /\ \A t, s : Looked(t, s) => stale' \in BOOLEAN
BY DEF TypeInv, Looked

------------------------------------------------------------------------------
(* Every step keeps the types, what a call has in its locals, and readers in *)
(* their places: the calls begin.                                            *)

\* A path has a first and a last name.
LEMMA PathParts ==
    ASSUME NEW p \in Paths \cup {<<d>> : d \in Names}
    PROVE  p \in Seq(Names) /\ p # <<>>
<1>1. ASSUME NEW n \in Names
      PROVE  <<n>> \in Seq(Names) /\ <<n>> # <<>>
  <2>1. Len(<<n>>) = 1 /\ Len(<<>>) = 0
    OBVIOUS
  <2>2. QED
    BY <2>1
<1>2. ASSUME NEW d \in Names, NEW n \in Names
      PROVE  <<d, n>> \in Seq(Names) /\ <<d, n>> # <<>>
  <2>1. Len(<<d, n>>) = 2 /\ Len(<<>>) = 0
    OBVIOUS
  <2>2. QED
    BY <2>1
<1>3. (\E n \in Names : p = <<n>>) \/ (\E d, n \in Names : p = <<d, n>>)
  BY DEF Paths
<1>4. QED
  BY <1>1, <1>2, <1>3

\* A path that is not empty has names.
LEMMA PathNames ==
    ASSUME NEW p \in Seq(Names), p # <<>>
    PROVE  /\ p[1] \in Names /\ Len(p) \in Nat /\ Len(p) >= 1 /\ p[Len(p)] \in Names
           /\ Len(p) # 1 => p[2] \in Names
<1>1. Len(p) \in Nat /\ Len(p) # 0 /\ DOMAIN p = 1..Len(p)
  BY EmptySeq
<1>2. \A i \in 1..Len(p) : p[i] \in Names
  BY <1>1
<1>3. QED
  BY <1>1, <1>2

\* A call begins.
LEMMA CallBegins ==
    ASSUME TypeInv, CallsOK, NEW t \in Tasks, NEW p \in PCs, NEW l \in Locs, Begin(t, l, p),
           l.missed = FALSE, NEW h \in Handles \cup {NoFile},
           CallOK(p, l, h), HandleOK(h), file' = [file EXCEPT ![t] = h],
           UNCHANGED <<disk, cache, stale>>
    PROVE  TypeInv' /\ CallsOK'
<1>1. [l EXCEPT !.missed = FALSE] = l
  BY DEF Locs
<1>2. Goto(t, p) /\ loc' = [loc EXCEPT ![t] = l] /\ mixed' \in BOOLEAN
  BY <1>1 DEF Begin, Locals, TypeInv
<1>3. QED
  BY <1>2, GoesOn, StillTyped DEF disk

\* What Begin is given is as if it had the missed of the locals cleared.
LEMMA BeginsAfresh ==
    ASSUME NEW t, NEW l \in Locs, NEW p, Begin(t, l, p)
    PROVE  \E k \in Locs : /\ k = [l EXCEPT !.missed = FALSE] /\ k.missed = FALSE
                           /\ Begin(t, k, p)
<1>1. PICK k : k = [l EXCEPT !.missed = FALSE]
  OBVIOUS
<1>2. k \in Locs /\ k.missed = FALSE /\ [k EXCEPT !.missed = FALSE] = k
  BY <1>1 DEF Locs
<1>3. Begin(t, k, p)
  BY <1>1, <1>2 DEF Begin, Locals
<1>4. QED
  BY <1>1, <1>2, <1>3

\* open, mkdir, rmdir and remove begin to search.
LEMMA CallOnPathTyped ==
    ASSUME TypeInv, CallsOK, NEW t \in Tasks, CallOnPath(t)
    PROVE  TypeInv' /\ CallsOK'
<1>1. PICK op \in {"openr", "openw", "mkdir", "rmdir", "remove"}, p \in Paths :
            Begin(t, [loc[t] EXCEPT !.op = op, !.path = p], "lookup")
  BY DEF CallOnPath
<1>2. p \in Seq(Names) /\ p # <<>> /\ op \in Ops /\ op \in Searches
  BY PathParts DEF Ops, Searches
<1>3. PICK l : l = [loc[t] EXCEPT !.op = op, !.path = p]
  OBVIOUS
<1>4. l \in Locs /\ l.op = op /\ l.path = p
  BY <1>2, <1>3, TaskParts DEF Locs
<1>5. PICK k \in Locs : k = [l EXCEPT !.missed = FALSE] /\ k.missed = FALSE /\ Begin(t, k, "lookup")
  BY <1>1, <1>3, <1>4, BeginsAfresh
<1>6. k.op = op /\ k.path = p
  BY <1>4, <1>5 DEF Locs
<1>7. CallOK("lookup", k, file[t]) /\ "lookup" \in PCs
  BY <1>2, <1>6 DEF CallOK, PCs
<1>8. UNCHANGED <<disk, cache, stale>> /\ file' = [file EXCEPT ![t] = file[t]]
  BY TaskParts DEF CallOnPath
<1>9. QED
  BY <1>5, <1>7, <1>8, CallBegins, TaskParts

\* opendir begins.
LEMMA CallOpendirTyped ==
    ASSUME TypeInv, CallsOK, NEW t \in Tasks, CallOpendir(t)
    PROVE  TypeInv' /\ CallsOK'
<1>1. UNCHANGED <<disk, cache, stale>> /\ file' = [file EXCEPT ![t] = file[t]]
  BY TaskParts DEF CallOpendir
<1>2. CASE Begin(t, [loc[t] EXCEPT !.op = "list", !.sec = Root], "list")
  <2>1. PICK l : l = [loc[t] EXCEPT !.op = "list", !.sec = Root]
    OBVIOUS
  <2>2. l \in Locs /\ l.op = "list"
    BY <2>1, TaskParts, Numbers DEF Locs, Ops
  <2>3. PICK k \in Locs : k = [l EXCEPT !.missed = FALSE] /\ k.missed = FALSE /\ Begin(t, k, "list")
    BY <1>2, <2>1, <2>2, BeginsAfresh
  <2>4. k.op = "list"
    BY <2>2, <2>3 DEF Locs
  <2>5. CallOK("list", k, file[t]) /\ "list" \in PCs
    BY <2>4 DEF CallOK, PCs
  <2>6. QED
    BY <1>1, <2>3, <2>5, CallBegins, TaskParts
<1>3. ASSUME NEW d \in Names, Begin(t, [loc[t] EXCEPT !.op = "list", !.path = <<d>>], "lookup")
      PROVE  TypeInv' /\ CallsOK'
  <2>1. PICK l : l = [loc[t] EXCEPT !.op = "list", !.path = <<d>>]
    OBVIOUS
  <2>2. <<d>> \in Seq(Names) /\ <<d>> # <<>>
    BY PathParts
  <2>3. l \in Locs /\ l.op = "list" /\ l.path = <<d>>
    BY <2>1, <2>2, TaskParts DEF Locs, Ops
  <2>4. PICK k \in Locs : k = [l EXCEPT !.missed = FALSE] /\ k.missed = FALSE /\ Begin(t, k, "lookup")
    BY <1>3, <2>1, <2>3, BeginsAfresh
  <2>5. k.op = "list" /\ k.path = <<d>>
    BY <2>3, <2>4 DEF Locs
  <2>6. CallOK("lookup", k, file[t]) /\ "lookup" \in PCs
    BY <2>2, <2>5 DEF CallOK, PCs, Searches
  <2>7. QED
    BY <1>1, <2>4, <2>6, CallBegins, TaskParts
<1>4. PICK p \in {<<>>} \cup {<<d>> : d \in Names} :
          IF p = <<>> THEN Begin(t, [loc[t] EXCEPT !.op = "list", !.sec = Root], "list")
          ELSE Begin(t, [loc[t] EXCEPT !.op = "list", !.path = p], "lookup")
  BY DEF CallOpendir
<1>5. QED
  BY <1>2, <1>3, <1>4

\* write begins, through a handle that is not a reader's from now on.
LEMMA CallWriteTyped ==
    ASSUME TypeInv, CallsOK, NEW t \in Tasks, CallWrite(t)
    PROVE  TypeInv' /\ CallsOK'
<1>1. PICK n \in Sizes : Begin(t, [loc[t] EXCEPT !.op = "write", !.size = n, !.left = n], "loop")
  BY DEF CallWrite
<1>2. n \in Nat
  BY FatAssumption
<1>3. PICK l : l = [loc[t] EXCEPT !.op = "write", !.size = n, !.left = n]
  OBVIOUS
<1>4. l \in Locs /\ l.op = "write"
  BY <1>2, <1>3, TaskParts DEF Locs, Ops
<1>5. PICK k \in Locs : k = [l EXCEPT !.missed = FALSE] /\ k.missed = FALSE /\ Begin(t, k, "loop")
  BY <1>1, <1>3, <1>4, BeginsAfresh
<1>6. k.op = "write"
  BY <1>4, <1>5 DEF Locs
<1>7. file[t] \in Handles
  BY TaskParts DEF CallWrite
<1>8. PICK h : h = [file[t] EXCEPT !.plain = FALSE]
  OBVIOUS
<1>9. h \in Handles /\ h.plain = FALSE /\ file' = [file EXCEPT ![t] = h]
  BY <1>7, <1>8 DEF Handles, CallWrite
<1>10. CallOK("loop", k, h) /\ "loop" \in PCs /\ HandleOK(h)
  BY <1>6, <1>9 DEF CallOK, PCs, Writing, HandleOK
<1>11. UNCHANGED <<disk, cache, stale>>
  BY DEF CallWrite
<1>12. QED
  BY <1>5, <1>9, <1>10, <1>11, CallBegins

\* The lesser of two numbers.
LEMMA MinOfTwo ==
    ASSUME NEW a \in Nat, NEW b \in Nat
    PROVE  Min({a, b}) \in Nat /\ Min({a, b}) <= a /\ Min({a, b}) <= b /\ Min({a, b}) \in {a, b}
BY MinIsLeast

\* read begins.
LEMMA CallReadTyped ==
    ASSUME TypeInv, CallsOK, NEW t \in Tasks, CallRead(t)
    PROVE  TypeInv' /\ CallsOK'
<1>1. file[t] \in Handles
  BY TaskParts DEF CallRead
<1>2. PICK n \in Sizes :
         Begin(t, [loc[t] EXCEPT !.op = "read", !.left = Min({n, file[t].size - file[t].offset})],
               "loop")
  BY DEF CallRead
<1>3. n \in Nat /\ file[t].size - file[t].offset \in Nat
  BY <1>1, HandleParts, FatAssumption DEF CallRead
<1>4. PICK m \in Nat : m = Min({n, file[t].size - file[t].offset})
  BY <1>3, MinOfTwo
<1>5. PICK l : l = [loc[t] EXCEPT !.op = "read", !.left = m]
  OBVIOUS
<1>6. l \in Locs /\ l.op = "read"
  BY <1>5, TaskParts DEF Locs, Ops
<1>7. PICK k \in Locs : k = [l EXCEPT !.missed = FALSE] /\ k.missed = FALSE /\ Begin(t, k, "loop")
  BY <1>2, <1>4, <1>5, <1>6, BeginsAfresh
<1>8. k.op = "read"
  BY <1>6, <1>7 DEF Locs
<1>9. CallOK("loop", k, file[t]) /\ "loop" \in PCs
  BY <1>1, <1>8 DEF CallOK, PCs, Reading
<1>10. UNCHANGED <<disk, cache, stale>> /\ file' = [file EXCEPT ![t] = file[t]]
  BY TaskParts DEF CallRead
<1>11. QED
  BY <1>7, <1>9, <1>10, CallBegins, TaskParts

------------------------------------------------------------------------------
(* lseek, and the wait for the disk.                                         *)

\* Offsets, sectors and what is left of a sector.
LEMMA Divide ==
    ASSUME NEW a \in Nat
    PROVE  /\ a \div Bps \in Nat /\ a % Bps \in 0..(Bps - 1)
           /\ a = Bps * (a \div Bps) + (a % Bps)
BY Numbers

\* A number is divided in one way.
LEMMA DivideOnce ==
    ASSUME NEW a \in Nat, NEW q \in Nat, NEW r \in 0..(Bps - 1), a = Bps * q + r
    PROVE  a \div Bps = q /\ a % Bps = r
<1>1. a \div Bps \in Nat /\ a % Bps \in 0..(Bps - 1) /\ a = Bps * (a \div Bps) + (a % Bps)
  BY Divide
<1>2. ASSUME NEW x \in Nat, NEW y \in Nat, x < y, NEW u \in 0..(Bps - 1), NEW v \in 0..(Bps - 1)
      PROVE  Bps * x + u # Bps * y + v
  <2>1. PICK d \in Nat : y = x + 1 + d
    <3>1. y - x - 1 \in Nat
      BY <1>2
    <3>2. QED
      BY <3>1
  <2>2. Bps * y = Bps * x + Bps + Bps * d
    BY <2>1, Numbers
  <2>3. Bps * d \in Nat /\ Bps * x \in Nat
    BY Numbers
  <2>4. QED
    BY <2>2, <2>3, Numbers
<1>3. a \div Bps = q
  <2>1. ~(a \div Bps < q) /\ ~(q < a \div Bps)
    BY <1>1, <1>2
  <2>2. QED
    BY <1>1, <2>1
<1>4. Bps * q \in Nat
  BY Numbers
<1>5. QED
  BY <1>1, <1>3, <1>4

\* Where SEEK_SET puts a handle.
LEMMA SeekSetOK ==
    ASSUME NEW f \in Handles, NEW o \in Nat, NEW h, h = SeekSet(f, o)
    PROVE  h \in Handles /\ h.plain = f.plain /\ HandleOK(h)
<1>1. f.sblk \in Nat /\ (o \div Bps) \in Nat
  BY HandleParts, Divide, Numbers
<1>2. PICK c \in Nat : c = f.sblk + (o \div Bps)
  <2>1. f.sblk + (o \div Bps) \in Nat
    BY <1>1
  <2>2. QED
    BY <2>1
<1>3. h = [f EXCEPT !.cblk = c, !.offset = o]
  BY <1>2 DEF SeekSet
<1>4. h \in Handles /\ h.plain = f.plain /\ h.cblk = c /\ h.sblk = f.sblk /\ h.offset = o
  BY <1>3 DEF Handles
<1>5. QED
  BY <1>2, <1>4 DEF HandleOK

\* Where SEEK_END puts a handle.
LEMMA SeekEndOK ==
    ASSUME NEW f \in Handles, NEW h, h = SeekEnd(f)
    PROVE  h \in Handles /\ h.plain = f.plain /\ HandleOK(h)
<1>1. h = SeekSet(f, f.size)
  BY DEF SeekEnd, SeekSet
<1>2. QED
  BY <1>1, SeekSetOK, HandleParts

\* How many clusters SEEK_CUR passes, and that what it takes off the offset it
\* has added before.
LEMMA Passed ==
    ASSUME NEW o \in Nat, o >= Bps
    PROVE  /\ Max({1, (o - 1) \div Bps}) \in Nat
           /\ o - Max({1, (o - 1) \div Bps}) * Bps \in Nat
<1>1. o - 1 \in Nat
  BY Numbers
<1>2. PICK a \in Nat : a = o - 1
  BY <1>1
<1>3. PICK q \in Nat, r \in 0..(Bps - 1) : q = a \div Bps /\ a = Bps * q + r
  BY Divide
<1>4. PICK m \in {1, q} : m = Max({1, q})
  <2>1. \E x \in {1, q} : \A y \in {1, q} : x >= y
    <3>1. CASE q >= 1
      BY <3>1
    <3>2. CASE ~(q >= 1)
      BY <3>2
    <3>3. QED
      BY <3>1, <3>2
  <2>2. Max({1, q}) \in {1, q}
    BY <2>1 DEF Max
  <2>3. QED
    BY <2>2
<1>5. CASE m = 1
  <2>1. m * Bps = Bps
    BY <1>5, Numbers
  <2>2. QED
    BY <1>2, <1>3, <1>4, <1>5, <2>1, Numbers
<1>6. CASE m = q
  <2>1. m * Bps = Bps * q /\ Bps * q \in Nat
    BY <1>6, Numbers
  <2>2. o - m * Bps \in Nat
    BY <1>2, <1>3, <2>1, Numbers
  <2>3. QED
    BY <1>2, <1>3, <1>4, <1>6, <2>2
<1>7. QED
  BY <1>4, <1>5, <1>6

\* Where SEEK_CUR puts a handle.
LEMMA SeekCurOK ==
    ASSUME NEW f \in Handles, f # NoFile, NEW o \in Nat, NEW h, h = SeekCur(f, o)
    PROVE  h \in Handles /\ (h.plain => f.plain) /\ (HandleOK(f) => HandleOK(h))
<1>1. PICK q \in Nat, r \in 0..(Bps - 1) :
         q = f.offset \div Bps /\ r = f.offset % Bps /\ f.offset = Bps * q + r
  <2>1. f.offset \in Nat
    BY HandleParts
  <2>2. QED
    BY <2>1, Divide
<1>2. r \in Nat /\ Bps \in Nat /\ NClus \in Nat /\ Bps > 0
  BY Numbers
<1>3. PICK p \in BOOLEAN : p = (f.plain /\ r + o < Bps)
  OBVIOUS
<1>4. f.cblk \in Nat /\ f.offset \in Nat /\ f.sblk \in Nat
  BY HandleParts, Numbers
<1>5. CASE r + o <= Bps
  <2>1. h = [f EXCEPT !.cblk = f.cblk + 0, !.offset = f.offset + o - 0 * Bps, !.plain = p]
    <3>1. (CASE r + o <= Bps -> 0
             [] r + o > Bps /\ o >= Bps -> Max({1, (o - 1) \div Bps})
             [] OTHER -> Far) = 0
      BY <1>2, <1>5
    <3>2. Far # 0
      BY Numbers DEF Far
    <3>3. QED
      BY <1>1, <1>3, <3>1, <3>2 DEF SeekCur
  <2>2. f.cblk + 0 = f.cblk /\ f.offset + o - 0 * Bps = f.offset + o /\ f.offset + o \in Nat
    BY <1>2, <1>4
  <2>3. h = [f EXCEPT !.cblk = f.cblk, !.offset = f.offset + o, !.plain = p]
    BY <2>1, <2>2
  <2>4. /\ h \in Handles /\ h.plain = p /\ h.cblk = f.cblk /\ h.sblk = f.sblk
        /\ h.offset = f.offset + o
    BY <1>4, <2>2, <2>3 DEF Handles
  <2>5. ASSUME h.plain
        PROVE  (f.offset + o) \div Bps = q
    <3>1. r + o < Bps
      BY <1>3, <2>4, <2>5
    <3>2. r + o \in 0..(Bps - 1)
      BY <1>2, <3>1
    <3>3. Bps * q \in Nat
      BY <1>2
    <3>4. f.offset + o = Bps * q + (r + o)
      BY <1>1, <1>2, <3>3
    <3>5. QED
      BY <2>2, <3>2, <3>4, DivideOnce
  <2>6. ASSUME HandleOK(f)
        PROVE  HandleOK(h)
    <3>1. SUFFICES ASSUME h # NoFile, h.plain, h.cblk \in Data
                   PROVE  h.cblk = h.sblk + (h.offset \div Bps)
      BY DEF HandleOK
    <3>2. f.plain
      BY <1>3, <2>4, <3>1
    <3>3. (f.offset + o) \div Bps = q
      BY <2>5, <3>1
    <3>4. f.cblk = f.sblk + q
      BY <1>1, <2>4, <2>6, <3>1, <3>2 DEF HandleOK
    <3>5. QED
      BY <2>4, <3>3, <3>4
  <2>7. QED
    BY <1>3, <2>4, <2>6
<1>6. CASE ~(r + o <= Bps)
  <2>1. p = FALSE
    <3>1. ~(r + o < Bps)
      BY <1>2, <1>6
    <3>2. QED
      BY <1>3, <3>1
  <2>2. PICK n \in Nat, a \in Nat : h = [f EXCEPT !.cblk = f.cblk + n, !.offset = a, !.plain = p]
    <3>1. CASE o >= Bps
      <4>1. PICK m : m = Max({1, (o - 1) \div Bps})
        OBVIOUS
      <4>2. m \in Nat /\ o - m * Bps \in Nat /\ m * Bps \in Nat
        <5>1. m \in Nat /\ o - m * Bps \in Nat
          BY <3>1, <4>1, Passed
        <5>2. QED
          BY <1>2, <5>1
      <4>3. (CASE r + o <= Bps -> 0
               [] r + o > Bps /\ o >= Bps -> Max({1, (o - 1) \div Bps})
               [] OTHER -> Far) = m
        BY <1>2, <1>6, <3>1, <4>1
      <4>4. PICK k \in Nat : k = (IF m = Far THEN 0 ELSE m * Bps)
        BY <4>2
      <4>5. f.offset + o - k \in Nat
        BY <1>4, <4>2, <4>4
      <4>6. h = [f EXCEPT !.cblk = f.cblk + m, !.offset = f.offset + o - k, !.plain = p]
        <5>1. h = [f EXCEPT !.cblk = @ + m,
                            !.offset = @ + o - (IF m = Far THEN 0 ELSE m * Bps),
                            !.plain = @ /\ r + o < Bps]
          <6>1. h = LET n == CASE r + o <= Bps -> 0
                               [] r + o > Bps /\ o >= Bps -> Max({1, (o - 1) \div Bps})
                               [] OTHER -> Far
                    IN  [f EXCEPT !.cblk = @ + n,
                                  !.offset = @ + o - (IF n = Far THEN 0 ELSE n * Bps),
                                  !.plain = @ /\ r + o < Bps]
            BY <1>1 DEF SeekCur
          <6>2. QED
            BY <4>3, <6>1, Zenon
        <5>2. QED
          BY <1>3, <4>4, <5>1
      <4>7. QED
        BY <4>2, <4>5, <4>6
    <3>2. CASE ~(o >= Bps)
      <4>1. (CASE r + o <= Bps -> 0
               [] r + o > Bps /\ o >= Bps -> Max({1, (o - 1) \div Bps})
               [] OTHER -> Far) = Far
        BY <1>2, <1>6, <3>2
      <4>2. f.offset + o - 0 \in Nat /\ Far \in Nat
        BY <1>2, <1>4 DEF Far
      <4>3. h = [f EXCEPT !.cblk = f.cblk + Far, !.offset = f.offset + o - 0, !.plain = p]
        BY <1>1, <1>3, <4>1 DEF SeekCur
      <4>4. QED
        BY <4>2, <4>3
    <3>3. QED
      BY <3>1, <3>2
  <2>3. f.cblk + n \in Nat
    BY <1>4
  <2>4. h \in Handles /\ h.plain = p
    BY <1>4, <2>2, <2>3 DEF Handles
  <2>5. QED
    BY <2>1, <2>4 DEF HandleOK
<1>7. QED
  BY <1>5, <1>6

\* lseek leaves everything but the handle alone, and moves a reader to the
\* cluster of its new offset or to none.
LEMMA SeekTyped ==
    ASSUME TypeInv, CallsOK, NEW t \in Tasks, Seek(t)
    PROVE  TypeInv' /\ CallsOK'
<1>1. pc[t] = "idle" /\ file[t] \in Handles /\ file[t] # NoFile /\ HandleOK(file[t]) /\ loc[t] \in Locs
  BY TaskParts DEF Seek
<1>2. PICK h : /\ file' = [file EXCEPT ![t] = h]
               /\ \/ \E o \in Offsets : h = SeekSet(file[t], o)
                  \/ \E o \in Offsets : h = SeekCur(file[t], o)
                  \/ h = SeekEnd(file[t])
  BY TaskParts DEF Seek
<1>3. Offsets \subseteq Nat
  BY FatAssumption
<1>4. h \in Handles /\ HandleOK(h)
  <2>1. CASE \E o \in Offsets : h = SeekSet(file[t], o)
    BY <1>1, <1>3, <2>1, SeekSetOK
  <2>2. CASE \E o \in Offsets : h = SeekCur(file[t], o)
    BY <1>1, <1>3, <2>2, SeekCurOK
  <2>3. CASE h = SeekEnd(file[t])
    BY <1>1, <2>3, SeekEndOK
  <2>4. QED
    BY <1>2, <2>1, <2>2, <2>3
<1>5. CallOK("idle", loc[t], h)
  BY DEF CallOK
<1>6. UNCHANGED <<disk, cache, pc, loc, history, astray>>
  BY DEF Seek
<1>7. QED
  BY <1>1, <1>2, <1>4, <1>5, <1>6, Moves, TaskParts, StillTyped DEF disk, history

\* A call goes to wait for the disk.
LEMMA MissTyped ==
    ASSUME TypeInv, CallsOK, NEW t \in Tasks, Miss(t)
    PROVE  TypeInv' /\ CallsOK'
<1>1. loc' = [loc EXCEPT ![t].missed = TRUE] /\ UNCHANGED <<disk, cache, file, pc, history, astray>>
  BY DEF Miss
<1>2. PICK l : l = [loc[t] EXCEPT !.missed = TRUE]
  OBVIOUS
<1>3. l \in Locs /\ loc' = [loc EXCEPT ![t] = l]
  BY <1>1, <1>2, TaskParts DEF Locs
<1>4. /\ l.op = loc[t].op /\ l.path = loc[t].path /\ l.idx = loc[t].idx /\ l.sec = loc[t].sec
      /\ l.left = loc[t].left /\ l.fat = loc[t].fat /\ l.dir = loc[t].dir
  BY <1>2, TaskParts DEF Locs
<1>5. CallOK(pc[t], l, file[t])
  BY <1>4, TaskParts DEF CallOK, NewFile, Writing, Reading, Placed
<1>6. /\ pc' = [pc EXCEPT ![t] = pc[t]] /\ file' = [file EXCEPT ![t] = file[t]]
      /\ pc[t] \in PCs /\ file[t] \in Handles \cup {NoFile} /\ HandleOK(file[t])
  BY <1>1, TaskParts
<1>7. /\ fat' \in Fats /\ Ahead(fat') /\ dirs' \in [DirSectors -> {NoDir} \cup Listings]
      /\ cache' \in [pcs : Sectors, buf : Buffers] /\ BufferOK(cache'.buf)
      /\ mixed' \in BOOLEAN /\ stale' \in BOOLEAN /\ astray' \in BOOLEAN
  BY <1>1, StillTyped DEF disk, history
<1>8. QED
  BY <1>3, <1>5, <1>6, <1>7, Moves

------------------------------------------------------------------------------
(* The searches.                                                             *)

\* A call goes on with locals in which missed is cleared.
LEMMA GoesOnAfresh ==
    ASSUME TypeInv, CallsOK, NEW t \in Tasks, NEW p \in PCs, Goto(t, p), NEW l \in Locs,
           l.missed = FALSE,
           loc' = [loc EXCEPT ![t] = l], file' = file, CallOK(p, l, file[t]),
           fat' \in Fats, Ahead(fat'), dirs' \in [DirSectors -> {NoDir} \cup Listings],
           cache' \in [pcs : Sectors, buf : Buffers], BufferOK(cache'.buf),
           mixed' \in BOOLEAN, stale' \in BOOLEAN
    PROVE  TypeInv' /\ CallsOK'
<1>1. /\ file' = [file EXCEPT ![t] = file[t]] /\ file[t] \in Handles \cup {NoFile}
      /\ HandleOK(file[t])
  BY TaskParts
<1>2. QED
  BY <1>1, GoesOn

\* The search in the root directory.
LEMMA LookupRootTyped ==
    ASSUME TypeInv, CallsOK, NEW t \in Tasks, pc[t] = "lookup", InRoot(t), LookupRoot(t),
           UNCHANGED <<disk, file, mixed>>
    PROVE  TypeInv' /\ CallsOK'
<1>1. /\ fat' \in Fats /\ Ahead(fat') /\ dirs' \in [DirSectors -> {NoDir} \cup Listings]
      /\ mixed' \in BOOLEAN /\ stale' \in BOOLEAN /\ file' = file
  BY StillTyped DEF disk, LookupRoot
<1>2. loc[t] \in Locs /\ loc[t].op \in Searches /\ loc[t].op # "list" /\ loc[t].path # <<>>
  BY TaskParts DEF CallOK, InRoot
<1>3. PICK c \in [pcs : Sectors, buf : Buffers] : c = Loaded(t, Root) /\ BufferOK(c.buf)
  BY LoadedOK, Numbers
<1>4. PICK d : d = c.buf.dir
  OBVIOUS
<1>5. d \in {NoDir} \cup Listings
  BY <1>3, <1>4, CacheParts
<1>6. PICK found : found = Find(d, loc[t].path[1], {"dir"})
  OBVIOUS
<1>7. PICK erase \in BOOLEAN : erase <=> loc[t].op \in {"rmdir", "remove"}
  OBVIOUS
<1>8. PICK i : i = Min(IF erase THEN found ELSE Ends(d))
  OBVIOUS
<1>9. PICK goesOn \in BOOLEAN :
         goesOn = (d # NoDir /\ IF erase THEN found # {} ELSE found = {} /\ Ends(d) # {})
  OBVIOUS
<1>10. /\ cache' = IF goesOn THEN Marked(c, i) ELSE c
       /\ CASE goesOn ->
                 /\ Goto(t, IF loc[t].op \in {"openr", "openw"} THEN "scan" ELSE "fatread")
                 /\ Locals(t, [loc[t] EXCEPT !.sec = Root, !.idx = i, !.clu = d[i].first])
            [] d = NoDir \/ (loc[t].op = "remove" /\ found = {}) -> Stray
            [] OTHER -> Finish(t)
  BY <1>3, <1>4, <1>6, <1>7, <1>8, <1>9 DEF LookupRoot
<1>11. CASE goesOn
  <2>1. d \in Listings /\ d # NoDir /\ i \in 1..NEnt
    <3>1. d \in Listings /\ d # NoDir
      BY <1>5, <1>9, <1>11
    <3>2. CASE erase
      <4>1. found # {} /\ i = Min(found)
        BY <1>8, <1>9, <1>11, <3>2
      <4>2. QED
        BY <1>6, <3>1, <4>1, FoundIs
    <3>3. CASE ~erase
      <4>1. Ends(d) # {} /\ i = Min(Ends(d))
        BY <1>8, <1>9, <1>11, <3>3
      <4>2. QED
        BY <3>1, <4>1, FirstEndIs
    <3>4. QED
      BY <3>2, <3>3
  <2>2. cache' = Marked(c, i)
    BY <1>10, <1>11
  <2>3. cache' \in [pcs : Sectors, buf : Buffers] /\ BufferOK(cache'.buf)
    BY <1>3, <1>4, <2>1, <2>2, MarkedOK
  <2>4. PICK p : p = (IF loc[t].op \in {"openr", "openw"} THEN "scan" ELSE "fatread")
    OBVIOUS
  <2>5. PICK k : k = [loc[t] EXCEPT !.sec = Root, !.idx = i, !.clu = d[i].first]
    OBVIOUS
  <2>6. Goto(t, p) /\ loc' = [loc EXCEPT ![t] = [k EXCEPT !.missed = FALSE]]
    <3>1. /\ Goto(t, IF loc[t].op \in {"openr", "openw"} THEN "scan" ELSE "fatread")
          /\ Locals(t, [loc[t] EXCEPT !.sec = Root, !.idx = i, !.clu = d[i].first])
      <4>1. ~(d = NoDir \/ (loc[t].op = "remove" /\ found = {}))
        BY <1>7, <1>9, <1>11
      <4>2. QED
        BY <1>10, <1>11, <4>1
    <3>2. Goto(t, p) /\ Locals(t, k)
      BY <2>4, <2>5, <3>1, Zenon
    <3>3. QED
      BY <3>2 DEF Locals
  <2>7. d[i].first \in Clusters /\ Root \in Clusters /\ i \in 1..(NEnt + 1)
    BY <2>1, ListingParts, Numbers
  <2>8. PICK l : l = [k EXCEPT !.missed = FALSE]
    OBVIOUS
  <2>9. /\ l \in Locs /\ l.op = loc[t].op /\ l.path = loc[t].path /\ l.idx = i /\ l.sec = Root
        /\ l.missed = FALSE
    BY <1>2, <2>5, <2>7, <2>8 DEF Locs
  <2>10. CallOK(p, l, file[t]) /\ p \in PCs
    BY <1>2, <2>1, <2>4, <2>9 DEF CallOK, PCs, Searches, Erasing, Placed
  <2>11. QED
    BY <1>1, <2>3, <2>6, <2>8, <2>9, <2>10, GoesOnAfresh
<1>12. CASE ~goesOn
  <2>1. cache' = c /\ (Stray \/ Finish(t))
    BY <1>10, <1>12
  <2>2. file' = [file EXCEPT ![t] = file[t]]
    BY <1>1, TaskParts
  <2>3. QED
    BY <1>1, <1>3, <2>1, <2>2, Strays, Finishes, TaskParts
<1>13. QED
  BY <1>11, <1>12

\* What a search of the disk itself finds is a sector and a place.
LEMMA ResolveOK ==
    ASSUME NEW p, NEW r, r = Resolve(p), r[1] = "found"
    PROVE  r[2] \in DirSectors /\ r[3] \in 1..NEnt
<1>1. PICK i : i = Find(dirs[Root], p[1], {"file", "dir"})
  OBVIOUS
<1>2. PICK e : e = dirs[Root][Min(i)]
  OBVIOUS
<1>3. PICK d : d = (IF e.first \in Data THEN dirs[e.first] ELSE NoDir)
  OBVIOUS
<1>4. PICK j : j = Find(d, p[2], {"file", "dir"})
  OBVIOUS
<1>5. r = CASE i = {} -> IF Ends(dirs[Root]) # {} THEN <<"none">> ELSE <<"astray">>
            [] i # {} /\ (e.kind = "file" \/ Len(p) = 1) -> <<"found", Root, Min(i)>>
            [] OTHER -> IF d = NoDir THEN <<"astray">>
                        ELSE IF j # {} THEN <<"found", e.first, Min(j)>>
                        ELSE IF Ends(d) # {} THEN <<"none">> ELSE <<"astray">>
  BY <1>1, <1>2, <1>3, <1>4, Zenon DEF Resolve
<1>6. i \subseteq 1..NEnt /\ j \subseteq 1..NEnt
  BY <1>1, <1>4 DEF Find, Visible
<1>7. 1..NEnt \subseteq Nat
  BY Numbers
<1>8. <<"none">>[1] # "found" /\ <<"astray">>[1] # "found"
  OBVIOUS
<1>9. \/ i # {} /\ r = <<"found", Root, Min(i)>>
      \/ d # NoDir /\ j # {} /\ r = <<"found", e.first, Min(j)>>
  <2>1. CASE i = {}
    BY <1>5, <1>8, <2>1
  <2>2. CASE i # {} /\ (e.kind = "file" \/ Len(p) = 1)
    BY <1>5, <2>2
  <2>3. CASE i # {} /\ ~(e.kind = "file" \/ Len(p) = 1)
    BY <1>5, <1>8, <2>3
  <2>4. QED
    BY <2>1, <2>2, <2>3
<1>10. CASE i # {} /\ r = <<"found", Root, Min(i)>>
  <2>1. Min(i) \in 1..NEnt
    BY <1>6, <1>7, <1>10, MinIsLeast
  <2>2. r[2] = Root /\ r[3] = Min(i)
    BY <1>10
  <2>3. QED
    BY <2>1, <2>2, Numbers
<1>11. CASE d # NoDir /\ j # {} /\ r = <<"found", e.first, Min(j)>>
  <2>1. Min(j) \in 1..NEnt
    BY <1>6, <1>7, <1>11, MinIsLeast
  <2>2. r[2] = e.first /\ r[3] = Min(j) /\ e.first \in Data
    BY <1>3, <1>11
  <2>3. QED
    BY <2>1, <2>2, Numbers
<1>12. QED
  BY <1>9, <1>10, <1>11

\* The search of a path.
LEMMA LookupPathTyped ==
    ASSUME TypeInv, CallsOK, NEW t \in Tasks, pc[t] = "lookup", LookupPath(t),
           UNCHANGED <<disk, file, mixed>>
    PROVE  TypeInv' /\ CallsOK'
<1>1. /\ fat' \in Fats /\ Ahead(fat') /\ dirs' \in [DirSectors -> {NoDir} \cup Listings]
      /\ cache' \in [pcs : Sectors, buf : Buffers] /\ BufferOK(cache'.buf)
      /\ mixed' \in BOOLEAN /\ stale' \in BOOLEAN /\ file' = file
  BY StillTyped DEF disk, LookupPath
<1>2. loc[t] \in Locs /\ loc[t].op \in Searches /\ loc[t].path # <<>>
  BY TaskParts DEF CallOK
<1>3. PICK r : r = Resolve(IF loc[t].op \in {"rmdir", "remove"} THEN loc[t].path
                           ELSE <<loc[t].path[1]>>)
  OBVIOUS
<1>4. IF r[1] = "found"
      THEN Goto(t, "entry") /\ Locals(t, [loc[t] EXCEPT !.sec = r[2], !.idx = r[3]])
      ELSE IF r[1] = "astray" \/ loc[t].op = "remove" THEN Stray ELSE Finish(t)
  BY <1>3 DEF LookupPath
<1>5. CASE r[1] = "found"
  <2>1. r[2] \in DirSectors /\ r[3] \in 1..NEnt
    BY <1>3, <1>5, ResolveOK
  <2>2. PICK k : k = [loc[t] EXCEPT !.sec = r[2], !.idx = r[3]]
    OBVIOUS
  <2>3. PICK l : l = [k EXCEPT !.missed = FALSE]
    OBVIOUS
  <2>4. Goto(t, "entry") /\ loc' = [loc EXCEPT ![t] = l]
    BY <1>4, <1>5, <2>2, <2>3 DEF Locals
  <2>5. r[2] \in Clusters /\ r[3] \in 1..(NEnt + 1)
    BY <2>1, Numbers
  <2>6. /\ l \in Locs /\ l.op = loc[t].op /\ l.path = loc[t].path /\ l.sec = r[2] /\ l.idx = r[3]
        /\ l.missed = FALSE
    BY <1>2, <2>2, <2>3, <2>5 DEF Locs
  <2>7. CallOK("entry", l, file[t]) /\ "entry" \in PCs
    BY <1>2, <2>1, <2>6 DEF CallOK, PCs, Placed
  <2>8. QED
    BY <1>1, <2>4, <2>6, <2>7, GoesOnAfresh
<1>6. CASE r[1] # "found"
  <2>1. Stray \/ Finish(t)
    BY <1>4, <1>6
  <2>2. file' = [file EXCEPT ![t] = file[t]]
    BY <1>1, TaskParts
  <2>3. QED
    BY <1>1, <2>1, <2>2, Strays, Finishes, TaskParts
<1>7. QED
  BY <1>5, <1>6

\* Either search.
LEMMA LookupTyped ==
    ASSUME TypeInv, CallsOK, NEW t \in Tasks, Lookup(t)
    PROVE  TypeInv' /\ CallsOK'
BY LookupRootTyped, LookupPathTyped DEF Lookup

\* The entry found is taken from the buffer.
LEMMA LookupEntryTyped ==
    ASSUME TypeInv, CallsOK, NEW t \in Tasks, LookupEntry(t)
    PROVE  TypeInv' /\ CallsOK'
<1>1. /\ fat' \in Fats /\ Ahead(fat') /\ dirs' \in [DirSectors -> {NoDir} \cup Listings]
      /\ mixed' \in BOOLEAN /\ stale' \in BOOLEAN /\ file' = file
  BY StillTyped DEF disk, LookupEntry
<1>2. /\ loc[t] \in Locs /\ loc[t].op \in Searches /\ loc[t].path # <<>>
      /\ loc[t].sec \in DirSectors /\ loc[t].idx \in 1..NEnt
  BY TaskParts DEF CallOK, Placed, LookupEntry
<1>3. PICK c \in [pcs : Sectors, buf : Buffers] : c = Loaded(t, loc[t].sec) /\ BufferOK(c.buf)
  BY <1>2, LoadedOK
<1>4. PICK i : i = loc[t].idx
  OBVIOUS
<1>5. PICK e : e = c.buf.dir[i]
  OBVIOUS
<1>6. IF c.buf.dir = NoDir THEN Stray /\ cache' = c
      ELSE /\ cache' = IF loc[t].op = "list" THEN c ELSE Marked(c, i)
           /\ IF loc[t].op \in {"openr", "openw", "list"}
              THEN Goto(t, IF loc[t].op = "list" THEN "list" ELSE "scan")
                   /\ Locals(t, [loc[t] EXCEPT !.sec = e.first, !.idx = 1])
              ELSE Goto(t, "fatread") /\ Locals(t, [loc[t] EXCEPT !.clu = e.first])
  BY <1>3, <1>4, <1>5, Zenon DEF LookupEntry
<1>7. CASE c.buf.dir = NoDir
  BY <1>1, <1>3, <1>6, <1>7, Strays
<1>8. CASE c.buf.dir # NoDir
  <2>1. c.buf.dir \in Listings /\ e.first \in Clusters
    BY <1>2, <1>3, <1>4, <1>5, <1>8, CacheParts, ListingParts
  <2>2. cache' \in [pcs : Sectors, buf : Buffers] /\ BufferOK(cache'.buf)
    <3>1. cache' = c \/ cache' = Marked(c, i)
      BY <1>6, <1>8
    <3>2. QED
      BY <1>2, <1>3, <1>4, <1>8, <3>1, MarkedOK
  <2>3. CASE loc[t].op \in {"openr", "openw", "list"}
    <3>1. PICK k : k = [loc[t] EXCEPT !.sec = e.first, !.idx = 1]
      OBVIOUS
    <3>2. PICK l : l = [k EXCEPT !.missed = FALSE]
      OBVIOUS
    <3>3. PICK p : p = (IF loc[t].op = "list" THEN "list" ELSE "scan")
      OBVIOUS
    <3>4. Goto(t, p) /\ loc' = [loc EXCEPT ![t] = l]
      BY <1>6, <1>8, <2>3, <3>1, <3>2, <3>3 DEF Locals
    <3>5. 1 \in 1..(NEnt + 1)
      BY Numbers
    <3>6. l \in Locs /\ l.op = loc[t].op /\ l.path = loc[t].path /\ l.missed = FALSE
      BY <1>2, <2>1, <3>1, <3>2, <3>5 DEF Locs
    <3>7. CallOK(p, l, file[t]) /\ p \in PCs
      BY <1>2, <2>3, <3>3, <3>6 DEF CallOK, PCs
    <3>8. QED
      BY <1>1, <2>2, <3>4, <3>6, <3>7, GoesOnAfresh
  <2>4. CASE loc[t].op \notin {"openr", "openw", "list"}
    <3>1. PICK k : k = [loc[t] EXCEPT !.clu = e.first]
      OBVIOUS
    <3>2. PICK l : l = [k EXCEPT !.missed = FALSE]
      OBVIOUS
    <3>3. Goto(t, "fatread") /\ loc' = [loc EXCEPT ![t] = l]
      BY <1>6, <1>8, <2>4, <3>1, <3>2 DEF Locals
    <3>4. /\ l \in Locs /\ l.op = loc[t].op /\ l.path = loc[t].path /\ l.idx = loc[t].idx
          /\ l.missed = FALSE
      BY <1>2, <2>1, <3>1, <3>2 DEF Locs
    <3>5. CallOK("fatread", l, file[t]) /\ "fatread" \in PCs
      BY <1>2, <2>4, <3>4 DEF CallOK, PCs, Searches, Erasing, Placed
    <3>6. QED
      BY <1>1, <2>2, <3>3, <3>4, <3>5, GoesOnAfresh
  <2>5. QED
    BY <2>3, <2>4
<1>9. QED
  BY <1>7, <1>8

------------------------------------------------------------------------------
(* Opening, and the FAT.                                                     *)

\* What is written into a directory is an entry.
LEMMA EntryIs ==
    ASSUME NEW n \in Names \cup {".", "..", Free, End}, NEW kind \in {"file", "dir"},
           NEW c \in Clusters,
           NEW e, e = [name |-> n, kind |-> kind, first |-> c, size |-> 0, mark |-> NoSector]
    PROVE  /\ e \in Entries /\ e.name = n /\ e.kind = kind /\ e.first = c /\ e.size = 0
           /\ e.mark = NoSector
BY DEF Entries

\* A new entry is an entry of the name asked for.
LEMMA NewEntryOK ==
    ASSUME NEW t, loc[t] \in Locs, loc[t].path # <<>>, NEW kind \in {"file", "dir"},
           NEW c \in Clusters, NEW e, e = NewEntry(t, kind, c)
    PROVE  /\ e \in Entries /\ e.name \in Names /\ e.name = loc[t].path[Len(loc[t].path)]
           /\ e.kind = kind /\ e.first = c /\ e.size = 0 /\ e.mark = NoSector
<1>1. PICK n : n = loc[t].path[Len(loc[t].path)]
  OBVIOUS
<1>2. n \in Names
  <2>1. PICK p \in Seq(Names) : p = loc[t].path
    BY LocsParts
  <2>2. p[Len(p)] \in Names
    BY <2>1, PathNames
  <2>3. QED
    BY <1>1, <2>1, <2>2
<1>3. EndEntry \in Entries /\ EndEntry.size = 0 /\ EndEntry.mark = NoSector
  <2>1. 0 \in Clusters
    BY Numbers
  <2>2. QED
    BY <2>1, EntryIs DEF EndEntry
<1>4. e = [EndEntry EXCEPT !.name = n, !.kind = kind, !.first = c]
  BY <1>1 DEF NewEntry
<1>5. QED
  BY <1>1, <1>2, <1>3, <1>4 DEF Entries

\* What open fills a handle with is a handle.
LEMMA HandleIs ==
    ASSUME NEW s \in DirSectors, NEW i \in 1..NEnt, NEW c \in Clusters, c \in Nat,
           NEW n \in Nat, NEW w \in BOOLEAN, NEW h,
           h = [sec |-> s, idx |-> i, sblk |-> c, cblk |-> c, offset |-> 0, size |-> n,
                writes |-> w, plain |-> TRUE]
    PROVE  /\ h \in Handles /\ h.sec = s /\ h.idx = i /\ h.sblk = c /\ h.cblk = c
           /\ h.offset = 0
BY DEF Handles

\* A handle just opened is at the beginning.
LEMMA OpenedOK ==
    ASSUME NEW s \in DirSectors, NEW i \in 1..NEnt, NEW e \in Entries, NEW op,
           NEW h, h = Opened(s, i, e, op)
    PROVE  h \in Handles /\ HandleOK(h) /\ h.sec = s /\ h.idx = i
<1>1. PICK c \in Clusters, n \in Nat, w \in BOOLEAN :
         c = e.first /\ n = e.size /\ w = (op = "openw")
  BY DEF Entries
<1>2. c \in Nat
  BY Numbers
<1>3. h = [sec |-> s, idx |-> i, sblk |-> c, cblk |-> c, offset |-> 0, size |-> n,
           writes |-> w, plain |-> TRUE]
  BY <1>1 DEF Opened
<1>4. /\ h \in Handles /\ h.sec = s /\ h.idx = i /\ h.sblk = c /\ h.cblk = c
      /\ h.offset = 0
  BY <1>2, <1>3, HandleIs
<1>5. 0 \div Bps = 0
  <2>1. 0 = Bps * 0 + 0 /\ 0 \in 0..(Bps - 1) /\ 0 \in Nat
    BY Numbers
  <2>2. QED
    BY <2>1, DivideOnce
<1>6. HandleOK(h)
  BY <1>2, <1>4, <1>5 DEF HandleOK
<1>7. QED
  BY <1>4, <1>6

\* open scans the sector for the file.
LEMMA ScanTyped ==
    ASSUME TypeInv, CallsOK, NEW t \in Tasks, Scan(t)
    PROVE  TypeInv' /\ CallsOK'
<1>1. /\ fat' \in Fats /\ Ahead(fat') /\ dirs' \in [DirSectors -> {NoDir} \cup Listings]
      /\ cache' \in [pcs : Sectors, buf : Buffers] /\ BufferOK(cache'.buf)
      /\ mixed' \in BOOLEAN /\ stale' \in BOOLEAN
  BY StillTyped DEF disk, history, Scan
<1>2. /\ loc[t] \in Locs /\ loc[t].op \in {"openr", "openw"} /\ loc[t].path # <<>>
  BY TaskParts DEF CallOK, Scan
<1>3. PICK s : s = loc[t].sec
  OBVIOUS
<1>4. PICK d : d = (IF s \in DirSectors THEN dirs[s] ELSE NoDir)
  OBVIOUS
<1>5. PICK n : n = loc[t].path[Len(loc[t].path)]
  OBVIOUS
<1>6. PICK found : found = Find(d, n, {"file"})
  OBVIOUS
<1>7. (CASE d = NoDir \/ (found = {} /\ Ends(d) = {}) -> Stray /\ UNCHANGED file
        [] d # NoDir /\ found # {} ->
              /\ file' = [file EXCEPT ![t] = Opened(s, Min(found), d[Min(found)], loc[t].op)]
              /\ Finish(t)
        [] OTHER -> /\ IF loc[t].op = "openw"
                       THEN /\ Goto(t, "fatread")
                            /\ Locals(t, [loc[t] EXCEPT !.idx = Min(Ends(d)), !.dir = d])
                       ELSE Finish(t)
                    /\ UNCHANGED file)
  BY <1>3, <1>4, <1>5, <1>6, Zenon DEF Scan
<1>8. CASE d = NoDir \/ (found = {} /\ Ends(d) = {})
  <2>1. Stray /\ file' = file
    BY <1>7, <1>8
  <2>2. QED
    BY <1>1, <2>1, Strays
<1>9. ASSUME d # NoDir
      PROVE  d \in Listings /\ s \in DirSectors
  <2>1. s \in DirSectors /\ d = dirs[s]
    BY <1>4, <1>9
  <2>2. QED
    BY <1>9, <2>1 DEF TypeInv
<1>10. CASE d # NoDir /\ found # {}
  <2>1. PICK i : i = Min(found)
    OBVIOUS
  <2>2. i \in 1..NEnt /\ d[i] \in Entries
    BY <1>6, <1>9, <1>10, <2>1, FoundIs, ListingParts
  <2>3. PICK h : h = Opened(s, i, d[i], loc[t].op)
    OBVIOUS
  <2>4. h \in Handles /\ HandleOK(h)
    BY <1>9, <1>10, <2>2, <2>3, OpenedOK
  <2>5. file' = [file EXCEPT ![t] = h] /\ Finish(t)
    BY <1>7, <1>10, <2>1, <2>3
  <2>6. QED
    BY <1>1, <2>4, <2>5, Finishes
<1>11. CASE d # NoDir /\ found = {} /\ Ends(d) # {}
  <2>1. /\ IF loc[t].op = "openw"
           THEN /\ Goto(t, "fatread")
                /\ Locals(t, [loc[t] EXCEPT !.idx = Min(Ends(d)), !.dir = d])
           ELSE Finish(t)
        /\ file' = file
    BY <1>7, <1>11
  <2>2. CASE loc[t].op # "openw"
    <3>1. file' = [file EXCEPT ![t] = file[t]] /\ Finish(t)
      BY <2>1, <2>2, TaskParts
    <3>2. QED
      BY <1>1, <3>1, Finishes, TaskParts
  <2>3. CASE loc[t].op = "openw"
    <3>1. PICK i : i = Min(Ends(d))
      OBVIOUS
    <3>2. i \in 1..NEnt /\ i \in 1..(NEnt + 1)
      BY <1>9, <1>11, <3>1, FirstEndIs, Numbers
    <3>3. PICK k : k = [loc[t] EXCEPT !.idx = i, !.dir = d]
      OBVIOUS
    <3>4. PICK l : l = [k EXCEPT !.missed = FALSE]
      OBVIOUS
    <3>5. Goto(t, "fatread") /\ loc' = [loc EXCEPT ![t] = l]
      BY <2>1, <2>3, <3>1, <3>3, <3>4 DEF Locals
    <3>6. /\ l \in Locs /\ l.op = loc[t].op /\ l.path = loc[t].path /\ l.idx = i /\ l.dir = d
          /\ l.sec = s /\ l.missed = FALSE
      BY <1>2, <1>3, <1>9, <1>11, <3>2, <3>3, <3>4 DEF Locs
    <3>7. CallOK("fatread", l, file[t]) /\ "fatread" \in PCs
      BY <1>2, <1>9, <1>11, <2>3, <3>2, <3>6 DEF CallOK, PCs, NewFile, Placed
    <3>8. QED
      BY <1>1, <2>1, <3>5, <3>6, <3>7, GoesOnAfresh
  <2>4. QED
    BY <2>2, <2>3
<1>12. QED
  BY <1>8, <1>10, <1>11

\* The FAT is read.
LEMMA FatReadTyped ==
    ASSUME TypeInv, CallsOK, NEW t \in Tasks, FatRead(t)
    PROVE  TypeInv' /\ CallsOK'
<1>1. /\ fat' \in Fats /\ Ahead(fat') /\ dirs' \in [DirSectors -> {NoDir} \cup Listings]
      /\ cache' \in [pcs : Sectors, buf : Buffers] /\ BufferOK(cache'.buf)
      /\ mixed' \in BOOLEAN /\ stale' \in BOOLEAN /\ file' = file
  BY StillTyped DEF disk, history, FatRead
<1>2. pc[t] = "fatread" /\ loc[t] \in Locs /\ CallOK("fatread", loc[t], file[t])
  BY TaskParts DEF FatRead
<1>3. PICK k : k = [loc[t] EXCEPT !.fat = fat]
  OBVIOUS
<1>4. PICK l : l = [k EXCEPT !.missed = FALSE]
  OBVIOUS
<1>5. Goto(t, "fatwrite") /\ loc' = [loc EXCEPT ![t] = l]
  BY <1>3, <1>4 DEF Locals, FatRead
<1>6. fat \in Fats /\ Ahead(fat)
  BY StillTyped
<1>7. /\ l \in Locs /\ l.op = loc[t].op /\ l.path = loc[t].path /\ l.idx = loc[t].idx
      /\ l.sec = loc[t].sec /\ l.left = loc[t].left /\ l.fat = fat /\ l.dir = loc[t].dir
      /\ l.missed = FALSE
  BY <1>2, <1>3, <1>4, <1>6 DEF Locs
<1>8. CallOK("fatwrite", l, file[t]) /\ "fatwrite" \in PCs
  BY <1>2, <1>6, <1>7 DEF CallOK, PCs, NewFile, Writing, Placed
<1>9. QED
  BY <1>1, <1>5, <1>7, <1>8, GoesOnAfresh

\* A cluster is taken.
LEMMA WithClusterOK ==
    ASSUME NEW f \in Fats, Ahead(f), NEW append, NEW c,
           {k \in Clusters : f[k] = 0} # {}, c = Min({k \in Clusters : f[k] = 0})
    PROVE  /\ c \in Clusters /\ f[c] = 0
           /\ \A k \in Clusters : f[k] = 0 => c <= k
           /\ WithCluster(f, append) \in Fats /\ Ahead(WithCluster(f, append))
           /\ \A k \in Clusters : WithCluster(f, append)[k] =
                   IF k = c THEN Eoc ELSE IF append /\ k = c - 1 THEN c ELSE f[k]
<1>1. c \in Clusters /\ f[c] = 0 /\ \A k \in Clusters : f[k] = 0 => c <= k
  BY MinIsLeast, Numbers
<1>2. WithCluster(f, append) =
         [k \in Clusters |-> IF k = c THEN Eoc ELSE IF append /\ k = c - 1 THEN c ELSE f[k]]
  BY DEF WithCluster
<1>3. \A k \in Clusters : f[k] \in 0..Media
  BY DEF Fats
<1>4. c \in 0..Media /\ Eoc \in 0..Media /\ c \in Nat
  BY <1>1, Numbers
<1>5. WithCluster(f, append) \in Fats
  BY <1>2, <1>3, <1>4 DEF Fats
<1>6. Ahead(WithCluster(f, append))
  <2>1. SUFFICES ASSUME NEW k \in Data
                 PROVE  WithCluster(f, append)[k] \in {0, Eoc, k + 1}
    BY DEF Ahead
  <2>2. k \in Clusters /\ k \in Nat /\ f[k] \in {0, Eoc, k + 1}
    BY Numbers DEF Ahead
  <2>3. QED
    BY <1>2, <1>4, <2>2
<1>7. QED
  BY <1>1, <1>2, <1>5, <1>6

\* Clusters are given back.
LEMMA FreedOK ==
    ASSUME NEW f \in Fats, Ahead(f), NEW c
    PROVE  Freed(f, c) \in Fats /\ Ahead(Freed(f, c))
<1>1. PICK e : e = Min({k \in Clusters : k >= c /\ f[k] = Eoc})
  OBVIOUS
<1>2. Freed(f, c) = [k \in Clusters |-> IF k \in c..e THEN 0 ELSE f[k]]
  BY <1>1 DEF Freed
<1>3. \A k \in Clusters : f[k] \in 0..Media /\ 0 \in 0..Media
  BY Numbers DEF Fats
<1>4. Freed(f, c) \in Fats
  BY <1>2, <1>3 DEF Fats
<1>5. Ahead(Freed(f, c))
  BY <1>2, Numbers DEF Ahead
<1>6. QED
  BY <1>4, <1>5

\* The parts of the buffer, and that it is one.
LEMMA BufferParts ==
    ASSUME TypeInv
    PROVE  /\ cache \in [pcs : Sectors, buf : Buffers] /\ BufferOK(cache.buf)
           /\ cache.buf.dir # NoDir => cache.buf.dir \in Listings
BY CacheParts, StillTyped

\* mkdir goes on with the cluster it has been given.
LEMMA MkdirGoesOnTyped ==
    ASSUME TypeInv, CallsOK, NEW t \in Tasks, pc[t] = "fatwrite", loc[t].op = "mkdir",
           NEW c \in Clusters, MkdirGoesOn(t, c), file' = file,
           fat' \in Fats, Ahead(fat'), UNCHANGED <<dirs, mixed, stale>>
    PROVE  TypeInv' /\ CallsOK'
<1>1. /\ dirs' \in [DirSectors -> {NoDir} \cup Listings]
      /\ mixed' \in BOOLEAN /\ stale' \in BOOLEAN
  BY StillTyped
<1>2. loc[t] \in Locs /\ loc[t].path # <<>> /\ loc[t].idx \in 1..NEnt
  BY TaskParts DEF CallOK, NewFile, Writing, Placed, Erasing
<1>3. PICK i : i = loc[t].idx
  OBVIOUS
<1>4. PICK e : e = cache.buf.dir[i]
  OBVIOUS
<1>5. (CASE cache.buf.dir = NoDir \/ (e.name = End /\ e.mark = NoSector) ->
              Stray /\ UNCHANGED cache
        [] cache.buf.dir # NoDir /\ e.name = End /\ e.mark # NoSector ->
              /\ cache' = Edited(cache, i, NewEntry(t, "dir", c))
              /\ Goto(t, "back") /\ Locals(t, [loc[t] EXCEPT !.clu = c, !.sec = e.mark])
        [] OTHER ->
              /\ Goto(t, "load") /\ Locals(t, [loc[t] EXCEPT !.clu = c, !.sec = e.first])
              /\ UNCHANGED cache)
  BY <1>3, <1>4, Zenon DEF MkdirGoesOn
<1>6. CASE cache.buf.dir = NoDir \/ (e.name = End /\ e.mark = NoSector)
  <2>1. Stray /\ cache' = cache
    BY <1>5, <1>6
  <2>2. QED
    BY <1>1, <2>1, Strays, BufferParts
<1>7. ASSUME cache.buf.dir # NoDir
      PROVE  e.first \in Clusters /\ e.mark \in {NoSector} \cup DirSectors
  BY <1>2, <1>3, <1>4, <1>7, BufferParts, ListingParts
<1>8. CASE cache.buf.dir # NoDir /\ e.name = End /\ e.mark # NoSector
  <2>1. /\ cache' = Edited(cache, i, NewEntry(t, "dir", c))
        /\ Goto(t, "back") /\ Locals(t, [loc[t] EXCEPT !.clu = c, !.sec = e.mark])
    BY <1>5, <1>8
  <2>2. PICK n : n = NewEntry(t, "dir", c)
    OBVIOUS
  <2>3. n \in Entries
    BY <1>2, <2>2, NewEntryOK
  <2>4. cache' \in [pcs : Sectors, buf : Buffers] /\ BufferOK(cache'.buf)
    BY <1>2, <1>3, <1>8, <2>1, <2>2, <2>3, EditedOK, BufferParts
  <2>5. PICK k : k = [loc[t] EXCEPT !.clu = c, !.sec = e.mark]
    OBVIOUS
  <2>6. PICK l : l = [k EXCEPT !.missed = FALSE]
    OBVIOUS
  <2>7. loc' = [loc EXCEPT ![t] = l]
    BY <2>1, <2>5, <2>6 DEF Locals
  <2>8. e.mark \in Clusters
    BY <1>7, <1>8, Numbers
  <2>9. l \in Locs /\ l.op = "mkdir" /\ l.missed = FALSE
    BY <1>2, <2>5, <2>6, <2>8 DEF Locs
  <2>10. CallOK("back", l, file[t]) /\ "back" \in PCs
    BY <2>9 DEF CallOK, PCs
  <2>11. QED
    BY <1>1, <2>1, <2>4, <2>7, <2>9, <2>10, GoesOnAfresh
<1>9. CASE cache.buf.dir # NoDir /\ e.name # End
  <2>1. /\ Goto(t, "load") /\ Locals(t, [loc[t] EXCEPT !.clu = c, !.sec = e.first])
        /\ cache' = cache
    BY <1>5, <1>9
  <2>2. PICK k : k = [loc[t] EXCEPT !.clu = c, !.sec = e.first]
    OBVIOUS
  <2>3. PICK l : l = [k EXCEPT !.missed = FALSE]
    OBVIOUS
  <2>4. loc' = [loc EXCEPT ![t] = l]
    BY <2>1, <2>2, <2>3 DEF Locals
  <2>5. l \in Locs /\ l.op = "mkdir" /\ l.path = loc[t].path /\ l.missed = FALSE
    BY <1>2, <1>7, <1>9, <2>2, <2>3 DEF Locs
  <2>6. CallOK("load", l, file[t]) /\ "load" \in PCs
    BY <1>2, <2>5 DEF CallOK, PCs
  <2>7. QED
    BY <1>1, <2>1, <2>4, <2>5, <2>6, GoesOnAfresh, BufferParts
<1>10. QED
  BY <1>6, <1>8, <1>9

------------------------------------------------------------------------------
(* Writing the FAT and the directories.                                      *)

\* What a task that writes the FAT is about, and what it read of it.
LEMMA FatWriter ==
    ASSUME TypeInv, CallsOK, NEW t \in Tasks, pc[t] = "fatwrite"
    PROVE  /\ loc[t] \in Locs /\ loc[t].fat \in Fats /\ Ahead(loc[t].fat)
           /\ \/ loc[t].op \in Erasing /\ Placed(loc[t])
              \/ loc[t].op = "mkdir" /\ loc[t].path # <<>> /\ Placed(loc[t])
              \/ NewFile(loc[t])
              \/ Writing(loc[t], file[t]) /\ loc[t].left > 0
BY TaskParts DEF CallOK

\* A cluster is taken from the FAT as it was read.
LEMMA AllocateTyped ==
    ASSUME TypeInv, CallsOK, NEW t \in Tasks, pc[t] = "fatwrite",
           loc[t].op \notin {"rmdir", "remove"}, Allocate(t),
           UNCHANGED <<dirs, file, mixed, stale>>
    PROVE  TypeInv' /\ CallsOK'
<1>1. /\ dirs' \in [DirSectors -> {NoDir} \cup Listings] /\ file' = file
      /\ mixed' \in BOOLEAN /\ stale' \in BOOLEAN
  BY StillTyped
<1>2. PICK f : f = loc[t].fat
  OBVIOUS
<1>3. loc[t] \in Locs /\ f \in Fats /\ Ahead(f)
  BY <1>2, FatWriter
<1>4. PICK free : free = {k \in Clusters : f[k] = 0}
  OBVIOUS
<1>5. PICK append \in BOOLEAN : append <=> loc[t].op = "write"
  OBVIOUS
<1>6. IF free = {} THEN Stray /\ UNCHANGED <<fat, cache>>
      ELSE /\ fat' = WithCluster(f, append)
           /\ IF loc[t].op = "mkdir" THEN MkdirGoesOn(t, Min(free))
              ELSE /\ Goto(t, IF append THEN "data" ELSE "dirwrite")
                   /\ Locals(t, [loc[t] EXCEPT !.clu = Min(free)]) /\ UNCHANGED cache
  <2>1. append = (loc[t].op = "write")
    BY <1>5, Zenon
  <2>2. QED
    BY <1>2, <1>4, <2>1, Zenon DEF Allocate
<1>7. CASE free = {}
  <2>1. Stray /\ fat' = fat /\ cache' = cache
    BY <1>6, <1>7
  <2>2. QED
    BY <1>1, <2>1, Strays, StillTyped
<1>8. CASE free # {}
  <2>1. PICK c : c = Min(free)
    OBVIOUS
  <2>2. fat' = WithCluster(f, append)
    BY <1>6, <1>8
  <2>3. c \in Clusters /\ fat' \in Fats /\ Ahead(fat')
    BY <1>3, <1>4, <1>8, <2>1, <2>2, WithClusterOK
  <2>4. CASE loc[t].op = "mkdir"
    <3>1. MkdirGoesOn(t, c)
      BY <1>6, <1>8, <2>1, <2>4
    <3>2. QED
      BY <1>1, <2>3, <2>4, <3>1, MkdirGoesOnTyped
  <2>5. CASE loc[t].op # "mkdir"
    <3>1. PICK p : p = (IF append THEN "data" ELSE "dirwrite")
      OBVIOUS
    <3>2. PICK k : k = [loc[t] EXCEPT !.clu = c]
      OBVIOUS
    <3>3. PICK l : l = [k EXCEPT !.missed = FALSE]
      OBVIOUS
    <3>4. Goto(t, p) /\ loc' = [loc EXCEPT ![t] = l] /\ cache' = cache
      BY <1>6, <1>8, <2>1, <2>5, <3>1, <3>2, <3>3 DEF Locals
    <3>5. /\ l \in Locs /\ l.op = loc[t].op /\ l.path = loc[t].path /\ l.idx = loc[t].idx
          /\ l.dir = loc[t].dir /\ l.sec = loc[t].sec /\ l.left = loc[t].left /\ l.missed = FALSE
      BY <1>3, <2>3, <3>2, <3>3 DEF Locs
    <3>6. CASE append
      <4>1. p = "data" /\ Writing(loc[t], file[t]) /\ loc[t].left > 0
        BY <1>5, <3>1, <3>6, FatWriter DEF NewFile, Erasing
      <4>2. CallOK(p, l, file[t]) /\ p \in PCs
        BY <3>5, <4>1 DEF CallOK, PCs, Writing
      <4>3. QED
        BY <1>1, <2>3, <3>4, <3>5, <4>2, GoesOnAfresh, BufferParts
    <3>7. CASE ~append
      <4>1. p = "dirwrite" /\ NewFile(loc[t])
        BY <1>5, <2>5, <3>1, <3>7, FatWriter DEF Writing, Erasing
      <4>2. CallOK(p, l, file[t]) /\ p \in PCs
        BY <3>5, <4>1 DEF CallOK, PCs, NewFile, Placed
      <4>3. QED
        BY <1>1, <2>3, <3>4, <3>5, <4>2, GoesOnAfresh, BufferParts
    <3>8. QED
      BY <3>6, <3>7
  <2>6. QED
    BY <2>4, <2>5
<1>9. QED
  BY <1>7, <1>8

\* The name of an entry in the buffer is cleared.
LEMMA ErasedOK ==
    ASSUME NEW c \in [pcs : Sectors, buf : Buffers], BufferOK(c.buf), c.buf.dir # NoDir,
           NEW i \in 1..NEnt, NEW n, n = [c EXCEPT !.buf.dir[i].name = Free]
    PROVE  /\ n \in [pcs : Sectors, buf : Buffers] /\ BufferOK(n.buf)
           /\ n.buf.of = c.buf.of /\ n.buf.of \in DirSectors
           /\ n.buf.dir \in Listings /\ n.buf.dir # NoDir
           /\ n.buf.dir[i].name = Free /\ n.buf.dir[i].mark = c.buf.dir[i].mark
           /\ \A j \in 1..NEnt : j # i => n.buf.dir[j] = c.buf.dir[j]
<1>1. c.buf.dir \in Listings
  BY CacheParts
<1>2. PICK e : e = [c.buf.dir[i] EXCEPT !.name = Free]
  OBVIOUS
<1>3. c.buf.dir[i] \in Entries
  BY <1>1, ListingParts
<1>4. e \in Entries /\ e.name = Free /\ e.mark = c.buf.dir[i].mark
  BY <1>2, <1>3 DEF Entries
<1>5. PICK m : m = Edited(c, i, e)
  OBVIOUS
<1>6. n = m
  BY <1>2, <1>5 DEF Edited
<1>7. /\ m \in [pcs : Sectors, buf : Buffers] /\ BufferOK(m.buf)
      /\ m.buf.of = c.buf.of /\ m.buf.of \in DirSectors
      /\ m.buf.dir \in Listings /\ m.buf.dir # NoDir
      /\ m.buf.dir[i] = e /\ \A j \in 1..NEnt : j # i => m.buf.dir[j] = c.buf.dir[j]
  BY <1>4, <1>5, EditedOK
<1>8. QED
  BY <1>4, <1>6, <1>7

\* The clusters are given back, and the entry goes in the buffer.
LEMMA ReleaseTyped ==
    ASSUME TypeInv, CallsOK, NEW t \in Tasks, pc[t] = "fatwrite",
           loc[t].op \in {"rmdir", "remove"}, Release(t),
           UNCHANGED <<dirs, file, mixed, stale>>
    PROVE  TypeInv' /\ CallsOK'
<1>1. /\ dirs' \in [DirSectors -> {NoDir} \cup Listings] /\ file' = file
      /\ mixed' \in BOOLEAN /\ stale' \in BOOLEAN
  BY StillTyped
<1>2. PICK f : f = loc[t].fat
  OBVIOUS
<1>3. PICK i : i = loc[t].idx
  OBVIOUS
<1>4. loc[t] \in Locs /\ f \in Fats /\ Ahead(f) /\ i \in 1..NEnt
  BY <1>2, <1>3, FatWriter DEF Placed, NewFile, Writing
<1>5. (CASE \A k \in Clusters : k >= loc[t].clu => f[k] # Eoc ->
               Finish(t) /\ UNCHANGED <<fat, cache>>
         [] OTHER -> /\ fat' = Freed(f, loc[t].clu)
                     /\ IF \/ cache.buf.dir = NoDir
                           \/ cache.buf.dir # NoDir /\ cache.buf.dir[i].mark = NoSector
                        THEN Stray /\ UNCHANGED cache
                        ELSE /\ cache' = [cache EXCEPT !.buf.dir[i].name = Free]
                             /\ Goto(t, "back")
                             /\ Locals(t, [loc[t] EXCEPT !.sec = cache.buf.dir[i].mark]))
  BY <1>2, <1>3, Zenon DEF Release
<1>6. CASE \A k \in Clusters : k >= loc[t].clu => f[k] # Eoc
  <2>1. Finish(t) /\ fat' = fat /\ cache' = cache /\ file' = [file EXCEPT ![t] = file[t]]
    BY <1>1, <1>5, <1>6, TaskParts
  <2>2. QED
    BY <1>1, <2>1, Finishes, StillTyped, TaskParts
<1>7. CASE ~(\A k \in Clusters : k >= loc[t].clu => f[k] # Eoc)
  <2>1. /\ fat' = Freed(f, loc[t].clu)
        /\ IF \/ cache.buf.dir = NoDir
              \/ cache.buf.dir # NoDir /\ cache.buf.dir[i].mark = NoSector
           THEN Stray /\ UNCHANGED cache
           ELSE /\ cache' = [cache EXCEPT !.buf.dir[i].name = Free]
                /\ Goto(t, "back")
                /\ Locals(t, [loc[t] EXCEPT !.sec = cache.buf.dir[i].mark])
    BY <1>5, <1>7
  <2>2. fat' \in Fats /\ Ahead(fat')
    BY <1>4, <2>1, FreedOK
  <2>3. CASE cache.buf.dir = NoDir \/ cache.buf.dir[i].mark = NoSector
    <3>1. Stray /\ cache' = cache
      BY <2>1, <2>3
    <3>2. QED
      BY <1>1, <2>2, <3>1, Strays, BufferParts
  <2>4. CASE cache.buf.dir # NoDir /\ cache.buf.dir[i].mark # NoSector
    <3>1. PICK k : k = [loc[t] EXCEPT !.sec = cache.buf.dir[i].mark]
      OBVIOUS
    <3>2. PICK l : l = [k EXCEPT !.missed = FALSE]
      OBVIOUS
    <3>3. cache' = [cache EXCEPT !.buf.dir[i].name = Free] /\ Goto(t, "back") /\ Locals(t, k)
      BY <2>1, <2>4, <3>1
    <3>4. cache' \in [pcs : Sectors, buf : Buffers] /\ BufferOK(cache'.buf)
      BY <1>4, <2>4, <3>3, ErasedOK, BufferParts
    <3>5. cache.buf.dir[i].mark \in Clusters
      BY <1>4, <2>4, BufferParts, ListingParts, Numbers
    <3>6. l \in Locs /\ l.op = loc[t].op /\ l.missed = FALSE /\ loc' = [loc EXCEPT ![t] = l]
      BY <1>4, <3>1, <3>2, <3>3, <3>5 DEF Locs, Locals
    <3>7. CallOK("back", l, file[t]) /\ "back" \in PCs
      BY <3>6 DEF CallOK, PCs
    <3>8. QED
      BY <1>1, <2>2, <3>3, <3>4, <3>6, <3>7, GoesOnAfresh
  <2>5. QED
    BY <2>3, <2>4
<1>8. QED
  BY <1>6, <1>7

\* The FAT is written.
LEMMA FatWriteTyped ==
    ASSUME TypeInv, CallsOK, NEW t \in Tasks, FatWrite(t)
    PROVE  TypeInv' /\ CallsOK'
BY ReleaseTyped, AllocateTyped DEF FatWrite, history

\* A sector of a directory is written.
LEMMA WrittenOK ==
    ASSUME NEW D \in [DirSectors -> {NoDir} \cup Listings], NEW s,
           NEW d \in {NoDir} \cup Listings, NEW E, E = [D EXCEPT ![s] = d]
    PROVE  /\ E \in [DirSectors -> {NoDir} \cup Listings]
           /\ s \in DirSectors => E[s] = d
           /\ \A r \in DirSectors : r # s => E[r] = D[r]
OBVIOUS

\* open writes the new entry.
LEMMA DirWriteTyped ==
    ASSUME TypeInv, CallsOK, NEW t \in Tasks, DirWrite(t)
    PROVE  TypeInv' /\ CallsOK'
<1>1. /\ fat' \in Fats /\ Ahead(fat')
      /\ cache' \in [pcs : Sectors, buf : Buffers] /\ BufferOK(cache'.buf)
      /\ mixed' \in BOOLEAN /\ stale' \in BOOLEAN
  BY StillTyped DEF history, DirWrite
<1>2. loc[t] \in Locs /\ NewFile(loc[t])
  BY TaskParts DEF CallOK, DirWrite
<1>3. PICK e : e = NewEntry(t, "file", loc[t].clu)
  OBVIOUS
<1>4. e \in Entries
  BY <1>2, <1>3, LocsParts, NewEntryOK DEF NewFile
<1>5. PICK s \in DirSectors, i \in 1..NEnt, d \in Listings :
         s = loc[t].sec /\ i = loc[t].idx /\ d = loc[t].dir
  BY <1>2 DEF NewFile, Placed
<1>6. PICK h : h = Opened(s, i, e, "openw")
  OBVIOUS
<1>7. h \in Handles /\ HandleOK(h)
  BY <1>4, <1>6, OpenedOK
<1>8. /\ dirs' = [dirs EXCEPT ![s] = [d EXCEPT ![i] = e]]
      /\ file' = [file EXCEPT ![t] = h] /\ Finish(t)
  BY <1>3, <1>5, <1>6 DEF DirWrite
<1>9. [d EXCEPT ![i] = e] \in Listings
  BY <1>4 DEF Listings
<1>10. dirs' \in [DirSectors -> {NoDir} \cup Listings]
  BY <1>8, <1>9, StillTyped, WrittenOK
<1>11. QED
  BY <1>1, <1>7, <1>8, <1>10, Finishes

\* mkdir below the root looks for the name, and for a place for it.
LEMMA LoadDirTyped ==
    ASSUME TypeInv, CallsOK, NEW t \in Tasks, LoadDir(t)
    PROVE  TypeInv' /\ CallsOK'
<1>1. /\ fat' \in Fats /\ Ahead(fat') /\ dirs' \in [DirSectors -> {NoDir} \cup Listings]
      /\ mixed' \in BOOLEAN /\ stale' \in BOOLEAN /\ file' = file
      /\ file' = [file EXCEPT ![t] = file[t]]
  BY StillTyped, TaskParts DEF disk, LoadDir
<1>2. loc[t] \in Locs /\ loc[t].op = "mkdir" /\ loc[t].path # <<>>
  BY TaskParts DEF CallOK, LoadDir
<1>3. PICK s : s = loc[t].sec
  OBVIOUS
<1>4. PICK c : c = Loaded(t, s)
  OBVIOUS
<1>5. PICK d : d = c.buf.dir
  OBVIOUS
<1>6. PICK e : e = NewEntry(t, "dir", loc[t].clu)
  OBVIOUS
<1>7. IF s \notin Data \/ (s \in Data /\ d = NoDir) THEN Stray /\ UNCHANGED <<cache, stale>>
      ELSE /\ Looked(t, s)
           /\ CASE Find(d, e.name, {"file", "dir"}) # {} -> Finish(t) /\ cache' = c
                [] Find(d, e.name, {"file", "dir"}) = {} /\ Ends(d) # {} ->
                      /\ cache' = Edited(c, FirstFree(d), e)
                      /\ Goto(t, "back") /\ Locals(t, loc[t])
                [] OTHER -> Stray /\ cache' = c
  BY <1>3, <1>4, <1>5, <1>6, Zenon DEF LoadDir, Listed
<1>8. CASE s \notin Data \/ d = NoDir
  <2>1. Stray /\ cache' = cache
    BY <1>7, <1>8
  <2>2. QED
    BY <1>1, <2>1, Strays, BufferParts
<1>9. CASE s \in Data /\ d # NoDir
  <2>1. (CASE Find(d, e.name, {"file", "dir"}) # {} -> Finish(t) /\ cache' = c
          [] Find(d, e.name, {"file", "dir"}) = {} /\ Ends(d) # {} ->
                /\ cache' = Edited(c, FirstFree(d), e)
                /\ Goto(t, "back") /\ Locals(t, loc[t])
          [] OTHER -> Stray /\ cache' = c)
    BY <1>7, <1>9
  <2>2. c \in [pcs : Sectors, buf : Buffers] /\ BufferOK(c.buf) /\ d \in Listings
    BY <1>4, <1>5, <1>9, LoadedOK, CacheParts, Numbers
  <2>3. CASE Find(d, e.name, {"file", "dir"}) # {}
    <3>1. Finish(t) /\ cache' = c
      BY <2>1, <2>3
    <3>2. QED
      BY <1>1, <2>2, <3>1, Finishes, TaskParts
  <2>4. CASE Find(d, e.name, {"file", "dir"}) = {} /\ Ends(d) # {}
    <3>1. cache' = Edited(c, FirstFree(d), e) /\ Goto(t, "back") /\ Locals(t, loc[t])
      BY <2>1, <2>4
    <3>2. FirstFree(d) \in 1..NEnt
      BY <2>2, <2>4, FirstEndIs DEF FirstFree
    <3>3. e \in Entries
      BY <1>2, <1>6, LocsParts, NewEntryOK
    <3>4. cache' \in [pcs : Sectors, buf : Buffers] /\ BufferOK(cache'.buf)
      BY <1>5, <1>9, <2>2, <3>1, <3>2, <3>3, EditedOK
    <3>5. PICK l : l = [loc[t] EXCEPT !.missed = FALSE]
      OBVIOUS
    <3>6. l \in Locs /\ l.op = "mkdir" /\ l.missed = FALSE /\ loc' = [loc EXCEPT ![t] = l]
      BY <1>2, <3>1, <3>5 DEF Locs, Locals
    <3>7. CallOK("back", l, file[t]) /\ "back" \in PCs
      BY <3>6 DEF CallOK, PCs
    <3>8. QED
      BY <1>1, <3>1, <3>4, <3>6, <3>7, GoesOnAfresh
  <2>5. CASE Find(d, e.name, {"file", "dir"}) = {} /\ Ends(d) = {}
    <3>1. Stray /\ cache' = c
      BY <2>1, <2>5
    <3>2. QED
      BY <1>1, <2>2, <3>1, Strays
  <2>6. QED
    BY <2>3, <2>4, <2>5
<1>10. QED
  BY <1>8, <1>9

\* The buffer is written back.
LEMMA BackTyped ==
    ASSUME TypeInv, CallsOK, NEW t \in Tasks, Back(t)
    PROVE  TypeInv' /\ CallsOK'
<1>1. /\ fat' \in Fats /\ Ahead(fat')
      /\ cache' \in [pcs : Sectors, buf : Buffers] /\ BufferOK(cache'.buf)
      /\ mixed' \in BOOLEAN /\ stale' \in BOOLEAN /\ file' = file
      /\ file' = [file EXCEPT ![t] = file[t]]
  BY StillTyped, TaskParts DEF history, Back
<1>2. CASE cache.buf.of = FatSector
  <2>1. Stray /\ dirs' = dirs
    BY <1>2 DEF Back
  <2>2. QED
    BY <1>1, <2>1, Strays, StillTyped
<1>3. CASE cache.buf.of # FatSector
  <2>1. /\ dirs' = [dirs EXCEPT ![loc[t].sec] = cache.buf.dir]
        /\ IF loc[t].op = "mkdir" THEN Goto(t, "dots") /\ UNCHANGED loc ELSE Finish(t)
    BY <1>3 DEF Back
  <2>2. dirs' \in [DirSectors -> {NoDir} \cup Listings]
    BY <2>1, WrittenOK, StillTyped, CacheParts
  <2>3. CASE loc[t].op = "mkdir"
    <3>1. Goto(t, "dots") /\ loc' = [loc EXCEPT ![t] = loc[t]]
      BY <2>1, <2>3, TaskParts
    <3>2. CallOK("dots", loc[t], file[t]) /\ "dots" \in PCs
      BY <2>3 DEF CallOK, PCs
    <3>3. QED
      BY <1>1, <2>2, <3>1, <3>2, GoesOn, TaskParts
  <2>4. CASE loc[t].op # "mkdir"
    BY <1>1, <2>1, <2>2, <2>4, Finishes, TaskParts
  <2>5. QED
    BY <2>3, <2>4
<1>4. QED
  BY <1>2, <1>3

\* A new directory begins with its two entries, and nothing else.
LEMMA NewDirOK ==
    ASSUME NEW c \in Clusters, NEW d, d = NewDir(c)
    PROVE  /\ d \in Listings /\ Ended(d)
           /\ \A i \in 1..NEnt : d[i].name \notin Names
<1>1. EndEntry \in Entries /\ EndEntry.name = End /\ 0 \in Clusters
  BY EntryIs, Numbers DEF EndEntry
<1>2. PICK x : x = [EndEntry EXCEPT !.name = ".", !.kind = "dir", !.first = c]
  OBVIOUS
<1>3. PICK y : y = [EndEntry EXCEPT !.name = "..", !.kind = "dir"]
  OBVIOUS
<1>4. x \in Entries /\ x.name = "." /\ y \in Entries /\ y.name = ".."
  BY <1>1, <1>2, <1>3 DEF Entries
<1>5. d = [i \in 1..NEnt |-> CASE i = 1 -> x [] i = 2 -> y [] OTHER -> EndEntry]
  BY <1>2, <1>3 DEF NewDir
<1>6. /\ \A i \in 1..NEnt : d[i] \in {x, y, EndEntry}
      /\ \A i \in 1..NEnt : d[i].name = End => i # 1 /\ i # 2
      /\ \A i \in 1..NEnt : i # 1 /\ i # 2 => d[i] = EndEntry
  BY <1>1, <1>4, <1>5 DEF End
<1>7. d \in Listings
  BY <1>1, <1>4, <1>5, <1>6 DEF Listings
<1>8. Ended(d)
  <2>1. SUFFICES ASSUME NEW i \in 1..NEnt, NEW j \in 1..NEnt, i < j, d[i].name = End
                 PROVE  d[j].name = End
    BY DEF Ended
  <2>2. i # 1 /\ i # 2 /\ j # 1 /\ j # 2
    BY <1>6, <2>1, Numbers
  <2>3. QED
    BY <1>1, <1>6, <2>2
<1>9. ASSUME NEW i \in 1..NEnt
      PROVE  d[i].name \notin Names
  <2>1. d[i].name \in {".", "..", End}
    BY <1>1, <1>4, <1>6
  <2>2. QED
    BY <2>1, NamesApart
<1>10. QED
  BY <1>7, <1>8, <1>9

\* The new directory's own sector is written.
LEMMA DotsTyped ==
    ASSUME TypeInv, CallsOK, NEW t \in Tasks, Dots(t)
    PROVE  TypeInv' /\ CallsOK'
<1>1. /\ fat' \in Fats /\ Ahead(fat')
      /\ cache' \in [pcs : Sectors, buf : Buffers] /\ BufferOK(cache'.buf)
      /\ mixed' \in BOOLEAN /\ stale' \in BOOLEAN /\ file' = file
      /\ file' = [file EXCEPT ![t] = file[t]]
  BY StillTyped, TaskParts DEF history, Dots
<1>2. CASE loc[t].clu \notin DirSectors
  <2>1. Stray /\ dirs' = dirs
    BY <1>2 DEF Dots
  <2>2. QED
    BY <1>1, <2>1, Strays, StillTyped
<1>3. CASE loc[t].clu \in DirSectors
  <2>1. Finish(t) /\ dirs' = [dirs EXCEPT ![loc[t].clu] = NewDir(loc[t].clu)]
    BY <1>3 DEF Dots
  <2>2. NewDir(loc[t].clu) \in Listings
    BY <1>3, NewDirOK, Numbers
  <2>3. dirs' \in [DirSectors -> {NoDir} \cup Listings]
    BY <2>1, <2>2, WrittenOK, StillTyped
  <2>4. QED
    BY <1>1, <2>1, <2>3, Finishes, TaskParts
<1>4. QED
  BY <1>2, <1>3

------------------------------------------------------------------------------
(* Reading and writing files.                                                *)

\* A sector as it is read from the disk.
LEMMA ImageOK ==
    ASSUME TypeInv, NEW s \in DirSectors
    PROVE  /\ Image(s) \in Buffers /\ BufferOK(Image(s))
           /\ Image(s).of = s /\ Image(s).dir = dirs[s]
<1>1. Image(s) = [of |-> s, fat |-> <<>>, dir |-> dirs[s]] /\ s # FatSector
  BY Numbers DEF Image
<1>2. dirs[s] \in {NoDir} \cup Listings /\ s \in Sectors
  BY Numbers DEF TypeInv
<1>3. QED
  BY <1>1, <1>2 DEF Buffers, BufferOK

\* How much of a sector a call reads or writes at once.
LEMMA Chunk ==
    ASSUME NEW f \in Handles, NEW left \in Nat, NEW n,
           n = Min({left, Bps - (f.offset % Bps)})
    PROVE  /\ n \in Nat /\ n <= left /\ left - n \in Nat /\ n <= Bps - (f.offset % Bps)
           /\ f.offset \in Nat /\ f.offset + n \in Nat
           /\ f.offset % Bps \in 0..(Bps - 1) /\ f.offset \div Bps \in Nat
           /\ f.offset = Bps * (f.offset \div Bps) + (f.offset % Bps)
<1>1. /\ f.offset \in Nat
      /\ f.offset % Bps \in 0..(Bps - 1) /\ f.offset \div Bps \in Nat
      /\ f.offset = Bps * (f.offset \div Bps) + (f.offset % Bps)
  BY HandleParts, Divide
<1>2. Bps - (f.offset % Bps) \in Nat
  BY <1>1, Numbers
<1>3. n \in Nat /\ n <= left /\ n <= Bps - (f.offset % Bps)
  BY <1>2, MinOfTwo
<1>4. QED
  BY <1>1, <1>3

\* A call writes a sector it has already, asks for a cluster, or ends.
LEMMA WriteLoopTyped ==
    ASSUME TypeInv, CallsOK, NEW t \in Tasks, WriteLoop(t)
    PROVE  TypeInv' /\ CallsOK'
<1>1. /\ fat' \in Fats /\ Ahead(fat')
      /\ cache' \in [pcs : Sectors, buf : Buffers] /\ BufferOK(cache'.buf)
      /\ mixed' \in BOOLEAN /\ stale' \in BOOLEAN
  BY StillTyped DEF history, WriteLoop
<1>2. loc[t] \in Locs /\ Writing(loc[t], file[t]) /\ file[t] \in Handles /\ ~file[t].plain
  BY TaskParts DEF CallOK, WriteLoop, Writing, Reading
<1>3. PICK f \in Handles : f = file[t]
  BY <1>2
<1>4. PICK n : n = Min({loc[t].left, Bps - (f.offset % Bps)})
  OBVIOUS
<1>5. CASE loc[t].left = 0 /\ Goto(t, "size") /\ UNCHANGED <<dirs, file, loc>>
  <2>1. /\ loc' = [loc EXCEPT ![t] = loc[t]] /\ file' = [file EXCEPT ![t] = file[t]]
        /\ dirs' \in [DirSectors -> {NoDir} \cup Listings]
    BY <1>5, TaskParts, StillTyped
  <2>2. CallOK("size", loc[t], file[t]) /\ "size" \in PCs
    BY <1>2 DEF CallOK, PCs
  <2>3. QED
    BY <1>1, <1>5, <2>1, <2>2, GoesOn, TaskParts
<1>6. CASE /\ loc[t].left > 0
           /\ IF f.cblk \notin Data THEN Stray /\ UNCHANGED <<dirs, file>>
              ELSE /\ dirs' = [dirs EXCEPT ![f.cblk] = NoDir]
                   /\ file' = [file EXCEPT ![t].offset = @ + n]
                   /\ Locals(t, [loc[t] EXCEPT !.left = @ - n]) /\ UNCHANGED <<pc, astray>>
  <2>1. CASE f.cblk \notin Data
    <3>1. Stray /\ dirs' = dirs /\ file' = file
      BY <1>6, <2>1
    <3>2. QED
      BY <1>1, <3>1, Strays, StillTyped
  <2>2. CASE f.cblk \in Data
    <3>1. n \in Nat /\ loc[t].left - n \in Nat /\ f.offset + n \in Nat
      BY <1>2, <1>4, Chunk, LocsParts
    <3>2. PICK k : k = [loc[t] EXCEPT !.left = loc[t].left - n]
      OBVIOUS
    <3>3. PICK l : l = [k EXCEPT !.missed = FALSE]
      OBVIOUS
    <3>4. l \in Locs /\ l.op = loc[t].op /\ loc' = [loc EXCEPT ![t] = l]
      BY <1>2, <1>6, <2>2, <3>1, <3>2, <3>3 DEF Locs, Locals
    <3>5. PICK h : h = [f EXCEPT !.offset = f.offset + n]
      OBVIOUS
    <3>6. h \in Handles /\ ~h.plain /\ file' = [file EXCEPT ![t] = h]
      BY <1>2, <1>3, <1>6, <2>2, <3>1, <3>5 DEF Handles
    <3>7. dirs' \in [DirSectors -> {NoDir} \cup Listings]
      BY <1>6, <2>2, WrittenOK, StillTyped
    <3>8. CallOK("loop", l, h) /\ HandleOK(h) /\ "loop" \in PCs
      BY <1>2, <3>4, <3>6 DEF CallOK, HandleOK, PCs, Writing
    <3>9. Goto(t, "loop")
      BY <1>6, <2>2, TaskParts DEF Goto, WriteLoop
    <3>10. QED
      BY <1>1, <3>4, <3>6, <3>7, <3>8, <3>9, GoesOn
  <2>3. QED
    BY <2>1, <2>2
<1>7. CASE loc[t].left > 0 /\ Goto(t, "fatread") /\ UNCHANGED <<dirs, file, loc>>
  <2>1. /\ loc' = [loc EXCEPT ![t] = loc[t]] /\ file' = [file EXCEPT ![t] = file[t]]
        /\ dirs' \in [DirSectors -> {NoDir} \cup Listings]
    BY <1>7, TaskParts, StillTyped
  <2>2. CallOK("fatread", loc[t], file[t]) /\ "fatread" \in PCs
    BY <1>2, <1>7 DEF CallOK, PCs
  <2>3. QED
    BY <1>1, <1>7, <2>1, <2>2, GoesOn, TaskParts
<1>8. QED
  BY <1>3, <1>4, <1>5, <1>6, <1>7 DEF WriteLoop

\* A call writes a sector of a new cluster.
LEMMA WriteDataTyped ==
    ASSUME TypeInv, CallsOK, NEW t \in Tasks, WriteData(t)
    PROVE  TypeInv' /\ CallsOK'
<1>1. /\ fat' \in Fats /\ Ahead(fat')
      /\ cache' \in [pcs : Sectors, buf : Buffers] /\ BufferOK(cache'.buf)
      /\ mixed' \in BOOLEAN /\ stale' \in BOOLEAN
  BY StillTyped DEF history, WriteData
<1>2. loc[t] \in Locs /\ Writing(loc[t], file[t]) /\ file[t] \in Handles /\ ~file[t].plain
  BY TaskParts DEF CallOK, WriteData, Writing
<1>3. PICK f \in Handles : f = file[t]
  BY <1>2
<1>4. PICK n : n = Min({loc[t].left, Bps})
  OBVIOUS
<1>5. IF f.cblk \notin Data THEN Stray /\ UNCHANGED <<dirs, file>>
      ELSE /\ dirs' = [dirs EXCEPT ![f.cblk] = NoDir]
           /\ file' = [file EXCEPT ![t].offset = @ + n, ![t].cblk = @ + 1]
           /\ Locals(t, [loc[t] EXCEPT !.left = @ - n]) /\ Goto(t, "loop")
  BY <1>3, <1>4 DEF WriteData
<1>6. CASE f.cblk \notin Data
  <2>1. Stray /\ dirs' = dirs /\ file' = file
    BY <1>5, <1>6
  <2>2. QED
    BY <1>1, <2>1, Strays, StillTyped
<1>7. CASE f.cblk \in Data
  <2>1. /\ loc[t].left \in Nat /\ f.offset \in Nat /\ f.cblk \in Nat /\ Bps \in Nat
        /\ n \in Nat /\ n <= loc[t].left
    BY <1>2, <1>4, LocsParts, HandleParts, Numbers, MinOfTwo
  <2>2. loc[t].left - n \in Nat /\ f.offset + n \in Nat /\ f.cblk + 1 \in Nat
    BY <2>1
  <2>3. PICK k : k = [loc[t] EXCEPT !.left = loc[t].left - n]
    OBVIOUS
  <2>4. PICK l : l = [k EXCEPT !.missed = FALSE]
    OBVIOUS
  <2>5. l \in Locs /\ l.op = loc[t].op /\ loc' = [loc EXCEPT ![t] = l]
    BY <1>2, <1>5, <1>7, <2>2, <2>3, <2>4 DEF Locs, Locals
  <2>6. PICK h : h = [f EXCEPT !.offset = f.offset + n, !.cblk = f.cblk + 1]
    OBVIOUS
  <2>7. h \in Handles /\ ~h.plain
    BY <1>2, <1>3, <2>2, <2>6 DEF Handles
  <2>8. file' = [file EXCEPT ![t] = h]
    BY <1>3, <1>5, <1>7, <2>6, StillTyped DEF TypeInv
  <2>9. dirs' \in [DirSectors -> {NoDir} \cup Listings]
    BY <1>5, <1>7, WrittenOK, StillTyped
  <2>10. CallOK("loop", l, h) /\ HandleOK(h) /\ "loop" \in PCs
    BY <1>2, <2>5, <2>7 DEF CallOK, HandleOK, PCs, Writing
  <2>11. QED
    BY <1>1, <1>5, <1>7, <2>5, <2>7, <2>8, <2>9, <2>10, GoesOn
<1>8. QED
  BY <1>6, <1>7

\* The size of the file is brought up to date.
LEMMA SizeTyped ==
    ASSUME TypeInv, CallsOK, NEW t \in Tasks, Size(t)
    PROVE  TypeInv' /\ CallsOK'
<1>1. /\ fat' \in Fats /\ Ahead(fat') /\ dirs' \in [DirSectors -> {NoDir} \cup Listings]
      /\ mixed' \in BOOLEAN /\ stale' \in BOOLEAN
  BY StillTyped DEF disk, Size
<1>2. loc[t] \in Locs /\ Writing(loc[t], file[t]) /\ file[t] \in Handles /\ ~file[t].plain
  BY TaskParts DEF CallOK, Size, Writing
<1>3. PICK f \in Handles : f = file[t]
  BY <1>2
<1>4. PICK c : c = Loaded(t, f.sec)
  OBVIOUS
<1>5. PICK d : d = c.buf.dir
  OBVIOUS
<1>6. c \in [pcs : Sectors, buf : Buffers] /\ BufferOK(c.buf) /\ f.sec \in DirSectors
      /\ f.idx \in 1..NEnt
  BY <1>4, LoadedOK, HandleParts
<1>7. PICK e : e = [d[f.idx] EXCEPT !.size = @ + loc[t].size, !.mark = NoSector]
  OBVIOUS
<1>8. IF d = NoDir THEN Stray /\ cache' = c /\ UNCHANGED file
      ELSE /\ cache' = Edited(c, f.idx, e)
           /\ file' = [file EXCEPT ![t].offset = @ + loc[t].size]
           /\ Locals(t, [loc[t] EXCEPT !.sec = f.sec]) /\ Goto(t, "back")
  BY <1>3, <1>4, <1>5, <1>7, Zenon DEF Size
<1>9. CASE d = NoDir
  <2>1. Stray /\ cache' = c /\ file' = file
    BY <1>8, <1>9
  <2>2. QED
    BY <1>1, <1>6, <2>1, Strays
<1>10. CASE d # NoDir
  <2>1. /\ cache' = Edited(c, f.idx, e) /\ Goto(t, "back")
        /\ file' = [file EXCEPT ![t].offset = @ + loc[t].size]
        /\ Locals(t, [loc[t] EXCEPT !.sec = f.sec])
    BY <1>8, <1>10
  <2>2. loc[t].size \in Nat /\ f.offset \in Nat /\ f.sec \in Clusters
    BY <1>2, <1>6, LocsParts, HandleParts, Numbers
  <2>3. d[f.idx] \in Entries
    BY <1>5, <1>6, <1>10, CacheParts, ListingParts
  <2>4. e \in Entries
    <3>1. PICK x \in Entries : x = d[f.idx]
      BY <2>3
    <3>2. x.size + loc[t].size \in Nat
      BY <2>2, <3>1 DEF Entries
    <3>3. PICK m \in Nat : m = x.size + loc[t].size
      BY <3>2
    <3>4. e = [x EXCEPT !.size = m, !.mark = NoSector]
      BY <1>7, <3>1, <3>3
    <3>5. QED
      BY <3>1, <3>4 DEF Entries
  <2>5. cache' \in [pcs : Sectors, buf : Buffers] /\ BufferOK(cache'.buf)
    BY <1>5, <1>6, <1>10, <2>1, <2>4, EditedOK
  <2>6. PICK k : k = [loc[t] EXCEPT !.sec = f.sec]
    OBVIOUS
  <2>7. PICK l : l = [k EXCEPT !.missed = FALSE]
    OBVIOUS
  <2>8. l \in Locs /\ l.op = "write" /\ loc' = [loc EXCEPT ![t] = l]
    BY <1>2, <2>1, <2>2, <2>6, <2>7 DEF Locs, Locals, Writing
  <2>9. PICK h : h = [f EXCEPT !.offset = f.offset + loc[t].size]
    OBVIOUS
  <2>10. h \in Handles /\ ~h.plain
    BY <1>2, <1>3, <2>2, <2>9 DEF Handles
  <2>11. file' = [file EXCEPT ![t] = h]
    BY <1>3, <2>1, <2>9 DEF TypeInv
  <2>12. CallOK("back", l, h) /\ HandleOK(h) /\ "back" \in PCs
    BY <2>8, <2>10 DEF CallOK, HandleOK, PCs
  <2>13. QED
    BY <1>1, <2>1, <2>5, <2>8, <2>10, <2>11, <2>12, GoesOn
<1>11. QED
  BY <1>9, <1>10

\* A call reads a sector into the buffer.
LEMMA ReadLoopTyped ==
    ASSUME TypeInv, CallsOK, NEW t \in Tasks, ReadLoop(t)
    PROVE  TypeInv' /\ CallsOK'
<1>1. /\ fat' \in Fats /\ Ahead(fat') /\ dirs' \in [DirSectors -> {NoDir} \cup Listings]
      /\ mixed' \in BOOLEAN /\ stale' \in BOOLEAN /\ file' = file
      /\ file' = [file EXCEPT ![t] = file[t]]
  BY StillTyped, TaskParts DEF disk, history, ReadLoop
<1>2. loc[t] \in Locs /\ Reading(loc[t], file[t]) /\ file[t] \in Handles
  BY TaskParts DEF CallOK, ReadLoop, Reading, Writing
<1>3. PICK f \in Handles : f = file[t]
  BY <1>2
<1>4. PICK whole : whole = (f.offset % Bps = 0 /\ loc[t].left = Bps)
  OBVIOUS
<1>5. (CASE loc[t].left = 0 -> Finish(t) /\ UNCHANGED cache
         [] loc[t].left > 0 /\ f.cblk \in Data ->
               /\ cache' = [pcs |-> IF whole THEN cache.pcs ELSE NoSector,
                            buf |-> Image(f.cblk)]
               /\ Goto(t, "next") /\ UNCHANGED loc
         [] OTHER -> Stray /\ UNCHANGED cache)
  BY <1>3, <1>4, Zenon DEF ReadLoop
<1>6. loc[t].left \in Nat
  BY <1>2, LocsParts
<1>7. CASE loc[t].left = 0
  <2>1. Finish(t) /\ cache' = cache
    BY <1>5, <1>7
  <2>2. QED
    BY <1>1, <2>1, Finishes, TaskParts, StillTyped
<1>8. CASE loc[t].left > 0 /\ f.cblk \in Data
  <2>1. /\ cache' = [pcs |-> IF whole THEN cache.pcs ELSE NoSector, buf |-> Image(f.cblk)]
        /\ Goto(t, "next") /\ loc' = loc
    BY <1>5, <1>6, <1>8
  <2>2. Image(f.cblk) \in Buffers /\ BufferOK(Image(f.cblk))
    BY <1>8, ImageOK, Numbers
  <2>3. PICK q \in Sectors : q = (IF whole THEN cache.pcs ELSE NoSector)
    BY CacheParts, StillTyped DEF Sectors
  <2>4. cache' \in [pcs : Sectors, buf : Buffers] /\ BufferOK(cache'.buf)
    BY <2>1, <2>2, <2>3
  <2>5. CallOK("next", loc[t], file[t]) /\ "next" \in PCs /\ loc' = [loc EXCEPT ![t] = loc[t]]
    BY <1>2, <1>3, <1>8, <2>1, TaskParts DEF CallOK, PCs
  <2>6. QED
    BY <1>1, <2>1, <2>4, <2>5, GoesOn, TaskParts
<1>9. CASE loc[t].left > 0 /\ f.cblk \notin Data
  <2>1. Stray /\ cache' = cache
    BY <1>5, <1>6, <1>9
  <2>2. QED
    BY <1>1, <2>1, Strays, StillTyped
<1>10. QED
  BY <1>6, <1>7, <1>8, <1>9

\* The handle goes on, and to the next cluster at the end of one: a reader in
\* its place stays in its place, for a link leads to the next cluster.
LEMMA ReadNextTyped ==
    ASSUME TypeInv, CallsOK, NEW t \in Tasks, ReadNext(t)
    PROVE  TypeInv' /\ CallsOK'
<1>1. /\ fat' \in Fats /\ Ahead(fat') /\ dirs' \in [DirSectors -> {NoDir} \cup Listings]
      /\ mixed' \in BOOLEAN
  BY StillTyped DEF disk, ReadNext
<1>2. /\ loc[t] \in Locs /\ Reading(loc[t], file[t]) /\ file[t] \in Handles
      /\ file[t].cblk \in Data /\ HandleOK(file[t])
  BY TaskParts DEF CallOK, ReadNext, Reading
<1>3. PICK f \in Handles : f = file[t]
  BY <1>2
<1>4. PICK n : n = Min({loc[t].left, Bps - (f.offset % Bps)})
  OBVIOUS
<1>5. /\ n \in Nat /\ loc[t].left - n \in Nat /\ n <= Bps - (f.offset % Bps)
      /\ f.offset \in Nat /\ f.offset + n \in Nat
      /\ f.offset % Bps \in 0..(Bps - 1) /\ f.offset \div Bps \in Nat
      /\ f.offset = Bps * (f.offset \div Bps) + (f.offset % Bps)
  BY <1>2, <1>4, Chunk, LocsParts
<1>6. PICK k : k = [loc[t] EXCEPT !.left = loc[t].left - n]
  OBVIOUS
<1>7. PICK l : l = [k EXCEPT !.missed = FALSE]
  OBVIOUS
<1>8. l \in Locs /\ l.op = "read"
  BY <1>2, <1>5, <1>6, <1>7 DEF Locs, Reading
<1>9. PICK b : b = Loaded(t, FatSector).buf
  OBVIOUS
<1>10. ASSUME NEW c \in Nat, NEW h, h = [f EXCEPT !.cblk = c, !.offset = f.offset + n],
              c \in Data /\ f.plain => c = f.sblk + ((f.offset + n) \div Bps),
              file' = [file EXCEPT ![t] = h], Locals(t, [loc[t] EXCEPT !.left = @ - n]),
              Goto(t, "loop"), stale' \in BOOLEAN,
              cache' \in [pcs : Sectors, buf : Buffers], BufferOK(cache'.buf)
       PROVE  TypeInv' /\ CallsOK'
  <2>1. /\ h \in Handles /\ h.plain = f.plain /\ h.cblk = c /\ h.sblk = f.sblk
        /\ h.offset = f.offset + n
    BY <1>5, <1>10 DEF Handles
  <2>2. HandleOK(h)
    BY <1>10, <2>1 DEF HandleOK
  <2>3. loc' = [loc EXCEPT ![t] = l]
    BY <1>6, <1>7, <1>10 DEF Locals
  <2>4. CallOK("loop", l, h) /\ "loop" \in PCs
    BY <1>8, <2>1 DEF CallOK, PCs, Reading
  <2>5. QED
    BY <1>1, <1>8, <1>10, <2>1, <2>2, <2>3, <2>4, GoesOn
<1>11. f.plain => f.cblk = f.sblk + (f.offset \div Bps)
  BY <1>2, <1>3, NoFileAssumption DEF HandleOK
<1>12. f.sblk \in Nat /\ f.cblk \in Nat /\ Bps \in Nat
  BY HandleParts, Numbers
<1>13. CASE (f.offset % Bps) + n < Bps
  <2>1. /\ file' = [file EXCEPT ![t] = [f EXCEPT !.cblk = f.cblk, !.offset = @ + n]]
        /\ Locals(t, [loc[t] EXCEPT !.left = @ - n]) /\ Goto(t, "loop")
        /\ UNCHANGED <<cache, stale>>
    BY <1>3, <1>4, <1>13 DEF ReadNext
  <2>2. (f.offset + n) \div Bps = f.offset \div Bps
    <3>1. PICK q \in Nat, r \in 0..(Bps - 1) :
             q = f.offset \div Bps /\ r = f.offset % Bps /\ f.offset = Bps * q + r
      BY <1>5
    <3>2. r + n \in 0..(Bps - 1) /\ Bps * q \in Nat
      BY <1>5, <1>12, <1>13, <3>1
    <3>3. f.offset + n = Bps * q + (r + n)
      BY <1>5, <1>12, <3>1, <3>2
    <3>4. QED
      BY <1>5, <3>1, <3>2, <3>3, DivideOnce
  <2>3. QED
    BY <1>10, <1>11, <1>12, <2>1, <2>2, StillTyped
<1>14. CASE ~((f.offset % Bps) + n < Bps)
  <2>1. /\ Load(t, FatSector)
        /\ CASE b.of # FatSector -> Stray /\ UNCHANGED file
             [] b.of = FatSector /\ Invalid(b.fat[f.cblk]) -> Finish(t) /\ UNCHANGED file
             [] OTHER -> /\ file' = [file EXCEPT ![t] = [f EXCEPT !.cblk = b.fat[f.cblk],
                                                                  !.offset = @ + n]]
                         /\ Locals(t, [loc[t] EXCEPT !.left = @ - n]) /\ Goto(t, "loop")
    BY <1>3, <1>4, <1>9, <1>14 DEF ReadNext
  <2>2. /\ stale' \in BOOLEAN
        /\ cache' \in [pcs : Sectors, buf : Buffers] /\ BufferOK(cache'.buf) /\ BufferOK(b)
    BY <1>9, <2>1, LoadedOK, StillTyped DEF Load
  <2>3. CASE b.of # FatSector
    <3>1. Stray /\ file' = file
      BY <2>1, <2>3
    <3>2. QED
      BY <1>1, <2>2, <3>1, Strays
  <2>4. CASE b.of = FatSector /\ Invalid(b.fat[f.cblk])
    <3>1. Finish(t) /\ file' = file /\ file' = [file EXCEPT ![t] = file[t]]
      BY <2>1, <2>4, TaskParts
    <3>2. QED
      BY <1>1, <2>2, <3>1, Finishes, TaskParts
  <2>5. CASE b.of = FatSector /\ ~Invalid(b.fat[f.cblk])
    <3>1. PICK c : c = b.fat[f.cblk]
      OBVIOUS
    <3>2. /\ file' = [file EXCEPT ![t] = [f EXCEPT !.cblk = c, !.offset = @ + n]]
          /\ Locals(t, [loc[t] EXCEPT !.left = @ - n]) /\ Goto(t, "loop")
      BY <2>1, <2>5, <3>1
    <3>3. c \in {0, Eoc, f.cblk + 1} /\ c # Eoc
      <4>1. f.cblk \in Data /\ Ahead(b.fat)
        BY <1>2, <1>3, <2>2, <2>5 DEF BufferOK
      <4>2. c \in {0, Eoc, f.cblk + 1}
        BY <3>1, <4>1 DEF Ahead
      <4>3. ~(c >= Eoc)
        BY <2>5, <3>1 DEF Invalid
      <4>4. Eoc >= Eoc
        BY Numbers
      <4>5. QED
        BY <4>2, <4>3, <4>4
    <3>4. c \in Nat /\ (c \in Data => c = f.cblk + 1)
      BY <1>12, <3>3, Numbers
    <3>5. (f.offset + n) \div Bps = (f.offset \div Bps) + 1
      <4>1. PICK q \in Nat, r \in 0..(Bps - 1) :
               q = f.offset \div Bps /\ r = f.offset % Bps /\ f.offset = Bps * q + r
        BY <1>5
      <4>2. r + n = Bps /\ Bps * q \in Nat
        <5>1. n <= Bps - r /\ ~(r + n < Bps) /\ n \in Nat /\ r \in Nat
          BY <1>5, <1>14, <4>1
        <5>2. QED
          BY <1>12, <4>1, <5>1
      <4>3. Bps * (q + 1) = Bps * q + Bps
        BY <1>12, <4>1
      <4>4. f.offset + n = Bps * (q + 1) + 0 /\ 0 \in 0..(Bps - 1) /\ q + 1 \in Nat
        <5>1. f.offset + n = Bps * q + Bps
          <6>1. PICK m \in Nat : m = Bps * q
            BY <4>2
          <6>2. f.offset = m + r
            BY <4>1, <6>1
          <6>3. r \in Nat /\ n \in Nat
            BY <1>5, <4>1
          <6>4. f.offset + n = m + Bps
            BY <4>2, <6>1, <6>2, <6>3
          <6>5. QED
            BY <6>1, <6>4
        <5>2. Bps * (q + 1) \in Nat /\ 0 \in 0..(Bps - 1)
          <6>1. Bps * q + Bps \in Nat
            BY <1>12, <4>2
          <6>2. QED
            BY <4>3, <6>1, Numbers
        <5>3. QED
          BY <4>1, <4>3, <5>1, <5>2
      <4>5. QED
        BY <1>5, <4>1, <4>4, DivideOnce
    <3>6. c \in Data /\ f.plain => c = f.sblk + ((f.offset + n) \div Bps)
      <4>1. PICK q \in Nat : q = f.offset \div Bps
        BY <1>5
      <4>2. QED
        BY <1>11, <1>12, <3>4, <3>5, <4>1
    <3>7. QED
      BY <1>10, <2>2, <3>2, <3>4, <3>6
  <2>6. QED
    BY <2>3, <2>4, <2>5
<1>15. QED
  BY <1>13, <1>14

\* readdir goes on to the next entry.
LEMMA ListTyped ==
    ASSUME TypeInv, CallsOK, NEW t \in Tasks, List(t)
    PROVE  TypeInv' /\ CallsOK'
<1>1. /\ fat' \in Fats /\ Ahead(fat') /\ dirs' \in [DirSectors -> {NoDir} \cup Listings]
      /\ mixed' \in BOOLEAN /\ file' = file /\ file' = [file EXCEPT ![t] = file[t]]
  BY StillTyped, TaskParts DEF disk, List
<1>2. loc[t] \in Locs /\ loc[t].op = "list" /\ loc[t].idx \in 1..(NEnt + 1) /\ pc[t] = "list"
  BY TaskParts, LocsParts DEF CallOK, List
<1>3. PICK s : s = loc[t].sec
  OBVIOUS
<1>4. PICK d : d = Listed(t, s)
  OBVIOUS
<1>5. PICK at : at = {i \in loc[t].idx..NEnt : d[i].name # Free}
  OBVIOUS
<1>6. IF s \notin DirSectors THEN Stray /\ UNCHANGED <<cache, stale>>
      ELSE /\ Load(t, s)
           /\ CASE d = NoDir \/ (d # NoDir /\ at = {}) -> Stray
                [] d # NoDir /\ at # {} /\ d[Min(at)].name = End -> Finish(t)
                [] OTHER -> /\ Locals(t, [loc[t] EXCEPT !.idx = Min(at) + 1])
                            /\ UNCHANGED <<pc, astray>>
  BY <1>3, <1>4, <1>5, Zenon DEF List
<1>7. CASE s \notin DirSectors
  <2>1. Stray /\ cache' = cache /\ stale' \in BOOLEAN
    BY <1>6, <1>7, StillTyped
  <2>2. QED
    BY <1>1, <2>1, Strays, StillTyped
<1>8. CASE s \in DirSectors
  <2>1. /\ Load(t, s)
        /\ CASE d = NoDir \/ (d # NoDir /\ at = {}) -> Stray
             [] d # NoDir /\ at # {} /\ d[Min(at)].name = End -> Finish(t)
             [] OTHER -> /\ Locals(t, [loc[t] EXCEPT !.idx = Min(at) + 1])
                         /\ UNCHANGED <<pc, astray>>
    BY <1>6, <1>8
  <2>2. /\ stale' \in BOOLEAN
        /\ cache' \in [pcs : Sectors, buf : Buffers] /\ BufferOK(cache'.buf)
    BY <1>8, <2>1, LoadedOK, StillTyped DEF Load
  <2>3. CASE d = NoDir \/ (d # NoDir /\ at = {})
    <3>1. Stray
      BY <2>1, <2>3
    <3>2. QED
      BY <1>1, <2>2, <3>1, Strays
  <2>4. CASE d # NoDir /\ at # {} /\ d[Min(at)].name = End
    <3>1. Finish(t)
      BY <2>1, <2>4
    <3>2. QED
      BY <1>1, <2>2, <3>1, Finishes, TaskParts
  <2>5. CASE d # NoDir /\ at # {} /\ d[Min(at)].name # End
    <3>1. PICK i : i = Min(at)
      OBVIOUS
    <3>2. Locals(t, [loc[t] EXCEPT !.idx = i + 1]) /\ pc' = pc /\ astray' = astray
      BY <2>1, <2>5, <3>1
    <3>3. at \subseteq Nat /\ at \subseteq 1..NEnt
      BY <1>2, <1>5, Numbers
    <3>4. i + 1 \in 1..(NEnt + 1)
      <4>1. i \in 1..NEnt
        BY <2>5, <3>1, <3>3, MinIsLeast
      <4>2. QED
        BY <4>1, Numbers
    <3>5. PICK k : k = [loc[t] EXCEPT !.idx = i + 1]
      OBVIOUS
    <3>6. PICK l : l = [k EXCEPT !.missed = FALSE]
      OBVIOUS
    <3>7. l \in Locs /\ l.op = "list" /\ l.missed = FALSE /\ loc' = [loc EXCEPT ![t] = l]
      BY <1>2, <3>2, <3>4, <3>5, <3>6 DEF Locs, Locals
    <3>8. CallOK("list", l, file[t]) /\ "list" \in PCs
      BY <3>7 DEF CallOK, PCs
    <3>9. Goto(t, "list")
      BY <1>2, <3>2, TaskParts DEF Goto
    <3>10. QED
      BY <1>1, <2>2, <3>7, <3>8, <3>9, GoesOnAfresh
  <2>6. QED
    BY <2>3, <2>4, <2>5
<1>9. QED
  BY <1>7, <1>8

------------------------------------------------------------------------------
(* One call at a time.                                                       *)

\* The call under way, and what the others are about.
LEMMA Busy ==
    ASSUME Alone, NEW t \in Tasks, pc[t] # "idle"
    PROVE  /\ Linked(fat) /\ AloneAt(pc[t], loc[t], fat, dirs, cache.buf)
           /\ \A u \in Tasks : u # t => pc[u] = "idle"
BY DEF Alone

\* A step of the one call there is.
LEMMA AloneMoves ==
    ASSUME TypeInv, NEW t \in Tasks, \A u \in Tasks : u # t => pc[u] = "idle",
           NEW p, NEW l, pc' = [pc EXCEPT ![t] = p], loc' = [loc EXCEPT ![t] = l],
           Linked(fat'), p = "idle" => Owned(fat', dirs'),
           p # "idle" => AloneAt(p, l, fat', dirs', cache'.buf)
    PROVE  Alone'
<1>1. pc'[t] = p /\ loc'[t] = l /\ \A u \in Tasks : u # t => pc'[u] = "idle"
  BY DEF TypeInv
<1>2. (\A u \in Tasks : pc'[u] = "idle") => Owned(fat', dirs')
  BY <1>1
<1>3. \A u, v \in Tasks : pc'[u] # "idle" /\ pc'[v] # "idle" => u = v
  BY <1>1
<1>4. \A u \in Tasks : pc'[u] # "idle" => AloneAt(pc'[u], loc'[u], fat', dirs', cache'.buf)
  BY <1>1
<1>5. QED
  BY <1>2, <1>3, <1>4 DEF Alone

\* A step that ends the call.
LEMMA AloneFinishes ==
    ASSUME TypeInv, NEW t \in Tasks, \A u \in Tasks : u # t => pc[u] = "idle", Finish(t),
           Linked(fat'), Owned(fat', dirs')
    PROVE  Alone'
BY AloneMoves DEF Finish, Goto

\* A step that goes astray is not one of these.
LEMMA NotAstray ==
    ASSUME ~astray'
    PROVE  ~Stray
BY DEF Stray

\* A step to where nothing more is said of the disk than between two calls.
LEMMA AloneGoesOn ==
    ASSUME TypeInv, NEW t \in Tasks, \A u \in Tasks : u # t => pc[u] = "idle", NEW p, Goto(t, p),
           NEW l, loc' = [loc EXCEPT ![t] = l],
           \/ p \in {"lookup", "scan", "list", "loop", "data", "size", "next"}
           \/ p = "fatread" /\ l.op = "write",
           Linked(fat'), Owned(fat', dirs')
    PROVE  Alone'
<1>1. AloneAt(p, l, fat', dirs', cache'.buf)
  BY DEF AloneAt, Erasing
<1>2. p # "idle"
  OBVIOUS
<1>3. QED
  BY <1>1, <1>2, AloneMoves DEF Goto

\* A call can only begin when there is none.
LEMMA AloneBegins ==
    ASSUME TypeInv, Alone, NEW t \in Tasks, NEW l, NEW p \in {"lookup", "list", "loop"},
           Begin(t, l, p), ~mixed', UNCHANGED disk
    PROVE  Alone'
<1>1. \A u \in Tasks : pc[u] = "idle"
  BY DEF Begin
<1>2. Owned(fat, dirs) /\ Linked(fat)
  BY <1>1 DEF Alone
<1>3. PICK k : k = [l EXCEPT !.missed = FALSE]
  OBVIOUS
<1>4. loc' = [loc EXCEPT ![t] = k] /\ Goto(t, p) /\ fat' = fat /\ dirs' = dirs
  BY <1>3 DEF Begin, Locals, disk
<1>5. QED
  BY <1>1, <1>2, <1>4, AloneGoesOn

\* A call that begins, and lseek.
LEMMA CallsAlone ==
    ASSUME TypeInv, CallsOK, Alone, NEW t \in Tasks, ~mixed',
           CallOnPath(t) \/ CallOpendir(t) \/ CallWrite(t) \/ CallRead(t)
    PROVE  Alone'
<1>1. UNCHANGED disk
  BY DEF CallOnPath, CallOpendir, CallWrite, CallRead
<1>2. \E l : Begin(t, l, "lookup") \/ Begin(t, l, "list") \/ Begin(t, l, "loop")
  <2>1. CASE CallOnPath(t)
    BY <2>1 DEF CallOnPath
  <2>2. CASE CallOpendir(t)
    <3>1. PICK p \in {<<>>} \cup {<<d>> : d \in Names} :
            IF p = <<>> THEN Begin(t, [loc[t] EXCEPT !.op = "list", !.sec = Root], "list")
            ELSE Begin(t, [loc[t] EXCEPT !.op = "list", !.path = p], "lookup")
      BY <2>2 DEF CallOpendir
    <3>2. QED
      BY <3>1
  <2>3. CASE CallWrite(t)
    BY <2>3 DEF CallWrite
  <2>4. CASE CallRead(t)
    BY <2>4 DEF CallRead
  <2>5. QED
    BY <2>1, <2>2, <2>3, <2>4
<1>3. QED
  BY <1>1, <1>2, AloneBegins

\* lseek changes nothing but a handle.
LEMMA SeekAlone ==
    ASSUME Alone, NEW t \in Tasks, Seek(t)
    PROVE  Alone'
BY DEF Seek, Alone, disk

\* A call goes to wait for the disk.
LEMMA MissAlone ==
    ASSUME TypeInv, CallsOK, Alone, NEW t \in Tasks, Miss(t)
    PROVE  Alone'
<1>1. loc' = [loc EXCEPT ![t].missed = TRUE] /\ UNCHANGED <<disk, cache, file, pc, history, astray>>
  BY DEF Miss
<1>2. pc[t] # "idle"
  BY DEF Miss
<1>3. PICK l : l = [loc[t] EXCEPT !.missed = TRUE]
  OBVIOUS
<1>4. loc' = [loc EXCEPT ![t] = l] /\ pc' = [pc EXCEPT ![t] = pc[t]]
  BY <1>1, <1>3, TaskParts
<1>5. l.op = loc[t].op /\ l.sec = loc[t].sec /\ l.idx = loc[t].idx /\ l.clu = loc[t].clu
  BY <1>3, TaskParts DEF Locs
<1>6. pc[t] \in {"lookup", "entry", "load", "size", "next", "list"}
  BY DEF Miss
<1>7. AloneAt(pc[t], l, fat, dirs, cache.buf)
  BY <1>2, <1>5, <1>6, Busy DEF AloneAt
<1>8. fat' = fat /\ dirs' = dirs /\ cache' = cache
  BY <1>1 DEF disk
<1>9. QED
  BY <1>2, <1>4, <1>7, <1>8, Busy, AloneMoves

------------------------------------------------------------------------------
(* A sector in the buffer that is not older than the disk.                   *)

\* What a step that sees such a sector knows of it.
LEMMA NotStale ==
    ASSUME TypeInv, NEW t, NEW s \in DirSectors, Looked(t, s), ~stale',
           NEW c, c = Loaded(t, s), c.buf.dir # NoDir
    PROVE  /\ c \in [pcs : Sectors, buf : Buffers] /\ BufferOK(c.buf)
           /\ c.buf.dir \in Listings /\ c.buf.of = s
           /\ dirs[s] \in Listings /\ dirs[s] # NoDir /\ Matches(c.buf.dir, dirs[s])
<1>1. c \in [pcs : Sectors, buf : Buffers] /\ BufferOK(c.buf) /\ c.buf.dir \in Listings
  BY LoadedOK, CacheParts
<1>2. c.buf.of = s /\ ~Older(c.buf)
  BY DEF Looked
<1>3. PICK d \in Listings : d = c.buf.dir
  BY <1>1
<1>4. PICK e \in {NoDir} \cup Listings : e = dirs[s]
  BY DEF TypeInv
<1>5. Unmarked(d) = Unmarked(e)
  BY <1>2, <1>3, <1>4, ImageOK DEF Older
<1>6. DOMAIN Unmarked(d) = DOMAIN d /\ DOMAIN Unmarked(e) = DOMAIN e
  BY DEF Unmarked
<1>7. e \in Listings
  <2>1. DOMAIN d = 1..NEnt /\ 1 \in 1..NEnt
    BY ListingParts, Numbers
  <2>2. DOMAIN NoDir = {}
    BY DEF NoDir
  <2>3. QED
    BY <1>4, <1>5, <1>6, <2>1, <2>2
<1>8. ASSUME NEW j \in 1..NEnt
      PROVE  Alike(d[j], e[j])
  <2>1. j \in DOMAIN d /\ j \in DOMAIN e
    BY <1>7, ListingParts
  <2>2. Unmarked(d)[j] = [d[j] EXCEPT !.mark = NoSector]
        /\ Unmarked(e)[j] = [e[j] EXCEPT !.mark = NoSector]
    BY <2>1 DEF Unmarked
  <2>3. [d[j] EXCEPT !.mark = NoSector] = [e[j] EXCEPT !.mark = NoSector]
    BY <1>5, <2>2
  <2>4. d[j] \in Entries /\ e[j] \in Entries
    BY <1>7, ListingParts
  <2>5. ASSUME NEW x \in Entries, NEW y \in Entries,
               [x EXCEPT !.mark = NoSector] = [y EXCEPT !.mark = NoSector]
        PROVE  Alike(x, y)
    <3>1. /\ [x EXCEPT !.mark = NoSector].name = x.name
          /\ [x EXCEPT !.mark = NoSector].kind = x.kind
          /\ [x EXCEPT !.mark = NoSector].first = x.first
          /\ [y EXCEPT !.mark = NoSector].name = y.name
          /\ [y EXCEPT !.mark = NoSector].kind = y.kind
          /\ [y EXCEPT !.mark = NoSector].first = y.first
      BY DEF Entries
    <3>2. QED
      BY <2>5, <3>1 DEF Alike
  <2>6. QED
    BY <2>3, <2>4, <2>5
<1>9. QED
  BY <1>1, <1>2, <1>3, <1>4, <1>7, <1>8, ListingParts DEF Matches

\* Directories alike in names, kinds and clusters have the same ends.
LEMMA EndsMatch ==
    ASSUME NEW d, NEW e, Matches(d, e) \/ Matches(e, d), NEW i \in 1..NEnt
    PROVE  /\ FirstEnd(d, i) <=> FirstEnd(e, i)
           /\ d[i].name = e[i].name /\ d[i].kind = e[i].kind /\ d[i].first = e[i].first
<1>1. \A j \in 1..NEnt : d[j].name = e[j].name /\ d[j].kind = e[j].kind /\ d[j].first = e[j].first
  BY DEF Matches, Alike
<1>2. 1..(i - 1) \subseteq 1..NEnt
  BY Numbers
<1>3. QED
  BY <1>1, <1>2 DEF FirstEnd

\* Likeness passes on.
LEMMA MatchesOn ==
    ASSUME NEW a, NEW b, NEW c, Matches(a, b), Matches(b, c)
    PROVE  Matches(a, c)
BY DEF Matches, Alike

------------------------------------------------------------------------------
(* Searches, alone.                                                          *)

\* A search in the root directory finds an entry, or the first unused one.
LEMMA LookupRootAlone ==
    ASSUME TypeInv, CallsOK, Alone, NEW t \in Tasks, pc[t] = "lookup", InRoot(t), LookupRoot(t),
           UNCHANGED <<disk, file, mixed>>, ~stale', ~astray'
    PROVE  Alone'
<1>1. /\ \A u \in Tasks : u # t => pc[u] = "idle"
      /\ Linked(fat') /\ Owned(fat', dirs') /\ Owned(fat, dirs) /\ dirs' = dirs /\ fat' = fat
  BY Busy DEF AloneAt, disk
<1>2. /\ loc[t] \in Locs /\ loc[t].op \in Searches /\ loc[t].op # "list" /\ loc[t].path # <<>>
      /\ loc[t].path \in Seq(Names)
  BY TaskParts, LocsParts DEF CallOK, InRoot
<1>3. PICK c : c = Loaded(t, Root)
  OBVIOUS
<1>4. PICK d : d = c.buf.dir
  OBVIOUS
<1>5. PICK found : found = Find(d, loc[t].path[1], {"dir"})
  OBVIOUS
<1>6. PICK erase \in BOOLEAN : erase <=> loc[t].op \in {"rmdir", "remove"}
  OBVIOUS
<1>7. PICK i : i = Min(IF erase THEN found ELSE Ends(d))
  OBVIOUS
<1>8. PICK goesOn \in BOOLEAN :
         goesOn = (d # NoDir /\ IF erase THEN found # {} ELSE found = {} /\ Ends(d) # {})
  OBVIOUS
<1>9. /\ Looked(t, Root)
      /\ cache' = IF goesOn THEN Marked(c, i) ELSE c
      /\ CASE goesOn ->
                /\ Goto(t, IF loc[t].op \in {"openr", "openw"} THEN "scan" ELSE "fatread")
                /\ Locals(t, [loc[t] EXCEPT !.sec = Root, !.idx = i, !.clu = d[i].first])
           [] d = NoDir \/ (loc[t].op = "remove" /\ found = {}) -> Stray
           [] OTHER -> Finish(t)
  BY <1>3, <1>4, <1>5, <1>6, <1>7, <1>8 DEF LookupRoot
<1>10. CASE goesOn
  <2>1. ~(d = NoDir \/ (loc[t].op = "remove" /\ found = {}))
    BY <1>6, <1>8, <1>10
  <2>2. /\ Goto(t, IF loc[t].op \in {"openr", "openw"} THEN "scan" ELSE "fatread")
        /\ Locals(t, [loc[t] EXCEPT !.sec = Root, !.idx = i, !.clu = d[i].first])
        /\ cache' = Marked(c, i)
    BY <1>9, <1>10, <2>1
  <2>3. /\ c \in [pcs : Sectors, buf : Buffers] /\ BufferOK(c.buf) /\ c.buf.dir # NoDir
        /\ d \in Listings /\ c.buf.of = Root
        /\ dirs[Root] \in Listings /\ dirs[Root] # NoDir /\ Matches(d, dirs[Root])
    BY <1>3, <1>4, <1>9, <2>1, NotStale, Numbers
  <2>4. /\ erase => /\ i \in 1..NEnt /\ d[i].name = loc[t].path[1]
                    /\ \A j \in 1..i : d[j].name # End
        /\ ~erase => i \in 1..NEnt /\ FirstEnd(d, i)
    <3>1. CASE erase
      <4>1. found # {} /\ i = Min(found)
        BY <1>7, <1>8, <1>10, <3>1
      <4>2. QED
        BY <1>5, <2>3, <3>1, <4>1, FoundIs
    <3>2. CASE ~erase
      <4>1. Ends(d) # {} /\ i = Min(Ends(d))
        BY <1>7, <1>8, <1>10, <3>2
      <4>2. QED
        BY <2>3, <3>2, <4>1, FirstEndIs
    <3>3. QED
      BY <3>1, <3>2
  <2>5. i \in 1..NEnt
    BY <2>4
  <2>6. PICK b : b = cache'.buf
    OBVIOUS
  <2>7. /\ b.of = Root /\ b.dir # NoDir /\ Matches(b.dir, d) /\ b.dir[i].mark = Root
    <3>1. PICK n : n = Marked(c, i)
      OBVIOUS
    <3>2. /\ n.buf.of = c.buf.of /\ n.buf.dir # NoDir /\ Matches(n.buf.dir, c.buf.dir)
          /\ n.buf.dir[i].mark = c.buf.of
      BY <2>3, <2>5, <3>1, MarkedOK
    <3>3. QED
      BY <1>4, <2>2, <2>3, <2>6, <3>1, <3>2
  <2>8. PICK k : k = [loc[t] EXCEPT !.sec = Root, !.idx = i, !.clu = d[i].first]
    OBVIOUS
  <2>9. PICK l : l = [k EXCEPT !.missed = FALSE]
    OBVIOUS
  <2>10. PICK p : p = (IF loc[t].op \in {"openr", "openw"} THEN "scan" ELSE "fatread")
    OBVIOUS
  <2>11. Goto(t, p) /\ Locals(t, k)
    BY <2>2, <2>8, <2>10, Zenon
  <2>12. /\ loc' = [loc EXCEPT ![t] = l] /\ l.op = loc[t].op /\ l.sec = Root /\ l.idx = i
         /\ l.clu = d[i].first
    BY <1>2, <2>8, <2>9, <2>11 DEF Locals, Locs
  <2>13. CASE p = "scan"
    BY <1>1, <2>11, <2>12, <2>13, AloneGoesOn
  <2>14. CASE p = "fatread"
    <3>1. InBuffer(b, dirs, Root) /\ Matches(b.dir, dirs[Root])
      BY <2>3, <2>7, MatchesOn, Numbers DEF InBuffer
    <3>2. ASSUME erase
          PROVE  ToErase(l, dirs, b)
      <4>1. d[i].name \in Names /\ \A j \in 1..i : d[j].name # End
        BY <1>2, <2>4, <3>2, PathNames
      <4>2. \A j \in 1..i : j \in 1..NEnt
        BY <2>5, Numbers
      <4>3. \A j \in 1..NEnt : dirs[Root][j].name = d[j].name /\ dirs[Root][j].first = d[j].first
        BY <2>3, EndsMatch
      <4>4. LiveAt(dirs, Root, i)
        BY <2>3, <2>5, <4>1, <4>2, <4>3 DEF LiveAt, NamedAt
      <4>5. QED
        BY <2>5, <2>7, <2>12, <3>1, <4>3, <4>4 DEF ToErase
    <3>3. ASSUME ~erase
          PROVE  ToMake(l, dirs, b)
      <4>1. FirstEnd(b.dir, i)
        BY <2>4, <2>7, <3>3, EndsMatch
      <4>2. QED
        BY <2>7, <2>12, <3>1, <4>1 DEF ToMake
    <3>4. AloneAt(p, l, fat', dirs', b)
      BY <1>1, <1>6, <2>10, <2>12, <2>14, <3>2, <3>3 DEF AloneAt, Erasing
    <3>5. p # "idle"
      BY <2>14
    <3>6. QED
      BY <1>1, <2>6, <2>11, <2>12, <3>4, <3>5, AloneMoves DEF Goto
  <2>15. QED
    BY <2>10, <2>13, <2>14
<1>11. CASE ~goesOn
  <2>1. Finish(t)
    BY <1>9, <1>11, NotAstray
  <2>2. QED
    BY <1>1, <2>1, AloneFinishes
<1>12. QED
  BY <1>10, <1>11

\* An entry with a name of which no earlier one is the end is reached.
LEMMA NamedIs ==
    ASSUME NEW D, NEW s, D[s] # NoDir, NEW i \in 1..NEnt, D[s][i].name \in Names,
           \A j \in 1..i : D[s][j].name # End
    PROVE  NamedAt(D, s, i)
BY DEF NamedAt

\* What a search of the disk itself finds is an entry a path reaches.
LEMMA ResolveLive ==
    ASSUME TypeInv, dirs[Root] # NoDir, NEW p \in Seq(Names), p # <<>>, NEW r, r = Resolve(p),
           r[1] = "found"
    PROVE  r[2] \in DirSectors /\ r[3] \in 1..NEnt /\ LiveAt(dirs, r[2], r[3])
<1>1. PICK i : i = Find(dirs[Root], p[1], {"file", "dir"})
  OBVIOUS
<1>2. PICK e : e = dirs[Root][Min(i)]
  OBVIOUS
<1>3. PICK d : d = (IF e.first \in Data THEN dirs[e.first] ELSE NoDir)
  OBVIOUS
<1>4. PICK j : j = Find(d, p[2], {"file", "dir"})
  OBVIOUS
<1>5. r = CASE i = {} -> IF Ends(dirs[Root]) # {} THEN <<"none">> ELSE <<"astray">>
            [] i # {} /\ (e.kind = "file" \/ Len(p) = 1) -> <<"found", Root, Min(i)>>
            [] OTHER -> IF d = NoDir THEN <<"astray">>
                        ELSE IF j # {} THEN <<"found", e.first, Min(j)>>
                        ELSE IF Ends(d) # {} THEN <<"none">> ELSE <<"astray">>
  BY <1>1, <1>2, <1>3, <1>4, Zenon DEF Resolve
<1>6. <<"none">>[1] # "found" /\ <<"astray">>[1] # "found"
  OBVIOUS
<1>7. i # {}
  BY <1>5, <1>6
<1>8. dirs[Root] \in Listings /\ Root \in DirSectors
  BY Numbers DEF TypeInv
<1>9. PICK m : m = Min(i)
  OBVIOUS
<1>10. /\ m \in 1..NEnt /\ dirs[Root][m].name = p[1] /\ dirs[Root][m].kind \in {"file", "dir"}
       /\ \A k \in 1..m : dirs[Root][k].name # End
  BY <1>1, <1>7, <1>8, <1>9, FoundIs
<1>11. NamedAt(dirs, Root, m)
  BY <1>10, NamedIs, PathNames
<1>12. CASE e.kind = "file" \/ Len(p) = 1
  <2>1. r = <<"found", Root, m>>
    BY <1>5, <1>7, <1>9, <1>12
  <2>2. r[2] = Root /\ r[3] = m
    BY <2>1
  <2>3. QED
    BY <1>8, <1>10, <1>11, <2>2 DEF LiveAt
<1>13. CASE ~(e.kind = "file" \/ Len(p) = 1)
  <2>1. d # NoDir /\ j # {} /\ r = <<"found", e.first, Min(j)>>
    BY <1>5, <1>6, <1>7, <1>13
  <2>2. e.first \in Data /\ d = dirs[e.first] /\ e.first \in DirSectors
    BY <1>3, <2>1, Numbers
  <2>3. d \in Listings
    BY <2>1, <2>2 DEF TypeInv
  <2>4. PICK n : n = Min(j)
    OBVIOUS
  <2>5. n \in 1..NEnt /\ d[n].name = p[2] /\ \A k \in 1..n : d[k].name # End
    BY <1>4, <2>1, <2>3, <2>4, FoundIs
  <2>6. p[2] \in Names
    BY <1>13, PathNames
  <2>7. NamedAt(dirs, e.first, n)
    BY <2>1, <2>2, <2>5, <2>6, NamedIs
  <2>8. Leads(dirs, m, e.first)
    BY <1>2, <1>9, <1>10, <1>11, <1>13 DEF Leads
  <2>9. r[2] = e.first /\ r[3] = n
    BY <2>1, <2>4
  <2>10. QED
    BY <1>10, <2>2, <2>5, <2>7, <2>8, <2>9 DEF LiveAt
<1>14. QED
  BY <1>12, <1>13

\* The search of a path, alone.
LEMMA LookupPathAlone ==
    ASSUME TypeInv, CallsOK, Alone, NEW t \in Tasks, pc[t] = "lookup", LookupPath(t),
           UNCHANGED <<disk, file, mixed>>, ~astray'
    PROVE  Alone'
<1>1. /\ \A u \in Tasks : u # t => pc[u] = "idle"
      /\ Linked(fat') /\ Owned(fat', dirs') /\ Owned(fat, dirs) /\ dirs' = dirs /\ fat' = fat
  BY Busy DEF AloneAt, disk
<1>2. loc[t] \in Locs /\ loc[t].path # <<>> /\ loc[t].path \in Seq(Names)
  BY TaskParts, LocsParts DEF CallOK
<1>3. PICK p : p = (IF loc[t].op \in {"rmdir", "remove"} THEN loc[t].path
                    ELSE <<loc[t].path[1]>>)
  OBVIOUS
<1>4. p \in Seq(Names) /\ p # <<>>
  <2>1. loc[t].path[1] \in Names
    BY <1>2, PathNames
  <2>2. <<loc[t].path[1]>> \in Seq(Names) /\ <<loc[t].path[1]>> # <<>>
    BY <2>1, PathParts
  <2>3. QED
    BY <1>2, <1>3, <2>2
<1>5. PICK r : r = Resolve(p)
  OBVIOUS
<1>6. IF r[1] = "found"
      THEN Goto(t, "entry") /\ Locals(t, [loc[t] EXCEPT !.sec = r[2], !.idx = r[3]])
      ELSE IF r[1] = "astray" \/ loc[t].op = "remove" THEN Stray ELSE Finish(t)
  BY <1>3, <1>5 DEF LookupPath
<1>7. CASE r[1] = "found"
  <2>1. LiveAt(dirs, r[2], r[3])
    BY <1>1, <1>4, <1>5, <1>7, ResolveLive DEF Owned
  <2>2. PICK k : k = [loc[t] EXCEPT !.sec = r[2], !.idx = r[3]]
    OBVIOUS
  <2>3. PICK l : l = [k EXCEPT !.missed = FALSE]
    OBVIOUS
  <2>4. Goto(t, "entry") /\ loc' = [loc EXCEPT ![t] = l]
    BY <1>6, <1>7, <2>2, <2>3 DEF Locals
  <2>5. l.sec = r[2] /\ l.idx = r[3]
    BY <1>2, <2>2, <2>3 DEF Locs
  <2>6. AloneAt("entry", l, fat', dirs', cache'.buf)
    BY <1>1, <2>1, <2>5 DEF AloneAt
  <2>7. QED
    BY <1>1, <2>4, <2>6, AloneMoves DEF Goto
<1>8. CASE r[1] # "found"
  <2>1. Finish(t)
    BY <1>6, <1>8, NotAstray
  <2>2. QED
    BY <1>1, <2>1, AloneFinishes
<1>9. QED
  BY <1>7, <1>8

\* The entry found is taken from the buffer, alone.
LEMMA LookupEntryAlone ==
    ASSUME TypeInv, CallsOK, Alone, NEW t \in Tasks, LookupEntry(t), ~stale', ~astray'
    PROVE  Alone'
<1>1. pc[t] = "entry" /\ UNCHANGED disk
  BY DEF LookupEntry
<1>2. /\ \A u \in Tasks : u # t => pc[u] = "idle"
      /\ Linked(fat') /\ Owned(fat', dirs') /\ Owned(fat, dirs) /\ dirs' = dirs /\ fat' = fat
      /\ LiveAt(dirs, loc[t].sec, loc[t].idx)
  BY <1>1, Busy DEF AloneAt, disk
<1>3. /\ loc[t] \in Locs /\ loc[t].op \in Searches
      /\ loc[t].sec \in DirSectors /\ loc[t].idx \in 1..NEnt
  BY <1>1, TaskParts DEF CallOK, Placed
<1>4. PICK s : s = loc[t].sec
  OBVIOUS
<1>5. PICK i : i = loc[t].idx
  OBVIOUS
<1>6. PICK c : c = Loaded(t, s)
  OBVIOUS
<1>7. PICK e : e = c.buf.dir[i]
  OBVIOUS
<1>8. /\ Looked(t, s)
      /\ IF c.buf.dir = NoDir THEN Stray /\ cache' = c
         ELSE /\ cache' = IF loc[t].op = "list" THEN c ELSE Marked(c, i)
              /\ IF loc[t].op \in {"openr", "openw", "list"}
                 THEN Goto(t, IF loc[t].op = "list" THEN "list" ELSE "scan")
                      /\ Locals(t, [loc[t] EXCEPT !.sec = e.first, !.idx = 1])
                 ELSE Goto(t, "fatread") /\ Locals(t, [loc[t] EXCEPT !.clu = e.first])
  BY <1>4, <1>5, <1>6, <1>7, Zenon DEF LookupEntry
<1>9. c.buf.dir # NoDir
  BY <1>8, NotAstray
<1>10. /\ c \in [pcs : Sectors, buf : Buffers] /\ BufferOK(c.buf)
       /\ c.buf.dir \in Listings /\ c.buf.of = s
       /\ dirs[s] \in Listings /\ dirs[s] # NoDir /\ Matches(c.buf.dir, dirs[s])
  BY <1>3, <1>4, <1>6, <1>8, <1>9, NotStale
<1>11. CASE loc[t].op \in {"openr", "openw", "list"}
  <2>1. PICK k : k = [loc[t] EXCEPT !.sec = e.first, !.idx = 1]
    OBVIOUS
  <2>2. PICK l : l = [k EXCEPT !.missed = FALSE]
    OBVIOUS
  <2>3. PICK p : p = (IF loc[t].op = "list" THEN "list" ELSE "scan")
    OBVIOUS
  <2>4. Goto(t, p) /\ loc' = [loc EXCEPT ![t] = l]
    BY <1>8, <1>9, <1>11, <2>1, <2>2, <2>3 DEF Locals
  <2>5. p \in {"scan", "list"}
    BY <2>3
  <2>6. QED
    BY <1>2, <2>4, <2>5, AloneGoesOn
<1>12. CASE loc[t].op \notin {"openr", "openw", "list"}
  <2>1. PICK k : k = [loc[t] EXCEPT !.clu = e.first]
    OBVIOUS
  <2>2. PICK l : l = [k EXCEPT !.missed = FALSE]
    OBVIOUS
  <2>3. Goto(t, "fatread") /\ loc' = [loc EXCEPT ![t] = l] /\ cache' = Marked(c, i)
    BY <1>8, <1>9, <1>12, <2>1, <2>2 DEF Locals
  <2>4. l.op = loc[t].op /\ l.sec = s /\ l.idx = i /\ l.clu = e.first
    BY <1>3, <1>4, <1>5, <2>1, <2>2 DEF Locs
  <2>5. PICK b : b = cache'.buf
    OBVIOUS
  <2>6. b.of = s /\ b.dir # NoDir /\ Matches(b.dir, c.buf.dir) /\ b.dir[i].mark = s
    <3>1. PICK n : n = Marked(c, i)
      OBVIOUS
    <3>2. /\ n.buf.of = c.buf.of /\ n.buf.dir # NoDir /\ Matches(n.buf.dir, c.buf.dir)
          /\ n.buf.dir[i].mark = c.buf.of
      BY <1>3, <1>5, <1>9, <1>10, <3>1, MarkedOK
    <3>3. QED
      BY <1>10, <2>3, <2>5, <3>1, <3>2
  <2>7. InBuffer(b, dirs, s) /\ Matches(b.dir, dirs[s])
    BY <1>3, <1>4, <1>10, <2>6, MatchesOn DEF InBuffer
  <2>8. e.first = dirs[s][i].first
    BY <1>3, <1>5, <1>7, <1>10, EndsMatch
  <2>9. ToErase(l, dirs, b)
    BY <1>2, <1>4, <1>5, <2>4, <2>6, <2>7, <2>8 DEF ToErase
  <2>10. ToMake(l, dirs, b)
    <3>1. dirs[s][i].name # End
      BY <1>2, <1>4, <1>5, NamesApart DEF LiveAt, NamedAt
    <3>2. b.dir[i].name # End
      BY <1>3, <1>5, <2>7, <3>1, EndsMatch
    <3>3. QED
      BY <2>4, <2>6, <2>7, <3>2 DEF ToMake
  <2>11. AloneAt("fatread", l, fat', dirs', b)
    BY <1>2, <1>12, <2>4, <2>9, <2>10 DEF AloneAt
  <2>12. QED
    BY <1>2, <2>3, <2>5, <2>11, AloneMoves DEF Goto
<1>13. QED
  BY <1>11, <1>12

\* open scans the sector, alone.
LEMMA ScanAlone ==
    ASSUME TypeInv, CallsOK, Alone, NEW t \in Tasks, Scan(t), ~astray'
    PROVE  Alone'
<1>1. pc[t] = "scan" /\ UNCHANGED <<disk, cache>>
  BY DEF Scan
<1>2. /\ \A u \in Tasks : u # t => pc[u] = "idle"
      /\ Linked(fat') /\ Owned(fat', dirs') /\ Owned(fat, dirs) /\ dirs' = dirs /\ fat' = fat
  BY <1>1, Busy DEF AloneAt, disk
<1>3. loc[t] \in Locs
  BY TaskParts
<1>4. PICK s : s = loc[t].sec
  OBVIOUS
<1>5. PICK d : d = (IF s \in DirSectors THEN dirs[s] ELSE NoDir)
  OBVIOUS
<1>6. PICK found : found = Find(d, loc[t].path[Len(loc[t].path)], {"file"})
  OBVIOUS
<1>7. (CASE d = NoDir \/ (found = {} /\ Ends(d) = {}) -> Stray /\ UNCHANGED file
         [] d # NoDir /\ found # {} ->
               /\ file' = [file EXCEPT ![t] = Opened(s, Min(found), d[Min(found)], loc[t].op)]
               /\ Finish(t)
         [] OTHER -> /\ IF loc[t].op = "openw"
                        THEN /\ Goto(t, "fatread")
                             /\ Locals(t, [loc[t] EXCEPT !.idx = Min(Ends(d)), !.dir = d])
                        ELSE Finish(t)
                     /\ UNCHANGED file)
  BY <1>4, <1>5, <1>6, Zenon DEF Scan
<1>8. ~(d = NoDir \/ (found = {} /\ Ends(d) = {}))
  BY <1>7, NotAstray
<1>9. CASE Finish(t)
  BY <1>2, <1>9, AloneFinishes
<1>10. CASE ~Finish(t)
  <2>1. found = {}
    BY <1>7, <1>8, <1>10
  <2>2. /\ Goto(t, "fatread") /\ loc[t].op = "openw"
        /\ Locals(t, [loc[t] EXCEPT !.idx = Min(Ends(d)), !.dir = d])
    BY <1>7, <1>8, <1>10, <2>1
  <2>3. d \in Listings /\ d = dirs[s] /\ Ends(d) # {}
    BY <1>5, <1>8, <2>1 DEF TypeInv
  <2>4. PICK i : i = Min(Ends(d))
    OBVIOUS
  <2>5. FirstEnd(d, i)
    BY <2>3, <2>4, FirstEndIs
  <2>6. PICK k : k = [loc[t] EXCEPT !.idx = i, !.dir = d]
    OBVIOUS
  <2>7. PICK l : l = [k EXCEPT !.missed = FALSE]
    OBVIOUS
  <2>8. loc' = [loc EXCEPT ![t] = l]
    BY <2>2, <2>4, <2>6, <2>7 DEF Locals
  <2>9. l.op = "openw" /\ l.sec = s /\ l.idx = i /\ l.dir = d
    BY <1>3, <1>4, <2>2, <2>6, <2>7 DEF Locs
  <2>10. AloneAt("fatread", l, fat', dirs', cache'.buf)
    BY <1>2, <2>3, <2>5, <2>9 DEF AloneAt, ToCreate, Erasing
  <2>11. QED
    BY <1>2, <2>2, <2>8, <2>10, AloneMoves DEF Goto
<1>11. QED
  BY <1>9, <1>10

\* The FAT is read, alone.
LEMMA FatReadAlone ==
    ASSUME TypeInv, CallsOK, Alone, NEW t \in Tasks, FatRead(t)
    PROVE  Alone'
<1>1. pc[t] = "fatread" /\ UNCHANGED <<disk, cache>>
  BY DEF FatRead
<1>2. /\ \A u \in Tasks : u # t => pc[u] = "idle"
      /\ Linked(fat) /\ AloneAt("fatread", loc[t], fat, dirs, cache.buf)
      /\ dirs' = dirs /\ fat' = fat /\ cache' = cache
  BY <1>1, Busy DEF disk
<1>3. PICK k : k = [loc[t] EXCEPT !.fat = fat]
  OBVIOUS
<1>4. PICK l : l = [k EXCEPT !.missed = FALSE]
  OBVIOUS
<1>5. Goto(t, "fatwrite") /\ loc' = [loc EXCEPT ![t] = l]
  BY <1>3, <1>4 DEF Locals, FatRead
<1>6. /\ l.op = loc[t].op /\ l.idx = loc[t].idx /\ l.sec = loc[t].sec /\ l.fat = fat
      /\ l.dir = loc[t].dir /\ l.clu = loc[t].clu
  BY <1>3, <1>4, TaskParts DEF Locs
<1>7. AloneAt("fatwrite", l, fat, dirs, cache.buf)
  BY <1>2, <1>6 DEF AloneAt, ToErase, ToMake, ToCreate
<1>8. QED
  BY <1>2, <1>5, <1>7, AloneMoves DEF Goto

------------------------------------------------------------------------------
(* Who owns which clusters.                                                  *)

\* The parts of ownership.
LEMMA OwnedParts ==
    ASSUME NEW f, NEW D, Owned(f, D)
    PROVE  /\ D[Root] # NoDir
           /\ \A s \in DirSectors, i \in 1..NEnt : LiveAt(D, s, i) => Begins(f, D[s][i].first)
           /\ \A s, r \in DirSectors, i, j \in 1..NEnt :
                 LiveAt(D, s, i) /\ LiveAt(D, r, j) /\ D[s][i].first = D[r][j].first
                    => s = r /\ i = j
           /\ \A s \in DirSectors : D[s] # NoDir => Ended(D[s])
BY DEF Owned

\* What can be reached, can be reached with the same cluster in other directories.
LEMMA OwnedOn ==
    ASSUME NEW f, NEW D, NEW g, NEW E, Owned(f, D), E[Root] # NoDir,
           \A s \in DirSectors, i \in 1..NEnt : LiveAt(E, s, i) =>
               LiveAt(D, s, i) /\ E[s][i].first = D[s][i].first /\ Begins(g, E[s][i].first),
           \A s \in DirSectors : E[s] # NoDir => Ended(E[s])
    PROVE  Owned(g, E)
<1>1. ASSUME NEW s \in DirSectors, NEW r \in DirSectors, NEW i \in 1..NEnt, NEW j \in 1..NEnt,
             LiveAt(E, s, i), LiveAt(E, r, j), E[s][i].first = E[r][j].first
      PROVE  s = r /\ i = j
  <2>1. LiveAt(D, s, i) /\ LiveAt(D, r, j) /\ D[s][i].first = D[r][j].first
    BY <1>1
  <2>2. QED
    BY <2>1, OwnedParts
<1>2. QED
  BY <1>1 DEF Owned

\* Places before a place.
LEMMA Before ==
    ASSUME NEW i \in 1..NEnt
    PROVE  \A j \in 1..i : j \in 1..NEnt
BY Numbers

\* A sector of a directory is replaced by one alike.
LEMMA SameOwned ==
    ASSUME NEW f, NEW D \in [DirSectors -> {NoDir} \cup Listings], Owned(f, D),
           NEW s \in DirSectors, D[s] # NoDir, NEW d \in Listings, Matches(d, D[s]),
           NEW E, E[s] = d, \A r \in DirSectors : r # s => E[r] = D[r]
    PROVE  Owned(f, E)
<1>1. /\ E[s] = d /\ d # NoDir /\ \A r \in DirSectors : r # s => E[r] = D[r]
  BY ListingParts
<1>2. ASSUME NEW r \in DirSectors
      PROVE  /\ E[r] # NoDir <=> D[r] # NoDir
             /\ \A j \in 1..NEnt : /\ E[r][j].name = D[r][j].name
                                   /\ E[r][j].kind = D[r][j].kind
                                   /\ E[r][j].first = D[r][j].first
  <2>1. CASE r = s
    BY <1>1, <2>1, EndsMatch
  <2>2. CASE r # s
    BY <1>1, <2>2
  <2>3. QED
    BY <2>1, <2>2
<1>3. ASSUME NEW r \in DirSectors, NEW j \in 1..NEnt, NamedAt(E, r, j)
      PROVE  NamedAt(D, r, j)
  BY <1>2, <1>3, Before DEF NamedAt
<1>4. ASSUME NEW r \in DirSectors, NEW j \in 1..NEnt, LiveAt(E, r, j)
      PROVE  LiveAt(D, r, j) /\ E[r][j].first = D[r][j].first /\ Begins(f, E[r][j].first)
  <2>1. NamedAt(D, r, j)
    BY <1>3, <1>4 DEF LiveAt
  <2>2. ASSUME NEW k \in 1..NEnt, Leads(E, k, r)
        PROVE  Leads(D, k, r)
    BY <1>2, <1>3, <2>2, Numbers DEF Leads
  <2>3. LiveAt(D, r, j)
    BY <1>4, <2>1, <2>2 DEF LiveAt
  <2>4. QED
    BY <1>2, <2>3, OwnedParts
<1>5. ASSUME NEW r \in DirSectors, E[r] # NoDir
      PROVE  Ended(E[r])
  <2>1. Ended(D[r])
    BY <1>2, <1>5, OwnedParts
  <2>2. QED
    BY <1>2, <2>1 DEF Ended
<1>6. E[Root] # NoDir
  BY <1>2, OwnedParts, Numbers
<1>7. /\ \A r \in DirSectors, j \in 1..NEnt : LiveAt(E, r, j) =>
             LiveAt(D, r, j) /\ E[r][j].first = D[r][j].first /\ Begins(f, E[r][j].first)
      /\ \A r \in DirSectors : E[r] # NoDir => Ended(E[r])
  BY <1>4, <1>5
<1>8. QED
  BY <1>6, <1>7, OwnedOn

\* A directory other than the root is written over.
LEMMA EmptiedOwned ==
    ASSUME NEW f, NEW D \in [DirSectors -> {NoDir} \cup Listings], Owned(f, D),
           NEW c \in Data, NEW E, E[c] = NoDir, \A r \in DirSectors : r # c => E[r] = D[r]
    PROVE  Owned(f, E)
<1>1. /\ c \in DirSectors /\ c # Root
      /\ E[c] = NoDir /\ \A r \in DirSectors : r # c => E[r] = D[r]
  BY Numbers
<1>2. ASSUME NEW r \in DirSectors, NEW j \in 1..NEnt, NamedAt(E, r, j)
      PROVE  NamedAt(D, r, j) /\ E[r] = D[r]
  BY <1>1, <1>2 DEF NamedAt
<1>3. ASSUME NEW r \in DirSectors, NEW j \in 1..NEnt, LiveAt(E, r, j)
      PROVE  LiveAt(D, r, j) /\ E[r][j].first = D[r][j].first /\ Begins(f, E[r][j].first)
  <2>1. NamedAt(D, r, j) /\ E[r] = D[r]
    BY <1>2, <1>3 DEF LiveAt
  <2>2. ASSUME NEW k \in 1..NEnt, Leads(E, k, r)
        PROVE  Leads(D, k, r)
    BY <1>2, <2>2, Numbers DEF Leads
  <2>3. LiveAt(D, r, j)
    BY <1>3, <2>1, <2>2 DEF LiveAt
  <2>4. QED
    BY <2>1, <2>3, OwnedParts
<1>4. ASSUME NEW r \in DirSectors, E[r] # NoDir
      PROVE  Ended(E[r])
  BY <1>1, <1>4, OwnedParts
<1>5. E[Root] # NoDir
  BY <1>1, OwnedParts, Numbers
<1>6. /\ \A r \in DirSectors, j \in 1..NEnt : LiveAt(E, r, j) =>
             LiveAt(D, r, j) /\ E[r][j].first = D[r][j].first /\ Begins(f, E[r][j].first)
      /\ \A r \in DirSectors : E[r] # NoDir => Ended(E[r])
  BY <1>3, <1>4
<1>7. QED
  BY <1>5, <1>6, OwnedOn

\* The clusters of a chain are given back: every link that is left leads on, and
\* every other chain is as it was.
LEMMA FreedChain ==
    ASSUME NEW f \in Fats, Ahead(f), Linked(f), NEW c, Begins(f, c),
           ~(\A k \in Clusters : k >= c => f[k] # Eoc), NEW g, g = Freed(f, c)
    PROVE  /\ Linked(g)
           /\ \A x : Begins(f, x) /\ x # c => Begins(g, x)
<1>1. PICK T : T = {k \in Clusters : k >= c /\ f[k] = Eoc}
  OBVIOUS
<1>2. T \subseteq Nat /\ T # {}
  BY <1>1, Numbers
<1>3. PICK e : e = Min(T)
  OBVIOUS
<1>4. e \in T /\ \A k \in T : e <= k
  BY <1>2, <1>3, MinIsLeast
<1>5. /\ c \in Data /\ c \in Clusters /\ c \in Nat /\ f[c] # 0 /\ f[c - 1] # c
      /\ e \in Clusters /\ e \in Nat /\ e >= c /\ f[e] = Eoc
      /\ \A k \in Clusters : k >= c /\ k < e => f[k] # Eoc
  BY <1>1, <1>4, Numbers DEF Begins
<1>6. g = [k \in Clusters |-> IF k \in c..e THEN 0 ELSE f[k]]
  BY <1>1, <1>3 DEF Freed
<1>7. \A k \in Clusters : k \in c..e <=> k >= c /\ k <= e
  BY <1>5, Numbers
<1>8. \A k \in Clusters : k >= c /\ k <= e => f[k] # 0
  <2>1. SUFFICES ASSUME NEW y \in Clusters, y >= c, y <= e, f[y] = 0
                 PROVE  FALSE
    OBVIOUS
  <2>2. PICK Z : Z = {k \in Clusters : k >= c /\ k <= e /\ f[k] = 0}
    OBVIOUS
  <2>3. Z \subseteq Nat /\ Z # {}
    BY <2>1, <2>2, Numbers
  <2>4. PICK m \in Z : \A k \in Z : m <= k
    BY <2>3, MinIsLeast
  <2>5. m \in Clusters /\ m \in Nat /\ m >= c /\ m <= e /\ f[m] = 0 /\ m # c
    BY <1>5, <2>2, <2>4, Numbers
  <2>6. m - 1 \in Clusters /\ m - 1 >= c /\ m - 1 < e /\ m - 1 \notin Z
    BY <1>5, <2>4, <2>5, Numbers DEF Clusters
  <2>7. f[m - 1] # 0 /\ f[m - 1] # Eoc
    BY <1>5, <2>2, <2>6
  <2>8. m - 1 \in Data
    BY <1>5, <2>6, Numbers DEF Data, Clusters
  <2>9. f[m - 1] = (m - 1) + 1
    BY <2>7, <2>8 DEF Ahead
  <2>10. m - 1 \in Clusters \ {0}
    BY <2>6, <2>8, Numbers
  <2>11. f[(m - 1) + 1] # 0
    BY <2>9, <2>10 DEF Linked
  <2>12. (m - 1) + 1 = m
    BY <2>5
  <2>13. QED
    BY <2>5, <2>11, <2>12
<1>9. ASSUME NEW k \in Clusters, ~(k >= c /\ k <= e)
      PROVE  g[k] = f[k]
  BY <1>6, <1>7, <1>9
<1>10. ASSUME NEW k \in Clusters, k >= c /\ k <= e
       PROVE  g[k] = 0
  BY <1>6, <1>7, <1>10
<1>11. Linked(g)
  <2>1. g[0] # 0 /\ g[1] # 0
    <3>1. ~(0 >= c) /\ ~(1 >= c)
      BY <1>5, Numbers DEF Data
    <3>2. QED
      BY <1>9, <3>1, Numbers DEF Linked
  <2>2. ASSUME NEW k \in Clusters \ {0}, g[k] = k + 1
        PROVE  k + 1 \in Data /\ g[k + 1] # 0
    <3>1. k \in Nat /\ k + 1 # 0
      BY Numbers
    <3>2. ~(k >= c /\ k <= e) /\ f[k] = k + 1
      BY <1>9, <1>10, <2>2, <3>1
    <3>3. k + 1 \in Data /\ f[k + 1] # 0 /\ k + 1 \in Clusters
      BY <3>2, Numbers DEF Linked
    <3>4. ~(k + 1 >= c /\ k + 1 <= e)
      <4>1. SUFFICES ASSUME k + 1 >= c, k + 1 <= e
                     PROVE  FALSE
        OBVIOUS
      <4>2. c = k + 1 /\ c - 1 = k
        BY <1>5, <3>1, <3>2, <4>1
      <4>3. QED
        BY <1>5, <3>2, <4>2
    <3>5. QED
      BY <1>9, <3>3, <3>4
  <2>3. QED
    BY <2>1, <2>2 DEF Linked
<1>12. ASSUME NEW x, Begins(f, x), x # c
       PROVE  Begins(g, x)
  <2>1. x \in Data /\ x \in Clusters /\ x \in Nat /\ f[x] # 0 /\ f[x - 1] # x
    BY <1>12, Numbers DEF Begins
  <2>2. x - 1 \in Clusters /\ x # 0
    BY <2>1, Numbers DEF Clusters, Data
  <2>3. ~(x >= c /\ x <= e)
    <3>1. SUFFICES ASSUME x >= c /\ x <= e
                   PROVE  FALSE
      OBVIOUS
    <3>2. x - 1 >= c /\ x - 1 < e /\ x - 1 <= e
      <4>1. c \in Nat /\ e \in Nat /\ x \in Nat /\ x # c /\ x >= c /\ x <= e
        BY <1>5, <1>12, <2>1, <3>1
      <4>2. \A a, b, d \in Nat : a # b /\ a >= b /\ a <= d =>
              a - 1 >= b /\ a - 1 < d /\ a - 1 <= d
        OBVIOUS
      <4>3. QED
        BY <4>1, <4>2
    <3>3. f[x - 1] # 0 /\ f[x - 1] # Eoc
      BY <1>5, <1>8, <2>2, <3>2
    <3>4. x - 1 \in Data
      BY <1>5, <2>1, <2>2, <3>2, Numbers DEF Data, Clusters
    <3>5. f[x - 1] = (x - 1) + 1
      BY <3>3, <3>4 DEF Ahead
    <3>6. QED
      BY <2>1, <3>5
  <2>4. g[x] = f[x]
    BY <1>9, <2>1, <2>3
  <2>5. g[x - 1] # x
    BY <1>9, <1>10, <2>1, <2>2
  <2>6. QED
    BY <2>1, <2>4, <2>5 DEF Begins
<1>13. QED
  BY <1>11, <1>12

\* The first free cluster is taken: links lead on, chains begin where they began,
\* and unless it is appended it is the beginning of one.
LEMMA TakenChain ==
    ASSUME NEW f \in Fats, Ahead(f), Linked(f), NEW append,
           {k \in Clusters : f[k] = 0} # {}, NEW c, c = Min({k \in Clusters : f[k] = 0}),
           NEW g, g = WithCluster(f, append)
    PROVE  /\ Linked(g) /\ c \in Data /\ f[c] = 0
           /\ \A x : Begins(f, x) => Begins(g, x) /\ x # c
           /\ ~append => Begins(g, c)
<1>1. /\ c \in Clusters /\ f[c] = 0
      /\ \A k \in Clusters : g[k] = IF k = c THEN Eoc ELSE IF append /\ k = c - 1 THEN c ELSE f[k]
  BY WithClusterOK
<1>2. c \in Data /\ c \in Nat /\ c > 1
  BY <1>1, Numbers DEF Linked, Clusters, Data
<1>3. \A k \in Clusters : f[k] # 0 => g[k] # 0
  BY <1>1, <1>2, Numbers
<1>4. g[c] = Eoc /\ Eoc # 0 /\ c - 1 \in Clusters /\ c - 1 # 0 /\ c - 1 # c
  BY <1>1, <1>2, Numbers DEF Clusters
<1>5. Linked(g)
  <2>1. g[0] # 0 /\ g[1] # 0
    BY <1>3, Numbers DEF Linked
  <2>2. ASSUME NEW k \in Clusters \ {0}, g[k] = k + 1
        PROVE  k + 1 \in Data /\ g[k + 1] # 0
    <3>1. CASE k = c
      <4>1. k + 1 < Eoc /\ k + 1 \in Nat /\ Eoc \in Nat
        BY Numbers
      <4>2. QED
        BY <1>4, <2>2, <3>1, <4>1
    <3>2. CASE k # c /\ append /\ k = c - 1
      <4>1. k + 1 = c
        BY <1>2, <3>2
      <4>2. QED
        BY <1>2, <1>4, <4>1
    <3>3. CASE k # c /\ ~(append /\ k = c - 1)
      <4>1. f[k] = k + 1
        BY <1>1, <2>2, <3>3
      <4>2. k + 1 \in Data /\ f[k + 1] # 0 /\ k + 1 \in Clusters
        BY <4>1, Numbers DEF Linked
      <4>3. QED
        BY <1>3, <4>2
    <3>4. QED
      BY <3>1, <3>2, <3>3
  <2>3. QED
    BY <2>1, <2>2 DEF Linked
<1>6. ASSUME NEW x, Begins(f, x)
      PROVE  Begins(g, x) /\ x # c
  <2>1. x \in Data /\ x \in Clusters /\ x \in Nat /\ f[x] # 0 /\ f[x - 1] # x /\ x # c
    BY <1>1, <1>6, Numbers DEF Begins
  <2>2. x - 1 \in Clusters /\ Eoc # x
    BY <2>1, Numbers DEF Clusters, Data, Eoc
  <2>3. g[x - 1] \in {Eoc, c, f[x - 1]}
    BY <1>1, <2>2
  <2>4. QED
    BY <1>3, <2>1, <2>2, <2>3 DEF Begins
<1>7. ASSUME ~append
      PROVE  Begins(g, c)
  <2>1. g[c - 1] = f[c - 1]
    BY <1>1, <1>4, <1>7
  <2>2. f[c - 1] # c
    <3>1. SUFFICES ASSUME f[c - 1] = c
                   PROVE  FALSE
      OBVIOUS
    <3>2. (c - 1) + 1 = c /\ c - 1 \in Clusters \ {0}
      BY <1>2, <1>4
    <3>3. f[(c - 1) + 1] # 0
      BY <3>1, <3>2 DEF Linked
    <3>4. QED
      BY <1>1, <3>2, <3>3
  <2>3. QED
    BY <1>2, <1>4, <2>1, <2>2 DEF Begins
<1>8. QED
  BY <1>1, <1>2, <1>5, <1>6, <1>7

\* What is owned stays owned when a cluster is taken, and no entry names it.
LEMMA TakenOwned ==
    ASSUME NEW f, NEW D, Owned(f, D), NEW g, NEW c,
           \A x : Begins(f, x) => Begins(g, x) /\ x # c
    PROVE  Owned(g, D) /\ (Begins(g, c) => Fresh(g, D, c))
<1>1. Owned(g, D)
  BY OwnedParts, OwnedOn
<1>2. ASSUME Begins(g, c)
      PROVE  Fresh(g, D, c)
  BY <1>2, OwnedParts DEF Fresh
<1>3. QED
  BY <1>1, <1>2

\* An entry is removed and its chain given back.
LEMMA RemovedOwned ==
    ASSUME NEW f, NEW D \in [DirSectors -> {NoDir} \cup Listings], Owned(f, D),
           NEW s \in DirSectors, NEW i \in 1..NEnt, LiveAt(D, s, i),
           NEW d \in Listings, AlikeBut(d, D[s], i), d[i].name = Free,
           NEW g, \A x : Begins(f, x) /\ x # D[s][i].first => Begins(g, x),
           NEW E, E[s] = d, \A r \in DirSectors : r # s => E[r] = D[r]
    PROVE  Owned(g, E)
<1>1. /\ D[s] # NoDir /\ D[s][i].name \in Names /\ d # NoDir /\ Free \notin Names
      /\ D[s][i].name # End /\ Free # End
  BY ListingParts, NamesApart DEF LiveAt, NamedAt, Free, End
<1>2. \A j \in 1..NEnt : j # i => /\ d[j].name = D[s][j].name /\ d[j].kind = D[s][j].kind
                                  /\ d[j].first = D[s][j].first
  BY DEF AlikeBut, Alike
<1>3. ASSUME NEW r \in DirSectors, NEW j \in 1..NEnt, NamedAt(E, r, j)
      PROVE  /\ NamedAt(D, r, j) /\ (r # s \/ j # i)
             /\ E[r][j].kind = D[r][j].kind /\ E[r][j].first = D[r][j].first
  <2>1. CASE r # s
    BY <1>3, <2>1 DEF NamedAt
  <2>2. CASE r = s
    <3>1. j # i
      BY <1>1, <1>3, <2>2 DEF NamedAt
    <3>2. \A k \in 1..j : D[s][k].name # End
      <4>1. \A k \in 1..j : d[k].name # End /\ k \in 1..NEnt
        BY <1>3, <2>2, Before DEF NamedAt
      <4>2. QED
        BY <1>1, <1>2, <4>1
    <3>3. QED
      BY <1>1, <1>2, <1>3, <2>2, <3>1, <3>2 DEF NamedAt
  <2>3. QED
    BY <2>1, <2>2
<1>4. ASSUME NEW r \in DirSectors, NEW j \in 1..NEnt, LiveAt(E, r, j)
      PROVE  LiveAt(D, r, j) /\ E[r][j].first = D[r][j].first /\ Begins(g, E[r][j].first)
  <2>1. NamedAt(D, r, j) /\ E[r][j].first = D[r][j].first /\ (r # s \/ j # i)
    BY <1>3, <1>4 DEF LiveAt
  <2>2. ASSUME NEW k \in 1..NEnt, Leads(E, k, r)
        PROVE  Leads(D, k, r)
    <3>1. NamedAt(E, Root, k) /\ E[Root][k].kind = "dir" /\ E[Root][k].first = r
      BY <2>2 DEF Leads
    <3>2. QED
      BY <1>3, <3>1, Numbers DEF Leads
  <2>3. LiveAt(D, r, j)
    BY <1>4, <2>1, <2>2 DEF LiveAt
  <2>4. D[r][j].first # D[s][i].first
    BY <2>1, <2>3, OwnedParts
  <2>5. Begins(f, D[r][j].first)
    BY <2>3, OwnedParts
  <2>6. QED
    BY <2>1, <2>3, <2>4, <2>5
<1>5. ASSUME NEW r \in DirSectors, E[r] # NoDir
      PROVE  Ended(E[r])
  <2>1. CASE r # s
    BY <1>5, <2>1, OwnedParts
  <2>2. CASE r = s
    <3>1. Ended(D[s])
      BY <1>1, OwnedParts
    <3>2. ASSUME NEW m \in 1..NEnt, NEW n \in 1..NEnt, m < n, d[m].name = End
          PROVE  d[n].name = End
      <4>1. m # i
        BY <1>1, <3>2
      <4>2. D[s][n].name = End
        BY <1>2, <3>1, <3>2, <4>1 DEF Ended
      <4>3. QED
        BY <1>1, <1>2, <4>2
    <3>3. QED
      BY <2>2, <3>2 DEF Ended
  <2>3. QED
    BY <2>1, <2>2
<1>6. E[Root] # NoDir
  BY <1>1, OwnedParts, Numbers
<1>7. /\ \A r \in DirSectors, j \in 1..NEnt : LiveAt(E, r, j) =>
             LiveAt(D, r, j) /\ E[r][j].first = D[r][j].first /\ Begins(g, E[r][j].first)
      /\ \A r \in DirSectors : E[r] # NoDir => Ended(E[r])
  BY <1>4, <1>5
<1>8. QED
  BY <1>6, <1>7, OwnedOn

\* An entry for a fresh cluster is put in the first unused place; a new directory's
\* own sector comes with it.
LEMMA AddedOwned ==
    ASSUME NEW f, NEW D \in [DirSectors -> {NoDir} \cup Listings], Owned(f, D),
           NEW c, Fresh(f, D, c), NEW s \in DirSectors, D[s] # NoDir, NEW i \in 1..NEnt,
           FirstEnd(D[s], i), NEW d \in Listings, AlikeBut(d, D[s], i),
           d[i].name \in Names, d[i].first = c,
           NEW E, \A r \in DirSectors : \/ E[r] = D[r]
                                        \/ r = s /\ E[r] = d
                                        \/ r = c /\ E[r] = NewDir(c),
           d[i].kind = "file" \/ E[c] = NewDir(c)
    PROVE  Owned(f, E)
<1>1. /\ c \in Data /\ c \in DirSectors /\ c \in Clusters /\ c # Root /\ Begins(f, c)
      /\ d # NoDir /\ NewDir(c) # NoDir /\ Ended(NewDir(c)) /\ D[s] \in Listings
      /\ \A j \in 1..NEnt : NewDir(c)[j].name \notin Names
  <2>1. c \in Data /\ Begins(f, c)
    BY DEF Fresh, Begins
  <2>2. c \in Clusters /\ c \in DirSectors /\ c # Root
    BY <2>1, Numbers
  <2>3. NewDir(c) \in Listings /\ Ended(NewDir(c)) /\ \A j \in 1..NEnt : NewDir(c)[j].name \notin Names
    BY <2>2, NewDirOK
  <2>4. QED
    BY <2>1, <2>2, <2>3, ListingParts
<1>2. \A j \in 1..NEnt : j # i => /\ d[j].name = D[s][j].name /\ d[j].kind = D[s][j].kind
                                  /\ d[j].first = D[s][j].first
  BY DEF AlikeBut, Alike
<1>3. D[s][i].name = End /\ d[i].name # End /\ \A j \in 1..(i - 1) : D[s][j].name # End
  BY NamesApart DEF FirstEnd
<1>4. \A j \in 1..NEnt : j > i => D[s][j].name = End /\ d[j].name = End
  <2>1. Ended(D[s])
    BY OwnedParts
  <2>2. QED
    BY <1>2, <1>3, <2>1, Numbers DEF Ended
<1>5. ASSUME NEW r \in DirSectors, NEW j \in 1..NEnt, NamedAt(E, r, j),
             ~(r = s /\ j = i /\ E[r] = d)
      PROVE  /\ NamedAt(D, r, j)
             /\ E[r][j].kind = D[r][j].kind /\ E[r][j].first = D[r][j].first
  <2>1. CASE E[r] = D[r]
    BY <1>5, <2>1 DEF NamedAt
  <2>2. CASE r = s /\ E[r] = d
    <3>1. j # i /\ j \in 1..NEnt
      BY <1>5, <2>2
    <3>2. d[j].name \in Names /\ d[j].name # End
      BY <1>5, <2>2, NamesApart DEF NamedAt
    <3>3. ~(j > i)
      BY <1>4, <3>2
    <3>4. \A k \in 1..j : k \in 1..(i - 1)
      BY <3>1, <3>3, Numbers
    <3>5. QED
      BY <1>2, <1>3, <2>2, <3>1, <3>2, <3>4 DEF NamedAt
  <2>3. CASE r = c /\ E[r] = NewDir(c)
    BY <1>1, <1>5, <2>3 DEF NamedAt
  <2>4. QED
    BY <2>1, <2>2, <2>3
<1>6. ASSUME NEW r \in DirSectors, NEW j \in 1..NEnt, LiveAt(E, r, j)
      PROVE  \/ r = s /\ j = i /\ E[r][j].first = c
             \/ LiveAt(D, r, j) /\ E[r][j].first = D[r][j].first
  <2>1. CASE r = s /\ j = i /\ E[r] = d
    BY <2>1
  <2>2. CASE ~(r = s /\ j = i /\ E[r] = d)
    <3>1. NamedAt(E, r, j) /\ NamedAt(D, r, j) /\ E[r][j].first = D[r][j].first
      BY <1>5, <1>6, <2>2 DEF LiveAt
    <3>2. ASSUME NEW k \in 1..NEnt, Leads(E, k, r)
          PROVE  Leads(D, k, r)
      <4>1. NamedAt(E, Root, k) /\ E[Root][k].kind = "dir" /\ E[Root][k].first = r
        BY <3>2 DEF Leads
      <4>2. CASE Root = s /\ k = i /\ E[Root] = d
        <5>1. r = c /\ d[i].kind = "dir"
          BY <4>1, <4>2
        <5>2. E[r] = NewDir(c)
          BY <5>1
        <5>3. QED
          BY <1>1, <3>1, <5>2 DEF NamedAt
      <4>3. CASE ~(Root = s /\ k = i /\ E[Root] = d)
        <5>1. /\ NamedAt(D, Root, k)
              /\ E[Root][k].kind = D[Root][k].kind /\ E[Root][k].first = D[Root][k].first
          BY <1>5, <4>1, <4>3, Numbers
        <5>2. QED
          BY <4>1, <5>1 DEF Leads
      <4>4. QED
        BY <4>2, <4>3
    <3>3. LiveAt(D, r, j)
      BY <1>6, <3>1, <3>2 DEF LiveAt
    <3>4. QED
      BY <3>1, <3>3
  <2>3. QED
    BY <2>1, <2>2
<1>7. \A r \in DirSectors, j \in 1..NEnt : LiveAt(D, r, j) => D[r][j].first # c
  BY DEF Fresh
<1>8. \A r \in DirSectors, j \in 1..NEnt : LiveAt(E, r, j) => Begins(f, E[r][j].first)
  BY <1>1, <1>6, OwnedParts
<1>9. ASSUME NEW q \in DirSectors, NEW r \in DirSectors, NEW m \in 1..NEnt, NEW n \in 1..NEnt,
             LiveAt(E, q, m), LiveAt(E, r, n), E[q][m].first = E[r][n].first
      PROVE  q = r /\ m = n
  <2>1. \/ q = s /\ m = i /\ E[q][m].first = c
        \/ LiveAt(D, q, m) /\ E[q][m].first = D[q][m].first
    BY <1>6, <1>9
  <2>2. \/ r = s /\ n = i /\ E[r][n].first = c
        \/ LiveAt(D, r, n) /\ E[r][n].first = D[r][n].first
    BY <1>6, <1>9
  <2>3. CASE E[q][m].first = c
    BY <1>7, <1>9, <2>1, <2>2, <2>3
  <2>4. CASE E[q][m].first # c
    <3>1. LiveAt(D, q, m) /\ LiveAt(D, r, n) /\ D[q][m].first = D[r][n].first
      BY <1>9, <2>1, <2>2, <2>4
    <3>2. QED
      BY <3>1, OwnedParts
  <2>5. QED
    BY <2>3, <2>4
<1>10. ASSUME NEW r \in DirSectors, E[r] # NoDir
       PROVE  Ended(E[r])
  <2>1. CASE E[r] = D[r]
    BY <1>10, <2>1, OwnedParts
  <2>2. CASE r = s /\ E[r] = d
    <3>1. ASSUME NEW m \in 1..NEnt, NEW n \in 1..NEnt, m < n, d[m].name = End
          PROVE  d[n].name = End
      <4>1. m # i
        BY <1>3, <3>1
      <4>2. ~(m < i)
        <5>1. m < i => m \in 1..(i - 1)
          BY Numbers
        <5>2. QED
          BY <1>2, <1>3, <3>1, <4>1, <5>1
      <4>3. n > i
        BY <3>1, <4>1, <4>2, Numbers
      <4>4. QED
        BY <1>4, <4>3
    <3>2. QED
      BY <2>2, <3>1 DEF Ended
  <2>3. CASE r = c /\ E[r] = NewDir(c)
    BY <1>1, <2>3
  <2>4. QED
    BY <2>1, <2>2, <2>3
<1>11. E[Root] # NoDir
  BY <1>1, OwnedParts, Numbers
<1>12. QED
  BY <1>8, <1>9, <1>10, <1>11 DEF Owned

------------------------------------------------------------------------------
(* The FAT and the directories, alone.                                       *)

\* What a call that writes the FAT has read of it, alone.
LEMMA FatWriterAlone ==
    ASSUME TypeInv, CallsOK, Alone, NEW t \in Tasks, pc[t] = "fatwrite"
    PROVE  /\ \A u \in Tasks : u # t => pc[u] = "idle"
           /\ Linked(fat) /\ Owned(fat, dirs) /\ loc[t].fat = fat
           /\ loc[t].op \in Erasing => ToErase(loc[t], dirs, cache.buf)
           /\ loc[t].op = "mkdir" => ToMake(loc[t], dirs, cache.buf)
           /\ loc[t].op = "openw" => ToCreate(loc[t], dirs)
           /\ fat \in Fats /\ Ahead(fat) /\ dirs \in [DirSectors -> {NoDir} \cup Listings]
<1>1. AloneAt("fatwrite", loc[t], fat, dirs, cache.buf) /\ Linked(fat)
      /\ \A u \in Tasks : u # t => pc[u] = "idle"
  BY Busy
<1>2. QED
  BY <1>1, StillTyped DEF AloneAt

\* A new directory's entry is ready to go where the first unused one is.
LEMMA MadeOK ==
    ASSUME TypeInv, NEW f, Owned(f, dirs), NEW c, Fresh(f, dirs, c),
           NEW s \in DirSectors, dirs[s] # NoDir, NEW i \in 1..NEnt, FirstEnd(dirs[s], i),
           NEW b, b.dir \in Listings, AlikeBut(b.dir, dirs[s], i),
           b.dir[i].name \in Names, b.dir[i].first = c,
           NEW l, l.sec = s, l.clu = c
    PROVE  Made(l, f, dirs, b)
<1>1. c \in Data /\ c \in Clusters /\ c \in DirSectors
  BY Numbers DEF Fresh, Begins
<1>2. PICK D \in [DirSectors -> {NoDir} \cup Listings] : D = dirs
  BY DEF TypeInv
<1>3. PICK d \in Listings : d = b.dir
  OBVIOUS
<1>4. PICK E : E = [D EXCEPT ![s] = d, ![c] = NewDir(c)]
  OBVIOUS
<1>5. PICK G : G = E
  OBVIOUS
<1>6. /\ G[c] = NewDir(c)
      /\ \A r \in DirSectors : \/ G[r] = D[r]
                               \/ r = s /\ G[r] = d
                               \/ r = c /\ G[r] = NewDir(c)
  BY <1>1, <1>4, <1>5
<1>7. /\ Owned(f, D) /\ Fresh(f, D, c) /\ D[s] # NoDir /\ FirstEnd(D[s], i)
      /\ AlikeBut(d, D[s], i) /\ d[i].name \in Names /\ d[i].first = c
  BY <1>2, <1>3
<1>8. Owned(f, G)
  BY <1>6, <1>7, AddedOwned
<1>9. Owned(f, [dirs EXCEPT ![s] = b.dir, ![c] = NewDir(c)])
  <2>1. G = [dirs EXCEPT ![s] = b.dir, ![c] = NewDir(c)]
    BY <1>2, <1>3, <1>4, <1>5
  <2>2. QED
    BY <1>8, <2>1
<1>10. dirs[s][i].name = End
  BY DEF FirstEnd
<1>11. QED
  BY <1>1, <1>9, <1>10 DEF Made

\* mkdir goes on with the cluster it has been given, alone.
LEMMA MkdirGoesOnAlone ==
    ASSUME TypeInv, CallsOK, Alone, NEW t \in Tasks, pc[t] = "fatwrite", loc[t].op = "mkdir",
           NEW c, MkdirGoesOn(t, c), dirs' = dirs, ~astray',
           Linked(fat'), Owned(fat', dirs), Fresh(fat', dirs, c)
    PROVE  Alone'
<1>1. /\ \A u \in Tasks : u # t => pc[u] = "idle"
      /\ ToMake(loc[t], dirs, cache.buf) /\ dirs \in [DirSectors -> {NoDir} \cup Listings]
  BY FatWriterAlone
<1>2. loc[t] \in Locs /\ loc[t].path # <<>> /\ loc[t].idx \in 1..NEnt
  BY TaskParts DEF CallOK, NewFile, Writing, Placed, Erasing
<1>3. c \in Data /\ c \in Clusters /\ c \in DirSectors /\ c # Root
  BY Numbers DEF Fresh, Begins
<1>4. PICK i : i = loc[t].idx
  OBVIOUS
<1>5. PICK x : x = cache.buf.dir[i]
  OBVIOUS
<1>6. PICK s : s = cache.buf.of
  OBVIOUS
<1>7. /\ s \in DirSectors /\ cache.buf.dir # NoDir /\ dirs[s] # NoDir
      /\ Matches(cache.buf.dir, dirs[s])
      /\ x.name = End => FirstEnd(cache.buf.dir, i) /\ x.mark = s
      /\ cache.buf.dir \in Listings /\ cache \in [pcs : Sectors, buf : Buffers]
      /\ BufferOK(cache.buf)
  BY <1>1, <1>4, <1>5, <1>6, BufferParts DEF ToMake, InBuffer
<1>8. (CASE cache.buf.dir = NoDir \/ (x.name = End /\ x.mark = NoSector) ->
               Stray /\ UNCHANGED cache
         [] cache.buf.dir # NoDir /\ x.name = End /\ x.mark # NoSector ->
               /\ cache' = Edited(cache, i, NewEntry(t, "dir", c))
               /\ Goto(t, "back") /\ Locals(t, [loc[t] EXCEPT !.clu = c, !.sec = x.mark])
         [] OTHER ->
               /\ Goto(t, "load") /\ Locals(t, [loc[t] EXCEPT !.clu = c, !.sec = x.first])
               /\ UNCHANGED cache)
  BY <1>4, <1>5, Zenon DEF MkdirGoesOn
<1>9. CASE x.name = End
  <2>1. x.mark # NoSector /\ x.mark = s
    BY <1>7, <1>9, Numbers
  <2>2. /\ cache' = Edited(cache, i, NewEntry(t, "dir", c))
        /\ Goto(t, "back") /\ Locals(t, [loc[t] EXCEPT !.clu = c, !.sec = x.mark])
    BY <1>7, <1>8, <1>9, <2>1
  <2>3. PICK n : n = NewEntry(t, "dir", c)
    OBVIOUS
  <2>4. n \in Entries /\ n.name \in Names /\ n.kind = "dir" /\ n.first = c
    BY <1>2, <1>3, <2>3, NewEntryOK
  <2>5. PICK m : m = Edited(cache, i, n)
    OBVIOUS
  <2>6. /\ m.buf.of = s /\ m.buf.dir \in Listings /\ m.buf.dir # NoDir
        /\ m.buf.dir[i] = n /\ \A j \in 1..NEnt : j # i => m.buf.dir[j] = cache.buf.dir[j]
    BY <1>2, <1>4, <1>6, <1>7, <2>4, <2>5, EditedOK
  <2>7. PICK b : b = m.buf
    OBVIOUS
  <2>8. cache'.buf = b
    BY <2>2, <2>3, <2>5, <2>7
  <2>9. PICK k : k = [loc[t] EXCEPT !.clu = c, !.sec = x.mark]
    OBVIOUS
  <2>10. PICK l : l = [k EXCEPT !.missed = FALSE]
    OBVIOUS
  <2>11. loc' = [loc EXCEPT ![t] = l]
    BY <2>2, <2>9, <2>10 DEF Locals
  <2>12. l.op = "mkdir" /\ l.clu = c /\ l.sec = s
    BY <1>2, <2>1, <2>9, <2>10 DEF Locs
  <2>13. AlikeBut(b.dir, dirs[s], i) /\ FirstEnd(dirs[s], i)
    <3>1. \A j \in 1..NEnt : j # i => Alike(b.dir[j], dirs[s][j])
      BY <1>7, <2>6, <2>7 DEF Matches
    <3>2. FirstEnd(dirs[s], i)
      BY <1>2, <1>4, <1>7, <1>9, EndsMatch
    <3>3. QED
      BY <3>1, <3>2 DEF AlikeBut
  <2>14. Made(l, fat', dirs, b)
    <3>1. b.dir \in Listings /\ b.dir[i].name \in Names /\ b.dir[i].first = c /\ i \in 1..NEnt
      BY <1>2, <1>4, <2>4, <2>6, <2>7
    <3>2. \A f : Owned(f, dirs) /\ Fresh(f, dirs, c) => Made(l, f, dirs, b)
      BY <1>7, <2>12, <2>13, <3>1, MadeOK
    <3>3. QED
      BY <3>2
  <2>15. InBuffer(b, dirs, s)
    BY <1>7, <2>6, <2>7 DEF InBuffer
  <2>16. AloneAt("back", l, fat', dirs', cache'.buf)
    BY <2>8, <2>12, <2>14, <2>15 DEF AloneAt, Erasing
  <2>17. QED
    BY <1>1, <2>2, <2>11, <2>16, AloneMoves DEF Goto
<1>10. CASE x.name # End
  <2>1. /\ Goto(t, "load") /\ Locals(t, [loc[t] EXCEPT !.clu = c, !.sec = x.first])
    BY <1>7, <1>8, <1>10
  <2>2. PICK k : k = [loc[t] EXCEPT !.clu = c, !.sec = x.first]
    OBVIOUS
  <2>3. PICK l : l = [k EXCEPT !.missed = FALSE]
    OBVIOUS
  <2>4. loc' = [loc EXCEPT ![t] = l]
    BY <2>1, <2>2, <2>3 DEF Locals
  <2>5. l.clu = c
    BY <1>2, <2>2, <2>3 DEF Locs
  <2>6. AloneAt("load", l, fat', dirs', cache'.buf)
    BY <2>5 DEF AloneAt
  <2>7. QED
    BY <1>1, <2>1, <2>4, <2>6, AloneMoves DEF Goto
<1>11. QED
  BY <1>9, <1>10

\* A cluster is taken, alone.
LEMMA AllocateAlone ==
    ASSUME TypeInv, CallsOK, Alone, NEW t \in Tasks, pc[t] = "fatwrite",
           loc[t].op \notin {"rmdir", "remove"}, Allocate(t),
           UNCHANGED <<dirs, file, mixed, stale>>, ~astray'
    PROVE  Alone'
<1>1. /\ \A u \in Tasks : u # t => pc[u] = "idle"
      /\ Linked(fat) /\ Owned(fat, dirs) /\ loc[t].fat = fat
      /\ loc[t].op = "openw" => ToCreate(loc[t], dirs)
      /\ fat \in Fats /\ Ahead(fat) /\ loc[t] \in Locs
  BY FatWriterAlone, TaskParts
<1>2. PICK f : f = fat
  OBVIOUS
<1>3. PICK free : free = {k \in Clusters : f[k] = 0}
  OBVIOUS
<1>4. PICK append \in BOOLEAN : append <=> loc[t].op = "write"
  OBVIOUS
<1>5. IF free = {} THEN Stray /\ UNCHANGED <<fat, cache>>
      ELSE /\ fat' = WithCluster(f, append)
           /\ IF loc[t].op = "mkdir" THEN MkdirGoesOn(t, Min(free))
              ELSE /\ Goto(t, IF append THEN "data" ELSE "dirwrite")
                   /\ Locals(t, [loc[t] EXCEPT !.clu = Min(free)]) /\ UNCHANGED cache
  <2>1. append = (loc[t].op = "write") /\ loc[t].fat = f
    BY <1>1, <1>2, <1>4, Zenon
  <2>2. QED
    BY <1>3, <2>1, Zenon DEF Allocate
<1>6. free # {}
  BY <1>5, NotAstray
<1>7. PICK c : c = Min(free)
  OBVIOUS
<1>8. PICK g : g = WithCluster(f, append)
  OBVIOUS
<1>9. /\ Linked(g) /\ \A x : Begins(f, x) => Begins(g, x) /\ x # c
      /\ ~append => Begins(g, c)
  BY <1>1, <1>2, <1>3, <1>6, <1>7, <1>8, TakenChain
<1>10. Owned(g, dirs) /\ (~append => Fresh(g, dirs, c))
  BY <1>1, <1>2, <1>9, TakenOwned
<1>11. fat' = g /\ dirs' = dirs
  BY <1>5, <1>6, <1>8
<1>12. CASE loc[t].op = "mkdir"
  <2>1. MkdirGoesOn(t, c) /\ ~append
    BY <1>4, <1>5, <1>6, <1>7, <1>12
  <2>2. QED
    BY <1>9, <1>10, <1>11, <1>12, <2>1, MkdirGoesOnAlone
<1>13. CASE loc[t].op # "mkdir"
  <2>1. PICK p : p = (IF append THEN "data" ELSE "dirwrite")
    OBVIOUS
  <2>2. PICK k : k = [loc[t] EXCEPT !.clu = c]
    OBVIOUS
  <2>3. PICK l : l = [k EXCEPT !.missed = FALSE]
    OBVIOUS
  <2>4. Goto(t, p) /\ loc' = [loc EXCEPT ![t] = l]
    BY <1>5, <1>6, <1>7, <1>13, <2>1, <2>2, <2>3 DEF Locals
  <2>5. /\ l.op = loc[t].op /\ l.idx = loc[t].idx /\ l.dir = loc[t].dir /\ l.sec = loc[t].sec
        /\ l.clu = c
    BY <1>1, <2>2, <2>3 DEF Locs
  <2>6. CASE append
    <3>1. p = "data"
      BY <2>1, <2>6
    <3>2. QED
      BY <1>1, <1>9, <1>10, <1>11, <2>4, <3>1, AloneGoesOn
  <2>7. CASE ~append
    <3>1. p = "dirwrite" /\ loc[t].op = "openw"
      BY <1>4, <1>13, <2>1, <2>7, FatWriter DEF Erasing, NewFile, Writing
    <3>2. ToCreate(l, dirs)
      BY <1>1, <2>5, <3>1 DEF ToCreate
    <3>3. AloneAt(p, l, g, dirs, cache'.buf)
      BY <1>10, <2>5, <2>7, <3>1, <3>2 DEF AloneAt
    <3>4. QED
      BY <1>1, <1>9, <1>11, <2>4, <3>1, <3>3, AloneMoves DEF Goto
  <2>8. QED
    BY <2>6, <2>7
<1>14. QED
  BY <1>12, <1>13

\* The clusters are given back and the entry goes in the buffer, alone.
LEMMA ReleaseAlone ==
    ASSUME TypeInv, CallsOK, Alone, NEW t \in Tasks, pc[t] = "fatwrite",
           loc[t].op \in {"rmdir", "remove"}, Release(t),
           UNCHANGED <<dirs, file, mixed, stale>>, ~astray'
    PROVE  Alone'
<1>1. /\ \A u \in Tasks : u # t => pc[u] = "idle"
      /\ Linked(fat) /\ Owned(fat, dirs) /\ loc[t].fat = fat
      /\ ToErase(loc[t], dirs, cache.buf)
      /\ fat \in Fats /\ Ahead(fat) /\ dirs \in [DirSectors -> {NoDir} \cup Listings]
      /\ loc[t] \in Locs
  BY FatWriterAlone, TaskParts DEF Erasing
<1>2. PICK f : f = fat
  OBVIOUS
<1>3. PICK i : i = loc[t].idx
  OBVIOUS
<1>4. PICK s : s = loc[t].sec
  OBVIOUS
<1>5. PICK c : c = loc[t].clu
  OBVIOUS
<1>6. i \in 1..NEnt
  BY <1>3, FatWriter DEF Placed, NewFile, Writing, Erasing
<1>7. /\ cache.buf.of = s /\ s \in DirSectors /\ cache.buf.dir # NoDir /\ dirs[s] # NoDir
      /\ Matches(cache.buf.dir, dirs[s]) /\ cache.buf.dir[i].mark = s
      /\ LiveAt(dirs, s, i) /\ c = dirs[s][i].first
      /\ cache \in [pcs : Sectors, buf : Buffers] /\ BufferOK(cache.buf)
  BY <1>1, <1>3, <1>4, <1>5, BufferParts DEF ToErase, InBuffer
<1>8. (CASE \A k \in Clusters : k >= c => f[k] # Eoc -> Finish(t) /\ UNCHANGED <<fat, cache>>
         [] OTHER -> /\ fat' = Freed(f, c)
                     /\ IF \/ cache.buf.dir = NoDir
                           \/ cache.buf.dir # NoDir /\ cache.buf.dir[i].mark = NoSector
                        THEN Stray /\ UNCHANGED cache
                        ELSE /\ cache' = [cache EXCEPT !.buf.dir[i].name = Free]
                             /\ Goto(t, "back")
                             /\ Locals(t, [loc[t] EXCEPT !.sec = cache.buf.dir[i].mark]))
  <2>1. loc[t].fat = f
    BY <1>1, <1>2
  <2>2. QED
    BY <1>3, <1>5, <2>1, Zenon DEF Release
<1>9. CASE \A k \in Clusters : k >= c => f[k] # Eoc
  <2>1. Finish(t) /\ fat' = fat /\ dirs' = dirs
    BY <1>8, <1>9
  <2>2. QED
    BY <1>1, <2>1, AloneFinishes
<1>10. CASE ~(\A k \in Clusters : k >= c => f[k] # Eoc)
  <2>1. /\ fat' = Freed(f, c) /\ cache' = [cache EXCEPT !.buf.dir[i].name = Free]
        /\ Goto(t, "back") /\ Locals(t, [loc[t] EXCEPT !.sec = cache.buf.dir[i].mark])
    BY <1>8, <1>10, NotAstray
  <2>2. PICK g : g = Freed(f, c)
    OBVIOUS
  <2>3. Begins(f, c)
    BY <1>1, <1>2, <1>6, <1>7, OwnedParts
  <2>4. Linked(g) /\ \A x : Begins(f, x) /\ x # c => Begins(g, x)
    BY <1>1, <1>2, <1>10, <2>2, <2>3, FreedChain
  <2>5. PICK n : n = [cache EXCEPT !.buf.dir[i].name = Free]
    OBVIOUS
  <2>6. /\ n.buf.of = s /\ n.buf.dir \in Listings /\ n.buf.dir # NoDir
        /\ n.buf.dir[i].name = Free
        /\ \A j \in 1..NEnt : j # i => n.buf.dir[j] = cache.buf.dir[j]
    BY <1>6, <1>7, <2>5, ErasedOK
  <2>7. PICK b : b = n.buf
    OBVIOUS
  <2>8. cache'.buf = b /\ fat' = g /\ dirs' = dirs
    BY <2>1, <2>2, <2>5, <2>7
  <2>9. PICK k : k = [loc[t] EXCEPT !.sec = cache.buf.dir[i].mark]
    OBVIOUS
  <2>10. PICK l : l = [k EXCEPT !.missed = FALSE]
    OBVIOUS
  <2>11. loc' = [loc EXCEPT ![t] = l]
    BY <2>1, <2>9, <2>10 DEF Locals
  <2>12. l.op = loc[t].op /\ l.sec = s /\ l.idx = i
    BY <1>1, <1>3, <1>7, <2>9, <2>10 DEF Locs
  <2>13. AlikeBut(b.dir, dirs[s], i)
    BY <1>7, <2>6, <2>7 DEF AlikeBut, Matches
  <2>14. PICK E : E = [dirs EXCEPT ![s] = b.dir]
    OBVIOUS
  <2>15. Owned(g, E)
    <3>1. PICK G : G = E
      OBVIOUS
    <3>2. PICK D : D = dirs
      OBVIOUS
    <3>3. G[s] = b.dir /\ \A r \in DirSectors : r # s => G[r] = D[r]
      BY <1>1, <1>7, <2>14, <3>1, <3>2
    <3>4. /\ D \in [DirSectors -> {NoDir} \cup Listings] /\ Owned(f, D) /\ LiveAt(D, s, i)
          /\ AlikeBut(b.dir, D[s], i) /\ b.dir \in Listings /\ b.dir[i].name = Free
          /\ \A x : Begins(f, x) /\ x # D[s][i].first => Begins(g, x)
      BY <1>1, <1>2, <1>7, <2>4, <2>6, <2>7, <2>13, <3>2
    <3>5. Owned(g, G)
      BY <1>6, <1>7, <3>3, <3>4, RemovedOwned
    <3>6. QED
      BY <3>1, <3>5
  <2>16. Erased(l, g, dirs, b)
    BY <2>12, <2>13, <2>14, <2>15 DEF Erased
  <2>17. InBuffer(b, dirs, s)
    BY <1>7, <2>6, <2>7 DEF InBuffer
  <2>18. l.op \in Erasing /\ l.op # "mkdir" /\ l.op # "write"
    BY <2>12 DEF Erasing
  <2>19. AloneAt("back", l, g, dirs, b)
    BY <2>12, <2>16, <2>17, <2>18 DEF AloneAt
  <2>20. QED
    BY <1>1, <2>1, <2>4, <2>8, <2>11, <2>19, AloneMoves DEF Goto
<1>11. QED
  BY <1>9, <1>10

\* A search, alone.
LEMMA LookupAlone ==
    ASSUME TypeInv, CallsOK, Alone, NEW t \in Tasks, Lookup(t), ~stale', ~astray'
    PROVE  Alone'
BY LookupRootAlone, LookupPathAlone DEF Lookup

\* The FAT is written, alone.
LEMMA FatWriteAlone ==
    ASSUME TypeInv, CallsOK, Alone, NEW t \in Tasks, FatWrite(t), ~astray'
    PROVE  Alone'
BY ReleaseAlone, AllocateAlone DEF FatWrite, history

\* open puts the new file's entry in the directory, alone.
LEMMA DirWriteAlone ==
    ASSUME TypeInv, CallsOK, Alone, NEW t \in Tasks, DirWrite(t)
    PROVE  Alone'
<1>1. pc[t] = "dirwrite" /\ fat' = fat /\ Finish(t)
  BY DEF DirWrite
<1>2. /\ \A u \in Tasks : u # t => pc[u] = "idle"
      /\ Linked(fat) /\ Owned(fat, dirs) /\ ToCreate(loc[t], dirs) /\ Fresh(fat, dirs, loc[t].clu)
  BY <1>1, Busy DEF AloneAt
<1>3. /\ loc[t] \in Locs /\ loc[t].path # <<>> /\ loc[t].idx \in 1..NEnt
      /\ loc[t].sec \in DirSectors /\ loc[t].dir \in Listings
  BY <1>1, TaskParts DEF CallOK, NewFile, Placed
<1>4. PICK s : s = loc[t].sec
  OBVIOUS
<1>5. PICK i : i = loc[t].idx
  OBVIOUS
<1>6. PICK c : c = loc[t].clu
  OBVIOUS
<1>7. PICK e : e = NewEntry(t, "file", c)
  OBVIOUS
<1>8. e \in Entries /\ e.name \in Names /\ e.kind = "file" /\ e.first = c
  BY <1>3, <1>6, <1>7, LocsParts, NewEntryOK
<1>9. PICK o \in Listings : o = loc[t].dir
  BY <1>3
<1>10. PICK d : d = [o EXCEPT ![i] = e]
  OBVIOUS
<1>11. PICK n : n = d
  OBVIOUS
<1>12. n \in Listings /\ n[i] = e /\ \A j \in 1..NEnt : j # i => n[j] = o[j]
  BY <1>3, <1>5, <1>8, <1>10, <1>11 DEF Listings
<1>13. PICK D \in [DirSectors -> {NoDir} \cup Listings] : D = dirs
  BY DEF TypeInv
<1>14. o = D[s] /\ FirstEnd(D[s], i) /\ D[s] # NoDir
  BY <1>2, <1>4, <1>5, <1>9, <1>13, ListingParts DEF ToCreate
<1>15. AlikeBut(n, D[s], i)
  BY <1>12, <1>14 DEF AlikeBut, Alike
<1>16. PICK E : E = dirs'
  OBVIOUS
<1>17. E = [D EXCEPT ![s] = n]
  BY <1>4, <1>5, <1>6, <1>7, <1>9, <1>10, <1>11, <1>13, <1>16 DEF DirWrite
<1>18. PICK G : G = E
  OBVIOUS
<1>19. \A r \in DirSectors : \/ G[r] = D[r]
                             \/ r = s /\ G[r] = n
                             \/ r = c /\ G[r] = NewDir(c)
  BY <1>3, <1>4, <1>17, <1>18
<1>20. PICK f : f = fat
  OBVIOUS
<1>21. /\ Owned(f, D) /\ Fresh(f, D, c) /\ n[i].name \in Names /\ n[i].first = c
       /\ n[i].kind = "file" /\ s \in DirSectors /\ i \in 1..NEnt
  BY <1>2, <1>3, <1>4, <1>5, <1>6, <1>8, <1>12, <1>13, <1>20
<1>22. Owned(f, G)
  BY <1>12, <1>14, <1>15, <1>19, <1>21, AddedOwned
<1>23. Linked(fat') /\ Owned(fat', dirs')
  BY <1>1, <1>2, <1>16, <1>18, <1>20, <1>22
<1>24. QED
  BY <1>1, <1>2, <1>23, AloneFinishes

\* mkdir puts the entry in the buffer of the directory it has searched, alone.
LEMMA LoadDirAlone ==
    ASSUME TypeInv, CallsOK, Alone, NEW t \in Tasks, LoadDir(t), ~stale', ~astray'
    PROVE  Alone'
<1>1. pc[t] = "load" /\ UNCHANGED disk
  BY DEF LoadDir
<1>2. /\ \A u \in Tasks : u # t => pc[u] = "idle"
      /\ Linked(fat') /\ Owned(fat', dirs') /\ Linked(fat) /\ Owned(fat, dirs)
      /\ Fresh(fat, dirs, loc[t].clu) /\ dirs' = dirs /\ fat' = fat
  BY <1>1, Busy DEF AloneAt, disk
<1>3. loc[t] \in Locs /\ loc[t].op = "mkdir" /\ loc[t].path # <<>>
  BY <1>1, TaskParts DEF CallOK
<1>4. PICK s : s = loc[t].sec
  OBVIOUS
<1>5. PICK c : c = Loaded(t, s)
  OBVIOUS
<1>6. PICK d : d = c.buf.dir
  OBVIOUS
<1>7. PICK e : e = NewEntry(t, "dir", loc[t].clu)
  OBVIOUS
<1>8. IF s \notin Data \/ (s \in Data /\ d = NoDir) THEN Stray /\ UNCHANGED <<cache, stale>>
      ELSE /\ Looked(t, s)
           /\ CASE Find(d, e.name, {"file", "dir"}) # {} -> Finish(t) /\ cache' = c
                [] Find(d, e.name, {"file", "dir"}) = {} /\ Ends(d) # {} ->
                      /\ cache' = Edited(c, FirstFree(d), e)
                      /\ Goto(t, "back") /\ Locals(t, loc[t])
                [] OTHER -> Stray /\ cache' = c
  BY <1>4, <1>5, <1>6, <1>7, Zenon DEF LoadDir, Listed
<1>9. s \in Data /\ d # NoDir
  BY <1>8, NotAstray
<1>10. /\ Looked(t, s)
       /\ CASE Find(d, e.name, {"file", "dir"}) # {} -> Finish(t) /\ cache' = c
            [] Find(d, e.name, {"file", "dir"}) = {} /\ Ends(d) # {} ->
                  /\ cache' = Edited(c, FirstFree(d), e)
                  /\ Goto(t, "back") /\ Locals(t, loc[t])
            [] OTHER -> Stray /\ cache' = c
  BY <1>8, <1>9
<1>11. CASE Finish(t)
  BY <1>2, <1>11, AloneFinishes
<1>12. CASE ~Finish(t)
  <2>1. Find(d, e.name, {"file", "dir"}) = {} /\ Ends(d) # {}
    BY <1>10, <1>12, NotAstray
  <2>2. cache' = Edited(c, FirstFree(d), e) /\ Goto(t, "back") /\ Locals(t, loc[t])
    BY <1>10, <2>1
  <2>3. s \in DirSectors
    BY <1>9, Numbers
  <2>4. /\ c \in [pcs : Sectors, buf : Buffers] /\ BufferOK(c.buf)
        /\ d \in Listings /\ c.buf.of = s
        /\ dirs[s] \in Listings /\ dirs[s] # NoDir /\ Matches(d, dirs[s])
    BY <1>5, <1>6, <1>9, <1>10, <2>3, NotStale
  <2>5. PICK i : i = FirstFree(d)
    OBVIOUS
  <2>6. i \in 1..NEnt /\ FirstEnd(d, i)
    BY <2>1, <2>4, <2>5, FirstEndIs DEF FirstFree
  <2>7. FirstEnd(dirs[s], i)
    BY <2>4, <2>6, EndsMatch
  <2>8. e \in Entries /\ e.name \in Names /\ e.first = loc[t].clu
    BY <1>3, <1>7, LocsParts, NewEntryOK
  <2>9. PICK m : m = Edited(c, i, e)
    OBVIOUS
  <2>10. /\ m.buf.of = s /\ m.buf.dir \in Listings /\ m.buf.dir # NoDir
         /\ m.buf.dir[i] = e /\ \A j \in 1..NEnt : j # i => m.buf.dir[j] = d[j]
    BY <1>6, <1>9, <2>4, <2>6, <2>8, <2>9, EditedOK
  <2>11. PICK b : b = m.buf
    OBVIOUS
  <2>12. cache'.buf = b
    BY <2>2, <2>5, <2>9, <2>11
  <2>13. PICK l : l = [loc[t] EXCEPT !.missed = FALSE]
    OBVIOUS
  <2>14. loc' = [loc EXCEPT ![t] = l]
    BY <2>2, <2>13 DEF Locals
  <2>15. l.op = "mkdir" /\ l.clu = loc[t].clu /\ l.sec = s
    BY <1>3, <1>4, <2>13 DEF Locs
  <2>16. AlikeBut(b.dir, dirs[s], i)
    BY <2>4, <2>10, <2>11 DEF AlikeBut, Matches
  <2>17. Made(l, fat, dirs, b)
    <3>1. b.dir \in Listings /\ b.dir[i].name \in Names /\ b.dir[i].first = loc[t].clu
      BY <2>8, <2>10, <2>11
    <3>2. QED
      BY <1>2, <2>3, <2>4, <2>6, <2>7, <2>15, <2>16, <3>1, MadeOK
  <2>18. InBuffer(b, dirs, s)
    BY <2>3, <2>4, <2>10, <2>11 DEF InBuffer
  <2>19. AloneAt("back", l, fat', dirs', cache'.buf)
    BY <1>2, <2>12, <2>15, <2>17, <2>18 DEF AloneAt, Erasing
  <2>20. QED
    BY <1>2, <2>2, <2>14, <2>19, AloneMoves DEF Goto
<1>13. QED
  BY <1>11, <1>12

\* The buffer goes back to its directory, alone.
LEMMA BackAlone ==
    ASSUME TypeInv, CallsOK, Alone, NEW t \in Tasks, Back(t), ~astray'
    PROVE  Alone'
<1>1. pc[t] = "back" /\ fat' = fat /\ cache' = cache
  BY DEF Back
<1>2. PICK s : s = loc[t].sec
  OBVIOUS
<1>3. PICK d : d = cache.buf.dir
  OBVIOUS
<1>4. /\ \A u \in Tasks : u # t => pc[u] = "idle"
      /\ Linked(fat) /\ InBuffer(cache.buf, dirs, s)
      /\ loc[t].op = "write" => Owned(fat, dirs) /\ Matches(d, dirs[s])
      /\ loc[t].op \in Erasing => Erased(loc[t], fat, dirs, cache.buf)
      /\ loc[t].op = "mkdir" => Made(loc[t], fat, dirs, cache.buf)
  BY <1>1, <1>2, <1>3, Busy DEF AloneAt
<1>5. /\ loc[t] \in Locs /\ loc[t].op \in {"mkdir", "rmdir", "remove", "write"}
  BY <1>1, TaskParts DEF CallOK
<1>6. /\ dirs' = [dirs EXCEPT ![s] = d]
      /\ IF loc[t].op = "mkdir" THEN Goto(t, "dots") /\ UNCHANGED loc ELSE Finish(t)
  BY <1>2, <1>3, NotAstray DEF Back
<1>7. s \in DirSectors /\ dirs[s] # NoDir /\ d \in Listings
  BY <1>3, <1>4, BufferParts DEF InBuffer
<1>8. CASE loc[t].op = "write"
  <2>1. PICK D \in [DirSectors -> {NoDir} \cup Listings] : D = dirs
    BY DEF TypeInv
  <2>2. PICK E : E = dirs'
    OBVIOUS
  <2>3. PICK G : G = E
    OBVIOUS
  <2>4. G[s] = d /\ \A r \in DirSectors : r # s => G[r] = D[r]
    BY <1>6, <1>7, <2>1, <2>2, <2>3
  <2>5. D[s] # NoDir /\ Matches(d, D[s])
    BY <1>4, <1>7, <1>8, <2>1
  <2>6. \A f : Owned(f, D) => Owned(f, G)
    BY <1>7, <2>4, <2>5, SameOwned
  <2>7. Owned(fat', dirs') /\ Linked(fat')
    BY <1>1, <1>4, <1>8, <2>1, <2>2, <2>3, <2>6
  <2>8. QED
    BY <1>4, <1>6, <1>8, <2>7, AloneFinishes
<1>9. CASE loc[t].op \in Erasing
  <2>1. Owned(fat, [dirs EXCEPT ![s] = d])
    BY <1>2, <1>3, <1>4, <1>9 DEF Erased
  <2>2. Owned(fat', dirs') /\ Linked(fat') /\ Finish(t)
    BY <1>1, <1>4, <1>6, <1>9, <2>1 DEF Erasing
  <2>3. QED
    BY <1>4, <2>2, AloneFinishes
<1>10. CASE loc[t].op = "mkdir"
  <2>1. PICK l : l = loc[t]
    OBVIOUS
  <2>2. l.clu \in Data /\ Owned(fat, [dirs EXCEPT ![s] = d, ![l.clu] = NewDir(l.clu)])
    BY <1>2, <1>3, <1>4, <1>10, <2>1 DEF Made
  <2>3. [dirs EXCEPT ![s] = d, ![l.clu] = NewDir(l.clu)]
          = [dirs' EXCEPT ![l.clu] = NewDir(l.clu)]
    BY <1>6
  <2>4. AloneAt("dots", l, fat', dirs', cache'.buf)
    BY <1>1, <2>2, <2>3 DEF AloneAt
  <2>5. Goto(t, "dots") /\ loc' = [loc EXCEPT ![t] = l]
    BY <1>6, <1>10, <2>1, TaskParts
  <2>6. QED
    BY <1>1, <1>4, <2>4, <2>5, AloneMoves DEF Goto
<1>11. QED
  BY <1>5, <1>8, <1>9, <1>10 DEF Erasing

\* A new directory's own sector is written, alone.
LEMMA DotsAlone ==
    ASSUME TypeInv, CallsOK, Alone, NEW t \in Tasks, Dots(t), ~astray'
    PROVE  Alone'
<1>1. pc[t] = "dots" /\ fat' = fat
  BY DEF Dots
<1>2. PICK c : c = loc[t].clu
  OBVIOUS
<1>3. /\ \A u \in Tasks : u # t => pc[u] = "idle"
      /\ Linked(fat) /\ Owned(fat, [dirs EXCEPT ![c] = NewDir(c)])
  BY <1>1, <1>2, Busy DEF AloneAt
<1>4. Finish(t) /\ dirs' = [dirs EXCEPT ![c] = NewDir(c)]
  BY <1>2, NotAstray DEF Dots
<1>5. Linked(fat') /\ Owned(fat', dirs')
  BY <1>1, <1>3, <1>4
<1>6. QED
  BY <1>3, <1>4, <1>5, AloneFinishes

------------------------------------------------------------------------------
(* Reading and writing, alone.                                               *)

\* A call that reads or writes, or goes on with a search, alone.
LEMMA Going ==
    ASSUME TypeInv, CallsOK, Alone, NEW t \in Tasks,
           pc[t] \in {"loop", "data", "size", "next", "list"}
    PROVE  /\ \A u \in Tasks : u # t => pc[u] = "idle"
           /\ Linked(fat) /\ Owned(fat, dirs) /\ loc[t] \in Locs
           /\ loc = [loc EXCEPT ![t] = loc[t]] /\ pc = [pc EXCEPT ![t] = pc[t]]
<1>1. AloneAt(pc[t], loc[t], fat, dirs, cache.buf) /\ pc[t] # "idle"
      /\ \A u \in Tasks : u # t => pc[u] = "idle"
  BY Busy
<1>2. Owned(fat, dirs)
  BY <1>1 DEF AloneAt
<1>3. QED
  BY <1>1, <1>2, Busy, TaskParts

\* Data is written over a sector, alone.
LEMMA DataOwned ==
    ASSUME TypeInv, Owned(fat, dirs), NEW c \in Data, dirs' = [dirs EXCEPT ![c] = NoDir],
           fat' = fat
    PROVE  Owned(fat', dirs')
<1>1. PICK D \in [DirSectors -> {NoDir} \cup Listings] : D = dirs
  BY DEF TypeInv
<1>2. PICK E : E = dirs'
  OBVIOUS
<1>3. PICK G : G = E
  OBVIOUS
<1>4. G[c] = NoDir /\ \A r \in DirSectors : r # c => G[r] = D[r]
  BY <1>1, <1>2, <1>3, Numbers
<1>5. \A f : Owned(f, D) => Owned(f, G)
  BY <1>4, EmptiedOwned
<1>6. QED
  BY <1>1, <1>2, <1>3, <1>5

\* Locals of a call that has read or written a piece.
LEMMA Pieces ==
    ASSUME NEW t, NEW n, Locals(t, [loc[t] EXCEPT !.left = @ - n])
    PROVE  \E l : loc' = [loc EXCEPT ![t] = l]
BY DEF Locals

\* A sector that is part written, alone.
LEMMA WriteLoopAlone ==
    ASSUME TypeInv, CallsOK, Alone, NEW t \in Tasks, WriteLoop(t), ~astray'
    PROVE  Alone'
<1>1. pc[t] = "loop" /\ loc[t].op = "write" /\ fat' = fat
  BY DEF WriteLoop
<1>2. /\ \A u \in Tasks : u # t => pc[u] = "idle"
      /\ Linked(fat) /\ Owned(fat, dirs)
      /\ loc = [loc EXCEPT ![t] = loc[t]] /\ pc = [pc EXCEPT ![t] = pc[t]]
  BY <1>1, Going
<1>3. PICK f : f = file[t]
  OBVIOUS
<1>4. PICK n : n = Min({loc[t].left, Bps - (f.offset % Bps)})
  OBVIOUS
<1>5. \/ /\ loc[t].left = 0
         /\ Goto(t, "size") /\ UNCHANGED <<dirs, file, loc>>
      \/ /\ loc[t].left > 0 /\ f.offset % Bps > 0
         /\ IF f.cblk \notin Data THEN Stray /\ UNCHANGED <<dirs, file>>
            ELSE /\ dirs' = [dirs EXCEPT ![f.cblk] = NoDir]
                 /\ file' = [file EXCEPT ![t].offset = @ + n]
                 /\ Locals(t, [loc[t] EXCEPT !.left = @ - n]) /\ UNCHANGED <<pc, astray>>
      \/ /\ loc[t].left > 0 /\ loc[t].left # Bps /\ f.offset % Bps = 0
         /\ Goto(t, "fatread") /\ UNCHANGED <<dirs, file, loc>>
  BY <1>3, <1>4, Zenon DEF WriteLoop
<1>6. CASE (Goto(t, "size") \/ Goto(t, "fatread")) /\ UNCHANGED <<dirs, file, loc>>
  <2>1. PICK p \in {"size", "fatread"} : Goto(t, p)
    BY <1>6
  <2>2. PICK l : l = loc[t]
    OBVIOUS
  <2>3. loc' = [loc EXCEPT ![t] = l] /\ l.op = "write" /\ dirs' = dirs
    BY <1>1, <1>2, <1>6, <2>2
  <2>4. Linked(fat') /\ Owned(fat', dirs')
    BY <1>1, <1>2, <2>3
  <2>5. QED
    BY <1>2, <2>1, <2>3, <2>4, AloneGoesOn
<1>7. CASE /\ f.cblk \in Data /\ dirs' = [dirs EXCEPT ![f.cblk] = NoDir]
           /\ Locals(t, [loc[t] EXCEPT !.left = @ - n]) /\ UNCHANGED <<pc, astray>>
  <2>1. Linked(fat') /\ Owned(fat', dirs')
    BY <1>1, <1>2, <1>7, DataOwned
  <2>2. PICK l : loc' = [loc EXCEPT ![t] = l]
    BY <1>7, Pieces
  <2>3. Goto(t, "loop")
    BY <1>1, <1>2, <1>7 DEF Goto
  <2>4. QED
    BY <1>2, <2>1, <2>2, <2>3, AloneGoesOn
<1>8. QED
  BY <1>5, <1>6, <1>7, NotAstray

\* A sector that is new or wholly written, alone.
LEMMA WriteDataAlone ==
    ASSUME TypeInv, CallsOK, Alone, NEW t \in Tasks, WriteData(t), ~astray'
    PROVE  Alone'
<1>1. pc[t] = "data" /\ fat' = fat
  BY DEF WriteData
<1>2. /\ \A u \in Tasks : u # t => pc[u] = "idle"
      /\ Linked(fat) /\ Owned(fat, dirs)
  BY <1>1, Going
<1>3. PICK f : f = file[t]
  OBVIOUS
<1>4. PICK n : n = Min({loc[t].left, Bps})
  OBVIOUS
<1>5. IF f.cblk \notin Data THEN Stray /\ UNCHANGED <<dirs, file>>
      ELSE /\ dirs' = [dirs EXCEPT ![f.cblk] = NoDir]
           /\ file' = [file EXCEPT ![t].offset = @ + n, ![t].cblk = @ + 1]
           /\ Locals(t, [loc[t] EXCEPT !.left = @ - n]) /\ Goto(t, "loop")
  BY <1>3, <1>4, Zenon DEF WriteData
<1>6. /\ f.cblk \in Data /\ dirs' = [dirs EXCEPT ![f.cblk] = NoDir]
      /\ Locals(t, [loc[t] EXCEPT !.left = @ - n]) /\ Goto(t, "loop")
  BY <1>5, NotAstray
<1>7. Linked(fat') /\ Owned(fat', dirs')
  BY <1>1, <1>2, <1>6, DataOwned
<1>8. PICK l : loc' = [loc EXCEPT ![t] = l]
  BY <1>6, Pieces
<1>9. QED
  BY <1>2, <1>6, <1>7, <1>8, AloneGoesOn

\* The new size goes in the buffer, alone.
LEMMA SizeAlone ==
    ASSUME TypeInv, CallsOK, Alone, NEW t \in Tasks, Size(t), ~stale', ~astray'
    PROVE  Alone'
<1>1. pc[t] = "size" /\ UNCHANGED disk
  BY DEF Size
<1>2. /\ \A u \in Tasks : u # t => pc[u] = "idle"
      /\ Linked(fat) /\ Owned(fat, dirs) /\ loc[t] \in Locs /\ fat' = fat /\ dirs' = dirs
  BY <1>1, Going DEF disk
<1>3. file[t] \in Handles /\ loc[t].op = "write"
  BY <1>1, TaskParts DEF CallOK, Writing
<1>4. PICK f \in Handles : f = file[t]
  BY <1>3
<1>5. PICK s : s = f.sec
  OBVIOUS
<1>6. PICK c : c = Loaded(t, s)
  OBVIOUS
<1>7. PICK d : d = c.buf.dir
  OBVIOUS
<1>8. PICK e : e = [d[f.idx] EXCEPT !.size = @ + loc[t].size, !.mark = NoSector]
  OBVIOUS
<1>9. /\ Looked(t, s)
      /\ IF d = NoDir THEN Stray /\ cache' = c /\ UNCHANGED file
         ELSE /\ cache' = Edited(c, f.idx, e)
              /\ file' = [file EXCEPT ![t].offset = @ + loc[t].size]
              /\ Locals(t, [loc[t] EXCEPT !.sec = s]) /\ Goto(t, "back")
  BY <1>4, <1>5, <1>6, <1>7, <1>8, Zenon DEF Size
<1>10. /\ d # NoDir /\ cache' = Edited(c, f.idx, e)
       /\ Locals(t, [loc[t] EXCEPT !.sec = s]) /\ Goto(t, "back")
  BY <1>9, NotAstray
<1>11. PICK i : i = f.idx
  OBVIOUS
<1>12. s \in DirSectors /\ i \in 1..NEnt
  BY <1>5, <1>11, HandleParts
<1>13. /\ c \in [pcs : Sectors, buf : Buffers] /\ BufferOK(c.buf)
       /\ d \in Listings /\ c.buf.of = s
       /\ dirs[s] \in Listings /\ dirs[s] # NoDir /\ Matches(d, dirs[s])
  BY <1>6, <1>7, <1>9, <1>10, <1>12, NotStale
<1>14. e \in Entries /\ Alike(e, d[i])
  <2>1. PICK x \in Entries : x = d[i]
    BY <1>12, <1>13, ListingParts
  <2>2. e = [x EXCEPT !.size = x.size + loc[t].size, !.mark = NoSector]
    BY <1>8, <1>11, <2>1
  <2>3. x.size + loc[t].size \in Nat
    <3>1. x.size \in Nat /\ loc[t].size \in Nat
      BY <1>2, LocsParts DEF Entries
    <3>2. QED
      BY <3>1
  <2>4. QED
    BY <2>1, <2>2, <2>3 DEF Entries, Alike
<1>15. PICK m : m = Edited(c, i, e)
  OBVIOUS
<1>16. /\ m.buf.of = s /\ m.buf.dir \in Listings /\ m.buf.dir # NoDir
       /\ m.buf.dir[i] = e /\ \A j \in 1..NEnt : j # i => m.buf.dir[j] = d[j]
  BY <1>7, <1>10, <1>12, <1>13, <1>14, <1>15, EditedOK
<1>17. PICK b : b = m.buf
  OBVIOUS
<1>18. cache'.buf = b
  BY <1>10, <1>11, <1>15, <1>17
<1>19. Matches(b.dir, d)
  BY <1>14, <1>16, <1>17 DEF Matches, Alike
<1>20. Matches(b.dir, dirs[s]) /\ InBuffer(b, dirs, s)
  BY <1>12, <1>13, <1>16, <1>17, <1>19, MatchesOn DEF InBuffer
<1>21. PICK k : k = [loc[t] EXCEPT !.sec = s]
  OBVIOUS
<1>22. PICK l : l = [k EXCEPT !.missed = FALSE]
  OBVIOUS
<1>23. loc' = [loc EXCEPT ![t] = l]
  BY <1>10, <1>21, <1>22 DEF Locals
<1>24. l.op = "write" /\ l.sec = s
  BY <1>2, <1>3, <1>21, <1>22 DEF Locs
<1>25. AloneAt("back", l, fat', dirs', cache'.buf)
  BY <1>2, <1>18, <1>20, <1>24 DEF AloneAt, Erasing
<1>26. QED
  BY <1>2, <1>10, <1>23, <1>25, AloneMoves DEF Goto

\* A sector is read, alone.
LEMMA ReadLoopAlone ==
    ASSUME TypeInv, CallsOK, Alone, NEW t \in Tasks, ReadLoop(t), ~astray'
    PROVE  Alone'
<1>1. pc[t] = "loop" /\ UNCHANGED disk
  BY DEF ReadLoop
<1>2. /\ \A u \in Tasks : u # t => pc[u] = "idle"
      /\ Linked(fat') /\ Owned(fat', dirs')
      /\ loc = [loc EXCEPT ![t] = loc[t]]
  BY <1>1, Going DEF disk
<1>3. Finish(t) \/ (Goto(t, "next") /\ UNCHANGED loc) \/ Stray
  <2>1. PICK left : left = loc[t].left
    OBVIOUS
  <2>2. PICK f : f = file[t]
    OBVIOUS
  <2>3. (CASE left = 0 -> Finish(t) /\ UNCHANGED cache
           [] left > 0 /\ f.cblk \in Data ->
                 /\ cache' = [pcs |-> IF f.offset % Bps = 0 /\ left = Bps
                                      THEN cache.pcs ELSE NoSector,
                              buf |-> Image(f.cblk)]
                 /\ Goto(t, "next") /\ UNCHANGED loc
           [] OTHER -> Stray /\ UNCHANGED cache)
    BY <2>1, <2>2, Zenon DEF ReadLoop
  <2>4. ~(left = 0 /\ left > 0)
    OBVIOUS
  <2>5. QED
    BY <2>3, <2>4
<1>4. CASE Finish(t)
  BY <1>2, <1>4, AloneFinishes
<1>5. CASE Goto(t, "next") /\ UNCHANGED loc
  <2>1. PICK l : l = loc[t]
    OBVIOUS
  <2>2. loc' = [loc EXCEPT ![t] = l]
    BY <1>2, <1>5, <2>1
  <2>3. QED
    BY <1>2, <1>5, <2>2, AloneGoesOn
<1>6. QED
  BY <1>3, <1>4, <1>5, NotAstray

\* The handle goes on, alone.
LEMMA ReadNextAlone ==
    ASSUME TypeInv, CallsOK, Alone, NEW t \in Tasks, ReadNext(t), ~astray'
    PROVE  Alone'
<1>1. pc[t] = "next" /\ UNCHANGED disk
  BY DEF ReadNext
<1>2. /\ \A u \in Tasks : u # t => pc[u] = "idle"
      /\ Linked(fat') /\ Owned(fat', dirs')
  BY <1>1, Going DEF disk
<1>3. \/ Finish(t) \/ Stray
      \/ \E n : Locals(t, [loc[t] EXCEPT !.left = @ - n]) /\ Goto(t, "loop")
  <2>1. PICK f : f = file[t]
    OBVIOUS
  <2>2. PICK n : n = Min({loc[t].left, Bps - (f.offset % Bps)})
    OBVIOUS
  <2>3. PICK b : b = Loaded(t, FatSector).buf
    OBVIOUS
  <2>4. IF (f.offset % Bps) + n < Bps
        THEN /\ file' = [file EXCEPT ![t] = [f EXCEPT !.cblk = f.cblk, !.offset = @ + n]]
             /\ Locals(t, [loc[t] EXCEPT !.left = @ - n]) /\ Goto(t, "loop")
             /\ UNCHANGED <<cache, stale>>
        ELSE /\ Load(t, FatSector)
             /\ CASE b.of # FatSector -> Stray /\ UNCHANGED file
                  [] b.of = FatSector /\ Invalid(b.fat[f.cblk]) -> Finish(t) /\ UNCHANGED file
                  [] OTHER -> /\ file' = [file EXCEPT ![t] =
                                            [f EXCEPT !.cblk = b.fat[f.cblk], !.offset = @ + n]]
                              /\ Locals(t, [loc[t] EXCEPT !.left = @ - n]) /\ Goto(t, "loop")
    BY <2>1, <2>2, <2>3, Zenon DEF ReadNext
  <2>5. CASE (f.offset % Bps) + n < Bps
    BY <2>4, <2>5
  <2>6. CASE ~((f.offset % Bps) + n < Bps)
    <3>1. (CASE b.of # FatSector -> Stray /\ UNCHANGED file
             [] b.of = FatSector /\ Invalid(b.fat[f.cblk]) -> Finish(t) /\ UNCHANGED file
             [] OTHER -> /\ file' = [file EXCEPT ![t] =
                                       [f EXCEPT !.cblk = b.fat[f.cblk], !.offset = @ + n]]
                         /\ Locals(t, [loc[t] EXCEPT !.left = @ - n]) /\ Goto(t, "loop"))
      BY <2>4, <2>6
    <3>2. CASE b.of = FatSector /\ Invalid(b.fat[f.cblk])
      BY <3>1, <3>2
    <3>3. CASE b.of # FatSector
      BY <3>1, <3>3
    <3>4. CASE b.of = FatSector /\ ~Invalid(b.fat[f.cblk])
      BY <3>1, <3>4
    <3>5. QED
      BY <3>2, <3>3, <3>4
  <2>7. QED
    BY <2>5, <2>6
<1>4. CASE Finish(t)
  BY <1>2, <1>4, AloneFinishes
<1>5. CASE \E n : Locals(t, [loc[t] EXCEPT !.left = @ - n]) /\ Goto(t, "loop")
  <2>1. PICK n : Locals(t, [loc[t] EXCEPT !.left = @ - n]) /\ Goto(t, "loop")
    BY <1>5
  <2>2. PICK l : loc' = [loc EXCEPT ![t] = l]
    BY <2>1, Pieces
  <2>3. QED
    BY <1>2, <2>1, <2>2, AloneGoesOn
<1>6. QED
  BY <1>3, <1>4, <1>5, NotAstray

\* readdir, alone.
LEMMA ListAlone ==
    ASSUME TypeInv, CallsOK, Alone, NEW t \in Tasks, List(t), ~astray'
    PROVE  Alone'
<1>1. pc[t] = "list" /\ UNCHANGED disk
  BY DEF List
<1>2. /\ \A u \in Tasks : u # t => pc[u] = "idle"
      /\ Linked(fat') /\ Owned(fat', dirs') /\ pc = [pc EXCEPT ![t] = pc[t]]
  BY <1>1, Going DEF disk
<1>3. \/ Finish(t) \/ Stray
      \/ \E i : Locals(t, [loc[t] EXCEPT !.idx = i]) /\ UNCHANGED <<pc, astray>>
  <2>1. PICK s : s = loc[t].sec
    OBVIOUS
  <2>2. PICK d : d = Listed(t, s)
    OBVIOUS
  <2>3. PICK at : at = {i \in loc[t].idx..NEnt : d[i].name # Free}
    OBVIOUS
  <2>4. IF s \notin DirSectors THEN Stray /\ UNCHANGED <<cache, stale>>
        ELSE /\ Load(t, s)
             /\ CASE d = NoDir \/ (d # NoDir /\ at = {}) -> Stray
                  [] d # NoDir /\ at # {} /\ d[Min(at)].name = End -> Finish(t)
                  [] OTHER -> /\ Locals(t, [loc[t] EXCEPT !.idx = Min(at) + 1])
                              /\ UNCHANGED <<pc, astray>>
    BY <2>1, <2>2, <2>3, Zenon DEF List
  <2>5. PICK m : m = Min(at) + 1
    OBVIOUS
  <2>6. QED
    BY <2>4, <2>5
<1>4. CASE Finish(t)
  BY <1>2, <1>4, AloneFinishes
<1>5. CASE \E i : Locals(t, [loc[t] EXCEPT !.idx = i]) /\ UNCHANGED <<pc, astray>>
  <2>1. PICK i : Locals(t, [loc[t] EXCEPT !.idx = i]) /\ UNCHANGED <<pc, astray>>
    BY <1>5
  <2>2. PICK l : loc' = [loc EXCEPT ![t] = l]
    BY <2>1 DEF Locals
  <2>3. Goto(t, "list")
    BY <1>1, <1>2, <2>1 DEF Goto
  <2>4. QED
    BY <1>2, <2>2, <2>3, AloneGoesOn
<1>6. QED
  BY <1>3, <1>4, <1>5, NotAstray

------------------------------------------------------------------------------
(* The invariant.                                                            *)

\* Two calls that have met, and a sector that was old, are not forgotten.
LEMMA Remembered ==
    ASSUME TypeInv, Next
    PROVE  /\ ~astray
           /\ ~mixed' => ~mixed
           /\ ~stale' => ~stale
<1>1. PICK t \in Tasks :
          \/ CallOnPath(t) \/ CallOpendir(t) \/ CallWrite(t) \/ CallRead(t) \/ Seek(t)
          \/ Miss(t) \/ Lookup(t) \/ LookupEntry(t) \/ Scan(t)
          \/ FatRead(t) \/ FatWrite(t) \/ DirWrite(t)
          \/ LoadDir(t) \/ Back(t) \/ Dots(t)
          \/ WriteLoop(t) \/ WriteData(t) \/ Size(t)
          \/ ReadLoop(t) \/ ReadNext(t) \/ List(t)
  BY DEF Next
<1>2. ~mixed' => ~mixed
  <2>1. ASSUME NEW l, NEW p, Begin(t, l, p), ~mixed'
        PROVE  ~mixed
    BY <2>1 DEF Begin
  <2>2. CASE CallOnPath(t) \/ CallOpendir(t) \/ CallWrite(t) \/ CallRead(t)
    <3>1. CASE CallOpendir(t)
      <4>1. PICK p \in {<<>>} \cup {<<d>> : d \in Names} :
              IF p = <<>> THEN Begin(t, [loc[t] EXCEPT !.op = "list", !.sec = Root], "list")
              ELSE Begin(t, [loc[t] EXCEPT !.op = "list", !.path = p], "lookup")
        BY <3>1 DEF CallOpendir
      <4>2. QED
        BY <2>1, <4>1
    <3>2. QED
      BY <2>1, <2>2, <3>1 DEF CallOnPath, CallWrite, CallRead
  <2>3. CASE ~(CallOnPath(t) \/ CallOpendir(t) \/ CallWrite(t) \/ CallRead(t))
    <3>1. mixed' = mixed
      BY <1>1, <2>3 DEF Seek, Miss, Lookup, LookupEntry, Scan, FatRead, FatWrite, DirWrite, LoadDir,
            Back, Dots, WriteLoop, WriteData, Size, ReadLoop, ReadNext, List, history
    <3>2. QED
      BY <3>1
  <2>4. QED
    BY <2>2, <2>3
<1>3. ~stale' => ~stale
  <2>1. \A s : Looked(t, s) /\ ~stale' => ~stale
    BY DEF Looked
  <2>2. Looked(t, Root) \/ stale' = stale
        \/ Looked(t, loc[t].sec) \/ Looked(t, file[t].sec) \/ Looked(t, FatSector)
    BY <1>1, Zenon DEF CallOnPath, CallOpendir, CallWrite, CallRead,
          Seek, Miss, Lookup, LookupRoot, LookupPath, LookupEntry, Scan, FatRead, FatWrite,
          DirWrite, LoadDir, Back, Dots, WriteLoop, WriteData, Size, ReadLoop, ReadNext, List,
          history, Load
  <2>3. QED
    BY <2>1, <2>2
<1>4. QED
  BY <1>2, <1>3 DEF Next

\* Types and locals are kept by every step.
LEMMA StepTyped ==
    ASSUME TypeInv, CallsOK, Next
    PROVE  TypeInv' /\ CallsOK'
<1>1. PICK t \in Tasks :
          \/ CallOnPath(t) \/ CallOpendir(t) \/ CallWrite(t) \/ CallRead(t) \/ Seek(t)
          \/ Miss(t) \/ Lookup(t) \/ LookupEntry(t) \/ Scan(t)
          \/ FatRead(t) \/ FatWrite(t) \/ DirWrite(t)
          \/ LoadDir(t) \/ Back(t) \/ Dots(t)
          \/ WriteLoop(t) \/ WriteData(t) \/ Size(t)
          \/ ReadLoop(t) \/ ReadNext(t) \/ List(t)
  BY DEF Next
<1>2. CASE CallOnPath(t) \/ CallOpendir(t) \/ CallWrite(t) \/ CallRead(t) \/ Seek(t)
  BY <1>2, CallOnPathTyped, CallOpendirTyped, CallWriteTyped, CallReadTyped, SeekTyped
<1>3. CASE Miss(t) \/ Lookup(t) \/ LookupEntry(t) \/ Scan(t)
  BY <1>3, MissTyped, LookupTyped, LookupEntryTyped, ScanTyped
<1>4. CASE FatRead(t) \/ FatWrite(t) \/ DirWrite(t) \/ LoadDir(t) \/ Back(t) \/ Dots(t)
  BY <1>4, FatReadTyped, FatWriteTyped, DirWriteTyped, LoadDirTyped, BackTyped, DotsTyped
<1>5. CASE \/ WriteLoop(t) \/ WriteData(t) \/ Size(t)
           \/ ReadLoop(t) \/ ReadNext(t) \/ List(t)
  BY <1>5, WriteLoopTyped, WriteDataTyped, SizeTyped, ReadLoopTyped, ReadNextTyped, ListTyped
<1>6. QED
  BY <1>1, <1>2, <1>3, <1>4, <1>5

\* And, while calls come one at a time, so is what the one call needs.
LEMMA StepAlone ==
    ASSUME TypeInv, CallsOK, Alone, Next, ~mixed', ~stale', ~astray'
    PROVE  Alone'
<1>1. PICK t \in Tasks :
          \/ CallOnPath(t) \/ CallOpendir(t) \/ CallWrite(t) \/ CallRead(t) \/ Seek(t)
          \/ Miss(t) \/ Lookup(t) \/ LookupEntry(t) \/ Scan(t)
          \/ FatRead(t) \/ FatWrite(t) \/ DirWrite(t)
          \/ LoadDir(t) \/ Back(t) \/ Dots(t)
          \/ WriteLoop(t) \/ WriteData(t) \/ Size(t)
          \/ ReadLoop(t) \/ ReadNext(t) \/ List(t)
  BY DEF Next
<1>2. CASE CallOnPath(t) \/ CallOpendir(t) \/ CallWrite(t) \/ CallRead(t) \/ Seek(t)
  BY <1>2, CallsAlone, SeekAlone
<1>3. CASE Miss(t) \/ Lookup(t) \/ LookupEntry(t) \/ Scan(t)
  BY <1>3, MissAlone, LookupAlone, LookupEntryAlone, ScanAlone
<1>4. CASE FatRead(t) \/ FatWrite(t) \/ DirWrite(t) \/ LoadDir(t) \/ Back(t) \/ Dots(t)
  BY <1>4, FatReadAlone, FatWriteAlone, DirWriteAlone, LoadDirAlone, BackAlone, DotsAlone
<1>5. CASE \/ WriteLoop(t) \/ WriteData(t) \/ Size(t)
           \/ ReadLoop(t) \/ ReadNext(t) \/ List(t)
  BY <1>5, WriteLoopAlone, WriteDataAlone, SizeAlone, ReadLoopAlone, ReadNextAlone, ListAlone
<1>6. QED
  BY <1>1, <1>2, <1>3, <1>4, <1>5

\* The invariant holds of an empty volume, and of one with a file and a directory.
LEMMA InitInv ==
    ASSUME Init
    PROVE  Inv
<1>1. PICK n \in Names, m \in Names, made \in BOOLEAN :
         LET empty == [i \in 1..NEnt |-> EndEntry]
         IN  /\ n # m
             /\ fat = [c \in Clusters |->
                         CASE c = 0 -> Media [] c = 1 -> Eoc
                           [] made /\ c = 2 -> 3 [] made /\ c \in {3, 4} -> Eoc
                           [] OTHER -> 0]
             /\ dirs = [s \in DirSectors |->
                  CASE s = Root -> IF made THEN
                         [empty EXCEPT
                            ![1] = [EndEntry EXCEPT !.name = n, !.first = 2, !.size = Bps + 1],
                            ![2] = [EndEntry EXCEPT !.name = m, !.kind = "dir", !.first = 4]]
                         ELSE empty
                    [] made /\ s = 4 -> NewDir(4)
                    [] OTHER -> NoDir]
  BY Zenon DEF Init
<1>2. /\ 0 \in Clusters /\ 1 \in Clusters /\ 2 \in Clusters /\ 3 \in Clusters /\ 4 \in Clusters
      /\ 2 \in Data /\ 3 \in Data /\ 4 \in Data /\ 1 \in 1..NEnt /\ 2 \in 1..NEnt
      /\ 3 \in 0..Media /\ 0 \in 0..Media
  BY FatAssumption, Numbers DEF Clusters, Data, Media
<1>3. PICK f : f = fat
  OBVIOUS
<1>4. \A c \in Clusters : f[c] = CASE c = 0 -> Media [] c = 1 -> Eoc
                                   [] made /\ c = 2 -> 3 [] made /\ c \in {3, 4} -> Eoc
                                   [] OTHER -> 0
  BY <1>1, <1>3
<1>5. /\ f[0] = Media /\ f[1] = Eoc
      /\ made => f[2] = 3 /\ f[3] = Eoc /\ f[4] = Eoc
      /\ \A c \in Data : ~(made /\ c \in {2, 3, 4}) => f[c] = 0
  BY <1>2, <1>4, Numbers
<1>6. f \in Fats /\ Ahead(f)
  <2>1. \A c \in Clusters : f[c] \in 0..Media
    BY <1>2, <1>4, Numbers
  <2>2. \A c \in Data : f[c] \in {0, Eoc, c + 1}
    BY <1>5
  <2>3. f \in [Clusters -> 0..Media]
    BY <1>1, <1>3, <2>1
  <2>4. QED
    BY <2>2, <2>3 DEF Fats, Ahead
<1>7. Linked(f)
  <2>1. Media # 0 /\ Eoc # 0 /\ Media # 1 /\ Eoc # 1 /\ Eoc # 2 /\ Media \in Nat /\ Eoc \in Nat
    BY Numbers DEF Media, Eoc
  <2>2. ASSUME NEW c \in Clusters \ {0}, f[c] = c + 1
        PROVE  c + 1 \in Data /\ f[c + 1] # 0
    <3>1. c # 1
      BY <1>5, <2>1, <2>2
    <3>2. c \in Data /\ c \in Nat /\ c + 1 # Eoc /\ c + 1 # 0
      BY <3>1, Numbers
    <3>3. made /\ c = 2
      BY <1>5, <2>2, <3>2
    <3>4. QED
      BY <1>2, <1>5, <2>1, <3>3
  <2>3. QED
    BY <1>5, <2>1, <2>2 DEF Linked
<1>8. PICK D : D = dirs
  OBVIOUS
<1>9. PICK empty : empty = [i \in 1..NEnt |-> EndEntry]
  OBVIOUS
<1>10. PICK x : x = [EndEntry EXCEPT !.name = n, !.first = 2, !.size = Bps + 1]
  OBVIOUS
<1>11. PICK y : y = [EndEntry EXCEPT !.name = m, !.kind = "dir", !.first = 4]
  OBVIOUS
<1>12. PICK z : z = EndEntry
  OBVIOUS
<1>13. PICK d : d = [empty EXCEPT ![1] = x, ![2] = y]
  OBVIOUS
<1>14. /\ z \in Entries /\ z.name = End
       /\ x \in Entries /\ x.name = n /\ x.kind = "file" /\ x.first = 2
       /\ y \in Entries /\ y.name = m /\ y.kind = "dir" /\ y.first = 4
  <2>1. Bps + 1 \in Nat
    BY Numbers
  <2>2. z \in Entries /\ z.name = End
    BY <1>2, <1>12 DEF EndEntry, Entries
  <2>3. x \in Entries /\ x.name = n /\ x.kind = "file" /\ x.first = 2
    BY <1>2, <1>10, <2>1 DEF EndEntry, Entries
  <2>4. y \in Entries /\ y.name = m /\ y.kind = "dir" /\ y.first = 4
    BY <1>2, <1>11 DEF EndEntry, Entries
  <2>5. QED
    BY <2>2, <2>3, <2>4
<1>15. /\ empty \in Listings /\ \A i \in 1..NEnt : empty[i] = z
       /\ d \in Listings /\ d[1] = x /\ d[2] = y
       /\ \A i \in 1..NEnt : i # 1 /\ i # 2 => d[i] = z
  <2>1. empty \in Listings /\ \A i \in 1..NEnt : empty[i] = z
    BY <1>9, <1>12, <1>14 DEF Listings
  <2>2. d \in Listings
    BY <1>13, <1>14, <2>1 DEF Listings
  <2>3. d[1] = x /\ d[2] = y /\ \A i \in 1..NEnt : i # 1 /\ i # 2 => d[i] = z
    BY <1>2, <1>13, <2>1 DEF Listings
  <2>4. QED
    BY <2>1, <2>2, <2>3
<1>16. PICK w : w = NewDir(4)
  OBVIOUS
<1>17. w \in Listings /\ Ended(w) /\ \A i \in 1..NEnt : w[i].name \notin Names
  BY <1>2, <1>16, NewDirOK
<1>18. D = [s \in DirSectors |-> CASE s = Root -> IF made THEN d ELSE empty
                                   [] made /\ s = 4 -> w
                                   [] OTHER -> NoDir]
  BY <1>1, <1>8, <1>9, <1>10, <1>11, <1>13, <1>16
<1>19. Root # 4 /\ 4 \in DirSectors /\ Root \in DirSectors
  BY <1>2, Numbers
<1>20. /\ D[Root] = (IF made THEN d ELSE empty)
       /\ made => D[4] = w
       /\ \A s \in DirSectors : s # Root /\ ~(made /\ s = 4) => D[s] = NoDir
  BY <1>18, <1>19
<1>21. D \in [DirSectors -> {NoDir} \cup Listings]
  BY <1>15, <1>17, <1>18, <1>20
<1>22. ASSUME NEW s \in DirSectors, NEW i \in 1..NEnt, LiveAt(D, s, i)
       PROVE  made /\ s = Root /\ (i = 1 \/ i = 2)
  <2>1. D[s] # NoDir /\ D[s][i].name \in Names
    BY <1>22 DEF LiveAt, NamedAt
  <2>2. D[s][i].name # End
    BY <2>1, NamesApart
  <2>3. CASE made /\ s = 4
    BY <1>17, <1>20, <2>1, <2>3
  <2>4. CASE s = Root
    BY <1>14, <1>15, <1>20, <2>2, <2>4
  <2>5. QED
    BY <1>20, <2>1, <2>3, <2>4
<1>23. Owned(f, D)
  <2>1. D[Root] # NoDir
    BY <1>15, <1>20, ListingParts
  <2>2. made => D[Root][1].first = 2 /\ D[Root][2].first = 4
    BY <1>14, <1>15, <1>20
  <2>3. made => Begins(f, 2) /\ Begins(f, 4)
    <3>1. 2 - 1 = 1 /\ 4 - 1 = 3 /\ Eoc # 2 /\ Eoc # 4 /\ Eoc # 0
      BY <1>2, Numbers
    <3>2. QED
      BY <1>2, <1>5, <3>1 DEF Begins
  <2>4. \A s \in DirSectors, i \in 1..NEnt : LiveAt(D, s, i) => Begins(f, D[s][i].first)
    BY <1>22, <2>2, <2>3
  <2>5. \A s, r \in DirSectors, i, j \in 1..NEnt :
           LiveAt(D, s, i) /\ LiveAt(D, r, j) /\ D[s][i].first = D[r][j].first => s = r /\ i = j
    BY <1>22, <2>2
  <2>6. Ended(empty) /\ Ended(d)
    <3>1. Ended(empty)
      BY <1>14, <1>15 DEF Ended
    <3>2. x.name # End /\ y.name # End
      BY <1>14, NamesApart
    <3>3. ASSUME NEW i \in 1..NEnt, NEW j \in 1..NEnt, i < j, d[i].name = End
          PROVE  d[j].name = End
      <4>1. i # 1 /\ i # 2
        BY <1>15, <3>2, <3>3
      <4>2. j # 1 /\ j # 2
        BY <3>3, <4>1, Numbers
      <4>3. QED
        BY <1>14, <1>15, <4>2
    <3>4. QED
      BY <3>1, <3>3 DEF Ended
  <2>7. \A s \in DirSectors : D[s] # NoDir => Ended(D[s])
    BY <1>17, <1>20, <2>6
  <2>8. QED
    BY <2>1, <2>4, <2>5, <2>7 DEF Owned
<1>24. /\ cache \in [pcs : Sectors, buf : Buffers] /\ BufferOK(cache.buf)
  <2>1. cache = [pcs |-> NoSector, buf |-> [of |-> NoSector, fat |-> <<>>, dir |-> NoDir]]
    BY DEF Init
  <2>2. NoSector \in Sectors /\ NoSector # FatSector
    BY Numbers DEF Sectors
  <2>3. QED
    BY <2>1, <2>2 DEF Buffers, BufferOK
<1>25. /\ file \in [Tasks -> Handles \cup {NoFile}] /\ pc \in [Tasks -> PCs]
       /\ loc \in [Tasks -> Locs] /\ mixed \in BOOLEAN /\ stale \in BOOLEAN /\ astray \in BOOLEAN
       /\ \A t \in Tasks : pc[t] = "idle" /\ file[t] = NoFile /\ loc[t] = Loc0
  <2>1. Loc0 \in Locs /\ "idle" \in PCs
    BY OverOK
  <2>2. QED
    BY <2>1 DEF Init
<1>26. TypeInv
  BY <1>3, <1>6, <1>8, <1>21, <1>24, <1>25 DEF TypeInv
<1>27. CallsOK
  <2>1. CallOK("idle", Loc0, NoFile) /\ HandleOK(NoFile)
    BY OverOK DEF HandleOK
  <2>2. QED
    BY <1>25, <2>1 DEF CallsOK
<1>28. Alone
  BY <1>3, <1>7, <1>8, <1>23, <1>25 DEF Alone
<1>29. QED
  BY <1>26, <1>27, <1>28 DEF Inv

\* The invariant is kept by every step and by none.
LEMMA NextInv ==
    ASSUME Inv, [Next]_vars
    PROVE  Inv'
<1>1. CASE Next
  <2>1. TypeInv' /\ CallsOK'
    BY <1>1, StepTyped DEF Inv
  <2>2. ASSUME ~mixed', ~stale', ~astray'
        PROVE  Alone'
    <3>1. ~mixed /\ ~stale /\ ~astray
      BY <1>1, <2>2, Remembered DEF Inv
    <3>2. Alone
      BY <3>1 DEF Inv
    <3>3. QED
      BY <1>1, <2>2, <3>2, StepAlone DEF Inv
  <2>3. QED
    BY <2>1, <2>2 DEF Inv
<1>2. CASE UNCHANGED vars
  <2>1. /\ fat' = fat /\ dirs' = dirs /\ cache' = cache /\ file' = file /\ pc' = pc /\ loc' = loc
        /\ mixed' = mixed /\ stale' = stale /\ astray' = astray
    BY <1>2 DEF vars, disk, history
  <2>2. TypeInv'
    BY <2>1 DEF Inv, TypeInv
  <2>3. CallsOK'
    BY <2>1 DEF Inv, CallsOK
  <2>4. Alone => Alone'
    BY <2>1 DEF Alone
  <2>5. QED
    BY <2>1, <2>2, <2>3, <2>4 DEF Inv
<1>3. QED
  BY <1>1, <1>2

\* Every state the file system reaches satisfies the invariant: types, what each
\* call has found out so far, the place of every reader, and, while calls come
\* one at a time, which clusters are whose.
THEOREM InvHolds == Spec => []Inv
<1>1. Init => Inv
  BY InitInv
<1>2. Inv /\ [Next]_vars => Inv'
  BY NextInv
<1>3. QED
  BY <1>1, <1>2, PTL DEF Spec

\* The FAT, every directory sector, the buffer and every handle hold what they
\* are declared to hold, whatever calls do to each other: TypeOK.
THEOREM TypeCorrect == Spec => []TypeOK
<1>1. Inv => TypeOK
  <2>1. ASSUME Inv
        PROVE  TypeOK
    <3>1. TypeInv
      BY <2>1 DEF Inv
    <3>2. fat \in [Clusters -> 0..Media]
      BY <3>1 DEF TypeInv, Fats
    <3>3. \A s \in DirSectors : dirs[s] = NoDir \/ dirs[s] \in [1..NEnt -> Entries]
      BY <3>1 DEF TypeInv, Listings
    <3>4. cache.pcs \in Sectors /\ cache.buf.of \in Sectors
      BY <3>1, BufferParts, CacheParts
    <3>5. \A t \in Tasks : file[t] \in Handles \cup {NoFile} /\ pc[t] \in PCs
      BY <3>1 DEF TypeInv
    <3>6. mixed \in BOOLEAN /\ stale \in BOOLEAN /\ astray \in BOOLEAN
      BY <3>1 DEF TypeInv
    <3>7. QED
      BY <3>2, <3>3, <3>4, <3>5, <3>6 DEF TypeOK, Sectors
  <2>2. QED
    BY <2>1
<1>2. QED
  BY <1>1, InvHolds, PTL

\* lseek computes the cluster and reading follows the chain: a handle that has not
\* been written through nor moved past the end of a cluster by SEEK_CUR is at the
\* cluster its offset lies in, whatever other calls do meanwhile: ReaderPosition.
THEOREM ReadersInPlace == Spec => []ReaderPosition
<1>1. Inv => ReaderPosition
  BY DEF Inv, CallsOK, HandleOK, ReaderPosition
<1>2. QED
  BY <1>1, InvHolds, PTL

\* What a path reaches is what LiveAt says of the disk.
LEMMA LiveIs ==
    ASSUME NEW p \in Live
    PROVE  \E s \in DirSectors, i \in 1..NEnt : p = <<s, i>> /\ LiveAt(dirs, s, i)
<1>1. ASSUME NEW s \in DirSectors, NEW q \in Named(s)
      PROVE  \E i \in 1..NEnt : q = <<s, i>> /\ NamedAt(dirs, s, i)
  <2>1. dirs[s] # NoDir
    BY <1>1 DEF Named
  <2>2. PICK i \in Visible(dirs[s]) : dirs[s][i].name \in Names /\ q = <<s, i>>
    BY <1>1, <2>1 DEF Named
  <2>3. i \in 1..NEnt /\ \A j \in 1..i : dirs[s][j].name # End
    BY <2>2 DEF Visible
  <2>4. QED
    BY <2>1, <2>2, <2>3, NamedIs
<1>2. CASE p \in Named(Root)
  BY <1>1, <1>2, Numbers DEF LiveAt
<1>3. CASE p \notin Named(Root)
  <2>1. PICK q \in Named(Root) : p \in Below(q)
    BY <1>3 DEF Live
  <2>2. PICK k \in 1..NEnt : q = <<Root, k>> /\ NamedAt(dirs, Root, k)
    BY <1>1, <2>1, Numbers
  <2>3. PICK e : e = dirs[Root][k]
    OBVIOUS
  <2>4. Entry(q) = e
    BY <2>2, <2>3 DEF Entry
  <2>5. e.kind = "dir" /\ e.first \in Data /\ p \in Named(e.first)
    BY <2>1, <2>4 DEF Below
  <2>6. e.first \in DirSectors
    BY <2>5, Numbers
  <2>7. PICK i \in 1..NEnt : p = <<e.first, i>> /\ NamedAt(dirs, e.first, i)
    BY <1>1, <2>5, <2>6
  <2>8. Leads(dirs, k, e.first)
    BY <2>2, <2>3, <2>5 DEF Leads
  <2>9. QED
    BY <2>5, <2>6, <2>7, <2>8 DEF LiveAt
<1>4. QED
  BY <1>2, <1>3

\* Links always lead to the next cluster; and as long as calls come one at a time
\* and none has used a sector older than the disk, every link leads to an
\* allocated cluster and no two files or directories share one: ChainsSound.
THEOREM ChainsKept == Spec => []ChainsSound
<1>1. Inv => ChainsSound
  <2>1. SUFFICES ASSUME Inv
                 PROVE  ChainsSound
    OBVIOUS
  <2>2. \A c \in Data : fat[c] \in {0, Eoc, c + 1}
    BY <2>1 DEF Inv, TypeInv, Ahead
  <2>3. ASSUME ~mixed, ~stale, ~astray, ~Unfinished
        PROVE  /\ \A c \in Data : fat[c] = c + 1 => c + 1 \in Data /\ fat[c + 1] # 0
               /\ \A p \in Live : /\ Entry(p).first \in Data /\ fat[Entry(p).first] # 0
                                  /\ fat[Entry(p).first - 1] # Entry(p).first
                                  /\ \A q \in Live : q # p => Entry(q).first # Entry(p).first
    <3>1. Alone
      BY <2>1, <2>3 DEF Inv
    <3>2. Owned(fat, dirs)
      <4>1. CASE \A t \in Tasks : pc[t] = "idle"
        BY <3>1, <4>1 DEF Alone
      <4>2. CASE \E t \in Tasks : pc[t] # "idle"
        <5>1. PICK t \in Tasks : pc[t] # "idle"
          BY <4>2
        <5>2. pc[t] # "dots" /\ (pc[t] = "back" => loc[t].op = "write")
          BY <2>3 DEF Unfinished
        <5>3. QED
          BY <3>1, <5>1, <5>2, Busy DEF AloneAt
      <4>3. QED
        BY <4>1, <4>2
    <3>3. \A c \in Data : fat[c] = c + 1 => c + 1 \in Data /\ fat[c + 1] # 0
      BY <3>1, Numbers DEF Alone, Linked
    <3>4. ASSUME NEW p \in Live
          PROVE  Begins(fat, Entry(p).first)
      <4>1. PICK s \in DirSectors, i \in 1..NEnt : p = <<s, i>> /\ LiveAt(dirs, s, i)
        BY LiveIs
      <4>2. Entry(p) = dirs[s][i]
        BY <4>1 DEF Entry
      <4>3. QED
        BY <3>2, <4>1, <4>2, OwnedParts
    <3>5. ASSUME NEW p \in Live, NEW q \in Live, Entry(q).first = Entry(p).first
          PROVE  q = p
      <4>1. PICK s \in DirSectors, i \in 1..NEnt : p = <<s, i>> /\ LiveAt(dirs, s, i)
        BY LiveIs
      <4>2. PICK r \in DirSectors, j \in 1..NEnt : q = <<r, j>> /\ LiveAt(dirs, r, j)
        BY LiveIs
      <4>3. Entry(p) = dirs[s][i] /\ Entry(q) = dirs[r][j]
        BY <4>1, <4>2 DEF Entry
      <4>4. s = r /\ i = j
        BY <3>2, <3>5, <4>1, <4>2, <4>3, OwnedParts
      <4>5. QED
        BY <4>1, <4>2, <4>4
    <3>6. QED
      BY <3>3, <3>4, <3>5 DEF Begins
  <2>4. QED
    BY <2>2, <2>3 DEF ChainsSound
<1>2. QED
  BY <1>1, InvHolds, PTL

------------------------------------------------------------------------------
(* Entries.                                                                  *)

\* Entries alike differ in size and mark only.
LEMMA AlikeKept ==
    ASSUME NEW x \in Entries, NEW y \in Entries, Alike(x, y)
    PROVE  [x EXCEPT !.size = 0, !.mark = 0] = [y EXCEPT !.size = 0, !.mark = 0]
BY DEF Entries, Alike

\* An entry whose directory is what it was.
LEMMA SameKept ==
    ASSUME NEW s, NEW i, dirs'[s] = dirs[s]
    PROVE  EntryKept(<<s, i>>)
BY DEF EntryKept, Entry

\* An entry whose directory holds data now.
LEMMA DataKept ==
    ASSUME NEW s, NEW i, dirs'[s] = NoDir
    PROVE  EntryKept(<<s, i>>)
BY DEF EntryKept

\* An entry that is alike in its directory's new copy.
LEMMA CopyKept ==
    ASSUME TypeInv, NEW s \in DirSectors, dirs[s] # NoDir, NEW i \in 1..NEnt,
           NEW d \in Listings, dirs'[s] = d, Alike(d[i], dirs[s][i])
    PROVE  EntryKept(<<s, i>>)
<1>1. PICK e \in Listings : e = dirs[s]
  BY DEF TypeInv
<1>2. d[i] \in Entries /\ e[i] \in Entries
  BY ListingParts
<1>3. [d[i] EXCEPT !.size = 0, !.mark = 0] = [e[i] EXCEPT !.size = 0, !.mark = 0]
  BY <1>1, <1>2, AlikeKept
<1>4. Entry(<<s, i>>) = e[i] /\ dirs'[<<s, i>>[1]][<<s, i>>[2]] = d[i]
  BY <1>1 DEF Entry
<1>5. QED
  BY <1>3, <1>4 DEF EntryKept

\* A new file's entry goes where no entry is.
LEMMA DirWriteKept ==
    ASSUME TypeInv, CallsOK, Alone, NEW t \in Tasks, DirWrite(t),
           NEW s \in DirSectors, NEW i \in 1..NEnt, LiveAt(dirs, s, i)
    PROVE  EntryKept(<<s, i>>)
<1>1. pc[t] = "dirwrite"
  BY DEF DirWrite
<1>2. ToCreate(loc[t], dirs)
  BY <1>1, Busy DEF AloneAt
<1>3. /\ loc[t] \in Locs /\ loc[t].path # <<>> /\ loc[t].idx \in 1..NEnt
      /\ loc[t].sec \in DirSectors /\ loc[t].dir \in Listings
  BY <1>1, TaskParts DEF CallOK, NewFile, Placed
<1>4. PICK r : r = loc[t].sec
  OBVIOUS
<1>5. PICK k : k = loc[t].idx
  OBVIOUS
<1>6. PICK e : e = NewEntry(t, "file", loc[t].clu)
  OBVIOUS
<1>7. PICK o \in Listings : o = loc[t].dir
  BY <1>3
<1>8. e \in Entries
  BY <1>3, <1>6, LocsParts, NewEntryOK
<1>9. PICK d \in Listings : d = [o EXCEPT ![k] = e] /\ \A j \in 1..NEnt : j # k => d[j] = o[j]
  BY <1>3, <1>5, <1>8 DEF Listings
<1>10. dirs' = [dirs EXCEPT ![r] = d]
  BY <1>4, <1>5, <1>6, <1>7, <1>9 DEF DirWrite
<1>11. o = dirs[r] /\ o[k].name = End
  BY <1>2, <1>4, <1>5, <1>7 DEF ToCreate, FirstEnd
<1>12. dirs[s] # NoDir /\ dirs[s][i].name # End
  BY NamesApart DEF LiveAt, NamedAt
<1>13. CASE s # r
  <2>1. dirs'[s] = dirs[s]
    BY <1>10, <1>13 DEF TypeInv
  <2>2. QED
    BY <2>1, SameKept
<1>14. CASE s = r
  <2>1. dirs'[s] = d
    BY <1>10, <1>14 DEF TypeInv
  <2>2. i # k
    BY <1>11, <1>12, <1>14
  <2>3. Alike(d[i], dirs[s][i])
    BY <1>9, <1>11, <1>14, <2>2 DEF Alike
  <2>4. QED
    BY <1>12, <2>1, <2>3, CopyKept
<1>15. QED
  BY <1>13, <1>14

\* The buffer that goes back has every entry but the one removed.
LEMMA BackKept ==
    ASSUME TypeInv, CallsOK, Alone, NEW t \in Tasks, Back(t),
           NEW s \in DirSectors, NEW i \in 1..NEnt, LiveAt(dirs, s, i)
    PROVE  EntryKept(<<s, i>>)
<1>1. pc[t] = "back"
  BY DEF Back
<1>2. PICK r : r = loc[t].sec
  OBVIOUS
<1>3. PICK d : d = cache.buf.dir
  OBVIOUS
<1>4. /\ InBuffer(cache.buf, dirs, r)
      /\ loc[t].op = "write" => Matches(d, dirs[r])
      /\ loc[t].op \in Erasing => Erased(loc[t], fat, dirs, cache.buf)
      /\ loc[t].op = "mkdir" => Made(loc[t], fat, dirs, cache.buf)
  BY <1>1, <1>2, <1>3, Busy DEF AloneAt
<1>5. loc[t].op \in {"mkdir", "rmdir", "remove", "write"}
  BY <1>1, TaskParts DEF CallOK
<1>6. r \in DirSectors /\ d \in Listings /\ dirs[r] # NoDir
  BY <1>3, <1>4, BufferParts DEF InBuffer
<1>7. dirs' = dirs \/ dirs' = [dirs EXCEPT ![r] = d]
  BY <1>2, <1>3 DEF Back
<1>8. dirs'[s] = dirs[s] \/ (s = r /\ dirs'[s] = d)
  BY <1>7 DEF TypeInv
<1>9. CASE dirs'[s] = dirs[s]
  BY <1>9, SameKept
<1>10. CASE s = r /\ dirs'[s] = d
  <2>1. CASE loc[t].op = "write"
    <3>1. Alike(d[i], dirs[s][i])
      BY <1>4, <1>10, <2>1 DEF Matches
    <3>2. QED
      BY <1>6, <1>10, <3>1, CopyKept
  <2>2. CASE loc[t].op \in Erasing /\ i # loc[t].idx
    <3>1. Alike(d[i], dirs[s][i])
      BY <1>2, <1>3, <1>4, <1>10, <2>2 DEF Erased, AlikeBut
    <3>2. QED
      BY <1>6, <1>10, <3>1, CopyKept
  <2>3. CASE loc[t].op \in Erasing /\ i = loc[t].idx
    <3>1. Erases(t, s, i)
      BY <1>1, <1>2, <1>10, <2>3 DEF Erases, Erasing
    <3>2. QED
      BY <3>1 DEF EntryKept
  <2>4. CASE loc[t].op = "mkdir"
    <3>1. PICK k \in 1..NEnt : dirs[r][k].name = End /\ AlikeBut(d, dirs[r], k)
      BY <1>2, <1>3, <1>4, <2>4 DEF Made
    <3>2. dirs[s][i].name # End
      BY NamesApart DEF LiveAt, NamedAt
    <3>3. Alike(d[i], dirs[s][i])
      BY <1>10, <3>1, <3>2 DEF AlikeBut
    <3>4. QED
      BY <1>6, <1>10, <3>3, CopyKept
  <2>5. QED
    BY <1>5, <2>1, <2>2, <2>3, <2>4 DEF Erasing
<1>11. QED
  BY <1>8, <1>9, <1>10

\* Data goes over a sector.
LEMMA WriteKept ==
    ASSUME TypeInv, NEW t \in Tasks, WriteLoop(t) \/ WriteData(t),
           NEW s \in DirSectors, NEW i \in 1..NEnt
    PROVE  EntryKept(<<s, i>>)
<1>1. dirs' = dirs \/ \E c \in Data : dirs' = [dirs EXCEPT ![c] = NoDir]
  <2>1. CASE WriteLoop(t)
    BY <2>1 DEF WriteLoop
  <2>2. CASE WriteData(t)
    BY <2>2 DEF WriteData
  <2>3. QED
    BY <2>1, <2>2
<1>2. dirs'[s] = dirs[s] \/ dirs'[s] = NoDir
  BY <1>1 DEF TypeInv
<1>3. QED
  BY <1>2, SameKept, DataKept

\* Directory sectors are rewritten whole: as long as calls come one at a time and
\* none has used a sector older than the disk, no step loses or changes an entry a
\* path reaches but the removal of that entry, or data over its directory:
\* EntriesKept.
THEOREM EntriesStay == Spec => EntriesKept
<1>1. ASSUME Inv, Next, ~mixed', ~stale', \A t \in Tasks : pc[t] # "dots", NEW p \in Live
      PROVE  EntryKept(p)
  <2>1. TypeInv /\ CallsOK
    BY <1>1 DEF Inv
  <2>2. Alone
    BY <1>1, <2>1, Remembered DEF Inv
  <2>3. PICK s \in DirSectors, i \in 1..NEnt : p = <<s, i>> /\ LiveAt(dirs, s, i)
    BY LiveIs
  <2>4. PICK t \in Tasks :
          \/ CallOnPath(t) \/ CallOpendir(t) \/ CallWrite(t) \/ CallRead(t) \/ Seek(t)
          \/ Miss(t) \/ Lookup(t) \/ LookupEntry(t) \/ Scan(t)
          \/ FatRead(t) \/ FatWrite(t) \/ DirWrite(t)
          \/ LoadDir(t) \/ Back(t) \/ Dots(t)
          \/ WriteLoop(t) \/ WriteData(t) \/ Size(t)
          \/ ReadLoop(t) \/ ReadNext(t) \/ List(t)
    BY <1>1 DEF Next
  <2>5. CASE DirWrite(t)
    BY <2>1, <2>2, <2>3, <2>5, DirWriteKept
  <2>6. CASE Back(t)
    BY <2>1, <2>2, <2>3, <2>6, BackKept
  <2>7. CASE WriteLoop(t) \/ WriteData(t)
    BY <2>1, <2>3, <2>7, WriteKept
  <2>8. CASE ~(DirWrite(t) \/ Back(t) \/ WriteLoop(t) \/ WriteData(t))
    <3>1. ~Dots(t)
      BY <1>1 DEF Dots
    <3>2. dirs' = dirs
      BY <2>4, <2>8, <3>1 DEF CallOnPath, CallOpendir, CallWrite, CallRead, Seek, Miss, Lookup,
            LookupEntry, Scan, FatRead, FatWrite, LoadDir, Size, ReadLoop, ReadNext, List, disk
    <3>3. QED
      BY <2>3, <3>2, SameKept
  <2>9. QED
    BY <2>5, <2>6, <2>7, <2>8
<1>2. Inv /\ [Next]_vars =>
        [~mixed' /\ ~stale' /\ (\A t \in Tasks : pc[t] # "dots") =>
            \A p \in Live : EntryKept(p)]_vars
  BY <1>1
<1>3. QED
  BY <1>2, InvHolds, PTL DEF Spec, EntriesKept
==============================================================================
