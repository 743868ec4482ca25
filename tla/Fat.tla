---------------------------------- MODULE Fat ----------------------------------
(***************************************************************************)
(* The FAT file system, kernel32/fs/fat.c.                                 *)
(*                                                                         *)
(* One FAT sector, the root directory of one sector, and data clusters of  *)
(* one sector each (the writing code takes a cluster for a sector).  What  *)
(* a data sector holds is left out; dirs[s] = NoDir says that sector s     *)
(* holds data.  Names are short and compare exactly.                       *)
(*                                                                         *)
(* Nothing keeps two calls apart: the lock of a mounted file system is a   *)
(* null pointer.  A call can be preempted wherever it waits for the disk,  *)
(* which is where the steps below end; only the search of a path, which    *)
(* reads at most two sectors, is one step.  FAT entries, and the sector    *)
(* open looks at, are read into a buffer of the call's own; everything     *)
(* else goes through the one buffer fat->buf, whose sector fat->pcs names. *)
(*                                                                         *)
(* astray: the code has gone on into bytes that are not what it takes them *)
(* for (past the end of a sector, a directory that is data, a pointer into *)
(* fat->buf after another call has refilled it, a null pointer).  The      *)
(* model stops there.                                                      *)
(*                                                                         *)
(* A definition X_How is X with a plausible slip in it; nothing uses it.   *)
(***************************************************************************)
EXTENDS Integers, SequencesExt

CONSTANTS
    Tasks,
    Names,
    NoFile,
    NClus,      \* entries of the FAT sector
    NEnt,       \* entries of a directory sector
    Bps,        \* bytes per sector
    Sizes,      \* what read and write are called with
    Offsets,    \* what lseek is called with
    MaxCalls    \* bound: calls altogether

ASSUME FatAssumption ==
    /\ NClus \in Nat /\ NClus > 4 /\ NEnt \in Nat /\ NEnt > 2 /\ Bps \in Nat \ {0}
    /\ Sizes \subseteq Nat \ {0} /\ Offsets \subseteq Nat /\ MaxCalls \in Nat
    /\ Names \cap {".", "..", "free", "end"} = {}

VARIABLES
    fat,        \* the FAT on disk
    dirs,       \* the other sectors on disk
    cache,      \* fat->pcs and fat->buf
    file,       \* the file each task has open
    pc, loc,    \* where each call is, and its locals
    calls,
    mixed,      \* two calls have been under way at once (history)
    stale,      \* a call has used a cached sector that is older than the disk (history)
    astray

disk == <<fat, dirs>>
history == <<mixed, stale>>
vars == <<disk, cache, file, pc, loc, calls, history, astray>>

Clusters == 0..(NClus - 1)
Data == 2..(NClus - 1)
Eoc == NClus + 1        \* 0xFFFF
Media == NClus + 2      \* 0xFFF8, the first entry of every FAT
Invalid(v) == v >= Eoc
NoDir == <<>>
\* Clusters 0 and 1 hold nothing: here they number the two fixed sectors.
FatSector == 0
Root == 1
NoSector == NClus
DirSectors == {Root} \cup Data
Free == "free"          \* FDN_FREE
End == "end"            \* FDN_END
EndEntry == [name |-> End, kind |-> "file", first |-> 0, size |-> 0, mark |-> NoSector]

\* mark: a call that is to come back to the entry has written the number of its
\* sector over the date, or in a place not yet used over the cluster.
Entries == [name : Names \cup {".", "..", Free, End}, kind : {"file", "dir"},
            first : Clusters, size : Nat, mark : {NoSector} \cup DirSectors]
Handles == [sec : DirSectors, idx : 1..NEnt, sblk : Clusters, cblk : Nat,
            offset : Nat, size : Nat, writes : BOOLEAN, plain : BOOLEAN]
ASSUME NoFileAssumption == NoFile \notin Handles
PCs == {"idle", "lookup", "entry", "scan", "fatread", "fatwrite", "dirwrite", "load",
        "back", "dots", "loop", "data", "next", "size", "list"}

TypeOK ==
    /\ fat \in [Clusters -> 0..Media]
    /\ \A s \in DirSectors : dirs[s] = NoDir \/ dirs[s] \in [1..NEnt -> Entries]
    /\ cache.pcs \in {NoSector, FatSector} \cup DirSectors
    /\ cache.buf.of \in {NoSector, FatSector} \cup DirSectors
    /\ \A t \in Tasks : file[t] \in Handles \cup {NoFile} /\ pc[t] \in PCs
    /\ mixed \in BOOLEAN /\ stale \in BOOLEAN /\ astray \in BOOLEAN

\* An empty volume, or one with a file of two clusters and an empty directory.
NewDir(self) ==    \* ".." holds a sector number, which is left out
    [i \in 1..NEnt |-> CASE i = 1 -> [EndEntry EXCEPT !.name = ".", !.kind = "dir", !.first = self]
                         [] i = 2 -> [EndEntry EXCEPT !.name = "..", !.kind = "dir"]
                         [] OTHER -> EndEntry]
Loc0 == [op |-> "none", path |-> <<>>, size |-> 0, left |-> 0,
         sec |-> Root, idx |-> 1, clu |-> 0, fat |-> <<>>, dir |-> NoDir,
         missed |-> FALSE]

Init ==
    /\ \E n, m \in Names, made \in BOOLEAN :
          LET empty == [i \in 1..NEnt |-> EndEntry]
          IN  /\ n # m
              /\ fat = [c \in Clusters |->
                          CASE c = 0 -> Media [] c = 1 -> Eoc
                            [] made /\ c = 2 -> 3 [] made /\ c \in {3, 4} -> Eoc
                            [] OTHER -> 0]
              /\ dirs = [s \in DirSectors |->
                   CASE s = Root -> IF made THEN
                          [empty EXCEPT
                             ![1] = [EndEntry EXCEPT !.name = n, !.first = 2, !.size = Bps + 1],
                             ![2] = [EndEntry EXCEPT !.name = m, !.kind = "dir", !.first = 4]]
                          ELSE empty
                     [] made /\ s = 4 -> NewDir(4)
                     [] OTHER -> NoDir]
    /\ cache = [pcs |-> NoSector, buf |-> [of |-> NoSector, fat |-> <<>>, dir |-> NoDir]]
    /\ file = [t \in Tasks |-> NoFile]
    /\ pc = [t \in Tasks |-> "idle"] /\ loc = [t \in Tasks |-> Loc0]
    /\ calls = 0 /\ mixed = FALSE /\ stale = FALSE /\ astray = FALSE

-----------------------------------------------------------------------------
(* The buffer, and the entries of a directory sector. *)

\* What sector s holds on the disk.
Image(s) == [of |-> s, fat |-> IF s = FatSector THEN fat ELSE <<>>,
             dir |-> IF s = FatSector THEN NoDir ELSE dirs[s]]

\* fs_bread: a sector that fat->pcs names is not read again.
Loaded(t, s) == IF cache.pcs = s /\ ~loc[t].missed THEN cache
                ELSE [pcs |-> s, buf |-> Image(s)]
Listed(t, s) == Loaded(t, s).buf.dir
Unmarked(d) == [i \in DOMAIN d |-> [d[i] EXCEPT !.mark = NoSector]]
Older(b) == b.fat # Image(b.of).fat \/ Unmarked(b.dir) # Unmarked(Image(b.of).dir)
Looked(t, s) == stale' = (stale \/ Loaded(t, s).buf.of # s \/ Older(Loaded(t, s).buf))
Load(t, s) == cache' = Loaded(t, s) /\ Looked(t, s)

Visible(d) == {i \in 1..NEnt : \A j \in 1..i : d[j].name # End}
Find(d, n, kinds) == {i \in Visible(d) : d[i].name = n /\ d[i].kind \in kinds}
Ends(d) == {i \in 1..NEnt : d[i].name = End}

\* An entry is changed in the buffer c, of whatever directory that now is.
Edited(c, i, e) == [c EXCEPT !.buf.dir[i] = e]
Marked(c, i) == [c EXCEPT !.buf.dir[i].mark = c.buf.of]

\* How a step leaves the call.
Goto(t, label) == pc' = [pc EXCEPT ![t] = label] /\ UNCHANGED astray
Finish(t) == Goto(t, "idle") /\ loc' = [loc EXCEPT ![t] = Loc0]
Stray == astray' = TRUE /\ UNCHANGED <<pc, loc>>
Locals(t, l) == loc' = [loc EXCEPT ![t] = [l EXCEPT !.missed = FALSE]]

\* Whether the directory that holds what a path names is the root directory.
InRoot(t) == Len(loc[t].path) = 1 /\ loc[t].op # "list"

\* The sector a call is about to look up in the buffer.
Wanted(t) == CASE pc[t] = "lookup" -> Root
               [] pc[t] = "size" -> file[t].sec
               [] pc[t] = "next" -> FatSector
               [] OTHER -> loc[t].sec

\* fs_bread looks at fat->pcs and then waits for the disk: what another call
\* does to the buffer meanwhile is read over.
Miss(t) ==
    /\ pc[t] \in {"lookup", "entry", "load", "size", "next", "list"}
    /\ pc[t] = "lookup" => InRoot(t)
    /\ ~loc[t].missed /\ cache.pcs # Wanted(t)
    /\ loc' = [loc EXCEPT ![t].missed = TRUE]
    /\ UNCHANGED <<disk, cache, file, pc, calls, history, astray>>

-----------------------------------------------------------------------------
(* Calls. *)

Paths == {<<n>> : n \in Names} \cup {<<d, n>> : d, n \in Names}

\* A call begins; what it does before its first wait is in the step after.
Begin(t, l, label) ==
    /\ pc[t] = "idle" /\ calls < MaxCalls
    /\ calls' = calls + 1
    /\ mixed' = (mixed \/ \E u \in Tasks : pc[u] # "idle")
    /\ Goto(t, label) /\ Locals(t, l)

CallOnPath(t) ==
    /\ \E op \in {"openr", "openw", "mkdir", "rmdir", "remove"}, p \in Paths :
          Begin(t, [loc[t] EXCEPT !.op = op, !.path = p], "lookup")
    /\ UNCHANGED <<disk, cache, file, stale>>

CallOpendir(t) ==
    /\ \E p \in {<<>>} \cup {<<d>> : d \in Names} :
          IF p = <<>> THEN Begin(t, [loc[t] EXCEPT !.op = "list", !.sec = Root], "list")
          ELSE Begin(t, [loc[t] EXCEPT !.op = "list", !.path = p], "lookup")
    /\ UNCHANGED <<disk, cache, file, stale>>

CallWrite(t) ==
    /\ file[t] # NoFile /\ file[t].writes
    /\ \E n \in Sizes : Begin(t, [loc[t] EXCEPT !.op = "write", !.size = n, !.left = n], "loop")
    /\ file' = [file EXCEPT ![t].plain = FALSE]
    /\ UNCHANGED <<disk, cache, stale>>

\* Behind the end of the file, the bytes left to read are a huge number.
CallRead(t) ==
    /\ file[t] # NoFile /\ file[t].offset <= file[t].size
    /\ \E n \in Sizes :
          LET left == Min({n, file[t].size - file[t].offset})
          IN  Begin(t, [loc[t] EXCEPT !.op = "read", !.left = left], "loop")
    /\ UNCHANGED <<disk, cache, file, stale>>

\* lseek never touches the disk: it takes a file for one run of clusters.
SeekSet_Stays(f, o) == [f EXCEPT !.offset = o]
SeekSet(f, o) == [f EXCEPT !.cblk = f.sblk + o \div Bps, !.offset = o]
SeekEnd(f) == [f EXCEPT !.cblk = f.sblk + f.size \div Bps, !.offset = f.size]
\* Every cluster passed is taken off what is added to the offset.  A move no
\* longer than a cluster that leaves the one it starts in wraps round, and
\* passes clusters until it is small again: beyond any volume.
Far == NClus
SeekCur(f, o) ==
    LET reach == (f.offset % Bps) + o
        n == CASE reach <= Bps -> 0 [] reach > Bps /\ o >= Bps -> Max({1, (o - 1) \div Bps})
               [] OTHER -> Far
    IN  [f EXCEPT !.cblk = @ + n, !.offset = @ + o - (IF n = Far THEN 0 ELSE n * Bps),
                  !.plain = @ /\ reach < Bps]

Seek(t) ==
    /\ pc[t] = "idle" /\ file[t] # NoFile /\ calls < MaxCalls
    /\ calls' = calls + 1
    /\ \/ \E o \in Offsets : file' = [file EXCEPT ![t] = SeekSet(@, o)]
       \/ \E o \in Offsets : file' = [file EXCEPT ![t] = SeekCur(@, o)]
       \/ file' = [file EXCEPT ![t] = SeekEnd(@)]
    /\ UNCHANGED <<disk, cache, pc, loc, history, astray>>

\* read_fat_dir_from_parent_path.  In the root directory, the entry to fill or
\* the directory to remove is looked for in the buffer; a file is never found
\* there, and remove follows the null pointer it gets.
LookupRoot(t) ==
    LET c == Loaded(t, Root)
        d == c.buf.dir
        found == Find(d, loc[t].path[1], {"dir"})
        erase == loc[t].op \in {"rmdir", "remove"}
        goesOn == d # NoDir /\ IF erase THEN found # {} ELSE found = {} /\ Ends(d) # {}
        i == Min(IF erase THEN found ELSE Ends(d))
    IN  /\ Looked(t, Root)
        /\ cache' = IF goesOn THEN Marked(c, i) ELSE c
        /\ CASE goesOn ->
                   /\ Goto(t, IF loc[t].op \in {"openr", "openw"} THEN "scan" ELSE "fatread")
                   /\ Locals(t, [loc[t] EXCEPT !.sec = Root, !.idx = i, !.clu = d[i].first])
             [] d = NoDir \/ (loc[t].op = "remove" /\ found = {}) -> Stray
             [] OTHER -> Finish(t)

\* read_fat_path_cluster: the sector and the place of the entry a path names,
\* found on the disk itself.  A file ends the search, whatever follows it.
Resolve(p) ==
    LET i == Find(dirs[Root], p[1], {"file", "dir"})
        e == dirs[Root][Min(i)]
        d == IF e.first \in Data THEN dirs[e.first] ELSE NoDir
        j == Find(d, p[2], {"file", "dir"})
    IN  CASE i = {} -> IF Ends(dirs[Root]) # {} THEN <<"none">> ELSE <<"astray">>
          [] i # {} /\ (e.kind = "file" \/ Len(p) = 1) -> <<"found", Root, Min(i)>>
          [] OTHER -> IF d = NoDir THEN <<"astray">>
                      ELSE IF j # {} THEN <<"found", e.first, Min(j)>>
                      ELSE IF Ends(d) # {} THEN <<"none">> ELSE <<"astray">>

LookupPath(t) ==
    LET op == loc[t].op
        r == Resolve(IF op \in {"rmdir", "remove"} THEN loc[t].path ELSE <<loc[t].path[1]>>)
    IN  /\ IF r[1] = "found"
           THEN Goto(t, "entry") /\ Locals(t, [loc[t] EXCEPT !.sec = r[2], !.idx = r[3]])
           ELSE IF r[1] = "astray" \/ op = "remove" THEN Stray ELSE Finish(t)
        /\ UNCHANGED <<cache, stale>>

Lookup(t) ==
    /\ pc[t] = "lookup"
    /\ IF InRoot(t) THEN LookupRoot(t) ELSE LookupPath(t)
    /\ UNCHANGED <<disk, file, mixed, calls>>

\* The entry found is then taken from the buffer, and marked.
LookupEntry(t) ==
    LET op == loc[t].op
        c == Loaded(t, loc[t].sec)
        e == c.buf.dir[loc[t].idx]
    IN  /\ pc[t] = "entry" /\ Looked(t, loc[t].sec)
        /\ IF c.buf.dir = NoDir THEN Stray /\ cache' = c
           ELSE /\ cache' = IF op = "list" THEN c ELSE Marked(c, loc[t].idx)
                /\ IF op \in {"openr", "openw", "list"}
                   THEN Goto(t, IF op = "list" THEN "list" ELSE "scan")
                        /\ Locals(t, [loc[t] EXCEPT !.sec = e.first, !.idx = 1])
                   ELSE Goto(t, "fatread") /\ Locals(t, [loc[t] EXCEPT !.clu = e.first])
        /\ UNCHANGED <<disk, file, mixed, calls>>

\* The rest of fat_fs_open: the sector is read again, into a buffer of its own.
Opened_FromZero(sec, idx, e, op) ==
    [sec |-> sec, idx |-> idx - 1, sblk |-> e.first, cblk |-> e.first, offset |-> 0,
     size |-> e.size, writes |-> op = "openw", plain |-> TRUE]
Opened(sec, idx, e, op) ==
    [sec |-> sec, idx |-> idx, sblk |-> e.first, cblk |-> e.first, offset |-> 0,
     size |-> e.size, writes |-> op = "openw", plain |-> TRUE]

Scan(t) ==
    LET s == loc[t].sec
        d == IF s \in DirSectors THEN dirs[s] ELSE NoDir
        found == Find(d, loc[t].path[Len(loc[t].path)], {"file"})
    IN  /\ pc[t] = "scan"
        /\ CASE d = NoDir \/ (found = {} /\ Ends(d) = {}) -> Stray /\ UNCHANGED file
             [] d # NoDir /\ found # {} ->
                   /\ file' = [file EXCEPT ![t] = Opened(s, Min(found), d[Min(found)], loc[t].op)]
                   /\ Finish(t)
             [] OTHER -> /\ IF loc[t].op = "openw"
                            THEN /\ Goto(t, "fatread")
                                 /\ Locals(t, [loc[t] EXCEPT !.idx = Min(Ends(d)), !.dir = d])
                            ELSE Finish(t)
                         /\ UNCHANGED file
        /\ UNCHANGED <<disk, cache, history, calls>>

\* fat_alloc_cluster and fat_free_cluster read the FAT, wait, and write it.
FatRead(t) ==
    /\ pc[t] = "fatread"
    /\ Locals(t, [loc[t] EXCEPT !.fat = fat]) /\ Goto(t, "fatwrite")
    /\ UNCHANGED <<disk, cache, file, history, calls>>

\* The first free cluster becomes an end of chain; when a file grows, the
\* cluster before it is linked to it, whoever has that.
WithCluster(f, append) ==
    LET c == Min({k \in Clusters : f[k] = 0})
    IN  [k \in Clusters |-> IF k = c THEN Eoc ELSE IF append /\ k = c - 1 THEN c ELSE f[k]]

\* mkdir goes on with the entry the pointer into the buffer shows now: the
\* place in the root directory, or the directory to search.
NewEntry(t, kind, c) ==
    [EndEntry EXCEPT !.name = loc[t].path[Len(loc[t].path)], !.kind = kind, !.first = c]
MkdirGoesOn(t, c) ==
    LET i == loc[t].idx
        e == cache.buf.dir[i]
    IN  CASE cache.buf.dir = NoDir \/ (e.name = End /\ e.mark = NoSector) ->
                Stray /\ UNCHANGED cache
          [] cache.buf.dir # NoDir /\ e.name = End /\ e.mark # NoSector ->
                /\ cache' = Edited(cache, i, NewEntry(t, "dir", c))
                /\ Goto(t, "back") /\ Locals(t, [loc[t] EXCEPT !.clu = c, !.sec = e.mark])
          [] OTHER ->
                /\ Goto(t, "load") /\ Locals(t, [loc[t] EXCEPT !.clu = c, !.sec = e.first])
                /\ UNCHANGED cache

Allocate(t) ==
    LET free == {k \in Clusters : loc[t].fat[k] = 0}
        append == loc[t].op = "write"
    IN  IF free = {} THEN Stray /\ UNCHANGED <<fat, cache>>
        ELSE /\ fat' = WithCluster(loc[t].fat, append)
             /\ IF loc[t].op = "mkdir" THEN MkdirGoesOn(t, Min(free))
                ELSE /\ Goto(t, IF append THEN "data" ELSE "dirwrite")
                     /\ Locals(t, [loc[t] EXCEPT !.clu = Min(free)]) /\ UNCHANGED cache

\* Everything from the cluster to the next end of chain in the table is freed.
Freed_Past(f, c) ==
    LET e == Min({k \in Clusters : k >= c /\ f[k] = Eoc})
    IN  [k \in Clusters |-> IF k \in c..(e + 1) THEN 0 ELSE f[k]]
Freed(f, c) ==
    LET e == Min({k \in Clusters : k >= c /\ f[k] = Eoc})
    IN  [k \in Clusters |-> IF k \in c..e THEN 0 ELSE f[k]]

Release(t) ==
    LET f == loc[t].fat
        i == loc[t].idx
    IN  CASE \A k \in Clusters : k >= loc[t].clu => f[k] # Eoc ->
                Finish(t) /\ UNCHANGED <<fat, cache>>
          [] OTHER -> /\ fat' = Freed(f, loc[t].clu)
                      /\ IF \/ cache.buf.dir = NoDir
                            \/ cache.buf.dir # NoDir /\ cache.buf.dir[i].mark = NoSector
                         THEN Stray /\ UNCHANGED cache
                         ELSE /\ cache' = [cache EXCEPT !.buf.dir[i].name = Free]
                              /\ Goto(t, "back")
                              /\ Locals(t, [loc[t] EXCEPT !.sec = cache.buf.dir[i].mark])

FatWrite(t) ==
    /\ pc[t] = "fatwrite"
    /\ IF loc[t].op \in {"rmdir", "remove"} THEN Release(t) ELSE Allocate(t)
    /\ UNCHANGED <<dirs, file, history, calls>>

\* open writes the sector it has scanned, with the new entry in it.
DirWrite(t) ==
    LET e == NewEntry(t, "file", loc[t].clu)
    IN  /\ pc[t] = "dirwrite"
        /\ dirs' = [dirs EXCEPT ![loc[t].sec] = [loc[t].dir EXCEPT ![loc[t].idx] = e]]
        /\ file' = [file EXCEPT ![t] = Opened(loc[t].sec, loc[t].idx, e, "openw")]
        /\ Finish(t) /\ UNCHANGED <<fat, cache, history, calls>>

\* mkdir below the root: the first place no entry has had.
FirstFree_Before(d) == Min(Ends(d)) - 1
FirstFree(d) == Min(Ends(d))

LoadDir(t) ==
    LET s == loc[t].sec
        d == Listed(t, s)
        e == NewEntry(t, "dir", loc[t].clu)
    IN  /\ pc[t] = "load"
        /\ IF s \notin Data \/ (s \in Data /\ d = NoDir) THEN Stray /\ UNCHANGED <<cache, stale>>
           ELSE /\ Looked(t, s)
                /\ CASE Find(d, e.name, {"file", "dir"}) # {} -> Finish(t) /\ cache' = Loaded(t, s)
                     [] Find(d, e.name, {"file", "dir"}) = {} /\ Ends(d) # {} ->
                           /\ cache' = Edited(Loaded(t, s), FirstFree(d), e)
                           /\ Goto(t, "back") /\ Locals(t, loc[t])
                     [] OTHER -> Stray /\ cache' = Loaded(t, s)
        /\ UNCHANGED <<disk, file, mixed, calls>>

\* The buffer, whatever it holds by now, is written to the directory's sector.
Back(t) ==
    /\ pc[t] = "back"
    /\ IF cache.buf.of = FatSector THEN Stray /\ UNCHANGED dirs
       ELSE /\ dirs' = [dirs EXCEPT ![loc[t].sec] = cache.buf.dir]
            /\ IF loc[t].op = "mkdir" THEN Goto(t, "dots") /\ UNCHANGED loc ELSE Finish(t)
    /\ UNCHANGED <<fat, cache, file, history, calls>>

Dots(t) ==
    /\ pc[t] = "dots"
    /\ IF loc[t].clu \notin DirSectors THEN Stray /\ UNCHANGED dirs
       ELSE Finish(t) /\ dirs' = [dirs EXCEPT ![loc[t].clu] = NewDir(loc[t].clu)]
    /\ UNCHANGED <<fat, cache, file, history, calls>>

-----------------------------------------------------------------------------
(* Reading and writing. *)

\* A sector that is part written is read first; a new one gets its cluster
\* first.  One sector left at the start of one fits neither: the call spins.
WriteLoop(t) ==
    LET f == file[t]
        n == Min({loc[t].left, Bps - (f.offset % Bps)})
    IN  /\ pc[t] = "loop" /\ loc[t].op = "write"
        /\ \/ /\ loc[t].left = 0
              /\ Goto(t, "size") /\ UNCHANGED <<dirs, file, loc>>
           \/ /\ loc[t].left > 0 /\ f.offset % Bps > 0
              /\ IF f.cblk \notin Data THEN Stray /\ UNCHANGED <<dirs, file>>
                 ELSE /\ dirs' = [dirs EXCEPT ![f.cblk] = NoDir]
                      /\ file' = [file EXCEPT ![t].offset = @ + n]
                      /\ Locals(t, [loc[t] EXCEPT !.left = @ - n]) /\ UNCHANGED <<pc, astray>>
           \/ /\ loc[t].left > 0 /\ loc[t].left # Bps /\ f.offset % Bps = 0
              /\ Goto(t, "fatread") /\ UNCHANGED <<dirs, file, loc>>
        /\ UNCHANGED <<fat, cache, history, calls>>

\* The handle goes on to the next sector, wherever the chain goes.
WriteData(t) ==
    LET f == file[t]
        n == Min({loc[t].left, Bps})
    IN  /\ pc[t] = "data"
        /\ IF f.cblk \notin Data THEN Stray /\ UNCHANGED <<dirs, file>>
           ELSE /\ dirs' = [dirs EXCEPT ![f.cblk] = NoDir]
                /\ file' = [file EXCEPT ![t].offset = @ + n, ![t].cblk = @ + 1]
                /\ Locals(t, [loc[t] EXCEPT !.left = @ - n]) /\ Goto(t, "loop")
        /\ UNCHANGED <<fat, cache, history, calls>>

\* The size, the date and, a second time, the offset.
Size(t) ==
    LET f == file[t]
        c == Loaded(t, f.sec)
        d == c.buf.dir
    IN  /\ pc[t] = "size" /\ Looked(t, f.sec)
        /\ IF d = NoDir THEN Stray /\ cache' = c /\ UNCHANGED file
           ELSE /\ cache' = Edited(c, f.idx, [d[f.idx] EXCEPT !.size = @ + loc[t].size,
                                                             !.mark = NoSector])
                /\ file' = [file EXCEPT ![t].offset = @ + loc[t].size]
                /\ Locals(t, [loc[t] EXCEPT !.sec = f.sec]) /\ Goto(t, "back")
        /\ UNCHANGED <<disk, mixed, calls>>

\* A whole cluster is read without telling fat->pcs, and stays in the buffer.
ReadLoop(t) ==
    LET f == file[t]
        whole == f.offset % Bps = 0 /\ loc[t].left = Bps
    IN  /\ pc[t] = "loop" /\ loc[t].op = "read"
        /\ CASE loc[t].left = 0 -> Finish(t) /\ UNCHANGED cache
             [] loc[t].left > 0 /\ f.cblk \in Data ->
                   /\ cache' = [pcs |-> IF whole THEN cache.pcs ELSE NoSector,
                                buf |-> Image(f.cblk)]
                   /\ Goto(t, "next") /\ UNCHANGED loc
             [] OTHER -> Stray /\ UNCHANGED cache
        /\ UNCHANGED <<disk, file, history, calls>>

\* fat_move_file_offset: at the end of a chain the offset stays where it was.
ReadNext(t) ==
    LET f == file[t]
        n == Min({loc[t].left, Bps - (f.offset % Bps)})
        b == Loaded(t, FatSector).buf
        moved(c) == [f EXCEPT !.cblk = c, !.offset = @ + n]
    IN  /\ pc[t] = "next"
        /\ IF (f.offset % Bps) + n < Bps
           THEN /\ file' = [file EXCEPT ![t] = moved(f.cblk)]
                /\ Locals(t, [loc[t] EXCEPT !.left = @ - n]) /\ Goto(t, "loop")
                /\ UNCHANGED <<cache, stale>>
           ELSE /\ Load(t, FatSector)
                /\ CASE b.of # FatSector -> Stray /\ UNCHANGED file
                     [] b.of = FatSector /\ Invalid(b.fat[f.cblk]) -> Finish(t) /\ UNCHANGED file
                     [] OTHER -> /\ file' = [file EXCEPT ![t] = moved(b.fat[f.cblk])]
                                 /\ Locals(t, [loc[t] EXCEPT !.left = @ - n]) /\ Goto(t, "loop")
        /\ UNCHANGED <<disk, mixed, calls>>

\* readdir, called until it says there is no more; between two calls the task
\* holds nothing but the sector and the place.
List(t) ==
    LET s == loc[t].sec
        d == Listed(t, s)
        at == {i \in loc[t].idx..NEnt : d[i].name # Free}
    IN  /\ pc[t] = "list"
        /\ IF s \notin DirSectors THEN Stray /\ UNCHANGED <<cache, stale>>
           ELSE /\ Load(t, s)
                /\ CASE d = NoDir \/ (d # NoDir /\ at = {}) -> Stray
                     [] d # NoDir /\ at # {} /\ d[Min(at)].name = End -> Finish(t)
                     [] OTHER -> /\ Locals(t, [loc[t] EXCEPT !.idx = Min(at) + 1])
                                 /\ UNCHANGED <<pc, astray>>
        /\ UNCHANGED <<disk, file, mixed, calls>>

Next ==
    /\ ~astray
    /\ \E t \in Tasks :
          \/ CallOnPath(t) \/ CallOpendir(t) \/ CallWrite(t) \/ CallRead(t) \/ Seek(t)
          \/ Miss(t) \/ Lookup(t) \/ LookupEntry(t) \/ Scan(t)
          \/ FatRead(t) \/ FatWrite(t) \/ DirWrite(t)
          \/ LoadDir(t) \/ Back(t) \/ Dots(t)
          \/ WriteLoop(t) \/ WriteData(t) \/ Size(t)
          \/ ReadLoop(t) \/ ReadNext(t) \/ List(t)

Spec == Init /\ [][Next]_vars

-----------------------------------------------------------------------------
(* Properties. *)

\* The entries a path reaches.
Named(s) == IF dirs[s] = NoDir THEN {}
            ELSE {<<s, i>> : i \in {j \in Visible(dirs[s]) : dirs[s][j].name \in Names}}
Entry(p) == dirs[p[1]][p[2]]
Below(p) == IF Entry(p).kind = "dir" /\ Entry(p).first \in Data THEN Named(Entry(p).first) ELSE {}
\* A removed entry's clusters are free before it goes; a new directory's entry is
\* there before its sector.
Unfinished == \E t \in Tasks : pc[t] = "dots" \/ (pc[t] = "back" /\ loc[t].op # "write")
Live == Named(Root) \cup UNION {Below(p) : p \in Named(Root)}

\* fat_alloc_cluster never looks whose cluster it links to, and
\* fat_free_cluster frees in the order of the table, not of a chain.  A link
\* always leads to the next cluster; and as long as calls come one at a time
\* and none has used a sector older than the disk, what is linked to is
\* allocated, and every file and directory has clusters of its own.
ChainsSound ==
    /\ \A c \in Data : fat[c] \in {0, Eoc, c + 1}
    /\ ~mixed /\ ~stale /\ ~astray /\ ~Unfinished =>
          /\ \A c \in Data : fat[c] = c + 1 => c + 1 \in Data /\ fat[c + 1] # 0
          /\ \A p \in Live : /\ Entry(p).first \in Data /\ fat[Entry(p).first] # 0
                             /\ fat[Entry(p).first - 1] # Entry(p).first
                             /\ \A q \in Live : q # p => Entry(q).first # Entry(p).first

\* Directory sectors are rewritten whole, from a copy in the call or in the
\* one buffer.  Under the same conditions an entry is lost or changed only by
\* the removal of that entry, or by data written over its directory.
Erases(t, s, i) == /\ pc[t] = "back" /\ loc[t].op \in {"rmdir", "remove"}
                   /\ loc[t].sec = s /\ loc[t].idx = i
EntryKept(p) ==
    \/ dirs'[p[1]] = NoDir
    \/ [dirs'[p[1]][p[2]] EXCEPT !.size = 0, !.mark = 0] = [Entry(p) EXCEPT !.size = 0, !.mark = 0]
    \/ \E t \in Tasks : Erases(t, p[1], p[2])
EntriesKept ==
    [][~mixed' /\ ~stale' /\ (\A t \in Tasks : pc[t] # "dots") =>
          \A p \in Live : EntryKept(p)]_vars

\* lseek computes the cluster, fat_move_file_offset follows the chain: as long
\* as a handle has not been written through nor moved by SEEK_CUR past the
\* end of a cluster, it is at the cluster its offset lies in, whatever other
\* calls do meanwhile.
ReaderPosition ==
    \A t \in Tasks : file[t] # NoFile /\ file[t].plain /\ file[t].cblk \in Data =>
                        file[t].cblk = file[t].sblk + file[t].offset \div Bps

=============================================================================
