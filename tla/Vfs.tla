-------------------------------- MODULE Vfs ---------------------------------
(***************************************************************************)
(* The file system of fs/vfs.c and fs/crypto_fs.c on one disk: the         *)
(* directory table, the allocation table (FAT) and the data clusters, the  *)
(* calls that change them, the handles of open files with their buffered   *)
(* writes, and a power loss at any moment.                                 *)
(*                                                                         *)
(* The kernel is not preemptible, so a call is one step.  What a call      *)
(* writes goes to a write-back cache that keeps no order (module BCache):  *)
(* until the next flush the platter may hold, sector by sector, any        *)
(* version written since the last one.  pdir, pfat and pdata collect those *)
(* versions; a power loss picks one of each.                               *)
(*                                                                         *)
(* A file's bytes are a sequence of cluster-sized chunks.  The stored form *)
(* is one blob authenticated as a whole (crypto_fs.c), so a cluster holds  *)
(* a piece of a particular blob and a blob can be read only if all its     *)
(* pieces are in place.  Owners, modes and times are in module Access.     *)
(***************************************************************************)
EXTENDS Integers, Sequences, FiniteSets, FiniteSetsExt

CONSTANTS MaxEntries,     \* slots of the directory table, the unused slot 0 included
          TotalClusters,  \* clusters, the two reserved ones included
          Names,          \* names of at most MAX_FILENAME - 1 characters
          TmpName,        \* TmpName[n]: n cut to MAX_FILENAME - 5 characters, plus ".tmp"
          Chunks,         \* what one cluster's worth of bytes may be
          MaxChunks,      \* MAX_FILE_WRITE_BYTES, in chunks
          Handles,        \* open file descriptions
          MaxPending,     \* bound: calls between two flushes, where power may be lost
          MaxCalls        \* bound: calls in all, where power may be lost

ASSUME VfsAssumption ==
    /\ MaxEntries \in Nat \ {0} /\ TotalClusters \in Nat \ {0, 1}
    /\ TmpName \in [Names -> Names]

VARIABLES fs,       \* [dir, fat, data] in memory and [pdir, pfat, pdata] on the platter
          handle,   \* vfs_file_t of every handle
          level,    \* current_sec_level
          up,       \* FALSE after a power loss
          risk,     \* may power be lost in this behaviour?
          pending,  \* calls since the last flush, counted only under risk
          calls,    \* calls so far, counted only under risk
          safe,     \* history, kept under risk: keys left alone since the last flush
          tree      \* auxiliary: the tree callers see, always Tree(fs)

vars == <<fs, handle, level, up, risk, pending, calls, safe, tree>>

FAT_FREE == 0
FAT_EOF == -1
CRYPTO_ENFORCED == 1
LOCKDOWN == 2
IMMUTABLE == 3

Slots == 1..(MaxEntries - 1)
Clusters == 2..(TotalClusters - 1)
Parents == {0} \cup Slots
Contents == UNION {[1..k -> Chunks] : k \in 0..MaxChunks}
NoName == "none"
Nothing == << >>

\* Clusters a blob takes: an empty file has one too.
ClustersNeeded(c) == IF Len(c) = 0 THEN 1 ELSE Len(c)

FreeEntry(p) ==
    [used |-> FALSE, name |-> NoName, parent |-> p, dir |-> FALSE, start |-> 0, size |-> 0]

Closed == [open |-> FALSE, name |-> NoName, idx |-> 0]

-----------------------------------------------------------------------------
(* Looking things up.                                                      *)

Lookup(f, n, p) ==
    LET hit == {i \in Slots : f.dir[i].used /\ f.dir[i].parent = p /\ f.dir[i].name = n}
    IN IF hit = {} THEN 0 ELSE Min(hit)

DirExists(f, p) == p = 0 \/ (f.dir[p].used /\ f.dir[p].dir)

FreeSlots(f) == {i \in Slots : ~f.dir[i].used}

FreeClusters(f) == {c \in Clusters : f.fat[c] = FAT_FREE}

\* The k-th cluster of the chain that starts at s.
Nth(f, s) ==
    LET nth[k \in 1..TotalClusters] ==
            IF k = 1 THEN s
            ELSE IF nth[k - 1] \in Clusters THEN f.fat[nth[k - 1]] ELSE FAT_EOF
    IN nth

\* Every cluster that following the chain from s visits.
Chain(f, s) == LET nth == Nth(f, s) IN {nth[k] : k \in 1..TotalClusters} \cap Clusters

\* A blob opens only if all its pieces are there, in order.
Opens(c, pieces) == pieces = [k \in 1..ClustersNeeded(c) |-> <<c, k>>]

\* What reading size clusters from s and opening the blob yields, if anything.
Content(f, s, size) ==
    LET nth == Nth(f, s)
        pieces == [k \in 1..size |-> f.data[nth[k]]]
    IN IF s # 0 /\ \A k \in 1..size : nth[k] \in Clusters
       THEN {c \in Contents : Opens(c, pieces)}
       ELSE {}

-----------------------------------------------------------------------------
(* Saving.  Without the risk of a power loss only the latest version counts. *)

Version(old, new) == IF risk THEN old \cup {new} ELSE {new}

SaveDirectory(f) == [f EXCEPT !.pdir = [i \in Slots |-> Version(f.pdir[i], f.dir[i])]]

SaveFat(f) == [f EXCEPT !.pfat = [c \in Clusters |-> Version(f.pfat[c], f.fat[c])]]

WriteClusters(f, C, c) ==
    LET place(x) == Cardinality({y \in C : y <= x})
        new == [x \in Clusters |-> IF x \in C THEN <<c, place(x)>> ELSE f.data[x]]
    IN [f EXCEPT !.data = new, !.pdata = [x \in Clusters |-> Version(f.pdata[x], new[x])]]

\* allocate_fat_chain takes the lowest free clusters and links them in that order.
Lowest(S, n) == {x \in S : Cardinality({y \in S : y < x}) < n}

Linked(fat, C) ==
    [x \in Clusters |->
        IF x \notin C THEN fat[x]
        ELSE IF \E y \in C : y > x THEN Min({y \in C : y > x}) ELSE FAT_EOF]

\* Mutant: the last cluster of the chain stays allocated.
FreedButLast(fat, C) ==
    [x \in Clusters |-> IF x \in C /\ fat[x] # FAT_EOF THEN FAT_FREE ELSE fat[x]]

Freed(fat, C) == [x \in Clusters |-> IF x \in C THEN FAT_FREE ELSE fat[x]]

-----------------------------------------------------------------------------
(* The calls, as functions from a file system to a file system and a result. *)

Ret(f, r) == [fs |-> f, res |-> r]

fs_create_file_raw(f, n, c, p) ==
    LET i == Min(FreeSlots(f))
        C == Lowest(FreeClusters(f), ClustersNeeded(c))
        g == WriteClusters(SaveFat([f EXCEPT !.fat = Linked(f.fat, C)]), C, c)
        e == [used |-> TRUE, name |-> n, parent |-> p, dir |-> FALSE,
              start |-> Min(C), size |-> ClustersNeeded(c)]
    IN CASE ~DirExists(f, p) -> Ret(f, "E_NOENT")
         [] Lookup(f, n, p) # 0 -> Ret(f, "E_EXIST")
         [] FreeSlots(f) = {} -> Ret(f, "E_NFILE")
         [] Cardinality(FreeClusters(f)) < ClustersNeeded(c) -> Ret(f, "E_NOSPC")
         [] OTHER -> Ret(SaveDirectory([g EXCEPT !.dir[i] = e]), "E_OK")

\* In LOCKDOWN the key is gone and an encrypted write is refused.
fs_create_file(f, n, c, p) ==
    CASE level >= IMMUTABLE -> Ret(f, "E_ROFS")
      [] level = LOCKDOWN -> Ret(f, "E_ACCES")
      [] OTHER -> fs_create_file_raw(f, n, c, p)

fs_mkdir(f, n, p) ==
    LET i == Min(FreeSlots(f))
        e == [used |-> TRUE, name |-> n, parent |-> p, dir |-> TRUE, start |-> 0, size |-> 0]
    IN CASE level >= IMMUTABLE -> Ret(f, "E_ROFS")
         [] ~DirExists(f, p) -> Ret(f, "E_NOENT")
         [] Lookup(f, n, p) # 0 -> Ret(f, "E_EXIST")
         [] FreeSlots(f) = {} -> Ret(f, "E_NFILE")
         [] OTHER -> Ret(SaveDirectory([f EXCEPT !.dir[i] = e]), "E_OK")

fs_delete(f, n, p) ==
    LET i == Lookup(f, n, p)
        g == SaveFat([f EXCEPT !.fat = Freed(f.fat, Chain(f, f.dir[i].start))])
    IN CASE level >= IMMUTABLE -> Ret(f, "E_ROFS")
         [] i = 0 -> Ret(f, "E_NOENT")
         [] f.dir[i].dir /\ \E j \in Slots : f.dir[j].used /\ f.dir[j].parent = i ->
                Ret(f, "E_NOTEMPTY")
         [] OTHER -> Ret(SaveDirectory([g EXCEPT !.dir[i] = FreeEntry(p)]), "E_OK")

fs_rename(f, n, m, p) ==
    LET i == Lookup(f, n, p)
    IN CASE level >= IMMUTABLE -> Ret(f, "E_ROFS")
         [] Lookup(f, m, p) # 0 -> Ret(f, "E_EXIST")
         [] i = 0 -> Ret(f, "E_NOENT")
         [] OTHER -> Ret(SaveDirectory([f EXCEPT !.dir[i].name = m]), "E_OK")

\* Mutant: the two entries exchange their chains and keep their sizes.
SwappedStarts(d, i, t) == [d EXCEPT ![i].start = d[t].start, ![t].start = d[i].start]

Swapped(d, i, t) ==
    [d EXCEPT ![i].start = d[t].start, ![i].size = d[t].size,
              ![t].start = d[i].start, ![t].size = d[i].size]

\* The new contents are made under the temporary name, start and size of the two
\* entries change places, and the temporary, which now has the old contents, goes.
fs_atomic_update(f, n, c, p) ==
    LET tmp == TmpName[n]
        made == fs_create_file(fs_delete(f, tmp, p).fs, tmp, c, p)
        g == made.fs
        i == Lookup(g, n, p)
        t == Lookup(g, tmp, p)
    IN CASE level >= IMMUTABLE -> Ret(f, "E_ROFS")
         [] Lookup(f, n, p) = 0 -> fs_create_file(f, n, c, p)
         [] made.res # "E_OK" -> made
         [] i = 0 \/ t = 0 -> Ret(fs_delete(g, tmp, p).fs, "E_NOENT")
         [] OTHER -> LET swapped == SaveDirectory([g EXCEPT !.dir = Swapped(g.dir, i, t)])
                     IN Ret(fs_delete(swapped, tmp, p).fs, "E_OK")

\* fs_validate_directory_table: every entry in use leads to the root through
\* directories in use and starts inside the file system.
Valid(d) ==
    LET up_of[i \in Parents, k \in 0..MaxEntries] ==
            IF k = 0 \/ i = 0 THEN i
            ELSE IF d[i].used /\ d[i].dir THEN up_of[d[i].parent, k - 1] ELSE i
    IN \A i \in Slots : d[i].used =>
            /\ up_of[d[i].parent, MaxEntries] = 0
            /\ d[i].start = 0 \/ d[i].start \in Clusters

-----------------------------------------------------------------------------
(* The tree as a caller sees it, and the history of what was left alone.    *)

Used(f) == {i \in Slots : f.dir[i].used}

KeyOf(f, i) == <<f.dir[i].parent, f.dir[i].name>>

Tree(f) ==
    [k \in {KeyOf(f, i) : i \in Used(f)} |->
        LET i == Lookup(f, k[2], k[1])
        IN [id |-> i, dir |-> f.dir[i].dir,
            content |-> Content(f, f.dir[i].start, f.dir[i].size)]]

\* A key is left alone by a step that leaves its directory entry as it is.
Kept(f, g) ==
    {k \in safe : \E i \in Slots : KeyOf(f, i) = k /\ g.dir[i] = f.dir[i]}

-----------------------------------------------------------------------------
(* Actions.                                                                *)

EmptyFs ==
    LET d == [i \in Slots |-> FreeEntry(0)]
        t == [c \in Clusters |-> FAT_FREE]
        x == [c \in Clusters |-> <<Nothing, 0>>]
    IN [dir |-> d, fat |-> t, data |-> x,
        pdir |-> [i \in Slots |-> {d[i]}], pfat |-> [c \in Clusters |-> {t[c]}],
        pdata |-> [c \in Clusters |-> {x[c]}]]

Init ==
    /\ fs = EmptyFs
    /\ handle = [h \in Handles |-> Closed]
    /\ level = CRYPTO_ENFORCED
    /\ up = TRUE
    /\ risk \in BOOLEAN
    /\ pending = 0 /\ calls = 0
    /\ safe = {} /\ tree = << >>

\* A call that ran to its end and left the file system as g.
Call(g) ==
    /\ up
    /\ risk => pending < MaxPending /\ calls < MaxCalls
    /\ fs' = g
    /\ safe' = Kept(fs, g)
    /\ tree' = Tree(g)
    /\ pending' = IF risk THEN pending + 1 ELSE 0
    /\ calls' = IF risk THEN calls + 1 ELSE 0
    /\ UNCHANGED <<up, risk>>

Create(n, c, p) == Call(fs_create_file(fs, n, c, p).fs) /\ UNCHANGED <<handle, level>>

Mkdir(n, p) == Call(fs_mkdir(fs, n, p).fs) /\ UNCHANGED <<handle, level>>

Remove(n, p) == Call(fs_delete(fs, n, p).fs) /\ UNCHANGED <<handle, level>>

Rename(n, m, p) == Call(fs_rename(fs, n, m, p).fs) /\ UNCHANGED <<handle, level>>

\* sys_open and fs_open for writing, which marks the file dirty so that even without
\* a write the close truncates it.  A handle for reading changes nothing here.
Open(h, n, p) ==
    LET i == Lookup(fs, n, p) IN
    /\ up /\ ~handle[h].open /\ i # 0
    /\ handle' = [handle EXCEPT ![h] = [open |-> TRUE, name |-> n, idx |-> i]]
    /\ UNCHANGED <<fs, level, up, risk, pending, calls, safe, tree>>

\* The last close of a handle whose buffer came to hold c.  fs_write_buffered only
\* appends to that buffer, up to the maximum file size, and nobody else sees it
\* before fs_commit_writes, so what was written is chosen here.  The commit takes
\* the name the file was opened under and the directory its slot names by now.
Close(h, c) ==
    LET f == handle[h] IN
    /\ f.open
    /\ Call(fs_atomic_update(fs, f.name, c, fs.dir[f.idx].parent).fs)
    /\ handle' = [handle EXCEPT ![h] = Closed]
    /\ UNCHANGED level

\* set_security_level never goes down.  Bound: only where power may be lost too.
RaiseLevel(l) ==
    /\ up /\ risk /\ l > level
    /\ level' = l
    /\ UNCHANGED <<fs, handle, up, risk, pending, calls, safe, tree>>

\* bcache_flush that succeeds: the platter holds the latest of everything.
Sync ==
    /\ up
    /\ fs' = [fs EXCEPT !.pdir = [i \in Slots |-> {fs.dir[i]}],
                        !.pfat = [c \in Clusters |-> {fs.fat[c]}],
                        !.pdata = [c \in Clusters |-> {fs.data[c]}]]
    /\ pending' = 0
    /\ safe' = IF risk THEN DOMAIN tree ELSE {}
    /\ UNCHANGED <<handle, level, up, risk, calls, tree>>

\* What the platter may hold: of each record one version that may have reached it.
Mixtures(places, versions) ==
    {m \in [places -> UNION {versions[i] : i \in places}] : \A i \in places : m[i] \in versions[i]}

\* Power goes and comes back.  init_fs reads what the platter holds and mounts it
\* if the directory table is valid; a refused disk is left as it is.
PowerLoss ==
    /\ up /\ risk
    /\ \E d \in Mixtures(Slots, fs.pdir), t \in Mixtures(Clusters, fs.pfat),
          x \in Mixtures(Clusters, fs.pdata) :
         /\ Valid(d)
         /\ fs' = [dir |-> d, fat |-> t, data |-> x,
                   pdir |-> [i \in Slots |-> {d[i]}], pfat |-> [c \in Clusters |-> {t[c]}],
                   pdata |-> [c \in Clusters |-> {x[c]}]]
    /\ handle' = [h \in Handles |-> Closed]
    /\ level' = CRYPTO_ENFORCED
    /\ up' = FALSE
    /\ pending' = 0
    /\ tree' = Tree(fs')
    /\ UNCHANGED <<risk, calls, safe>>

\* Paths resolve to directories in use.  sys_create_file brings a page at most.
Next ==
    \/ \E n \in Names, p \in {p \in Parents : DirExists(fs, p)} :
          \/ \E c \in Contents : Len(c) <= 1 /\ Create(n, c, p)
          \/ Mkdir(n, p)
          \/ Remove(n, p)
          \/ \E m \in Names : Rename(n, m, p)
          \/ \E h \in Handles : Open(h, n, p)
    \/ \E h \in Handles, c \in Contents : Close(h, c)
    \/ \E l \in {LOCKDOWN, IMMUTABLE} : RaiseLevel(l)
    \/ Sync
    \/ PowerLoss

Spec == Init /\ [][Next]_vars

-----------------------------------------------------------------------------
(* Properties.                                                             *)

\* Until power is lost the two tables agree: chains never meet, each is as long as
\* its entry says and ends, and every cluster in use is on one.  A create that
\* fails, an update that works through a second entry and a delete of either must
\* not lose a cluster or give one away twice (allocate_fat_chain, fs_delete,
\* fs_atomic_update).
ChainsAreSound ==
    up =>
      /\ \A i, j \in Used(fs) :
            i # j => Chain(fs, fs.dir[i].start) \cap Chain(fs, fs.dir[j].start) = {}
      /\ \A i \in Used(fs) : Cardinality(Chain(fs, fs.dir[i].start)) = fs.dir[i].size
      /\ UNION {Chain(fs, fs.dir[i].start) : i \in Used(fs)} = Clusters \ FreeClusters(fs)

\* A link of the FAT leads to a higher cluster, also in a table put together from
\* sectors of different ages by a power loss.  fs_read_raw and fs_delete follow
\* chains with no bound on their length: this is why they come to an end.
LinksAscend == \A c \in Clusters : fs.fat[c] > c \/ fs.fat[c] \in {FAT_FREE, FAT_EOF}

\* The volume the next call finds: its tables agree while power lasts, and whatever a
\* power loss left of them can be walked.
VolumeIsSound == ChainsAreSound /\ LinksAscend

FT == INSTANCE FileTree WITH Scratch <- TmpName

\* What callers see is a tree that changes as FileTree says: each call is one step
\* on one node, contents are replaced whole, and what was left alone since the last
\* flush survives a power loss.
ImplementsFileTree == FT!Spec
=============================================================================
