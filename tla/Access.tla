------------------------------- MODULE Access -------------------------------
(***************************************************************************)
(* Names, owners and modes of files as the system calls see them: paths    *)
(* resolved from the working directory of the process (vfs_resolve_path,   *)
(* resolve_dir_from_cwd), the directory table with its reused slots, and   *)
(* who may do what in it (check_vfs_access, check_removal_access). What is *)
(* in the files, and the disk, are in module Vfs.                          *)
(*                                                                         *)
(* A system call is one step: the kernel is not preempted in it. Calls     *)
(* that only answer are operators; a call that fails changes nothing.      *)
(*                                                                         *)
(* dirTable    the directory table; an entry's id is its slot, and 0 is    *)
(*             the root, which has no slot                                 *)
(* cwd         the working directory of each process                       *)
(***************************************************************************)
EXTENDS Integers, FiniteSetsExt, Sequences

CONSTANTS
    Callers,     \* the processes
    Uid, Gid,    \* their users and groups; user 0 is root
    Slots,       \* the slots of the table, from 1
    FileNames,   \* names of files
    PathNames,   \* the paths that calls are made with
    Modes,       \* what chmod() is called with
    FirstTable,  \* the table after the first boot
    MaxDepth     \* GETCWD_MAX_DEPTH

VARIABLES dirTable, cwd

accessVars == <<dirTable, cwd>>

Unused == [used |-> FALSE]

Mode(owner, group, other, sticky) ==
    [owner |-> owner, group |-> group, other |-> other, sticky |-> sticky]

DefaultFile == Mode({"r", "w"}, {"r"}, {"r"}, FALSE)
DefaultDir  == Mode({"r", "w", "x"}, {"r", "x"}, {"r", "x"}, FALSE)

(* A path is where it starts, its directories, and its basename, which is empty after
   a trailing slash. *)
Components == FileNames \cup {".."}

------------------------------------------------------------------------------
fs_get_entry_idx(name, parent) ==
    LET Found(i) == dirTable[i].used /\ dirTable[i].parent = parent /\ dirTable[i].name = name
    IN IF \E i \in Slots : Found(i)
       THEN CHOOSE i \in Slots : Found(i) /\ \A j \in 1..(i - 1) : ~Found(j)
       ELSE -1

IsDir(id) == id \in Slots /\ dirTable[id].used /\ dirTable[id].dir

(* fs_dir_exists() *)
fs_dir_exists(id) == id # 0 => IsDir(id)

E_NOENT == -2
E_ACCES == -3
E_NOTDIR == -4
E_PERM == -5

(* One component of a path in vfs_resolve_path(): the parent of a directory that is
   gone is that directory. *)
Walk(id, component) ==
    LET entry == fs_get_entry_idx(component, id)
    IN IF id < 0 \/ component = "." THEN id
       ELSE IF component = ".." THEN (IF IsDir(id) THEN dirTable[id].parent ELSE id)
       ELSE IF entry = -1 THEN E_NOENT
       ELSE IF ~dirTable[entry].dir THEN E_NOTDIR ELSE entry

WalkAll(start, names) ==
    LET At[i \in 0..Len(names)] == IF i = 0 THEN start ELSE Walk(At[i - 1], names[i])
    IN At[Len(names)]

(* vfs_resolve_path(): the directory that the basename is in. *)
vfs_resolve_path(p, path) == WalkAll(IF path.absolute THEN 0 ELSE cwd[p], path.dirs)

------------------------------------------------------------------------------
(* fs_mode_allows(): the first class that matches decides. *)
fs_mode_allows(mode, uid, gid, p, want) ==
    Uid[p] # 0 => want \subseteq (IF Uid[p] = uid THEN mode.owner
                                  ELSE IF Gid[p] = gid THEN mode.group ELSE mode.other)

EntryAllows(id, p, want) ==
    fs_mode_allows(dirTable[id].mode, dirTable[id].uid, dirTable[id].gid, p, want)

Parent(id) == IF id \in Slots /\ dirTable[id].used THEN dirTable[id].parent ELSE 0

(* The directories above an entry; no chain is longer than the table. *)
Above[id \in {0} \cup Slots, hops \in 0..Cardinality(Slots)] ==
    IF Parent(id) = 0 \/ hops = 0 THEN {} ELSE {Parent(id)} \cup Above[Parent(id), hops - 1]

(* check_vfs_access(): the directory itself, and a way down to it. *)
check_vfs_access(p, id, write) ==
    LET want == IF write THEN {"w", "x"} ELSE {"r", "x"}
    IN Uid[p] # 0 =>
         IF id = 0 THEN fs_mode_allows(DefaultDir, 0, 0, p, want)
         ELSE /\ dirTable[id].used
              /\ EntryAllows(id, p, want)
              /\ \A up \in Above[id, Cardinality(Slots)] :
                   dirTable[up].used => EntryAllows(up, p, {"x"})

(* check_file_access() *)
check_file_access(p, parent, name, want) ==
    LET entry == fs_get_entry_idx(name, parent)
    IN entry # -1 => EntryAllows(entry, p, want)

fs_sticky_allows_removal(dirmode, dirowner, owner, p) ==
    dirmode.sticky => Uid[p] \in {0, owner, dirowner}

(* check_removal_access() *)
check_removal_access(p, parent, name) ==
    LET entry == fs_get_entry_idx(name, parent)
    IN (Uid[p] # 0 /\ entry # -1 /\ parent # 0) =>
         /\ dirTable[parent].used
         /\ fs_sticky_allows_removal(dirTable[parent].mode, dirTable[parent].uid,
                                     dirTable[entry].uid, p)

(* resolve_dir_from_cwd(): a directory, for chdir() and the calls that take one. *)
resolve_dir_from_cwd(p, path) ==
    LET parent == vfs_resolve_path(p, path)
        entry  == fs_get_entry_idx(path.base, parent)
        target == IF path.base \in {"", "."} THEN parent
                  ELSE IF path.base = ".." THEN (IF IsDir(parent) THEN dirTable[parent].parent
                                                 ELSE 0)
                  ELSE IF entry = -1 THEN E_NOENT
                  ELSE IF ~dirTable[entry].dir THEN E_NOTDIR ELSE entry
    IN IF parent < 0 THEN parent
       ELSE IF target >= 0 /\ ~check_vfs_access(p, target, FALSE) THEN E_ACCES ELSE target

NamesADirectory(path) == path.base \in {"", ".", ".."}

(* entry_id_for_path(): what chmod() and chown() change; not the root. *)
entry_id_for_path(p, path) ==
    LET parent == vfs_resolve_path(p, path)
        target == resolve_dir_from_cwd(p, path)
    IN IF parent < 0 THEN parent
       ELSE IF NamesADirectory(path) THEN (IF target = 0 THEN E_PERM ELSE target)
       ELSE IF fs_get_entry_idx(path.base, parent) = -1 THEN E_NOENT
       ELSE fs_get_entry_idx(path.base, parent)

------------------------------------------------------------------------------
(* The calls that answer: the entry that sys_stat() describes or sys_open() opens, *)
sys_stat(p, path) ==
    LET parent == vfs_resolve_path(p, path)
    IN IF NamesADirectory(path) THEN resolve_dir_from_cwd(p, path)
       ELSE IF parent < 0 THEN parent
       ELSE IF ~check_vfs_access(p, parent, FALSE) THEN E_ACCES
       ELSE IF fs_get_entry_idx(path.base, parent) = -1 THEN E_NOENT
       ELSE fs_get_entry_idx(path.base, parent)

sys_open(p, path, want) ==
    LET parent == vfs_resolve_path(p, path)
    IN IF parent < 0 THEN parent
       ELSE IF path.base = "" THEN E_NOENT
       ELSE IF ~check_vfs_access(p, parent, FALSE) THEN E_ACCES
       ELSE IF ~check_file_access(p, parent, path.base, want) THEN E_ACCES
       ELSE IF fs_get_entry_idx(path.base, parent) = -1 THEN E_NOENT
       ELSE fs_get_entry_idx(path.base, parent)

(* the names that sys_readdir() lists, into a buffer that is large enough, *)
sys_readdir(p, id) ==
    IF ~check_vfs_access(p, id, FALSE) THEN {}
    ELSE {i \in Slots : dirTable[i].used /\ dirTable[i].parent = id}

(* and the names on the way to the working directory, from the root, that
   sys_getcwd() renders; <<"?">> when it fails. *)
Rendered[id \in {0} \cup Slots, hops \in 0..MaxDepth] ==
    IF id = 0 THEN <<>>
    ELSE IF hops = 0 \/ ~IsDir(id) THEN <<"?">>
    ELSE Append(Rendered[dirTable[id].parent, hops - 1], dirTable[id].name)

sys_getcwd(p) == Rendered[cwd[p], MaxDepth]

------------------------------------------------------------------------------
AccessInit ==
    /\ dirTable = FirstTable
    /\ cwd = [p \in Callers |-> 0]

NewEntry(p, name, parent, dir) ==
    [used |-> TRUE, dir |-> dir, name |-> name, parent |-> parent, uid |-> Uid[p],
     gid |-> Gid[p], mode |-> IF dir THEN DefaultDir ELSE DefaultFile]

(* Mutant: anything in use may hold names. *)
TypeIsNotAsked(parent) == parent # 0 => dirTable[parent].used

MayHold(parent) == fs_dir_exists(parent)

NameIsTaken(name, parent) == fs_get_entry_idx(name, parent) # -1

FreeSlots == {i \in Slots : ~dirTable[i].used}

(* fs_mkdir() and what fs_create_file() does to the table: the first free slot. *)
AddEntry(p, name, parent, dir) ==
    /\ MayHold(parent)
    /\ ~NameIsTaken(name, parent)
    /\ FreeSlots # {}
    /\ dirTable' = [dirTable EXCEPT ![Min(FreeSlots)] = NewEntry(p, name, parent, dir)]
    /\ UNCHANGED cwd

fs_mkdir(p, name, parent) == AddEntry(p, name, parent, TRUE)

MayCreate(p, path) ==
    LET parent == vfs_resolve_path(p, path)
    IN parent >= 0 /\ path.base # "" /\ check_vfs_access(p, parent, TRUE)

sys_create_file(p, path) ==
    MayCreate(p, path) /\ AddEntry(p, path.base, vfs_resolve_path(p, path), FALSE)

sys_mkdir(p, path) ==
    MayCreate(p, path) /\ fs_mkdir(p, path.base, vfs_resolve_path(p, path))

IsEmpty(id) == \A i \in Slots : ~(dirTable[i].used /\ dirTable[i].parent = id)

(* Mutant: the sticky bit is not looked at. *)
WriteIsEnough(p, parent, name) == check_vfs_access(p, parent, TRUE)

MayRemove(p, parent, name) ==
    check_vfs_access(p, parent, TRUE) /\ check_removal_access(p, parent, name)

(* sys_rm_file(): a directory only when it is empty, whoever works in it. *)
sys_rm_file(p, path) ==
    LET parent == vfs_resolve_path(p, path)
        entry  == fs_get_entry_idx(path.base, parent)
    IN /\ parent >= 0 /\ path.base # "" /\ entry # -1
       /\ MayRemove(p, parent, path.base)
       /\ dirTable[entry].dir => IsEmpty(entry)
       /\ dirTable' = [dirTable EXCEPT ![entry] = Unused]
       /\ UNCHANGED cwd

(* sys_mv_file(): within one directory, to a name that is not there. *)
sys_mv_file(p, path) ==
    LET parent == vfs_resolve_path(p, path)
        entry  == fs_get_entry_idx(path.base, parent)
    IN /\ parent >= 0 /\ path.base # "" /\ entry # -1
       /\ MayRemove(p, parent, path.base)
       /\ \E to \in Components :
            /\ ~NameIsTaken(to, parent)
            /\ dirTable' = [dirTable EXCEPT ![entry].name = to]
       /\ UNCHANGED cwd

(* sys_chdir() *)
sys_chdir(p, path) ==
    LET target == resolve_dir_from_cwd(p, path)
    IN /\ target >= 0
       /\ cwd' = [cwd EXCEPT ![p] = target]
       /\ UNCHANGED dirTable

(* fs_chmod() and fs_chown() *)
fs_chmod(entry, mode) ==
    /\ entry \in Slots /\ dirTable[entry].used
    /\ dirTable' = [dirTable EXCEPT ![entry].mode = mode]
    /\ UNCHANGED cwd

fs_chown(entry, uid, gid) ==
    /\ entry \in Slots /\ dirTable[entry].used
    /\ dirTable' = [dirTable EXCEPT ![entry].uid = uid, ![entry].gid = gid]
    /\ UNCHANGED cwd

(* sys_chmod(): the owner and root. *)
sys_chmod(p, path) ==
    LET entry == entry_id_for_path(p, path)
    IN /\ entry \in Slots /\ dirTable[entry].used
       /\ Uid[p] \in {0, dirTable[entry].uid}
       /\ \E mode \in Modes : fs_chmod(entry, mode)

(* sys_chown(): root. *)
sys_chown(p, path) ==
    /\ Uid[p] = 0
    /\ \E q \in Callers : fs_chown(entry_id_for_path(p, path), Uid[q], Gid[q])

AccessStep(p) ==
    \E path \in PathNames :
      \/ sys_create_file(p, path)
      \/ sys_mkdir(p, path)
      \/ sys_rm_file(p, path)
      \/ sys_mv_file(p, path)
      \/ sys_chdir(p, path)
      \/ sys_chmod(p, path)
      \/ sys_chown(p, path)

AccessNext == \E p \in Callers : AccessStep(p)

AccessSpec == AccessInit /\ [][AccessNext]_accessVars

------------------------------------------------------------------------------
(* What fs_validate_directory_table() asks of a disk at mount holds at any time: the
   parent of every entry is a directory, and the way up from it ends at the root.
   A directory that some process works in may be removed and its slot given to a
   file, and still nothing gets a parent that is not a directory. *)
TreeIsRooted ==
    \A i \in Slots : dirTable[i].used =>
      /\ fs_dir_exists(dirTable[i].parent)
      /\ i \notin Above[i, Cardinality(Slots)]

(* The path that getcwd() gives a process leads back to its working directory from
   anywhere, whatever was renamed above it since, except through a directory that
   was named "." or "..", which mkdir() and mv() allow. *)
CwdLeadsBack ==
    \A p \in Callers :
      LET names == sys_getcwd(p)
      IN (\A i \in 1..Len(names) : names[i] \in FileNames) => WalkAll(0, names) = cwd[p]

(* An entry that readdir() lists is the entry that stat() and open() find under its
   name, in the directory that the process works in. *)
ListedIsFound ==
    \A p \in Callers : \A i \in sys_readdir(p, cwd[p]) :
      LET path == [absolute |-> FALSE, dirs |-> <<>>, base |-> dirTable[i].name]
      IN path.base \in FileNames =>
           /\ sys_stat(p, path) = i
           /\ sys_open(p, path, {"r"}) = IF EntryAllows(i, p, {"r"}) THEN i ELSE E_ACCES

(* The three together: the table is a tree that paths lead through one way, to the
   calls that list, find and report names (sys_readdir, sys_stat, sys_getcwd). *)
NamesAreSound == TreeIsRooted /\ CwdLeadsBack /\ ListedIsFound

(* "what you wrote is still yours": from a sticky directory of root's, as /tmp is, an
   entry goes, or gets another name, another owner or another mode, only by its
   owner or by root. *)
StickyKeepsYours ==
    [][\A i \in Slots :
         (/\ dirTable[i].used /\ dirTable[i].parent \in Slots
          /\ dirTable[dirTable[i].parent].uid = 0
          /\ dirTable[dirTable[i].parent].mode.sticky
          /\ dirTable'[i] # dirTable[i])
           => \E p \in Callers : Uid[p] \in {0, dirTable[i].uid} /\ AccessStep(p)]_accessVars
=============================================================================
