-------------------------------- MODULE Boot --------------------------------
(***************************************************************************)
(* From power-on to a shell, and the calls that change disks afterwards:   *)
(* kernel/core/kernel.c (the boot path), init_fs and the key slot of       *)
(* fs/vfs.c with crypto/keyslot.c, the device table of blockdev.c,         *)
(* sys_mount.c, and the security level and shutdown calls of sys_sec.c.    *)
(*                                                                         *)
(* A disk is blank, foreign (refused and never written) or formatted by    *)
(* this system.  Of a formatted disk the model keeps its key slot, the     *)
(* entries the boot path looks for, and which of them have the mode        *)
(* apply_system_modes gives them.  seen is what the mounted file system    *)
(* shows; the disk gets it at a flush, or entry by entry at a power cut.   *)
(***************************************************************************)
EXTENDS Integers, FiniteSets

CONSTANTS NumDevs,    \* registered block devices, in the order IDE or AHCI, then USB
          Passes,     \* passphrases a user may type
          Empty,      \* what an Enter alone leaves in the buffer
          Faults,     \* when reads of a mount may fail: "none", "early", "late"
          MaxBoots    \* bound on the power-ons of a behaviour

ASSUME BootAssumption == /\ NumDevs \in Nat \ {0} /\ Empty \notin Passes
                         /\ Faults \subseteq {"none", "early", "late"}

VARIABLES disks,      \* what the platters hold
          root,       \* root_dev, 0 when there is none
          mounted,    \* fs_mounted
          seen,       \* dir_table and fs_super of the mounted disk
          formatted,  \* fs_was_formatted
          master,     \* kernel_master_key, 0 when it is not available
          level,      \* current_sec_level
          phase,      \* how far the boot has come
          tries,      \* attempts at the current prompt
          booted,     \* history: the device this boot took its system from
          open,       \* does a process hold a file open?
          keys,       \* data keys generated so far
          boots       \* power-ons so far

bootVars == <<disks, root, mounted, seen, formatted, master, level, phase, tries,
          booted, open, keys, boots>>

Devs == 1..NumDevs
SysNames == {"bin", "setup_complete", "init.elf"}   \* "bin": all directories of the root
Names == SysNames \cup {"tmpfile"}
CRYPTO_ENFORCED == 1
LOCKDOWN == 2
IMMUTABLE == 3
Attempts == 3         \* DISK_PASSPHRASE_ATTEMPTS, and the 3 of first_boot_setup

NoSlot == [pass |-> Empty, key |-> 0]
Image(kind, slot, names, right) == [kind |-> kind, slot |-> slot, names |-> names, right |-> right]
Blank == Image("blank", NoSlot, {}, {})
Foreign == Image("foreign", NoSlot, {}, {})

\* A power cut leaves every entry of the mounted disk as it was at the last flush or
\* as the file system last wrote it: the cache writes sectors back in no order.
Torn(d) ==
    IF d # root \/ ~mounted THEN {disks[d]}
    ELSE {[seen EXCEPT !.names = (seen.names \ keep) \cup (disks[d].names \cap keep),
                       !.right = (seen.right \ keep) \cup (disks[d].right \cap keep)]
            : keep \in SUBSET Names}

\* format_disk: a superblock with a zeroed key slot over an empty directory, flushed.
format_disk == Image("ours", NoSlot, {}, {})

\* Whether init_fs lays a new file system down, and whether it ends mounted.  A read
\* that fails "early" (sector 0, the superblock, the blank check) stops it before it
\* writes; one that fails "late" is one of the directory or allocation table, after.
Formats(d, f) == d # 0 /\ f # "early" /\ disks[d].kind = "blank"
Mounts(d, f) == d # 0 /\ f = "none" /\ disks[d].kind # "foreign"

init_fs(d, f) ==
    /\ root' = d
    /\ disks' = IF Formats(d, f) THEN [disks EXCEPT ![d] = format_disk] ELSE disks
    /\ formatted' = (formatted \/ Formats(d, f))
    /\ mounted' = Mounts(d, f)
    /\ seen' = IF Mounts(d, f) THEN disks'[d] ELSE Blank

bcache_flush == IF mounted THEN [disks EXCEPT ![root] = seen] ELSE disks

\* Nothing in memory outlives a boot.
Memory == <<root, mounted, seen, formatted, master, level, tries, booted, open>>
LoseMemory ==
    /\ root' = 0 /\ mounted' = FALSE /\ seen' = Blank
    /\ formatted' = FALSE
    /\ master' = 0 /\ level' = CRYPTO_ENFORCED
    /\ tries' = 0 /\ booted' = 0 /\ open' = FALSE

-----------------------------------------------------------------------------
\* The boot path.

\* kernel_main, up to the drivers: the first device registered is the root.
PowerOn ==
    /\ phase = "off" /\ boots < MaxBoots
    /\ boots' = boots + 1
    /\ root' = 1
    /\ phase' = "mount"
    /\ UNCHANGED <<disks, mounted, seen, formatted, master, level, tries, booted, open,
                   keys>>

MountRoot(f) ==
    /\ phase = "mount"
    /\ init_fs(root, f)
    /\ phase' = CASE Mounts(root, f) -> "unlock"
                  [] ~Mounts(root, f) /\ NumDevs > 1 -> "fallback"
                  [] OTHER -> "halted"
    /\ tries' = 2
    /\ UNCHANGED <<master, level, booted, open, keys, boots>>

\* The other devices get a turn, in order; when none mounts the first is put back.
\* With no file system there is no init.elf to run and the machine idles.
TryOther(f) ==
    /\ phase = "fallback"
    /\ LET cand == tries IN
        IF Mounts(cand, f) \/ cand < NumDevs
        THEN /\ init_fs(cand, f)
             /\ phase' = IF Mounts(cand, f) THEN "unlock" ELSE "fallback"
        ELSE /\ root' = 1 /\ phase' = "halted"
             /\ disks' = IF Formats(cand, f) THEN [disks EXCEPT ![cand] = format_disk] ELSE disks
             /\ formatted' = (formatted \/ Formats(cand, f))
             /\ UNCHANGED <<mounted, seen>>
    /\ tries' = tries + 1
    /\ UNCHANGED <<master, level, booted, open, keys, boots>>

\* unlock_disk_key: a disk made by this boot gets a slot, one with a slot is opened,
\* one with neither is refused.
UnlockChoice ==
    IF formatted THEN "new" ELSE IF seen.slot # NoSlot THEN "existing" ELSE "halted"

unlock_disk_key ==
    /\ phase = "unlock"
    /\ phase' = UnlockChoice
    /\ tries' = 0 /\ booted' = root
    /\ UNCHANGED <<disks, root, mounted, seen, formatted, master, level, open, keys,
                   boots>>

\* keyslot_create: an empty passphrase is refused before the slot is touched.
keyslot_create(p, k) == [pass |-> p, key |-> k]

\* fs_keyslot_install: a new data key, wrapped, in the superblock, flushed, installed.
fs_keyslot_install(p) ==
    LET s == [seen EXCEPT !.slot = keyslot_create(p, keys + 1)] IN
    /\ keys' = keys + 1
    /\ seen' = s
    /\ disks' = [disks EXCEPT ![root] = s]
    /\ master' = keys + 1

GiveUp == IF tries + 1 = Attempts THEN "halted" ELSE phase

prompt_new_disk_passphrase(p, q) ==
    /\ phase = "new"
    /\ tries' = tries + 1
    /\ IF p = q /\ p # Empty
       THEN fs_keyslot_install(p) /\ phase' = "hierarchy"
       ELSE phase' = GiveUp /\ UNCHANGED <<disks, seen, master, keys>>
    /\ UNCHANGED <<root, mounted, formatted, level, booted, open, boots>>

\* keyslot_unwrap: the passphrase is right when the tag it gives is the slot's.
keyslot_unwrap(p) ==
    CASE p = Empty -> "INVAL" [] p = seen.slot.pass -> "OK" [] OTHER -> "ACCES"

fs_keyslot_unlock(p) == IF keyslot_unwrap(p) = "OK" THEN seen.slot.key ELSE master

\* An empty passphrase is refused with the code that stops the machine.
prompt_existing_disk_passphrase(p) ==
    /\ phase = "existing"
    /\ tries' = tries + 1
    /\ master' = fs_keyslot_unlock(p)
    /\ phase' = CASE keyslot_unwrap(p) = "OK" -> "hierarchy"
                  [] keyslot_unwrap(p) = "INVAL" -> "halted"
                  [] keyslot_unwrap(p) = "ACCES" -> GiveUp
    /\ UNCHANGED <<disks, root, mounted, seen, formatted, level, booted, open, keys,
                   boots>>

\* The directories are made, and accounts asked for, only on a disk without /bin.
Hierarchy ==
    /\ phase = "hierarchy"
    /\ IF "bin" \in seen.names
       THEN phase' = "images" /\ UNCHANGED seen
       ELSE /\ seen' = [seen EXCEPT !.names = @ \cup {"bin"}, !.right = @ \cup {"bin"}]
            /\ phase' = IF "setup_complete" \in seen.names THEN "images" ELSE "root"
    /\ tries' = 0
    /\ UNCHANGED <<disks, root, mounted, formatted, master, level, booted, open, keys,
                   boots>>

\* first_boot_setup: each of the two accounts gets three attempts; the files are
\* written once both have a password.
first_boot_setup(ok) ==
    /\ phase \in {"root", "esduman"}
    /\ tries' = IF ok THEN 0 ELSE tries + 1
    /\ phase' = CASE ~ok -> GiveUp
                  [] ok /\ phase = "root" -> "esduman"
                  [] ok /\ phase = "esduman" -> "images"
    /\ seen' = IF ok /\ phase = "esduman"
               THEN [seen EXCEPT !.names = @ \cup {"setup_complete"}] ELSE seen
    /\ UNCHANGED <<disks, root, mounted, formatted, master, level, booted, open, keys,
                   boots>>

\* /tmp is emptied, then the embedded programs are written if init.elf is absent; a
\* file is created with the default mode, which lets nobody execute it.
CleanTmp(s) == [s EXCEPT !.names = @ \ {"tmpfile"}]

InstallImages(s) == [s EXCEPT !.names = @ \cup {"init.elf"}]

\* apply_system_modes: whatever is there gets the mode it must have.
apply_system_modes(s) == [s EXCEPT !.right = s.names \cap SysNames]

\* Mutant: the modes are set before the files are there.
FinishModesFirst(s) == InstallImages(apply_system_modes(CleanTmp(s)))

FinishFileSystem(s) == apply_system_modes(InstallImages(CleanTmp(s)))

init_filesystem_and_vfs ==
    /\ phase = "images"
    /\ seen' = FinishFileSystem(seen)
    /\ phase' = "userspace"
    /\ UNCHANGED <<disks, root, mounted, formatted, master, level, tries, booted, open,
                   keys, boots>>

init_userspace ==
    /\ phase = "userspace"
    /\ phase' = "ready"
    /\ UNCHANGED <<disks, keys, boots>> /\ UNCHANGED Memory

-----------------------------------------------------------------------------
\* The running system.  Every call below is root's; others are refused.

\* Programs open and close files, chmod system paths and leave files in /tmp.
SetOpen(o) ==
    /\ phase = "ready" /\ open # o
    /\ o => mounted
    /\ open' = o
    /\ UNCHANGED <<disks, root, mounted, seen, formatted, master, level, phase, tries,
                   booted, keys, boots>>

Change(names, right) ==
    /\ phase = "ready" /\ mounted /\ level < IMMUTABLE
    /\ seen' = [seen EXCEPT !.names = names, !.right = right]
    /\ UNCHANGED <<disks, root, mounted, formatted, master, level, phase, tries,
                   booted, open, keys, boots>>

UseFiles ==
    \/ Change(seen.names \cup {"tmpfile"}, seen.right)
    \/ \E n \in seen.names \cap SysNames : Change(seen.names, seen.right \ {n})

\* sys_mount: what the old disk is owed reaches it first; a disk that does not mount
\* is given up for the one that was in use.
sys_mount(d, f, g) ==
    /\ phase = "ready" /\ d # root /\ ~open
    /\ LET now == bcache_flush
           formats == f # "early" /\ now[d].kind = "blank"
           moves == f = "none" /\ now[d].kind # "foreign"
           left == IF formats THEN [now EXCEPT ![d] = format_disk] ELSE now
           back == root # 0 /\ g = "none"
       IN /\ disks' = left
          /\ formatted' = (formatted \/ formats)
          /\ root' = IF moves THEN d ELSE root
          /\ mounted' = (moves \/ back)
          /\ seen' = CASE moves -> left[d] [] ~moves /\ back -> left[root] [] OTHER -> Blank
    /\ UNCHANGED <<master, level, phase, tries, booted, open, keys, boots>>

sys_umount ==
    /\ phase = "ready" /\ root # 0 /\ ~open
    /\ disks' = bcache_flush
    /\ root' = 0 /\ mounted' = FALSE /\ seen' = Blank
    /\ UNCHANGED <<formatted, master, level, phase, tries, booted, open, keys, boots>>

\* Mutant: changing the passphrase makes a new data key.
RewrapFreshKey(q) == [seen EXCEPT !.slot = keyslot_create(q, keys)]

\* fs_keyslot_rewrap: the slot moves to another passphrase around the same data key.
fs_keyslot_rewrap(q) == [seen EXCEPT !.slot = keyslot_create(q, @.key)]

sys_setkey(p, q) ==
    /\ phase = "ready" /\ mounted /\ level < IMMUTABLE
    /\ seen.slot # NoSlot /\ keyslot_unwrap(p) = "OK" /\ q # Empty
    /\ seen' = fs_keyslot_rewrap(q)
    /\ disks' = [disks EXCEPT ![root] = seen']
    /\ UNCHANGED <<root, mounted, formatted, master, level, phase, tries, booted, open,
                   keys, boots>>

\* set_security_level: never down; lockdown destroys the key in memory.
set_security_level(l) ==
    /\ phase = "ready" /\ l >= level
    /\ level' = l
    /\ master' = IF l = LOCKDOWN THEN 0 ELSE master
    /\ UNCHANGED <<disks, root, mounted, seen, formatted, phase, tries, booted, open,
                   keys, boots>>

sys_lockdown == level < LOCKDOWN /\ set_security_level(LOCKDOWN)

sys_sync ==
    /\ phase = "ready"
    /\ disks' = bcache_flush
    /\ UNCHANGED <<phase, keys, boots>> /\ UNCHANGED Memory

\* sys_reboot and sys_halt flush before they stop the machine.
Shutdown ==
    /\ phase = "ready"
    /\ disks' = bcache_flush
    /\ phase' = "off" /\ LoseMemory
    /\ UNCHANGED <<keys, boots>>

\* The power is cut, or the reset button pressed, at any moment.
PowerCut ==
    /\ phase # "off"
    /\ \E t \in IF root = 0 THEN {Blank} ELSE Torn(root) :
         disks' = IF root = 0 THEN disks ELSE [disks EXCEPT ![root] = t]
    /\ phase' = "off" /\ LoseMemory
    /\ UNCHANGED <<keys, boots>>

\* ... in the middle of a format: only some of its sectors are on the platter, which
\* is a disk that no later boot recognises.
PowerCutWhileFormatting(d) ==
    /\ phase \in {"mount", "fallback"}
    /\ d = (IF phase = "mount" THEN root ELSE tries)
    /\ disks[d].kind = "blank"
    /\ disks' = [disks EXCEPT ![d] = Foreign]
    /\ phase' = "off" /\ LoseMemory
    /\ UNCHANGED <<keys, boots>>

-----------------------------------------------------------------------------

\* A disk is blank, somebody else's, or one this system set up and used before.
Disks ==
    {Blank, Foreign} \cup {Image("ours", keyslot_create(p, 1), SysNames, SysNames) : p \in Passes}

BootInit ==
    /\ disks \in [Devs -> Disks]
    /\ root = 0 /\ mounted = FALSE /\ seen = Blank
    /\ formatted = FALSE
    /\ master = 0 /\ level = CRYPTO_ENFORCED
    /\ tries = 0 /\ booted = 0 /\ open = FALSE
    /\ phase = "off"
    /\ keys = 1 /\ boots = 0

Starting ==
    \/ PowerOn
    \/ \E f \in Faults : MountRoot(f) \/ TryOther(f)
    \/ unlock_disk_key
    \/ \E p, q \in Passes \cup {Empty} : prompt_new_disk_passphrase(p, q)
    \/ \E p \in Passes \cup {Empty} : prompt_existing_disk_passphrase(p)
    \/ Hierarchy
    \/ \E ok \in BOOLEAN : first_boot_setup(ok)
    \/ init_filesystem_and_vfs
    \/ init_userspace

Running ==
    \/ \E o \in BOOLEAN : SetOpen(o)
    \/ UseFiles
    \/ \E d \in Devs, f, g \in Faults : sys_mount(d, f, g)
    \/ sys_umount
    \/ \E p, q \in Passes \cup {Empty} : sys_setkey(p, q)
    \/ \E l \in CRYPTO_ENFORCED..IMMUTABLE : set_security_level(l)
    \/ sys_lockdown
    \/ sys_sync
    \/ Shutdown

BootNext ==
    \/ Starting
    \/ Running
    \/ PowerCut
    \/ \E d \in Devs : PowerCutWhileFormatting(d)

BootSpec == BootInit /\ [][BootNext]_bootVars

-----------------------------------------------------------------------------

\* A disk's data key outlives everything done to the disk: no boot, mount, change of
\* passphrase or power cut leaves a slot that wraps another key than the one the
\* disk's files are under (fs_keyslot_install, fs_keyslot_rewrap, unlock_disk_key).
DataKeyIsNeverReplaced ==
    [][\A d \in Devs : disks[d].slot # NoSlot => disks'[d].slot.key = disks[d].slot.key]_bootVars

\* Whatever was mounted, unmounted or rekeyed meanwhile, while the disk the system was
\* started from is the root, the key in memory is the one its slot wraps: what is
\* written there now can be read after the next boot (unlock_disk_key, sys_mount).
BootDiskOpensWithTheRunningKey ==
    phase \in {"userspace", "ready"} /\ root = booted /\ mounted /\ master # 0
        => seen.slot.key = master

\* When the first program starts, every system path has the mode it must have and
\* /tmp is empty, whatever earlier boots, power cuts or chmods left
\* (init_filesystem_and_vfs, apply_system_modes).
SystemIsInOrderBeforeUsers ==
    phase = "userspace" => seen.names \subseteq seen.right

=============================================================================
