---------------------------- MODULE ConfigStore ----------------------------
(***************************************************************************)
(* save_config: the replacement of the settings file by several processes  *)
(* (daemon, CLI, GUI) on a file system that may lose what was not synced.  *)
(*                                                                         *)
(* Every save writes one inode, so an inode is named by the number of its  *)
(* save.  Number 0 is a config that was there before.                      *)
(***************************************************************************)
EXTENDS Naturals, Sequences, FiniteSets

CONSTANTS
  Procs,      \* process ids that save; an id is used again after a crash
  Faults,     \* the calls that may fail
  MaxSaves,   \* bound: saves
  MaxFails,   \* bound: failed calls
  MaxKills,   \* bound: processes killed inside a save
  MaxLosses   \* bound: power losses

ASSUME StoreAssumption ==
  /\ MaxSaves \in Nat /\ MaxFails \in Nat /\ MaxKills \in Nat /\ MaxLosses \in Nat
  /\ Faults \subseteq {"create", "write", "fsync", "link", "bak", "rename", "dirsync"}

Inodes == 0..MaxSaves
NoFile == MaxSaves + 1

\* The directory entries: the config, its backup, and the names with the
\* process id in them.
Live == <<"live">>
Bak == <<"bak">>
Tmp(p) == <<"tmp", p>>
BakTmp(p) == <<"baktmp", p>>
Names == {Live, Bak} \cup {Tmp(p) : p \in Procs} \cup {BakTmp(p) : p \in Procs}

Phases == {"idle", "create", "write", "fsync", "link", "bak", "rename", "dirsync"}

VARIABLES
  dir,      \* the directory as processes see it
  journal,  \* the directory on disk, and every state it went through since
  data,     \* an inode's content: "torn", "whole" in the cache, "synced"
  pc,       \* the phase of a process's save
  ino,      \* the inode it writes
  saves,    \* saves begun
  spent,    \* how much of each bound is used up
  commits,  \* history: the inodes that became the config, in order
  floor,    \* history: how many of them the disk has to have
  orderly   \* history: no two saves overlapped and every backup was made

vars == <<dir, journal, data, pc, ino, saves, spent, commits, floor, orderly>>

Init ==
  /\ \E first \in {0, NoFile} :
       /\ dir = [n \in Names |-> IF n = Live THEN first ELSE NoFile]
       /\ commits = IF first = 0 THEN <<0>> ELSE <<>>
       /\ floor = IF first = 0 THEN 1 ELSE 0
  /\ journal = <<dir>>
  /\ data = [i \in Inodes |-> IF i = 0 THEN "synced" ELSE "torn"]
  /\ pc = [p \in Procs |-> "idle"]
  /\ ino = [p \in Procs |-> 0]
  /\ saves = 0
  /\ spent = [fail |-> 0, kill |-> 0, loss |-> 0]
  /\ orderly = TRUE

\* A change of the directory, in the cache and in the journal.
Change(d) == dir' = d /\ journal' = Append(journal, d)

Goto(p, phase) == pc' = [pc EXCEPT ![p] = phase]

Spend(what, max) ==
  /\ spent[what] < max
  /\ spent' = [spent EXCEPT ![what] = @ + 1]

-----------------------------------------------------------------------------
(* save_config *)

Begin(p) ==
  /\ pc[p] = "idle" /\ saves < MaxSaves
  /\ saves' = saves + 1
  /\ ino' = [ino EXCEPT ![p] = saves + 1]
  /\ Goto(p, "create")
  /\ orderly' = (orderly /\ \A q \in Procs : pc[q] = "idle")
  /\ UNCHANGED <<dir, journal, data, spent, commits, floor>>

\* EEXIST: a save of this process id was cut off and left its file.
UnlinkStale(p) ==
  /\ pc[p] = "create" /\ dir[Tmp(p)] # NoFile
  /\ Change([dir EXCEPT ![Tmp(p)] = NoFile])
  /\ UNCHANGED <<data, pc, ino, saves, spent, commits, floor, orderly>>

\* The O_EXCL open.
Create(p) ==
  /\ pc[p] = "create" /\ dir[Tmp(p)] = NoFile
  /\ Change([dir EXCEPT ![Tmp(p)] = ino[p]])
  /\ Goto(p, "write")
  /\ UNCHANGED <<data, ino, saves, spent, commits, floor, orderly>>

\* Fault: the new file goes into place before it is synced (BUG-13).
WriteUnsynced(p) ==
  /\ pc[p] = "write"
  /\ data' = [data EXCEPT ![ino[p]] = "whole"]
  /\ Goto(p, "link")
  /\ UNCHANGED <<dir, journal, ino, saves, spent, commits, floor, orderly>>

Write(p) ==
  /\ pc[p] = "write"
  /\ data' = [data EXCEPT ![ino[p]] = "whole"]
  /\ Goto(p, "fsync")
  /\ UNCHANGED <<dir, journal, ino, saves, spent, commits, floor, orderly>>

Fsync(p) ==
  /\ pc[p] = "fsync"
  /\ data' = [data EXCEPT ![ino[p]] = "synced"]
  /\ Goto(p, "link")
  /\ UNCHANGED <<dir, journal, ino, saves, spent, commits, floor, orderly>>

\* No config yet, so nothing to back up.
SkipBackup(p) ==
  /\ pc[p] = "link" /\ dir[Live] = NoFile
  /\ Goto(p, "rename")
  /\ UNCHANGED <<dir, journal, data, ino, saves, spent, commits, floor, orderly>>

\* file_exists: a stale private link of this process id is removed.
UnlinkStaleBak(p) ==
  /\ pc[p] = "link" /\ dir[Live] # NoFile /\ dir[BakTmp(p)] # NoFile
  /\ Change([dir EXCEPT ![BakTmp(p)] = NoFile])
  /\ UNCHANGED <<data, pc, ino, saves, spent, commits, floor, orderly>>

\* The hard link to the present config.
Link(p) ==
  /\ pc[p] = "link" /\ dir[Live] # NoFile /\ dir[BakTmp(p)] = NoFile
  /\ Change([dir EXCEPT ![BakTmp(p)] = dir[Live]])
  /\ Goto(p, "bak")
  /\ UNCHANGED <<data, ino, saves, spent, commits, floor, orderly>>

\* Fault: a backup that is there stays.
RenameBakKeeps(p) ==
  /\ pc[p] = "bak"
  /\ Change([dir EXCEPT ![Bak] = IF @ = NoFile THEN dir[BakTmp(p)] ELSE @,
                        ![BakTmp(p)] = NoFile])
  /\ Goto(p, "rename")
  /\ UNCHANGED <<data, ino, saves, spent, commits, floor, orderly>>

\* The rename over the backup.  rename(2) of two links to one inode does
\* nothing and succeeds.
RenameBak(p) ==
  /\ pc[p] = "bak"
  /\ IF dir[Bak] = dir[BakTmp(p)]
       THEN UNCHANGED <<dir, journal>>
       ELSE Change([dir EXCEPT ![Bak] = dir[BakTmp(p)], ![BakTmp(p)] = NoFile])
  /\ Goto(p, "rename")
  /\ UNCHANGED <<data, ino, saves, spent, commits, floor, orderly>>

\* The rename over the config.
Rename(p) ==
  /\ pc[p] = "rename"
  /\ Change([dir EXCEPT ![Live] = dir[Tmp(p)], ![Tmp(p)] = NoFile])
  /\ commits' = Append(commits, dir[Tmp(p)])
  /\ Goto(p, "dirsync")
  /\ UNCHANGED <<data, ino, saves, spent, floor, orderly>>

\* The fsync of the directory; the save returns.
DirSync(p) ==
  /\ pc[p] = "dirsync"
  /\ journal' = <<dir>>
  /\ floor' = Len(commits)
  /\ Goto(p, "idle")
  /\ UNCHANGED <<dir, data, ino, saves, spent, commits, orderly>>

-----------------------------------------------------------------------------
(* Calls that fail *)

CallFails(p, call) ==
  /\ call \in Faults /\ pc[p] = call
  /\ Spend("fail", MaxFails)

\* The save throws, and takes its temporary file away.
Throws(p) ==
  /\ \E call \in {"create", "write", "fsync", "rename"} : CallFails(p, call)
  /\ Change([dir EXCEPT ![Tmp(p)] = NoFile])
  /\ Goto(p, "idle")
  /\ UNCHANGED <<data, ino, saves, commits, floor, orderly>>

\* The backup is best-effort: no link, or a link that could not be renamed.
BackupFails(p) ==
  /\ \E call \in {"link", "bak"} : CallFails(p, call)
  /\ dir[Live] # NoFile
  /\ Change([dir EXCEPT ![BakTmp(p)] = IF pc[p] = "bak" THEN NoFile ELSE @])
  /\ Goto(p, "rename")
  /\ orderly' = FALSE
  /\ UNCHANGED <<data, ino, saves, commits, floor>>

\* The directory sync is best-effort: the save returns without it.
DirSyncFails(p) ==
  /\ CallFails(p, "dirsync")
  /\ Goto(p, "idle")
  /\ UNCHANGED <<dir, journal, data, ino, saves, commits, floor, orderly>>

-----------------------------------------------------------------------------
(* The environment *)

Kill(p) ==
  /\ pc[p] # "idle"
  /\ Spend("kill", MaxKills)
  /\ Goto(p, "idle")
  /\ UNCHANGED <<dir, journal, data, ino, saves, commits, floor, orderly>>

PositionOf(i) ==
  IF i = NoFile THEN 0 ELSE CHOOSE k \in DOMAIN commits : commits[k] = i

\* The directory comes back in one of its states since the last sync, and an
\* inode that was not synced may have lost any of its content.
PowerLoss ==
  /\ Spend("loss", MaxLosses)
  /\ \E k \in DOMAIN journal, lost \in SUBSET {i \in Inodes : data[i] = "whole"} :
       /\ dir' = journal[k]
       /\ journal' = <<journal[k]>>
       /\ data' = [i \in Inodes |-> IF i \in lost THEN "torn" ELSE data[i]]
       /\ commits' = SubSeq(commits, 1, PositionOf(journal[k][Live]))
  /\ pc' = [p \in Procs |-> "idle"]
  /\ UNCHANGED <<ino, saves, floor, orderly>>

Next ==
  \/ \E p \in Procs :
       \/ Begin(p) \/ UnlinkStale(p) \/ Create(p) \/ Write(p) \/ Fsync(p)
       \/ SkipBackup(p) \/ UnlinkStaleBak(p) \/ Link(p) \/ RenameBak(p)
       \/ Rename(p) \/ DirSync(p)
       \/ Throws(p) \/ BackupFails(p) \/ DirSyncFails(p) \/ Kill(p)
  \/ PowerLoss

Spec == Init /\ [][Next]_vars

-----------------------------------------------------------------------------
(* Properties *)

\* Every variable has its type.
TypeOK ==
  /\ dir \in [Names -> Inodes \cup {NoFile}]
  /\ journal \in Seq([Names -> Inodes \cup {NoFile}]) /\ journal # <<>>
  /\ data \in [Inodes -> {"torn", "whole", "synced"}]
  /\ pc \in [Procs -> Phases] /\ ino \in [Procs -> Inodes]
  /\ saves \in Inodes
  /\ commits \in Seq(Inodes) /\ floor \in Nat /\ orderly \in BOOLEAN

\* BUG-13 and the comment on the backup: a reader of the config always finds a
\* whole one, during a save, after a kill and after a power loss, from the first
\* save that took effect on.
LiveIsWhole ==
  /\ dir[Live] = NoFile => commits = <<>>
  /\ dir[Live] # NoFile => data[dir[Live]] # "torn"

\* BUG-13: a save that returned survives a power loss; only a later save may
\* have taken its place.
ReturnedIsDurable == Len(commits) >= floor

\* What a reader finds is whole, and what a save reported stays.
LiveIsSound == TypeOK /\ LiveIsWhole /\ ReturnedIsDurable

\* The backup, once it is there, is a whole config that was the config before.
BackupIsWhole ==
  dir[Bak] # NoFile =>
    /\ data[dir[Bak]] # "torn"
    /\ \E k \in DOMAIN commits : commits[k] = dir[Bak]

\* "Preserve one generation of config history": as long as saves do not overlap
\* and the links work, the backup is the config or the one that it replaced,
\* also after saves that failed or were cut off; in any case it is a whole one.
BackupIsPrevious ==
  /\ BackupIsWhole
  /\ orderly /\ dir[Bak] # NoFile =>
       \E k \in DOMAIN commits : k >= Len(commits) - 1 /\ commits[k] = dir[Bak]
=============================================================================
