-------------------------- MODULE ConfigFileProofs --------------------------
(***************************************************************************)
(* Proofs about the settings file.  First how one save reaches the disk    *)
(* (ConfigStore), for any number of processes, saves, failed calls, kills  *)
(* and power losses: what a reader finds is a whole config, a save that    *)
(* returned survives, and the backup is a whole config that the live one   *)
(* replaced.  Then what is saved (ConfigEdit), for any number of runs of   *)
(* the command line, any files, commands and inputs of the window: what is *)
(* in the file loads and is consistent, the window shows its profile and   *)
(* writes over nobody, and nothing is clamped in silence.                  *)
(***************************************************************************)
EXTENDS ConfigStore, ConfigEdit, SequenceTheorems, FiniteSetTheorems, WellFoundedInduction, TLAPS

-----------------------------------------------------------------------------
(* One save: the inductive invariant *)

\* The phases in which the temporary name holds the file of this save.
HasTmp == {"write", "fsync", "link", "bak", "rename"}

\* The phases before the rename over the config.
Pending == {"create"} \cup HasTmp

\* A temporary name in use holds the file of its save, synced from the backup
\* step on.
TmpIsOwn ==
  \A p \in Procs :
    /\ pc[p] \in HasTmp => dir[Tmp(p)] = ino[p]
    /\ pc[p] \in {"link", "bak", "rename"} => data[ino[p]] = "synced"

\* No two saves write one inode, and none writes an inode that was the config.
InodesApart ==
  /\ \A p \in Procs : ino[p] <= saves
  /\ \A p \in Procs : pc[p] \in Pending =>
       /\ \A q \in Procs : q # p /\ pc[q] \in Pending => ino[q] # ino[p]
       /\ \A k \in DOMAIN commits : commits[k] # ino[p]

\* The inodes that were the config are synced and different.
CommitsSound ==
  /\ \A k \in DOMAIN commits : commits[k] <= saves /\ data[commits[k]] = "synced"
  /\ \A j, k \in DOMAIN commits : commits[j] = commits[k] => j = k

\* A directory whose config is the k-th of a history c: the backup is not a later
\* one, and if the history is orderly, it is that one or the one before.
BackupAt(d, k, c, tidy) ==
  d[Bak] # NoFile =>
    \E b \in 1..k : c[b] = d[Bak] /\ (tidy => b >= k - 1)

\* A directory that the disk may come back with holds a config that is not
\* older than the last save that returned.
Recoverable(d, c, least, tidy) ==
  \/ d[Live] = NoFile /\ d[Bak] = NoFile /\ least = 0
  \/ \E k \in DOMAIN c : d[Live] = c[k] /\ k >= least /\ BackupAt(d, k, c, tidy)

JournalSound ==
  \A j \in DOMAIN journal : Recoverable(journal[j], commits, floor, orderly)

\* The config is the last inode that became it.
DirSound ==
  \/ dir[Live] = NoFile /\ dir[Bak] = NoFile /\ floor = 0 /\ commits = <<>>
  \/ /\ commits # <<>> /\ dir[Live] = commits[Len(commits)]
     /\ Len(commits) >= floor /\ BackupAt(dir, Len(commits), commits, orderly)

\* A private link that is about to become the backup was the config, and in an
\* orderly history still is; then the backup is the config when it is replaced.
BackupInHand ==
  \A p \in Procs :
    /\ pc[p] = "bak" =>
         /\ \E k \in DOMAIN commits : commits[k] = dir[BakTmp(p)]
         /\ orderly => dir[BakTmp(p)] = dir[Live]
    /\ pc[p] = "rename" /\ orderly /\ dir[Bak] # NoFile => dir[Bak] = dir[Live]

\* In an orderly history one save is under way at a time.
OneAtATime ==
  orderly => \A p, q \in Procs : pc[p] # "idle" /\ pc[q] # "idle" => p = q

StoreInv ==
  /\ TypeOK /\ TmpIsOwn /\ InodesApart /\ CommitsSound
  /\ JournalSound /\ DirSound /\ BackupInHand /\ OneAtATime

-----------------------------------------------------------------------------
(* Names and directories *)

Dirs == [Names -> Inodes \cup {NoFile}]

\* The four kinds of names are different, and the names of two processes too.
LEMMA NameFacts ==
  /\ Live \in Names /\ Bak \in Names /\ Live # Bak
  /\ \A p \in Procs :
       /\ Tmp(p) \in Names /\ BakTmp(p) \in Names /\ Tmp(p) # BakTmp(p)
       /\ Tmp(p) # Live /\ Tmp(p) # Bak /\ BakTmp(p) # Live /\ BakTmp(p) # Bak
  /\ \A p, q \in Procs :
       /\ Tmp(p) # BakTmp(q)
       /\ p # q => Tmp(p) # Tmp(q) /\ BakTmp(p) # BakTmp(q)
BY DEF Live, Bak, Tmp, BakTmp, Names

\* An inode number is never the mark of an absent file.
LEMMA AbsentApart ==
  /\ MaxSaves \in Nat /\ NoFile \notin Inodes
  /\ \A i \in Inodes : i \in Nat /\ i # NoFile
  /\ \A i \in Nat : i < MaxSaves => i + 1 \in Inodes
BY StoreAssumption DEF NoFile, Inodes

\* The directory as processes see it is one that the disk may come back with.
LEMMA DirIsRecoverable ==
  ASSUME TypeOK, DirSound
  PROVE  Recoverable(dir, commits, floor, orderly)
BY DEF TypeOK, DirSound, Recoverable

\* A history that is no longer orderly asks for less.
LEMMA RecoverableKept ==
  ASSUME NEW c, NEW f, NEW o, NEW n, n => o
  PROVE  \A d : Recoverable(d, c, f, o) => Recoverable(d, c, f, n)
BY DEF Recoverable, BackupAt

\* The journal stays sound when a sound directory is added to it.
LEMMA JournalGrows ==
  ASSUME StoreInv, NEW d \in Dirs, Change(d),
         \A j \in DOMAIN journal : Recoverable(journal[j], commits', floor', orderly'),
         Recoverable(d, commits', floor', orderly')
  PROVE  JournalSound'
<1>1. journal \in Seq(Dirs) /\ journal' = Append(journal, d)
  BY DEF StoreInv, TypeOK, Change, Dirs
<1>2. SUFFICES ASSUME NEW j \in DOMAIN journal'
               PROVE  Recoverable(journal'[j], commits', floor', orderly')
  BY DEF JournalSound
<1>3. \/ j \in DOMAIN journal /\ journal'[j] = journal[j]
      \/ journal'[j] = d
  BY <1>1
<1>. QED
  BY <1>3

\* A change of the directory that leaves the config and its backup alone.
LEMMA OtherNameChanged ==
  ASSUME StoreInv, NEW d \in Dirs, Change(d),
         d[Live] = dir[Live], d[Bak] = dir[Bak],
         UNCHANGED <<commits, floor>>, orderly' => orderly
  PROVE  JournalSound' /\ DirSound'
<1>1. DirSound'
  BY DEF StoreInv, DirSound, BackupAt, Change
<1>2. Recoverable(d, commits, floor, orderly)
  BY DirIsRecoverable DEF StoreInv, Recoverable, BackupAt
<1>3. JournalSound'
  BY <1>2, JournalGrows, RecoverableKept DEF StoreInv, JournalSound
<1>. QED
  BY <1>1, <1>3

\* A step that does not touch the directory.
LEMMA NoNameChanged ==
  ASSUME StoreInv, UNCHANGED <<dir, journal, commits, floor>>, orderly' => orderly
  PROVE  JournalSound' /\ DirSound'
<1>1. DirSound'
  BY DEF StoreInv, DirSound, BackupAt
<1>2. JournalSound'
  BY RecoverableKept DEF StoreInv, JournalSound
<1>. QED
  BY <1>1, <1>2

-----------------------------------------------------------------------------
(* The steps *)

\* A save begins: it takes an inode that no other save has.
LEMMA BeginKeeps ==
  ASSUME StoreInv, NEW p \in Procs, Begin(p)
  PROVE  StoreInv'
<1>1. TypeOK'
  BY AbsentApart DEF StoreInv, TypeOK, Begin, Goto, Phases, Inodes
<1>2. TmpIsOwn'
  BY DEF StoreInv, TypeOK, TmpIsOwn, Begin, Goto, HasTmp
<1>3. InodesApart'
  BY AbsentApart DEF StoreInv, TypeOK, InodesApart, CommitsSound, Begin, Goto, Pending, HasTmp
<1>4. CommitsSound'
  BY AbsentApart DEF StoreInv, TypeOK, CommitsSound, Begin
<1>5. JournalSound' /\ DirSound'
  BY NoNameChanged DEF Begin
<1>6. BackupInHand'
  BY DEF StoreInv, TypeOK, BackupInHand, Begin, Goto
<1>7. OneAtATime'
  BY DEF StoreInv, TypeOK, OneAtATime, Begin, Goto
<1>. QED
  BY <1>1, <1>2, <1>3, <1>4, <1>5, <1>6, <1>7 DEF StoreInv

\* The stale temporary name goes; no save under way counts on it.
LEMMA UnlinkStaleKeeps ==
  ASSUME StoreInv, NEW p \in Procs, UnlinkStale(p)
  PROVE  StoreInv'
<1>. DEFINE d == [dir EXCEPT ![Tmp(p)] = NoFile]
<1>0. d \in Dirs /\ Change(d) /\ d[Live] = dir[Live] /\ d[Bak] = dir[Bak]
  BY NameFacts DEF StoreInv, TypeOK, UnlinkStale, Dirs
<1>1. TypeOK'
  BY <1>0 DEF StoreInv, TypeOK, UnlinkStale, Change, Dirs
<1>2. TmpIsOwn'
  BY NameFacts DEF StoreInv, TypeOK, TmpIsOwn, UnlinkStale, Change, HasTmp
<1>3. InodesApart' /\ CommitsSound' /\ OneAtATime'
  BY DEF StoreInv, InodesApart, CommitsSound, OneAtATime, UnlinkStale
<1>4. JournalSound' /\ DirSound'
  BY <1>0, OtherNameChanged DEF UnlinkStale
<1>5. BackupInHand'
  BY NameFacts DEF StoreInv, TypeOK, BackupInHand, UnlinkStale, Change
<1>. QED
  BY <1>1, <1>2, <1>3, <1>4, <1>5 DEF StoreInv

\* From the O_EXCL open on the temporary name holds the inode of the save.
LEMMA CreateKeeps ==
  ASSUME StoreInv, NEW p \in Procs, Create(p)
  PROVE  StoreInv'
<1>. DEFINE d == [dir EXCEPT ![Tmp(p)] = ino[p]]
<1>0. d \in Dirs /\ Change(d) /\ d[Live] = dir[Live] /\ d[Bak] = dir[Bak]
  BY NameFacts DEF StoreInv, TypeOK, Create, Dirs
<1>1. TypeOK'
  BY <1>0 DEF StoreInv, TypeOK, Create, Change, Goto, Dirs, Phases
<1>2. TmpIsOwn'
  BY NameFacts DEF StoreInv, TypeOK, TmpIsOwn, Create, Change, Goto, HasTmp
<1>3. InodesApart' /\ CommitsSound' /\ OneAtATime'
  BY DEF StoreInv, TypeOK, InodesApart, CommitsSound, OneAtATime, Create, Goto, Pending, HasTmp
<1>4. JournalSound' /\ DirSound'
  BY <1>0, OtherNameChanged DEF Create
<1>5. BackupInHand'
  BY NameFacts DEF StoreInv, TypeOK, BackupInHand, Create, Change, Goto
<1>. QED
  BY <1>1, <1>2, <1>3, <1>4, <1>5 DEF StoreInv

\* The content is written: no other save and no config uses this inode.
LEMMA WriteKeeps ==
  ASSUME StoreInv, NEW p \in Procs, Write(p)
  PROVE  StoreInv'
<1>1. TypeOK'
  BY DEF StoreInv, TypeOK, Write, Goto, Phases
<1>2. TmpIsOwn'
  BY DEF StoreInv, TypeOK, TmpIsOwn, InodesApart, Write, Goto, Pending, HasTmp
<1>3. InodesApart' /\ CommitsSound' /\ OneAtATime'
  BY DEF StoreInv, TypeOK, InodesApart, CommitsSound, OneAtATime, Write, Goto, Pending, HasTmp
<1>4. JournalSound' /\ DirSound'
  BY NoNameChanged DEF Write
<1>5. BackupInHand'
  BY DEF StoreInv, TypeOK, BackupInHand, Write, Goto
<1>. QED
  BY <1>1, <1>2, <1>3, <1>4, <1>5 DEF StoreInv

\* The content is synced before the name of the config may point to it.
LEMMA FsyncKeeps ==
  ASSUME StoreInv, NEW p \in Procs, Fsync(p)
  PROVE  StoreInv'
<1>1. TypeOK'
  BY DEF StoreInv, TypeOK, Fsync, Goto, Phases
<1>2. TmpIsOwn'
  BY DEF StoreInv, TypeOK, TmpIsOwn, InodesApart, Fsync, Goto, Pending, HasTmp
<1>3. InodesApart' /\ CommitsSound' /\ OneAtATime'
  BY DEF StoreInv, TypeOK, InodesApart, CommitsSound, OneAtATime, Fsync, Goto, Pending, HasTmp
<1>4. JournalSound' /\ DirSound'
  BY NoNameChanged DEF Fsync
<1>5. BackupInHand'
  BY DEF StoreInv, TypeOK, BackupInHand, Fsync, Goto
<1>. QED
  BY <1>1, <1>2, <1>3, <1>4, <1>5 DEF StoreInv

\* Without a config there is no backup either.
LEMMA SkipBackupKeeps ==
  ASSUME StoreInv, NEW p \in Procs, SkipBackup(p)
  PROVE  StoreInv'
<1>1. TypeOK'
  BY DEF StoreInv, TypeOK, SkipBackup, Goto, Phases
<1>2. TmpIsOwn'
  BY DEF StoreInv, TypeOK, TmpIsOwn, SkipBackup, Goto, HasTmp
<1>3. InodesApart' /\ CommitsSound' /\ OneAtATime'
  BY DEF StoreInv, TypeOK, InodesApart, CommitsSound, OneAtATime, SkipBackup, Goto, Pending, HasTmp
<1>4. JournalSound' /\ DirSound'
  BY NoNameChanged DEF SkipBackup
<1>5. dir[Bak] = NoFile
  BY AbsentApart DEF StoreInv, TypeOK, DirSound, SkipBackup
<1>6. BackupInHand'
  BY <1>5 DEF StoreInv, TypeOK, BackupInHand, SkipBackup, Goto
<1>. QED
  BY <1>1, <1>2, <1>3, <1>4, <1>6 DEF StoreInv

\* The stale private link goes; no save under way counts on it.
LEMMA UnlinkStaleBakKeeps ==
  ASSUME StoreInv, NEW p \in Procs, UnlinkStaleBak(p)
  PROVE  StoreInv'
<1>. DEFINE d == [dir EXCEPT ![BakTmp(p)] = NoFile]
<1>0. d \in Dirs /\ Change(d) /\ d[Live] = dir[Live] /\ d[Bak] = dir[Bak]
  BY NameFacts DEF StoreInv, TypeOK, UnlinkStaleBak, Dirs
<1>1. TypeOK'
  BY <1>0 DEF StoreInv, TypeOK, UnlinkStaleBak, Change, Dirs
<1>2. TmpIsOwn'
  BY NameFacts DEF StoreInv, TypeOK, TmpIsOwn, UnlinkStaleBak, Change, HasTmp
<1>3. InodesApart' /\ CommitsSound' /\ OneAtATime'
  BY DEF StoreInv, InodesApart, CommitsSound, OneAtATime, UnlinkStaleBak
<1>4. JournalSound' /\ DirSound'
  BY <1>0, OtherNameChanged DEF UnlinkStaleBak
<1>5. BackupInHand'
  BY NameFacts DEF StoreInv, TypeOK, BackupInHand, UnlinkStaleBak, Change
<1>. QED
  BY <1>1, <1>2, <1>3, <1>4, <1>5 DEF StoreInv

\* The private link is to the config of this moment.
LEMMA LinkKeeps ==
  ASSUME StoreInv, NEW p \in Procs, Link(p)
  PROVE  StoreInv'
<1>. DEFINE d == [dir EXCEPT ![BakTmp(p)] = dir[Live]]
<1>0. d \in Dirs /\ Change(d) /\ d[Live] = dir[Live] /\ d[Bak] = dir[Bak]
  BY NameFacts DEF StoreInv, TypeOK, Link, Dirs
<1>1. TypeOK'
  BY <1>0 DEF StoreInv, TypeOK, Link, Change, Goto, Dirs, Phases
<1>2. TmpIsOwn'
  BY NameFacts DEF StoreInv, TypeOK, TmpIsOwn, Link, Change, Goto, HasTmp
<1>3. InodesApart' /\ CommitsSound' /\ OneAtATime'
  BY DEF StoreInv, TypeOK, InodesApart, CommitsSound, OneAtATime, Link, Goto, Pending, HasTmp
<1>4. JournalSound' /\ DirSound'
  BY <1>0, OtherNameChanged DEF Link
<1>5. \E k \in DOMAIN commits : commits[k] = dir[Live]
  BY DEF StoreInv, TypeOK, DirSound, Link
<1>6. BackupInHand'
  BY <1>5, NameFacts DEF StoreInv, TypeOK, BackupInHand, Link, Change, Goto
<1>. QED
  BY <1>1, <1>2, <1>3, <1>4, <1>6 DEF StoreInv

\* The private link becomes the backup.
LEMMA BackupRenameKeeps ==
  ASSUME StoreInv, NEW p \in Procs, RenameBak(p)
  PROVE  StoreInv'
<1>. DEFINE d == [dir EXCEPT ![Bak] = dir[BakTmp(p)], ![BakTmp(p)] = NoFile]
<1>1. /\ d \in Dirs /\ d[Live] = dir[Live] /\ d[Bak] = dir[BakTmp(p)]
      /\ \A q \in Procs : d[Tmp(q)] = dir[Tmp(q)]
      /\ \A q \in Procs : q # p => d[BakTmp(q)] = dir[BakTmp(q)]
  BY NameFacts DEF StoreInv, TypeOK, RenameBak, Dirs
<1>2. \/ UNCHANGED <<dir, journal>> /\ dir[Bak] = dir[BakTmp(p)]
      \/ Change(d)
  BY DEF RenameBak
<1>. HIDE DEF d
<1>3. TypeOK'
  <2>1. dir' \in Dirs /\ journal' \in Seq(Dirs) /\ journal' # <<>>
    <3>1. dir \in Dirs /\ journal \in Seq(Dirs) /\ journal # <<>>
      BY DEF StoreInv, TypeOK, Dirs
    <3>2. \/ dir' = dir /\ journal' = journal
          \/ dir' = d /\ journal' = Append(journal, d)
      BY <1>2 DEF Change
    <3>. QED
      BY <3>1, <3>2, <1>1
  <2>2. pc' = [pc EXCEPT ![p] = "rename"]
        /\ UNCHANGED <<data, ino, saves, commits, floor, orderly>>
    BY DEF RenameBak, Goto
  <2>. QED
    BY <2>1, <2>2 DEF StoreInv, TypeOK, Dirs, Phases
<1>4. TmpIsOwn'
  BY <1>1, <1>2 DEF StoreInv, TypeOK, TmpIsOwn, RenameBak, Change, Goto, HasTmp
<1>5. InodesApart' /\ CommitsSound' /\ OneAtATime'
  BY DEF StoreInv, TypeOK, InodesApart, CommitsSound, OneAtATime, RenameBak, Goto, Pending, HasTmp
<1>6. commits # <<>> /\ dir[Live] = commits[Len(commits)] /\ Len(commits) >= floor
      /\ commits \in Seq(Inodes) /\ Len(commits) \in Nat
  BY DEF StoreInv, TypeOK, DirSound, BackupInHand, RenameBak
<1>7. BackupAt(d, Len(commits), commits, orderly)
  BY <1>1, <1>6 DEF StoreInv, BackupInHand, BackupAt, RenameBak
<1>8. DirSound'
  BY <1>2, <1>1, <1>6, <1>7 DEF StoreInv, DirSound, Change, RenameBak
<1>9. Recoverable(d, commits, floor, orderly)
  <2>1. Len(commits) \in DOMAIN commits
    BY <1>6
  <2>. QED
    BY <2>1, <1>1, <1>6, <1>7 DEF Recoverable
<1>10. JournalSound'
  BY <1>1, <1>2, <1>9, JournalGrows, NoNameChanged DEF StoreInv, JournalSound, RenameBak
<1>11. BackupInHand'
  BY <1>1, <1>2 DEF StoreInv, TypeOK, BackupInHand, OneAtATime, RenameBak, Change, Goto
<1>. QED
  BY <1>3, <1>4, <1>5, <1>8, <1>10, <1>11 DEF StoreInv

\* The new file becomes the config: it is synced, and its inode is a new one.
LEMMA RenameKeeps ==
  ASSUME StoreInv, NEW p \in Procs, Rename(p)
  PROVE  StoreInv'
<1>. DEFINE d == [dir EXCEPT ![Live] = dir[Tmp(p)], ![Tmp(p)] = NoFile]
<1>1. /\ d \in Dirs /\ d[Live] = ino[p] /\ d[Bak] = dir[Bak] /\ Change(d)
      /\ \A q \in Procs : d[BakTmp(q)] = dir[BakTmp(q)]
      /\ \A q \in Procs : q # p => d[Tmp(q)] = dir[Tmp(q)]
  BY NameFacts DEF StoreInv, TypeOK, TmpIsOwn, HasTmp, Rename, Dirs
<1>2. /\ commits' = Append(commits, ino[p]) /\ ino[p] \in Inodes
      /\ commits \in Seq(Inodes) /\ Len(commits) \in Nat
      /\ pc[p] \in Pending /\ pc' = [pc EXCEPT ![p] = "dirsync"]
      /\ UNCHANGED <<data, ino, saves, floor, orderly>>
  BY DEF StoreInv, TypeOK, TmpIsOwn, HasTmp, Rename, Goto, Pending
<1>. HIDE DEF d
<1>3. TypeOK'
  BY <1>1, <1>2 DEF StoreInv, TypeOK, Change, Dirs, Phases
<1>4. TmpIsOwn'
  BY <1>1, <1>2 DEF StoreInv, TypeOK, TmpIsOwn, Change, HasTmp
<1>5. /\ \A k \in DOMAIN commits : k \in DOMAIN commits' /\ commits'[k] = commits[k]
      /\ Len(commits') = Len(commits) + 1 /\ DOMAIN commits' = 1..(Len(commits) + 1)
      /\ commits'[Len(commits) + 1] = ino[p] /\ DOMAIN commits = 1..Len(commits)
      /\ \A k \in DOMAIN commits' : k \in DOMAIN commits \/ k = Len(commits) + 1
  BY <1>2
<1>6. InodesApart'
  BY <1>2, <1>5 DEF StoreInv, TypeOK, InodesApart, Pending, HasTmp
<1>7. CommitsSound'
  BY <1>2, <1>5 DEF StoreInv, TypeOK, TmpIsOwn, InodesApart, CommitsSound, Rename
<1>8. OneAtATime'
  BY <1>2 DEF StoreInv, TypeOK, OneAtATime, Rename
<1>9. BackupAt(d, Len(commits) + 1, commits', orderly)
  <2>1. CASE dir[Bak] = NoFile
    BY <2>1, <1>1 DEF BackupAt
  <2>2. CASE dir[Bak] # NoFile
    <3>1. commits # <<>> /\ dir[Live] = commits[Len(commits)]
          /\ BackupAt(dir, Len(commits), commits, orderly)
      BY <2>2 DEF StoreInv, DirSound
    <3>2. PICK b \in 1..Len(commits) : commits[b] = dir[Bak]
      BY <3>1, <2>2 DEF BackupAt
    <3>3. orderly => dir[Bak] = commits[Len(commits)]
      BY <2>2, <3>1 DEF StoreInv, BackupInHand, Rename
    <3>4. Len(commits) \in 1..Len(commits)
      BY <3>1, <1>2
    <3>. QED
      BY <3>2, <3>3, <3>4, <1>1, <1>2, <1>5 DEF BackupAt
  <2>. QED
    BY <2>1, <2>2
<1>10. Len(commits) + 1 >= floor /\ floor \in Nat
  BY <1>2 DEF StoreInv, TypeOK, DirSound
<1>11. DirSound'
  BY <1>1, <1>2, <1>5, <1>9, <1>10 DEF DirSound, Change
<1>12. Recoverable(d, commits', floor', orderly')
  <2>1. Len(commits) + 1 \in DOMAIN commits' /\ d[Live] = commits'[Len(commits) + 1]
    BY <1>1, <1>2, <1>5
  <2>. QED
    BY <2>1, <1>2, <1>9, <1>10 DEF Recoverable
<1>13. ASSUME NEW e, Recoverable(e, commits, floor, orderly)
       PROVE  Recoverable(e, commits', floor', orderly')
  BY <1>13, <1>2, <1>5 DEF Recoverable, BackupAt
<1>14. JournalSound'
  BY <1>1, <1>12, <1>13, JournalGrows DEF StoreInv, JournalSound
<1>15. BackupInHand'
  <2>1. SUFFICES ASSUME NEW q \in Procs, pc'[q] \in {"bak", "rename"}
                 PROVE  /\ pc[q] = "bak" =>
                             \E k \in DOMAIN commits' : commits'[k] = dir'[BakTmp(q)]
                        /\ ~orderly
    BY <1>2 DEF StoreInv, TypeOK, BackupInHand
  <2>2. q # p /\ pc[q] = pc'[q]
    BY <2>1, <1>2 DEF StoreInv, TypeOK
  <2>3. ~orderly
    BY <2>1, <2>2 DEF StoreInv, OneAtATime, Rename
  <2>4. dir'[BakTmp(q)] = dir[BakTmp(q)]
    BY <1>1 DEF Change
  <2>. QED
    BY <2>2, <2>3, <2>4, <1>5 DEF StoreInv, BackupInHand
<1>. QED
  BY <1>3, <1>4, <1>6, <1>7, <1>8, <1>11, <1>14, <1>15 DEF StoreInv

\* The directory is synced: the disk has what processes see.
LEMMA DirSyncKeeps ==
  ASSUME StoreInv, NEW p \in Procs, DirSync(p)
  PROVE  StoreInv'
<1>1. TypeOK'
  BY DEF StoreInv, TypeOK, DirSync, Goto, Phases
<1>2. TmpIsOwn'
  BY DEF StoreInv, TypeOK, TmpIsOwn, DirSync, Goto, HasTmp
<1>3. InodesApart' /\ CommitsSound' /\ OneAtATime'
  BY DEF StoreInv, TypeOK, InodesApart, CommitsSound, OneAtATime, DirSync, Goto, Pending, HasTmp
<1>4. commits \in Seq(Inodes) /\ Len(commits) \in Nat /\ (commits = <<>> => Len(commits) = 0)
  BY DEF StoreInv, TypeOK
<1>5. DirSound'
  BY <1>4 DEF StoreInv, DirSound, DirSync
<1>6. JournalSound'
  <2>1. Recoverable(dir, commits, floor', orderly)
    BY <1>4 DEF StoreInv, DirSound, Recoverable, DirSync
  <2>. QED
    BY <2>1 DEF JournalSound, DirSync
<1>7. BackupInHand'
  BY DEF StoreInv, TypeOK, BackupInHand, DirSync, Goto
<1>. QED
  BY <1>1, <1>2, <1>3, <1>5, <1>6, <1>7 DEF StoreInv

\* A save that throws takes its temporary name away.
LEMMA ThrowsKeeps ==
  ASSUME StoreInv, NEW p \in Procs, Throws(p)
  PROVE  StoreInv'
<1>. DEFINE d == [dir EXCEPT ![Tmp(p)] = NoFile]
<1>0. d \in Dirs /\ Change(d) /\ d[Live] = dir[Live] /\ d[Bak] = dir[Bak]
  BY NameFacts DEF StoreInv, TypeOK, Throws, Dirs
<1>1. TypeOK'
  BY <1>0 DEF StoreInv, TypeOK, Throws, Change, Goto, Dirs, Phases
<1>2. TmpIsOwn'
  BY NameFacts DEF StoreInv, TypeOK, TmpIsOwn, Throws, Change, Goto, HasTmp
<1>3. InodesApart' /\ CommitsSound' /\ OneAtATime'
  BY DEF StoreInv, TypeOK, InodesApart, CommitsSound, OneAtATime, Throws, Goto, Pending, HasTmp
<1>4. JournalSound' /\ DirSound'
  BY <1>0, OtherNameChanged DEF Throws
<1>5. BackupInHand'
  BY NameFacts DEF StoreInv, TypeOK, BackupInHand, Throws, Change, Goto
<1>. QED
  BY <1>1, <1>2, <1>3, <1>4, <1>5 DEF StoreInv

\* A backup that fails ends the orderly history and costs nothing else.
LEMMA BackupFailsKeeps ==
  ASSUME StoreInv, NEW p \in Procs, BackupFails(p)
  PROVE  StoreInv'
<1>. DEFINE d == [dir EXCEPT ![BakTmp(p)] = IF pc[p] = "bak" THEN NoFile ELSE @]
<1>0. d \in Dirs /\ Change(d) /\ d[Live] = dir[Live] /\ d[Bak] = dir[Bak]
      /\ pc[p] \in {"link", "bak"} /\ orderly' = FALSE
  <2>1. Change(d) /\ pc[p] \in {"link", "bak"} /\ orderly' = FALSE
    BY DEF BackupFails, CallFails
  <2>2. d \in Dirs /\ d[Live] = dir[Live] /\ d[Bak] = dir[Bak]
    BY NameFacts DEF StoreInv, TypeOK, Dirs
  <2>. QED
    BY <2>1, <2>2
<1>1. TypeOK'
  <2>1. dir' \in Dirs /\ journal' \in Seq(Dirs) /\ journal' # <<>>
    BY <1>0 DEF StoreInv, TypeOK, Change, Dirs
  <2>2. pc' = [pc EXCEPT ![p] = "rename"]
        /\ UNCHANGED <<data, ino, saves, commits, floor>>
    BY DEF BackupFails, Goto
  <2>. QED
    BY <2>1, <2>2, <1>0 DEF StoreInv, TypeOK, Dirs, Phases
<1>2. TmpIsOwn'
  BY <1>0, NameFacts DEF StoreInv, TypeOK, TmpIsOwn, BackupFails, Change, Goto, HasTmp
<1>3. InodesApart' /\ CommitsSound' /\ OneAtATime'
  BY <1>0 DEF StoreInv, TypeOK, InodesApart, CommitsSound, OneAtATime, BackupFails, Goto, Pending, HasTmp
<1>4. JournalSound' /\ DirSound'
  BY <1>0, OtherNameChanged DEF BackupFails
<1>5. BackupInHand'
  BY <1>0, NameFacts DEF StoreInv, TypeOK, BackupInHand, BackupFails, Change, Goto
<1>. QED
  BY <1>1, <1>2, <1>3, <1>4, <1>5 DEF StoreInv

\* A save that ends without a further call: its process is killed, or the
\* directory could not be synced.
LEMMA EndsKeeps ==
  ASSUME StoreInv, NEW p \in Procs, Kill(p) \/ DirSyncFails(p)
  PROVE  StoreInv'
<1>0. Goto(p, "idle") /\ UNCHANGED <<dir, journal, data, ino, saves, commits, floor, orderly>>
  BY DEF Kill, DirSyncFails
<1>1. TypeOK'
  BY <1>0 DEF StoreInv, TypeOK, Goto, Phases
<1>2. TmpIsOwn'
  BY <1>0 DEF StoreInv, TypeOK, TmpIsOwn, Goto, HasTmp
<1>3. InodesApart' /\ CommitsSound' /\ OneAtATime'
  BY <1>0 DEF StoreInv, TypeOK, InodesApart, CommitsSound, OneAtATime, Goto, Pending, HasTmp
<1>4. JournalSound' /\ DirSound'
  BY <1>0, NoNameChanged
<1>5. BackupInHand'
  BY <1>0 DEF StoreInv, TypeOK, BackupInHand, Goto
<1>. QED
  BY <1>1, <1>2, <1>3, <1>4, <1>5 DEF StoreInv

\* After a power loss the directory is a recoverable one, the config that it
\* holds is whole, and the history ends with it.
LEMMA PowerLossKeeps ==
  ASSUME StoreInv, PowerLoss
  PROVE  StoreInv'
<1>1. PICK k \in DOMAIN journal, lost \in SUBSET {i \in Inodes : data[i] = "whole"} :
        /\ dir' = journal[k]
        /\ journal' = <<journal[k]>>
        /\ data' = [i \in Inodes |-> IF i \in lost THEN "torn" ELSE data[i]]
        /\ commits' = SubSeq(commits, 1, PositionOf(journal[k][Live]))
  BY DEF PowerLoss
<1>. DEFINE d == journal[k]
           n == PositionOf(d[Live])
<1>2. /\ d \in Dirs /\ Recoverable(d, commits, floor, orderly)
      /\ commits \in Seq(Inodes) /\ DOMAIN commits = 1..Len(commits) /\ Len(commits) \in Nat
      /\ floor \in Nat
  BY DEF StoreInv, TypeOK, JournalSound, Dirs
<1>3. /\ pc' = [p \in Procs |-> "idle"]
      /\ UNCHANGED <<ino, saves, floor, orderly>>
  BY DEF PowerLoss
<1>. HIDE DEF d
<1>4. \/ d[Live] = NoFile /\ d[Bak] = NoFile /\ floor = 0 /\ n = 0
      \/ n \in DOMAIN commits /\ d[Live] = commits[n] /\ n >= floor /\ d[Live] \in Inodes
         /\ BackupAt(d, n, commits, orderly)
  <2>1. CASE d[Live] = NoFile /\ d[Bak] = NoFile /\ floor = 0
    BY <2>1 DEF PositionOf
  <2>2. ASSUME NEW m \in DOMAIN commits, d[Live] = commits[m], m >= floor,
               BackupAt(d, m, commits, orderly)
        PROVE  n = m /\ d[Live] \in Inodes
    <3>1. d[Live] \in Inodes /\ d[Live] # NoFile
      BY <2>2, <1>2, AbsentApart
    <3>2. n \in DOMAIN commits /\ commits[n] = d[Live]
      BY <3>1, <2>2 DEF PositionOf
    <3>. QED
      BY <3>1, <3>2, <2>2 DEF StoreInv, CommitsSound
  <2>. QED
    BY <2>1, <2>2, <1>2 DEF Recoverable
<1>. HIDE DEF n
<1>5. /\ n \in Nat /\ n <= Len(commits) /\ commits' \in Seq(Inodes)
      /\ Len(commits') = n /\ DOMAIN commits' = 1..n
      /\ \A i \in 1..n : commits'[i] = commits[i] /\ i \in DOMAIN commits
  <2>1. n \in Nat /\ n <= Len(commits) /\ commits' = SubSeq(commits, 1, n)
    BY <1>1, <1>2, <1>4 DEF d, n
  <2>. QED
    BY <2>1, <1>2
<1>6. /\ dir' = d /\ journal' = <<d>>
      /\ data' \in [Inodes -> {"torn", "whole", "synced"}]
      /\ \A i \in Inodes : data[i] = "synced" => data'[i] = "synced"
  BY <1>1 DEF d, StoreInv, TypeOK
<1>7. TypeOK'
  BY <1>2, <1>3, <1>5, <1>6 DEF StoreInv, TypeOK, Dirs, Phases
<1>8. TmpIsOwn' /\ InodesApart' /\ BackupInHand' /\ OneAtATime'
  BY <1>3 DEF StoreInv, TmpIsOwn, InodesApart, BackupInHand, OneAtATime, HasTmp, Pending
<1>9. CommitsSound'
  BY <1>2, <1>3, <1>5, <1>6 DEF StoreInv, CommitsSound
<1>10. BackupAt(d, n, commits, orderly) => BackupAt(d, n, commits', orderly)
  BY <1>5 DEF BackupAt
<1>11. DirSound'
  <2>1. CASE d[Live] = NoFile /\ d[Bak] = NoFile /\ floor = 0 /\ n = 0
    BY <2>1, <1>3, <1>5, <1>6 DEF DirSound
  <2>2. CASE n \in DOMAIN commits /\ d[Live] = commits[n] /\ n >= floor
             /\ BackupAt(d, n, commits, orderly)
    <3>1. n \in 1..n /\ commits' # <<>>
      BY <2>2, <1>2, <1>5
    <3>. QED
      BY <3>1, <2>2, <1>3, <1>5, <1>6, <1>10 DEF DirSound
  <2>. QED
    BY <2>1, <2>2, <1>4
<1>12. JournalSound'
  <2>1. Recoverable(dir', commits', floor', orderly')
    BY <1>7, <1>11, <1>5, <1>6 DEF DirSound, Recoverable
  <2>. QED
    BY <2>1, <1>6 DEF JournalSound
<1>. QED
  BY <1>7, <1>8, <1>9, <1>11, <1>12 DEF StoreInv

-----------------------------------------------------------------------------
(* One save: the theorems *)

LEMMA StoreInvInit == Init => StoreInv
<1>. SUFFICES ASSUME Init PROVE StoreInv
  OBVIOUS
<1>1. PICK first \in {0, NoFile} :
        /\ dir = [n \in Names |-> IF n = Live THEN first ELSE NoFile]
        /\ commits = IF first = 0 THEN <<0>> ELSE <<>>
        /\ floor = IF first = 0 THEN 1 ELSE 0
  BY DEF Init
<1>2. 0 \in Inodes /\ NoFile # 0
  BY StoreAssumption DEF Inodes, NoFile
<1>3. dir \in Dirs /\ dir[Live] = first /\ dir[Bak] = NoFile
  BY <1>1, <1>2, NameFacts DEF Dirs
<1>4. \/ first = 0 /\ commits = <<0>> /\ floor = 1
      \/ first = NoFile /\ commits = <<>> /\ floor = 0
  BY <1>1, <1>2
<1>5. TypeOK
  BY <1>2, <1>3, <1>4 DEF Init, TypeOK, Dirs, Phases
<1>6. TmpIsOwn /\ BackupInHand /\ OneAtATime
  BY DEF Init, TmpIsOwn, BackupInHand, OneAtATime, HasTmp
<1>7. InodesApart /\ CommitsSound
  BY <1>2, <1>4 DEF Init, InodesApart, CommitsSound, Pending, HasTmp
<1>8. DirSound
  BY <1>3, <1>4 DEF DirSound, BackupAt
<1>9. JournalSound
  <2>1. journal = <<dir>> /\ Recoverable(dir, commits, floor, orderly)
    BY <1>5, <1>8, DirIsRecoverable DEF Init
  <2>. QED
    BY <2>1 DEF JournalSound
<1>. QED
  BY <1>5, <1>6, <1>7, <1>8, <1>9 DEF StoreInv

LEMMA StoreInvStep == StoreInv /\ [Next]_vars => StoreInv'
<1>. SUFFICES ASSUME StoreInv, [Next]_vars PROVE StoreInv'
  OBVIOUS
<1>1. ASSUME NEW p \in Procs,
             \/ Begin(p) \/ UnlinkStale(p) \/ Create(p) \/ Write(p) \/ Fsync(p)
             \/ SkipBackup(p) \/ UnlinkStaleBak(p) \/ Link(p) \/ RenameBak(p)
             \/ Rename(p) \/ DirSync(p)
             \/ Throws(p) \/ BackupFails(p) \/ DirSyncFails(p) \/ Kill(p)
      PROVE  StoreInv'
  BY <1>1, BeginKeeps, UnlinkStaleKeeps, CreateKeeps, WriteKeeps, FsyncKeeps,
     SkipBackupKeeps, UnlinkStaleBakKeeps, LinkKeeps, BackupRenameKeeps,
     RenameKeeps, DirSyncKeeps, ThrowsKeeps, BackupFailsKeeps, EndsKeeps
<1>2. CASE PowerLoss
  BY <1>2, PowerLossKeeps
<1>3. CASE UNCHANGED vars
  <2>1. UNCHANGED <<dir, journal, data, pc, ino, saves, commits, floor, orderly>>
    BY <1>3 DEF vars
  <2>2. TypeOK' /\ TmpIsOwn' /\ InodesApart' /\ CommitsSound' /\ BackupInHand' /\ OneAtATime'
    BY <2>1 DEF StoreInv, TypeOK, TmpIsOwn, InodesApart, CommitsSound, BackupInHand, OneAtATime
  <2>3. JournalSound' /\ DirSound'
    BY <2>1, NoNameChanged
  <2>. QED
    BY <2>2, <2>3 DEF StoreInv
<1>. QED
  BY <1>1, <1>2, <1>3 DEF Next

LEMMA StoreInvAlways == Spec => []StoreInv
BY StoreInvInit, StoreInvStep, PTL DEF Spec

\* save_config: for any number of processes that save, of calls that fail, of
\* kills inside a save and of power losses, the name of the config is never
\* gone and never leads to a torn file once a save took effect, and a save
\* that returned is never undone.
THEOREM LiveIsAlwaysSound == Spec => []LiveIsSound
<1>1. StoreInv => LiveIsSound
  <2>. SUFFICES ASSUME StoreInv PROVE LiveIsSound
    OBVIOUS
  <2>1. TypeOK /\ commits \in Seq(Inodes)
    BY DEF StoreInv, TypeOK
  <2>2. commits # <<>> => Len(commits) \in DOMAIN commits /\ commits[Len(commits)] \in Inodes
    BY <2>1
  <2>3. LiveIsWhole
    BY <2>1, <2>2, AbsentApart DEF StoreInv, DirSound, CommitsSound, LiveIsWhole
  <2>4. ReturnedIsDurable
    BY <2>1 DEF StoreInv, DirSound, ReturnedIsDurable
  <2>. QED
    BY <2>1, <2>3, <2>4 DEF LiveIsSound
<1>. QED
  BY <1>1, StoreInvAlways, PTL

\* The backup: always a whole file that was the config before, and the very
\* one that the config replaced as long as saves do not overlap and every
\* backup is made, whatever kills, failures and power losses come between.
THEOREM BackupIsAlwaysPrevious == Spec => []BackupIsPrevious
<1>1. StoreInv => BackupIsPrevious
  <2>. SUFFICES ASSUME StoreInv, dir[Bak] # NoFile PROVE BackupIsPrevious
    BY DEF BackupIsPrevious, BackupIsWhole
  <2>1. commits \in Seq(Inodes) /\ Len(commits) \in Nat /\ DOMAIN commits = 1..Len(commits)
    BY DEF StoreInv, TypeOK
  <2>2. PICK b \in 1..Len(commits) : commits[b] = dir[Bak] /\ (orderly => b >= Len(commits) - 1)
    BY DEF StoreInv, DirSound, BackupAt
  <2>3. BackupIsWhole
    BY <2>1, <2>2 DEF StoreInv, CommitsSound, BackupIsWhole
  <2>. QED
    BY <2>1, <2>2, <2>3 DEF BackupIsPrevious
<1>. QED
  BY <1>1, StoreInvAlways, PTL


-----------------------------------------------------------------------------
(* Sequences, numbers and strings *)

IsSeq(s) == s \in Seq(Range(s))

LEMMA SeqShape ==
  ASSUME NEW s, IsSeq(s)
  PROVE  Len(s) \in Nat /\ DOMAIN s = 1..Len(s) /\ s = [i \in 1..Len(s) |-> s[i]]
BY LenProperties DEF IsSeq

LEMMA MakeSeq ==
  ASSUME NEW n \in Nat, NEW s, s = [i \in 1..n |-> s[i]]
  PROVE  IsSeq(s) /\ Len(s) = n /\ DOMAIN s = 1..n
<1>1. s \in [1..n -> Range(s)]
  BY DEF Range
<1>2. s \in Seq(Range(s))
  BY <1>1, SeqDef
<1>3. DOMAIN s = 1..n /\ DOMAIN s = 1..Len(s) /\ Len(s) \in Nat
  BY <1>1, <1>2, LenProperties
<1> QED BY <1>2, <1>3 DEF IsSeq

LEMMA AppendFacts ==
  ASSUME NEW s, IsSeq(s), NEW e
  PROVE  /\ IsSeq(Append(s, e)) /\ Len(Append(s, e)) = Len(s) + 1
         /\ DOMAIN Append(s, e) = 1..(Len(s) + 1)
         /\ \A i \in 1..Len(s) : Append(s, e)[i] = s[i]
         /\ Append(s, e)[Len(s) + 1] = e
<1> DEFINE S == Range(s) \cup {e}  t == Append(s, e)
<1>1. s \in Seq(S) /\ Len(s) \in Nat
  BY SeqMonotonic, SeqShape DEF IsSeq
<1>2. t \in Seq(S) /\ Len(t) = Len(s) + 1 /\ t[Len(s) + 1] = e /\ \A i \in 1..Len(s) : t[i] = s[i]
  BY <1>1
<1>3. DOMAIN t = 1..(Len(s) + 1) /\ t = [i \in 1..(Len(s) + 1) |-> t[i]]
  BY <1>1, <1>2, LenProperties
<1> HIDE DEF t
<1>4. IsSeq(t)
  BY <1>1, <1>3, MakeSeq, SMTT(30)
<1> QED BY <1>2, <1>3, <1>4 DEF t

LEMMA ConcatFacts ==
  ASSUME NEW s, IsSeq(s), NEW t, IsSeq(t)
  PROVE  /\ IsSeq(s \o t) /\ Len(s \o t) = Len(s) + Len(t)
         /\ DOMAIN (s \o t) = 1..(Len(s) + Len(t))
         /\ \A i \in 1..Len(s) : (s \o t)[i] = s[i]
         /\ \A i \in 1..Len(t) : (s \o t)[Len(s) + i] = t[i]
         /\ \A i \in (Len(s) + 1)..(Len(s) + Len(t)) : (s \o t)[i] = t[i - Len(s)]
<1> DEFINE S == Range(s) \cup Range(t)  u == s \o t
<1>1. s \in Seq(S) /\ t \in Seq(S) /\ Len(s) \in Nat /\ Len(t) \in Nat
  BY SeqMonotonic, SeqShape DEF IsSeq
<1>2. /\ u \in Seq(S) /\ Len(u) = Len(s) + Len(t)
      /\ \A i \in 1 .. Len(s) + Len(t) : u[i] = IF i <= Len(s) THEN s[i] ELSE t[i - Len(s)]
  BY <1>1, ConcatProperties
<1>3. DOMAIN u = 1..(Len(s) + Len(t)) /\ u = [i \in 1..(Len(s) + Len(t)) |-> u[i]]
  BY <1>1, <1>2, LenProperties
<1> HIDE DEF u
<1>4. IsSeq(u)
  BY <1>1, <1>3, MakeSeq, SMTT(30)
<1>5. ASSUME NEW i \in 1..Len(t) PROVE u[Len(s) + i] = t[i]
  <2>1. Len(s) + i \in 1..(Len(s) + Len(t)) /\ ~(Len(s) + i <= Len(s)) /\ (Len(s) + i) - Len(s) = i
    BY <1>1
  <2> QED BY <1>2, <2>1
<1>6. \A i \in 1..Len(s) : u[i] = s[i]
  BY <1>1, <1>2
<1>7. \A i \in (Len(s) + 1)..(Len(s) + Len(t)) : u[i] = t[i - Len(s)]
  BY <1>1, <1>2
<1> QED BY <1>2, <1>3, <1>4, <1>5, <1>6, <1>7 DEF u

LEMMA RemoveAtFacts ==
  ASSUME NEW s, IsSeq(s), NEW k \in DOMAIN s
  PROVE  /\ IsSeq(RemoveAt(s, k)) /\ Len(RemoveAt(s, k)) = Len(s) - 1
         /\ DOMAIN RemoveAt(s, k) = 1..(Len(s) - 1)
         /\ \A i \in 1..(Len(s) - 1) : RemoveAt(s, k)[i] = IF i < k THEN s[i] ELSE s[i + 1]
<1> DEFINE a == SubSeq(s, 1, k - 1)  b == SubSeq(s, k + 1, Len(s))  u == RemoveAt(s, k)
<1>1. s \in Seq(Range(s)) /\ Len(s) \in Nat /\ k \in 1..Len(s) /\ \A i \in 1..Len(s) : s[i] \in Range(s)
  BY SeqShape DEF IsSeq, Range
<1>2. /\ a \in Seq(Range(s)) /\ Len(a) = k - 1 /\ \A i \in 1..(k - 1) : a[i] = s[i]
  <2>1. k - 1 \in Int /\ \A i \in 1..(k - 1) : s[i] \in Range(s)
    BY <1>1
  <2>2. /\ a \in Seq(Range(s)) /\ Len(a) = (IF 1 <= k - 1 THEN k - 1 - 1 + 1 ELSE 0)
        /\ \A i \in 1..(k - 1 - 1 + 1) : a[i] = s[1 + i - 1]
    BY <2>1, SubSeqProperties
  <2> QED BY <1>1, <2>2
<1>3. /\ b \in Seq(Range(s)) /\ Len(b) = Len(s) - k /\ \A i \in 1..(Len(s) - k) : b[i] = s[k + i]
  <2>1. k + 1 \in Int /\ \A i \in (k + 1)..Len(s) : s[i] \in Range(s)
    BY <1>1
  <2>2. /\ b \in Seq(Range(s)) /\ Len(b) = (IF k + 1 <= Len(s) THEN Len(s) - (k + 1) + 1 ELSE 0)
        /\ \A i \in 1..(Len(s) - (k + 1) + 1) : b[i] = s[(k + 1) + i - 1]
    BY <1>1, <2>1, SubSeqProperties
  <2> QED BY <1>1, <2>2
<1>4. u = a \o b
  BY DEF RemoveAt
<1> HIDE DEF a, b
<1>5. /\ u \in Seq(Range(s)) /\ Len(u) = Len(a) + Len(b)
      /\ \A i \in 1 .. Len(a) + Len(b) : u[i] = IF i <= Len(a) THEN a[i] ELSE b[i - Len(a)]
  BY <1>2, <1>3, <1>4, ConcatProperties
<1>6. Len(u) = Len(s) - 1 /\ \A i \in 1..(Len(s) - 1) : u[i] = IF i < k THEN s[i] ELSE s[i + 1]
  <2>1. Len(u) = Len(s) - 1
    BY <1>1, <1>2, <1>3, <1>5
  <2>2. ASSUME NEW i \in 1..(Len(s) - 1), i < k PROVE u[i] = s[i]
    BY <1>1, <1>2, <1>3, <1>5, <2>2, SMTT(30)
  <2>3. ASSUME NEW i \in 1..(Len(s) - 1), ~(i < k) PROVE u[i] = s[i + 1]
    <3>1. i - (k - 1) \in 1..(Len(s) - k) /\ k + (i - (k - 1)) = i + 1 /\ ~(i <= k - 1)
      BY <1>1, <2>3
    <3>2. Len(a) = k - 1 /\ i \in 1..(Len(a) + Len(b)) /\ ~(i <= Len(a))
      BY <1>1, <1>2, <1>3, <2>3
    <3>3. u[i] = b[i - (k - 1)]
      BY ONLY <1>5, <3>2
    <3> QED BY <1>3, <3>1, <3>3
  <2> QED BY <2>1, <2>2, <2>3
<1>7. DOMAIN u = 1..(Len(s) - 1) /\ u = [i \in 1..(Len(s) - 1) |-> u[i]] /\ Len(s) - 1 \in Nat
  BY <1>1, <1>5, <1>6, LenProperties
<1> HIDE DEF u
<1>8. IsSeq(u)
  BY <1>7, MakeSeq
<1> QED BY <1>6, <1>7, <1>8 DEF u

LEMMA SetAtFacts ==
  ASSUME NEW s, IsSeq(s), NEW k \in DOMAIN s, NEW e
  PROVE  LET t == [s EXCEPT ![k] = e]
         IN  IsSeq(t) /\ Len(t) = Len(s) /\ DOMAIN t = DOMAIN s /\ t[k] = e
             /\ \A i \in DOMAIN s : i # k => t[i] = s[i]
<1> DEFINE t == [s EXCEPT ![k] = e]
<1>1. Len(s) \in Nat /\ DOMAIN s = 1..Len(s) /\ s = [i \in 1..Len(s) |-> s[i]]
  BY SeqShape
<1>2. t = [i \in 1..Len(s) |-> t[i]] /\ t[k] = e /\ \A i \in DOMAIN s : i # k => t[i] = s[i]
  BY <1>1
<1> HIDE DEF t
<1> QED BY <1>1, <1>2, MakeSeq DEF t

LEMMA SingleFacts ==
  ASSUME NEW e
  PROVE  IsSeq(<<e>>) /\ Len(<<e>>) = 1 /\ DOMAIN <<e>> = 1..1 /\ <<e>>[1] = e
<1>1. <<e>> = [i \in 1..1 |-> <<e>>[i]]
  OBVIOUS
<1> QED BY <1>1, MakeSeq

LEMMA EmptyFacts == IsSeq(<<>>) /\ Len(<<>>) = 0 /\ DOMAIN <<>> = {}
BY EmptySeq DEF IsSeq


LEMMA LeastNat ==
  ASSUME NEW S, S \subseteq Nat, S # {}
  PROVE  \E i \in S : \A j \in S : i <= j
<1>1. PICK i \in S : \A j \in S : ~(<<j, i>> \in OpToRel(<, Nat))
  BY WFMin, NatLessThanWellFounded, Zenon
<1>2. \A j \in S : ~(j < i)
  BY <1>1, Zenon DEF OpToRel
<1>3. \A j \in S : i <= j
  BY <1>2
<1> QED BY <1>3

\* What is up to m, and how it grows.
Upto(S, m) == {j \in S : j <= m}

LEMMA UptoGrows ==
  ASSUME NEW S, S \subseteq Int, NEW m \in Int
  PROVE  Upto(S, m) = IF m \in S THEN Upto(S, m - 1) \cup {m} ELSE Upto(S, m - 1)
<1>1. ASSUME NEW j \in S PROVE j <= m <=> j <= m - 1 \/ j = m
  <2>1. j \in Int
    OBVIOUS
  <2> QED BY <2>1
<1>2. ~(m <= m - 1) /\ m <= m
  OBVIOUS
<1> QED BY <1>1, <1>2 DEF Upto

LEMMA UptoFinite ==
  ASSUME NEW n \in Nat, NEW S, S \subseteq 1..n, NEW m \in Int
  PROVE  /\ IsFiniteSet(S) /\ Cardinality(S) \in Nat
         /\ IsFiniteSet(Upto(S, m)) /\ Cardinality(Upto(S, m)) \in Nat
<1>1. IsFiniteSet(1..n)
  <2>1. 1 \in Int /\ n \in Int
    OBVIOUS
  <2> QED BY <2>1, FS_Interval
<1>2. IsFiniteSet(S)
  BY <1>1, FS_Subset
<1>3. Upto(S, m) \in SUBSET S
  BY DEF Upto
<1>4. IsFiniteSet(Upto(S, m))
  BY <1>2, <1>3, FS_Subset
<1> QED BY <1>2, <1>4, FS_CardinalityType

\* A finite set of numbers has an element of each rank.
LEMMA RankExists ==
  ASSUME NEW n \in Nat, NEW S, S \subseteq 1..n, NEW k \in 1..Cardinality(S)
  PROVE  \E i \in S : Cardinality(Upto(S, i)) = k
<1> DEFINE Enough == {m \in Nat : Cardinality(Upto(S, m)) >= k}
<1>0. S \subseteq Int /\ \A m \in Int : Cardinality(Upto(S, m)) \in Nat
  <2>1. \A m \in Int : Cardinality(Upto(S, m)) \in Nat
    BY UptoFinite
  <2> QED BY <2>1
<1>1. k \in Nat \ {0} /\ k <= Cardinality(S)
  BY UptoFinite
<1>2. Enough # {}
  <2>0. \A j \in S : j <= n
    OBVIOUS
  <2>1. Upto(S, n) = S
    BY <2>0 DEF Upto
  <2>2. n \in Nat /\ Cardinality(S) >= k
    <3>1. n \in Int /\ Cardinality(Upto(S, n)) \in Nat
      BY <1>0
    <3> QED BY <1>1, <2>1, <3>1
  <2> QED BY <2>1, <2>2
<1>3. PICK m \in Enough : \A q \in Enough : m <= q
  <2>1. Enough \subseteq Nat
    OBVIOUS
  <2> HIDE DEF Enough
  <2> QED BY <1>2, <2>1, LeastNat
<1>4. m \in Nat /\ Cardinality(Upto(S, m)) >= k
  BY <1>3
<1>5. Cardinality(Upto(S, m - 1)) < k
  <2>1. CASE m = 0
    <3>1. \A j \in S : ~(j <= m - 1)
      BY <2>1
    <3>2. Upto(S, m - 1) = {}
      BY <3>1 DEF Upto
    <3>3. Cardinality(Upto(S, m - 1)) = 0
      BY <3>2, FS_EmptySet
    <3> QED BY <1>1, <3>3
  <2>2. CASE m # 0
    <3>1. m - 1 \in Nat /\ ~(m <= m - 1)
      BY <1>4, <2>2
    <3>2. ~(m - 1 \in Enough)
      BY <1>3, <3>1
    <3>3. ~(Cardinality(Upto(S, m - 1)) >= k)
      BY <3>1, <3>2
    <3>4. Cardinality(Upto(S, m - 1)) \in Nat
      BY <1>0, <3>1
    <3> QED BY <1>1, <3>3, <3>4
  <2> QED BY <2>1, <2>2
<1>6. m \in Int /\ m - 1 \in Int
  BY <1>4
<1>7. Upto(S, m) = IF m \in S THEN Upto(S, m - 1) \cup {m} ELSE Upto(S, m - 1)
  BY <1>0, <1>6, UptoGrows
<1>8. Cardinality(Upto(S, m)) \in Nat /\ Cardinality(Upto(S, m - 1)) \in Nat
  BY <1>0, <1>6
<1>9. m \in S
  BY <1>1, <1>4, <1>5, <1>7, <1>8
<1>10. Cardinality(Upto(S, m)) = Cardinality(Upto(S, m - 1)) + 1
  <2>1. m \notin Upto(S, m - 1)
    BY <1>6 DEF Upto
  <2>2. IsFiniteSet(Upto(S, m - 1))
    BY <1>6, UptoFinite
  <2>3. Upto(S, m) = Upto(S, m - 1) \cup {m}
    BY <1>7, <1>9
  <2> QED BY <2>1, <2>2, <2>3, FS_AddElement
<1> QED BY <1>1, <1>4, <1>5, <1>8, <1>9, <1>10

-----------------------------------------------------------------------------
(* The order of the points of a curve *)

Before(l, i, k) == l[i][1] < l[k][1] \/ (l[i][1] = l[k][1] /\ i <= k)
UpTo(l, k) == {i \in DOMAIN l : Before(l, i, k)}

LEMMA OrderFacts ==
  ASSUME NEW l, IsSeq(l), \A i \in DOMAIN l : l[i][1] \in Int
  PROVE  /\ Len(l) \in Nat /\ DOMAIN l = 1..Len(l)
         /\ \A k \in DOMAIN l : /\ IsFiniteSet(UpTo(l, k)) /\ Cardinality(UpTo(l, k)) \in 1..Len(l)
         /\ \A i, k \in DOMAIN l : /\ Before(l, i, k) \/ Before(l, k, i)
                                   /\ Before(l, i, k) => UpTo(l, i) \subseteq UpTo(l, k)
                                   /\ Before(l, i, k) /\ Before(l, k, i) => i = k
         /\ \A i, k \in DOMAIN l : Cardinality(UpTo(l, i)) <= Cardinality(UpTo(l, k)) => Before(l, i, k)
<1>1. Len(l) \in Nat /\ DOMAIN l = 1..Len(l)
  BY SeqShape
<1>2. IsFiniteSet(1..Len(l)) /\ Cardinality(1..Len(l)) = Len(l)
  <2>1. 1 \in Int /\ Len(l) \in Int
    BY <1>1
  <2>2. Cardinality(1..Len(l)) = IF 1 > Len(l) THEN 0 ELSE Len(l) - 1 + 1
    BY <2>1, FS_Interval
  <2>3. (IF 1 > Len(l) THEN 0 ELSE Len(l) - 1 + 1) = Len(l)
    BY <1>1
  <2> QED BY <2>1, <2>2, <2>3, FS_Interval
<1>3. ASSUME NEW k \in DOMAIN l
      PROVE  /\ IsFiniteSet(UpTo(l, k)) /\ Cardinality(UpTo(l, k)) \in 1..Len(l) /\ k \in UpTo(l, k)
  <2>1. UpTo(l, k) \in SUBSET (1..Len(l))
    BY <1>1 DEF UpTo
  <2>2. k \in UpTo(l, k)
    BY <1>1 DEF UpTo, Before
  <2>3. IsFiniteSet(UpTo(l, k)) /\ Cardinality(UpTo(l, k)) <= Len(l)
    BY <1>2, <2>1, FS_Subset
  <2>4. Cardinality(UpTo(l, k)) \in Nat /\ Cardinality(UpTo(l, k)) # 0
    BY <2>2, <2>3, FS_CardinalityType, FS_EmptySet
  <2> QED BY <1>1, <2>2, <2>3, <2>4
<1>4. \A i, j, k \in DOMAIN l : Before(l, i, j) /\ Before(l, j, k) => Before(l, i, k)
  <2>1. ASSUME NEW i \in DOMAIN l, NEW j \in DOMAIN l, NEW k \in DOMAIN l, Before(l, i, j), Before(l, j, k)
        PROVE  Before(l, i, k)
    <3>1. l[i][1] \in Int /\ l[j][1] \in Int /\ l[k][1] \in Int /\ i \in Int /\ j \in Int /\ k \in Int
      BY <1>1
    <3> QED BY <2>1, <3>1 DEF Before
  <2> QED BY <2>1
<1>5. ASSUME NEW i \in DOMAIN l, NEW k \in DOMAIN l
      PROVE  /\ Before(l, i, k) \/ Before(l, k, i)
             /\ Before(l, i, k) => UpTo(l, i) \subseteq UpTo(l, k)
             /\ Before(l, i, k) /\ Before(l, k, i) => i = k
  <2>1. l[i][1] \in Int /\ l[k][1] \in Int /\ i \in Int /\ k \in Int
    BY <1>1
  <2>2. Before(l, i, k) \/ Before(l, k, i)
    BY <2>1 DEF Before
  <2>3. Before(l, i, k) /\ Before(l, k, i) => i = k
    BY <2>1 DEF Before
  <2>4. Before(l, i, k) => UpTo(l, i) \subseteq UpTo(l, k)
    BY <1>4 DEF UpTo
  <2> QED BY <2>2, <2>3, <2>4
<1>6. ASSUME NEW i \in DOMAIN l, NEW k \in DOMAIN l, Cardinality(UpTo(l, i)) <= Cardinality(UpTo(l, k)),
             ~Before(l, i, k)
      PROVE  FALSE
  <2>1. Before(l, k, i) /\ UpTo(l, k) \in SUBSET UpTo(l, i)
    BY <1>5, <1>6
  <2>2. Cardinality(UpTo(l, k)) <= Cardinality(UpTo(l, i))
    BY <1>3, <2>1, FS_Subset
  <2>3. Cardinality(UpTo(l, i)) = Cardinality(UpTo(l, k))
    <3>1. Cardinality(UpTo(l, i)) \in Int /\ Cardinality(UpTo(l, k)) \in Int
      BY <1>1, <1>3
    <3> QED BY <1>6, <2>2, <3>1
  <2>4. UpTo(l, i) = UpTo(l, k)
    BY <1>3, <2>1, <2>3, FS_Subset
  <2>5. i \in UpTo(l, k)
    BY <1>3, <2>4
  <2> QED BY <1>6, <2>5 DEF UpTo
<1> QED BY <1>1, <1>3, <1>5, <1>6

\* The points come out in order, none lost and none made up.
LEMMA SortFacts ==
  ASSUME NEW l, IsSeq(l), \A i \in DOMAIN l : l[i][1] \in Int
  PROVE  LET s == sort_lut_data(l)
         IN  /\ IsSeq(s) /\ Len(s) = Len(l) /\ DOMAIN s = DOMAIN l
             /\ \A n \in DOMAIN l : \E k \in DOMAIN l : s[n] = l[k] /\ Cardinality(UpTo(l, k)) = n
             /\ \A m, n \in DOMAIN l : m <= n => s[m][1] <= s[n][1]
<1> DEFINE s == sort_lut_data(l)
           at(n) == CHOOSE k \in DOMAIN l : Cardinality(UpTo(l, k)) = n
           rank == [k \in 1..Len(l) |-> Cardinality(UpTo(l, k))]
<1>1. Len(l) \in Nat /\ DOMAIN l = 1..Len(l) /\ IsFiniteSet(1..Len(l))
  <2>1. Len(l) \in Nat /\ DOMAIN l = 1..Len(l) /\ 1 \in Int /\ Len(l) \in Int
    BY SeqShape
  <2> QED BY <2>1, FS_Interval
<1>2. s = [n \in 1..Len(l) |-> l[at(n)]]
  BY <1>1 DEF sort_lut_data, UpTo, Before
<1>3. rank \in Injection(1..Len(l), 1..Len(l))
  <2>1. rank \in [1..Len(l) -> 1..Len(l)]
    BY <1>1, OrderFacts
  <2>2. ASSUME NEW i \in 1..Len(l), NEW k \in 1..Len(l), rank[i] = rank[k] PROVE i = k
    <3>1. Cardinality(UpTo(l, i)) = Cardinality(UpTo(l, k)) /\ i \in DOMAIN l /\ k \in DOMAIN l
          /\ Cardinality(UpTo(l, i)) \in 1..Len(l)
      BY <1>1, <2>2, OrderFacts
    <3>2. Cardinality(UpTo(l, i)) <= Cardinality(UpTo(l, k)) /\ Cardinality(UpTo(l, k)) <= Cardinality(UpTo(l, i))
      BY <3>1
    <3> QED BY <3>1, <3>2, OrderFacts
  <2> HIDE DEF rank
  <2> QED BY <2>1, <2>2 DEF Injection, IsInjective
<1>4. \A n \in 1..Len(l) : \E k \in 1..Len(l) : rank[k] = n
  <2> HIDE DEF rank
  <2>1. rank \in Surjection(1..Len(l), 1..Len(l))
    BY <1>1, <1>3, FS_Injection
  <2> QED BY <2>1 DEF Surjection
<1>5. \A n \in 1..Len(l) : at(n) \in DOMAIN l /\ Cardinality(UpTo(l, at(n))) = n
  <2>1. \A n \in 1..Len(l) : \E k \in DOMAIN l : Cardinality(UpTo(l, k)) = n
    BY <1>1, <1>4
  <2> QED BY <2>1
<1> HIDE DEF at, s
<1>6. IsSeq(s) /\ Len(s) = Len(l) /\ DOMAIN s = DOMAIN l
  BY <1>1, <1>2, MakeSeq
<1>7. \A n \in DOMAIN l : s[n] = l[at(n)]
  BY <1>1, <1>2
<1>8. ASSUME NEW m \in DOMAIN l, NEW n \in DOMAIN l, m <= n PROVE s[m][1] <= s[n][1]
  <2>0. at(m) \in DOMAIN l /\ at(n) \in DOMAIN l /\ Cardinality(UpTo(l, at(m))) <= Cardinality(UpTo(l, at(n)))
    BY <1>1, <1>5, <1>8
  <2>1. Before(l, at(m), at(n)) /\ at(m) \in DOMAIN l /\ at(n) \in DOMAIN l
    BY <2>0, OrderFacts
  <2>2. l[at(m)][1] \in Int /\ l[at(n)][1] \in Int
    BY <2>1
  <2> QED BY <1>7, <2>1, <2>2 DEF Before
<1> QED BY <1>1, <1>5, <1>6, <1>7, <1>8 DEF s

\* Points in order stay where they are.
LEMMA SortedStays ==
  ASSUME NEW l, IsSeq(l), \A i \in DOMAIN l : l[i][1] \in Int,
         \A m, n \in DOMAIN l : m <= n => l[m][1] <= l[n][1]
  PROVE  sort_lut_data(l) = l
<1> DEFINE s == sort_lut_data(l)
<1>1. Len(l) \in Nat /\ DOMAIN l = 1..Len(l) /\ l = [n \in 1..Len(l) |-> l[n]]
  BY SeqShape
<1>2. ASSUME NEW k \in DOMAIN l PROVE Cardinality(UpTo(l, k)) = k
  <2>1. ASSUME NEW i \in DOMAIN l PROVE Before(l, i, k) <=> i <= k
    <3>1. l[i][1] \in Int /\ l[k][1] \in Int /\ i \in Int /\ k \in Int
      BY <1>1
    <3>2. i <= k => l[i][1] <= l[k][1]
      BY <2>1
    <3>3. k <= i => l[k][1] <= l[i][1]
      BY <2>1
    <3> QED BY <3>1, <3>2, <3>3 DEF Before
  <2>2. UpTo(l, k) = 1..k
    <3>1. \A i : i \in 1..k <=> i \in 1..Len(l) /\ i <= k
      BY <1>1
    <3> QED BY <1>1, <2>1, <3>1 DEF UpTo
  <2>3. 1 \in Int /\ k \in Int /\ k >= 1
    BY <1>1
  <2>4. Cardinality(1..k) = IF 1 > k THEN 0 ELSE k - 1 + 1
    BY <2>3, FS_Interval
  <2> QED BY <2>2, <2>3, <2>4
<1>3. /\ IsSeq(s) /\ Len(s) = Len(l)
      /\ \A n \in DOMAIN l : \E k \in DOMAIN l : s[n] = l[k] /\ Cardinality(UpTo(l, k)) = n
  BY SortFacts
<1> HIDE DEF s
<1>4. \A n \in 1..Len(l) : s[n] = l[n]
  BY <1>1, <1>2, <1>3
<1>5. s = [n \in 1..Len(l) |-> s[n]]
  BY <1>3, SeqShape
<1> QED BY <1>1, <1>4, <1>5 DEF s


\* A curve of the program: its points, and what makes one.
Ascending(l) == \A m, n \in DOMAIN l : m <= n => l[m][1] <= l[n][1]

LEMMA CurveFacts ==
  ASSUME NEW l, IsCurve(l)
  PROVE  /\ IsSeq(l) /\ Len(l) \in 0..LUT_POINTS_CAPACITY /\ DOMAIN l = 1..Len(l) /\ LUT_POINTS_CAPACITY = 3
         /\ \A i \in DOMAIN l : /\ l[i] \in Points /\ l[i] = <<l[i][1], l[i][2]>>
                                /\ l[i][1] \in Int /\ l[i][2] \in Int
                                /\ l[i][1] \in -FLT_MAX..FLT_MAX /\ l[i][2] \in -FLT_MAX..FLT_MAX
<1>1. l \in Seq(Points) /\ Len(l) <= LUT_POINTS_CAPACITY
  BY DEF IsCurve
<1>2. Len(l) \in Nat /\ DOMAIN l = 1..Len(l) /\ \A i \in 1..Len(l) : l[i] \in Points
  BY <1>1, LenProperties, ElementOfSeq
<1>3. LUT_POINTS_CAPACITY = 3
  BY DEF LUT_POINTS_CAPACITY, LUT_RAW_DATA_CAPACITY
<1>4. l \in [1..Len(l) -> Range(l)]
  BY <1>1, LenProperties DEF Range
<1>5. IsSeq(l)
  BY <1>2, <1>4, SeqDef DEF IsSeq
<1>6. FLT_MAX = 40
  BY DEF FLT_MAX
<1>7. ASSUME NEW q \in Points
      PROVE  /\ q = <<q[1], q[2]>> /\ q[1] \in Int /\ q[2] \in Int
             /\ q[1] \in -FLT_MAX..FLT_MAX /\ q[2] \in -FLT_MAX..FLT_MAX
  BY <1>6 DEF Points
<1>8. ASSUME NEW i \in DOMAIN l
      PROVE  /\ l[i] \in Points /\ l[i] = <<l[i][1], l[i][2]>> /\ l[i][1] \in Int /\ l[i][2] \in Int
             /\ l[i][1] \in -FLT_MAX..FLT_MAX /\ l[i][2] \in -FLT_MAX..FLT_MAX
  <2>1. l[i] \in Points
    BY <1>2
  <2> QED BY <1>7, <2>1, Zenon
<1>9. Len(l) \in 0..LUT_POINTS_CAPACITY
  BY <1>1, <1>2, <1>3
<1> QED BY <1>2, <1>3, <1>5, <1>8, <1>9, Zenon

LEMMA PointIs == \A x, y \in -FLT_MAX..FLT_MAX : <<x, y>> \in Points
BY DEF Points

LEMMA MakeCurve ==
  ASSUME NEW n \in Nat, n <= LUT_POINTS_CAPACITY, NEW l, l = [i \in 1..n |-> l[i]],
         \A i \in 1..n : l[i] \in Points
  PROVE  IsCurve(l) /\ IsSeq(l) /\ Len(l) = n /\ DOMAIN l = 1..n
<1>1. l \in [1..n -> Points]
  OBVIOUS
<1>2. l \in Seq(Points)
  BY <1>1, SeqDef
<1>3. IsSeq(l) /\ Len(l) = n /\ DOMAIN l = 1..n
  BY MakeSeq
<1> QED BY <1>2, <1>3 DEF IsCurve

LEMMA EmptyCurve == IsCurve(<<>>)
<1>1. 0 \in Nat /\ 0 <= LUT_POINTS_CAPACITY /\ <<>> = [i \in 1..0 |-> <<>>[i]] /\ 1..0 = {}
  BY DEF LUT_POINTS_CAPACITY, LUT_RAW_DATA_CAPACITY
<1> QED BY <1>1, MakeCurve

LEMMA CurveSorted ==
  ASSUME NEW l, IsCurve(l)
  PROVE  LET s == sort_lut_data(l)
         IN  IsCurve(s) /\ Ascending(s) /\ sort_lut_data(s) = s
<1> DEFINE s == sort_lut_data(l)
<1>1. /\ IsSeq(l) /\ Len(l) \in Nat /\ Len(l) <= LUT_POINTS_CAPACITY /\ DOMAIN l = 1..Len(l)
      /\ \A i \in DOMAIN l : l[i] \in Points /\ l[i][1] \in Int
  BY CurveFacts
<1>2. /\ IsSeq(s) /\ Len(s) = Len(l) /\ DOMAIN s = DOMAIN l
      /\ \A n \in DOMAIN l : \E k \in DOMAIN l : s[n] = l[k]
      /\ Ascending(s)
  BY <1>1, SortFacts DEF Ascending
<1> HIDE DEF s
<1>3. \A i \in DOMAIN s : s[i] \in Points /\ s[i][1] \in Int
  BY <1>1, <1>2
<1>4. s = [i \in 1..Len(l) |-> s[i]]
  BY <1>2, SeqShape
<1>5. IsCurve(s)
  BY <1>1, <1>2, <1>3, <1>4, MakeCurve
<1>6. sort_lut_data(s) = s
  BY <1>2, <1>3, SortedStays DEF Ascending
<1> QED BY <1>2, <1>5, <1>6 DEF s

-----------------------------------------------------------------------------
(* Reading and sanitising *)

ArgsFields == {"mode", "gain", "capmode", "acc", "off", "capx", "capy", "decay", "gamma", "scale", "lut"}
ProfileFields == {"name", "id", "app", "dpi", "disable", "raw", "rot", "odpi", "smin", "smax",
                  "whole", "norm", "weight", "x", "y"}

LEMMA FieldsAre == DOMAIN accel_args = ArgsFields /\ DOMAIN device_profile = ProfileFields
BY DEF accel_args, device_profile, ArgsFields, ProfileFields

LEMMA IntIsNoMark ==
  /\ \A v \in Int : v \notin {Absent, Wrong, Inf}
  /\ \A v \in Str : v \notin {Absent, Wrong, Inf}
<1>1. {Absent, Wrong, Inf} \cap (Int \cup Str) = {}
  BY EditAssumption, Zenon
<1> QED BY <1>1, Zenon

\* An axis and a profile as they are before they are sanitised.
ReadArgs(a) ==
  /\ a = [f \in ArgsFields |-> a[f]]
  /\ a.mode \in Modes /\ a.capmode \in CapModes /\ a.gain \in {0, 1} /\ IsCurve(a.lut)
  /\ \A f \in {"acc", "off", "decay", "gamma", "scale"} : a[f] \in Int
  /\ a.capx \in Int \cup {Inf} /\ a.capy \in Int \cup {Inf}
ReadProfile(p) ==
  /\ p = [f \in ProfileFields |-> p[f]]
  /\ {p.name, p.id, p.app} \subseteq Short /\ {p.whole, p.raw, p.disable} \subseteq {0, 1}
  /\ \A f \in {"rot", "odpi", "smin", "smax", "weight", "norm"} : p[f] \in Int \cup {Inf}
  /\ p.dpi \in Int
  /\ ReadArgs(p.x) /\ ReadArgs(p.y)

LEMMA ClampType ==
  ASSUME NEW v \in Int, NEW lo \in Int, NEW hi \in Int
  PROVE  /\ Clamp(v, lo, hi) \in Int /\ Least(v, lo) \in Int /\ Most(v, lo) \in Int
         /\ lo <= v /\ v <= hi => Clamp(v, lo, hi) = v
         /\ lo <= hi => lo <= Clamp(v, lo, hi) /\ Clamp(v, lo, hi) <= hi
BY DEF Clamp, Least, Most

LEMMA FiniteType ==
  ASSUME NEW v \in Int \cup {Inf}, NEW d \in Int
  PROVE  finite_or(v, d) \in Int /\ (v \in Int => finite_or(v, d) = v)
BY IntIsNoMark DEF finite_or

LEMMA ArgsSanitised ==
  ASSUME NEW a, ReadArgs(a)
  PROVE  LET s == sanitize_accel_args(a)
             capy == IF a.acc < 0 /\ finite_or(a.capy, 0) > 0 THEN 0 ELSE finite_or(a.capy, 0)
             decay == IF a.mode = "natural" /\ a.decay > 0 THEN Most(a.decay, NATURAL_DECAY_RATE_MIN)
                      ELSE Most(a.decay, 0)
             off == Most(a.off, 0)
             floored == Most(finite_or(a.capx, 0), 0)
             capx == IF a.mode = "classic" /\ a.capmode \in {"io", "in"} THEN Most(floored, off)
                     ELSE floored
         IN  /\ s = [f \in ArgsFields |-> s[f]]
             /\ s.acc = Least(a.acc, ACCEL_MAX) /\ s.off = Least(off, CAP_X_MAX) /\ s.capx = Least(capx, CAP_X_MAX)
             /\ s.capy = Clamp(capy, 0, CAP_Y_MAX) /\ s.decay = Least(decay, DECAY_RATE_MAX)
             /\ s.scale = Clamp(a.scale, SCALE_MIN, SCALE_MAX) /\ s.gamma = Clamp(a.gamma, 0, GAMMA_MAX)
             /\ finite_or(a.capx, 0) \in Int /\ finite_or(a.capy, 0) \in Int
             /\ IsArgs(s) /\ s.mode = a.mode /\ s.gain = a.gain /\ s.capmode = a.capmode /\ s.lut = sort_lut_data(a.lut)
<1> DEFINE s == sanitize_accel_args(a)
<1>0. /\ ACCEL_MAX \in Int /\ CAP_X_MAX \in Int /\ CAP_Y_MAX \in Int /\ DECAY_RATE_MAX \in Int
      /\ SCALE_MIN \in Int /\ SCALE_MAX \in Int /\ NATURAL_DECAY_RATE_MIN \in Int /\ GAMMA_MAX \in Int /\ 0 \in Int
  BY DEF ACCEL_MAX, CAP_X_MAX, CAP_Y_MAX, DECAY_RATE_MAX, SCALE_MIN, SCALE_MAX, NATURAL_DECAY_RATE_MIN, GAMMA_MAX
<1>1. /\ a = [f \in ArgsFields |-> a[f]] /\ a.mode \in Modes /\ a.capmode \in CapModes
      /\ a.acc \in Int /\ a.off \in Int /\ a.decay \in Int /\ a.scale \in Int /\ a.gamma \in Int
      /\ finite_or(a.capx, 0) \in Int /\ finite_or(a.capy, 0) \in Int
  <2>1. a.capx \in Int \cup {Inf} /\ a.capy \in Int \cup {Inf} /\ 0 \in Int
    BY DEF ReadArgs
  <2>2. finite_or(a.capx, 0) \in Int /\ finite_or(a.capy, 0) \in Int
    BY <2>1, FiniteType
  <2> QED BY <2>2 DEF ReadArgs
<1> DEFINE capy == IF a.acc < 0 /\ finite_or(a.capy, 0) > 0 THEN 0 ELSE finite_or(a.capy, 0)
      decay == IF a.mode = "natural" /\ a.decay > 0 THEN Most(a.decay, NATURAL_DECAY_RATE_MIN)
               ELSE Most(a.decay, 0)
      off == Most(a.off, 0)
      floored == Most(finite_or(a.capx, 0), 0)
      capx == IF a.mode = "classic" /\ a.capmode \in {"io", "in"} THEN Most(floored, off)
              ELSE floored
<1>2. /\ s = [a EXCEPT !.acc = Least(@, ACCEL_MAX), !.off = Least(off, CAP_X_MAX),
                       !.capx = Least(capx, CAP_X_MAX), !.capy = Clamp(capy, 0, CAP_Y_MAX),
                       !.decay = Least(decay, DECAY_RATE_MAX), !.gamma = Clamp(@, 0, GAMMA_MAX),
                       !.scale = Clamp(@, SCALE_MIN, SCALE_MAX), !.lut = sort_lut_data(@)]
  BY DEF sanitize_accel_args
<1>3. capy \in Int /\ decay \in Int /\ off \in Int /\ capx \in Int
  BY <1>0, <1>1, ClampType
<1> HIDE DEF capy, decay, off, capx, s
<1>4. /\ Least(a.acc, ACCEL_MAX) \in Int /\ Least(off, CAP_X_MAX) \in Int /\ Least(capx, CAP_X_MAX) \in Int
      /\ Clamp(capy, 0, CAP_Y_MAX) \in Int /\ Least(decay, DECAY_RATE_MAX) \in Int
      /\ Clamp(a.scale, SCALE_MIN, SCALE_MAX) \in Int /\ Clamp(a.gamma, 0, GAMMA_MAX) \in Int
  BY <1>0, <1>1, <1>3, ClampType
<1>5. /\ s = [f \in ArgsFields |-> s[f]]
      /\ s.mode = a.mode /\ s.gain = a.gain /\ s.capmode = a.capmode
      /\ s.acc = Least(a.acc, ACCEL_MAX) /\ s.off = Least(off, CAP_X_MAX) /\ s.capx = Least(capx, CAP_X_MAX)
      /\ s.capy = Clamp(capy, 0, CAP_Y_MAX) /\ s.decay = Least(decay, DECAY_RATE_MAX)
      /\ s.scale = Clamp(a.scale, SCALE_MIN, SCALE_MAX) /\ s.gamma = Clamp(a.gamma, 0, GAMMA_MAX)
      /\ s.lut = sort_lut_data(a.lut)
  BY <1>1, <1>2 DEF ArgsFields
<1>6. \A f \in ArgsNumbers : s[f] \in Int
  BY <1>4, <1>5 DEF ArgsNumbers
<1>7. IsArgs(s)
  <2>1. a.gain \in {0, 1} /\ IsCurve(a.lut)
    BY DEF ReadArgs
  <2>2. IsCurve(s.lut)
    BY <1>5, <2>1, CurveSorted
  <2> QED BY <1>1, <1>5, <1>6, <2>1, <2>2, FieldsAre DEF IsArgs
<1> QED BY <1>1, <1>5, <1>7 DEF s, capy, decay, off, capx

LEMMA ProfileSanitised ==
  ASSUME NEW p, ReadProfile(p)
  PROVE  LET s == sanitize_device_profile(p)
             speed == SpeedLimits(Most(finite_or(p.smin, 0), 0), Most(finite_or(p.smax, 0), 0))
             norm == finite_or(p.norm, EUCLIDEAN)
         IN  /\ s = [f \in ProfileFields |-> s[f]]
             /\ s.rot = finite_or(p.rot, 0) % CIRCLE /\ s.odpi = OutputDpi(finite_or(p.odpi, device_profile.odpi))
             /\ s.smin = speed[1] /\ s.smax = speed[2] /\ s.norm = (IF norm <= 0 THEN EUCLIDEAN ELSE norm)
             /\ s.weight = Clamp(finite_or(p.weight, 1), 0, WEIGHT_MAX) /\ s.dpi = Clamp(p.dpi, 1, DPI_MAX)
             /\ finite_or(p.rot, 0) \in Int /\ finite_or(p.odpi, device_profile.odpi) \in Int
             /\ finite_or(p.smin, 0) \in Int /\ finite_or(p.smax, 0) \in Int
             /\ finite_or(p.weight, 1) \in Int /\ norm \in Int
             /\ IsProfile(s) /\ s.name = p.name
             /\ s.id = p.id /\ s.app = p.app /\ s.whole = p.whole /\ s.disable = p.disable /\ s.raw = p.raw
             /\ s.x = sanitize_accel_args(p.x) /\ s.y = sanitize_accel_args(p.y)
<1> DEFINE s == sanitize_device_profile(p)
           smin == Most(finite_or(p.smin, 0), 0)
           smax == Most(finite_or(p.smax, 0), 0)
           speed == SpeedLimits(smin, smax)
           norm == finite_or(p.norm, EUCLIDEAN)
<1>0. /\ CIRCLE = 4 /\ EUCLIDEAN \in Int /\ WEIGHT_MAX \in Int /\ DPI_MAX \in Int /\ SPEED_MAX \in Int
      /\ OUTPUT_DPI_MIN \in Int /\ device_profile.odpi \in Int
  BY DEF CIRCLE, EUCLIDEAN, WEIGHT_MAX, DPI_MAX, SPEED_MAX, OUTPUT_DPI_MIN, device_profile
<1>1. /\ p = [f \in ProfileFields |-> p[f]] /\ {p.name, p.id, p.app} \subseteq Short /\ {p.whole, p.raw, p.disable} \subseteq {0, 1}
      /\ p.dpi \in Int /\ ReadArgs(p.x) /\ ReadArgs(p.y)
      /\ p.rot \in Int \cup {Inf} /\ p.odpi \in Int \cup {Inf} /\ p.smin \in Int \cup {Inf}
      /\ p.smax \in Int \cup {Inf} /\ p.weight \in Int \cup {Inf} /\ p.norm \in Int \cup {Inf}
  BY DEF ReadProfile
<1>2. /\ finite_or(p.rot, 0) \in Int /\ finite_or(p.odpi, device_profile.odpi) \in Int
      /\ finite_or(p.smin, 0) \in Int /\ finite_or(p.smax, 0) \in Int
      /\ finite_or(p.weight, 1) \in Int /\ norm \in Int
  BY <1>0, <1>1, FiniteType
<1>3. smin \in Int /\ smax \in Int
  BY <1>2, ClampType
<1>4. speed[1] \in Int /\ speed[2] \in Int /\ (speed[2] > 0 => speed[2] >= speed[1])
  <2> HIDE DEF smin, smax
  <2> QED BY <1>0, <1>3 DEF SpeedLimits, Least
<1>5. OutputDpi(finite_or(p.odpi, device_profile.odpi)) \in Int
  <2>1. \A v \in Int : OutputDpi(v) \in Int
    BY <1>0, ClampType DEF OutputDpi
  <2> QED BY <1>2, <2>1
<1>6. finite_or(p.rot, 0) % CIRCLE \in Int
  BY <1>0, <1>2
<1>7. Clamp(finite_or(p.weight, 1), 0, WEIGHT_MAX) \in Int /\ Clamp(p.dpi, 1, DPI_MAX) \in Int
  <2>1. Clamp(finite_or(p.weight, 1), 0, WEIGHT_MAX) \in Int
    <3>1. 0 \in Int /\ WEIGHT_MAX \in Int /\ finite_or(p.weight, 1) \in Int
      BY <1>0, <1>2
    <3> QED BY <3>1, ClampType
  <2>2. Clamp(p.dpi, 1, DPI_MAX) \in Int
    <3>1. 1 \in Int /\ DPI_MAX \in Int /\ p.dpi \in Int
      BY <1>0, <1>1
    <3> QED BY <3>1, ClampType
  <2> QED BY <2>1, <2>2
<1>8. s = [[p EXCEPT !.rot = finite_or(@, 0) % CIRCLE,
                !.odpi = OutputDpi(finite_or(@, device_profile.odpi)),
                !.smin = speed[1],
                !.smax = speed[2],
                !.norm = IF norm <= 0 THEN EUCLIDEAN ELSE norm,
                !.weight = Clamp(finite_or(@, 1), 0, WEIGHT_MAX),
                !.x = sanitize_accel_args(@),
                !.y = sanitize_accel_args(@)] EXCEPT !.dpi = Clamp(@, 1, DPI_MAX)]
  BY DEF sanitize_device_profile, sanitize_profile
<1> HIDE DEF s, speed, norm, smin, smax
<1>9. /\ s = [f \in ProfileFields |-> s[f]]
      /\ s.name = p.name /\ s.id = p.id /\ s.app = p.app /\ s.whole = p.whole /\ s.disable = p.disable /\ s.raw = p.raw
      /\ s.x = sanitize_accel_args(p.x) /\ s.y = sanitize_accel_args(p.y)
      /\ s.rot = finite_or(p.rot, 0) % CIRCLE /\ s.odpi = OutputDpi(finite_or(p.odpi, device_profile.odpi))
      /\ s.smin = speed[1] /\ s.smax = speed[2] /\ s.norm = (IF norm <= 0 THEN EUCLIDEAN ELSE norm)
      /\ s.weight = Clamp(finite_or(p.weight, 1), 0, WEIGHT_MAX) /\ s.dpi = Clamp(p.dpi, 1, DPI_MAX)
  BY <1>1, <1>8 DEF ProfileFields
<1>10. IsArgs(s.x) /\ IsArgs(s.y)
  BY <1>1, <1>9, ArgsSanitised
<1>11. \A f \in ProfileNumbers : s[f] \in Int
  BY <1>0, <1>2, <1>4, <1>5, <1>6, <1>7, <1>9 DEF ProfileNumbers
<1>12. IsProfile(s)
  BY <1>1, <1>4, <1>9, <1>10, <1>11, FieldsAre DEF IsProfile
<1> QED BY <1>2, <1>9, <1>12 DEF s, speed, norm, smin, smax

LEMMA LoadedIsRead ==
  /\ \A a : IsArgs(a) => ReadArgs(a)
  /\ \A dp : IsProfile(dp) => ReadProfile(dp)
<1>1. \A a : IsArgs(a) => ReadArgs(a)
  BY FieldsAre DEF IsArgs, ReadArgs, ArgsNumbers
<1>2. ASSUME NEW dp, IsProfile(dp) PROVE ReadProfile(dp)
  BY <1>1, <1>2, FieldsAre DEF IsProfile, ReadProfile, ProfileNumbers
<1> QED BY <1>1, <1>2


\* What is sanitised stays as it is when it is sanitised again.
LEMMA ArgsSettle ==
  ASSUME NEW a, ReadArgs(a)
  PROVE  LET s == sanitize_accel_args(a) IN sanitize_accel_args(s) = s
<1> DEFINE s == sanitize_accel_args(a)
           t == sanitize_accel_args(s)
           y == finite_or(a.capy, 0)
           x == finite_or(a.capx, 0)
<1>0. /\ ACCEL_MAX = 3 /\ CAP_X_MAX = 4 /\ CAP_Y_MAX = 3 /\ DECAY_RATE_MAX = 4
      /\ SCALE_MIN = 1 /\ SCALE_MAX = 4 /\ NATURAL_DECAY_RATE_MIN = 2 /\ GAMMA_MAX = 3
  BY DEF ACCEL_MAX, CAP_X_MAX, CAP_Y_MAX, DECAY_RATE_MAX, SCALE_MIN, SCALE_MAX, NATURAL_DECAY_RATE_MIN, GAMMA_MAX
<1>1. a.acc \in Int /\ a.off \in Int /\ a.decay \in Int /\ a.scale \in Int /\ a.gamma \in Int /\ x \in Int /\ y \in Int
  <2>1. a.acc \in Int /\ a.off \in Int /\ a.decay \in Int /\ a.scale \in Int /\ a.gamma \in Int
    BY DEF ReadArgs
  <2> QED BY <2>1, ArgsSanitised
<1>2. /\ s = [f \in ArgsFields |-> s[f]] /\ IsArgs(s) /\ ReadArgs(s)
      /\ s.mode = a.mode /\ s.gain = a.gain /\ s.capmode = a.capmode /\ s.lut = sort_lut_data(a.lut)
      /\ s.acc = Least(a.acc, 3) /\ s.off = Least(Most(a.off, 0), 4)
      /\ s.capx = Least(IF a.mode = "classic" /\ a.capmode \in {"io", "in"} THEN Most(Most(x, 0), Most(a.off, 0))
                        ELSE Most(x, 0), 4)
      /\ s.capy = Clamp(IF a.acc < 0 /\ y > 0 THEN 0 ELSE y, 0, 3)
      /\ s.decay = Least(IF a.mode = "natural" /\ a.decay > 0 THEN Most(a.decay, 2) ELSE Most(a.decay, 0), 4)
      /\ s.scale = Clamp(a.scale, 1, 4) /\ s.gamma = Clamp(a.gamma, 0, 3)
  BY <1>0, ArgsSanitised, LoadedIsRead
<1>3. s.acc \in Int /\ s.off \in Int /\ s.decay \in Int /\ s.scale \in Int /\ s.gamma \in Int /\ s.capx \in Int /\ s.capy \in Int
  BY <1>2 DEF IsArgs, ArgsNumbers
<1> HIDE DEF s
<1>4. finite_or(s.capx, 0) = s.capx /\ finite_or(s.capy, 0) = s.capy
  BY <1>3, FiniteType
<1>5. /\ t = [f \in ArgsFields |-> t[f]]
      /\ t.mode = s.mode /\ t.gain = s.gain /\ t.capmode = s.capmode /\ t.lut = sort_lut_data(s.lut)
      /\ t.acc = Least(s.acc, 3) /\ t.off = Least(Most(s.off, 0), 4)
      /\ t.capx = Least(IF s.mode = "classic" /\ s.capmode \in {"io", "in"} THEN Most(Most(s.capx, 0), Most(s.off, 0))
                        ELSE Most(s.capx, 0), 4)
      /\ t.capy = Clamp(IF s.acc < 0 /\ s.capy > 0 THEN 0 ELSE s.capy, 0, 3)
      /\ t.decay = Least(IF s.mode = "natural" /\ s.decay > 0 THEN Most(s.decay, 2) ELSE Most(s.decay, 0), 4)
      /\ t.scale = Clamp(s.scale, 1, 4) /\ t.gamma = Clamp(s.gamma, 0, 3)
  BY <1>0, <1>2, <1>4, ArgsSanitised
<1> HIDE DEF t, x, y
<1>6. t.acc = s.acc /\ t.off = s.off /\ t.scale = s.scale /\ t.gamma = s.gamma
  BY <1>1, <1>2, <1>3, <1>5 DEF Least, Most, Clamp
<1>7. t.decay = s.decay
  BY <1>1, <1>2, <1>3, <1>5 DEF Least, Most
<1>8. t.capy = s.capy
  BY <1>1, <1>2, <1>3, <1>5 DEF Least, Most, Clamp
<1>9. t.capx = s.capx
  <2>1. CASE a.mode = "classic" /\ a.capmode \in {"io", "in"}
    BY <1>1, <1>2, <1>3, <1>5, <2>1 DEF Least, Most
  <2>2. CASE ~(a.mode = "classic" /\ a.capmode \in {"io", "in"})
    BY <1>1, <1>2, <1>3, <1>5, <2>2 DEF Least, Most
  <2> QED BY <2>1, <2>2
<1>10. t.lut = s.lut
  <2>1. IsCurve(a.lut)
    BY DEF ReadArgs
  <2> QED BY <1>2, <1>5, <2>1, CurveSorted
<1>11. \A f \in ArgsFields : t[f] = s[f]
  BY <1>5, <1>6, <1>7, <1>8, <1>9, <1>10 DEF ArgsFields
<1> QED BY <1>2, <1>5, <1>11 DEF s, t

LEMMA ProfileSettles ==
  ASSUME NEW p, ReadProfile(p)
  PROVE  LET s == sanitize_device_profile(p) IN sanitize_device_profile(s) = s
<1> DEFINE s == sanitize_device_profile(p)
           t == sanitize_device_profile(s)
           rot == finite_or(p.rot, 0)
           odpi == finite_or(p.odpi, device_profile.odpi)
           smin == finite_or(p.smin, 0)
           smax == finite_or(p.smax, 0)
           weight == finite_or(p.weight, 1)
           norm == finite_or(p.norm, EUCLIDEAN)
<1>0. CIRCLE = 4 /\ EUCLIDEAN = 3 /\ WEIGHT_MAX = 4 /\ DPI_MAX = 4 /\ SPEED_MAX = 4 /\ OUTPUT_DPI_MIN = 2
      /\ device_profile.odpi \in Int
  BY DEF CIRCLE, EUCLIDEAN, WEIGHT_MAX, DPI_MAX, SPEED_MAX, OUTPUT_DPI_MIN, device_profile
<1>1. p.dpi \in Int /\ ReadArgs(p.x) /\ ReadArgs(p.y)
  BY DEF ReadProfile
<1>2. /\ s = [f \in ProfileFields |-> s[f]] /\ IsProfile(s) /\ ReadProfile(s)
      /\ s.rot = rot % 4 /\ s.odpi = OutputDpi(odpi)
      /\ s.smin = SpeedLimits(Most(smin, 0), Most(smax, 0))[1]
      /\ s.smax = SpeedLimits(Most(smin, 0), Most(smax, 0))[2]
      /\ s.norm = (IF norm <= 0 THEN 3 ELSE norm)
      /\ s.weight = Clamp(weight, 0, 4) /\ s.dpi = Clamp(p.dpi, 1, 4)
      /\ s.x = sanitize_accel_args(p.x) /\ s.y = sanitize_accel_args(p.y)
      /\ rot \in Int /\ odpi \in Int /\ smin \in Int /\ smax \in Int /\ weight \in Int /\ norm \in Int
  BY <1>0, ProfileSanitised, LoadedIsRead
<1>3. /\ s.rot \in Int /\ s.odpi \in Int /\ s.smin \in Int /\ s.smax \in Int /\ s.weight \in Int /\ s.norm \in Int
      /\ s.dpi \in Int
  BY <1>2 DEF IsProfile, ProfileNumbers
<1> HIDE DEF s
<1>4. /\ finite_or(s.rot, 0) = s.rot /\ finite_or(s.odpi, device_profile.odpi) = s.odpi
      /\ finite_or(s.smin, 0) = s.smin /\ finite_or(s.smax, 0) = s.smax /\ finite_or(s.weight, 1) = s.weight
      /\ finite_or(s.norm, EUCLIDEAN) = s.norm
  BY <1>0, <1>3, FiniteType
<1>5. /\ t = [f \in ProfileFields |-> t[f]]
      /\ t.rot = s.rot % 4 /\ t.odpi = OutputDpi(s.odpi)
      /\ t.smin = SpeedLimits(Most(s.smin, 0), Most(s.smax, 0))[1]
      /\ t.smax = SpeedLimits(Most(s.smin, 0), Most(s.smax, 0))[2]
      /\ t.norm = (IF s.norm <= 0 THEN 3 ELSE s.norm)
      /\ t.weight = Clamp(s.weight, 0, 4) /\ t.dpi = Clamp(s.dpi, 1, 4)
      /\ t.x = sanitize_accel_args(s.x) /\ t.y = sanitize_accel_args(s.y)
      /\ t.name = s.name /\ t.id = s.id /\ t.app = s.app /\ t.whole = s.whole /\ t.disable = s.disable /\ t.raw = s.raw
  BY <1>0, <1>2, <1>4, ProfileSanitised
<1> HIDE DEF t, rot, odpi, smin, smax, weight, norm
<1>6. t.rot = s.rot
  BY <1>2, <1>3, <1>5
<1>7. t.odpi = s.odpi
  BY <1>0, <1>2, <1>3, <1>5 DEF OutputDpi, Clamp, Least, Most
<1>8. t.weight = s.weight /\ t.dpi = s.dpi /\ t.norm = s.norm
  BY <1>1, <1>2, <1>3, <1>5 DEF Clamp, Least, Most
<1>9. t.smin = s.smin /\ t.smax = s.smax
  <2>1. \A a, b \in Int :
          /\ SpeedLimits(a, b)[1] = Least(a, 4)
          /\ SpeedLimits(a, b)[2] = LET high == Least(IF b > 0 /\ b < a THEN a ELSE b, 4)
                                    IN  IF high > 0 /\ high < Least(a, 4) THEN Least(a, 4) ELSE high
    BY <1>0 DEF SpeedLimits
  <2>2. Most(smin, 0) \in Int /\ Most(smax, 0) \in Int /\ Most(s.smin, 0) \in Int /\ Most(s.smax, 0) \in Int
    BY <1>2, <1>3 DEF Most
  <2>3. s.smin = Least(Most(smin, 0), 4) /\ t.smin = Least(Most(s.smin, 0), 4)
    BY <1>2, <1>5, <2>1, <2>2
  <2>4. t.smin = s.smin
    BY <1>2, <1>3, <2>3 DEF Least, Most
  <2>5. /\ s.smax = LET high == Least(IF Most(smax, 0) > 0 /\ Most(smax, 0) < Most(smin, 0) THEN Most(smin, 0) ELSE Most(smax, 0), 4)
                    IN  IF high > 0 /\ high < Least(Most(smin, 0), 4) THEN Least(Most(smin, 0), 4) ELSE high
        /\ t.smax = LET high == Least(IF Most(s.smax, 0) > 0 /\ Most(s.smax, 0) < Most(s.smin, 0) THEN Most(s.smin, 0) ELSE Most(s.smax, 0), 4)
                    IN  IF high > 0 /\ high < Least(Most(s.smin, 0), 4) THEN Least(Most(s.smin, 0), 4) ELSE high
    BY <1>2, <1>5, <2>1, <2>2
  <2>6. t.smax = s.smax
    BY <1>2, <1>3, <2>3, <2>5 DEF Least, Most
  <2> QED BY <2>4, <2>6
<1>10. t.x = s.x /\ t.y = s.y
  BY <1>1, <1>2, <1>5, ArgsSettle
<1>11. \A f \in ProfileFields : t[f] = s[f]
  BY <1>5, <1>6, <1>7, <1>8, <1>9, <1>10 DEF ProfileFields
<1> QED BY <1>2, <1>5, <1>11 DEF s, t
LEMMA StringFacts ==
  /\ Short \subseteq Str /\ "" \in Short /\ "default" \in Short
  /\ \A n \in Str : Cut[n] \in Short /\ Trim[n] \in Str
  /\ \A n \in Short : Cut[n] = n /\ n \notin {Absent, Wrong, Inf}
BY EditAssumption, IntIsNoMark DEF Short

LEMMA ConstantsTyped ==
  /\ ReadArgs(accel_args) /\ IsArgs(accel_args)
  /\ IsProfile(device_profile)
<1>0. IsCurve(accel_args.lut)
  BY EmptyCurve DEF accel_args
<1>1. ReadArgs(accel_args) /\ IsArgs(accel_args)
  BY <1>0, FieldsAre DEF ReadArgs, IsArgs, accel_args, ArgsFields, ArgsNumbers, Modes, CapModes
<1>2. {device_profile.name, device_profile.id, device_profile.app} \subseteq Short
      /\ {device_profile.whole, device_profile.raw, device_profile.disable} \subseteq {0, 1}
  BY StringFacts DEF device_profile
<1>3. device_profile.x = accel_args /\ device_profile.y = accel_args
      /\ device_profile = [f \in ProfileFields |-> device_profile[f]]
  BY DEF device_profile, ProfileFields
<1>4. \A f \in ProfileNumbers : device_profile[f] \in Int
  <2>1. /\ device_profile.dpi = 2 /\ device_profile.odpi = 3 /\ device_profile.rot = 0
        /\ device_profile.smin = 0 /\ device_profile.smax = 0 /\ device_profile.weight = 1
        /\ device_profile.norm = 3
    BY DEF device_profile, EUCLIDEAN
  <2> QED BY <2>1 DEF ProfileNumbers
<1>5. device_profile.smax > 0 => device_profile.smax >= device_profile.smin
  BY DEF device_profile
<1> QED BY <1>1, <1>2, <1>3, <1>4, <1>5, FieldsAre DEF IsProfile

\* The version of a config: what is no version is told apart, and the program's
\* own is one.
IsVersionHeld(v) == v = Bad \/ v \in Seq(Int)

LEMMA VersionFacts ==
  /\ IsVersionHeld(RAWACCEL_VERSION) /\ RAWACCEL_VERSION \in Seq(Int) /\ RAWACCEL_VERSION # <<>>
  /\ \A v : IsVersion(v) => IsVersionHeld(VersionOf(v))
<1>1. RAWACCEL_VERSION \in Seq(Int) /\ RAWACCEL_VERSION # <<>> /\ <<>> \in Seq(Int)
  BY DEF RAWACCEL_VERSION
<1> QED BY <1>1 DEF IsVersionHeld, IsVersion, VersionOf

\* What is older than 0.3 or 0.4 is older than the program.
LEMMA OlderIsOlder ==
  ASSUME NEW v \in Seq(Int), NEW k \in {3, 4}, version_lt(v, <<0, k, 0>>)
  PROVE  version_lt(v, RAWACCEL_VERSION)
<1> DEFINE at(w, i) == IF i <= Len(w) THEN w[i] ELSE 0
           b == <<0, k, 0>>
<1>1. CASE v \in {Bad, <<>>}
  BY <1>1 DEF version_lt
<1>2. CASE v \notin {Bad, <<>>}
  <2>0. Len(v) \in Nat /\ (Len(v) >= 1 => v[1] \in Int)
    BY LenProperties, ElementOfSeq
  <2>1. PICK i \in 1..Most(Len(v), Len(b)) : at(v, i) < at(b, i) /\ \A q \in 1..(i - 1) : at(v, q) = at(b, q)
    BY <1>2 DEF version_lt
  <2>2. Len(b) = 3 /\ b[1] = 0 /\ at(b, 1) = 0 /\ RAWACCEL_VERSION[1] = 1 /\ Len(RAWACCEL_VERSION) = 3
    BY DEF RAWACCEL_VERSION
  <2> HIDE DEF b
  <2>3. at(v, 1) <= 0 /\ at(v, 1) \in Int
    <3>0. at(v, 1) \in Int
      BY <2>0
    <3>1. CASE i = 1
      BY <2>1, <2>2, <3>0, <3>1
    <3>2. CASE i # 1
      <4>1. 1 \in 1..(i - 1)
        BY <2>0, <2>1, <2>2, <3>2 DEF Most
      <4>2. at(v, 1) = at(b, 1)
        BY <2>1, <4>1
      <4> QED BY <2>2, <3>0, <4>2
    <3> QED BY <3>1, <3>2
  <2>4. at(RAWACCEL_VERSION, 1) = 1 /\ 1 \in 1..Most(Len(v), Len(RAWACCEL_VERSION)) /\ 1..(1 - 1) = {}
    BY <2>0, <2>2 DEF Most
  <2>5. at(v, 1) < at(RAWACCEL_VERSION, 1)
    BY <2>3, <2>4
  <2> QED BY <2>4, <2>5 DEF version_lt
<1> QED BY <1>1, <1>2

\* What is written for a version is never migrated again.
WrittenVersion(v) == IF version_lt(v, RAWACCEL_VERSION) THEN RAWACCEL_VERSION ELSE v

LEMMA WrittenIsNew ==
  ASSUME NEW v, IsVersionHeld(v)
  PROVE  LET w == WrittenVersion(v)
         IN  /\ w \in Seq(Int) /\ IsVersionHeld(w) /\ IsVersion(w)
             /\ w = RAWACCEL_VERSION \/ ~(version_lt(w, <<0, 3, 0>>) \/ version_lt(w, <<0, 4, 0>>))
<1>1. CASE version_lt(v, RAWACCEL_VERSION)
  BY <1>1, VersionFacts DEF WrittenVersion, IsVersionHeld, IsVersion
<1>2. CASE ~version_lt(v, RAWACCEL_VERSION)
  <2>1. v # Bad
    BY <1>2 DEF version_lt
  <2>2. v \in Seq(Int)
    BY <2>1 DEF IsVersionHeld
  <2>3. ~version_lt(v, <<0, 3, 0>>) /\ ~version_lt(v, <<0, 4, 0>>)
    BY <1>2, <2>2, OlderIsOlder
  <2> QED BY <1>2, <2>2, <2>3 DEF WrittenVersion, IsVersionHeld, IsVersion
<1> QED BY <1>1, <1>2

\* A config in memory.
ConfigFields == {"version", "active", "raw", "profiles"}
IsConfig(c) ==
  /\ c = [f \in ConfigFields |-> c[f]]
  /\ IsSeq(c.profiles) /\ \A i \in DOMAIN c.profiles : IsProfile(c.profiles[i])
  /\ c.active \in Short /\ c.raw \in {0, 1} /\ IsVersionHeld(c.version)

\* The profiles of d have the names of those of c, in their order.
SameNames(c, d) ==
  /\ Len(d.profiles) = Len(c.profiles) /\ DOMAIN d.profiles = DOMAIN c.profiles
  /\ \A i \in DOMAIN c.profiles : d.profiles[i].name = c.profiles[i].name
  /\ d.active = c.active

LEMMA SoundIsInNames ==
  ASSUME NEW c, NEW d, SameNames(c, d), Sound(c)
  PROVE  Sound(d) /\ NamesOf(d) = NamesOf(c)
<1>1. NamesOf(d) = NamesOf(c)
  BY DEF SameNames, NamesOf
<1> QED BY <1>1 DEF SameNames, Sound

LEMMA AppConfigTyped ==
  /\ IsConfig(app_config) /\ app_config.profiles = <<>> /\ app_config.active = "default"
<1>1. /\ app_config.profiles = <<>> /\ app_config.active = "default"
      /\ app_config = [f \in ConfigFields |-> app_config[f]]
      /\ app_config.raw \in {0, 1} /\ app_config.version = <<>> /\ <<>> \in Seq(Int)
  BY DEF app_config, ConfigFields
<1> QED BY <1>1, EmptyFacts, StringFacts DEF IsConfig, IsVersionHeld

-----------------------------------------------------------------------------
LEMMA CurveRead ==
  ASSUME NEW j, IsAxisJson(j)
  PROVE  IsCurve(LutOf(j))
<1> DEFINE raw == CASE j.len = Absent -> Len(j.lut)
                    [] j.len \in {Wrong, Inf} -> 0
                    [] OTHER -> Most(j.len, 0)
           n == Least(Least(raw, LUT_RAW_DATA_CAPACITY), Len(j.lut))
           v(i) == IF j.lut[i] \in {Wrong, Inf} THEN 0
                   ELSE Clamp(j.lut[i], -FLT_MAX, FLT_MAX)
           l == [i \in 1..(n \div 2) |-> <<v(2 * i - 1), v(2 * i)>>]
<1>1. CASE j.lut \in {Absent, Wrong}
  BY <1>1, EmptyCurve DEF LutOf
<1>2. CASE j.lut \notin {Absent, Wrong}
  <2>1. LutOf(j) = l
    BY <1>2 DEF LutOf
  <2>2. j.lut \in Seq(Int \cup {Wrong}) /\ Len(j.lut) \in Nat
    BY <1>2, LenProperties DEF IsAxisJson
  <2>3. j.len \in Int \cup {Absent, Wrong}
    BY DEF IsAxisJson, IsNumber
  <2>4. raw \in Nat
    <3>1. CASE j.len = Absent
      BY <2>2, <3>1
    <3>2. CASE j.len # Absent /\ j.len \in {Wrong, Inf}
      BY <3>2
    <3>3. CASE j.len # Absent /\ j.len \notin {Wrong, Inf}
      BY <2>3, <3>3 DEF Most
    <3> QED BY <3>1, <3>2, <3>3
  <2> HIDE DEF raw
  <2>5. n \in Nat /\ n <= 6 /\ n <= Len(j.lut)
    BY <2>2, <2>4 DEF Least, LUT_RAW_DATA_CAPACITY
  <2> HIDE DEF n
  <2>6. n \div 2 \in Nat /\ n \div 2 <= 3 /\ 2 * (n \div 2) <= n
    BY <2>5
  <2>7. \A i \in 1..n : v(i) \in -FLT_MAX..FLT_MAX
    <3>1. \A i \in 1..n : j.lut[i] \in Int \cup {Wrong}
      BY <2>2, <2>5, ElementOfSeq
    <3> QED BY <3>1 DEF Clamp, Least, Most, FLT_MAX
  <2> HIDE DEF v
  <2>8. \A i \in 1..(n \div 2) : l[i] \in Points
    <3>1. ASSUME NEW i \in 1..(n \div 2) PROVE l[i] \in Points
      <4>1. 2 * i - 1 \in 1..n /\ 2 * i \in 1..n
        BY <2>5, <2>6
      <4>2. v(2 * i - 1) \in -FLT_MAX..FLT_MAX /\ v(2 * i) \in -FLT_MAX..FLT_MAX
        BY <2>7, <4>1
      <4> QED BY <4>2 DEF Points
    <3> QED BY <3>1
  <2>9. n \div 2 <= LUT_POINTS_CAPACITY /\ l = [i \in 1..(n \div 2) |-> l[i]]
    BY <2>6 DEF LUT_POINTS_CAPACITY, LUT_RAW_DATA_CAPACITY
  <2> HIDE DEF l
  <2> QED BY <2>1, <2>6, <2>8, <2>9, MakeCurve
<1> QED BY <1>1, <1>2

LEMMA AxisRead ==
  ASSUME NEW a, a \in {Absent, Wrong} \/ IsAxisJson(a),
         a \notin {Absent, Wrong} => ~ArgsThrow(a)
  PROVE  ReadArgs(AxisOf(a))
<1>1. CASE a \in {Absent, Wrong}
  BY <1>1, ConstantsTyped DEF AxisOf
<1>2. CASE a \notin {Absent, Wrong}
  <2> DEFINE r == accel_args_from_json(a)
  <2>1. AxisOf(a) = r
    BY <1>2 DEF AxisOf
  <2>2. /\ r = [f \in ArgsFields |-> r[f]]
        /\ r.mode = (IF a.mode \in Modes THEN a.mode ELSE accel_args.mode)
        /\ r.capmode = (IF a.capmode \in CapModes THEN a.capmode ELSE accel_args.capmode)
        /\ r.acc = Number(a.acc, accel_args.acc) /\ r.off = Number(a.off, accel_args.off)
        /\ r.capx = Number(a.capx, accel_args.capx) /\ r.capy = Number(a.capy, accel_args.capy)
        /\ r.decay = Number(a.decay, accel_args.decay) /\ r.scale = Number(a.scale, accel_args.scale)
        /\ r.gamma = Number(a.gamma, accel_args.gamma)
        /\ r.gain = bool_from_json_lenient(a.gain, accel_args.gain) /\ r.lut = LutOf(a)
    BY DEF accel_args_from_json, ArgsFields
  <2>3. /\ accel_args.mode \in Modes /\ accel_args.capmode \in CapModes
        /\ accel_args.acc \in Int /\ accel_args.off \in Int /\ accel_args.capx \in Int
        /\ accel_args.capy \in Int /\ accel_args.decay \in Int /\ accel_args.scale \in Int /\ accel_args.gamma \in Int
    BY DEF accel_args, Modes, CapModes
  <2>4. /\ a.acc \in Int \cup {Absent, Wrong, Inf} /\ a.off \in Int \cup {Absent, Wrong, Inf}
        /\ a.capx \in Int \cup {Absent, Wrong, Inf} /\ a.capy \in Int \cup {Absent, Wrong, Inf}
        /\ a.decay \in Int \cup {Absent, Wrong, Inf} /\ a.scale \in Int \cup {Absent, Wrong, Inf}
        /\ a.gamma \in Int \cup {Absent, Wrong, Inf}
    BY <1>2 DEF IsAxisJson, IsNumber, ArgsNumbers
  <2>5. a.acc # Inf /\ a.off # Inf /\ a.decay # Inf /\ a.scale # Inf /\ a.gamma # Inf
    BY <1>2 DEF ArgsThrow, ArgsNumbers
  <2> HIDE DEF r
  <2>6. /\ r.acc \in Int /\ r.off \in Int /\ r.decay \in Int /\ r.scale \in Int /\ r.gamma \in Int
        /\ r.capx \in Int \cup {Inf} /\ r.capy \in Int \cup {Inf}
    BY <2>2, <2>3, <2>4, <2>5 DEF Number
  <2>7. r.mode \in Modes /\ r.capmode \in CapModes
    BY <2>2, <2>3
  <2>8. r.gain \in {0, 1}
    <3>1. accel_args.gain = 1
      BY DEF accel_args
    <3> QED BY <2>2, <3>1 DEF bool_from_json_lenient
  <2>9. IsCurve(r.lut)
    BY <1>2, <2>2, CurveRead
  <2> QED BY <2>1, <2>2, <2>6, <2>7, <2>8, <2>9 DEF ReadArgs
<1> QED BY <1>1, <1>2

LEMMA TextRead ==
  ASSUME NEW v, IsText(v), NEW d \in Short
  PROVE  /\ json_get_string_limited(v, d) \in Short
         /\ v \in Short => json_get_string_limited(v, d) = v
BY StringFacts DEF IsText, json_get_string_limited

LEMMA NumberRead ==
  ASSUME NEW v, IsNumber(v), NEW d \in Int
  PROVE  Number(v, d) \in Int \cup {Inf} /\ json_get_int_safe(v, d) \in Int
         /\ (v \in Int => Number(v, d) = v /\ json_get_int_safe(v, d) = v)
BY IntIsNoMark DEF IsNumber, Number, json_get_int_safe

LEMMA ProfileRead ==
  ASSUME NEW j, IsProfileJson(j), ~ProfileThrows(j)
  PROVE  LET dp == device_profile_from_json(j)
         IN  IsProfile(dp) /\ dp.name = json_get_string_limited(j.name, "")
<1> DEFINE d == device_profile
           q == profile_from_json_obj(j)
           id == json_get_string_limited(j.id, "")
           r == [q EXCEPT !.name = json_get_string_limited(j.name, ""),
                          !.id = IF id \in AnyDevice THEN "" ELSE id,
                          !.app = json_get_string_limited(j.app, ""),
                          !.dpi = json_get_int_safe(j.dpi, device_profile.dpi),
                          !.disable = bool_from_json_lenient(j.disable, @)]
<1>1. /\ d = [f \in ProfileFields |-> d[f]] /\ d.whole \in {0, 1} /\ d.raw \in {0, 1} /\ d.disable \in {0, 1}
      /\ d.dpi \in Int /\ d.rot \in Int /\ d.odpi \in Int /\ d.smin \in Int /\ d.smax \in Int
      /\ d.weight \in Int /\ d.norm \in Int
  BY ConstantsTyped, FieldsAre DEF IsProfile, ProfileNumbers
<1>2. /\ IsNumber(j.dpi) /\ IsNumber(j.rot) /\ IsNumber(j.odpi) /\ IsNumber(j.smin)
      /\ IsNumber(j.smax) /\ IsNumber(j.weight) /\ IsNumber(j.norm)
      /\ IsText(j.name) /\ IsText(j.id) /\ IsText(j.app)
  BY DEF IsProfileJson, ProfileNumbers
<1>3. ReadArgs(AxisOf(j.x)) /\ ReadArgs(AxisOf(j.y))
  BY AxisRead DEF IsProfileJson, ProfileThrows
<1>4. q = [d EXCEPT !.raw = bool_from_json_lenient(j.raw, @),
                !.rot = Number(j.rot, @),
                !.odpi = Number(j.odpi, @),
                !.smin = Number(j.smin, @),
                !.smax = Number(j.smax, @),
                !.whole = bool_from_json_lenient(j.whole, @),
                !.norm = Number(j.norm, @),
                !.weight = Number(j.weight, @),
                !.x = AxisOf(j.x),
                !.y = AxisOf(j.y)]
  BY DEF profile_from_json_obj
<1> HIDE DEF d, q
<1>5. /\ q = [f \in ProfileFields |-> q[f]]
      /\ q.rot = Number(j.rot, d.rot) /\ q.odpi = Number(j.odpi, d.odpi)
      /\ q.smin = Number(j.smin, d.smin) /\ q.smax = Number(j.smax, d.smax)
      /\ q.whole = bool_from_json_lenient(j.whole, d.whole)
      /\ q.norm = Number(j.norm, d.norm) /\ q.weight = Number(j.weight, d.weight)
      /\ q.x = AxisOf(j.x) /\ q.y = AxisOf(j.y)
      /\ q.raw = bool_from_json_lenient(j.raw, d.raw) /\ q.disable = d.disable
  BY <1>1, <1>4 DEF ProfileFields
<1>6. /\ r = [f \in ProfileFields |-> r[f]]
      /\ r.rot = q.rot /\ r.odpi = q.odpi /\ r.smin = q.smin /\ r.smax = q.smax /\ r.whole = q.whole
      /\ r.norm = q.norm /\ r.weight = q.weight /\ r.x = q.x /\ r.y = q.y
      /\ r.name = json_get_string_limited(j.name, "")
      /\ r.id = (IF id \in AnyDevice THEN "" ELSE id)
      /\ r.app = json_get_string_limited(j.app, "")
      /\ r.dpi = json_get_int_safe(j.dpi, device_profile.dpi)
      /\ r.raw = q.raw /\ r.disable = bool_from_json_lenient(j.disable, q.disable)
  BY <1>5 DEF ProfileFields
<1>7. device_profile_from_json(j) = sanitize_device_profile(r)
  BY DEF device_profile_from_json, q
<1>8. {r.name, r.id, r.app} \subseteq Short
  <2>0. "" \in Short
    BY StringFacts
  <2>1. /\ json_get_string_limited(j.name, "") \in Short /\ id \in Short
        /\ json_get_string_limited(j.app, "") \in Short
    BY <1>2, <2>0, TextRead
  <2> HIDE DEF r, id
  <2> QED BY <1>6, <2>0, <2>1
<1>9. {r.whole, r.raw, r.disable} \subseteq {0, 1}
  <2>1. \A v, b : b \in {0, 1} => bool_from_json_lenient(v, b) \in {0, 1}
    BY DEF bool_from_json_lenient
  <2>2. q.whole \in {0, 1} /\ q.raw \in {0, 1} /\ q.disable \in {0, 1}
    BY <1>1, <1>5, <2>1
  <2>3. r.whole \in {0, 1} /\ r.raw \in {0, 1} /\ r.disable \in {0, 1}
    BY <1>6, <2>1, <2>2
  <2> HIDE DEF r
  <2> QED BY <2>3
<1>10. /\ Number(j.rot, d.rot) \in Int \cup {Inf} /\ Number(j.odpi, d.odpi) \in Int \cup {Inf}
       /\ Number(j.smin, d.smin) \in Int \cup {Inf} /\ Number(j.smax, d.smax) \in Int \cup {Inf}
       /\ Number(j.weight, d.weight) \in Int \cup {Inf} /\ Number(j.norm, d.norm) \in Int \cup {Inf}
       /\ json_get_int_safe(j.dpi, device_profile.dpi) \in Int
  BY <1>1, <1>2, NumberRead DEF d
<1> HIDE DEF r, id
<1>11. ReadProfile(r)
  BY <1>3, <1>5, <1>6, <1>8, <1>9, <1>10 DEF ReadProfile
<1>12. IsProfile(sanitize_device_profile(r)) /\ sanitize_device_profile(r).name = r.name
  BY <1>11, ProfileSanitised
<1> QED BY <1>6, <1>7, <1>12


-----------------------------------------------------------------------------
(* Migrating and loading *)

\* Everything of an axis but its curve.
SameArgs(a, b) == \A f \in ArgsFields \ {"lut"} : b[f] = a[f]

LEMMA CurveMigrated ==
  ASSUME NEW a, IsArgs(a)
  PROVE  IsCurve(migrate_lookup_gain(a).lut)
<1> DEFINE l == [i \in DOMAIN a.lut |->
                   LET x == a.lut[i][1]  y == a.lut[i][2] IN
                   IF x > 0 /\ y * x \in -FLT_MAX..FLT_MAX THEN <<x, y * x>> ELSE <<x, y>>]
<1>1. /\ IsCurve(a.lut) /\ Len(a.lut) \in Nat /\ Len(a.lut) <= LUT_POINTS_CAPACITY /\ DOMAIN a.lut = 1..Len(a.lut)
      /\ \A i \in DOMAIN a.lut : /\ a.lut[i][1] \in Int /\ a.lut[i][2] \in Int
                                 /\ a.lut[i][1] \in -FLT_MAX..FLT_MAX /\ a.lut[i][2] \in -FLT_MAX..FLT_MAX
  <2>1. IsCurve(a.lut)
    BY DEF IsArgs
  <2> QED BY <2>1, CurveFacts
<1>2. IsCurve(l)
  <2>1. l = [i \in 1..Len(a.lut) |-> l[i]]
    BY <1>1
  <2>2. ASSUME NEW i \in DOMAIN a.lut PROVE l[i] \in Points
    <3> DEFINE x == a.lut[i][1]  y == a.lut[i][2]
    <3>1. (l[i] = <<x, y * x>> /\ y * x \in -FLT_MAX..FLT_MAX) \/ l[i] = <<x, y>>
      OBVIOUS
    <3>2. x \in -FLT_MAX..FLT_MAX /\ y \in -FLT_MAX..FLT_MAX
      BY <1>1
    <3> HIDE DEF l, x, y
    <3> QED BY <3>1, <3>2, PointIs, Zenon
  <2> HIDE DEF l
  <2> QED BY <1>1, <2>1, <2>2, MakeCurve
<1>3. migrate_lookup_gain(a) = a \/ migrate_lookup_gain(a) = [a EXCEPT !.lut = l]
  BY DEF migrate_lookup_gain
<1> HIDE DEF l
<1>4. a = [f \in ArgsFields |-> a[f]]
  BY FieldsAre DEF IsArgs
<1>5. migrate_lookup_gain(a).lut \in {a.lut, l}
  <2>1. "lut" \in DOMAIN a
    <3>1. "lut" \in ArgsFields
      BY DEF ArgsFields
    <3> QED BY <1>4, <3>1
  <2>2. [a EXCEPT !.lut = l].lut = l
    BY <2>1
  <2> QED BY <1>3, <2>2
<1> QED BY <1>1, <1>2, <1>5

LEMMA MigrateArgs ==
  ASSUME NEW a, IsArgs(a)
  PROVE  IsArgs(migrate_lookup_gain(a)) /\ SameArgs(a, migrate_lookup_gain(a))
<1> DEFINE m == migrate_lookup_gain(a)
<1>1. a = [f \in ArgsFields |-> a[f]]
  BY FieldsAre DEF IsArgs
<1>2. m = a \/ \E l : m = [a EXCEPT !.lut = l]
  BY DEF migrate_lookup_gain
<1>3. m = [f \in ArgsFields |-> m[f]] /\ SameArgs(a, m)
  BY <1>1, <1>2 DEF ArgsFields, SameArgs
<1> HIDE DEF m
<1>4. m.mode = a.mode /\ m.capmode = a.capmode /\ m.gain = a.gain
  BY <1>3 DEF SameArgs, ArgsFields
<1>5. \A f \in ArgsNumbers : m[f] = a[f]
  BY <1>3 DEF SameArgs, ArgsFields, ArgsNumbers
<1>6. IsArgs(m)
  <2>1. IsCurve(m.lut)
    BY CurveMigrated DEF m
  <2> QED BY <1>3, <1>4, <1>5, <2>1, FieldsAre DEF IsArgs
<1> QED BY <1>3, <1>6 DEF m

\* What migrating makes of a profile.
Rescaled(dp) == [dp EXCEPT !.x = migrate_lookup_gain(@), !.y = migrate_lookup_gain(@)]

LEMMA RescaleProfile ==
  ASSUME NEW dp, IsProfile(dp)
  PROVE  /\ IsProfile(Rescaled(dp))
         /\ \A f \in ProfileFields \ {"x", "y"} : Rescaled(dp)[f] = dp[f]
         /\ SameArgs(dp.x, Rescaled(dp).x) /\ SameArgs(dp.y, Rescaled(dp).y)
<1> DEFINE r == Rescaled(dp)
<1>1. dp = [f \in ProfileFields |-> dp[f]] /\ IsArgs(dp.x) /\ IsArgs(dp.y)
  BY FieldsAre DEF IsProfile
<1>2. /\ r = [f \in ProfileFields |-> r[f]] /\ \A f \in ProfileFields \ {"x", "y"} : r[f] = dp[f]
      /\ r.x = migrate_lookup_gain(dp.x) /\ r.y = migrate_lookup_gain(dp.y)
  BY <1>1 DEF Rescaled, ProfileFields
<1>3. /\ IsArgs(r.x) /\ IsArgs(r.y) /\ SameArgs(dp.x, r.x) /\ SameArgs(dp.y, r.y)
  BY <1>1, <1>2, MigrateArgs
<1> HIDE DEF r
<1>4. /\ r.name = dp.name /\ r.id = dp.id /\ r.app = dp.app /\ r.whole = dp.whole
      /\ r.raw = dp.raw /\ r.disable = dp.disable
      /\ r.smin = dp.smin /\ r.smax = dp.smax /\ \A f \in ProfileNumbers : r[f] = dp[f]
  BY <1>2 DEF ProfileFields, ProfileNumbers
<1>5. IsProfile(r)
  BY <1>2, <1>3, <1>4, FieldsAre DEF IsProfile
<1> QED BY <1>2, <1>3, <1>5 DEF r

LEMMA MigrateConfig ==
  ASSUME NEW c, IsConfig(c)
  PROVE  LET m == migrate_config(c)
         IN  /\ IsConfig(m) /\ SameNames(c, m) /\ m.raw = c.raw
             /\ \A i \in DOMAIN c.profiles :
                  LET dp == c.profiles[i]
                  IN  m.profiles[i] \in {dp, sanitize_device_profile(dp), sanitize_device_profile(Rescaled(dp))}
<1> DEFINE ps == c.profiles
           rescaled == [i \in DOMAIN ps |-> [ps[i] EXCEPT !.x = migrate_lookup_gain(@), !.y = migrate_lookup_gain(@)]]
           fixed == IF version_lt(c.version, <<0, 4, 0>>) THEN rescaled ELSE ps
           clean == [i \in DOMAIN fixed |-> sanitize_device_profile(fixed[i])]
           m == migrate_config(c)
<1>1. /\ c = [f \in ConfigFields |-> c[f]] /\ IsSeq(ps) /\ \A i \in DOMAIN ps : IsProfile(ps[i])
      /\ c.active \in Short /\ c.raw \in {0, 1} /\ IsVersionHeld(c.version)
  BY DEF IsConfig
<1>2. Len(ps) \in Nat /\ DOMAIN ps = 1..Len(ps)
  BY <1>1, SeqShape
<1>3. DOMAIN fixed = DOMAIN ps /\ \A i \in DOMAIN ps : fixed[i] \in {ps[i], Rescaled(ps[i])}
  BY DEF Rescaled
<1>4. m = c \/ m = [c EXCEPT !.version = RAWACCEL_VERSION, !.profiles = clean]
  BY DEF migrate_config
<1>5. ASSUME NEW i \in DOMAIN ps
      PROVE  /\ clean[i] \in {sanitize_device_profile(ps[i]), sanitize_device_profile(Rescaled(ps[i]))}
             /\ IsProfile(clean[i]) /\ clean[i].name = ps[i].name
  <2>1. clean[i] = sanitize_device_profile(fixed[i])
    BY <1>3
  <2>2. IsProfile(ps[i]) /\ IsProfile(Rescaled(ps[i])) /\ Rescaled(ps[i]).name = ps[i].name
    BY <1>1, RescaleProfile DEF ProfileFields
  <2> HIDE DEF fixed, clean
  <2>3. IsProfile(fixed[i]) /\ fixed[i].name = ps[i].name
    BY <1>3, <2>2
  <2>4. IsProfile(clean[i]) /\ clean[i].name = ps[i].name
    BY <2>1, <2>3, LoadedIsRead, ProfileSanitised
  <2> QED BY <1>3, <2>1, <2>4
<1>6. clean = [i \in 1..Len(ps) |-> clean[i]]
  BY <1>2, <1>3
<1> HIDE DEF clean, m
<1>7. IsSeq(clean) /\ Len(clean) = Len(ps) /\ DOMAIN clean = DOMAIN ps
  BY <1>2, <1>6, MakeSeq
<1>8. CASE m = c
  BY <1>1, <1>8 DEF IsConfig, SameNames, m
<1>9. CASE m = [c EXCEPT !.version = RAWACCEL_VERSION, !.profiles = clean]
  <2>1. m = [f \in ConfigFields |-> m[f]] /\ m.profiles = clean /\ m.active = c.active /\ m.raw = c.raw
        /\ m.version = RAWACCEL_VERSION
    BY <1>1, <1>9 DEF ConfigFields
  <2>2. IsConfig(m)
    BY <1>1, <1>5, <1>7, <2>1, VersionFacts DEF IsConfig
  <2> QED BY <1>5, <1>7, <2>1, <2>2 DEF SameNames, m
<1> QED BY <1>4, <1>8, <1>9

\* What load_config makes of a file, before it is migrated.
LEMMA FileRead ==
  ASSUME NEW f, IsFile(f), Loadable(f)
  PROVE  LET r == app_config_from_json_obj(f, MAX_PROFILES_FILE)
         IN  /\ IsConfig(r) /\ (r.profiles = <<>> \/ f.root = "object")
             /\ f.root = "object" =>
                  /\ r.active = IF f.active = Absent THEN "default" ELSE json_get_string_limited(f.active, "default")
                  /\ r.raw = bool_from_json_lenient(f.raw, app_config.raw) /\ r.version = VersionOf(f.version)
                  /\ IF f.profiles \in {Absent, Wrong} THEN r.profiles = <<>>
                     ELSE /\ IsSeq(f.profiles) /\ Len(r.profiles) = Len(f.profiles) /\ DOMAIN r.profiles = DOMAIN f.profiles
                          /\ \A i \in DOMAIN f.profiles :
                               /\ f.profiles[i] # Wrong /\ IsProfileJson(f.profiles[i])
                               /\ ~ProfileThrows(f.profiles[i])
                               /\ r.profiles[i] = device_profile_from_json(f.profiles[i])
<1> DEFINE r == app_config_from_json_obj(f, MAX_PROFILES_FILE)
<1>1. /\ f.root \in {"object", "null", "other"} /\ IsText(f.active) /\ IsVersion(f.version)
      /\ f.profiles \in {Absent, Wrong} \/ IsArray(f.profiles)
      /\ ~Rejects(f, MAX_PROFILES_FILE)
  BY DEF IsFile, Loadable, Parsed
<1>2. f.root \in {"object", "null"}
  BY <1>1 DEF Rejects
<1>3. CASE f.root = "null"
  <2>1. r = app_config
    BY <1>3 DEF app_config_from_json_obj
  <2> QED BY <1>3, <2>1, AppConfigTyped
<1>4. CASE f.root = "object"
  <2> DEFINE ps == f.profiles
             read == Read(f, MAX_PROFILES_FILE)
             loaded == [i \in DOMAIN read |-> device_profile_from_json(ps[i])]
  <2>1. r = [version |-> VersionOf(f.version),
             active |-> IF f.active = Absent THEN app_config.active
                        ELSE json_get_string_limited(f.active, "default"),
             raw |-> bool_from_json_lenient(f.raw, app_config.raw),
             profiles |-> IF ps = Absent THEN <<>> ELSE loaded]
    BY <1>4 DEF app_config_from_json_obj
  <2> HIDE DEF loaded
  <2>2. /\ r = [k \in ConfigFields |-> r[k]]
        /\ r.active = (IF f.active = Absent THEN app_config.active ELSE json_get_string_limited(f.active, "default"))
        /\ r.raw = bool_from_json_lenient(f.raw, app_config.raw) /\ r.version = VersionOf(f.version)
        /\ r.profiles = IF ps = Absent THEN <<>> ELSE loaded
    BY <2>1 DEF ConfigFields
  <2>0. r.raw \in {0, 1} /\ IsVersionHeld(r.version)
    <3>1. app_config.raw = 1
      BY DEF app_config
    <3>2. r.raw \in {0, 1}
      BY <2>2, <3>1 DEF bool_from_json_lenient
    <3> QED BY <1>1, <2>2, <3>2, VersionFacts
  <2>3. r.active \in Short /\ app_config.active = "default"
    <3>1. "default" \in Short
      BY StringFacts
    <3> QED BY <1>1, <2>2, <3>1, TextRead, AppConfigTyped
  <2> HIDE DEF r
  <2>4. CASE ps = Absent
    <3>1. r.profiles = <<>>
      BY <2>2, <2>4
    <3>2. IsConfig(r)
      BY <2>0, <2>2, <2>3, <3>1, EmptyFacts DEF IsConfig
    <3> QED BY <1>4, <2>2, <2>3, <2>4, <3>1, <3>2 DEF r
  <2>5. CASE ps # Absent
    <3>1. /\ ps # Wrong
          /\ \A i \in 1..Least(MAX_PROFILES_FILE + 1, Len(ps)) : ps[i] # Wrong
          /\ \A i \in DOMAIN read : ~ProfileThrows(ps[i])
          /\ ~(Len(ps) > MAX_PROFILES_FILE)
      BY <1>1, <1>4, <2>5 DEF Rejects, MAX_PROFILES_FILE
    <3>2. IsSeq(ps) /\ \A i \in DOMAIN ps : ps[i] = Wrong \/ IsProfileJson(ps[i])
      BY <1>1, <2>5, <3>1 DEF IsArray, IsSeq
    <3>3. Len(ps) \in Nat /\ DOMAIN ps = 1..Len(ps) /\ \A i \in 1..Len(ps) : ps[i] \in Range(ps)
      BY <3>2, SeqShape DEF Range
    <3>4. /\ Least(MAX_PROFILES_FILE, Len(ps)) = Len(ps)
          /\ Least(MAX_PROFILES_FILE + 1, Len(ps)) = Len(ps)
      BY <3>1, <3>3 DEF Least, MAX_PROFILES_FILE
    <3>5. DOMAIN read = DOMAIN ps
      <4>1. read = SubSeq(ps, 1, Len(ps))
        BY <3>4 DEF Read
      <4>2. SubSeq(ps, 1, Len(ps)) \in Seq(Range(ps)) /\ Len(SubSeq(ps, 1, Len(ps))) = Len(ps)
        BY <3>3, SubSeqProperties
      <4> HIDE DEF read
      <4> QED BY <3>3, <4>1, <4>2, LenProperties
    <3>6. \A i \in DOMAIN ps : ps[i] # Wrong /\ IsProfileJson(ps[i]) /\ ~ProfileThrows(ps[i])
      BY <3>1, <3>2, <3>3, <3>4, <3>5
    <3>7. \A i \in DOMAIN ps : loaded[i] = device_profile_from_json(ps[i]) /\ IsProfile(loaded[i])
      BY <3>5, <3>6, ProfileRead DEF loaded
    <3>8. loaded = [i \in 1..Len(ps) |-> loaded[i]]
      BY <3>3, <3>5 DEF loaded
    <3>9. IsSeq(loaded) /\ Len(loaded) = Len(ps) /\ DOMAIN loaded = DOMAIN ps
      BY <3>3, <3>8, MakeSeq
    <3>10. r.profiles = loaded
      BY <2>2, <2>5
    <3>11. IsConfig(r)
      BY <2>0, <2>2, <2>3, <3>7, <3>9, <3>10 DEF IsConfig
    <3> QED BY <1>4, <2>2, <2>3, <2>5, <3>1, <3>2, <3>6, <3>7, <3>9, <3>10, <3>11 DEF r
  <2> QED BY <2>4, <2>5
<1> QED BY <1>2, <1>3, <1>4

LEMMA FileLoaded ==
  ASSUME NEW f, IsFile(f), Loadable(f)
  PROVE  IsConfig(load_config(f))
BY FileRead, MigrateConfig DEF load_config


-----------------------------------------------------------------------------
(* What is written, and read back *)

\* The marks of a file are no functions: no array, no record, no string table.
MarksAreMarks == \A D, R : [D -> R] \cap {Absent, Wrong, Missing, Garbage} = {}

LEMMA NoMark ==
  ASSUME MarksAreMarks, NEW D, NEW f, f = [x \in D |-> f[x]]
  PROVE  f \notin {Absent, Wrong, Missing, Garbage}
<1>1. f \in [D -> {f[x] : x \in D}]
  OBVIOUS
<1> QED BY <1>1 DEF MarksAreMarks

\* A curve is written flat and read back point by point.
LEMMA CurveWritten ==
  ASSUME MarksAreMarks, NEW a, IsArgs(a)
  PROVE  LET j == accel_args_to_json(a)
         IN  /\ (j.lut \in {Absent, Wrong} \/ j.lut \in Seq(Int \cup {Wrong})) /\ IsNumber(j.len)
             /\ LutOf(j) = a.lut
<1> DEFINE j == accel_args_to_json(a)
           n == Len(a.lut)
           flat == [k \in 1..(2 * n) |-> a.lut[(k + 1) \div 2][2 - (k % 2)]]
<1>1. /\ n \in Nat /\ n <= 3 /\ DOMAIN a.lut = 1..n /\ IsSeq(a.lut)
      /\ \A i \in DOMAIN a.lut : /\ a.lut[i] = <<a.lut[i][1], a.lut[i][2]>>
                                 /\ a.lut[i][1] \in Int /\ a.lut[i][2] \in Int
                                 /\ a.lut[i][1] \in -FLT_MAX..FLT_MAX /\ a.lut[i][2] \in -FLT_MAX..FLT_MAX
  <2>1. IsCurve(a.lut)
    BY DEF IsArgs
  <2> QED BY <2>1, CurveFacts
<1>2. /\ j.lut = (IF a.lut = <<>> THEN Absent ELSE flat)
      /\ j.len = (IF a.lut = <<>> THEN Absent ELSE Len(flat))
  BY DEF accel_args_to_json
<1>3. CASE a.lut = <<>>
  BY <1>2, <1>3 DEF LutOf, IsNumber
<1>4. CASE a.lut # <<>>
  <2>1. ASSUME NEW i \in 1..n
        PROVE  /\ 2 * i - 1 \in 1..(2 * n) /\ 2 * i \in 1..(2 * n)
               /\ ((2 * i - 1) + 1) \div 2 = i /\ 2 - ((2 * i - 1) % 2) = 1
               /\ (2 * i + 1) \div 2 = i /\ 2 - ((2 * i) % 2) = 2
    BY <1>1
  <2>2. ASSUME NEW i \in 1..n PROVE flat[2 * i - 1] = a.lut[i][1] /\ flat[2 * i] = a.lut[i][2]
    BY <2>1
  <2>3. \A k \in 1..(2 * n) : flat[k] \in Int
    <3>1. ASSUME NEW k \in 1..(2 * n) PROVE flat[k] \in Int
      <4>1. (k + 1) \div 2 \in 1..n /\ 2 - (k % 2) \in {1, 2}
        BY <1>1
      <4> QED BY <1>1, <4>1
    <3> QED BY <3>1
  <2>4. flat \in [1..(2 * n) -> Int] /\ 2 * n \in Nat
    <3>1. flat = [k \in 1..(2 * n) |-> flat[k]]
      OBVIOUS
    <3> HIDE DEF flat
    <3> QED BY <1>1, <2>3, <3>1
  <2> HIDE DEF flat
  <2>5. flat \in Seq(Int \cup {Wrong}) /\ Len(flat) = 2 * n /\ flat \notin {Absent, Wrong}
    <3>1. flat \in [1..(2 * n) -> Int \cup {Wrong}] /\ flat = [k \in 1..(2 * n) |-> flat[k]]
      BY <2>4
    <3>2. flat \in Seq(Int \cup {Wrong}) /\ flat \notin {Absent, Wrong}
      BY <2>4, <3>1, NoMark, SeqDef
    <3>3. Len(flat) = 2 * n
      BY <2>4, <3>1, MakeSeq
    <3> QED BY <3>2, <3>3
  <2>6. j.lut = flat /\ j.len = 2 * n /\ j.len \in Int /\ j.len \notin {Absent, Wrong, Inf}
    BY <1>2, <1>4, <2>4, <2>5, IntIsNoMark
  <2> DEFINE v(i) == IF j.lut[i] \in {Wrong, Inf} THEN 0 ELSE Clamp(j.lut[i], -FLT_MAX, FLT_MAX)
  <2>7. \A i \in 1..n : v(2 * i - 1) = a.lut[i][1] /\ v(2 * i) = a.lut[i][2]
    <3>1. ASSUME NEW i \in 1..n, NEW x \in -FLT_MAX..FLT_MAX
          PROVE  (IF x \in {Wrong, Inf} THEN 0 ELSE Clamp(x, -FLT_MAX, FLT_MAX)) = x
      <4>1. x \notin {Wrong, Inf} /\ x \in Int /\ -FLT_MAX \in Int /\ FLT_MAX \in Int /\ -FLT_MAX <= x /\ x <= FLT_MAX
        BY IntIsNoMark DEF FLT_MAX
      <4> QED BY <4>1, ClampType
    <3> QED BY <1>1, <2>2, <2>6, <3>1
  <2> DEFINE raw == CASE j.len = Absent -> Len(j.lut)
                      [] j.len \in {Wrong, Inf} -> 0
                      [] OTHER -> Most(j.len, 0)
             m == Least(Least(raw, LUT_RAW_DATA_CAPACITY), Len(j.lut))
             l == [i \in 1..(m \div 2) |-> <<v(2 * i - 1), v(2 * i)>>]
  <2>8. LutOf(j) = l
    BY <2>5, <2>6 DEF LutOf
  <2>9. m \div 2 = n
    <3>1. raw = 2 * n
      BY <1>1, <2>6 DEF Most
    <3>2. Len(j.lut) = 2 * n
      BY <2>5, <2>6
    <3> HIDE DEF raw, j
    <3>3. Least(Least(raw, LUT_RAW_DATA_CAPACITY), Len(j.lut)) = 2 * n
      BY <1>1, <3>1, <3>2 DEF Least, LUT_RAW_DATA_CAPACITY
    <3>4. (2 * n) \div 2 = n
      <4>1. \A k \in Int : (2 * k) \div 2 = k
        BY SMT
      <4>2. n \in Int
        BY <1>1
      <4> HIDE DEF n
      <4> QED BY <4>1, <4>2
    <3> QED BY <3>3, <3>4
  <2> HIDE DEF v, m, j
  <2>10. l = a.lut
    <3>1. l = [i \in 1..n |-> a.lut[i]]
      BY <1>1, <2>7, <2>9
    <3> QED BY <1>1, <3>1, SeqShape
  <2>11. IsNumber(j.len)
    BY <2>6 DEF IsNumber
  <2> QED BY <2>5, <2>6, <2>8, <2>10, <2>11 DEF j
<1> QED BY <1>3, <1>4

LEMMA ArgsWritten ==
  ASSUME MarksAreMarks, NEW a, IsArgs(a)
  PROVE  LET j == accel_args_to_json(a)
         IN  /\ j \notin {Absent, Wrong} /\ ~ArgsThrow(j)
             /\ \A f \in ArgsNumbers : IsNumber(j[f]) /\ j[f] = a[f]
             /\ j.mode = a.mode /\ j.capmode = a.capmode /\ j.gain = a.gain
             /\ IsAxisJson(j) /\ AxisOf(j) = a
<1> DEFINE j == accel_args_to_json(a)
<1>1. /\ j = [f \in ArgsFields \cup {"len"} |-> j[f]]
      /\ j.mode = a.mode /\ j.capmode = a.capmode /\ j.acc = a.acc /\ j.off = a.off /\ j.capx = a.capx
      /\ j.capy = a.capy /\ j.decay = a.decay /\ j.scale = a.scale /\ j.gamma = a.gamma /\ j.gain = a.gain
  BY DEF accel_args_to_json, ArgsFields
<1> HIDE DEF j
<1>2. a.mode \in Modes /\ a.capmode \in CapModes /\ \A f \in ArgsNumbers : a[f] \in Int
  BY DEF IsArgs
<1>3. \A f \in ArgsNumbers : j[f] = a[f]
  BY <1>1 DEF ArgsNumbers
<1>4. \A f \in ArgsNumbers : IsNumber(j[f]) /\ j[f] \notin {Wrong, Inf}
  BY <1>2, <1>3, IntIsNoMark DEF IsNumber
<1>5. ~ArgsThrow(j)
  BY <1>1, <1>2, <1>4 DEF ArgsThrow
<1>6. j \notin {Absent, Wrong}
  BY <1>1, NoMark
<1>7. (j.lut \in {Absent, Wrong} \/ j.lut \in Seq(Int \cup {Wrong})) /\ IsNumber(j.len) /\ LutOf(j) = a.lut
  BY CurveWritten DEF j
<1>8. IsAxisJson(j)
  BY <1>4, <1>7 DEF IsAxisJson
<1>9. AxisOf(j) = a
  <2> DEFINE r == accel_args_from_json(j)
  <2>1. AxisOf(j) = r
    BY <1>6 DEF AxisOf
  <2>2. /\ r = [f \in ArgsFields |-> r[f]]
        /\ r.mode = (IF j.mode \in Modes THEN j.mode ELSE accel_args.mode)
        /\ r.capmode = (IF j.capmode \in CapModes THEN j.capmode ELSE accel_args.capmode)
        /\ r.acc = Number(j.acc, accel_args.acc) /\ r.off = Number(j.off, accel_args.off)
        /\ r.capx = Number(j.capx, accel_args.capx) /\ r.capy = Number(j.capy, accel_args.capy)
        /\ r.decay = Number(j.decay, accel_args.decay) /\ r.scale = Number(j.scale, accel_args.scale)
        /\ r.gamma = Number(j.gamma, accel_args.gamma)
        /\ r.gain = bool_from_json_lenient(j.gain, accel_args.gain) /\ r.lut = LutOf(j)
    BY DEF accel_args_from_json, ArgsFields
  <2>3. \A v, d : v \in Int => Number(v, d) = v
    BY IntIsNoMark DEF Number
  <2>4. a.gain \in {0, 1} /\ a = [f \in ArgsFields |-> a[f]]
    BY FieldsAre DEF IsArgs
  <2> HIDE DEF r
  <2>5. /\ r.acc = a.acc /\ r.off = a.off /\ r.capx = a.capx /\ r.capy = a.capy
        /\ r.decay = a.decay /\ r.scale = a.scale /\ r.gamma = a.gamma
    BY <1>1, <1>2, <2>2, <2>3 DEF ArgsNumbers
  <2>6. r.mode = a.mode /\ r.capmode = a.capmode /\ r.gain = a.gain /\ r.lut = a.lut
    BY <1>1, <1>2, <1>7, <2>2, <2>4 DEF bool_from_json_lenient
  <2>7. \A f \in ArgsFields : r[f] = a[f]
    BY <2>5, <2>6 DEF ArgsFields
  <2> QED BY <2>1, <2>2, <2>4, <2>7
<1> QED BY <1>1, <1>3, <1>4, <1>5, <1>6, <1>8, <1>9 DEF j

\* A profile bound to any device is read as bound to none.
Addressed(dp) == [dp EXCEPT !.id = IF @ \in AnyDevice THEN "" ELSE @]

LEMMA AddressedFacts ==
  ASSUME NEW dp, IsProfile(dp)
  PROVE  /\ IsProfile(Addressed(dp)) /\ Addressed(dp).id = (IF dp.id \in AnyDevice THEN "" ELSE dp.id)
         /\ \A f \in ProfileFields \ {"id"} : Addressed(dp)[f] = dp[f]
         /\ Addressed(dp) = [f \in ProfileFields |-> Addressed(dp)[f]]
         /\ dp.id \notin AnyDevice => Addressed(dp) = dp
<1> DEFINE r == Addressed(dp)
<1>1. dp = [f \in ProfileFields |-> dp[f]]
  BY FieldsAre DEF IsProfile
<1>2. /\ r = [f \in ProfileFields |-> r[f]] /\ r.id = (IF dp.id \in AnyDevice THEN "" ELSE dp.id)
      /\ \A f \in ProfileFields \ {"id"} : r[f] = dp[f]
  BY <1>1 DEF Addressed, ProfileFields
<1>3. dp.id \notin AnyDevice => r = dp
  BY <1>1 DEF Addressed
<1> HIDE DEF r
<1>4. /\ r.name = dp.name /\ r.app = dp.app /\ r.whole = dp.whole /\ r.x = dp.x /\ r.y = dp.y
      /\ r.raw = dp.raw /\ r.disable = dp.disable
      /\ r.smin = dp.smin /\ r.smax = dp.smax /\ \A f \in ProfileNumbers : r[f] = dp[f]
  BY <1>2 DEF ProfileFields, ProfileNumbers
<1>5. r.id \in Short
  BY <1>2, StringFacts DEF IsProfile
<1>6. IsProfile(r)
  BY <1>2, <1>4, <1>5, FieldsAre DEF IsProfile
<1> QED BY <1>2, <1>3, <1>6 DEF r

LEMMA ProfileWritten ==
  ASSUME MarksAreMarks, NEW dp, IsProfile(dp)
  PROVE  LET j == profile_to_json(dp)
         IN  /\ j # Wrong /\ IsProfileJson(j) /\ ~ProfileThrows(j)
             /\ json_get_string_limited(j.name, "") = dp.name
             /\ \A f \in ProfileNumbers \cup {"id", "raw", "whole", "disable"} : j[f] = dp[f]
             /\ json_get_string_limited(j.app, "") = dp.app
             /\ j.x = accel_args_to_json(dp.x) /\ j.y = accel_args_to_json(dp.y)
             /\ j.version = RAWACCEL_VERSION
             /\ device_profile_from_json(j) = sanitize_device_profile(Addressed(dp))
<1> DEFINE j == profile_to_json(dp)
<1>1. /\ j = [f \in ProfileFields \cup {"version"} |-> j[f]]
      /\ j.name = dp.name /\ j.id = dp.id /\ j.app = (IF dp.app = "" THEN Absent ELSE dp.app)
      /\ j.dpi = dp.dpi /\ j.rot = dp.rot /\ j.odpi = dp.odpi /\ j.smin = dp.smin /\ j.smax = dp.smax
      /\ j.norm = dp.norm /\ j.weight = dp.weight
      /\ j.raw = dp.raw /\ j.whole = dp.whole /\ j.disable = dp.disable
      /\ j.x = accel_args_to_json(dp.x) /\ j.y = accel_args_to_json(dp.y) /\ j.version = RAWACCEL_VERSION
  BY DEF profile_to_json, ProfileFields
<1> HIDE DEF j
<1>2. /\ dp.name \in Short /\ dp.id \in Short /\ dp.app \in Short
      /\ \A f \in ProfileNumbers : dp[f] \in Int
      /\ IsArgs(dp.x) /\ IsArgs(dp.y)
  BY DEF IsProfile
<1>3. /\ j.x \notin {Absent, Wrong} /\ j.y \notin {Absent, Wrong} /\ ~ArgsThrow(j.x) /\ ~ArgsThrow(j.y)
      /\ IsAxisJson(j.x) /\ IsAxisJson(j.y) /\ AxisOf(j.x) = dp.x /\ AxisOf(j.y) = dp.y
  BY <1>1, <1>2, ArgsWritten
<1>4. ~ProfileThrows(j)
  BY <1>3 DEF ProfileThrows
<1>5. \A f \in ProfileNumbers \cup {"id", "raw", "whole", "disable"} : j[f] = dp[f]
  BY <1>1 DEF ProfileNumbers
<1>6. IsText(j.name) /\ IsText(j.id) /\ IsText(j.app)
  BY <1>1, <1>2, StringFacts DEF IsText
<1>7. IsProfileJson(j)
  <2>1. IsVersion(j.version)
    BY <1>1, VersionFacts DEF IsVersion
  <2> QED BY <1>2, <1>3, <1>5, <1>6, <2>1 DEF IsProfileJson, IsNumber
<1>8. json_get_string_limited(j.name, "") = dp.name
  BY <1>1, <1>2, StringFacts DEF json_get_string_limited
<1>9. json_get_string_limited(j.app, "") = dp.app
  BY <1>1, <1>2, StringFacts DEF json_get_string_limited
<1>10. j # Wrong
  BY <1>1, NoMark
<1>11. device_profile_from_json(j) = sanitize_device_profile(Addressed(dp))
  <2> DEFINE q == profile_from_json_obj(j)
             id == json_get_string_limited(j.id, "")
             r == [q EXCEPT !.name = json_get_string_limited(j.name, ""),
                            !.id = IF id \in AnyDevice THEN "" ELSE id,
                            !.app = json_get_string_limited(j.app, ""),
                            !.dpi = json_get_int_safe(j.dpi, device_profile.dpi),
                            !.disable = bool_from_json_lenient(j.disable, @)]
  <2>1. device_profile_from_json(j) = sanitize_device_profile(r)
    BY DEF device_profile_from_json
  <2>2. /\ \A v, d : v \in Int => Number(v, d) = v /\ json_get_int_safe(v, d) = v
        /\ \A v, d : v \in {0, 1} => bool_from_json_lenient(v, d) = v
    BY IntIsNoMark DEF Number, json_get_int_safe, bool_from_json_lenient
  <2>3. device_profile = [f \in ProfileFields |-> device_profile[f]]
    BY ConstantsTyped, FieldsAre DEF IsProfile
  <2>4. /\ dp.whole \in {0, 1} /\ dp.raw \in {0, 1} /\ dp.disable \in {0, 1}
        /\ dp.dpi \in Int /\ dp.rot \in Int /\ dp.odpi \in Int /\ dp.smin \in Int /\ dp.smax \in Int
        /\ dp.norm \in Int /\ dp.weight \in Int
    BY DEF IsProfile, ProfileNumbers
  <2>5. q = [device_profile EXCEPT
                  !.raw = bool_from_json_lenient(j.raw, @),
                  !.rot = Number(j.rot, @),
                  !.odpi = Number(j.odpi, @),
                  !.smin = Number(j.smin, @),
                  !.smax = Number(j.smax, @),
                  !.whole = bool_from_json_lenient(j.whole, @),
                  !.norm = Number(j.norm, @),
                  !.weight = Number(j.weight, @),
                  !.x = AxisOf(j.x),
                  !.y = AxisOf(j.y)]
    BY DEF profile_from_json_obj
  <2> HIDE DEF q
  <2>6. /\ q = [f \in ProfileFields |-> q[f]]
        /\ q.rot = Number(j.rot, device_profile.rot) /\ q.odpi = Number(j.odpi, device_profile.odpi)
        /\ q.smin = Number(j.smin, device_profile.smin) /\ q.smax = Number(j.smax, device_profile.smax)
        /\ q.whole = bool_from_json_lenient(j.whole, device_profile.whole)
        /\ q.norm = Number(j.norm, device_profile.norm) /\ q.weight = Number(j.weight, device_profile.weight)
        /\ q.x = AxisOf(j.x) /\ q.y = AxisOf(j.y)
        /\ q.raw = bool_from_json_lenient(j.raw, device_profile.raw)
    BY <2>3, <2>5 DEF ProfileFields
  <2>7. /\ q.rot = dp.rot /\ q.odpi = dp.odpi /\ q.smin = dp.smin /\ q.smax = dp.smax /\ q.whole = dp.whole
        /\ q.norm = dp.norm /\ q.weight = dp.weight /\ q.x = dp.x /\ q.y = dp.y /\ q.raw = dp.raw
    <3>1. /\ q.rot = dp.rot /\ q.odpi = dp.odpi /\ q.smin = dp.smin /\ q.smax = dp.smax
          /\ q.norm = dp.norm /\ q.weight = dp.weight
      <4>1. /\ Number(dp.rot, device_profile.rot) = dp.rot /\ Number(dp.odpi, device_profile.odpi) = dp.odpi
            /\ Number(dp.smin, device_profile.smin) = dp.smin /\ Number(dp.smax, device_profile.smax) = dp.smax
            /\ Number(dp.norm, device_profile.norm) = dp.norm /\ Number(dp.weight, device_profile.weight) = dp.weight
        BY <2>2, <2>4
      <4> QED BY <1>1, <2>6, <4>1
    <3>2. q.whole = dp.whole /\ q.raw = dp.raw
      <4>1. \A v, d : v \in {0, 1} => bool_from_json_lenient(v, d) = v
        BY <2>2
      <4>2. bool_from_json_lenient(dp.whole, device_profile.whole) = dp.whole
            /\ bool_from_json_lenient(dp.raw, device_profile.raw) = dp.raw
        BY <2>4, <4>1
      <4> QED BY <1>1, <2>6, <4>2
    <3>3. q.x = dp.x /\ q.y = dp.y
      BY <1>3, <2>6
    <3> QED BY <3>1, <3>2, <3>3
  <2>8. /\ r = [f \in ProfileFields |-> r[f]]
        /\ r.rot = q.rot /\ r.odpi = q.odpi /\ r.smin = q.smin /\ r.smax = q.smax /\ r.whole = q.whole
        /\ r.norm = q.norm /\ r.weight = q.weight /\ r.x = q.x /\ r.y = q.y /\ r.raw = q.raw
        /\ r.name = json_get_string_limited(j.name, "")
        /\ r.id = (IF id \in AnyDevice THEN "" ELSE id)
        /\ r.app = json_get_string_limited(j.app, "")
        /\ r.dpi = json_get_int_safe(j.dpi, device_profile.dpi)
        /\ r.disable = bool_from_json_lenient(j.disable, q.disable)
    BY <2>6 DEF ProfileFields
  <2>9. id = dp.id
    BY <1>1, <1>2, StringFacts DEF json_get_string_limited
  <2> HIDE DEF r, id
  <2>10. /\ r.name = dp.name /\ r.id = (IF dp.id \in AnyDevice THEN "" ELSE dp.id) /\ r.app = dp.app
         /\ r.dpi = dp.dpi /\ r.disable = dp.disable
    <3>1. json_get_int_safe(dp.dpi, device_profile.dpi) = dp.dpi /\ bool_from_json_lenient(dp.disable, q.disable) = dp.disable
      BY <2>2, <2>4
    <3> QED BY <1>1, <1>8, <1>9, <2>8, <2>9, <3>1
  <2>11. \A f \in ProfileFields : r[f] = Addressed(dp)[f]
    <3>1. /\ Addressed(dp).id = (IF dp.id \in AnyDevice THEN "" ELSE dp.id)
          /\ \A f \in ProfileFields \ {"id"} : Addressed(dp)[f] = dp[f]
      BY AddressedFacts
    <3>2. \A f \in ProfileFields \ {"id"} : r[f] = dp[f]
      BY <2>7, <2>8, <2>10 DEF ProfileFields
    <3> QED BY <2>10, <3>1, <3>2
  <2>12. Addressed(dp) = [f \in ProfileFields |-> Addressed(dp)[f]]
    BY AddressedFacts
  <2>13. r = Addressed(dp)
    BY <2>8, <2>11, <2>12
  <2> QED BY <2>1, <2>13 DEF r
<1> QED BY <1>1, <1>4, <1>5, <1>7, <1>8, <1>9, <1>10, <1>11 DEF j

\* A config that is saved is a file that loads, with the same names, the same
\* active profile and each profile as it was written.
LEMMA ConfigWritten ==
  ASSUME MarksAreMarks, NEW c, IsConfig(c), Len(c.profiles) <= MAX_PROFILES_FILE
  PROVE  LET f == save_config(c)
             r == app_config_from_json_obj(f, MAX_PROFILES_FILE)
         IN  /\ IsFile(f) /\ f \notin {Missing, Garbage} /\ Loadable(f)
             /\ IsConfig(r) /\ SameNames(c, r) /\ r.raw = c.raw /\ r.version = WrittenVersion(c.version)
             /\ \A i \in DOMAIN c.profiles :
                  r.profiles[i] = device_profile_from_json(profile_to_json(sanitize_device_profile(c.profiles[i])))
<1> DEFINE ps == c.profiles
           clean == [i \in DOMAIN ps |-> sanitize_device_profile(ps[i])]
           copy == [c EXCEPT !.profiles = clean]
           f == save_config(c)
           js == [i \in DOMAIN clean |-> profile_to_json(clean[i])]
           r == app_config_from_json_obj(f, MAX_PROFILES_FILE)
<1>1. /\ c = [k \in ConfigFields |-> c[k]] /\ IsSeq(ps) /\ \A i \in DOMAIN ps : IsProfile(ps[i])
      /\ c.active \in Short /\ c.raw \in {0, 1} /\ IsVersionHeld(c.version)
  BY DEF IsConfig
<1>2. Len(ps) \in Nat /\ DOMAIN ps = 1..Len(ps) /\ Len(ps) <= MAX_PROFILES_FILE
  BY <1>1, SeqShape
<1>3. copy.profiles = clean /\ copy.active = c.active /\ copy.raw = c.raw /\ copy.version = c.version
  BY <1>1 DEF ConfigFields
<1>4. f = app_config_to_json_obj(copy)
  BY DEF save_config
<1>5. /\ f = [k \in {"root", "version", "active", "raw", "profiles", "foreign"} |-> f[k]]
      /\ f.root = "object" /\ f.active = c.active /\ f.profiles = js
      /\ f.raw = c.raw /\ f.version = WrittenVersion(c.version)
  <2> HIDE DEF clean, copy, f
  <2>1. /\ f = [k \in {"root", "version", "active", "raw", "profiles", "foreign"} |-> f[k]]
        /\ f.root = "object" /\ f.active = copy.active /\ f.raw = copy.raw
        /\ f.version = WrittenVersion(copy.version)
        /\ f.profiles = [i \in DOMAIN copy.profiles |-> profile_to_json(copy.profiles[i])]
    BY <1>4 DEF app_config_to_json_obj, WrittenVersion
  <2> QED BY <1>3, <2>1
<1>6. ASSUME NEW i \in DOMAIN ps
      PROVE  LET s == sanitize_device_profile(ps[i])
             IN  /\ IsProfile(s) /\ s.name = ps[i].name
                 /\ js[i] = profile_to_json(s) /\ js[i] # Wrong /\ IsProfileJson(js[i]) /\ ~ProfileThrows(js[i])
                 /\ json_get_string_limited(js[i].name, "") = ps[i].name
  <2>1. IsProfile(sanitize_device_profile(ps[i])) /\ sanitize_device_profile(ps[i]).name = ps[i].name
    BY <1>1, LoadedIsRead, ProfileSanitised
  <2>2. js[i] = profile_to_json(sanitize_device_profile(ps[i]))
    OBVIOUS
  <2> HIDE DEF js
  <2> QED BY <2>1, <2>2, ProfileWritten
<1>7. js = [i \in 1..Len(ps) |-> js[i]]
  BY <1>2
<1> HIDE DEF js, f, clean, copy
<1>8. IsSeq(js) /\ Len(js) = Len(ps) /\ DOMAIN js = DOMAIN ps
  BY <1>2, <1>7, MakeSeq
<1>9. js \notin {Absent, Wrong} /\ f \notin {Missing, Garbage}
  BY <1>5, <1>7, NoMark
<1>10. IsArray(js)
  BY <1>6, <1>8 DEF IsArray, IsSeq
<1>11. IsFile(f)
  <2>1. IsText(f.active)
    BY <1>1, <1>5, StringFacts DEF IsText
  <2>2. IsVersion(f.version)
    BY <1>1, <1>5, WrittenIsNew
  <2> QED BY <1>5, <1>10, <2>1, <2>2 DEF IsFile
<1>12. Loadable(f)
  <2>1. \A i \in 1..Least(MAX_PROFILES_FILE + 1, Len(js)) : f.profiles[i] # Wrong
    <3>1. \A i \in 1..Least(MAX_PROFILES_FILE + 1, Len(js)) : i \in DOMAIN ps
      BY <1>2, <1>8 DEF Least, MAX_PROFILES_FILE
    <3> QED BY <1>5, <1>6, <3>1
  <2>2. \A i \in DOMAIN Read(f, MAX_PROFILES_FILE) : ~ProfileThrows(f.profiles[i])
    <3>1. Least(MAX_PROFILES_FILE, Len(js)) = Len(js)
      BY <1>2, <1>8 DEF Least, MAX_PROFILES_FILE
    <3>2. Read(f, MAX_PROFILES_FILE) = SubSeq(js, 1, Len(js))
      BY <1>5, <3>1 DEF Read
    <3>3. /\ SubSeq(js, 1, Len(js)) \in Seq(Range(js)) /\ Len(SubSeq(js, 1, Len(js))) = Len(js)
      <4>1. \A i \in 1..Len(js) : js[i] \in Range(js)
        BY <1>2, <1>8 DEF Range
      <4> QED BY <1>2, <1>8, <4>1, SubSeqProperties
    <3>4. DOMAIN Read(f, MAX_PROFILES_FILE) = DOMAIN ps
      BY <1>2, <1>8, <3>2, <3>3, LenProperties
    <3> QED BY <1>5, <1>6, <3>4
  <2>3. ~(Len(f.profiles) > MAX_PROFILES_FILE)
    BY <1>2, <1>5, <1>8 DEF MAX_PROFILES_FILE
  <2>4. ~Rejects(f, MAX_PROFILES_FILE)
    BY <1>5, <1>9, <2>1, <2>2, <2>3 DEF Rejects
  <2> QED BY <1>9, <2>4 DEF Loadable, Parsed
<1> HIDE DEF r
<1>13. /\ IsConfig(r)
       /\ r.active = (IF f.active = Absent THEN "default" ELSE json_get_string_limited(f.active, "default"))
       /\ r.raw = bool_from_json_lenient(f.raw, app_config.raw) /\ r.version = VersionOf(f.version)
       /\ Len(r.profiles) = Len(f.profiles) /\ DOMAIN r.profiles = DOMAIN f.profiles
       /\ \A i \in DOMAIN f.profiles : r.profiles[i] = device_profile_from_json(f.profiles[i])
  BY <1>5, <1>9, <1>11, <1>12, FileRead DEF r
<1>14. r.active = c.active
  BY <1>1, <1>5, <1>13, StringFacts DEF json_get_string_limited
<1>15. \A i \in DOMAIN ps : r.profiles[i].name = ps[i].name
  BY <1>5, <1>6, <1>8, <1>13, ProfileRead
<1>16. SameNames(c, r)
  BY <1>5, <1>8, <1>13, <1>14, <1>15 DEF SameNames
<1>17. r.raw = c.raw
  BY <1>1, <1>5, <1>13 DEF bool_from_json_lenient
<1>18. r.version = WrittenVersion(c.version)
  <2>1. WrittenVersion(c.version) \in Seq(Int)
    BY <1>1, WrittenIsNew
  <2>2. WrittenVersion(c.version) \notin {Absent, Wrong}
    <3>1. /\ WrittenVersion(c.version) \in [1..Len(WrittenVersion(c.version)) -> Int]
      BY <2>1, LenProperties
    <3> QED BY <3>1 DEF MarksAreMarks
  <2> QED BY <1>5, <1>13, <2>2 DEF VersionOf
<1> QED BY <1>5, <1>6, <1>8, <1>9, <1>11, <1>12, <1>13, <1>16, <1>17, <1>18 DEF f, r

LEMMA ReadBack ==
  ASSUME MarksAreMarks, NEW c, IsConfig(c), Len(c.profiles) <= MAX_PROFILES_FILE
  PROVE  LET f == save_config(c)
         IN  /\ IsFile(f) /\ f \notin {Missing, Garbage} /\ Loadable(f) /\ IsConfig(load_config(f))
             /\ Sound(c) => Sound(load_config(f))
<1> DEFINE f == save_config(c)
           r == app_config_from_json_obj(f, MAX_PROFILES_FILE)
<1>1. /\ IsFile(f) /\ f \notin {Missing, Garbage} /\ Loadable(f) /\ IsConfig(r) /\ SameNames(c, r)
  BY ConfigWritten
<1>2. load_config(f) = migrate_config(r)
  BY DEF load_config
<1> HIDE DEF f, r
<1>3. IsConfig(load_config(f)) /\ SameNames(r, load_config(f))
  BY <1>1, <1>2, MigrateConfig
<1>4. Sound(c) => Sound(load_config(f))
  BY <1>1, <1>3, SoundIsInNames
<1> QED BY <1>1, <1>3, <1>4 DEF f


LEMMA RankFacts ==
  ASSUME NEW n \in Nat, NEW S, S \subseteq 1..n, NEW i \in S
  PROVE  /\ Cardinality(Upto(S, i)) \in 1..Cardinality(S)
         /\ \A j \in S : Cardinality(Upto(S, i)) = Cardinality(Upto(S, j)) => i = j
<1>1. \A m \in Int : IsFiniteSet(S) /\ IsFiniteSet(Upto(S, m)) /\ Cardinality(S) \in Nat /\ Cardinality(Upto(S, m)) \in Nat
  BY UptoFinite
<1>2. Upto(S, i) \subseteq S /\ i \in Upto(S, i) /\ i \in Int
  BY DEF Upto
<1>3. Cardinality(Upto(S, i)) <= Cardinality(S)
  BY <1>1, <1>2, FS_Subset
<1>4. Cardinality(Upto(S, i)) # 0
  BY <1>1, <1>2, FS_EmptySet
<1>5. ASSUME NEW a \in S, NEW b \in S, Cardinality(Upto(S, a)) = Cardinality(Upto(S, b)), a < b
      PROVE  FALSE
  <2>1. Upto(S, a) \subseteq Upto(S, b) /\ b \in Upto(S, b) /\ b \notin Upto(S, a) /\ a \in Int /\ b \in Int
    <3>1. a \in Int /\ b \in Int /\ a < b /\ S \subseteq Int
      BY <1>5
    <3>2. b <= b /\ ~(b <= a) /\ \A j \in Int : j <= a => j <= b
      BY <3>1
    <3> QED BY <3>1, <3>2 DEF Upto
  <2>2. Upto(S, a) \in SUBSET Upto(S, b)
    BY <2>1
  <2>3. Upto(S, a) = Upto(S, b)
    BY <1>1, <1>5, <2>1, <2>2, FS_Subset
  <2> QED BY <2>1, <2>3
<1>6. \A j \in S : i < j \/ j < i \/ i = j
  BY <1>2
<1> QED BY <1>1, <1>2, <1>3, <1>4, <1>5, <1>6

-----------------------------------------------------------------------------
(* Changing a config *)

\* The names are there and differ.
Distinct(c) ==
  /\ "" \notin NamesOf(c)
  /\ \A i, k \in DOMAIN c.profiles : c.profiles[i].name = c.profiles[k].name => i = k

LEMMA SoundIs == ASSUME NEW c PROVE Sound(c) <=> Distinct(c) /\ c.active \in NamesOf(c) \cup {""}
BY DEF Sound, Distinct

LEMMA NamesFacts ==
  ASSUME NEW c, IsConfig(c)
  PROVE  /\ NamesOf(c) \subseteq Short
         /\ \A i \in DOMAIN c.profiles : c.profiles[i].name \in NamesOf(c)
         /\ \A n \in NamesOf(c) : \E i \in DOMAIN c.profiles : c.profiles[i].name = n
         /\ Len(c.profiles) \in Nat /\ DOMAIN c.profiles = 1..Len(c.profiles)
<1>1. \A i \in DOMAIN c.profiles : c.profiles[i].name \in Short
  BY DEF IsConfig, IsProfile
<1>2. Len(c.profiles) \in Nat /\ DOMAIN c.profiles = 1..Len(c.profiles)
  BY SeqShape DEF IsConfig
<1> QED BY <1>1, <1>2 DEF NamesOf

LEMMA IndexFacts ==
  ASSUME NEW c, IsConfig(c), NEW n \in NamesOf(c)
  PROVE  IndexOf(c, n) \in DOMAIN c.profiles /\ c.profiles[IndexOf(c, n)].name = n
<1> DEFINE S == {i \in DOMAIN c.profiles : c.profiles[i].name = n}
<1>1. S \subseteq Nat /\ S # {} /\ DOMAIN c.profiles = 1..Len(c.profiles) /\ Len(c.profiles) \in Nat
  BY NamesFacts
<1>2. PICK i \in S : \A j \in S : i <= j
  <2> HIDE DEF S
  <2> QED BY <1>1, LeastNat
<1>3. \A k \in 1..(i - 1) : c.profiles[k].name # n
  <2>1. \A k \in 1..(i - 1) : k \in DOMAIN c.profiles /\ ~(i <= k)
    BY <1>1
  <2> QED BY <1>2, <2>1
<1> QED BY <1>2, <1>3 DEF IndexOf

\* The changes that the commands are made of, under a name.
ActivePut(c, n) == [c EXCEPT !.active = n]
ProfilesPut(c, ps) == [c EXCEPT !.profiles = ps]
ProfilePut(c, k, dp) == [c EXCEPT !.profiles[k] = dp]
KeyPut(p, key, v) == [p EXCEPT ![key] = v]
AxesPut(p, a, b) == [p EXCEPT !.x = a, !.y = b]

LEMMA ActiveSet ==
  ASSUME NEW c, IsConfig(c), NEW n \in NamesOf(c) \cup {""}
  PROVE  LET d == ActivePut(c, n)
         IN  /\ IsConfig(d) /\ d.profiles = c.profiles /\ d.active = n /\ d.raw = c.raw
             /\ Distinct(c) => Sound(d)
<1> DEFINE d == ActivePut(c, n)
<1>1. /\ d = [f \in ConfigFields |-> d[f]] /\ d.profiles = c.profiles /\ d.active = n /\ d.raw = c.raw /\ d.version = c.version
  BY DEF IsConfig, ConfigFields, ActivePut
<1>2. n \in Short
  BY NamesFacts, StringFacts
<1>3. IsConfig(d)
  BY <1>1, <1>2 DEF IsConfig
<1>4. Distinct(c) => Sound(d)
  <2>1. NamesOf(d) = NamesOf(c)
    BY <1>1 DEF NamesOf
  <2> QED BY <1>1, <2>1 DEF Sound, Distinct
<1> QED BY <1>1, <1>3, <1>4

LEMMA ProfilesSet ==
  ASSUME NEW c, IsConfig(c), NEW ps, IsSeq(ps), \A i \in DOMAIN ps : IsProfile(ps[i])
  PROVE  LET d == ProfilesPut(c, ps)
         IN  IsConfig(d) /\ d.profiles = ps /\ d.active = c.active /\ d.raw = c.raw /\ d.version = c.version
<1> DEFINE d == ProfilesPut(c, ps)
<1>1. /\ d = [f \in ConfigFields |-> d[f]] /\ d.profiles = ps /\ d.active = c.active /\ d.raw = c.raw /\ d.version = c.version
  BY DEF IsConfig, ConfigFields, ProfilesPut
<1>2. c.active \in Short /\ c.raw \in {0, 1} /\ IsVersionHeld(c.version)
  BY DEF IsConfig
<1> QED BY <1>1, <1>2 DEF IsConfig

LEMMA AddFacts ==
  ASSUME NEW c, IsConfig(c), NEW dp, IsProfile(dp)
  PROVE  LET d == Add(c, dp)
         IN  /\ IsConfig(d) /\ d.active = c.active /\ NamesOf(d) = NamesOf(c) \cup {dp.name}
             /\ Len(d.profiles) = Len(c.profiles) + 1 /\ d.profiles[Len(c.profiles) + 1] = dp
             /\ Len(c.profiles) + 1 \in DOMAIN d.profiles
             /\ \A i \in DOMAIN c.profiles : d.profiles[i] = c.profiles[i]
             /\ Distinct(c) /\ dp.name \notin NamesOf(c) \cup {""} => Distinct(d)
<1> DEFINE d == Add(c, dp)
           ps == Append(c.profiles, dp)
           n == Len(c.profiles)
<1>1. n \in Nat /\ DOMAIN c.profiles = 1..n
  BY NamesFacts
<1>2. /\ IsSeq(ps) /\ Len(ps) = n + 1 /\ DOMAIN ps = 1..(n + 1)
      /\ \A i \in 1..n : ps[i] = c.profiles[i]
      /\ ps[n + 1] = dp
  <2>1. IsSeq(c.profiles)
    BY DEF IsConfig
  <2> QED BY <2>1, AppendFacts
<1>3. \A i \in 1..(n + 1) : i \in 1..n \/ i = n + 1
  BY <1>1
<1> HIDE DEF ps
<1>4. \A i \in DOMAIN ps : IsProfile(ps[i])
  BY <1>1, <1>2, <1>3 DEF IsConfig
<1>5. IsConfig(d) /\ d.profiles = ps /\ d.active = c.active
  <2>1. d = ProfilesPut(c, ps)
    BY DEF Add, ps, ProfilesPut
  <2> HIDE DEF d
  <2> QED BY <1>2, <1>4, <2>1, ProfilesSet
<1>6. NamesOf(d) = NamesOf(c) \cup {dp.name}
  <2>1. \A i \in 1..n : i \in 1..(n + 1)
    BY <1>1
  <2>2. n + 1 \in 1..(n + 1)
    BY <1>1
  <2> HIDE DEF n, d
  <2> QED BY <1>1, <1>2, <1>3, <1>5, <2>1, <2>2 DEF NamesOf
<1>7. ASSUME Distinct(c), dp.name \notin NamesOf(c) \cup {""} PROVE Distinct(d)
  <2>1. ASSUME NEW i \in DOMAIN ps, NEW k \in DOMAIN ps, ps[i].name = ps[k].name PROVE i = k
    <3>1. \A j \in 1..n : ps[j].name \in NamesOf(c)
      BY <1>1, <1>2, NamesFacts
    <3>2. CASE i \in 1..n /\ k \in 1..n
      BY <1>1, <1>2, <1>7, <2>1, <3>2 DEF Distinct
    <3>3. CASE i = n + 1 \/ k = n + 1
      <4>1. ps[i].name \notin NamesOf(c) /\ ps[k].name \notin NamesOf(c)
        BY <1>2, <1>7, <2>1, <3>3
      <4> QED BY <1>2, <1>3, <2>1, <3>1, <4>1
    <3> QED BY <1>2, <1>3, <2>1, <3>2, <3>3
  <2> QED BY <1>5, <1>6, <1>7, <2>1 DEF Distinct
<1>8. \A i \in DOMAIN c.profiles : d.profiles[i] = c.profiles[i]
  BY <1>1, <1>2, <1>5
<1>9. n + 1 \in DOMAIN d.profiles
  <2>1. n + 1 \in 1..(n + 1)
    BY <1>1
  <2> HIDE DEF n, d
  <2> QED BY <1>2, <1>5, <2>1
<1> QED BY <1>2, <1>5, <1>6, <1>7, <1>8, <1>9 DEF d

LEMMA ReplaceShape ==
  ASSUME NEW c, IsConfig(c), NEW k \in DOMAIN c.profiles, NEW dp, IsProfile(dp)
  PROVE  LET ps == KeyPut(c.profiles, k, dp)
         IN  /\ IsSeq(ps) /\ Len(ps) = Len(c.profiles) /\ DOMAIN ps = DOMAIN c.profiles
             /\ ps[k] = dp /\ \A i \in DOMAIN c.profiles : i # k => ps[i] = c.profiles[i]
             /\ \A i \in DOMAIN c.profiles : IsProfile(ps[i])
<1> DEFINE ps == [c.profiles EXCEPT ![k] = dp]
<1>1. IsSeq(c.profiles) /\ \A i \in DOMAIN c.profiles : IsProfile(c.profiles[i])
  BY DEF IsConfig
<1>2. /\ IsSeq(ps) /\ Len(ps) = Len(c.profiles) /\ DOMAIN ps = DOMAIN c.profiles
      /\ ps[k] = dp /\ \A i \in DOMAIN c.profiles : i # k => ps[i] = c.profiles[i]
  BY <1>1, SetAtFacts
<1>3. ps = KeyPut(c.profiles, k, dp)
  BY DEF KeyPut
<1> HIDE DEF ps
<1> QED BY <1>1, <1>2, <1>3

\* One profile is replaced, under its name or under one that is free.
LEMMA ReplaceFacts ==
  ASSUME NEW c, IsConfig(c), NEW k \in DOMAIN c.profiles, NEW dp, IsProfile(dp)
  PROVE  LET d == ProfilePut(c, k, dp)
         IN  /\ IsConfig(d) /\ d.active = c.active /\ d.raw = c.raw /\ d.profiles = KeyPut(c.profiles, k, dp)
             /\ dp.name \in NamesOf(d)
             /\ \A n \in NamesOf(c) : n = c.profiles[k].name \/ n \in NamesOf(d)
             /\ Distinct(c) /\ dp.name = c.profiles[k].name => Distinct(d)
             /\ Distinct(c) /\ dp.name \notin NamesOf(c) \cup {""} => Distinct(d)
<1> DEFINE d == ProfilePut(c, k, dp)
           old == c.profiles[k].name
           ps == KeyPut(c.profiles, k, dp)
<1>2. /\ IsSeq(ps) /\ DOMAIN ps = DOMAIN c.profiles /\ ps[k] = dp
      /\ \A i \in DOMAIN c.profiles : i # k => ps[i] = c.profiles[i]
      /\ \A i \in DOMAIN ps : IsProfile(ps[i])
  BY ReplaceShape
<1>3. d = ProfilesPut(c, ps)
  BY DEF IsConfig, ConfigFields, ProfilePut, ProfilesPut, KeyPut
<1> HIDE DEF ps, d
<1>5. IsConfig(d) /\ d.profiles = ps /\ d.active = c.active /\ d.raw = c.raw
  BY <1>2, <1>3, ProfilesSet
<1>6. dp.name \in NamesOf(d) /\ \A n \in NamesOf(c) : n = old \/ n \in NamesOf(d)
  BY <1>2, <1>5 DEF NamesOf
<1>7. ASSUME Distinct(c), dp.name = old \/ dp.name \notin NamesOf(c) \cup {""} PROVE Distinct(d)
  <2>1. \A i \in DOMAIN c.profiles : c.profiles[i].name \in NamesOf(c) /\ c.profiles[i].name # ""
    <3>1. "" \notin NamesOf(c)
      BY <1>7 DEF Distinct
    <3> QED BY <3>1, NamesFacts
  <2>2. dp.name # "" /\ \A i \in DOMAIN c.profiles : i # k => dp.name # c.profiles[i].name
    BY <1>7, <2>1 DEF Distinct
  <2>3. "" \notin NamesOf(d)
    <3>1. \A i \in DOMAIN ps : ps[i].name # ""
      BY <1>2, <2>1, <2>2
    <3> QED BY <1>5, <3>1 DEF NamesOf
  <2>4. ASSUME NEW i \in DOMAIN c.profiles, NEW j \in DOMAIN c.profiles, ps[i].name = ps[j].name PROVE i = j
    <3>1. CASE i = k \/ j = k
      BY <1>2, <2>2, <2>4, <3>1
    <3>2. CASE i # k /\ j # k
      BY <1>2, <1>7, <2>4, <3>2 DEF Distinct
    <3> QED BY <3>1, <3>2
  <2>5. \A i, j \in DOMAIN d.profiles : d.profiles[i].name = d.profiles[j].name => i = j
    BY <1>2, <1>5, <2>4
  <2> QED BY <2>3, <2>5 DEF Distinct
<1> QED BY <1>5, <1>6, <1>7 DEF d, ps

\* What is left without the profiles of some names.
LEMMA WithoutFacts ==
  ASSUME NEW ps, IsSeq(ps), NEW names
  PROVE  LET r == Without(ps, names)
         IN  /\ IsSeq(r)
             /\ \A k \in DOMAIN r : \E i \in DOMAIN ps : ps[i].name \notin names /\ r[k] = ps[i]
             /\ \A i \in DOMAIN ps : ps[i].name \notin names => \E k \in DOMAIN r : r[k] = ps[i]
             /\ (\A i, j \in DOMAIN ps : ps[i].name = ps[j].name => i = j)
                  => \A i, j \in DOMAIN r : r[i].name = r[j].name => i = j
             /\ Len(r) <= Len(ps)
<1> DEFINE kept == {i \in DOMAIN ps : ps[i].name \notin names}
           m == Cardinality(kept)
           at(k) == CHOOSE i \in kept : Cardinality(Upto(kept, i)) = k
           r == Without(ps, names)
<1>1. kept \subseteq 1..Len(ps) /\ Len(ps) \in Nat /\ DOMAIN ps = 1..Len(ps)
  BY SeqShape
<1>2. r = [k \in 1..m |-> ps[at(k)]]
  BY DEF Without, Upto
<1> HIDE DEF r, kept
<1>3. m \in Nat
  <2>1. 0 \in Int
    OBVIOUS
  <2> QED BY <1>1, <2>1, UptoFinite
<1>4. \A k \in 1..m : at(k) \in kept /\ Cardinality(Upto(kept, at(k))) = k
  <2>1. \A k \in 1..m : \E i \in kept : Cardinality(Upto(kept, i)) = k
    BY <1>1, RankExists
  <2> QED BY <2>1
<1>5. \A i \in kept : Cardinality(Upto(kept, i)) \in 1..m /\ at(Cardinality(Upto(kept, i))) = i
  BY <1>1, <1>4, RankFacts
<1> HIDE DEF m, at
<1>6. IsSeq(r) /\ DOMAIN r = 1..m /\ Len(r) = m
  BY <1>2, <1>3, MakeSeq
<1>7. \A k \in 1..m : r[k] = ps[at(k)]
  BY <1>2
<1>8. \A i \in kept : i \in DOMAIN ps /\ ps[i].name \notin names
  BY DEF kept
<1>9. \A k \in DOMAIN r : \E i \in DOMAIN ps : ps[i].name \notin names /\ r[k] = ps[i]
  BY <1>4, <1>6, <1>7, <1>8
<1>10. ASSUME NEW i \in DOMAIN ps, ps[i].name \notin names PROVE \E k \in DOMAIN r : r[k] = ps[i]
  <2>1. i \in kept
    BY <1>10 DEF kept
  <2> QED BY <1>5, <1>6, <1>7, <2>1
<1>11. ASSUME \A i, j \in DOMAIN ps : ps[i].name = ps[j].name => i = j,
              NEW i \in DOMAIN r, NEW j \in DOMAIN r, r[i].name = r[j].name
       PROVE  i = j
  <2>1. ps[at(i)].name = ps[at(j)].name /\ at(i) \in DOMAIN ps /\ at(j) \in DOMAIN ps
    BY <1>4, <1>6, <1>7, <1>8, <1>11
  <2>2. at(i) = at(j)
    BY <1>11, <2>1
  <2> QED BY <1>4, <1>6, <2>2
<1>12. m <= Len(ps)
  <2>1. IsFiniteSet(1..Len(ps)) /\ Cardinality(1..Len(ps)) = Len(ps)
    <3>1. 1 \in Int /\ Len(ps) \in Int /\ Len(ps) \in Nat
      BY <1>1
    <3>2. Cardinality(1..Len(ps)) = IF 1 > Len(ps) THEN 0 ELSE Len(ps) - 1 + 1
      BY <3>1, FS_Interval
    <3>3. (IF 1 > Len(ps) THEN 0 ELSE Len(ps) - 1 + 1) = Len(ps)
      BY <3>1
    <3> QED BY <3>1, <3>2, <3>3, FS_Interval
  <2>2. kept \in SUBSET (1..Len(ps))
    BY <1>1
  <2> QED BY <2>1, <2>2, FS_Subset DEF m
<1> QED BY <1>6, <1>9, <1>10, <1>11, <1>12 DEF r


-----------------------------------------------------------------------------
(* The commands *)

\* What a command leaves to be saved is a config, and sound if it was sound.
Keeps(c, r) == r.ok => IsConfig(r.cfg) /\ (Sound(c) => Sound(r.cfg))

LEMMA DoneIs == \A c : Done(c).ok /\ Done(c).cfg = c /\ ~Refused(c).ok
BY DEF Done, Refused

LEMMA FreshFacts ==
  ASSUME NEW n \in Short
  PROVE  IsProfile(Fresh(n)) /\ Fresh(n).name = n
<1> DEFINE d == device_profile
<1>1. IsProfile(d) /\ d = [f \in ProfileFields |-> d[f]]
  BY ConstantsTyped, FieldsAre DEF IsProfile
<1>2. Fresh(n) = [d EXCEPT !.name = n]
  BY DEF Fresh
<1> HIDE DEF d
<1>3. /\ Fresh(n) = [f \in ProfileFields |-> Fresh(n)[f]] /\ Fresh(n).name = n
      /\ \A f \in ProfileFields \ {"name"} : Fresh(n)[f] = d[f]
  BY <1>1, <1>2 DEF ProfileFields
<1>4. /\ Fresh(n).id = d.id /\ Fresh(n).app = d.app /\ Fresh(n).whole = d.whole /\ Fresh(n).x = d.x
      /\ Fresh(n).raw = d.raw /\ Fresh(n).disable = d.disable
      /\ Fresh(n).y = d.y /\ Fresh(n).smin = d.smin /\ Fresh(n).smax = d.smax
      /\ \A f \in ProfileNumbers : Fresh(n)[f] = d[f]
  BY <1>3 DEF ProfileFields, ProfileNumbers
<1> QED BY <1>1, <1>3, <1>4, FieldsAre DEF IsProfile

LEMMA NamedFacts ==
  ASSUME NEW dp, IsProfile(dp), NEW n \in Short
  PROVE  LET d == KeyPut(dp, "name", n)
         IN  IsProfile(d) /\ d.name = n /\ \A f \in ProfileFields \ {"name"} : d[f] = dp[f]
<1> DEFINE d == KeyPut(dp, "name", n)
<1>1. dp = [f \in ProfileFields |-> dp[f]]
  BY FieldsAre DEF IsProfile
<1>2. /\ d = [f \in ProfileFields |-> d[f]] /\ d.name = n
      /\ \A f \in ProfileFields \ {"name"} : d[f] = dp[f]
  BY <1>1 DEF ProfileFields, KeyPut
<1>3. /\ d.id = dp.id /\ d.app = dp.app /\ d.whole = dp.whole /\ d.x = dp.x /\ d.y = dp.y /\ d.raw = dp.raw /\ d.disable = dp.disable
      /\ d.smin = dp.smin /\ d.smax = dp.smax /\ \A f \in ProfileNumbers : d[f] = dp[f]
  BY <1>2 DEF ProfileFields, ProfileNumbers
<1>4. IsProfile(d)
  BY <1>2, <1>3, FieldsAre DEF IsProfile
<1> QED BY <1>2, <1>4

LEMMA BoundFor ==
  ASSUME NEW dp, IsProfile(dp), NEW id \in Short
  PROVE  LET d == KeyPut(dp, "id", id)
         IN  IsProfile(d) /\ d.name = dp.name
<1> DEFINE d == KeyPut(dp, "id", id)
<1>1. dp = [f \in ProfileFields |-> dp[f]]
  BY FieldsAre DEF IsProfile
<1>2. /\ d = [f \in ProfileFields |-> d[f]] /\ d.id = id
      /\ \A f \in ProfileFields \ {"id"} : d[f] = dp[f]
  BY <1>1 DEF ProfileFields, KeyPut
<1>3. /\ d.name = dp.name /\ d.app = dp.app /\ d.whole = dp.whole /\ d.x = dp.x /\ d.y = dp.y /\ d.raw = dp.raw /\ d.disable = dp.disable
      /\ d.smin = dp.smin /\ d.smax = dp.smax /\ \A f \in ProfileNumbers : d[f] = dp[f]
  BY <1>2 DEF ProfileFields, ProfileNumbers
<1>4. IsProfile(d)
  BY <1>1, <1>2, <1>3, FieldsAre DEF IsProfile
<1> QED BY <1>3, <1>4

\* A profile is added under a free name.
LEMMA AddSound ==
  ASSUME NEW c, IsConfig(c), NEW dp, IsProfile(dp), dp.name \notin NamesOf(c) \cup {""}
  PROVE  Keeps(c, Done(Add(c, dp)))
<1> DEFINE d == Add(c, dp)
<1>1. /\ IsConfig(d) /\ d.active = c.active /\ NamesOf(d) = NamesOf(c) \cup {dp.name}
      /\ (Distinct(c) => Distinct(d))
  BY AddFacts
<1> HIDE DEF d
<1>2. Sound(c) => Sound(d)
  BY <1>1, SoundIs
<1> QED BY <1>1, <1>2, DoneIs DEF Keeps, d

LEMMA FreeIs ==
  ASSUME NEW c, NEW n \in Str, Free(c, n)
  PROVE  n \in Short /\ n \notin NamesOf(c) \cup {""}
BY DEF Free, Short

LEMMA DefaultAddedFacts ==
  ASSUME NEW c, IsConfig(c), c.profiles = <<>>
  PROVE  IsConfig(DefaultAdded(c)) /\ Sound(DefaultAdded(c)) /\ Len(DefaultAdded(c).profiles) = 1
<1> DEFINE a == Add(c, Fresh("default"))
<1>1. IsProfile(Fresh("default")) /\ Fresh("default").name = "default"
  BY FreshFacts, StringFacts
<1>2. NamesOf(c) = {} /\ Distinct(c) /\ Len(c.profiles) = 0
  BY EmptyFacts DEF NamesOf, Distinct
<1>3. IsConfig(a) /\ NamesOf(a) = {"default"} /\ Distinct(a) /\ Len(a.profiles) = 1
  <2> DEFINE dp == Fresh("default")
  <2> HIDE DEF dp
  <2>1. /\ IsConfig(Add(c, dp)) /\ NamesOf(Add(c, dp)) = NamesOf(c) \cup {dp.name}
        /\ Len(Add(c, dp).profiles) = Len(c.profiles) + 1
        /\ Distinct(c) /\ dp.name \notin NamesOf(c) \cup {""} => Distinct(Add(c, dp))
    BY <1>1, AddFacts DEF dp
  <2>2. a = Add(c, dp) /\ dp.name = "default"
    BY <1>1 DEF dp
  <2> HIDE DEF a
  <2> QED BY <1>2, <2>1, <2>2
<1> DEFINE d == [a EXCEPT !.active = "default"]
<1>4. DefaultAdded(c) = d /\ d = ActivePut(a, "default")
  BY DEF DefaultAdded, ActivePut
<1> HIDE DEF a, d
<1>5. IsConfig(d) /\ d.profiles = a.profiles /\ (Distinct(a) => Sound(d))
  <2> DEFINE n == "default"
  <2>1. n \in NamesOf(a) \cup {""}
    BY <1>3
  <2>2. d = ActivePut(a, n)
    BY <1>4
  <2> HIDE DEF n
  <2>3. /\ IsConfig(ActivePut(a, n)) /\ ActivePut(a, n).profiles = a.profiles
        /\ Distinct(a) => Sound(ActivePut(a, n))
    BY <1>3, <2>1, ActiveSet
  <2> QED BY <2>2, <2>3
<1> QED BY <1>3, <1>4, <1>5

LEMMA SetKeeps ==
  ASSUME NEW c, IsConfig(c), NEW name
  PROVE  Keeps(c, cmd_set(c, name))
<1>1. CASE name \in NamesOf(c)
  <2> DEFINE d == [c EXCEPT !.active = name]
  <2>1. IsConfig(d) /\ (Distinct(c) => Sound(d))
    <3>1. d = ActivePut(c, name)
      BY DEF ActivePut
    <3> HIDE DEF d
    <3> QED BY <1>1, <3>1, ActiveSet
  <2>2. cmd_set(c, name) = Done(d)
    BY <1>1 DEF cmd_set
  <2> HIDE DEF d
  <2> QED BY <2>1, <2>2, DoneIs, SoundIs DEF Keeps
<1>2. CASE name \notin NamesOf(c)
  BY <1>2, DoneIs DEF cmd_set, Keeps
<1> QED BY <1>1, <1>2

LEMMA CreatedKeeps ==
  ASSUME NEW c, IsConfig(c), NEW name \in Str
  PROVE  Keeps(c, cmd_create(c, name))
<1>1. CASE Free(c, name) /\ HasRoom(c)
  <2>1. name \in Short /\ name \notin NamesOf(c) \cup {""}
    BY <1>1, FreeIs
  <2>2. IsProfile(Fresh(name)) /\ Fresh(name).name = name
    BY <2>1, FreshFacts
  <2>3. Keeps(c, Done(Add(c, Fresh(name))))
    BY <2>1, <2>2, AddSound
  <2> QED BY <1>1, <2>3 DEF cmd_create
<1>2. CASE ~(Free(c, name) /\ HasRoom(c))
  BY <1>2, DoneIs DEF cmd_create, Keeps
<1> QED BY <1>1, <1>2

LEMMA DeleteKeeps ==
  ASSUME NEW c, IsConfig(c), NEW name
  PROVE  Keeps(c, cmd_delete(c, name))
<1> DEFINE rest == Without(c.profiles, {name})
           active == CASE rest = <<>> -> ""
                       [] rest # <<>> /\ c.active = name -> rest[1].name
                       [] OTHER -> c.active
           b == [c EXCEPT !.profiles = rest]
           d == [c EXCEPT !.profiles = rest, !.active = active]
<1>1. CASE name \notin NamesOf(c)
  BY <1>1, DoneIs DEF cmd_delete, Keeps
<1>2. CASE name \in NamesOf(c)
  <2>1. /\ IsSeq(rest)
        /\ \A k \in DOMAIN rest : \E i \in DOMAIN c.profiles : c.profiles[i].name # name /\ rest[k] = c.profiles[i]
        /\ \A i \in DOMAIN c.profiles : c.profiles[i].name # name => \E k \in DOMAIN rest : rest[k] = c.profiles[i]
        /\ (\A i, j \in DOMAIN c.profiles : c.profiles[i].name = c.profiles[j].name => i = j)
             => \A i, j \in DOMAIN rest : rest[i].name = rest[j].name => i = j
    <3>2. IsSeq(c.profiles)
      BY DEF IsConfig
    <3> HIDE DEF rest
    <3> DEFINE T == {name}
    <3>3. rest = Without(c.profiles, T)
      BY DEF rest
    <3> HIDE DEF T
    <3>4. /\ IsSeq(rest)
          /\ \A k \in DOMAIN rest : \E i \in DOMAIN c.profiles : c.profiles[i].name \notin T /\ rest[k] = c.profiles[i]
          /\ \A i \in DOMAIN c.profiles : c.profiles[i].name \notin T => \E k \in DOMAIN rest : rest[k] = c.profiles[i]
          /\ (\A i, j \in DOMAIN c.profiles : c.profiles[i].name = c.profiles[j].name => i = j)
               => \A i, j \in DOMAIN rest : rest[i].name = rest[j].name => i = j
      <4>1. \A ps, N : IsSeq(ps) =>
              LET r == Without(ps, N)
              IN  /\ IsSeq(r)
                  /\ \A k \in DOMAIN r : \E i \in DOMAIN ps : ps[i].name \notin N /\ r[k] = ps[i]
                  /\ \A i \in DOMAIN ps : ps[i].name \notin N => \E k \in DOMAIN r : r[k] = ps[i]
                  /\ (\A i, j \in DOMAIN ps : ps[i].name = ps[j].name => i = j)
                       => \A i, j \in DOMAIN r : r[i].name = r[j].name => i = j
        BY WithoutFacts
      <4> QED BY <3>2, <3>3, <4>1
    <3>5. \A v : v # name <=> v \notin T
      BY DEF T
    <3> QED BY <3>4, <3>5
  <2> HIDE DEF rest
  <2>2. \A k \in DOMAIN rest : IsProfile(rest[k]) /\ rest[k].name \in NamesOf(c) \cap Short
    <3>1. \A i \in DOMAIN c.profiles : IsProfile(c.profiles[i])
      BY DEF IsConfig
    <3>2. NamesOf(c) \subseteq Short /\ \A i \in DOMAIN c.profiles : c.profiles[i].name \in NamesOf(c)
      BY NamesFacts
    <3> QED BY <2>1, <3>1, <3>2
  <2>3. IsConfig(b) /\ b.profiles = rest /\ b.active = c.active /\ b.raw = c.raw /\ b.version = c.version
    <3>1. b = ProfilesPut(c, rest)
      BY DEF ProfilesPut
    <3> HIDE DEF b
    <3> QED BY <2>1, <2>2, <3>1, ProfilesSet
  <2>4. NamesOf(b) = {rest[k].name : k \in DOMAIN rest}
    BY <2>3 DEF NamesOf
  <2>5. Distinct(c) => Distinct(b)
    <3>1. "" \notin NamesOf(c) => "" \notin NamesOf(b)
      BY <2>2, <2>4
    <3> QED BY <2>1, <2>3, <3>1 DEF Distinct
  <2>6. rest # <<>> => rest[1].name \in NamesOf(b)
    <3>1. ASSUME rest # <<>> PROVE 1 \in DOMAIN rest
      <4>1. Len(rest) \in Nat /\ DOMAIN rest = 1..Len(rest) /\ rest \in Seq(Range(rest))
        BY <2>1, SeqShape DEF IsSeq
      <4>2. Len(rest) # 0
        BY <3>1, <4>1, EmptySeq
      <4> QED BY <4>1, <4>2
    <3> QED BY <2>4, <3>1
  <2>7. active \in Short /\ (Sound(c) => active \in NamesOf(b) \cup {""})
    <3>1. CASE rest = <<>>
      BY <3>1, StringFacts
    <3>2. CASE rest # <<>> /\ c.active = name
      BY <2>3, <2>6, <3>2, NamesFacts
    <3>3. CASE rest # <<>> /\ c.active # name
      <4>1. active = c.active
        BY <3>3
      <4>2. c.active \in Short
        BY DEF IsConfig
      <4>3. ASSUME Sound(c), c.active # "" PROVE c.active \in NamesOf(b)
        <5>1. PICK i \in DOMAIN c.profiles : c.profiles[i].name = c.active
          BY <4>3, SoundIs, NamesFacts
        <5>2. PICK k \in DOMAIN rest : rest[k] = c.profiles[i]
          BY <2>1, <3>3, <5>1
        <5> QED BY <2>4, <5>1, <5>2
      <4> QED BY <4>1, <4>2, <4>3
    <3> QED BY <3>1, <3>2, <3>3
  <2>8. d = [b EXCEPT !.active = active]
    BY DEF IsConfig, ConfigFields
  <2>9. cmd_delete(c, name) = Done(d)
    BY <1>2 DEF cmd_delete, rest
  <2> HIDE DEF b, d, active
  <2>10. /\ d = [f \in ConfigFields |-> d[f]] /\ d.profiles = rest /\ d.active = active
         /\ d.raw = c.raw /\ d.version = c.version /\ c.raw \in {0, 1} /\ IsVersionHeld(c.version)
    BY <2>3, <2>8 DEF IsConfig, ConfigFields
  <2>11. IsConfig(d)
    BY <2>1, <2>2, <2>7, <2>10 DEF IsConfig
  <2>12. Sound(c) => Sound(d)
    <3>1. NamesOf(d) = NamesOf(b)
      BY <2>3, <2>10 DEF NamesOf
    <3>2. Distinct(b) => Distinct(d)
      BY <2>3, <2>10, <3>1 DEF Distinct
    <3> QED BY <2>5, <2>7, <2>10, <3>1, <3>2, SoundIs
  <2> QED BY <2>9, <2>11, <2>12, DoneIs DEF Keeps
<1> QED BY <1>1, <1>2

LEMMA DuplicateKeeps ==
  ASSUME NEW c, IsConfig(c), NEW src, NEW dst \in Str
  PROVE  Keeps(c, cmd_duplicate(c, src, dst))
<1> DEFINE go == Free(c, dst) /\ src \in NamesOf(c) /\ HasRoom(c)
<1>1. CASE go
  <2> DEFINE p == c.profiles[IndexOf(c, src)]
             dp == [p EXCEPT !.name = dst, !.id = ""]
             n == [p EXCEPT !.name = dst]
  <2>1. dst \in Short /\ dst \notin NamesOf(c) \cup {""}
    BY <1>1, FreeIs
  <2>2. IsProfile(p)
    BY <1>1, IndexFacts DEF IsConfig
  <2>3. IsProfile(n) /\ n.name = dst
    <3>1. n = KeyPut(p, "name", dst)
      BY DEF KeyPut
    <3> HIDE DEF n, p
    <3> QED BY <2>1, <2>2, <3>1, NamedFacts
  <2>4. dp = KeyPut(n, "id", "")
    BY <2>2, FieldsAre DEF IsProfile, ProfileFields, KeyPut
  <2>5. IsProfile(dp) /\ dp.name = dst
    <3> HIDE DEF dp, n
    <3> QED BY <2>3, <2>4, StringFacts, BoundFor
  <2>6. Keeps(c, Done(Add(c, dp)))
    <3> HIDE DEF dp
    <3> QED BY <2>1, <2>5, AddSound
  <2> QED BY <1>1, <2>6 DEF cmd_duplicate
<1>2. CASE ~go
  BY <1>2, DoneIs DEF cmd_duplicate, Keeps
<1> QED BY <1>1, <1>2

LEMMA CreatePresetKeeps ==
  ASSUME NEW c, IsConfig(c), NEW preset, NEW name \in Str, IsPreset(preset, name)
  PROVE  Keeps(c, cmd_create_preset(c, preset, name))
<1> DEFINE dp == make_preset(preset, name)
           go == Free(c, name) /\ dp.name # "" /\ HasRoom(c)
<1>1. CASE go
  <2>1. name \in Short /\ name \notin NamesOf(c) \cup {""}
    BY <1>1, FreeIs
  <2>2. IsProfile(dp) /\ dp.name = name
    BY <1>1 DEF IsPreset
  <2>3. Keeps(c, Done(Add(c, dp)))
    <3> HIDE DEF dp
    <3> QED BY <2>1, <2>2, AddSound
  <2> QED BY <1>1, <2>3 DEF cmd_create_preset
<1>2. CASE ~go
  BY <1>2, DoneIs DEF cmd_create_preset, Keeps
<1> QED BY <1>1, <1>2

\* One profile is replaced, and the active name goes with its new one.
RenamePut(c, k, new) ==
  [c EXCEPT !.profiles[k].name = new, !.active = IF @ = c.profiles[k].name THEN new ELSE @]

LEMMA RenameFacts ==
  ASSUME NEW c, IsConfig(c), NEW k \in DOMAIN c.profiles, NEW new \in Short,
         new = c.profiles[k].name \/ new \notin NamesOf(c) \cup {""}
  PROVE  LET d == RenamePut(c, k, new)
         IN  /\ IsConfig(d) /\ (Sound(c) => Sound(d)) /\ (Distinct(c) => Distinct(d))
             /\ d.profiles = KeyPut(c.profiles, k, KeyPut(c.profiles[k], "name", new))
             /\ d.raw = c.raw
<1> DEFINE old == c.profiles[k].name
           dp == [c.profiles[k] EXCEPT !.name = new]
           b == [c EXCEPT !.profiles[k] = dp]
           active == IF c.active = old THEN new ELSE c.active
           d == RenamePut(c, k, new)
<1>1. IsProfile(dp) /\ dp.name = new
  <2>1. dp = KeyPut(c.profiles[k], "name", new)
    BY DEF KeyPut
  <2>2. IsProfile(c.profiles[k])
    BY DEF IsConfig
  <2> HIDE DEF dp
  <2> QED BY <2>1, <2>2, NamedFacts
<1>2. d = ActivePut(b, active)
  BY DEF IsConfig, ConfigFields, ActivePut, RenamePut
<1> HIDE DEF dp
<1>3. /\ IsConfig(b) /\ b.active = c.active /\ b.raw = c.raw /\ b.profiles = KeyPut(c.profiles, k, dp)
      /\ dp.name \in NamesOf(b) /\ \A n \in NamesOf(c) : n = old \/ n \in NamesOf(b)
      /\ Distinct(c) /\ (dp.name = old \/ dp.name \notin NamesOf(c) \cup {""}) => Distinct(b)
  <2>1. b = ProfilePut(c, k, dp)
    BY DEF ProfilePut
  <2> HIDE DEF b
  <2> QED BY <1>1, <2>1, ReplaceFacts
<1>4. active \in Short
  BY DEF IsConfig
<1> HIDE DEF b, d, active, dp
<1>5. d = [f \in ConfigFields |-> d[f]] /\ d.profiles = b.profiles /\ d.active = active /\ d.raw = c.raw /\ d.version = b.version
  BY <1>2, <1>3 DEF IsConfig, ConfigFields, ActivePut
<1>6. IsConfig(d)
  BY <1>3, <1>4, <1>5 DEF IsConfig
<1>7. NamesOf(d) = NamesOf(b) /\ (Distinct(b) => Distinct(d))
  BY <1>5 DEF NamesOf, Distinct
<1>8. Distinct(c) => Distinct(d)
  BY <1>1, <1>3, <1>7
<1>9. Sound(c) => Sound(d)
  <2>1. Sound(c) => active \in NamesOf(b) \cup {""}
    BY <1>1, <1>3, SoundIs DEF active
  <2> QED BY <1>5, <1>7, <1>8, <2>1, SoundIs
<1>10. dp = KeyPut(c.profiles[k], "name", new)
  BY DEF dp, KeyPut
<1> QED BY <1>3, <1>5, <1>6, <1>8, <1>9, <1>10 DEF d

LEMMA RenamedKeeps ==
  ASSUME NEW c, IsConfig(c), NEW old, NEW new \in Str
  PROVE  Keeps(c, cmd_rename(c, old, new))
<1>1. CASE Free(c, new) /\ old \in NamesOf(c)
  <2> DEFINE k == IndexOf(c, old)
             d == [c EXCEPT !.profiles[k].name = new, !.active = IF @ = old THEN new ELSE @]
  <2>1. new \in Short /\ new \notin NamesOf(c) \cup {""}
    BY <1>1, FreeIs
  <2>2. k \in DOMAIN c.profiles /\ c.profiles[k].name = old
    BY <1>1, IndexFacts
  <2>3. cmd_rename(c, old, new) = Done(d)
    BY <1>1 DEF cmd_rename
  <2> HIDE DEF k
  <2>4. IsConfig(d) /\ (Sound(c) => Sound(d))
    <3>1. d = RenamePut(c, k, new)
      BY <2>2 DEF RenamePut
    <3> HIDE DEF d
    <3> QED BY <2>1, <2>2, <3>1, RenameFacts
  <2> HIDE DEF d
  <2> QED BY <2>3, <2>4, DoneIs DEF Keeps
<1>2. CASE ~(Free(c, new) /\ old \in NamesOf(c))
  BY <1>2, DoneIs DEF cmd_rename, Keeps
<1> QED BY <1>1, <1>2


-----------------------------------------------------------------------------
(* Setting one field *)

\* A profile with no word about its names and its speed limits.
Numeric(p) ==
  /\ p = [f \in ProfileFields |-> p[f]] /\ {p.whole, p.raw, p.disable} \subseteq {0, 1}
  /\ \A f \in ProfileNumbers : p[f] \in Int
  /\ IsArgs(p.x) /\ IsArgs(p.y)
Named(p) == {p.name, p.id, p.app} \subseteq Short

LEMMA NumericIs ==
  ASSUME NEW p
  PROVE  /\ IsProfile(p) <=> Numeric(p) /\ Named(p) /\ (p.smax > 0 => p.smax >= p.smin)
         /\ Numeric(p) /\ Named(p) => ReadProfile(p)
<1>1. IsProfile(p) <=> Numeric(p) /\ Named(p) /\ (p.smax > 0 => p.smax >= p.smin)
  BY FieldsAre DEF IsProfile, Numeric, Named
<1>2. ASSUME Numeric(p), Named(p) PROVE ReadProfile(p)
  <2>1. ReadArgs(p.x) /\ ReadArgs(p.y)
    BY <1>2, LoadedIsRead DEF Numeric
  <2> QED BY <1>2, <2>1 DEF Numeric, Named, ReadProfile, ProfileNumbers
<1> QED BY <1>1, <1>2

\* A value that goes with a field of an axis, or of a profile.
ArgOk(key, v) ==
  /\ key \in AxisKeys /\ (key \in ArgsNumbers => v \in Int)
  /\ (key = "mode" => v \in Modes) /\ (key = "capmode" => v \in CapModes) /\ (key = "gain" => v \in {0, 1})
FieldOk(key, v) ==
  /\ key \in ProfileFields \ {"x", "y"}
  /\ (key \in ProfileNumbers => v \in Int) /\ (key \in {"whole", "raw", "disable"} => v \in {0, 1})

LEMMA ArgSet ==
  ASSUME NEW a, IsArgs(a), NEW key, NEW v, ArgOk(key, v)
  PROVE  LET b == KeyPut(a, key, v)
         IN  IsArgs(b) /\ b[key] = v /\ \A f \in ArgsFields : f # key => b[f] = a[f]
<1> DEFINE b == KeyPut(a, key, v)
<1>1. a = [f \in ArgsFields |-> a[f]] /\ key \in ArgsFields
  BY FieldsAre DEF IsArgs, ArgOk, AxisKeys, ArgsNumbers, ArgsFields
<1>2. b = [f \in ArgsFields |-> b[f]] /\ b[key] = v /\ \A f \in ArgsFields : f # key => b[f] = a[f]
  BY <1>1 DEF KeyPut
<1>3. b.mode \in Modes /\ b.capmode \in CapModes /\ b.gain \in {0, 1}
  BY <1>2 DEF IsArgs, ArgOk, ArgsFields
<1>6. b.lut = a.lut /\ IsCurve(a.lut)
  BY <1>1, <1>2 DEF IsArgs, ArgOk, AxisKeys, ArgsNumbers, ArgsFields
<1>4. \A f \in ArgsNumbers : b[f] \in Int
  <2>1. ArgsNumbers \subseteq ArgsFields
    BY DEF ArgsNumbers, ArgsFields
  <2> QED BY <1>2, <2>1 DEF IsArgs, ArgOk
<1>5. IsArgs(b)
  BY <1>2, <1>3, <1>4, <1>6, FieldsAre DEF IsArgs
<1> QED BY <1>2, <1>5

LEMMA ProfileSet ==
  ASSUME NEW p, Numeric(p), NEW key, NEW v, FieldOk(key, v)
  PROVE  LET q == KeyPut(p, key, v)
         IN  Numeric(q) /\ q[key] = v /\ \A f \in ProfileFields : f # key => q[f] = p[f]
<1> DEFINE q == KeyPut(p, key, v)
<1>1. p = [f \in ProfileFields |-> p[f]] /\ key \in ProfileFields /\ key # "x" /\ key # "y"
  BY DEF Numeric, FieldOk
<1>2. q = [f \in ProfileFields |-> q[f]] /\ q[key] = v /\ \A f \in ProfileFields : f # key => q[f] = p[f]
  BY <1>1 DEF KeyPut
<1>3. q.x = p.x /\ q.y = p.y /\ q.whole \in {0, 1} /\ q.raw \in {0, 1} /\ q.disable \in {0, 1}
  BY <1>1, <1>2 DEF Numeric, FieldOk, ProfileFields
<1>4. \A f \in ProfileNumbers : q[f] \in Int
  <2>1. ProfileNumbers \subseteq ProfileFields
    BY DEF ProfileNumbers, ProfileFields
  <2> QED BY <1>2, <2>1 DEF Numeric, FieldOk
<1>5. Numeric(q)
  BY <1>2, <1>3, <1>4 DEF Numeric
<1> QED BY <1>2, <1>5

LEMMA AxesSet ==
  ASSUME NEW p, Numeric(p), NEW a, IsArgs(a), NEW b, IsArgs(b)
  PROVE  LET q == AxesPut(p, a, b)
         IN  Numeric(q) /\ q.x = a /\ q.y = b /\ \A f \in ProfileFields \ {"x", "y"} : q[f] = p[f]
<1> DEFINE q == AxesPut(p, a, b)
<1>1. /\ q = [f \in ProfileFields |-> q[f]] /\ q.x = a /\ q.y = b
      /\ \A f \in ProfileFields \ {"x", "y"} : q[f] = p[f]
  BY DEF Numeric, ProfileFields, AxesPut
<1>2. q.whole = p.whole /\ q.raw = p.raw /\ q.disable = p.disable /\ \A f \in ProfileNumbers : q[f] = p[f]
  BY <1>1 DEF ProfileFields, ProfileNumbers
<1>3. Numeric(q)
  BY <1>1, <1>2 DEF Numeric
<1> QED BY <1>1, <1>3

LEMMA DistanceFacts ==
  ASSUME NEW p, Numeric(p), NEW v, v \in {"euclidean", "max", "lp", "separate"}, NEW lp \in Int
  PROVE  LET q == Distance(p, v, lp)
         IN  /\ Numeric(q) /\ \A f \in ProfileFields \ {"whole", "norm"} : q[f] = p[f]
             /\ q.whole = (IF v = "separate" THEN 0 ELSE 1)
             /\ q.norm = (CASE v = "separate" -> p.norm
                            [] v = "max" -> NORM_OF_MAX
                            [] v = "lp" -> lp
                            [] v = "euclidean" -> EUCLIDEAN)
<1> DEFINE q == Distance(p, v, lp)
           whole == IF v = "separate" THEN 0 ELSE 1
           norm == CASE v = "separate" -> p.norm
                     [] v = "max" -> NORM_OF_MAX
                     [] v = "lp" -> lp
                     [] v = "euclidean" -> EUCLIDEAN
<1>1. p = [f \in ProfileFields |-> p[f]] /\ p.norm \in Int
  BY DEF Numeric, ProfileNumbers
<1>2. q = [p EXCEPT !.whole = whole, !.norm = norm]
  BY DEF Distance
<1>3. whole \in {0, 1} /\ norm \in Int
  BY <1>1 DEF NORM_OF_MAX, EUCLIDEAN
<1> HIDE DEF whole, norm
<1>4. /\ q = [f \in ProfileFields |-> q[f]] /\ q.whole = whole /\ q.norm = norm
      /\ \A f \in ProfileFields \ {"whole", "norm"} : q[f] = p[f]
  BY <1>1, <1>2 DEF ProfileFields
<1>5. q.x = p.x /\ q.y = p.y /\ q.raw = p.raw /\ q.disable = p.disable
  BY <1>4 DEF ProfileFields
<1>6. \A f \in ProfileNumbers : q[f] \in Int
  BY <1>3, <1>4 DEF Numeric, ProfileFields, ProfileNumbers
<1>7. Numeric(q)
  BY <1>3, <1>4, <1>5, <1>6 DEF Numeric
<1> QED BY <1>4, <1>7 DEF whole, norm

\* The values a set-param may carry.
ParamOk(key, v) ==
  /\ key \in ArgsNumbers \cup ProfileNumbers => v \in Int
  /\ key \in {"id", "app"} => v \in Str

PlainKeys == {"raw", "disable", "dpi", "odpi", "weight", "norm", "smin", "smax", "rot", "id", "app"}

LEMMA KeyIs ==
  ASSUME NEW dp, NEW key, NEW v, InDomain(dp, key, v)
  PROVE  /\ key \in AxisKeys \/ key = "dist" \/ key \in PlainKeys
         /\ AxisKeys \cap PlainKeys = {} /\ "dist" \notin AxisKeys \cup PlainKeys
BY DEF InDomain, AxisKeys, ArgsNumbers, PlainKeys

LEMMA AssignedFacts ==
  ASSUME NEW dp, IsProfile(dp), NEW key, NEW v, InDomain(dp, key, v), ParamOk(key, v)
  PROVE  LET q == Assigned(dp, key, v)
         IN  ReadProfile(q) /\ Numeric(q) /\ q.name = dp.name
<1> DEFINE q == Assigned(dp, key, v)
<1>0. Numeric(dp) /\ Named(dp)
  BY NumericIs
<1>1. CASE key \in AxisKeys
  <2> DEFINE a == [dp.x EXCEPT ![key] = v]
             b == [dp.y EXCEPT ![key] = v]
  <2>1. ArgOk(key, v)
    BY <1>1 DEF ArgOk, ParamOk, InDomain, AxisKeys, ArgsNumbers
  <2>2. IsArgs(a) /\ IsArgs(b)
    <3>1. a = KeyPut(dp.x, key, v) /\ b = KeyPut(dp.y, key, v)
      BY DEF KeyPut
    <3> HIDE DEF a, b
    <3> QED BY <1>0, <2>1, <3>1, ArgSet DEF Numeric
  <2>3. q = AxesPut(dp, a, b)
    <3>1. q = [dp EXCEPT !.x[key] = v, !.y[key] = v]
      BY <1>1 DEF Assigned, AxisKeys, ArgsNumbers
    <3>2. dp = [f \in ProfileFields |-> dp[f]]
      BY <1>0 DEF Numeric
    <3> HIDE DEF q
    <3> QED BY <3>1, <3>2 DEF ProfileFields, AxesPut
  <2> HIDE DEF a, b, q
  <2>4. Numeric(q) /\ \A f \in ProfileFields \ {"x", "y"} : q[f] = dp[f]
    BY <1>0, <2>2, <2>3, AxesSet
  <2>5. Named(q) /\ q.name = dp.name
    BY <1>0, <2>4 DEF Named, ProfileFields
  <2> QED BY <2>4, <2>5, NumericIs DEF q
<1>2. CASE key = "dist"
  <2> DEFINE lp == IF dp.norm >= MAX_NORM THEN EUCLIDEAN ELSE dp.norm
  <2>1. q = Distance(dp, v, lp)
    BY <1>2 DEF Assigned, AxisKeys, ArgsNumbers
  <2>2. v \in {"euclidean", "max", "lp", "separate"} /\ lp \in Int
    BY <1>0, <1>2 DEF InDomain, Numeric, ProfileNumbers, EUCLIDEAN
  <2> HIDE DEF lp, q
  <2>3. Numeric(q) /\ \A f \in ProfileFields \ {"whole", "norm"} : q[f] = dp[f]
    BY <1>0, <2>1, <2>2, DistanceFacts
  <2>4. Named(q) /\ q.name = dp.name
    BY <1>0, <2>3 DEF Named, ProfileFields
  <2> QED BY <2>3, <2>4, NumericIs DEF q
<1>3. CASE key \in PlainKeys
  <2> DEFINE w == CASE key = "id" /\ v \in AnyDevice -> ""
                    [] key = "app" -> Trim[v]
                    [] OTHER -> v
  <2>1. q = KeyPut(dp, key, w)
    <3>1. key \notin AxisKeys /\ key # "dist"
      BY <1>3, KeyIs
    <3> QED BY <3>1 DEF Assigned, KeyPut
  <2>2. FieldOk(key, w) /\ (key \in {"id", "app"} => w \in Short) /\ key # "name"
    <3>1. (key = "id" => v \in Short) /\ (key = "app" => Trim[v] \in Short)
      BY StringFacts DEF ParamOk, InDomain, Short, AxisKeys, ArgsNumbers
    <3>2. key \in ProfileNumbers => v \in Int
      BY DEF ParamOk
    <3>3. key \in {"raw", "disable"} => v \in {0, 1}
      BY DEF InDomain, AxisKeys, ArgsNumbers
    <3> QED BY <1>3, <3>1, <3>2, <3>3, StringFacts DEF FieldOk, PlainKeys, ProfileFields, ProfileNumbers
  <2> HIDE DEF w, q
  <2>3. Numeric(q) /\ q[key] = w /\ \A f \in ProfileFields : f # key => q[f] = dp[f]
    BY <1>0, <2>1, <2>2, ProfileSet
  <2>4. Named(q) /\ q.name = dp.name
    BY <1>0, <2>2, <2>3 DEF Named, ProfileFields
  <2> QED BY <2>3, <2>4, NumericIs DEF q
<1> QED BY <1>1, <1>2, <1>3, KeyIs

LEMMA SetParamKeeps ==
  ASSUME NEW c, IsConfig(c), NEW name, NEW key, NEW v, ParamOk(key, v)
  PROVE  Keeps(c, cmd_set_param(c, name, key, v))
<1> DEFINE k == IndexOf(c, name)
           go == name \in NamesOf(c) /\ InDomain(c.profiles[k], key, v)
           dp == sanitize_device_profile(Assigned(c.profiles[k], key, v))
           d == [c EXCEPT !.profiles[k] = dp]
<1>1. CASE go
  <2>1. k \in DOMAIN c.profiles /\ c.profiles[k].name = name
    BY <1>1, IndexFacts
  <2>2. IsProfile(dp) /\ dp.name = c.profiles[k].name
    <3>1. IsProfile(c.profiles[k]) /\ InDomain(c.profiles[k], key, v)
      BY <1>1, <2>1 DEF IsConfig
    <3>2. ReadProfile(Assigned(c.profiles[k], key, v)) /\ Assigned(c.profiles[k], key, v).name = c.profiles[k].name
      BY <3>1, AssignedFacts
    <3> QED BY <3>2, ProfileSanitised
  <2>3. cmd_set_param(c, name, key, v) = Done(d)
    BY <1>1 DEF cmd_set_param
  <2> HIDE DEF dp, k
  <2>4. d = ProfilePut(c, k, dp)
    BY DEF ProfilePut
  <2> HIDE DEF d
  <2>5. /\ IsConfig(d) /\ d.active = c.active /\ (Distinct(c) => Distinct(d))
        /\ \A n \in NamesOf(c) : n = c.profiles[k].name \/ n \in NamesOf(d)
        /\ dp.name \in NamesOf(d)
    BY <2>1, <2>2, <2>4, ReplaceFacts
  <2>6. Sound(c) => Sound(d)
    BY <2>2, <2>5, SoundIs
  <2> QED BY <2>3, <2>5, <2>6, DoneIs DEF Keeps
<1>2. CASE ~go
  BY <1>2, DoneIs DEF cmd_set_param, Keeps
<1> QED BY <1>1, <1>2


-----------------------------------------------------------------------------
(* import, and the commands together *)

LEMMA MigratedFacts ==
  ASSUME NEW f, NEW j, IsProfileJson(j), ~ProfileThrows(j), IsVersion(f.version)
  PROVE  IsProfile(Migrated(f, j)) /\ Migrated(f, j).name = json_get_string_limited(j.name, "")
<1> DEFINE version == IF VersionOf(j.version) # <<>> THEN VersionOf(j.version) ELSE VersionOf(f.version)
           dp == device_profile_from_json(j)
           c == [app_config EXCEPT !.version = version, !.profiles = <<dp>>]
<1>1. IsProfile(dp) /\ dp.name = json_get_string_limited(j.name, "")
  BY ProfileRead
<1>2. Migrated(f, j) = migrate_config(c).profiles[1]
  BY DEF Migrated
<1>9. IsVersionHeld(version)
  BY VersionFacts DEF IsProfileJson
<1> HIDE DEF version, dp
<1>3. c = [k \in ConfigFields |-> c[k]] /\ c.profiles = <<dp>> /\ c.active = "default"
      /\ c.raw = 1 /\ c.version = version
  BY DEF app_config, ConfigFields
<1> HIDE DEF c
<1>4. IsSeq(c.profiles) /\ Len(c.profiles) = 1 /\ 1 \in DOMAIN c.profiles
      /\ \A i \in DOMAIN c.profiles : c.profiles[i] = dp
  <2>1. IsSeq(<<dp>>) /\ Len(<<dp>>) = 1 /\ DOMAIN <<dp>> = 1..1 /\ <<dp>>[1] = dp
    BY SingleFacts
  <2> QED BY <1>3, <2>1
<1>5. IsConfig(c)
  BY <1>1, <1>3, <1>4, <1>9, StringFacts DEF IsConfig
<1>6. IsConfig(migrate_config(c)) /\ SameNames(c, migrate_config(c))
  BY <1>5, MigrateConfig
<1> HIDE DEF c
<1>7. 1 \in DOMAIN migrate_config(c).profiles /\ migrate_config(c).profiles[1].name = dp.name
  BY <1>4, <1>6 DEF SameNames
<1>8. IsProfile(migrate_config(c).profiles[1])
  BY <1>6, <1>7 DEF IsConfig
<1> QED BY <1>1, <1>2, <1>7, <1>8

LEMMA ImportableIs ==
  ASSUME NEW j, j = Wrong \/ IsProfileJson(j), Importable(j)
  PROVE  /\ IsProfileJson(j) /\ ~ProfileThrows(j)
         /\ json_get_string_limited(j.name, "") = j.name /\ j.name # ""
<1>1. /\ j # Wrong /\ IsProfileJson(j) /\ ~ProfileThrows(j) /\ json_get_string_limited(j.name, "") # ""
      /\ (j.name \in {Absent, Wrong} \/ Cut[j.name] = j.name)
  BY DEF Importable
<1>2. json_get_string_limited(j.name, "") = IF j.name \in {Absent, Wrong} THEN "" ELSE Cut[j.name]
  BY DEF json_get_string_limited
<1> QED BY <1>1, <1>2

LEMMA ImportKeeps ==
  ASSUME NEW c, IsConfig(c), NEW f, IsArray(f.frags), IsVersion(f.version)
  PROVE  Keeps(c, cmd_import(c, f))
<1> DEFINE fs == f.frags
           names == [i \in DOMAIN fs |-> fs[i].name]
           batch == [i \in DOMAIN fs |-> Migrated(f, fs[i])]
           merged == [c EXCEPT
                   !.profiles = @ \o batch,
                   !.active = IF f.kind = "wrapper" /\ f.active \notin {Absent, Wrong} THEN f.active ELSE @,
                   !.raw = IF f.kind = "wrapper" THEN bool_from_json_lenient(f.raw, @) ELSE @]
           d == [merged EXCEPT !.active = IF @ \in NamesOf(merged) THEN @ ELSE merged.profiles[1].name]
           go == /\ Fragments(f)
                 /\ \A i \in DOMAIN fs : Importable(fs[i])
                 /\ \A i \in DOMAIN fs : names[i] \notin NamesOf(c) \cup {names[k] : k \in 1..(i - 1)}
                 /\ Len(c.profiles) + Len(fs) <= MAX_PROFILES
<1>1. CASE ~go
  BY <1>1, DoneIs DEF cmd_import, Keeps
<1>2. CASE go
  <2> DEFINE n == Len(c.profiles)
             ps == c.profiles \o batch
  <2>1. cmd_import(c, f) = Done(d)
    BY <1>2 DEF cmd_import
  <2>2. IsSeq(fs) /\ \A i \in DOMAIN fs : fs[i] = Wrong \/ IsProfileJson(fs[i])
    BY DEF IsArray, IsSeq
  <2>3. Len(fs) \in Nat /\ DOMAIN fs = 1..Len(fs) /\ n \in Nat /\ DOMAIN c.profiles = 1..n
    BY <2>2, SeqShape, NamesFacts
  <2>4. fs # <<>> /\ Len(fs) # 0
    <3>1. fs # <<>>
      <4>1. Len(fs) = 1 => fs # <<>>
        BY EmptyFacts
      <4> QED BY <1>2, <4>1 DEF Fragments
    <3>2. fs \in Seq(Range(fs))
      BY <2>2 DEF IsSeq
    <3> QED BY <3>1, <3>2, EmptySeq
  <2>5. ASSUME NEW i \in DOMAIN fs
        PROVE  IsProfile(batch[i]) /\ batch[i].name = fs[i].name /\ fs[i].name # ""
    <3>1. IsProfileJson(fs[i]) /\ ~ProfileThrows(fs[i])
          /\ json_get_string_limited(fs[i].name, "") = fs[i].name /\ fs[i].name # ""
      BY <1>2, <2>2, ImportableIs
    <3>2. batch[i] = Migrated(f, fs[i])
      OBVIOUS
    <3> HIDE DEF batch
    <3> QED BY <3>1, <3>2, MigratedFacts
  <2>6. ASSUME NEW i \in DOMAIN fs
        PROVE  fs[i].name \notin NamesOf(c) /\ \A k \in 1..(i - 1) : fs[k].name # fs[i].name
    <3>1. names[i] \notin NamesOf(c) \cup {names[k] : k \in 1..(i - 1)}
      BY <1>2
    <3>2. \A k \in 1..(i - 1) : k \in DOMAIN fs
      BY <2>3
    <3>3. \A k \in DOMAIN fs : names[k] = fs[k].name
      OBVIOUS
    <3> HIDE DEF names
    <3> QED BY <3>1, <3>2, <3>3
  <2>7. batch = [i \in 1..Len(fs) |-> batch[i]]
    BY <2>3
  <2> HIDE DEF batch
  <2>8. IsSeq(batch) /\ Len(batch) = Len(fs) /\ DOMAIN batch = DOMAIN fs
    BY <2>3, <2>7, MakeSeq
  <2>9. /\ IsSeq(ps) /\ Len(ps) = n + Len(fs) /\ DOMAIN ps = 1..(n + Len(fs))
        /\ \A i \in 1..n : ps[i] = c.profiles[i]
        /\ \A i \in (n + 1)..(n + Len(fs)) : ps[i] = batch[i - n]
    <3>1. IsSeq(c.profiles)
      BY DEF IsConfig
    <3>2. /\ IsSeq(c.profiles \o batch) /\ Len(c.profiles \o batch) = Len(c.profiles) + Len(batch)
          /\ DOMAIN (c.profiles \o batch) = 1..(Len(c.profiles) + Len(batch))
          /\ \A i \in 1..Len(c.profiles) : (c.profiles \o batch)[i] = c.profiles[i]
          /\ \A i \in (Len(c.profiles) + 1)..(Len(c.profiles) + Len(batch)) :
               (c.profiles \o batch)[i] = batch[i - Len(c.profiles)]
      <4> DEFINE s == c.profiles
      <4>1. IsSeq(s) /\ IsSeq(batch)
        BY <2>8, <3>1
      <4> HIDE DEF s
      <4>2. /\ IsSeq(s \o batch) /\ Len(s \o batch) = Len(s) + Len(batch)
            /\ DOMAIN (s \o batch) = 1..(Len(s) + Len(batch))
            /\ \A i \in 1..Len(s) : (s \o batch)[i] = s[i]
            /\ \A i \in (Len(s) + 1)..(Len(s) + Len(batch)) : (s \o batch)[i] = batch[i - Len(s)]
        BY ONLY <4>1, ConcatFacts
      <4> QED BY <4>2 DEF s
    <3> QED BY <2>8, <3>2
  <2> HIDE DEF ps, n
  <2>10. /\ \A i \in DOMAIN ps : i \in 1..n \/ i \in (n + 1)..(n + Len(fs))
         /\ \A i \in (n + 1)..(n + Len(fs)) : i - n \in DOMAIN fs
         /\ 1 \in DOMAIN ps /\ \A i \in 1..n : i \in DOMAIN ps
    <3> DEFINE l == Len(fs)
    <3>1. n \in Nat /\ l \in Nat /\ l # 0 /\ DOMAIN ps = 1..(n + l) /\ DOMAIN fs = 1..l
      BY <2>3, <2>4, <2>9
    <3> HIDE DEF l
    <3>2. \A i \in 1..(n + l) : i \in 1..n \/ i \in (n + 1)..(n + l)
      BY <3>1
    <3>3. \A i \in (n + 1)..(n + l) : i - n \in 1..l
      BY <3>1
    <3>4. 1 \in 1..(n + l) /\ \A i \in 1..n : i \in 1..(n + l)
      BY <3>1
    <3> QED BY <3>1, <3>2, <3>3, <3>4 DEF l
  <2>11. \A i \in DOMAIN ps : IsProfile(ps[i])
    BY <2>3, <2>5, <2>9, <2>10 DEF IsConfig
  <2>12. /\ merged = [k \in ConfigFields |-> merged[k]] /\ merged.profiles = ps /\ merged.version = c.version
          /\ merged.raw = (IF f.kind = "wrapper" THEN bool_from_json_lenient(f.raw, c.raw) ELSE c.raw)
    <3>1. c = [k \in ConfigFields |-> c[k]]
      BY DEF IsConfig
    <3> QED BY <3>1 DEF ConfigFields, ps
  <2> HIDE DEF merged
  <2>13. /\ NamesOf(merged) = {ps[i].name : i \in DOMAIN ps}
    BY <2>12 DEF NamesOf
  <2>14. /\ d = [k \in ConfigFields |-> d[k]] /\ d.profiles = ps /\ d.active \in NamesOf(merged)
          /\ d.raw = merged.raw /\ d.version = merged.version
    <3>1. merged.profiles[1].name \in NamesOf(merged)
      BY <2>10, <2>12, <2>13
    <3> QED BY <2>12, <3>1 DEF ConfigFields
  <2> HIDE DEF d
  <2>15. d.active \in Short
    <3>1. \A i \in DOMAIN ps : ps[i].name \in Short
      BY <2>11 DEF IsProfile
    <3> QED BY <2>13, <2>14, <3>1
  <2>16. IsConfig(d)
    <3>1. c.raw \in {0, 1} /\ IsVersionHeld(c.version)
      BY DEF IsConfig
    <3>2. merged.raw \in {0, 1}
      BY <2>12, <3>1 DEF bool_from_json_lenient
    <3> QED BY <2>9, <2>11, <2>12, <2>14, <2>15, <3>1, <3>2 DEF IsConfig
  <2>17. ASSUME Distinct(c) PROVE Sound(d)
    <3>0. NamesOf(d) = NamesOf(merged)
      BY <2>13, <2>14 DEF NamesOf
    <3>1. \A i \in 1..n : ps[i].name \in NamesOf(c) /\ ps[i].name # ""
      <4>1. "" \notin NamesOf(c)
        BY <2>17 DEF Distinct
      <4>2. \A i \in DOMAIN c.profiles : c.profiles[i].name \in NamesOf(c)
        BY NamesFacts
      <4> QED BY <2>3, <2>9, <4>1, <4>2
    <3>2. \A i \in (n + 1)..(n + Len(fs)) :
            ps[i].name = fs[i - n].name /\ ps[i].name \notin NamesOf(c) /\ ps[i].name # ""
      <4>1. \A i \in DOMAIN fs : batch[i].name = fs[i].name /\ fs[i].name # "" /\ fs[i].name \notin NamesOf(c)
        BY <2>5, <2>6
      <4>2. ASSUME NEW i \in (n + 1)..(n + Len(fs)) PROVE i - n \in DOMAIN fs /\ ps[i] = batch[i - n]
        BY <2>9, <2>10
      <4> QED BY <4>1, <4>2
    <3>3. "" \notin NamesOf(d)
      <4>1. \A i \in DOMAIN ps : ps[i].name # ""
        BY <2>10, <3>1, <3>2
      <4> QED BY <2>13, <3>0, <4>1
    <3>4. ASSUME NEW i \in DOMAIN ps, NEW k \in DOMAIN ps, ps[i].name = ps[k].name PROVE i = k
      <4>1. CASE i \in 1..n /\ k \in 1..n
        BY <2>3, <2>9, <2>17, <3>4, <4>1 DEF Distinct
      <4>2. CASE i \in (n + 1)..(n + Len(fs)) /\ k \in (n + 1)..(n + Len(fs))
        <5>1. fs[i - n].name = fs[k - n].name /\ i - n \in DOMAIN fs /\ k - n \in DOMAIN fs
          BY <2>10, <3>2, <3>4, <4>2
        <5>2. ~(i - n \in 1..((k - n) - 1)) /\ ~(k - n \in 1..((i - n) - 1))
          BY <2>6, <5>1
        <5> QED BY <2>3, <4>2, <5>1, <5>2
      <4> QED BY <2>10, <3>1, <3>2, <3>4, <4>1, <4>2
    <3>5. \A i, k \in DOMAIN d.profiles : d.profiles[i].name = d.profiles[k].name => i = k
      BY <2>14, <3>4
    <3> QED BY <2>14, <3>0, <3>3, <3>5 DEF Sound
  <2> QED BY <2>1, <2>16, <2>17, DoneIs, SoundIs DEF Keeps
<1> QED BY <1>1, <1>2

LEMMA ResultKeeps ==
  ASSUME NEW c, IsConfig(c), NEW m, IsCommand(m), m.op \notin {"list", "validate"}
  PROVE  Keeps(c, Result(c, m))
<1>1. CASE m.op = "set"
  BY <1>1, SetKeeps DEF Result
<1>2. CASE m.op = "create"
  BY <1>2, CreatedKeeps DEF Result, IsCommand
<1>3. CASE m.op = "delete"
  BY <1>3, DeleteKeeps DEF Result
<1>4. CASE m.op = "rename"
  BY <1>4, RenamedKeeps DEF Result, IsCommand
<1>5. CASE m.op = "duplicate"
  BY <1>5, DuplicateKeeps DEF Result, IsCommand
<1>6. CASE m.op = "create-preset"
  <2>1. m.name \in Str /\ IsPreset(m.preset, m.name)
    BY <1>6 DEF IsCommand
  <2> QED BY <1>6, <2>1, CreatePresetKeeps DEF Result
<1>7. CASE m.op = "set-param"
  <2>1. ParamOk(m.key, m.value)
    BY <1>7 DEF IsCommand, ParamOk
  <2> QED BY <1>7, <2>1, SetParamKeeps DEF Result
<1>8. CASE m.op = "import"
  BY <1>8, ImportKeeps DEF Result, IsCommand
<1> QED BY <1>1, <1>2, <1>3, <1>4, <1>5, <1>6, <1>7, <1>8 DEF IsCommand


-----------------------------------------------------------------------------
(* The window: its shape, and what it is to be true to its profile *)

WindowFields == {"cfg", "cur", "linked", "mem", "mice", "shown", "sel", "dist", "lp", "lut",
                 "unsaved", "phase", "stamp"}
Distances == {"euclidean", "max", "lp", "separate"}

\* What the spin buttons of an axis can show.
InSpins(a) == a.acc >= 0 /\ a.gamma >= GAMMA_SPIN_MIN

IsWidgets(w) ==
  /\ w.linked \in BOOLEAN /\ w.mem \in Int /\ w.lp \in LP_MIN..LP_MAX /\ w.dist \in Distances /\ w.lut \in {"x", "y"}
  /\ w.mice \subseteq Short \ {Unplugged}
  /\ Numeric(w.shown) /\ w.shown.app \in Str
  /\ InSpins(w.shown.x) /\ w.shown.y.acc >= 0
IsWindow(w) ==
  /\ w = [f \in WindowFields |-> w[f]]
  /\ IsConfig(w.cfg) /\ w.cur \in DOMAIN w.cfg.profiles
  /\ IsWidgets(w)

\* The widgets of the X axis, of the Y axis and of the rest say what the profile says.
XShown(dp, s) == \A f \in ArgsFields \ {"lut"} : s.x[f] = AxisShown(dp.x)[f]
YShown(dp, s) == \A f \in {"mode", "acc", "off", "capy"} : s.y[f] = AxisShown(dp.y)[f]
RestShown(dp, s) ==
  /\ \A f \in {"raw", "rot", "smin", "smax", "odpi", "weight", "dpi"} : s[f] = dp[f]
  /\ Cut[Trim[s.app]] \in {dp.app, Cut[Trim[dp.app]]}
DistanceShown(dp, w) ==
  /\ dp.whole = (IF w.dist = "separate" THEN 0 ELSE 1)
  /\ w.dist = "max" => dp.norm >= MAX_NORM
  /\ w.dist = "lp" => w.lp \in {dp.norm, NormShown(dp.norm)} /\ dp.norm < MAX_NORM
  /\ w.dist = "euclidean" => dp.norm = EUCLIDEAN

Honest(w) ==
  LET dp == Cur(w)
  IN  /\ w.linked => dp.x = dp.y
      /\ XShown(dp, w.shown) /\ (~w.linked => YShown(dp, w.shown)) /\ RestShown(dp, w.shown)
      /\ DistanceShown(dp, w) /\ BoundTo(w) = dp.id

LEMMA CurFacts ==
  ASSUME NEW w, IsWindow(w)
  PROVE  /\ IsProfile(Cur(w)) /\ Numeric(Cur(w)) /\ Named(Cur(w)) /\ IsArgs(Cur(w).x) /\ IsArgs(Cur(w).y)
         /\ Cur(w).name \in NamesOf(w.cfg)
         /\ Len(w.cfg.profiles) \in Nat \ {0} /\ DOMAIN w.cfg.profiles = 1..Len(w.cfg.profiles)
<1>1. IsConfig(w.cfg) /\ w.cur \in DOMAIN w.cfg.profiles
  BY DEF IsWindow
<1>2. IsProfile(Cur(w))
  BY <1>1 DEF Cur, IsConfig
<1>3. Cur(w).name \in NamesOf(w.cfg)
  BY <1>1, NamesFacts DEF Cur
<1>4. Len(w.cfg.profiles) \in Nat /\ DOMAIN w.cfg.profiles = 1..Len(w.cfg.profiles)
  BY <1>1, NamesFacts
<1>5. Len(w.cfg.profiles) # 0
  BY <1>1, <1>4
<1> QED BY <1>2, <1>3, <1>4, <1>5, NumericIs DEF Numeric

\* What a handler leaves alone, unless it says so.
OthersSame(w, v) ==
  /\ v = [f \in WindowFields |-> v[f]]
  /\ \A f \in WindowFields \ {"cfg", "cur", "unsaved", "phase"} : v[f] = w[f]

LEMMA WindowKept ==
  ASSUME NEW w, IsWindow(w), NEW v, OthersSame(w, v), IsConfig(v.cfg), v.cur \in DOMAIN v.cfg.profiles
  PROVE  IsWindow(v)
<1>1. /\ v.linked = w.linked /\ v.mem = w.mem /\ v.lp = w.lp /\ v.dist = w.dist /\ v.lut = w.lut
      /\ v.mice = w.mice /\ v.shown = w.shown
  BY DEF OthersSame, WindowFields
<1>2. IsWidgets(v)
  BY <1>1 DEF IsWindow, IsWidgets
<1> QED BY <1>2 DEF IsWindow, OthersSame

LEMMA BoundFacts ==
  ASSUME NEW w, IsWindow(w)
  PROVE  BoundTo(w) \in Short
<1>1. Cur(w).id \in Short
  BY CurFacts DEF Named
<1> QED BY <1>1, StringFacts DEF BoundTo, IsWindow, IsWidgets

\* The curve editor's axis is no matter of the profile.
LEMMA LutShown ==
  ASSUME NEW w, IsWindow(w)
  PROVE  LET v == update_lut_visibility(w)
         IN  /\ IsWindow(v) /\ v.cfg = w.cfg /\ v.cur = w.cur /\ v.stamp = w.stamp
             /\ v.phase = w.phase
             /\ Honest(w) => Honest(v)
<1> DEFINE v == update_lut_visibility(w)
<1>1. v = w \/ v = [w EXCEPT !.lut = IF w.lut = "x" THEN "y" ELSE "x"]
  BY DEF update_lut_visibility
<1>2. w = [f \in WindowFields |-> w[f]] /\ w.lut \in {"x", "y"}
  BY DEF IsWindow, IsWidgets
<1> HIDE DEF v
<1>3. /\ v = [f \in WindowFields |-> v[f]] /\ v.lut \in {"x", "y"}
      /\ \A f \in WindowFields \ {"lut"} : v[f] = w[f]
  BY <1>1, <1>2 DEF WindowFields
<1>4. /\ v.cfg = w.cfg /\ v.cur = w.cur /\ v.stamp = w.stamp /\ v.phase = w.phase
      /\ v.linked = w.linked /\ v.mem = w.mem /\ v.lp = w.lp /\ v.dist = w.dist /\ v.mice = w.mice
      /\ v.shown = w.shown /\ v.sel = w.sel
  BY <1>3 DEF WindowFields
<1>5. IsWidgets(v)
  BY <1>3, <1>4 DEF IsWindow, IsWidgets
<1>6. IsWindow(v)
  BY <1>3, <1>4, <1>5 DEF IsWindow
<1>7. Cur(v) = Cur(w)
  BY <1>4 DEF Cur
<1>8. BoundTo(v) = BoundTo(w)
  BY <1>4, <1>7 DEF BoundTo
<1>9. Honest(w) => Honest(v)
  BY <1>4, <1>7, <1>8 DEF Honest, DistanceShown
<1> QED BY <1>4, <1>6, <1>9 DEF v


LEMMA AccShown ==
  ASSUME NEW a, IsArgs(a)
  PROVE  LET b == AxisShown(a)
         IN  /\ IsArgs(b) /\ InSpins(b) /\ b.acc = Most(a.acc, 0) /\ b.gamma = Most(a.gamma, GAMMA_SPIN_MIN)
             /\ \A f \in ArgsFields \ {"acc", "gamma"} : b[f] = a[f]
             /\ InSpins(a) => b = a
<1> DEFINE b == AxisShown(a)
<1>1. a.acc \in Int /\ a.gamma \in Int /\ a = [f \in ArgsFields |-> a[f]]
  BY FieldsAre DEF IsArgs, ArgsNumbers
<1>2. /\ b = [f \in ArgsFields |-> b[f]] /\ b.acc = Most(a.acc, 0) /\ b.gamma = Most(a.gamma, GAMMA_SPIN_MIN)
      /\ \A f \in ArgsFields \ {"acc", "gamma"} : b[f] = a[f]
  BY <1>1 DEF AxisShown, ArgsFields
<1> HIDE DEF b
<1>3. /\ b.acc \in Int /\ b.gamma \in Int /\ InSpins(b)
      /\ InSpins(a) => b.acc = a.acc /\ b.gamma = a.gamma
  BY <1>1, <1>2 DEF Most, InSpins, GAMMA_SPIN_MIN
<1>4. \A f \in ArgsNumbers : b[f] \in Int
  BY <1>2, <1>3 DEF IsArgs, ArgsNumbers, ArgsFields
<1>5. b.mode = a.mode /\ b.capmode = a.capmode /\ b.gain = a.gain /\ b.lut = a.lut
  BY <1>2 DEF ArgsFields
<1>6. IsArgs(b)
  BY <1>2, <1>4, <1>5, FieldsAre DEF IsArgs
<1>7. ASSUME InSpins(a) PROVE b = a
  <2>1. \A f \in ArgsFields : b[f] = a[f]
    BY <1>2, <1>3, <1>7
  <2> QED BY <1>1, <1>2, <2>1
<1> QED BY <1>2, <1>3, <1>6, <1>7 DEF b

\* Two axes that differ in their curves only are shown alike.
LEMMA SameShown ==
  ASSUME NEW a, IsArgs(a), NEW b, IsArgs(b), \A f \in ArgsFields \ {"lut"} : a[f] = b[f]
  PROVE  \A f \in ArgsFields \ {"lut"} : AxisShown(a)[f] = AxisShown(b)[f]
<1> DEFINE c == AxisShown(a)
           d == AxisShown(b)
<1>1. /\ c.acc = Most(a.acc, 0) /\ c.gamma = Most(a.gamma, GAMMA_SPIN_MIN)
      /\ \A f \in ArgsFields \ {"acc", "gamma"} : c[f] = a[f]
  BY AccShown
<1>2. /\ d.acc = Most(b.acc, 0) /\ d.gamma = Most(b.gamma, GAMMA_SPIN_MIN)
      /\ \A f \in ArgsFields \ {"acc", "gamma"} : d[f] = b[f]
  BY AccShown
<1>3. a.acc = b.acc /\ a.gamma = b.gamma
  BY DEF ArgsFields
<1> HIDE DEF c, d
<1>4. c.acc = d.acc /\ c.gamma = d.gamma
  BY <1>1, <1>2, <1>3
<1>5. ASSUME NEW f \in ArgsFields \ {"lut"} PROVE c[f] = d[f]
  <2>1. CASE f \in {"acc", "gamma"}
    BY <1>4, <2>1
  <2>2. CASE f \notin {"acc", "gamma"}
    BY <1>1, <1>2, <2>2
  <2> QED BY <2>1, <2>2
<1> QED BY <1>5 DEF c, d

LEMMA NormIn ==
  ASSUME NEW n \in Int
  PROVE  /\ NormShown(n) \in LP_MIN..LP_MAX /\ LP_MAX < MAX_NORM /\ EUCLIDEAN \in LP_MIN..LP_MAX
         /\ n \in LP_MIN..LP_MAX => n \in Int
BY DEF NormShown, Clamp, Least, Most, LP_MIN, LP_MAX, MAX_NORM, EUCLIDEAN

LEMMA ProfileShown ==
  ASSUME NEW w, IsWindow(w)
  PROVE  LET v == profile_to_widgets(w)
         IN  /\ IsWindow(v) /\ v.cfg = w.cfg /\ v.cur = w.cur /\ v.stamp = w.stamp
             /\ v.phase = w.phase
             /\ Honest(v)
<1> DEFINE dp == Cur(w)
           max == dp.norm >= MAX_NORM
           dist == CASE dp.whole = 0 -> "separate"
                     [] dp.whole = 1 /\ max -> "max"
                     [] dp.whole = 1 /\ dp.norm = EUCLIDEAN -> "euclidean"
                     [] OTHER -> "lp"
           lp == NormShown(IF max THEN w.mem ELSE dp.norm)
           sel == device_combo_select(w, dp.id)
           sx == AxisShown(dp.x)
           sy == AxisShown(dp.y)
           shown == AxesPut(dp, sx, sy)
           u == [w EXCEPT !.linked = @ /\ dp.x = dp.y,
                          !.shown = [dp EXCEPT !.x = AxisShown(@), !.y = AxisShown(@)],
                          !.dist = dist, !.lp = lp, !.sel = sel]
<1>1. /\ IsProfile(dp) /\ Numeric(dp) /\ Named(dp) /\ IsArgs(dp.x) /\ IsArgs(dp.y)
      /\ dp.norm \in Int /\ dp.whole \in {0, 1} /\ dp.app \in Short /\ dp.id \in Short
      /\ dp = [f \in ProfileFields |-> dp[f]]
  BY CurFacts DEF Numeric, Named, ProfileNumbers
<1>2. profile_to_widgets(w) = update_lut_visibility(u)
  BY DEF profile_to_widgets
<1>3. [dp EXCEPT !.x = AxisShown(@), !.y = AxisShown(@)] = shown
  BY DEF AxesPut
<1> HIDE DEF shown
<1>3a. u = [w EXCEPT !.linked = @ /\ dp.x = dp.y, !.shown = shown, !.dist = dist, !.lp = lp, !.sel = sel]
  BY <1>3
<1>4. w = [f \in WindowFields |-> w[f]] /\ IsWidgets(w) /\ IsConfig(w.cfg) /\ w.cur \in DOMAIN w.cfg.profiles
  BY DEF IsWindow
<1> HIDE DEF u
<1> HIDE DEF dp, dist, lp, sel, sx, sy
<1>5. /\ u = [f \in WindowFields |-> u[f]]
      /\ u.linked = (w.linked /\ dp.x = dp.y) /\ u.shown = shown /\ u.dist = dist /\ u.lp = lp /\ u.sel = sel
      /\ u.cfg = w.cfg /\ u.cur = w.cur /\ u.stamp = w.stamp /\ u.phase = w.phase
      /\ u.mem = w.mem /\ u.lut = w.lut /\ u.mice = w.mice
  BY <1>3a, <1>4 DEF WindowFields
<1>6. IsArgs(sx) /\ InSpins(sx)
  BY <1>1, AccShown DEF sx
<1>7. IsArgs(sy) /\ InSpins(sy)
  BY <1>1, AccShown DEF sy
<1>8. Numeric(shown) /\ shown.x = sx /\ shown.y = sy /\ \A f \in ProfileFields \ {"x", "y"} : shown[f] = dp[f]
  <2>1. Numeric(dp) /\ IsArgs(sx) /\ IsArgs(sy)
    BY <1>1, <1>6, <1>7
  <2>2. /\ Numeric(AxesPut(dp, sx, sy)) /\ AxesPut(dp, sx, sy).x = sx /\ AxesPut(dp, sx, sy).y = sy
        /\ \A f \in ProfileFields \ {"x", "y"} : AxesPut(dp, sx, sy)[f] = dp[f]
    BY ONLY <2>1, AxesSet
  <2> QED BY <2>2 DEF shown
<1>9. IsWidgets(u)
  <2>1. shown.app \in Str
    BY <1>1, <1>8, StringFacts DEF ProfileFields
  <2>2. dist \in Distances
    BY DEF dist, Distances
  <2>3. lp \in LP_MIN..LP_MAX
    BY <1>1, <1>4, NormIn DEF lp, IsWidgets
  <2> QED BY <1>4, <1>5, <1>6, <1>7, <1>8, <2>1, <2>2, <2>3 DEF IsWidgets, InSpins
<1>10. IsWindow(u)
  BY <1>4, <1>5, <1>9 DEF IsWindow
<1>11. Cur(u) = dp
  BY <1>5 DEF Cur, dp
<1>12. Honest(u)
  <2>1. u.linked => dp.x = dp.y
    BY <1>5
  <2>2. XShown(dp, u.shown)
    BY <1>5, <1>8 DEF XShown, sx
  <2>3. YShown(dp, u.shown)
    BY <1>5, <1>8 DEF YShown, sy
  <2>4. RestShown(dp, u.shown)
    <3> QED BY <1>5, <1>8 DEF RestShown, ProfileFields
  <2>5. DistanceShown(dp, u)
    <3> DEFINE n == dp.norm
               shownNorm == NormShown(n)
    <3>1. EUCLIDEAN < MAX_NORM /\ n \in Int /\ dp.whole \in {0, 1}
      BY <1>1 DEF EUCLIDEAN, MAX_NORM
    <3>2. u.dist = dist /\ u.lp = NormShown(IF n >= MAX_NORM THEN w.mem ELSE n)
      BY <1>5 DEF lp, max
    <3> HIDE DEF shownNorm
    <3>3. CASE dp.whole = 0
      <4>1. dist = "separate"
        BY <3>3 DEF dist
      <4> QED BY <3>2, <3>3, <4>1 DEF DistanceShown
    <3>4. CASE dp.whole = 1 /\ n >= MAX_NORM
      <4>1. dist = "max"
        BY <3>1, <3>4, SMT DEF dist, max, EUCLIDEAN, MAX_NORM
      <4> QED BY <3>2, <3>4, <4>1 DEF DistanceShown
    <3>5. CASE dp.whole = 1 /\ ~(n >= MAX_NORM) /\ n = EUCLIDEAN
      <4>1. dist = "euclidean"
        BY <3>5 DEF dist, max
      <4> QED BY <3>2, <3>5, <4>1 DEF DistanceShown
    <3>6. CASE dp.whole = 1 /\ ~(n >= MAX_NORM) /\ n # EUCLIDEAN
      <4>1. dist = "lp"
        BY <3>6 DEF dist, max
      <4>2. u.lp = shownNorm
        BY <3>2, <3>6 DEF shownNorm
      <4>3. n < MAX_NORM
        BY <3>1, <3>6 DEF MAX_NORM
      <4> QED BY <3>2, <3>6, <4>1, <4>2, <4>3 DEF DistanceShown, shownNorm
    <3> QED BY <3>1, <3>3, <3>4, <3>5, <3>6
  <2>6. BoundTo(u) = dp.id
    <3>1. u.sel = (IF dp.id \in w.mice \cup {""} THEN dp.id ELSE Unplugged)
      BY <1>5 DEF sel, device_combo_select
    <3>2. Unplugged \notin w.mice
      BY <1>4 DEF IsWidgets
    <3> QED BY <1>5, <1>11, <3>1, <3>2 DEF BoundTo
  <2> QED BY <1>11, <2>1, <2>2, <2>3, <2>4, <2>5, <2>6 DEF Honest
<1> QED BY <1>2, <1>5, <1>10, <1>12, LutShown

LEMMA Rebuilt ==
  ASSUME NEW w, IsWindow(w)
  PROVE  rebuild_profile_combo(w) = profile_to_widgets(w)
<1> DEFINE n == Len(w.cfg.profiles)
<1>1. n \in Nat \ {0} /\ w.cur \in 1..n
  BY CurFacts DEF IsWindow
<1>2. Most(1, Least(w.cur, n)) = w.cur
  BY <1>1 DEF Most, Least
<1>3. [w EXCEPT !.cur = w.cur] = w
  BY DEF IsWindow, WindowFields
<1>4. rebuild_profile_combo(w) = profile_to_widgets([w EXCEPT !.cur = Most(1, Least(w.cur, n))])
  BY DEF rebuild_profile_combo
<1> HIDE DEF n
<1> QED BY <1>2, <1>3, <1>4


LEMMA LutSet ==
  ASSUME NEW a, IsArgs(a), NEW l, IsCurve(l)
  PROVE  LET b == KeyPut(a, "lut", l)
         IN  IsArgs(b) /\ b.lut = l /\ \A f \in ArgsFields \ {"lut"} : b[f] = a[f]
<1> DEFINE b == KeyPut(a, "lut", l)
<1>1. a = [f \in ArgsFields |-> a[f]]
  BY FieldsAre DEF IsArgs
<1>2. b = [f \in ArgsFields |-> b[f]] /\ b.lut = l /\ \A f \in ArgsFields \ {"lut"} : b[f] = a[f]
  BY <1>1 DEF KeyPut, ArgsFields
<1> HIDE DEF b
<1>3. b.mode = a.mode /\ b.capmode = a.capmode /\ b.gain = a.gain /\ \A f \in ArgsNumbers : b[f] = a[f]
  BY <1>2 DEF ArgsFields, ArgsNumbers
<1>4. IsArgs(b)
  BY <1>2, <1>3, FieldsAre DEF IsArgs
<1> QED BY <1>2, <1>4 DEF b

LEMMA YAxisFacts ==
  ASSUME NEW w, IsWindow(w), NEW x, IsArgs(x)
  PROVE  LET y == YAxis(w, x)
         IN  /\ IsArgs(y) /\ (w.linked => y = x)
             /\ ~w.linked => /\ \A f \in {"mode", "acc", "off", "capy"} : y[f] = w.shown.y[f]
                             /\ y.lut = IF Cur(w).y.lut = <<>> THEN x.lut ELSE Cur(w).y.lut
<1> DEFINE y == YAxis(w, x)
           s == w.shown.y
           own == Cur(w).y.lut
           lut == IF own = <<>> THEN x.lut ELSE own
<1>1. CASE w.linked
  BY <1>1 DEF YAxis
<1>2. CASE ~w.linked
  <2>1. y = [x EXCEPT !.mode = s.mode, !.acc = s.acc, !.off = s.off, !.capy = s.capy, !.lut = lut]
    BY <1>2 DEF YAxis
  <2>2. x = [f \in ArgsFields |-> x[f]] /\ IsArgs(s)
    BY FieldsAre DEF IsArgs, IsWindow, IsWidgets, Numeric
  <2> HIDE DEF y, s, own, lut
  <2>3. /\ y = [f \in ArgsFields |-> y[f]]
        /\ y.mode = s.mode /\ y.acc = s.acc /\ y.off = s.off /\ y.capy = s.capy /\ y.lut = lut
        /\ y.capmode = x.capmode /\ y.gain = x.gain /\ y.capx = x.capx /\ y.decay = x.decay /\ y.scale = x.scale
        /\ y.gamma = x.gamma
    BY <2>1, <2>2 DEF ArgsFields
  <2>4. /\ s.mode \in Modes /\ x.capmode \in CapModes /\ s.acc \in Int /\ s.off \in Int /\ s.capy \in Int
        /\ x.capx \in Int /\ x.decay \in Int /\ x.scale \in Int /\ x.gamma \in Int /\ x.gain \in {0, 1}
    BY <2>2 DEF IsArgs, ArgsNumbers
  <2>5. \A f \in ArgsNumbers : y[f] \in Int
    BY <2>3, <2>4 DEF ArgsNumbers
  <2>6. IsCurve(lut)
    <3>1. IsArgs(Cur(w).y)
      BY CurFacts DEF Numeric
    <3> QED BY <3>1 DEF IsArgs, lut, own
  <2>7. IsArgs(y)
    BY <2>3, <2>4, <2>5, <2>6, FieldsAre DEF IsArgs
  <2> QED BY <1>2, <2>3, <2>7 DEF y, s, lut, own
<1> QED BY <1>1, <1>2

\* The profile q that the widgets of w say.
WrittenBack(w, q) ==
  LET s == w.shown
      c == Cur(w)
      x == KeyPut(s.x, "lut", c.x.lut)
  IN  /\ q = [f \in ProfileFields |-> q[f]]
      /\ q.x = x /\ q.y = YAxis(w, x)
      /\ \A f \in {"raw", "rot", "smin", "odpi", "weight", "dpi"} : q[f] = s[f]
      /\ q.smax = (IF s.smax > 0 /\ s.smax < s.smin THEN s.smin ELSE s.smax)
      /\ q.id = BoundTo(w) /\ q.app = Cut[Trim[s.app]] /\ q.name = c.name /\ q.disable = c.disable
      /\ q.whole = (IF w.dist = "separate" THEN 0 ELSE 1)
      /\ q.norm = (CASE w.dist = "separate" -> c.norm
                     [] w.dist = "max" -> NORM_OF_MAX
                     [] w.dist = "lp" -> w.lp
                     [] w.dist = "euclidean" -> EUCLIDEAN)

\* What the widgets say becomes the profile, under its name, and the window is
\* true to it.
LEMMA WidgetsStored ==
  ASSUME NEW w, IsWindow(w)
  PROVE  LET v == widgets_to_profile(w)
         IN  /\ IsWindow(v) /\ Honest(v)
             /\ IsProfile(Cur(v)) /\ Cur(v).name = Cur(w).name /\ v.cfg = ProfilePut(w.cfg, w.cur, Cur(v))
             /\ v.cur = w.cur /\ v.stamp = w.stamp /\ v.phase = w.phase
             /\ v.linked = w.linked /\ v.mice = w.mice /\ WrittenBack(w, Cur(v))
<1> DEFINE s == w.shown
           c == Cur(w)
           x == KeyPut(s.x, "lut", c.x.lut)
           y == YAxis(w, x)
           smax == IF s.smax > 0 /\ s.smax < s.smin THEN s.smin ELSE s.smax
           id == BoundTo(w)
           app == Cut[Trim[s.app]]
           p == [c EXCEPT !.x = x, !.y = y, !.raw = s.raw, !.rot = s.rot,
                          !.smin = s.smin, !.smax = smax, !.odpi = s.odpi,
                          !.weight = s.weight, !.dpi = s.dpi, !.id = id, !.app = app]
           q == Distance(p, w.dist, w.lp)
           mem == IF w.dist = "max" THEN w.mem ELSE w.lp
           v == widgets_to_profile(w)
<1>1. v = [w EXCEPT !.cfg.profiles[w.cur] = q, !.shown.smax = smax, !.mem = mem, !.unsaved = TRUE]
  BY DEF widgets_to_profile, KeyPut
<1>2. /\ w = [f \in WindowFields |-> w[f]] /\ IsConfig(w.cfg) /\ w.cur \in DOMAIN w.cfg.profiles
      /\ IsWidgets(w) /\ Numeric(s) /\ s.app \in Str
  BY DEF IsWindow, IsWidgets
<1>3. /\ Numeric(c) /\ Named(c) /\ c.name \in Short /\ c = [f \in ProfileFields |-> c[f]] /\ c.whole \in {0, 1}
      /\ c.norm \in Int
  BY CurFacts DEF Numeric, Named, ProfileNumbers
<1>4. /\ s = [f \in ProfileFields |-> s[f]] /\ IsArgs(s.x) /\ IsArgs(s.y)
      /\ s.rot \in Int /\ s.smin \in Int /\ s.smax \in Int /\ s.odpi \in Int /\ s.weight \in Int /\ s.dpi \in Int
  BY <1>2 DEF Numeric, ProfileNumbers
<1>5. id \in Short /\ app \in Short /\ smax \in Int /\ (smax > 0 => smax >= s.smin)
  <2>1. id \in Short
    BY BoundFacts
  <2>2. app \in Short
    BY <1>2, StringFacts
  <2>3. smax \in Int /\ (smax > 0 => smax >= s.smin)
    BY <1>4
  <2> QED BY <2>1, <2>2, <2>3
<1> HIDE DEF v, q, mem, smax, id, app, x, y
<1>6. IsArgs(x) /\ x.lut = c.x.lut /\ \A f \in ArgsFields \ {"lut"} : x[f] = s.x[f]
  <2>1. IsArgs(c.x)
    BY <1>3 DEF Numeric
  <2>2. IsCurve(c.x.lut)
    BY <2>1 DEF IsArgs
  <2> QED BY <1>4, <2>2, LutSet DEF x
<1>7. /\ IsArgs(y) /\ (w.linked => y = x)
      /\ ~w.linked => \A f \in {"mode", "acc", "off", "capy"} : y[f] = s.y[f]
  BY <1>6, YAxisFacts DEF y
<1>8. /\ p = [f \in ProfileFields |-> p[f]]
      /\ p.x = x /\ p.y = y /\ p.raw = s.raw /\ p.rot = s.rot /\ p.smin = s.smin /\ p.smax = smax
      /\ p.odpi = s.odpi /\ p.weight = s.weight /\ p.dpi = s.dpi /\ p.id = id /\ p.app = app
      /\ p.name = c.name /\ p.whole = c.whole /\ p.norm = c.norm /\ p.disable = c.disable
  <2> HIDE DEF c, s
  <2> QED BY <1>3 DEF ProfileFields
<1> HIDE DEF p
<1>9. Numeric(p)
  <2>1. \A f \in ProfileNumbers : p[f] \in Int
    BY <1>3, <1>4, <1>5, <1>8 DEF ProfileNumbers
  <2>2. {p.whole, p.raw, p.disable} \subseteq {0, 1}
    BY <1>2, <1>3, <1>8 DEF Numeric
  <2> QED BY <1>6, <1>7, <1>8, <2>1, <2>2 DEF Numeric
<1>10. /\ Numeric(q) /\ \A f \in ProfileFields \ {"whole", "norm"} : q[f] = p[f]
       /\ q.whole = (IF w.dist = "separate" THEN 0 ELSE 1)
       /\ q.norm = (CASE w.dist = "separate" -> p.norm
                      [] w.dist = "max" -> NORM_OF_MAX
                      [] w.dist = "lp" -> w.lp
                      [] w.dist = "euclidean" -> EUCLIDEAN)
  <2>1. w.dist \in {"euclidean", "max", "lp", "separate"} /\ w.lp \in Int
    BY <1>2 DEF IsWidgets, Distances, LP_MIN, LP_MAX
  <2> QED BY <1>9, <2>1, DistanceFacts DEF q
<1>11. /\ q.x = x /\ q.y = y /\ q.raw = s.raw /\ q.rot = s.rot /\ q.smin = s.smin /\ q.smax = smax
       /\ q.odpi = s.odpi /\ q.weight = s.weight /\ q.dpi = s.dpi /\ q.id = id /\ q.app = app
       /\ q.name = c.name
  BY <1>8, <1>10 DEF ProfileFields
<1>12. IsProfile(q)
  BY <1>3, <1>5, <1>10, <1>11, NumericIs DEF Named
<1>13. /\ v = [f \in WindowFields |-> v[f]]
       /\ v.cfg = ProfilePut(w.cfg, w.cur, q) /\ v.shown = KeyPut(s, "smax", smax) /\ v.mem = mem
       /\ v.cur = w.cur /\ v.stamp = w.stamp /\ v.phase = w.phase /\ v.linked = w.linked
       /\ v.mice = w.mice /\ v.dist = w.dist /\ v.lp = w.lp /\ v.lut = w.lut /\ v.sel = w.sel
  BY <1>1, <1>2 DEF WindowFields, ProfilePut, KeyPut
<1>14. /\ IsConfig(v.cfg) /\ v.cfg.profiles = KeyPut(w.cfg.profiles, w.cur, q)
  <2> DEFINE b == w.cfg
             k == w.cur
  <2>1. IsConfig(b) /\ k \in DOMAIN b.profiles /\ v.cfg = ProfilePut(b, k, q)
    BY <1>2, <1>13
  <2> HIDE DEF b, k
  <2>2. IsConfig(ProfilePut(b, k, q)) /\ ProfilePut(b, k, q).profiles = KeyPut(b.profiles, k, q)
    BY ONLY <1>12, <2>1, ReplaceFacts
  <2>3. IsConfig(v.cfg) /\ v.cfg.profiles = KeyPut(b.profiles, k, q)
    BY ONLY <2>1, <2>2
  <2> QED BY <2>3 DEF b, k
<1>15. /\ DOMAIN v.cfg.profiles = DOMAIN w.cfg.profiles /\ v.cfg.profiles[w.cur] = q
  BY <1>2, <1>12, <1>14, ReplaceShape
<1>16. Cur(v) = q
  BY <1>13, <1>15 DEF Cur
<1>17. /\ Numeric(v.shown) /\ v.shown.smax = smax /\ \A f \in ProfileFields \ {"smax"} : v.shown[f] = s[f]
  <2>1. FieldOk("smax", smax)
    BY <1>5 DEF FieldOk, ProfileFields
  <2>2. /\ Numeric(KeyPut(s, "smax", smax)) /\ KeyPut(s, "smax", smax)["smax"] = smax
        /\ \A f \in ProfileFields : f # "smax" => KeyPut(s, "smax", smax)[f] = s[f]
    BY <1>2, <2>1, ProfileSet
  <2> QED BY <1>13, <2>2
<1>18. IsWidgets(v)
  <2>1. /\ mem \in Int /\ v.shown.app = s.app /\ v.shown.x = s.x /\ v.shown.y = s.y
    BY <1>2, <1>17 DEF mem, IsWidgets, ProfileFields, LP_MIN, LP_MAX
  <2> QED BY <1>2, <1>13, <1>17, <2>1 DEF IsWidgets
<1>19. IsWindow(v)
  BY <1>2, <1>13, <1>14, <1>15, <1>18 DEF IsWindow
<1>20. Honest(v)
  <2>1. v.linked => q.x = q.y
    BY <1>7, <1>11, <1>13
  <2>2. v.shown.x = s.x /\ v.shown.y = s.y
    BY <1>17 DEF ProfileFields
  <2>3. XShown(q, v.shown)
    <3>1. InSpins(x)
      BY <1>2, <1>6 DEF IsWidgets, InSpins, ArgsFields
    <3>2. AxisShown(x) = x
      BY <1>6, <3>1, AccShown
    <3> QED BY <1>6, <1>11, <2>2, <3>2 DEF XShown
  <2>4. ~v.linked => YShown(q, v.shown)
    <3> SUFFICES ASSUME ~w.linked PROVE YShown(q, v.shown)
      BY <1>13
    <3>1. s.y.acc \in Int /\ s.y.acc >= 0
      BY <1>2, <1>4 DEF IsArgs, ArgsNumbers, IsWidgets
    <3>2. AxisShown(y).acc = Most(y.acc, 0) /\ \A f \in {"mode", "off", "capy"} : AxisShown(y)[f] = y[f]
      BY <1>7, AccShown DEF ArgsFields
    <3>3. Most(y.acc, 0) = s.y.acc
      BY <1>7, <3>1 DEF Most
    <3> QED BY <1>7, <1>11, <2>2, <3>2, <3>3 DEF YShown
  <2>5. RestShown(q, v.shown)
    BY <1>11, <1>17 DEF RestShown, ProfileFields, app
  <2>6. DistanceShown(q, v)
    <3>1. w.lp \in LP_MIN..LP_MAX
      BY <1>2 DEF IsWidgets
    <3> QED BY <1>10, <1>13, <3>1 DEF DistanceShown, NORM_OF_MAX, MAX_NORM, LP_MIN, LP_MAX
  <2>7. BoundTo(v) = q.id
    BY <1>11, <1>13, <1>16 DEF BoundTo, id, c
  <2> QED BY <1>16, <2>1, <2>3, <2>4, <2>5, <2>6, <2>7 DEF Honest
<1>21. WrittenBack(w, q)
  <2>1. q = [f \in ProfileFields |-> q[f]] /\ q.disable = c.disable
    BY <1>8, <1>10 DEF Numeric, ProfileFields
  <2>2. \A f \in {"raw", "rot", "smin", "odpi", "weight", "dpi"} : q[f] = s[f]
    BY <1>11
  <2> QED BY <1>8, <1>10, <1>11, <2>1, <2>2 DEF WrittenBack, x, y, smax, id, app
<1> QED BY <1>11, <1>12, <1>13, <1>16, <1>19, <1>20, <1>21 DEF v, c


-----------------------------------------------------------------------------
(* The handlers: each leaves the window true to its profile *)

\* The window goes on with the same config, profile and widgets.
SameProfile(w, v) ==
  /\ v = [f \in WindowFields |-> v[f]]
  /\ \A f \in WindowFields \ {"unsaved", "phase", "stamp"} : v[f] = w[f]

LEMMA StillHonest ==
  ASSUME NEW w, IsWindow(w), NEW v, SameProfile(w, v)
  PROVE  IsWindow(v) /\ (Honest(v) <=> Honest(w)) /\ v.cfg = w.cfg /\ v.cur = w.cur
<1>1. /\ v.cfg = w.cfg /\ v.cur = w.cur /\ v.linked = w.linked /\ v.mem = w.mem /\ v.lp = w.lp /\ v.dist = w.dist
      /\ v.lut = w.lut /\ v.mice = w.mice /\ v.shown = w.shown /\ v.sel = w.sel
  BY DEF SameProfile, WindowFields
<1>2. IsWidgets(v)
  BY <1>1 DEF IsWindow, IsWidgets
<1>3. IsWindow(v)
  BY <1>1, <1>2 DEF IsWindow, SameProfile
<1>4. Cur(v) = Cur(w)
  BY <1>1 DEF Cur
<1>5. BoundTo(v) = BoundTo(w)
  BY <1>1, <1>4 DEF BoundTo
<1>6. Honest(v) <=> Honest(w)
  BY <1>1, <1>4, <1>5 DEF Honest, DistanceShown
<1> QED BY <1>1, <1>3, <1>6

\* What every handler keeps.
Edited(w, v) ==
  /\ IsWindow(v) /\ Honest(v) /\ (Sound(w.cfg) => Sound(v.cfg))
  /\ v.stamp = w.stamp /\ v.phase \in {w.phase, "check"}

LEMMA Marked ==
  ASSUME NEW w, NEW v, Edited(w, v)
  PROVE  Edited(w, Saves(v)) /\ Edited(w, Unsaved(v))
<1>1. v = [f \in WindowFields |-> v[f]] /\ IsWindow(v)
  BY DEF Edited, IsWindow
<1>2. /\ SameProfile(v, Saves(v)) /\ Saves(v).phase = "check"
      /\ Saves(v).stamp = v.stamp
  BY <1>1 DEF Saves, SameProfile, WindowFields
<1>3. /\ SameProfile(v, Unsaved(v)) /\ Unsaved(v).phase = v.phase
      /\ Unsaved(v).stamp = v.stamp
  BY <1>1 DEF Unsaved, SameProfile, WindowFields
<1>4. IsWindow(Saves(v)) /\ Honest(Saves(v)) /\ Saves(v).cfg = v.cfg
  BY <1>1, <1>2, StillHonest DEF Edited
<1>5. IsWindow(Unsaved(v)) /\ Honest(Unsaved(v)) /\ Unsaved(v).cfg = v.cfg
  BY <1>1, <1>3, StillHonest DEF Edited
<1> QED BY <1>2, <1>3, <1>4, <1>5 DEF Edited

\* One profile is replaced under its own name.
LEMMA ReplacedSound ==
  ASSUME NEW c, IsConfig(c), NEW k \in DOMAIN c.profiles, NEW dp, IsProfile(dp), dp.name = c.profiles[k].name
  PROVE  LET d == ProfilePut(c, k, dp)
         IN  /\ IsConfig(d) /\ NamesOf(d) = NamesOf(c) /\ (Sound(c) => Sound(d))
             /\ d.active = c.active /\ d.profiles = KeyPut(c.profiles, k, dp)
             /\ DOMAIN d.profiles = DOMAIN c.profiles /\ d.profiles[k] = dp
             /\ \A i \in DOMAIN c.profiles : d.profiles[i].name = c.profiles[i].name
<1> DEFINE d == ProfilePut(c, k, dp)
<1>1. /\ IsConfig(d) /\ d.active = c.active /\ d.profiles = KeyPut(c.profiles, k, dp)
      /\ dp.name \in NamesOf(d)
      /\ \A n \in NamesOf(c) : n = c.profiles[k].name \/ n \in NamesOf(d)
      /\ Distinct(c) /\ dp.name = c.profiles[k].name => Distinct(d)
  BY ReplaceFacts
<1> HIDE DEF d
<1>2. /\ DOMAIN d.profiles = DOMAIN c.profiles /\ d.profiles[k] = dp
      /\ \A i \in DOMAIN c.profiles : i # k => d.profiles[i] = c.profiles[i]
  BY <1>1, ReplaceShape
<1>3. \A i \in DOMAIN c.profiles : d.profiles[i].name = c.profiles[i].name
  BY <1>2
<1>4. NamesOf(d) = NamesOf(c)
  BY <1>2, <1>3 DEF NamesOf
<1>5. Sound(c) => Sound(d)
  BY <1>1, <1>4, SoundIs
<1> QED BY <1>1, <1>2, <1>3, <1>4, <1>5 DEF d

LEMMA Stored ==
  ASSUME NEW w, IsWindow(w)
  PROVE  LET v == widgets_to_profile(w)
         IN  /\ Edited(w, v) /\ NamesOf(v.cfg) = NamesOf(w.cfg) /\ v.phase = w.phase
             /\ v.cfg.active = w.cfg.active /\ DOMAIN v.cfg.profiles = DOMAIN w.cfg.profiles
             /\ \A i \in DOMAIN w.cfg.profiles : v.cfg.profiles[i].name = w.cfg.profiles[i].name
             /\ IsProfile(Cur(v)) /\ v.cur = w.cur
<1> DEFINE v == widgets_to_profile(w)
           c == w.cfg
           k == w.cur
           dp == Cur(v)
<1>1. /\ IsWindow(v) /\ Honest(v)
      /\ IsProfile(dp) /\ dp.name = Cur(w).name /\ v.cfg = ProfilePut(c, k, dp)
      /\ v.cur = w.cur /\ v.stamp = w.stamp /\ v.phase = w.phase
  BY WidgetsStored
<1>2. IsConfig(c) /\ k \in DOMAIN c.profiles /\ Cur(w) = c.profiles[k]
  BY DEF IsWindow, Cur
<1> HIDE DEF v, c, k, dp
<1>3. /\ NamesOf(v.cfg) = NamesOf(c) /\ (Sound(c) => Sound(v.cfg)) /\ v.cfg.active = c.active
      /\ DOMAIN v.cfg.profiles = DOMAIN c.profiles
      /\ \A i \in DOMAIN c.profiles : v.cfg.profiles[i].name = c.profiles[i].name
  <2>1. /\ NamesOf(ProfilePut(c, k, dp)) = NamesOf(c) /\ (Sound(c) => Sound(ProfilePut(c, k, dp)))
        /\ ProfilePut(c, k, dp).active = c.active
        /\ DOMAIN ProfilePut(c, k, dp).profiles = DOMAIN c.profiles
        /\ \A i \in DOMAIN c.profiles : ProfilePut(c, k, dp).profiles[i].name = c.profiles[i].name
    BY <1>1, <1>2, ReplacedSound
  <2> QED BY <1>1, <2>1
<1> QED BY <1>1, <1>3 DEF Edited, v, c, dp

\* The window moves to another config and another profile of it.
Moved(w, c, k) == [w EXCEPT !.cfg = c, !.cur = k]

LEMMA MovedFacts ==
  ASSUME NEW w, IsWindow(w), NEW c, IsConfig(c), NEW k \in DOMAIN c.profiles
  PROVE  LET u == Moved(w, c, k)
         IN  /\ IsWindow(u) /\ u.cfg = c /\ u.cur = k /\ u.stamp = w.stamp /\ u.phase = w.phase
<1> DEFINE u == Moved(w, c, k)
<1>1. w = [f \in WindowFields |-> w[f]]
  BY DEF IsWindow
<1>2. /\ OthersSame(w, u) /\ u.cfg = c /\ u.cur = k /\ u.stamp = w.stamp /\ u.phase = w.phase
  BY <1>1 DEF Moved, OthersSame, WindowFields
<1> HIDE DEF u
<1>3. IsWindow(u)
  BY <1>2, WindowKept
<1> QED BY <1>2, <1>3 DEF u

\* It shows the profile it moved to, and may save at once.
LEMMA MovedShown ==
  ASSUME NEW w, IsWindow(w), NEW c, IsConfig(c), NEW k \in DOMAIN c.profiles, Sound(w.cfg) => Sound(c)
  PROVE  LET u == Moved(w, c, k)
         IN  /\ Edited(w, profile_to_widgets(u)) /\ Edited(w, Saves(rebuild_profile_combo(u)))
             /\ Edited(w, Unsaved(profile_to_widgets(u)))
<1> DEFINE u == Moved(w, c, k)
           v == profile_to_widgets(u)
<1>1. /\ IsWindow(u) /\ u.cfg = c /\ u.cur = k /\ u.stamp = w.stamp /\ u.phase = w.phase
  BY MovedFacts
<1> HIDE DEF u
<1>2. /\ IsWindow(v) /\ v.cfg = u.cfg /\ v.stamp = u.stamp /\ v.phase = u.phase /\ Honest(v)
  BY <1>1, ProfileShown
<1>3. rebuild_profile_combo(u) = v
  BY <1>1, Rebuilt
<1> HIDE DEF v
<1>4. Edited(w, v)
  BY <1>1, <1>2 DEF Edited
<1> QED BY <1>3, <1>4, Marked DEF u, v

\* A widget was touched.
Typed(w, sel, dist, lp, shown) == [w EXCEPT !.sel = sel, !.dist = dist, !.lp = lp, !.shown = shown]

\* What the widgets of a profile can say.
Sayable(s) == Numeric(s) /\ s.app \in Str /\ InSpins(s.x) /\ s.y.acc >= 0

LEMMA TypedKeeps ==
  ASSUME NEW w, IsWindow(w), NEW sel, NEW dist \in Distances, NEW lp \in LP_MIN..LP_MAX,
         NEW shown, Sayable(shown)
  PROVE  Edited(w, update_lut_visibility(widgets_to_profile(Typed(w, sel, dist, lp, shown))))
<1> DEFINE t == Typed(w, sel, dist, lp, shown)
           u == widgets_to_profile(t)
<1>1. w = [f \in WindowFields |-> w[f]] /\ IsWidgets(w) /\ IsConfig(w.cfg) /\ w.cur \in DOMAIN w.cfg.profiles
  BY DEF IsWindow
<1>2. /\ t = [f \in WindowFields |-> t[f]] /\ t.sel = sel /\ t.dist = dist /\ t.lp = lp /\ t.shown = shown
      /\ \A f \in WindowFields \ {"sel", "dist", "lp", "shown"} : t[f] = w[f]
  BY <1>1 DEF WindowFields, Typed
<1> HIDE DEF t
<1>3. /\ t.cfg = w.cfg /\ t.cur = w.cur /\ t.stamp = w.stamp /\ t.phase = w.phase
      /\ t.linked = w.linked /\ t.mem = w.mem /\ t.lut = w.lut /\ t.mice = w.mice
  BY <1>2 DEF WindowFields
<1>4. IsWidgets(t)
  BY <1>1, <1>2, <1>3 DEF IsWidgets, Sayable
<1>5. IsWindow(t)
  BY <1>1, <1>2, <1>3, <1>4 DEF IsWindow
<1>6. Edited(t, u)
  BY <1>5, Stored
<1> HIDE DEF u
<1> DEFINE v == update_lut_visibility(u)
<1>7. /\ IsWindow(v) /\ v.cfg = u.cfg /\ v.stamp = u.stamp
      /\ v.phase = u.phase /\ (Honest(u) => Honest(v))
  BY <1>6, LutShown DEF Edited
<1> HIDE DEF v
<1>8. Edited(w, v)
  BY <1>3, <1>6, <1>7 DEF Edited
<1> QED BY <1>8 DEF v, u, t

LEMMA ParamKeeps ==
  ASSUME NEW w, IsWindow(w), NEW key, NEW v, IsInput(key, v)
  PROVE  Edited(w, on_param_changed(w, key, v))
<1> DEFINE t == CASE key = "dist" -> [w EXCEPT !.dist = v]
                  [] key = "lp" -> [w EXCEPT !.lp = v]
                  [] key = "id" -> [w EXCEPT !.sel = v]
                  [] key \in AxisKeys -> [w EXCEPT !.shown.x[key] = v]
                  [] OTHER -> [w EXCEPT !.shown[key] = v]
           s == w.shown
           after(typed) == update_lut_visibility(widgets_to_profile(typed))
<1>1. /\ w = [f \in WindowFields |-> w[f]] /\ Numeric(s) /\ s.app \in Str /\ IsArgs(s.x) /\ IsArgs(s.y)
      /\ w.dist \in Distances /\ w.lp \in LP_MIN..LP_MAX /\ Sayable(s)
  BY DEF IsWindow, IsWidgets, Numeric, Sayable
<1>2. on_param_changed(w, key, v) = after(t)
  BY DEF on_param_changed
<1>3. ASSUME NEW sel, NEW dist \in Distances, NEW lp \in LP_MIN..LP_MAX, NEW shown, Sayable(shown)
      PROVE  Edited(w, after(Typed(w, sel, dist, lp, shown)))
  BY <1>3, TypedKeeps
<1>4. /\ [w EXCEPT !.dist = v] = Typed(w, w.sel, v, w.lp, w.shown)
      /\ [w EXCEPT !.lp = v] = Typed(w, w.sel, w.dist, v, w.shown)
      /\ [w EXCEPT !.sel = v] = Typed(w, v, w.dist, w.lp, w.shown)
  BY <1>1 DEF WindowFields, Typed
<1>5. \A shown : [w EXCEPT !.shown = shown] = Typed(w, w.sel, w.dist, w.lp, shown)
  BY <1>1 DEF WindowFields, Typed
<1>6. "dist" \notin AxisKeys /\ "lp" \notin AxisKeys /\ "id" \notin AxisKeys
  BY DEF AxisKeys, ArgsNumbers
<1> HIDE DEF after
<1>7. CASE key = "dist"
  <2>1. t = [w EXCEPT !.dist = v]
    BY <1>6, <1>7
  <2>2. v \in Distances
    BY <1>7 DEF IsInput, Distances
  <2> HIDE DEF t
  <2>3. t = Typed(w, w.sel, v, w.lp, w.shown)
    BY <1>4, <2>1
  <2> QED BY <1>1, <1>2, <1>3, <2>2, <2>3
<1>8. CASE key = "lp"
  <2>1. t = [w EXCEPT !.lp = v]
    BY <1>6, <1>8
  <2>2. v \in LP_MIN..LP_MAX
    BY <1>8 DEF IsInput
  <2> HIDE DEF t
  <2>3. t = Typed(w, w.sel, w.dist, v, w.shown)
    BY <1>4, <2>1
  <2> QED BY <1>1, <1>2, <1>3, <2>2, <2>3
<1>9. CASE key = "id"
  <2>1. t = [w EXCEPT !.sel = v]
    BY <1>6, <1>9
  <2> HIDE DEF t
  <2>3. t = Typed(w, v, w.dist, w.lp, w.shown)
    BY <1>4, <2>1
  <2> QED BY <1>1, <1>2, <1>3, <2>3
<1>10. CASE key \in AxisKeys
  <2> DEFINE a == KeyPut(s.x, key, v)
             shown == AxesPut(s, a, s.y)
  <2>1. ArgOk(key, v)
    BY <1>10 DEF ArgOk, IsInput
  <2>2. IsArgs(a) /\ InSpins(a)
    <3>1. IsArgs(a) /\ a[key] = v /\ \A f \in ArgsFields : f # key => a[f] = s.x[f]
      BY <1>1, <1>10, <2>1, ArgSet
    <3>2. (key = "acc" => v >= 0) /\ (key = "gamma" => v >= GAMMA_SPIN_MIN)
      BY DEF IsInput
    <3>3. InSpins(s.x)
      BY <1>1 DEF Sayable
    <3> HIDE DEF a
    <3>4. a.acc >= 0
      BY <3>1, <3>2, <3>3 DEF InSpins, ArgsFields
    <3>5. a.gamma >= GAMMA_SPIN_MIN
      BY <3>1, <3>2, <3>3 DEF InSpins, ArgsFields
    <3> QED BY <3>1, <3>4, <3>5 DEF InSpins
  <2>3. t = [w EXCEPT !.shown.x[key] = v]
    BY <1>6, <1>10
  <2>4. t = [w EXCEPT !.shown = [s EXCEPT !.x = a]]
    BY <2>3 DEF KeyPut
  <2> HIDE DEF a, s, t
  <2>5. [s EXCEPT !.x = a] = shown
    BY <1>1 DEF AxesPut, ProfileFields, Numeric
  <2>6. /\ Numeric(AxesPut(s, a, s.y)) /\ AxesPut(s, a, s.y).x = a /\ AxesPut(s, a, s.y).y = s.y
        /\ \A f \in ProfileFields \ {"x", "y"} : AxesPut(s, a, s.y)[f] = s[f]
    <3> DEFINE b == s.y
    <3>1. IsArgs(b) /\ IsArgs(a) /\ Numeric(s)
      BY <1>1, <2>2
    <3> HIDE DEF b
    <3>2. /\ Numeric(AxesPut(s, a, b)) /\ AxesPut(s, a, b).x = a /\ AxesPut(s, a, b).y = b
          /\ \A f \in ProfileFields \ {"x", "y"} : AxesPut(s, a, b)[f] = s[f]
      BY ONLY <3>1, AxesSet
    <3> QED BY <3>2 DEF b
  <2>7. Sayable(shown)
    BY <1>1, <2>2, <2>6 DEF ProfileFields, Sayable
  <2> HIDE DEF shown
  <2>8. t = Typed(w, w.sel, w.dist, w.lp, shown)
    BY <1>5, <2>4, <2>5
  <2> QED BY <1>1, <1>2, <1>3, <2>7, <2>8
<1>11. CASE key \notin AxisKeys \cup {"dist", "lp", "id"}
  <2> DEFINE shown == KeyPut(s, key, v)
  <2>1. key \in ProfileNumbers \cup {"app", "raw"} /\ FieldOk(key, v) /\ (key = "app" => v \in Str)
    BY <1>11 DEF FieldOk, IsInput, ProfileFields, ProfileNumbers
  <2>2. Numeric(shown) /\ shown[key] = v /\ \A f \in ProfileFields : f # key => shown[f] = s[f]
    BY <1>1, <2>1, ProfileSet
  <2>3. Sayable(shown)
    <3>1. key \notin {"x", "y"} /\ {"x", "y", "app"} \subseteq ProfileFields
      BY <2>1 DEF ProfileNumbers, ProfileFields
    <3>2. shown.x = s.x /\ shown.y = s.y
      BY <2>2, <3>1
    <3>3. shown.app \in Str
      BY <1>1, <2>1, <2>2, <3>1
    <3> QED BY <1>1, <2>2, <3>2, <3>3 DEF Sayable
  <2>4. t = [w EXCEPT !.shown = shown]
    BY <1>11 DEF KeyPut
  <2> HIDE DEF shown, t
  <2>5. t = Typed(w, w.sel, w.dist, w.lp, shown)
    BY <1>5, <2>4
  <2> QED BY <1>1, <1>2, <1>3, <2>2, <2>3, <2>5
<1> QED BY <1>7, <1>8, <1>9, <1>10, <1>11

LEMMA YParamKeeps ==
  ASSUME NEW w, IsWindow(w), Honest(w), NEW key \in AxisKeys, NEW v, IsInput(key, v)
  PROVE  Edited(w, on_y_param_changed(w, key, v))
<1>1. CASE w.linked
  BY <1>1 DEF on_y_param_changed, Edited
<1>2. CASE ~w.linked
  <2> DEFINE s == w.shown
             a == KeyPut(s.y, key, v)
             shown == AxesPut(s, s.x, a)
             t == [w EXCEPT !.shown.y[key] = v]
  <2>1. /\ w = [f \in WindowFields |-> w[f]] /\ Numeric(s) /\ s.app \in Str /\ IsArgs(s.x) /\ IsArgs(s.y)
        /\ w.dist \in Distances /\ w.lp \in LP_MIN..LP_MAX /\ Sayable(s)
    BY DEF IsWindow, IsWidgets, Numeric, Sayable
  <2>2. ArgOk(key, v)
    BY DEF ArgOk, IsInput
  <2>3. IsArgs(a) /\ a.acc >= 0
    <3>1. IsArgs(a) /\ a[key] = v /\ \A f \in ArgsFields : f # key => a[f] = s.y[f]
      BY <2>1, <2>2, ArgSet
    <3>2. key = "acc" => v >= 0
      BY DEF IsInput
    <3>3. s.y.acc >= 0
      BY <2>1 DEF Sayable
    <3> HIDE DEF a
    <3> QED BY <3>1, <3>2, <3>3 DEF ArgsFields
  <2>4. t = [w EXCEPT !.shown = [s EXCEPT !.y = a]]
    BY DEF KeyPut
  <2>5. on_y_param_changed(w, key, v) = update_lut_visibility(widgets_to_profile(t))
    BY <1>2 DEF on_y_param_changed
  <2> HIDE DEF a, t, s
  <2>6. [s EXCEPT !.y = a] = shown
    BY <2>1 DEF AxesPut, ProfileFields, Numeric
  <2>7. /\ Numeric(AxesPut(s, s.x, a)) /\ AxesPut(s, s.x, a).x = s.x /\ AxesPut(s, s.x, a).y = a
        /\ \A f \in ProfileFields \ {"x", "y"} : AxesPut(s, s.x, a)[f] = s[f]
    <3> DEFINE b == s.x
    <3>1. IsArgs(b) /\ IsArgs(a) /\ Numeric(s)
      BY <2>1, <2>3
    <3> HIDE DEF b
    <3>2. /\ Numeric(AxesPut(s, b, a)) /\ AxesPut(s, b, a).x = b /\ AxesPut(s, b, a).y = a
          /\ \A f \in ProfileFields \ {"x", "y"} : AxesPut(s, b, a)[f] = s[f]
      BY ONLY <3>1, AxesSet
    <3> QED BY <3>2 DEF b
  <2>8. Sayable(shown)
    BY <2>1, <2>3, <2>7 DEF ProfileFields, Sayable
  <2> HIDE DEF shown
  <2>9. t = Typed(w, w.sel, w.dist, w.lp, shown)
    BY <2>1, <2>4, <2>6 DEF WindowFields, Typed
  <2> QED BY <2>1, <2>5, <2>8, <2>9, TypedKeeps
<1> QED BY <1>1, <1>2

\* To another profile, which becomes the active one.
LEMMA ChooseIs ==
  ASSUME NEW w, IsWindow(w), NEW c, NEW i
  PROVE  LET u == [w EXCEPT !.cfg = c]
         IN  Choose(u, i) = Moved(w, ActivePut(c, c.profiles[i].name), i)
<1> DEFINE u == [w EXCEPT !.cfg = c]
           n == c.profiles[i].name
<1>1. w = [f \in WindowFields |-> w[f]]
  BY DEF IsWindow
<1>2. u.cfg = c
  BY <1>1 DEF WindowFields
<1>3. Choose(u, i) = [u EXCEPT !.cur = i, !.cfg = ActivePut(c, n)]
  BY <1>2 DEF Choose, ActivePut
<1>4. [u EXCEPT !.cur = i, !.cfg = ActivePut(c, n)] = [w EXCEPT !.cfg = ActivePut(c, n), !.cur = i]
  <2> DEFINE b == ActivePut(c, n)
  <2> HIDE DEF b
  <2>1. [u EXCEPT !.cur = i, !.cfg = b] = [w EXCEPT !.cfg = b, !.cur = i]
    BY <1>1 DEF WindowFields
  <2> QED BY <2>1 DEF b
<1> QED BY <1>3, <1>4 DEF Moved

\* The profile that is chosen is one of the config's.
LEMMA ChosenSound ==
  ASSUME NEW w, IsWindow(w), NEW c, IsConfig(c), NEW i \in DOMAIN c.profiles, Sound(w.cfg) => Distinct(c)
  PROVE  LET u == Moved(w, ActivePut(c, c.profiles[i].name), i)
         IN  /\ Edited(w, profile_to_widgets(u)) /\ Edited(w, Saves(rebuild_profile_combo(u)))
             /\ Edited(w, Unsaved(profile_to_widgets(u)))
<1> DEFINE n == c.profiles[i].name
           d == ActivePut(c, n)
<1>1. n \in NamesOf(c) \cup {""}
  BY NamesFacts
<1> HIDE DEF n
<1>2. IsConfig(ActivePut(c, n)) /\ ActivePut(c, n).profiles = c.profiles /\ (Distinct(c) => Sound(ActivePut(c, n)))
  BY <1>1, ActiveSet
<1>3. IsConfig(d) /\ i \in DOMAIN d.profiles /\ (Sound(w.cfg) => Sound(d))
  BY <1>2
<1> HIDE DEF d
<1>4. /\ Edited(w, profile_to_widgets(Moved(w, d, i))) /\ Edited(w, Saves(rebuild_profile_combo(Moved(w, d, i))))
      /\ Edited(w, Unsaved(profile_to_widgets(Moved(w, d, i))))
  BY <1>3, MovedShown
<1> QED BY <1>4 DEF d, n

LEMMA SwitchKeeps ==
  ASSUME NEW w, IsWindow(w), NEW i \in DOMAIN w.cfg.profiles
  PROVE  Edited(w, on_profile_changed(w, i))
<1> DEFINE c == w.cfg
           u == Moved(w, ActivePut(c, c.profiles[i].name), i)
<1>1. on_profile_changed(w, i) = profile_to_widgets(Choose(w, i))
  BY DEF on_profile_changed
<1>2. w = [f \in WindowFields |-> w[f]] /\ IsConfig(c)
  BY DEF IsWindow
<1>3. [w EXCEPT !.cfg = c] = w
  BY <1>2 DEF WindowFields
<1>4. Choose(w, i) = u
  <2> HIDE DEF c
  <2>1. Choose([w EXCEPT !.cfg = c], i) = u
    BY ChooseIs
  <2> QED BY <1>3, <2>1
<1>5. Sound(w.cfg) => Distinct(c)
  BY SoundIs
<1>6. Edited(w, profile_to_widgets(u))
  <2>0. i \in DOMAIN c.profiles
    OBVIOUS
  <2> HIDE DEF c
  <2> QED BY <1>2, <1>5, <2>0, ChosenSound
<1> HIDE DEF u
<1> QED BY <1>1, <1>4, <1>6

LEMMA ApplyKeeps ==
  ASSUME NEW w, IsWindow(w)
  PROVE  Edited(w, on_apply_clicked(w))
<1>1. Edited(w, widgets_to_profile(w))
  BY Stored
<1> QED BY <1>1, Marked DEF on_apply_clicked

LEMMA LinkedKeeps ==
  ASSUME NEW w, IsWindow(w), Honest(w), NEW on \in BOOLEAN, NEW ok
  PROVE  Edited(w, on_xy_link_toggled(w, on, ok))
<1> DEFINE u == [w EXCEPT !.linked = on]
<1>1. w = [f \in WindowFields |-> w[f]] /\ IsWidgets(w) /\ IsConfig(w.cfg) /\ w.cur \in DOMAIN w.cfg.profiles
  BY DEF IsWindow
<1>2. /\ u = [f \in WindowFields |-> u[f]] /\ u.linked = on /\ \A f \in WindowFields \ {"linked"} : u[f] = w[f]
  BY <1>1 DEF WindowFields
<1> HIDE DEF u
<1>3. /\ u.cfg = w.cfg /\ u.cur = w.cur /\ u.stamp = w.stamp /\ u.phase = w.phase
      /\ u.mem = w.mem /\ u.lut = w.lut /\ u.mice = w.mice /\ u.lp = w.lp /\ u.dist = w.dist /\ u.shown = w.shown
  BY <1>2 DEF WindowFields
<1>4. IsWidgets(u)
  BY <1>1, <1>2, <1>3 DEF IsWidgets
<1>5. IsWindow(u)
  BY <1>1, <1>2, <1>3, <1>4 DEF IsWindow
<1>6. Edited(u, widgets_to_profile(u))
  BY <1>5, Stored
<1>7. Edited(w, widgets_to_profile(u))
  BY <1>3, <1>6 DEF Edited
<1>8. on_xy_link_toggled(w, on, ok) \in {w, widgets_to_profile(u)}
  BY DEF on_xy_link_toggled, u
<1>9. Edited(w, w)
  BY DEF Edited
<1> QED BY <1>7, <1>8, <1>9

LEMMA RawKeeps ==
  ASSUME NEW w, IsWindow(w), Honest(w), NEW on \in {0, 1}
  PROVE  Edited(w, on_raw_input_toggled(w, on))
<1> DEFINE c == [w.cfg EXCEPT !.raw = on]
           u == [w EXCEPT !.cfg = c, !.unsaved = TRUE]
<1>1. w = [f \in WindowFields |-> w[f]] /\ IsConfig(w.cfg) /\ w.cur \in DOMAIN w.cfg.profiles
  BY DEF IsWindow
<1>2. /\ c = [f \in ConfigFields |-> c[f]] /\ c.profiles = w.cfg.profiles /\ c.active = w.cfg.active
      /\ c.version = w.cfg.version /\ c.raw = on
  BY <1>1 DEF IsConfig, ConfigFields
<1>3. on_raw_input_toggled(w, on) = Saves(u)
  BY DEF on_raw_input_toggled
<1> HIDE DEF c
<1>4. IsConfig(c)
  BY <1>1, <1>2 DEF IsConfig
<1>5. NamesOf(c) = NamesOf(w.cfg) /\ (Sound(w.cfg) => Sound(c))
  BY <1>2 DEF NamesOf, Sound
<1>6. /\ OthersSame(w, u) /\ u.cfg = c /\ u.cur = w.cur /\ u.phase = w.phase
      /\ u.stamp = w.stamp
  BY <1>1 DEF OthersSame, WindowFields
<1> HIDE DEF u
<1>7. IsWindow(u)
  BY <1>1, <1>2, <1>4, <1>6, WindowKept
<1>8. Honest(u)
  <2>1. /\ u.linked = w.linked /\ u.lp = w.lp /\ u.dist = w.dist /\ u.mice = w.mice /\ u.shown = w.shown /\ u.sel = w.sel
    BY <1>6 DEF OthersSame, WindowFields
  <2>2. Cur(u) = Cur(w)
    BY <1>2, <1>6 DEF Cur
  <2>3. BoundTo(u) = BoundTo(w)
    BY <2>1, <2>2 DEF BoundTo
  <2> QED BY <2>1, <2>2, <2>3 DEF Honest, DistanceShown
<1>9. Edited(w, u)
  BY <1>5, <1>6, <1>7, <1>8 DEF Edited
<1> QED BY <1>3, <1>9, Marked

LEMMA MiceKeep ==
  ASSUME NEW w, IsWindow(w), Honest(w), NEW mice, mice \subseteq Short \ {Unplugged}
  PROVE  Edited(w, refresh_mice_combo(w, mice))
<1> DEFINE id == Cur(w).id
           sel == IF id \in mice \cup {""} THEN id ELSE Unplugged
           u == refresh_mice_combo(w, mice)
<1>1. w = [f \in WindowFields |-> w[f]] /\ IsWidgets(w) /\ IsConfig(w.cfg) /\ w.cur \in DOMAIN w.cfg.profiles
  BY DEF IsWindow
<1>2. [w EXCEPT !.mice = mice].mice = mice
  BY <1>1 DEF WindowFields
<1>3. u = [[w EXCEPT !.mice = mice] EXCEPT !.sel = sel]
  BY <1>2 DEF refresh_mice_combo, device_combo_select
<1> HIDE DEF u, sel, id
<1>4. /\ u = [f \in WindowFields |-> u[f]] /\ u.mice = mice /\ u.sel = sel
      /\ \A f \in WindowFields \ {"mice", "sel"} : u[f] = w[f]
  BY <1>1, <1>3 DEF WindowFields
<1>5. /\ u.cfg = w.cfg /\ u.cur = w.cur /\ u.stamp = w.stamp /\ u.phase = w.phase
      /\ u.linked = w.linked /\ u.mem = w.mem /\ u.lut = w.lut /\ u.lp = w.lp /\ u.dist = w.dist /\ u.shown = w.shown
  BY <1>4 DEF WindowFields
<1>6. IsWidgets(u)
  BY <1>1, <1>4, <1>5 DEF IsWidgets
<1>7. IsWindow(u)
  BY <1>1, <1>4, <1>5, <1>6 DEF IsWindow
<1>8. Cur(u) = Cur(w)
  BY <1>5 DEF Cur
<1>9. BoundTo(u) = id
  BY <1>4, <1>8 DEF BoundTo, sel, id
<1>10. Honest(u)
  BY <1>5, <1>8, <1>9 DEF Honest, DistanceShown, id
<1> QED BY <1>5, <1>7, <1>10 DEF Edited, u

\* A profile is added under a free name, and chosen.
LEMMA AddedChosen ==
  ASSUME NEW w, IsWindow(w), NEW v, IsWindow(v), NEW dp, IsProfile(dp), dp.name \notin NamesOf(w.cfg) \cup {""},
         NamesOf(v.cfg) = NamesOf(w.cfg), Edited(w, v)
  PROVE  LET added == [v EXCEPT !.cfg = Add(v.cfg, dp)]
         IN  /\ Choose(added, Len(added.cfg.profiles))
                  = Moved(v, ActivePut(Add(v.cfg, dp), dp.name), Len(v.cfg.profiles) + 1)
             /\ Edited(w, Saves(rebuild_profile_combo(Choose(added, Len(added.cfg.profiles)))))
<1> DEFINE c == Add(v.cfg, dp)
           added == [v EXCEPT !.cfg = c]
           i == Len(v.cfg.profiles) + 1
           u == Moved(v, ActivePut(c, c.profiles[i].name), i)
<1>1. /\ IsConfig(v.cfg) /\ v = [f \in WindowFields |-> v[f]] /\ Len(v.cfg.profiles) \in Nat
  BY CurFacts DEF IsWindow
<1>2. /\ IsConfig(c) /\ Len(c.profiles) = i /\ c.profiles[i] = dp /\ i \in DOMAIN c.profiles
      /\ Distinct(v.cfg) /\ dp.name \notin NamesOf(v.cfg) \cup {""} => Distinct(c)
  BY <1>1, AddFacts
<1> HIDE DEF c
<1>3. added.cfg = c
  BY <1>1 DEF WindowFields
<1>5. i \in DOMAIN c.profiles
  BY <1>2
<1>6. Choose(added, i) = u
  BY ChooseIs
<1> HIDE DEF added, i
<1>7. Sound(v.cfg) => Distinct(c)
  BY <1>2, SoundIs
<1>8. Edited(v, Saves(rebuild_profile_combo(u)))
  BY <1>2, <1>5, <1>7, ChosenSound
<1> HIDE DEF u
<1> DEFINE r == Saves(rebuild_profile_combo(u))
<1> HIDE DEF r
<1>9. Edited(w, r)
  BY <1>8 DEF Edited, r
<1> QED BY <1>2, <1>3, <1>6, <1>9 DEF c, added, u, i, r

LEMMA NewKeeps ==
  ASSUME NEW w, IsWindow(w), Honest(w), NEW name \in Short, NEW preset \in {"", "fast"},
         name # "" => IsPreset("fast", name) /\ make_preset("fast", name).name = name
  PROVE  Edited(w, on_new_profile(w, name, preset))
<1> DEFINE dp == IF preset = "" THEN Fresh(name) ELSE make_preset(preset, name)
           added == [w EXCEPT !.cfg = Add(w.cfg, dp)]
           c == Add(w.cfg, dp)
           i == Len(w.cfg.profiles) + 1
           kept == name \in NamesOf(w.cfg) \cup {""} \/ ~HasRoom(w.cfg)
<1>1. Edited(w, w)
  BY DEF Edited
<1>2. CASE kept
  <2>1. on_new_profile(w, name, preset) = w
    BY <1>2 DEF on_new_profile
  <2> QED BY <1>1, <2>1
<1>3. CASE ~kept
  <2>1. IsProfile(dp) /\ dp.name = name
    <3>1. IsProfile(Fresh(name)) /\ Fresh(name).name = name
      BY FreshFacts
    <3>2. preset = "fast" => IsProfile(make_preset(preset, name)) /\ make_preset(preset, name).name = name
      BY <1>3 DEF IsPreset
    <3> QED BY <3>1, <3>2
  <2>2. on_new_profile(w, name, preset)
          = Saves(rebuild_profile_combo([Choose(added, Len(added.cfg.profiles)) EXCEPT !.cfg.active = name]))
    BY <1>3 DEF on_new_profile
  <2> HIDE DEF dp, c
  <2>3. /\ Choose(added, Len(added.cfg.profiles)) = Moved(w, ActivePut(c, name), i)
        /\ Edited(w, Saves(rebuild_profile_combo(Choose(added, Len(added.cfg.profiles)))))
    <3>1. dp.name \notin NamesOf(w.cfg) \cup {""}
      BY <1>3, <2>1
    <3> QED BY <1>1, <2>1, <3>1, AddedChosen DEF c
  <2> HIDE DEF i, added
  <2>4. [Moved(w, ActivePut(c, name), i) EXCEPT !.cfg.active = name] = Moved(w, ActivePut(c, name), i)
    <3>1. c = [f \in ConfigFields |-> c[f]]
      <4>1. IsConfig(w.cfg)
        BY DEF IsWindow
      <4>2. IsConfig(c)
        BY <2>1, <4>1, AddFacts DEF c
      <4> QED BY <4>2 DEF IsConfig
    <3> DEFINE d == ActivePut(c, name)
               u == Moved(w, d, i)
    <3>2. [d EXCEPT !.active = name] = d
      BY <3>1 DEF ActivePut, ConfigFields
    <3> HIDE DEF d
    <3>3. u = [f \in WindowFields |-> u[f]] /\ u.cfg = d
      BY DEF IsWindow, Moved, WindowFields
    <3> HIDE DEF u
    <3>4. [u EXCEPT !.cfg.active = name] = [u EXCEPT !.cfg = [d EXCEPT !.active = name]]
      BY <3>3
    <3>5. [u EXCEPT !.cfg = d] = u
      BY <3>3 DEF WindowFields
    <3> QED BY <3>2, <3>4, <3>5 DEF u, d
  <2> QED BY <2>2, <2>3, <2>4
<1> QED BY <1>2, <1>3

LEMMA GuiRenameKeeps ==
  ASSUME NEW w, IsWindow(w), Honest(w), NEW name \in Short
  PROVE  Edited(w, on_rename_profile(w, name))
<1> DEFINE old == Cur(w).name
           k == w.cur
           b == w.cfg
           c == RenamePut(b, k, name)
           kept == name = "" \/ (name # old /\ name \in NamesOf(w.cfg))
<1>1. Edited(w, w)
  BY DEF Edited
<1>2. CASE kept
  <2>1. on_rename_profile(w, name) = w
    BY <1>2 DEF on_rename_profile
  <2> QED BY <1>1, <2>1
<1>3. CASE ~kept
  <2>1. /\ w = [f \in WindowFields |-> w[f]] /\ IsConfig(b) /\ k \in DOMAIN b.profiles
        /\ old = b.profiles[k].name /\ b = [f \in ConfigFields |-> b[f]]
    BY DEF IsWindow, Cur, IsConfig
  <2>2. on_rename_profile(w, name)
          = Saves(rebuild_profile_combo([w EXCEPT !.cfg.profiles[k].name = name,
                                                  !.cfg.active = IF @ = old THEN name ELSE @]))
    BY <1>3 DEF on_rename_profile
  <2>3. [w EXCEPT !.cfg.profiles[k].name = name, !.cfg.active = IF @ = old THEN name ELSE @] = Moved(w, c, k)
    <3> DEFINE e == [w EXCEPT !.cfg = c]
    <3>1. [w EXCEPT !.cfg.profiles[k].name = name, !.cfg.active = IF @ = old THEN name ELSE @] = e
      BY <2>1 DEF WindowFields, RenamePut
    <3> HIDE DEF c
    <3>2. e = Moved(w, c, k)
      BY <2>1 DEF WindowFields, Moved
    <3> QED BY <3>1, <3>2
  <2>4. name = b.profiles[k].name \/ name \notin NamesOf(b) \cup {""}
    BY <1>3, <2>1
  <2> HIDE DEF b, k
  <2>5. IsConfig(c) /\ (Sound(b) => Sound(c)) /\ c.profiles = KeyPut(b.profiles, k, KeyPut(b.profiles[k], "name", name))
    BY <2>1, <2>4, RenameFacts, ZenonT(60)
  <2>6. k \in DOMAIN c.profiles
    BY <2>1, <2>5 DEF KeyPut
  <2> HIDE DEF c
  <2>7. Edited(w, Saves(rebuild_profile_combo(Moved(w, c, k))))
    BY <2>5, <2>6, MovedShown DEF b
  <2> QED BY <2>2, <2>3, <2>7 DEF c, b, k
<1> QED BY <1>2, <1>3

LEMMA GuiDeleteKeeps ==
  ASSUME NEW w, IsWindow(w), Honest(w)
  PROVE  Edited(w, on_delete_profile(w))
<1> DEFINE n == Len(w.cfg.profiles)
           ps == RemoveAt(w.cfg.profiles, w.cur)
           c == ProfilesPut(w.cfg, ps)
           i == Most(1, w.cur - 1)
           rest == [w EXCEPT !.cfg.profiles = ps]
<1>1. /\ w = [f \in WindowFields |-> w[f]] /\ IsConfig(w.cfg) /\ w.cur \in 1..n /\ n \in Nat \ {0}
      /\ w.cur \in DOMAIN w.cfg.profiles /\ IsSeq(w.cfg.profiles) /\ DOMAIN w.cfg.profiles = 1..n
      /\ \A j \in DOMAIN w.cfg.profiles : IsProfile(w.cfg.profiles[j])
  BY CurFacts DEF IsWindow, IsConfig
<1>2. CASE n <= 1
  <2>1. on_delete_profile(w) = w
    BY <1>2 DEF on_delete_profile
  <2> QED BY <2>1 DEF Edited
<1>3. CASE ~(n <= 1)
  <2>1. on_delete_profile(w) = Saves(rebuild_profile_combo(Choose(rest, i)))
    BY <1>3 DEF on_delete_profile
  <2>2. rest = [w EXCEPT !.cfg = c]
    BY DEF ProfilesPut
  <2>3. /\ IsSeq(ps) /\ Len(ps) = n - 1 /\ DOMAIN ps = 1..(n - 1)
        /\ \A j \in 1..(n - 1) : ps[j] = IF j < w.cur THEN w.cfg.profiles[j] ELSE w.cfg.profiles[j + 1]
    BY <1>1, RemoveAtFacts
  <2> HIDE DEF ps, rest
  <2>4. \A j \in 1..(n - 1) : j \in 1..n /\ j + 1 \in 1..n
    BY <1>1
  <2>5. \A j \in DOMAIN ps : IsProfile(ps[j])
    BY <1>1, <2>3, <2>4
  <2>6. IsConfig(c) /\ c.profiles = ps
    BY <1>1, <2>3, <2>5, ProfilesSet
  <2> HIDE DEF c
  <2>7. i \in DOMAIN c.profiles
    BY <1>1, <1>3, <2>3, <2>6 DEF Most
  <2>8. Distinct(w.cfg) => Distinct(c)
    <3>1. ASSUME "" \notin NamesOf(w.cfg) PROVE "" \notin NamesOf(c)
      <4>1. \A j \in 1..(n - 1) : c.profiles[j].name \in NamesOf(w.cfg)
        BY <1>1, <2>3, <2>4, <2>6 DEF NamesOf
      <4> QED BY <2>3, <2>6, <3>1, <4>1 DEF NamesOf
    <3>2. ASSUME Distinct(w.cfg), NEW j \in 1..(n - 1), NEW m \in 1..(n - 1), ps[j].name = ps[m].name PROVE j = m
      <4> DEFINE o(x) == IF x < w.cur THEN x ELSE x + 1
      <4>1. o(j) \in DOMAIN w.cfg.profiles /\ o(m) \in DOMAIN w.cfg.profiles
        BY <1>1, <2>4
      <4>2. ps[j] = w.cfg.profiles[o(j)] /\ ps[m] = w.cfg.profiles[o(m)]
        BY <2>3
      <4>3. o(j) = o(m)
        <5> HIDE DEF o
        <5> QED BY <3>2, <4>1, <4>2 DEF Distinct
      <4> QED BY <1>1, <4>3
    <3> QED BY <2>3, <2>6, <3>1, <3>2 DEF Distinct
  <2>9. Sound(w.cfg) => Distinct(c)
    BY <2>8, SoundIs
  <2> HIDE DEF i
  <2>10. Choose(rest, i) = Moved(w, ActivePut(c, c.profiles[i].name), i)
    BY <2>2, ChooseIs
  <2>11. Edited(w, Saves(rebuild_profile_combo(Moved(w, ActivePut(c, c.profiles[i].name), i))))
    BY <2>6, <2>7, <2>9, ChosenSound
  <2> QED BY <2>1, <2>10, <2>11
<1> QED BY <1>1, <1>2, <1>3

\* One handler's work in two parts.
LEMMA EditedTwice ==
  ASSUME NEW w, NEW u, Edited(w, u), u.phase = w.phase, NEW v, Edited(u, v)
  PROVE  Edited(w, v)
BY DEF Edited

LEMMA DuplicateProfileKeeps ==
  ASSUME NEW w, IsWindow(w), Honest(w)
  PROVE  Edited(w, on_duplicate_profile(w))
<1> DEFINE now == widgets_to_profile(w)
           names == CopyNames(Cur(w).name)
           free == {i \in DOMAIN names : names[i] \notin NamesOf(w.cfg)}
           n == names[Min(free)]
           dp == [Cur(now) EXCEPT !.name = n, !.id = ""]
           added == [now EXCEPT !.cfg = Add(now.cfg, dp)]
           kept == free = {} \/ ~HasRoom(w.cfg)
<1>1. /\ Edited(w, now) /\ NamesOf(now.cfg) = NamesOf(w.cfg) /\ now.phase = w.phase
      /\ IsProfile(Cur(now)) /\ IsWindow(now)
  BY Stored DEF Edited
<1>2. on_duplicate_profile(w) = IF kept THEN now ELSE Saves(rebuild_profile_combo(Choose(added, Len(added.cfg.profiles))))
  BY DEF on_duplicate_profile
<1>3. CASE kept
  BY <1>1, <1>2, <1>3
<1>4. CASE ~kept
  <2>1. Cur(w).name \in Short
    BY CurFacts DEF Named
  <2>2. names \in Seq(Short \ {""})
    BY <2>1, EditAssumption
  <2>3. DOMAIN names = 1..Len(names) /\ Len(names) \in Nat /\ \A i \in DOMAIN names : names[i] \in Short \ {""}
    <3> DEFINE T == Short \ {""}
    <3>1. names \in Seq(T)
      BY <2>2
    <3> HIDE DEF T, names
    <3>2. Len(names) \in Nat /\ DOMAIN names = 1..Len(names)
      BY <3>1, LenProperties
    <3>3. \A i \in 1..Len(names) : names[i] \in T
      BY <3>1, ElementOfSeq
    <3> QED BY <3>2, <3>3 DEF T
  <2>4. free \subseteq Nat /\ free # {}
    <3>1. free # {}
      BY <1>4
    <3>2. free \subseteq DOMAIN names
      OBVIOUS
    <3> DEFINE m == Len(names)
    <3>3. m \in Nat /\ DOMAIN names = 1..m
      BY <2>3
    <3> HIDE DEF free, names, m
    <3>4. 1..m \subseteq Nat
      BY <3>3
    <3> QED BY ONLY <3>1, <3>2, <3>3, <3>4
  <2>5. Min(free) \in free
    <3> HIDE DEF free
    <3>1. \E i \in free : \A j \in free : i <= j
      BY <2>4, LeastNat
    <3> QED BY <3>1 DEF Min
  <2>6. n \in Short \ {""} /\ n \notin NamesOf(w.cfg)
    BY <2>3, <2>5
  <2> DEFINE p == Cur(now)
             q == KeyPut(p, "name", n)
  <2> HIDE DEF now, names, free, n, p
  <2>7. IsProfile(q) /\ q.name = n
    BY <1>1, <2>6, NamedFacts DEF p
  <2>8. dp = KeyPut(q, "id", "")
    BY <1>1, FieldsAre DEF IsProfile, ProfileFields, KeyPut, p
  <2> HIDE DEF q, dp
  <2>9. IsProfile(dp) /\ dp.name = n
    <3>1. IsProfile(KeyPut(q, "id", "")) /\ KeyPut(q, "id", "").name = q.name
      BY <2>7, StringFacts, BoundFor
    <3> QED BY <2>7, <2>8, <3>1
  <2>10. Edited(w, Saves(rebuild_profile_combo(Choose(added, Len(added.cfg.profiles)))))
    BY <1>1, <2>6, <2>9, AddedChosen
  <2> QED BY <1>2, <1>4, <2>10
<1> QED BY <1>3, <1>4

\* The profile that is shown is replaced, under its name.
LEMMA InPlace ==
  ASSUME NEW w, IsWindow(w), NEW dp, IsProfile(dp), dp.name = Cur(w).name
  PROVE  LET c == ProfilePut(w.cfg, w.cur, dp)
         IN  /\ IsConfig(c) /\ w.cur \in DOMAIN c.profiles /\ (Sound(w.cfg) => Sound(c)) /\ c.profiles[w.cur] = dp
             /\ [w EXCEPT !.cfg.profiles[w.cur] = dp] = Moved(w, c, w.cur)
<1> DEFINE b == w.cfg
           k == w.cur
           c == ProfilePut(b, k, dp)
<1>1. w = [f \in WindowFields |-> w[f]] /\ IsConfig(b) /\ k \in DOMAIN b.profiles /\ dp.name = b.profiles[k].name
  BY DEF IsWindow, Cur
<1>2. [w EXCEPT !.cfg.profiles[w.cur] = dp] = Moved(w, c, k)
  <2>1. [w EXCEPT !.cfg.profiles[w.cur] = dp] = [w EXCEPT !.cfg = c]
    BY DEF ProfilePut
  <2> HIDE DEF c
  <2>2. [w EXCEPT !.cfg = c] = Moved(w, c, k)
    BY <1>1 DEF Moved, WindowFields
  <2> QED BY <2>1, <2>2
<1>3. /\ IsConfig(c) /\ (Sound(b) => Sound(c)) /\ DOMAIN c.profiles = DOMAIN b.profiles /\ c.profiles[k] = dp
  <2> HIDE DEF b, k
  <2> QED BY <1>1, ReplacedSound
<1> QED BY <1>1, <1>2, <1>3

LEMMA ResetKeeps ==
  ASSUME NEW w, IsWindow(w)
  PROVE  Edited(w, on_reset_profile(w))
<1> DEFINE n == Cur(w).name
           id == Cur(w).id
           d == device_profile
           dp == [d EXCEPT !.name = n, !.id = id]
           q == KeyPut(d, "name", n)
           c == ProfilePut(w.cfg, w.cur, dp)
<1>1. n \in Short /\ id \in Short /\ IsProfile(d) /\ d = [f \in ProfileFields |-> d[f]]
  BY CurFacts, ConstantsTyped, FieldsAre DEF Named, IsProfile
<1>2. on_reset_profile(w) = Unsaved(profile_to_widgets([w EXCEPT !.cfg.profiles[w.cur] = dp]))
  BY DEF on_reset_profile
<1> HIDE DEF d, n, id
<1>3. dp = KeyPut(q, "id", id)
  BY <1>1 DEF ProfileFields, KeyPut
<1>4. IsProfile(q) /\ q.name = n
  BY <1>1, NamedFacts
<1> HIDE DEF q, dp
<1>5. IsProfile(dp) /\ dp.name = n
  BY <1>1, <1>3, <1>4, BoundFor
<1>6. /\ IsConfig(c) /\ w.cur \in DOMAIN c.profiles /\ (Sound(w.cfg) => Sound(c))
      /\ [w EXCEPT !.cfg.profiles[w.cur] = dp] = Moved(w, c, w.cur)
  BY <1>5, InPlace DEF n
<1> DEFINE k == w.cur
<1> HIDE DEF c, k
<1>7. Edited(w, Unsaved(profile_to_widgets(Moved(w, c, k))))
  BY <1>6, MovedShown DEF k
<1> QED BY <1>2, <1>6, <1>7 DEF k

LEMMA SaveAsKeeps ==
  ASSUME NEW w, IsWindow(w), Honest(w), NEW name \in Short, NEW ok
  PROVE  Edited(w, save_profile_as_dialog(w, name, ok))
<1> DEFINE now == widgets_to_profile(w)
           p == Cur(now)
           dp == [p EXCEPT !.name = name]
           known == name \in NamesOf(w.cfg)
           at == IF known THEN IndexOf(w.cfg, name) ELSE Len(w.cfg.profiles) + 1
           stored == IF known THEN [now EXCEPT !.cfg.profiles[at] = dp] ELSE [now EXCEPT !.cfg = Add(now.cfg, dp)]
           r == Saves(rebuild_profile_combo(Choose(stored, at)))
<1>1. /\ Edited(w, now) /\ NamesOf(now.cfg) = NamesOf(w.cfg) /\ now.phase = w.phase
      /\ DOMAIN now.cfg.profiles = DOMAIN w.cfg.profiles
      /\ \A i \in DOMAIN w.cfg.profiles : now.cfg.profiles[i].name = w.cfg.profiles[i].name
      /\ IsProfile(p) /\ IsWindow(now)
  BY Stored DEF Edited
<1>2. IsConfig(now.cfg) /\ IsConfig(w.cfg) /\ now = [f \in WindowFields |-> now[f]]
  BY <1>1 DEF IsWindow
<1>3. save_profile_as_dialog(w, name, ok) \in {w, now, r} /\ (name = "" => save_profile_as_dialog(w, name, ok) = w)
  BY DEF save_profile_as_dialog
<1>4. Edited(w, w)
  BY DEF Edited
<1> HIDE DEF now, p
<1>5. IsProfile(dp) /\ dp.name = name
  <2>1. dp = KeyPut(p, "name", name)
    BY DEF KeyPut
  <2> HIDE DEF dp
  <2>2. IsProfile(KeyPut(p, "name", name)) /\ KeyPut(p, "name", name).name = name
    BY <1>1, NamedFacts
  <2> QED BY <2>1, <2>2
<1> HIDE DEF dp
<1>6. CASE known
  <2> DEFINE c == ProfilePut(now.cfg, at, dp)
  <2>1. at \in DOMAIN now.cfg.profiles /\ now.cfg.profiles[at].name = dp.name
    BY <1>1, <1>2, <1>5, <1>6, IndexFacts
  <2>2. r = Saves(rebuild_profile_combo(Choose([now EXCEPT !.cfg = c], at)))
    BY <1>6 DEF ProfilePut
  <2> DEFINE b == now.cfg
  <2>3. IsConfig(b) /\ at \in DOMAIN b.profiles /\ dp.name = b.profiles[at].name
    BY <1>2, <2>1
  <2> HIDE DEF at, r, b
  <2>4. IsConfig(c) /\ (Sound(now.cfg) => Sound(c)) /\ DOMAIN c.profiles = DOMAIN now.cfg.profiles
    <3>1. LET d == ProfilePut(b, at, dp) IN IsConfig(d) /\ (Sound(b) => Sound(d)) /\ DOMAIN d.profiles = DOMAIN b.profiles
      BY <1>5, <2>3, ReplacedSound
    <3> QED BY <3>1 DEF b
  <2> HIDE DEF c
  <2>5. Choose([now EXCEPT !.cfg = c], at) = Moved(now, ActivePut(c, c.profiles[at].name), at)
    BY <1>1, ChooseIs
  <2>6. Edited(now, Saves(rebuild_profile_combo(Moved(now, ActivePut(c, c.profiles[at].name), at))))
    BY <1>1, <2>1, <2>4, SoundIs, ChosenSound
  <2>7. Edited(now, r)
    BY <2>2, <2>5, <2>6
  <2>8. Edited(w, r)
    BY <1>1, <2>7, EditedTwice
  <2> QED BY <1>1, <1>3, <1>4, <2>8 DEF r
<1>7. CASE ~known /\ name # ""
  <2> DEFINE added == [now EXCEPT !.cfg = Add(now.cfg, dp)]
  <2>1. Edited(w, Saves(rebuild_profile_combo(Choose(added, Len(added.cfg.profiles)))))
    BY <1>1, <1>5, <1>7, AddedChosen
  <2>2. Len(added.cfg.profiles) = Len(now.cfg.profiles) + 1
    <3>1. added.cfg = Add(now.cfg, dp)
      BY <1>2 DEF WindowFields
    <3> HIDE DEF added
    <3>2. Len(Add(now.cfg, dp).profiles) = Len(now.cfg.profiles) + 1
      BY <1>2, <1>5, AddFacts
    <3> QED BY <3>1, <3>2
  <2>3. Len(now.cfg.profiles) = Len(w.cfg.profiles)
    BY <1>1, <1>2 DEF IsConfig, IsSeq
  <2>4. r = Saves(rebuild_profile_combo(Choose(added, Len(added.cfg.profiles))))
    BY <1>7, <2>2, <2>3
  <2> HIDE DEF r, added
  <2>5. Edited(w, r)
    BY <2>1, <2>4
  <2> QED BY <1>1, <1>3, <1>4, <2>5
<1> HIDE DEF r
<1>8. CASE name = ""
  BY <1>3, <1>4, <1>8
<1> QED BY <1>6, <1>7, <1>8

LEMMA GuiImportKeeps ==
  ASSUME NEW w, IsWindow(w), Honest(w), NEW j, IsProfileJson(j)
  PROVE  Edited(w, import_profile_done(w, j))
<1> DEFINE dp == Migrated([version |-> Absent], j)
           kept == ProfileThrows(j) \/ ~check_import_lut_size(j) \/ dp.name = ""
                     \/ dp.name \in NamesOf(w.cfg) \/ ~HasRoom(w.cfg)
           b == w.cfg
           k == w.cur
           c == Add(b, dp)
<1>1. import_profile_done(w, j) = IF kept THEN w ELSE Saves(rebuild_profile_combo([w EXCEPT !.cfg = c]))
  BY DEF import_profile_done
<1>2. CASE kept
  <2>1. import_profile_done(w, j) = w
    BY <1>1, <1>2
  <2> QED BY <2>1 DEF Edited
<1>3. CASE ~kept
  <2>1. IsProfile(dp) /\ dp.name \notin NamesOf(b) \cup {""}
    <3> DEFINE f == [version |-> Absent]
    <3>1. IsVersion(f.version) /\ ~ProfileThrows(j)
      BY <1>3 DEF IsVersion
    <3> HIDE DEF f
    <3>2. IsProfile(Migrated(f, j))
      BY <3>1, MigratedFacts
    <3> QED BY <1>3, <3>2 DEF f
  <2>2. w = [f \in WindowFields |-> w[f]] /\ IsConfig(b) /\ k \in DOMAIN b.profiles
    BY DEF IsWindow
  <2> HIDE DEF dp, kept, c
  <2>3. [w EXCEPT !.cfg = c] = Moved(w, c, k)
    BY <2>2 DEF Moved, WindowFields
  <2> HIDE DEF b, k
  <2>4. /\ IsConfig(c) /\ c.active = b.active /\ NamesOf(c) = NamesOf(b) \cup {dp.name}
        /\ \A i \in DOMAIN b.profiles : i \in DOMAIN c.profiles
        /\ Distinct(b) /\ dp.name \notin NamesOf(b) \cup {""} => Distinct(c)
    <3>1. LET d == Add(b, dp)
          IN  /\ IsConfig(d) /\ d.active = b.active /\ NamesOf(d) = NamesOf(b) \cup {dp.name}
              /\ Len(d.profiles) = Len(b.profiles) + 1
              /\ Distinct(b) /\ dp.name \notin NamesOf(b) \cup {""} => Distinct(d)
      BY <2>1, <2>2, AddFacts
    <3>2. /\ IsConfig(c) /\ c.active = b.active /\ NamesOf(c) = NamesOf(b) \cup {dp.name}
          /\ Len(c.profiles) = Len(b.profiles) + 1
          /\ Distinct(b) /\ dp.name \notin NamesOf(b) \cup {""} => Distinct(c)
      BY <3>1 DEF c
    <3>3. /\ Len(b.profiles) \in Nat /\ DOMAIN b.profiles = 1..Len(b.profiles)
          /\ DOMAIN c.profiles = 1..Len(c.profiles)
      BY <2>2, <3>2, NamesFacts
    <3>4. \A i \in DOMAIN b.profiles : i \in DOMAIN c.profiles
      <4> DEFINE m == Len(b.profiles)
      <4>1. m \in Nat /\ DOMAIN b.profiles = 1..m /\ DOMAIN c.profiles = 1..(m + 1)
        BY <3>2, <3>3
      <4> HIDE DEF m
      <4>2. \A i \in 1..m : i \in 1..(m + 1)
        BY <4>1
      <4> QED BY <4>1, <4>2
    <3> QED BY <3>2, <3>4
  <2>5. Sound(b) => Sound(c)
    BY <2>1, <2>4, SoundIs
  <2>6. Edited(w, Saves(rebuild_profile_combo(Moved(w, c, k))))
    BY <2>2, <2>4, <2>5, MovedShown DEF b
  <2> QED BY <1>1, <1>3, <2>3, <2>6
<1> QED BY <1>2, <1>3

-----------------------------------------------------------------------------
(* The curve editor: only the curve of a profile changes *)

LEMMA CurveKeeps ==
  ASSUME NEW w, IsWindow(w), Honest(w), NEW a, IsArgs(a), NEW b, IsArgs(b), w.linked => a = b,
         \A f \in ArgsFields \ {"lut"} : a[f] = Cur(w).x[f] /\ b[f] = Cur(w).y[f]
  PROVE  Edited(w, Unsaved(Moved(w, ProfilePut(w.cfg, w.cur, AxesPut(Cur(w), a, b)), w.cur)))
<1> DEFINE dp == Cur(w)
           q == AxesPut(dp, a, b)
           c == ProfilePut(w.cfg, w.cur, q)
           k == w.cur
           u == Moved(w, c, k)
<1>1. IsProfile(dp) /\ Numeric(dp) /\ Named(dp)
  BY CurFacts
<1>2. Numeric(q) /\ q.x = a /\ q.y = b /\ \A f \in ProfileFields \ {"x", "y"} : q[f] = dp[f]
  <2> HIDE DEF dp
  <2> QED BY <1>1, AxesSet
<1>3. /\ q.name = dp.name /\ q.id = dp.id /\ q.app = dp.app /\ q.smin = dp.smin /\ q.smax = dp.smax
      /\ q.whole = dp.whole /\ q.norm = dp.norm
      /\ \A f \in {"raw", "rot", "smin", "smax", "odpi", "weight", "dpi"} : q[f] = dp[f]
  BY <1>2 DEF ProfileFields
<1>4. IsProfile(q)
  BY <1>1, <1>2, <1>3, NumericIs DEF Named
<1> HIDE DEF q
<1>5. IsConfig(c) /\ k \in DOMAIN c.profiles /\ (Sound(w.cfg) => Sound(c)) /\ c.profiles[k] = q
  <2>1. IsWindow(w) /\ IsProfile(q) /\ q.name = Cur(w).name
    BY <1>3, <1>4
  <2>2. LET d == ProfilePut(w.cfg, w.cur, q)
        IN  /\ IsConfig(d) /\ w.cur \in DOMAIN d.profiles /\ (Sound(w.cfg) => Sound(d)) /\ d.profiles[w.cur] = q
            /\ [w EXCEPT !.cfg.profiles[w.cur] = q] = Moved(w, d, w.cur)
    BY ONLY <2>1, InPlace
  <2> QED BY <2>2
<1> HIDE DEF c
<1>6. /\ IsWindow(u) /\ u.cfg = c /\ u.cur = k /\ u.stamp = w.stamp /\ u.phase = w.phase
  <2> HIDE DEF k
  <2> QED BY <1>5, MovedFacts
<1>7. /\ u.linked = w.linked /\ u.lp = w.lp /\ u.dist = w.dist /\ u.mice = w.mice /\ u.shown = w.shown /\ u.sel = w.sel
  <2> HIDE DEF k
  <2> QED BY DEF Moved, IsWindow, WindowFields
<1> HIDE DEF u
<1>8. Cur(u) = q
  BY <1>5, <1>6 DEF Cur
<1>9. Honest(u)
  <2>1. u.linked => q.x = q.y
    BY <1>2, <1>7
  <2>2. /\ XShown(dp, w.shown) /\ (~w.linked => YShown(dp, w.shown)) /\ RestShown(dp, w.shown)
        /\ DistanceShown(dp, w) /\ BoundTo(w) = dp.id
    BY DEF Honest
  <2>3. XShown(q, u.shown)
    <3>1. \A f \in ArgsFields \ {"lut"} : AxisShown(a)[f] = AxisShown(dp.x)[f]
      BY <1>1, SameShown DEF Numeric
    <3> HIDE DEF dp
    <3> QED BY <1>2, <1>7, <2>2, <3>1 DEF XShown
  <2>4. ~u.linked => YShown(q, u.shown)
    <3>1. \A f \in ArgsFields \ {"lut"} : AxisShown(b)[f] = AxisShown(dp.y)[f]
      BY <1>1, SameShown DEF Numeric
    <3>2. {"mode", "acc", "off", "capy"} \subseteq ArgsFields \ {"lut"}
      BY DEF ArgsFields
    <3> HIDE DEF dp
    <3> QED BY <1>2, <1>7, <2>2, <3>1, <3>2 DEF YShown
  <2>5. RestShown(q, u.shown)
    BY <1>3, <1>7, <2>2 DEF RestShown
  <2>6. DistanceShown(q, u)
    BY <1>3, <1>7, <2>2 DEF DistanceShown
  <2>7. BoundTo(u) = q.id
    BY <1>3, <1>7, <1>8, <2>2 DEF BoundTo
  <2> QED BY <1>8, <2>1, <2>3, <2>4, <2>5, <2>6, <2>7 DEF Honest
<1>10. Edited(w, u)
  BY <1>5, <1>6, <1>9 DEF Edited
<1>11. Edited(w, Unsaved(u))
  BY <1>10, Marked
<1> QED BY <1>11 DEF u, c, q

\* Points put on a curve, and on the other axis too while they are linked.
LEMMA PointsKeep ==
  ASSUME NEW w, IsWindow(w), Honest(w), NEW points, IsSeq(points),
         \A i \in DOMAIN points : points[i][1] \in Int /\ points[i][2] \in Int
  PROVE  Edited(w, SetPoints(w, points))
<1> DEFINE sorted == SubSeq(sort_lut_data(points), 1, Least(Len(points), LUT_POINTS_CAPACITY))
           l == [i \in DOMAIN sorted |->
                    <<Clamp(sorted[i][1], -FLT_MAX, FLT_MAX), Clamp(sorted[i][2], -FLT_MAX, FLT_MAX)>>]
           u == lut_set_points(w, points)
           dp == Cur(w)
           axis == w.lut
           e == KeyPut(dp[axis], "lut", l)
           a == IF axis = "x" \/ w.linked THEN e ELSE dp.x
           b == IF axis = "y" \/ w.linked THEN e ELSE dp.y
           q == AxesPut(dp, a, b)
           k == w.cur
           cfg == w.cfg
<1>1. /\ w = [f \in WindowFields |-> w[f]] /\ axis \in {"x", "y"} /\ IsConfig(cfg) /\ k \in DOMAIN cfg.profiles
      /\ dp = cfg.profiles[k] /\ cfg = [f \in ConfigFields |-> cfg[f]] /\ IsSeq(cfg.profiles)
  BY DEF IsWindow, IsWidgets, IsConfig, Cur
<1>2. IsArgs(dp.x) /\ IsArgs(dp.y) /\ IsProfile(dp) /\ dp = [f \in ProfileFields |-> dp[f]]
  BY CurFacts, FieldsAre DEF IsProfile
<1>3. u = [w EXCEPT !.cfg.profiles[k][axis].lut = l]
  BY DEF lut_set_points
<1>4. SetPoints(w, points) = Unsaved(lut_mirror_link(u))
  BY DEF SetPoints
<1>0. IsCurve(l)
  <2> DEFINE all == sort_lut_data(points)
             n == Least(Len(points), LUT_POINTS_CAPACITY)
  <2>1. /\ IsSeq(all) /\ Len(all) = Len(points) /\ DOMAIN all = DOMAIN points /\ Len(points) \in Nat
        /\ \A i \in DOMAIN points : \E m \in DOMAIN points : all[i] = points[m]
    BY SortFacts, SeqShape
  <2>2. n \in Nat /\ n <= Len(points) /\ n <= LUT_POINTS_CAPACITY /\ DOMAIN points = 1..Len(points)
    BY <2>1, SeqShape DEF Least, LUT_POINTS_CAPACITY, LUT_RAW_DATA_CAPACITY
  <2> HIDE DEF all, n
  <2>3. /\ Len(SubSeq(all, 1, n)) = n /\ SubSeq(all, 1, n) \in Seq(Range(all))
        /\ \A i \in 1..n : SubSeq(all, 1, n)[i] = all[i]
    <3>0. all \in Seq(Range(all)) /\ 1..n \subseteq DOMAIN all
      BY <2>1, <2>2 DEF IsSeq
    <3>1. all \in Seq(Range(all)) /\ \A i \in 1..n : all[i] \in Range(all)
      BY <3>0, Zenon DEF Range
    <3>2. /\ SubSeq(all, 1, n) \in Seq(Range(all)) /\ Len(SubSeq(all, 1, n)) = IF 1 <= n THEN n - 1 + 1 ELSE 0
          /\ \A i \in 1..(n - 1 + 1) : SubSeq(all, 1, n)[i] = all[1 + i - 1]
      BY <2>1, <2>2, <3>1, SubSeqProperties
    <3> QED BY <2>2, <3>2
  <2>4. sorted = SubSeq(all, 1, n) /\ DOMAIN sorted = 1..n
    BY <2>3, LenProperties DEF all, n
  <2>5. \A i \in 1..n : sorted[i][1] \in Int /\ sorted[i][2] \in Int
    <3>1. ASSUME NEW i \in 1..n PROVE all[i][1] \in Int /\ all[i][2] \in Int
      <4>1. i \in DOMAIN points
        BY <2>1, <2>2
      <4>2. PICK m \in DOMAIN points : all[i] = points[m]
        BY <2>1, <4>1
      <4> QED BY <4>2
    <3> HIDE DEF sorted
    <3>2. \A i \in 1..n : sorted[i] = all[i]
      BY <2>3, <2>4
    <3> QED BY <3>1, <3>2
  <2> HIDE DEF sorted
  <2>6. l = [i \in 1..n |-> l[i]]
    BY <2>4
  <2>7. ASSUME NEW i \in 1..n PROVE l[i] \in Points
    <3>1. l[i] = <<Clamp(sorted[i][1], -FLT_MAX, FLT_MAX), Clamp(sorted[i][2], -FLT_MAX, FLT_MAX)>>
      BY <2>4
    <3>2. \A v \in Int : Clamp(v, -FLT_MAX, FLT_MAX) \in -FLT_MAX..FLT_MAX
      BY DEF Clamp, Least, Most, FLT_MAX
    <3> QED BY <2>5, <3>1, <3>2, PointIs
  <2> HIDE DEF l
  <2> QED BY <2>2, <2>6, <2>7, MakeCurve
<1> HIDE DEF l, u
<1>5. w.linked => dp.x = dp.y
  BY DEF Honest
<1>6. /\ IsArgs(e) /\ \A f \in ArgsFields \ {"lut"} : e[f] = dp[axis][f]
  <2>1. IsArgs(dp[axis])
    BY <1>1, <1>2
  <2> DEFINE g == dp[axis]
  <2> HIDE DEF g
  <2>2. IsArgs(KeyPut(g, "lut", l)) /\ \A f \in ArgsFields \ {"lut"} : KeyPut(g, "lut", l)[f] = g[f]
    BY <1>0, <2>1, LutSet DEF g
  <2> QED BY <2>2 DEF g
<1> DEFINE one == [dp EXCEPT ![axis] = e]
           c1 == ProfilePut(cfg, k, one)
<1>7. u = Moved(w, c1, k)
  <2>1. u = [w EXCEPT !.cfg = [cfg EXCEPT !.profiles = [cfg.profiles EXCEPT ![k] = one]]]
    BY <1>1, <1>3 DEF KeyPut
  <2>2. c1 = [cfg EXCEPT !.profiles = [cfg.profiles EXCEPT ![k] = one]]
    BY DEF ProfilePut
  <2> HIDE DEF c1, one, cfg
  <2>3. u = [w EXCEPT !.cfg = c1]
    BY <2>1, <2>2
  <2>4. [w EXCEPT !.cfg = c1] = Moved(w, c1, k)
    BY <1>1 DEF Moved, WindowFields
  <2> QED BY <2>3, <2>4
<1> HIDE DEF e
<1>8. lut_mirror_link(u) = Moved(w, ProfilePut(cfg, k, q), k)
  <2>1. /\ u.linked = w.linked /\ u.cur = k /\ u.lut = axis /\ u.cfg = c1 /\ u = [f \in WindowFields |-> u[f]]
        /\ \A f \in WindowFields \ {"cfg"} : u[f] = w[f]
    <3> HIDE DEF c1
    <3> QED BY <1>1, <1>7 DEF Moved, WindowFields
  <2>2. c1.profiles = [cfg.profiles EXCEPT ![k] = one] /\ c1.profiles[k] = one /\ k \in DOMAIN c1.profiles
    <3> HIDE DEF one
    <3> QED BY <1>1 DEF ProfilePut, ConfigFields
  <2>3. CASE ~w.linked
    <3>1. one = q
      <4> HIDE DEF dp
      <4> QED BY <1>1, <1>2, <2>3 DEF AxesPut, ProfileFields
    <3>2. lut_mirror_link(u) = u
      BY <2>1, <2>3 DEF lut_mirror_link
    <3> QED BY <1>7, <3>1, <3>2
  <2>4. CASE w.linked
    <3>1. lut_args(u) = e
      <4>1. Cur(u) = one
        BY <2>1, <2>2 DEF Cur
      <4>2. one[axis] = e
        BY <1>1, <1>2 DEF ProfileFields
      <4> QED BY <2>1, <4>1, <4>2 DEF lut_args
    <3>2. lut_mirror_link(u) = [u EXCEPT !.cfg.profiles[k] = [@ EXCEPT !.x = e, !.y = e]]
      BY <2>1, <2>4, <3>1 DEF lut_mirror_link
    <3>3. [one EXCEPT !.x = e, !.y = e] = q
      <4> HIDE DEF dp
      <4> QED BY <1>1, <1>2, <2>4 DEF AxesPut, ProfileFields
    <3> HIDE DEF one, q, c1
    <3>4. lut_mirror_link(u) = [u EXCEPT !.cfg = [c1 EXCEPT !.profiles = [c1.profiles EXCEPT ![k] = q]]]
      BY <2>1, <2>2, <3>2, <3>3
    <3>5. [c1 EXCEPT !.profiles = [c1.profiles EXCEPT ![k] = q]] = ProfilePut(cfg, k, q)
      <4>1. [c1.profiles EXCEPT ![k] = q] = [cfg.profiles EXCEPT ![k] = q]
        BY <1>1, <2>2
      <4>2. \A ps : [c1 EXCEPT !.profiles = ps] = [cfg EXCEPT !.profiles = ps]
        BY <1>1 DEF c1, ProfilePut, ConfigFields
      <4> QED BY <4>1, <4>2 DEF ProfilePut
    <3>6. \A c : [u EXCEPT !.cfg = c] = Moved(w, c, k)
      BY <1>1, <2>1 DEF Moved, WindowFields
    <3> QED BY <3>4, <3>5, <3>6
  <2> QED BY <2>3, <2>4
<1>9. IsArgs(a) /\ IsArgs(b) /\ (w.linked => a = b)
  BY <1>2, <1>6
<1>10. \A f \in ArgsFields \ {"lut"} : a[f] = dp.x[f] /\ b[f] = dp.y[f]
  BY <1>1, <1>5, <1>6
<1> HIDE DEF a, b
<1>11. Edited(w, Unsaved(Moved(w, ProfilePut(w.cfg, w.cur, AxesPut(Cur(w), a, b)), w.cur)))
  BY <1>9, <1>10, CurveKeeps
<1> QED BY <1>4, <1>8, <1>11

LEMMA LutKeeps ==
  ASSUME NEW w, IsWindow(w), Honest(w)
  PROVE  /\ Edited(w, [w EXCEPT !.lut = IF @ = "x" THEN "y" ELSE "x"])
         /\ Edited(w, on_lut_add_point(w))
         /\ \A x, y \in Int : Edited(w, AddPointAt(w, x, y))
         /\ \A i \in DOMAIN lut_args(w).lut : Edited(w, on_lut_row_delete(w, i))
         /\ \A i \in DOMAIN lut_args(w).lut : \A x, y \in Int : Edited(w, lut_list_changed(w, i, x, y))
<1> DEFINE v == [w EXCEPT !.lut = IF @ = "x" THEN "y" ELSE "x"]
<1>0. Edited(w, w)
  BY DEF Edited
<1> DEFINE arg == lut_args(w)
           lut == arg.lut
<1>a. /\ IsSeq(lut) /\ Len(lut) \in Nat /\ DOMAIN lut = 1..Len(lut) /\ arg.gain \in {0, 1}
      /\ \A i \in DOMAIN lut : lut[i][1] \in Int /\ lut[i][2] \in Int
  <2>1. IsArgs(Cur(w).x) /\ IsArgs(Cur(w).y) /\ w.lut \in {"x", "y"}
    BY CurFacts DEF Numeric, IsWindow, IsWidgets
  <2>2. IsCurve(lut) /\ arg.gain \in {0, 1}
    BY <2>1 DEF IsArgs, lut_args
  <2> QED BY <2>2, CurveFacts
<1> HIDE DEF arg
<1>b. \A x, y \in Int : lut_gain_to_stored(x, y, arg.gain) \in Int /\ lut_stored_to_gain(x, y, arg.gain) \in Int
  <2>1. \A x, y \in Int : x > 0 => y \div x \in Int
    OBVIOUS
  <2> QED BY <1>a, <2>1 DEF lut_gain_to_stored, lut_stored_to_gain
<1>1. ASSUME NEW x \in Int, NEW y \in Int PROVE Edited(w, AddPointAt(w, x, y))
  <2> DEFINE e == <<x, lut_gain_to_stored(x, y, arg.gain)>>
             points == Append(lut, e)
  <2>1. AddPointAt(w, x, y) = IF Len(lut) >= LUT_POINTS_CAPACITY THEN w ELSE SetPoints(w, points)
    BY DEF AddPointAt, arg
  <2>2. e[1] \in Int /\ e[2] \in Int
    BY <1>b
  <2> HIDE DEF e
  <2>3. /\ IsSeq(points) /\ DOMAIN points = 1..(Len(lut) + 1) /\ points[Len(lut) + 1] = e
        /\ \A i \in 1..Len(lut) : points[i] = lut[i]
    BY <1>a, AppendFacts
  <2> HIDE DEF points
  <2>4. \A i \in DOMAIN points : points[i][1] \in Int /\ points[i][2] \in Int
    <3>1. \A i \in 1..(Len(lut) + 1) : i \in 1..Len(lut) \/ i = Len(lut) + 1
      BY <1>a
    <3> QED BY <1>a, <2>2, <2>3, <3>1
  <2>5. Edited(w, SetPoints(w, points))
    BY <2>3, <2>4, PointsKeep
  <2> QED BY <1>0, <2>1, <2>5
<1>2. Edited(w, on_lut_add_point(w))
  <2> DEFINE last == lut[Len(lut)]
  <2>1. on_lut_add_point(w) = IF lut = <<>> THEN AddPointAt(w, 1, 2)
                              ELSE AddPointAt(w, last[1] + 1, lut_stored_to_gain(last[1], last[2], arg.gain))
    BY DEF on_lut_add_point, arg
  <2>2. CASE lut = <<>>
    BY <1>1, <2>1, <2>2
  <2>3. CASE lut # <<>>
    <3>1. Len(lut) \in DOMAIN lut
      <4>1. Len(lut) # 0
        BY <1>a, <2>3 DEF IsSeq
      <4> QED BY <1>a, <4>1
    <3>2. last[1] \in Int /\ last[2] \in Int
      BY <1>a, <3>1
    <3>3. last[1] + 1 \in Int /\ lut_stored_to_gain(last[1], last[2], arg.gain) \in Int
      <4> DEFINE x == last[1]
                 y == last[2]
      <4>1. x \in Int /\ y \in Int
        BY <3>2
      <4> HIDE DEF x, y
      <4>2. x + 1 \in Int /\ lut_stored_to_gain(x, y, arg.gain) \in Int
        BY <1>b, <4>1
      <4> QED BY <4>2 DEF x, y
    <3> QED BY <1>1, <2>1, <2>3, <3>3
  <2> QED BY <2>2, <2>3
<1>3. ASSUME NEW i \in DOMAIN lut PROVE Edited(w, on_lut_row_delete(w, i))
  <2>1. /\ IsSeq(RemoveAt(lut, i)) /\ DOMAIN RemoveAt(lut, i) = 1..(Len(lut) - 1)
        /\ \A k \in 1..(Len(lut) - 1) : RemoveAt(lut, i)[k] = IF k < i THEN lut[k] ELSE lut[k + 1]
    BY <1>a, RemoveAtFacts
  <2>2. \A k \in 1..(Len(lut) - 1) : k \in DOMAIN lut /\ k + 1 \in DOMAIN lut
    BY <1>a
  <2>3. \A k \in DOMAIN RemoveAt(lut, i) : RemoveAt(lut, i)[k][1] \in Int /\ RemoveAt(lut, i)[k][2] \in Int
    BY <1>a, <2>1, <2>2
  <2>4. Edited(w, SetPoints(w, RemoveAt(lut, i)))
    BY <2>1, <2>3, PointsKeep
  <2> QED BY <2>4 DEF on_lut_row_delete, arg
<1>4. ASSUME NEW i \in DOMAIN lut, NEW x \in Int, NEW y \in Int PROVE Edited(w, lut_list_changed(w, i, x, y))
  <2> DEFINE row(k) == IF k = i THEN <<x, lut_gain_to_stored(x, y, arg.gain)>>
                       ELSE IF arg.gain = 1 /\ lut[k][1] <= 0 THEN <<lut[k][1], lut[k][1]>>
                       ELSE lut[k]
             points == [k \in DOMAIN lut |-> row(k)]
  <2>1. lut_list_changed(w, i, x, y) = SetPoints(w, points)
    BY DEF lut_list_changed, arg
  <2>2. points = [k \in 1..Len(lut) |-> points[k]]
    BY <1>a
  <2>3. \A k \in DOMAIN lut : row(k)[1] \in Int /\ row(k)[2] \in Int
    BY <1>a, <1>b
  <2>4. \A k \in DOMAIN lut : points[k] = row(k)
    OBVIOUS
  <2> HIDE DEF points, row
  <2>5. IsSeq(points) /\ DOMAIN points = DOMAIN lut
    BY <1>a, <2>2, MakeSeq
  <2>6. Edited(w, SetPoints(w, points))
    BY <2>3, <2>4, <2>5, PointsKeep
  <2> QED BY <2>1, <2>6
<1>5. Edited(w, v)
  <2>1. w = [f \in WindowFields |-> w[f]] /\ w.lut \in {"x", "y"}
    BY DEF IsWindow, IsWidgets
  <2>2. /\ v = [f \in WindowFields |-> v[f]] /\ v.lut \in {"x", "y"}
        /\ \A f \in WindowFields \ {"lut"} : v[f] = w[f]
    BY <2>1 DEF WindowFields
  <2> HIDE DEF v
  <2>3. /\ v.cfg = w.cfg /\ v.cur = w.cur /\ v.stamp = w.stamp /\ v.phase = w.phase
        /\ v.linked = w.linked /\ v.mem = w.mem /\ v.lp = w.lp /\ v.dist = w.dist /\ v.mice = w.mice
        /\ v.shown = w.shown /\ v.sel = w.sel
    BY <2>2 DEF WindowFields
  <2>4. IsWidgets(v)
    BY <2>2, <2>3 DEF IsWindow, IsWidgets
  <2>5. IsWindow(v)
    BY <2>2, <2>3, <2>4 DEF IsWindow
  <2>6. Cur(v) = Cur(w)
    BY <2>3 DEF Cur
  <2>7. BoundTo(v) = BoundTo(w)
    BY <2>3, <2>6 DEF BoundTo
  <2>8. Honest(v)
    BY <2>3, <2>6, <2>7 DEF Honest, DistanceShown
  <2> QED BY <2>3, <2>5, <2>8 DEF Edited
<1> QED BY <1>1, <1>2, <1>3, <1>4, <1>5 DEF arg

-----------------------------------------------------------------------------
(* The invariant *)

FileSound(f) == f = Missing \/ (Loadable(f) /\ Sound(load_config(f)))

\* A run holds a config it loaded or seeded, and a command of the scene; and
\* what validate loaded is what the file still says, unless somebody saved.
CliFields == {"pc", "cmd", "cfg", "seen", "rc"}
CliTyped(c, sc, sure) ==
  /\ c = [f \in CliFields |-> c[f]]
  /\ c.pc \in {"idle", "look", "seed", "run", "compare"}
  /\ c.pc \in {"look", "seed", "run"} =>
       /\ c.cmd \in Scenes[sc].commands /\ c.cmd.op # "validate"
       /\ IsConfig(c.cfg) /\ (sure => Sound(c.cfg))
  /\ c.pc = "look" => c.cfg.profiles = <<>>
  /\ c.pc = "seed" => Sound(c.cfg) /\ Len(c.cfg.profiles) = 1
CliFresh(c, f, t) ==
  c.pc = "compare" =>
    /\ c.seen \in Nat /\ c.seen <= t
    /\ c.seen = t => Loadable(f) /\ c.cfg = load_config(f)
ClisTyped ==
  /\ cli = [p \in Clis |-> cli[p]]
  /\ \A p \in Clis : CliTyped(cli[p], scene, pristine) /\ CliFresh(cli[p], file, stamp)

Shows == {"idle", "check", "write", "restamp"}
WinTyped ==
  /\ win.phase \in {"off", "start", "stamp"} \cup Shows
  /\ win.phase \in {"stamp"} \cup Shows =>
       /\ IsWindow(win) /\ (pristine => Sound(win.cfg))
       /\ win.stamp \in Nat /\ win.stamp <= stamp
  /\ win.phase \in Shows => Honest(win)

TheirsKept ==
  /\ theirs \subseteq 1..stamp
  /\ win.phase \in {"off", "start", "stamp"} => theirs = {}
  /\ win.phase \in {"idle", "check"} /\ file # Missing /\ (win.stamp = 0 \/ win.stamp = stamp)
       => stamp \notin theirs
  /\ win.phase = "write" /\ file # Missing => stamp \notin theirs
  /\ win.phase = "restamp" => stamp \notin theirs

FileTyped ==
  /\ scene \in DOMAIN Scenes /\ IsFile(file) /\ stamp \in Nat \ {0} /\ pristine \in BOOLEAN
  /\ pristine => FileSound(file)

EditInv == FileTyped /\ ClisTyped /\ WinTyped /\ TheirsKept

\* Somebody other than the window saves: what the runs and the window hold stays
\* as good as it was, and nothing that was loaded is the newest any more.
LEMMA PutKeeps ==
  ASSUME EditInv, NEW f, IsFile(f), PutByOthers(f), UNCHANGED <<scene, win>>,
         pristine' \in BOOLEAN, pristine' => pristine, pristine' => FileSound(f)
  PROVE  /\ FileTyped' /\ WinTyped' /\ TheirsKept' /\ scene' = scene
         /\ \A c : CliTyped(c, scene, pristine) => CliTyped(c, scene', pristine')
         /\ \A c : CliFresh(c, file, stamp) => CliFresh(c, file', stamp')
<1>1. /\ file' = f /\ stamp' = stamp + 1 /\ stamp \in Nat \ {0}
      /\ theirs' = IF win.phase = "idle" /\ win.stamp # 0 THEN theirs \cup {stamp'} ELSE theirs
  BY DEF PutByOthers, EditInv, FileTyped
<1>2. FileTyped'
  BY <1>1 DEF FileTyped, EditInv, FileSound
<1>3. WinTyped'
  BY <1>1 DEF WinTyped, EditInv
<1>4. TheirsKept'
  <2>1. /\ theirs \subseteq 1..stamp /\ stamp' \notin 1..stamp /\ stamp' # 0 /\ stamp' \in Nat
        /\ 1..stamp \subseteq 1..stamp' /\ stamp' \in 1..stamp'
    BY <1>1 DEF EditInv, TheirsKept
  <2>2. theirs' \subseteq 1..stamp' /\ (win.phase \in {"off", "start", "stamp"} => theirs' = {})
    BY <1>1, <2>1 DEF EditInv, TheirsKept
  <2>3. win.phase \in {"idle", "check"} /\ (win.stamp = 0 \/ win.stamp = stamp') => stamp' \notin theirs'
    <3>1. win.phase \in {"idle", "check"} => win.stamp \in Nat /\ win.stamp # stamp'
      BY <1>1 DEF EditInv, WinTyped, Shows
    <3> QED BY <1>1, <2>1, <3>1
  <2>4. win.phase \in {"write", "restamp"} => stamp' \notin theirs'
    BY <1>1, <2>1
  <2> QED BY <2>2, <2>3, <2>4 DEF TheirsKept
<1>5. \A c : CliTyped(c, scene, pristine) => CliTyped(c, scene', pristine')
  BY DEF CliTyped
<1>6. \A c : CliFresh(c, file, stamp) => CliFresh(c, file', stamp')
  BY <1>1 DEF CliFresh
<1> QED BY <1>2, <1>3, <1>4, <1>5, <1>6

\* One run takes a step.
LEMMA CliMoves ==
  ASSUME ClisTyped, NEW p \in Clis, NEW d, cli' = [cli EXCEPT ![p] = d],
         CliTyped(d, scene', pristine'), CliFresh(d, file', stamp'),
         \A c : CliTyped(c, scene, pristine) => CliTyped(c, scene', pristine'),
         \A c : CliFresh(c, file, stamp) => CliFresh(c, file', stamp')
  PROVE  ClisTyped'
<1>1. cli = [q \in Clis |-> cli[q]] /\ \A q \in Clis : CliTyped(cli[q], scene, pristine) /\ CliFresh(cli[q], file, stamp)
  BY DEF ClisTyped
<1>2. cli' = [q \in Clis |-> cli'[q]] /\ cli'[p] = d /\ \A q \in Clis : q # p => cli'[q] = cli[q]
  BY <1>1
<1>3. \A q \in Clis : CliTyped(cli'[q], scene', pristine') /\ CliFresh(cli'[q], file', stamp')
  BY <1>1, <1>2
<1> QED BY <1>2, <1>3 DEF ClisTyped

LEMMA SameClis ==
  ASSUME ClisTyped, UNCHANGED <<cli, scene>>,
         \A c : CliTyped(c, scene, pristine) => CliTyped(c, scene', pristine'),
         \A c : CliFresh(c, file, stamp) => CliFresh(c, file', stamp')
  PROVE  ClisTyped'
BY DEF ClisTyped

\* A run that ends, or that goes on with the file as it is.
LEMMA IdleTyped ==
  \A rc, sc, sure, f, t : LET d == [IdleCli EXCEPT !.rc = rc]
                          IN  d.pc = "idle" /\ d.rc = rc /\ CliTyped(d, sc, sure) /\ CliFresh(d, f, t)
BY DEF IdleCli, CliTyped, CliFresh, CliFields

LEMMA CliStays ==
  ASSUME EditInv, UNCHANGED <<scene, file, stamp, win, pristine, theirs>>, NEW p \in Clis, NEW d,
         cli' = [cli EXCEPT ![p] = d], CliTyped(d, scene, pristine), CliFresh(d, file, stamp)
  PROVE  EditInv'
<1>1. ClisTyped'
  BY CliMoves DEF EditInv
<1>2. FileTyped' /\ WinTyped' /\ TheirsKept'
  BY DEF EditInv, FileTyped, WinTyped, TheirsKept
<1> QED BY <1>1, <1>2 DEF EditInv

\* What is loaded from the file.
LEMMA LoadedTyped ==
  ASSUME FileTyped, Loadable(file)
  PROVE  IsConfig(load_config(file)) /\ (pristine => Sound(load_config(file)))
<1>1. Loadable(Missing) => FALSE
  BY DEF Loadable, Parsed
<1> QED BY <1>1, FileLoaded DEF FileTyped, FileSound

LEMMA StartKeeps ==
  ASSUME EditInv, NEW p \in Clis, CliStart(p)
  PROVE  EditInv'
<1> DEFINE c == load_config(file)
           s == DefaultAdded(app_config)
           d(m, at, cfg) == [pc |-> at, cmd |-> m, cfg |-> cfg, seen |-> stamp, rc |-> 0]
<1>1. UNCHANGED <<scene, file, stamp, win, pristine, theirs>> /\ FileTyped /\ ClisTyped
  BY DEF CliStart, EditInv
<1>2. IsConfig(s) /\ Sound(s) /\ Len(s.profiles) = 1
  BY AppConfigTyped, DefaultAddedFacts
<1>3. ASSUME Loadable(file) PROVE IsConfig(c) /\ (pristine => Sound(c))
  BY <1>1, <1>3, LoadedTyped
<1> HIDE DEF c, s
<1>4. \E m \in Scenes[scene].commands :
        \/ cli' = [cli EXCEPT ![p] = [IdleCli EXCEPT !.rc = 1]]
        \/ Loadable(file) /\ cli' = [cli EXCEPT ![p] = d(m, "compare", c)]
        \/ m.op # "validate" /\ cli' = [cli EXCEPT ![p] = d(m, "seed", s)]
        \/ m.op # "validate" /\ Loadable(file) /\ c.profiles = <<>> /\ cli' = [cli EXCEPT ![p] = d(m, "look", c)]
        \/ m.op # "validate" /\ Loadable(file) /\ cli' = [cli EXCEPT ![p] = d(m, "run", c)]
  <2>1. PICK m \in Scenes[scene].commands :
          CASE m.op = "validate" ->
                 IF Loadable(file) THEN Goes(p, m, "compare", load_config(file)) ELSE Finished(p, 1)
            [] m.op # "validate" /\ file = Missing -> Goes(p, m, "seed", DefaultAdded(app_config))
            [] m.op # "validate" /\ file # Missing ->
                 IF ~Loadable(file) THEN Finished(p, 1)
                 ELSE Goes(p, m, IF load_config(file).profiles = <<>> THEN "look" ELSE "run", load_config(file))
    BY DEF CliStart
  <2>2. CASE m.op = "validate"
    BY <2>1, <2>2 DEF Goes, Finished, c
  <2>3. CASE m.op # "validate" /\ file = Missing
    BY <2>1, <2>3 DEF Goes, s
  <2>4. CASE m.op # "validate" /\ file # Missing
    BY <2>1, <2>4 DEF Goes, Finished, c
  <2> QED BY <2>2, <2>3, <2>4
<1>5. PICK m \in Scenes[scene].commands :
        \/ cli' = [cli EXCEPT ![p] = [IdleCli EXCEPT !.rc = 1]]
        \/ Loadable(file) /\ cli' = [cli EXCEPT ![p] = d(m, "compare", c)]
        \/ m.op # "validate" /\ cli' = [cli EXCEPT ![p] = d(m, "seed", s)]
        \/ m.op # "validate" /\ Loadable(file) /\ c.profiles = <<>> /\ cli' = [cli EXCEPT ![p] = d(m, "look", c)]
        \/ m.op # "validate" /\ Loadable(file) /\ cli' = [cli EXCEPT ![p] = d(m, "run", c)]
  BY <1>4
<1>6. CASE cli' = [cli EXCEPT ![p] = [IdleCli EXCEPT !.rc = 1]]
  BY <1>1, <1>6, IdleTyped, CliStays
<1>7. CASE Loadable(file) /\ cli' = [cli EXCEPT ![p] = d(m, "compare", c)]
  <2>1. CliTyped(d(m, "compare", c), scene, pristine)
    BY DEF CliTyped, CliFields
  <2>2. CliFresh(d(m, "compare", c), file, stamp)
    BY <1>1, <1>7 DEF CliFresh, FileTyped, c
  <2> QED BY <1>1, <1>7, <2>1, <2>2, CliStays
<1>8. CASE m.op # "validate" /\ cli' = [cli EXCEPT ![p] = d(m, "seed", s)]
  <2>1. CliTyped(d(m, "seed", s), scene, pristine) /\ CliFresh(d(m, "seed", s), file, stamp)
    BY <1>2, <1>8 DEF CliTyped, CliFresh, CliFields
  <2> QED BY <1>1, <1>8, <2>1, CliStays
<1>9. CASE m.op # "validate" /\ Loadable(file) /\ c.profiles = <<>> /\ cli' = [cli EXCEPT ![p] = d(m, "look", c)]
  <2>1. CliTyped(d(m, "look", c), scene, pristine) /\ CliFresh(d(m, "look", c), file, stamp)
    BY <1>3, <1>9 DEF CliTyped, CliFresh, CliFields
  <2> QED BY <1>1, <1>9, <2>1, CliStays
<1>10. CASE m.op # "validate" /\ Loadable(file) /\ cli' = [cli EXCEPT ![p] = d(m, "run", c)]
  <2>1. CliTyped(d(m, "run", c), scene, pristine) /\ CliFresh(d(m, "run", c), file, stamp)
    BY <1>3, <1>10 DEF CliTyped, CliFresh, CliFields
  <2> QED BY <1>1, <1>10, <2>1, CliStays
<1> QED BY <1>5, <1>6, <1>7, <1>8, <1>9, <1>10

LEMMA LookKeeps ==
  ASSUME EditInv, NEW p \in Clis, CliLook(p)
  PROVE  EditInv'
<1> DEFINE r == cli[p]
           seed == [r EXCEPT !.pc = "seed", !.cfg = DefaultAdded(@)]
           run == [r EXCEPT !.pc = "run"]
<1>1. UNCHANGED <<scene, file, stamp, win, pristine, theirs>> /\ r.pc = "look"
  BY DEF CliLook
<1>2. CliTyped(r, scene, pristine) /\ CliFresh(r, file, stamp)
  BY DEF EditInv, ClisTyped
<1>3. cli' = [cli EXCEPT ![p] = seed] \/ cli' = [cli EXCEPT ![p] = run]
  BY DEF CliLook
<1>4. IsConfig(r.cfg) /\ r.cfg.profiles = <<>> /\ r = [f \in CliFields |-> r[f]]
  BY <1>1, <1>2 DEF CliTyped
<1> HIDE DEF r
<1>5. IsConfig(DefaultAdded(r.cfg)) /\ Sound(DefaultAdded(r.cfg)) /\ Len(DefaultAdded(r.cfg).profiles) = 1
  BY <1>4, DefaultAddedFacts
<1>6. CASE cli' = [cli EXCEPT ![p] = run]
  <2>1. /\ run.pc = "run" /\ run.cmd = r.cmd /\ run.cfg = r.cfg
        /\ run = [f \in CliFields |-> run[f]]
    BY <1>4 DEF CliFields
  <2> HIDE DEF run
  <2>2. CliTyped(run, scene, pristine) /\ CliFresh(run, file, stamp)
    BY <1>1, <1>2, <2>1 DEF CliTyped, CliFresh
  <2> QED BY <1>1, <1>6, <2>2, CliStays
<1>7. CASE cli' = [cli EXCEPT ![p] = seed]
  <2>1. /\ seed.pc = "seed" /\ seed.cmd = r.cmd /\ seed.cfg = DefaultAdded(r.cfg)
        /\ seed = [f \in CliFields |-> seed[f]]
    BY <1>4 DEF CliFields
  <2> HIDE DEF seed
  <2>2. CliTyped(seed, scene, pristine) /\ CliFresh(seed, file, stamp)
    BY <1>1, <1>2, <1>5, <2>1 DEF CliTyped, CliFresh
  <2> QED BY <1>1, <1>7, <2>2, CliStays
<1> QED BY <1>3, <1>6, <1>7

LEMMA CompareKeeps ==
  ASSUME EditInv, NEW p \in Clis, CliCompare(p)
  PROVE  EditInv'
<1>1. UNCHANGED <<scene, file, stamp, win, pristine, theirs>> /\ \E rc : cli' = [cli EXCEPT ![p] = [IdleCli EXCEPT !.rc = rc]]
  BY DEF CliCompare, Finished
<1> QED BY <1>1, IdleTyped, CliStays

\* A default config is saved over nothing, or over a file without profiles.
LEMMA SeedKeeps ==
  ASSUME MarksAreMarks, EditInv, NEW p \in Clis, CliSeed(p)
  PROVE  EditInv'
<1> DEFINE r == cli[p]
           f == save_config(r.cfg)
           run == [r EXCEPT !.pc = "run", !.seen = stamp']
<1>1. UNCHANGED <<scene, win, pristine>> /\ r.pc = "seed"
  BY DEF CliSeed
<1>2. CliTyped(r, scene, pristine)
  BY DEF EditInv, ClisTyped
<1>3. /\ IsConfig(r.cfg) /\ Sound(r.cfg) /\ Len(r.cfg.profiles) = 1
      /\ r.cmd \in Scenes[scene].commands /\ r.cmd.op # "validate"
      /\ r = [x \in CliFields |-> r[x]]
  BY <1>1, <1>2 DEF CliTyped
<1>4. CASE PutByOthers(f) /\ cli' = [cli EXCEPT ![p] = run]
  <2> HIDE DEF r
  <2>1. Len(r.cfg.profiles) <= MAX_PROFILES_FILE
    BY <1>3 DEF MAX_PROFILES_FILE
  <2>2. IsFile(f) /\ f \notin {Missing, Garbage} /\ Loadable(f) /\ Sound(load_config(f))
    BY <1>3, <2>1, ReadBack
  <2> HIDE DEF f
  <2>3. pristine' = pristine /\ pristine \in BOOLEAN /\ FileSound(f)
    BY <1>1, <2>2 DEF EditInv, FileTyped, FileSound
  <2>4. /\ FileTyped' /\ WinTyped' /\ TheirsKept' /\ scene' = scene
        /\ \A c : CliTyped(c, scene, pristine) => CliTyped(c, scene', pristine')
        /\ \A c : CliFresh(c, file, stamp) => CliFresh(c, file', stamp')
    BY <1>1, <1>4, <2>2, <2>3, PutKeeps
  <2>5. /\ run.pc = "run" /\ run.cmd = r.cmd /\ run.cfg = r.cfg
        /\ run = [x \in CliFields |-> run[x]]
    BY <1>3 DEF CliFields
  <2> HIDE DEF run
  <2>6. CliTyped(run, scene', pristine') /\ CliFresh(run, file', stamp')
    BY <1>3, <2>4, <2>5 DEF CliTyped, CliFresh
  <2>7. ClisTyped'
    BY <1>4, <2>4, <2>6, CliMoves DEF EditInv
  <2> QED BY <2>4, <2>7 DEF EditInv
<1>5. CASE Finished(p, 1) /\ UNCHANGED <<file, stamp, theirs>>
  BY <1>1, <1>5, IdleTyped, CliStays DEF Finished
<1> QED BY <1>4, <1>5 DEF CliSeed

\* The command is done and saved, or refused.
LEMMA RunIs ==
  ASSUME EditInv, NEW p \in Clis, CliRun(p)
  PROVE  LET c == cli[p].cfg  m == cli[p].cmd  r == Result(c, m)
         IN  /\ UNCHANGED <<scene, win, left, pristine>> /\ cli[p].pc = "run"
             /\ IsConfig(c) /\ (pristine => Sound(c)) /\ IsCommand(m) /\ m.op # "validate"
             /\ \/ /\ m.op # "list" /\ r.ok /\ Len(r.cfg.profiles) <= MAX_PROFILES_FILE
                   /\ PutByOthers(save_config(r.cfg)) /\ Finished(p, 0)
                \/ /\ UNCHANGED <<file, stamp, theirs>>
                   /\ Finished(p, 1) \/ (m.op = "list" /\ Finished(p, 0))
<1>1. cli[p].pc = "run" /\ UNCHANGED <<scene, win, left, pristine>>
  BY DEF CliRun
<1>2. CliTyped(cli[p], scene, pristine) /\ scene \in DOMAIN Scenes
  BY DEF EditInv, ClisTyped, FileTyped
<1>3. /\ cli[p].cmd \in Scenes[scene].commands /\ cli[p].cmd.op # "validate"
      /\ IsConfig(cli[p].cfg) /\ (pristine => Sound(cli[p].cfg))
  BY <1>1, <1>2 DEF CliTyped
<1>4. IsCommand(cli[p].cmd)
  BY <1>2, <1>3, EditAssumption
<1>5. \/ /\ cli[p].cmd.op # "list" /\ Result(cli[p].cfg, cli[p].cmd).ok
         /\ Len(Result(cli[p].cfg, cli[p].cmd).cfg.profiles) <= MAX_PROFILES_FILE
         /\ PutByOthers(save_config(Result(cli[p].cfg, cli[p].cmd).cfg)) /\ Finished(p, 0)
      \/ /\ UNCHANGED <<file, stamp, theirs>>
         /\ Finished(p, 1) \/ (cli[p].cmd.op = "list" /\ Finished(p, 0))
  BY DEF CliRun
<1> QED BY <1>1, <1>3, <1>4, <1>5

LEMMA RunKeeps ==
  ASSUME MarksAreMarks, EditInv, NEW p \in Clis, CliRun(p)
  PROVE  EditInv'
<1> DEFINE c == cli[p].cfg
           m == cli[p].cmd
           r == Result(c, m)
           f == save_config(r.cfg)
<1>1. /\ UNCHANGED <<scene, win, pristine>>
      /\ IsConfig(c) /\ (pristine => Sound(c)) /\ IsCommand(m) /\ m.op # "validate"
      /\ \/ /\ m.op # "list" /\ r.ok /\ Len(r.cfg.profiles) <= MAX_PROFILES_FILE
            /\ PutByOthers(f) /\ Finished(p, 0)
         \/ /\ UNCHANGED <<file, stamp, theirs>>
            /\ Finished(p, 1) \/ (m.op = "list" /\ Finished(p, 0))
  BY RunIs
<1>2. CASE m.op # "list" /\ r.ok /\ Len(r.cfg.profiles) <= MAX_PROFILES_FILE /\ PutByOthers(f) /\ Finished(p, 0)
  <2> HIDE DEF c, m
  <2>1. Keeps(c, r)
    BY <1>1, <1>2, ResultKeeps
  <2> HIDE DEF r
  <2>2. IsConfig(r.cfg) /\ (Sound(c) => Sound(r.cfg))
    BY <1>2, <2>1 DEF Keeps
  <2>3. IsFile(f) /\ Loadable(f) /\ (Sound(r.cfg) => Sound(load_config(f)))
    BY <1>2, <2>2, ReadBack
  <2> HIDE DEF f
  <2>4. pristine' = pristine /\ pristine \in BOOLEAN /\ (pristine' => FileSound(f))
    BY <1>1, <2>2, <2>3 DEF EditInv, FileTyped, FileSound
  <2>5. /\ FileTyped' /\ WinTyped' /\ TheirsKept' /\ scene' = scene
        /\ \A d : CliTyped(d, scene, pristine) => CliTyped(d, scene', pristine')
        /\ \A d : CliFresh(d, file, stamp) => CliFresh(d, file', stamp')
    BY <1>1, <1>2, <2>3, <2>4, PutKeeps
  <2>6. ClisTyped'
    BY <1>2, <2>5, IdleTyped, CliMoves DEF EditInv, Finished
  <2> QED BY <2>5, <2>6 DEF EditInv
<1>3. CASE UNCHANGED <<file, stamp, theirs>> /\ (Finished(p, 1) \/ (m.op = "list" /\ Finished(p, 0)))
  BY <1>1, <1>3, IdleTyped, CliStays DEF Finished
<1> QED BY <1>1, <1>2, <1>3

LEMMA HandKeeps ==
  ASSUME EditInv, HandEdit
  PROVE  EditInv'
<1>1. PICK f \in Scenes[scene].hand :
        /\ PutByOthers(f) /\ UNCHANGED <<scene, cli, win>>
        /\ pristine' = (pristine /\ (f = Missing \/ (Loadable(f) /\ Sound(load_config(f)))))
  BY DEF HandEdit
<1>2. IsFile(f) /\ pristine \in BOOLEAN
  BY EditAssumption DEF EditInv, FileTyped
<1>3. pristine' \in BOOLEAN /\ (pristine' => pristine) /\ (pristine' => FileSound(f))
  BY <1>1, <1>2 DEF FileSound
<1>4. /\ FileTyped' /\ WinTyped' /\ TheirsKept' /\ scene' = scene
      /\ \A d : CliTyped(d, scene, pristine) => CliTyped(d, scene', pristine')
      /\ \A d : CliFresh(d, file, stamp) => CliFresh(d, file', stamp')
  BY <1>1, <1>2, <1>3, PutKeeps
<1>5. ClisTyped'
  BY <1>1, <1>4, SameClis DEF EditInv
<1> QED BY <1>4, <1>5 DEF EditInv

LEMMA RunsKeep ==
  ASSUME MarksAreMarks, EditInv, NEW p \in Clis,
         CliStart(p) \/ CliLook(p) \/ CliSeed(p) \/ CliRun(p) \/ CliCompare(p)
  PROVE  EditInv'
BY StartKeeps, LookKeeps, SeedKeeps, RunKeeps, CompareKeeps

-----------------------------------------------------------------------------
(* The window's steps *)

\* The window becomes w, and nothing else changes.
LEMMA WinMoves ==
  ASSUME EditInv, UNCHANGED <<scene, file, stamp, cli, pristine, theirs>>, NEW w, win' = w,
         w.phase \in {"stamp"} \cup Shows, IsWindow(w), pristine => Sound(w.cfg),
         w.stamp \in Nat, w.stamp <= stamp, w.phase \in Shows => Honest(w),
         w.phase = "stamp" => theirs = {},
         w.phase \in {"idle", "check"} /\ file # Missing /\ (w.stamp = 0 \/ w.stamp = stamp) => stamp \notin theirs,
         w.phase = "write" /\ file # Missing => stamp \notin theirs,
         w.phase = "restamp" => stamp \notin theirs
  PROVE  EditInv'
<1>1. FileTyped'
  BY DEF EditInv, FileTyped
<1>2. ClisTyped'
  BY DEF EditInv, ClisTyped
<1>3. WinTyped'
  BY DEF EditInv, WinTyped
<1>4. TheirsKept'
  <2>1. w.phase \notin {"off", "start"}
    BY DEF Shows
  <2>2. theirs \subseteq 1..stamp
    BY DEF EditInv, TheirsKept
  <2> QED BY <2>1, <2>2 DEF TheirsKept
<1> QED BY <1>1, <1>2, <1>3, <1>4 DEF EditInv

LEMMA DefaultFilled ==
  ASSUME NEW c, IsConfig(c), c.profiles = <<>>
  PROVE  LET d == Add(c, Fresh("default"))
         IN  /\ IsConfig(d) /\ 1 \in DOMAIN d.profiles
             /\ c.active = "default" \/ Sound(c) => Sound(d)
<1> DEFINE dp == Fresh("default")
           d == Add(c, dp)
<1>1. IsProfile(dp) /\ dp.name = "default"
  BY FreshFacts, StringFacts
<1>2. NamesOf(c) = {} /\ Distinct(c) /\ Len(c.profiles) = 0
  BY EmptyFacts DEF NamesOf, Distinct
<1>3. "default" # ""
  OBVIOUS
<1> HIDE DEF dp
<1>4. /\ IsConfig(Add(c, dp)) /\ Add(c, dp).active = c.active /\ NamesOf(Add(c, dp)) = NamesOf(c) \cup {dp.name}
      /\ Len(c.profiles) + 1 \in DOMAIN Add(c, dp).profiles
      /\ Distinct(c) /\ dp.name \notin NamesOf(c) \cup {""} => Distinct(Add(c, dp))
  BY <1>1, AddFacts
<1> HIDE DEF d
<1>5. IsConfig(d) /\ d.active = c.active /\ NamesOf(d) = {"default"} /\ Distinct(d) /\ 1 \in DOMAIN d.profiles
  BY <1>1, <1>2, <1>3, <1>4 DEF d
<1>6. Sound(c) => c.active = ""
  BY <1>2, SoundIs
<1>7. c.active = "default" \/ Sound(c) => Sound(d)
  BY <1>5, <1>6, SoundIs
<1> QED BY <1>5, <1>7 DEF d, dp

\* A window that has just been made.
LEMMA NewWindow ==
  ASSUME NEW c, IsConfig(c), 1 \in DOMAIN c.profiles, NEW mice, mice \subseteq Short \ {Unplugged}
  PROVE  LET w == Window(c, mice)
         IN  IsWindow(w) /\ w.cfg = c /\ w.phase = "stamp" /\ w.stamp = 0
<1> DEFINE w == Window(c, mice)
<1>1. /\ w = [f \in WindowFields |-> w[f]] /\ w.cfg = c /\ w.cur = 1 /\ w.linked = TRUE /\ w.mem = EUCLIDEAN
      /\ w.mice = mice /\ w.shown = device_profile /\ w.dist = "euclidean" /\ w.lp = EUCLIDEAN /\ w.lut = "x"
      /\ w.phase = "stamp" /\ w.stamp = 0
  BY DEF Window, WindowFields
<1> HIDE DEF w
<1>2. Numeric(device_profile) /\ device_profile.app \in Str
  BY ConstantsTyped, NumericIs, StringFacts DEF Named
<1>2a. InSpins(device_profile.x) /\ device_profile.y.acc >= 0
  BY DEF device_profile, accel_args, InSpins, GAMMA_SPIN_MIN
<1> DEFINE dp == device_profile
<1> HIDE DEF dp
<1>3. IsWidgets(w)
  <2>1. EUCLIDEAN \in LP_MIN..LP_MAX /\ EUCLIDEAN \in Int /\ TRUE \in BOOLEAN /\ "x" \in {"x", "y"} /\ "euclidean" \in Distances
    BY DEF EUCLIDEAN, LP_MIN, LP_MAX, Distances
  <2>2. w.shown = dp /\ Numeric(dp) /\ dp.app \in Str /\ InSpins(dp.x) /\ dp.y.acc >= 0
    BY <1>1, <1>2, <1>2a DEF dp
  <2> QED BY <1>1, <2>1, <2>2 DEF IsWidgets
<1>4. IsWindow(w)
  BY <1>1, <1>3 DEF IsWindow
<1> QED BY <1>1, <1>4 DEF w

LEMMA GuiLoadKeeps ==
  ASSUME EditInv, GuiLoad
  PROVE  EditInv'
<1> DEFINE c == CASE file = Missing -> app_config
                  [] Loadable(file) -> load_config(file)
                  [] OTHER -> Add(app_config, Fresh("default"))
           filled == IF c.profiles = <<>> THEN Add(c, Fresh("default")) ELSE c
           mice == Scenes[scene].mice
           w == Window(filled, mice)
<1>1. /\ UNCHANGED <<scene, file, stamp, cli, left, pristine, theirs>> /\ win' = w /\ win.phase = "start"
      /\ FileTyped
  BY DEF GuiLoad, EditInv
<1>2. mice \subseteq Short \ {Unplugged}
  BY <1>1, EditAssumption DEF FileTyped
<1>3. IsConfig(c) /\ (pristine => Sound(c) \/ (c.profiles = <<>> /\ c.active = "default"))
  <2> DEFINE d == Add(app_config, Fresh("default"))
  <2>1. CASE file = Missing
    <3>1. c = app_config
      BY <2>1 DEF Loadable, Parsed
    <3> QED BY <3>1, AppConfigTyped
  <2>2. CASE file # Missing /\ Loadable(file)
    <3> HIDE DEF d
    <3>1. c = load_config(file)
      BY <2>2
    <3> QED BY <1>1, <2>2, <3>1, LoadedTyped
  <2>3. CASE file # Missing /\ ~Loadable(file)
    <3>1. IsConfig(d)
      BY AppConfigTyped, DefaultFilled
    <3> HIDE DEF d
    <3>2. c = d /\ ~pristine
      BY <1>1, <2>3 DEF d, FileTyped, FileSound
    <3> QED BY <3>1, <3>2
  <2> QED BY <2>1, <2>2, <2>3
<1> HIDE DEF c
<1>4. IsConfig(filled) /\ 1 \in DOMAIN filled.profiles /\ (pristine => Sound(filled))
  <2>1. CASE c.profiles = <<>>
    BY <1>3, <2>1, DefaultFilled
  <2>2. CASE c.profiles # <<>>
    <3>1. 1 \in DOMAIN c.profiles
      <4>1. IsSeq(c.profiles)
        BY <1>3 DEF IsConfig
      <4>2. c.profiles \in Seq(Range(c.profiles))
        BY <4>1 DEF IsSeq
      <4>3. Len(c.profiles) # 0 /\ Len(c.profiles) \in Nat /\ DOMAIN c.profiles = 1..Len(c.profiles)
        BY <2>2, <4>1, <4>2, SeqShape, EmptySeq
      <4> QED BY <4>3
    <3> QED BY <1>3, <2>2, <3>1
  <2> QED BY <2>1, <2>2
<1> HIDE DEF filled, mice
<1>5. IsWindow(w) /\ w.cfg = filled /\ w.phase = "stamp" /\ w.stamp = 0
  BY <1>2, <1>4, NewWindow
<1> HIDE DEF w
<1>6. theirs = {} /\ stamp \in Nat
  BY <1>1 DEF EditInv, TheirsKept, FileTyped
<1> QED BY <1>1, <1>4, <1>5, <1>6, WinMoves DEF Shows

LEMMA GuiStampKeeps ==
  ASSUME EditInv, GuiStamp
  PROVE  EditInv'
<1> DEFINE c == win.cfg
           at == IF c.active \in NamesOf(c) THEN IndexOf(c, c.active) ELSE 1
           u == [win EXCEPT !.cur = at]
           v == profile_to_widgets(u)
           t == IF file = Missing THEN 0 ELSE stamp
           w == [v EXCEPT !.stamp = t, !.phase = "idle"]
<1>1. /\ UNCHANGED <<scene, file, stamp, cli, left, pristine, theirs>> /\ win.phase = "stamp"
      /\ win' = [rebuild_profile_combo(u) EXCEPT !.stamp = t, !.phase = "idle"]
  BY DEF GuiStamp
<1>2. IsWindow(win) /\ (pristine => Sound(c)) /\ stamp \in Nat /\ theirs = {}
  BY <1>1 DEF EditInv, WinTyped, FileTyped, TheirsKept
<1>3. IsConfig(c) /\ 1 \in DOMAIN c.profiles
  BY <1>2, CurFacts DEF IsWindow
<1>4. at \in DOMAIN c.profiles
  <2> HIDE DEF c
  <2> QED BY <1>3, IndexFacts
<1> HIDE DEF at
<1>5. u = Moved(win, c, at)
  <2>1. win = [f \in WindowFields |-> win[f]]
    BY <1>2 DEF IsWindow
  <2> QED BY <2>1 DEF Moved, WindowFields
<1>6. IsWindow(u) /\ u.cfg = c
  <2> HIDE DEF c, u
  <2> QED BY <1>2, <1>3, <1>4, <1>5, MovedFacts
<1> HIDE DEF u
<1>7. rebuild_profile_combo(u) = v /\ IsWindow(v) /\ v.cfg = u.cfg /\ Honest(v)
  BY <1>6, Rebuilt, ProfileShown
<1> HIDE DEF v, t
<1>8. SameProfile(v, w) /\ w.stamp = t /\ w.phase = "idle"
  BY <1>7 DEF SameProfile, WindowFields, IsWindow
<1> HIDE DEF w
<1>9. IsWindow(w) /\ Honest(w) /\ w.cfg = c
  BY <1>6, <1>7, <1>8, StillHonest
<1>10. win' = w /\ w.stamp \in Nat /\ w.stamp <= stamp
  BY <1>1, <1>2, <1>7, <1>8 DEF t, w
<1> QED BY <1>1, <1>2, <1>8, <1>9, <1>10, WinMoves DEF Shows

\* A handler runs.
LEMMA HandleKeeps ==
  ASSUME EditInv, Ready, NEW w, Handle(w), Edited(win, w)
  PROVE  EditInv'
<1>1. UNCHANGED <<scene, file, stamp, cli, pristine, theirs>> /\ win' = w /\ win.phase = "idle"
  BY DEF Handle, Ready
<1>2. /\ IsWindow(win) /\ (pristine => Sound(win.cfg)) /\ win.stamp \in Nat /\ win.stamp <= stamp
  BY <1>1 DEF EditInv, WinTyped, Shows
<1>3. /\ IsWindow(w) /\ Honest(w) /\ (pristine => Sound(w.cfg)) /\ w.stamp = win.stamp
      /\ w.phase \in {"idle", "check"}
  BY <1>1, <1>2 DEF Edited
<1>4. file # Missing /\ (win.stamp = 0 \/ win.stamp = stamp) => stamp \notin theirs
  BY <1>1 DEF EditInv, TheirsKept
<1> QED BY <1>1, <1>2, <1>3, <1>4, WinMoves DEF Shows

Handlers ==
  \/ GuiParam \/ GuiSwitch \/ GuiLink \/ GuiRaw \/ GuiApply \/ GuiMice \/ GuiNew \/ GuiRename \/ GuiDelete
  \/ GuiDuplicate \/ GuiReset \/ GuiSaveAs \/ GuiImport \/ GuiLut

LEMMA HandlersKeep ==
  ASSUME EditInv, Handlers
  PROVE  EditInv' /\ Ready /\ UNCHANGED <<scene, file, stamp, cli, pristine, theirs>>
<1>1. Ready
  BY DEF Handlers, GuiParam, GuiSwitch, GuiLink, GuiRaw, GuiApply, GuiMice, GuiNew, GuiRename, GuiDelete,
         GuiDuplicate, GuiReset, GuiSaveAs, GuiImport, GuiLut
<1>2. IsWindow(win) /\ Honest(win) /\ scene \in DOMAIN Scenes
  BY <1>1 DEF EditInv, WinTyped, FileTyped, Shows, Ready
<1> DEFINE sc == Scenes[scene]
<1>3. /\ \A n \in sc.names : n \in Short /\ (n # "" => IsPreset("fast", n) /\ make_preset("fast", n).name = n)
      /\ \A e \in sc.params \cup sc.yparams : IsInput(e[1], e[2])
      /\ \A e \in sc.yparams : e[1] \in AxisKeys
      /\ \A j \in sc.imports : IsProfileJson(j)
      /\ sc.mice \subseteq Short \ {Unplugged}
  BY <1>2, EditAssumption
<1>4. \E w : Handle(w) /\ Edited(win, w)
  <2>1. CASE GuiParam
    <3>1. CASE \E e \in sc.params : Handle(on_param_changed(win, e[1], e[2]))
      BY <1>2, <1>3, <3>1, ParamKeeps
    <3>2. CASE \E e \in sc.yparams : Handle(on_y_param_changed(win, e[1], e[2]))
      BY <1>2, <1>3, <3>2, YParamKeeps
    <3> QED BY <2>1, <3>1, <3>2 DEF GuiParam
  <2>2. CASE GuiSwitch
    BY <1>2, <2>2, SwitchKeeps DEF GuiSwitch
  <2>3. CASE GuiLink
    <3>1. (~win.linked) \in BOOLEAN
      <4>1. CASE win.linked
        <5>1. (~win.linked) = FALSE
          BY <4>1
        <5> QED BY <5>1
      <4>2. CASE ~win.linked
        <5>1. (~win.linked) = TRUE
          BY <4>2
        <5> QED BY <5>1
      <4> QED BY <4>1, <4>2
    <3>2. PICK ok \in BOOLEAN : Handle(on_xy_link_toggled(win, ~win.linked, ok))
      BY <2>3 DEF GuiLink
    <3> DEFINE on == ~win.linked
    <3> HIDE DEF on
    <3>3. Edited(win, on_xy_link_toggled(win, on, ok))
      BY <1>2, <3>1, LinkedKeeps DEF on
    <3> QED BY <3>2, <3>3 DEF on
  <2>4. CASE GuiRaw
    <3>1. win.cfg.raw \in {0, 1}
      BY <1>2 DEF IsWindow, IsConfig
    <3> DEFINE on == 1 - win.cfg.raw
    <3>2. on \in {0, 1}
      BY <3>1
    <3>3. Handle(on_raw_input_toggled(win, on))
      BY <2>4 DEF GuiRaw
    <3> HIDE DEF on
    <3> QED BY <1>2, <3>2, <3>3, RawKeeps
  <2>5. CASE GuiApply
    BY <1>2, <2>5, ApplyKeeps DEF GuiApply
  <2>6. CASE GuiMice
    <3>1. PICK mice \in SUBSET sc.mice : Handle(refresh_mice_combo(win, mice))
      BY <2>6 DEF GuiMice
    <3>2. mice \subseteq Short \ {Unplugged}
      BY <1>3, <3>1
    <3> QED BY <1>2, <3>1, <3>2, MiceKeep
  <2>7. CASE GuiNew
    <3>1. PICK n \in sc.names, preset \in {"", "fast"} : Handle(on_new_profile(win, n, preset))
      BY <2>7 DEF GuiNew
    <3>2. Edited(win, on_new_profile(win, n, preset))
      BY <1>2, <1>3, NewKeeps
    <3> QED BY <3>1, <3>2
  <2>8. CASE GuiRename
    BY <1>2, <1>3, <2>8, GuiRenameKeeps DEF GuiRename
  <2>9. CASE GuiDelete
    BY <1>2, <2>9, GuiDeleteKeeps DEF GuiDelete
  <2>10. CASE GuiDuplicate
    BY <1>2, <2>10, DuplicateProfileKeeps DEF GuiDuplicate
  <2>11. CASE GuiReset
    BY <1>2, <2>11, ResetKeeps DEF GuiReset
  <2>12. CASE GuiSaveAs
    BY <1>2, <1>3, <2>12, SaveAsKeeps DEF GuiSaveAs
  <2>13. CASE GuiImport
    BY <1>2, <1>3, <2>13, GuiImportKeeps DEF GuiImport
  <2>14. CASE GuiLut
    <3>1. /\ Edited(win, [win EXCEPT !.lut = IF @ = "x" THEN "y" ELSE "x"])
          /\ Edited(win, on_lut_add_point(win))
          /\ \A x, y \in Int : Edited(win, AddPointAt(win, x, y))
          /\ \A i \in DOMAIN lut_args(win).lut : Edited(win, on_lut_row_delete(win, i))
          /\ \A i \in DOMAIN lut_args(win).lut : \A x, y \in Int : Edited(win, lut_list_changed(win, i, x, y))
      BY <1>2, LutKeeps
    <3> DEFINE other == [win EXCEPT !.lut = IF @ = "x" THEN "y" ELSE "x"]
               rows == DOMAIN lut_args(win).lut
    <3>2. \/ Handle(other)
          \/ Handle(on_lut_add_point(win))
          \/ \E x \in {0, 3} : Handle(AddPointAt(win, x, 2))
          \/ \E i \in rows : Handle(on_lut_row_delete(win, i))
          \/ \E i \in rows : Handle(lut_list_changed(win, i, 5, 1))
      BY <2>14 DEF GuiLut
    <3>3. {0, 3} \subseteq Int /\ 2 \in Int /\ 5 \in Int /\ 1 \in Int
      OBVIOUS
    <3> HIDE DEF other, rows
    <3>4. Edited(win, other)
      BY <3>1 DEF other
    <3>5. \A i \in rows : Edited(win, on_lut_row_delete(win, i)) /\ \A x, y \in Int : Edited(win, lut_list_changed(win, i, x, y))
      BY <3>1 DEF rows
    <3> QED BY <3>1, <3>2, <3>3, <3>4, <3>5
  <2> QED BY <2>1, <2>2, <2>3, <2>4, <2>5, <2>6, <2>7, <2>8, <2>9, <2>10, <2>11, <2>12, <2>13, <2>14 DEF Handlers
<1>5. PICK w : Handle(w) /\ Edited(win, w)
  BY <1>4
<1> QED BY <1>1, <1>5, HandleKeeps DEF Handle

\* The save goes on only if the file has the time the window knows.
LEMMA GuiCheckKeeps ==
  ASSUME EditInv, GuiCheck
  PROVE  EditInv'
<1> DEFINE changed == win.stamp # 0 /\ file # Missing /\ stamp # win.stamp
           w == [win EXCEPT !.phase = IF changed THEN "idle" ELSE "write"]
<1>1. UNCHANGED <<scene, file, stamp, cli, pristine, theirs>> /\ win' = w /\ win.phase = "check"
  BY DEF GuiCheck
<1>2. /\ IsWindow(win) /\ Honest(win) /\ (pristine => Sound(win.cfg)) /\ win.stamp \in Nat /\ win.stamp <= stamp
      /\ stamp \in Nat \ {0}
      /\ file # Missing /\ (win.stamp = 0 \/ win.stamp = stamp) => stamp \notin theirs
  BY <1>1 DEF EditInv, WinTyped, FileTyped, TheirsKept, Shows
<1>3. SameProfile(win, w) /\ w.stamp = win.stamp /\ w.phase = IF changed THEN "idle" ELSE "write"
  BY <1>2 DEF SameProfile, WindowFields, IsWindow
<1> HIDE DEF w
<1>4. IsWindow(w) /\ Honest(w) /\ w.cfg = win.cfg
  BY <1>2, <1>3, StillHonest
<1>5. w.phase \in {"idle", "write"} /\ (file # Missing /\ (w.phase = "idle" => w.stamp = 0 \/ w.stamp = stamp) => stamp \notin theirs)
  BY <1>2, <1>3
<1> QED BY <1>1, <1>2, <1>3, <1>4, <1>5, WinMoves DEF Shows

\* The whole file is written, or the save fails.
LEMMA GuiWriteKeeps ==
  ASSUME MarksAreMarks, EditInv, GuiWrite
  PROVE  EditInv'
<1>1. /\ UNCHANGED <<scene, cli, pristine, theirs>> /\ win.phase = "write"
      /\ IsWindow(win) /\ Honest(win) /\ (pristine => Sound(win.cfg)) /\ win.stamp \in Nat /\ win.stamp <= stamp
      /\ stamp \in Nat \ {0} /\ theirs \subseteq 1..stamp /\ pristine \in BOOLEAN /\ scene \in DOMAIN Scenes
      /\ file # Missing => stamp \notin theirs
  BY DEF GuiWrite, EditInv, WinTyped, FileTyped, TheirsKept, Shows
<1> DEFINE c == win.cfg
           f == save_config(c)
<1>2. CASE Len(c.profiles) <= MAX_PROFILES_FILE /\ file' = f /\ stamp' = stamp + 1 /\ win' = [win EXCEPT !.phase = "restamp"]
  <2> DEFINE w == [win EXCEPT !.phase = "restamp"]
  <2>1. SameProfile(win, w) /\ w.stamp = win.stamp /\ w.phase = "restamp" /\ win' = w
    BY <1>1, <1>2 DEF SameProfile, WindowFields, IsWindow
  <2> HIDE DEF w
  <2>2. IsWindow(w) /\ Honest(w) /\ w.cfg = c
    BY <1>1, <2>1, StillHonest
  <2>3. IsConfig(c)
    BY <1>1 DEF IsWindow
  <2> HIDE DEF c
  <2>4. IsFile(f) /\ Loadable(f) /\ (Sound(c) => Sound(load_config(f)))
    BY <1>2, <2>3, ReadBack
  <2> HIDE DEF f
  <2>5. FileTyped'
    BY <1>1, <1>2, <2>4 DEF FileTyped, FileSound, c
  <2>6. \A d : CliFresh(d, file, stamp) => CliFresh(d, file', stamp')
    BY <1>1, <1>2 DEF CliFresh
  <2>7. \A d : CliTyped(d, scene, pristine) => CliTyped(d, scene', pristine')
    BY <1>1 DEF CliTyped
  <2>8. ClisTyped'
    BY <1>1, <2>6, <2>7, SameClis DEF EditInv
  <2>9. WinTyped'
    <3>1. w.stamp \in Nat /\ w.stamp <= stamp' /\ (pristine' => Sound(w.cfg))
      BY <1>1, <1>2, <2>1, <2>2 DEF c
    <3> QED BY <2>1, <2>2, <3>1 DEF WinTyped, Shows
  <2>10. TheirsKept'
    <3>1. theirs' \subseteq 1..stamp' /\ stamp' \notin theirs'
      BY <1>1, <1>2
    <3>2. win'.phase = "restamp"
      BY <2>1
    <3> QED BY <3>1, <3>2 DEF TheirsKept
  <2> QED BY <2>5, <2>8, <2>9, <2>10 DEF EditInv
<1>3. CASE win' = [win EXCEPT !.phase = "idle"] /\ UNCHANGED <<file, stamp>>
  <2> DEFINE w == [win EXCEPT !.phase = "idle"]
  <2>1. SameProfile(win, w) /\ w.stamp = win.stamp /\ w.phase = "idle" /\ win' = w
    BY <1>1, <1>3 DEF SameProfile, WindowFields, IsWindow
  <2> HIDE DEF w
  <2>2. IsWindow(w) /\ Honest(w) /\ w.cfg = win.cfg
    BY <1>1, <2>1, StillHonest
  <2> QED BY <1>1, <1>3, <2>1, <2>2, WinMoves DEF Shows
<1> QED BY <1>2, <1>3 DEF GuiWrite

\* The window takes the file's time, whoever saved it: what is there now was
\* written by the window, or by somebody else after it.
LEMMA GuiRestampKeeps ==
  ASSUME EditInv, GuiRestamp
  PROVE  EditInv'
<1> DEFINE t == IF file = Missing THEN 0 ELSE stamp
           w == [win EXCEPT !.phase = "idle", !.unsaved = FALSE, !.stamp = t]
<1>1. /\ UNCHANGED <<scene, file, stamp, cli, pristine, theirs>> /\ win' = w /\ win.phase = "restamp"
      /\ IsWindow(win) /\ Honest(win) /\ (pristine => Sound(win.cfg)) /\ stamp \in Nat \ {0} /\ stamp \notin theirs
  BY DEF GuiRestamp, EditInv, WinTyped, FileTyped, TheirsKept, Shows
<1>2. t \in Nat /\ t <= stamp
  BY <1>1
<1> HIDE DEF t
<1>3. SameProfile(win, w) /\ w.stamp = t /\ w.phase = "idle"
  BY <1>1 DEF SameProfile, WindowFields, IsWindow
<1> HIDE DEF w
<1>4. IsWindow(w) /\ Honest(w) /\ w.cfg = win.cfg
  BY <1>1, <1>3, StillHonest
<1> QED BY <1>1, <1>2, <1>3, <1>4, WinMoves DEF Shows

LEMMA EditInit_ ==
  ASSUME EditInit
  PROVE  EditInv
<1>1. /\ scene \in DOMAIN Scenes /\ file \in Scenes[scene].files /\ stamp = 1 /\ cli = [p \in Clis |-> IdleCli]
      /\ win.phase \in {"off", "start"} /\ theirs = {}
      /\ pristine = (file = Missing \/ (Loadable(file) /\ Sound(load_config(file))))
  BY DEF EditInit, NoWindow
<1>2. FileTyped
  <2>1. IsFile(file)
    BY <1>1, EditAssumption
  <2>2. pristine \in BOOLEAN /\ (pristine => FileSound(file))
    BY <1>1 DEF FileSound
  <2> QED BY <1>1, <2>1, <2>2 DEF FileTyped
<1>3. ClisTyped
  <2>1. CliTyped(IdleCli, scene, pristine) /\ CliFresh(IdleCli, file, stamp)
    BY DEF IdleCli, CliTyped, CliFresh, CliFields
  <2> QED BY <1>1, <2>1 DEF ClisTyped
<1>4. WinTyped /\ TheirsKept
  BY <1>1 DEF WinTyped, TheirsKept, Shows
<1> QED BY <1>2, <1>3, <1>4 DEF EditInv

LEMMA EditStep ==
  ASSUME MarksAreMarks, EditInv, [EditNext]_editVars
  PROVE  EditInv'
<1>1. ASSUME NEW p \in Clis, CliStart(p) \/ CliLook(p) \/ CliSeed(p) \/ CliRun(p) \/ CliCompare(p)
      PROVE  EditInv'
  BY <1>1, RunsKeep
<1>2. CASE Handlers
  BY <1>2, HandlersKeep
<1>3. CASE GuiLoad \/ GuiStamp \/ GuiCheck \/ GuiWrite \/ GuiRestamp
  BY <1>3, GuiLoadKeeps, GuiStampKeeps, GuiCheckKeeps, GuiWriteKeeps, GuiRestampKeeps
<1>4. CASE HandEdit
  BY <1>4, HandKeeps
<1>5. CASE UNCHANGED editVars
  BY <1>5 DEF editVars, EditInv, FileTyped, ClisTyped, WinTyped, TheirsKept
<1> QED BY <1>1, <1>2, <1>3, <1>4, <1>5 DEF EditNext, Handlers

-----------------------------------------------------------------------------
(* Theorems.  That a function is none of the marks is their hypothesis: TLA+ *)
(* says of no value that is a model value that it is not a function.         *)

\* A run holds a config as the program holds one, the window is true to its
\* profile, and the file is one the program can read.
THEOREM EditsAreTyped ==
  ASSUME MarksAreMarks
  PROVE  EditSpec => []EditInv
<1>1. EditInit => EditInv
  BY EditInit_
<1>2. EditInv /\ [EditNext]_editVars => EditInv'
  BY EditStep
<1> QED BY <1>1, <1>2, PTL DEF EditSpec

\* Whoever edits, in whatever order, through any command or any handler: the
\* file loads, its names differ and its active profile is one of them.
THEOREM SavesAreSound ==
  ASSUME MarksAreMarks
  PROVE  EditSpec => []SavedIsSound
<1>1. EditInv => SavedIsSound
  BY DEF EditInv, FileTyped, FileSound, SavedIsSound
<1> QED BY <1>1, EditsAreTyped, PTL

\* The window writes over no save of another that came while it was idle: an
\* idle window knows an older time than that save, and looks before it writes.
THEOREM OthersAreNotOverwritten ==
  ASSUME MarksAreMarks
  PROVE  EditSpec => GuiKeepsOthers
<1>1. EditInv /\ [EditNext]_editVars
        => [win.phase = "write" /\ win'.phase = "restamp" /\ file # Missing => stamp \notin theirs]_editVars
  BY DEF EditInv, TheirsKept
<1> QED BY <1>1, EditsAreTyped, PTL DEF EditSpec, GuiKeepsOthers

\* A window that is true to its profile stores that profile.
LEMMA HonestStores ==
  ASSUME NEW w, IsWindow(w), Honest(w), NEW q, WrittenBack(w, q)
  PROVE  LET dp == Cur(w)
         IN  /\ [q EXCEPT !.x = dp.x, !.y = dp.y, !.norm = dp.norm, !.app = dp.app] = dp
             /\ q.x = AxisShown(dp.x)
             /\ \A f \in {"mode", "acc", "off", "capy"} : q.y[f] = AxisShown(dp.y)[f]
             /\ q.y.lut = dp.y.lut \/ dp.y.lut = <<>>
             /\ IF dp.whole = 1 /\ dp.norm >= MAX_NORM THEN q.norm >= MAX_NORM
                ELSE q.norm = dp.norm \/ (dp.whole = 1 /\ q.norm = NormShown(dp.norm))
             /\ q.app \in {dp.app, Cut[Trim[dp.app]]}
<1> DEFINE s == w.shown
           dp == Cur(w)
           x == KeyPut(s.x, "lut", dp.x.lut)
<1>1. /\ IsProfile(dp) /\ Numeric(dp) /\ IsArgs(dp.x) /\ IsArgs(dp.y)
      /\ dp.smin \in Int /\ dp.smax \in Int /\ dp.norm \in Int /\ (dp.smax > 0 => dp.smax >= dp.smin)
      /\ dp = [f \in ProfileFields |-> dp[f]]
  BY CurFacts, NumericIs DEF Numeric, ProfileNumbers
<1>2. IsArgs(s.x) /\ IsArgs(s.y) /\ w.dist \in Distances
  BY DEF IsWindow, IsWidgets, Numeric
<1>3. /\ w.linked => dp.x = dp.y
      /\ XShown(dp, s) /\ (~w.linked => YShown(dp, s)) /\ RestShown(dp, s)
      /\ DistanceShown(dp, w) /\ BoundTo(w) = dp.id
  BY DEF Honest
<1>4. /\ IsArgs(AxisShown(dp.x)) /\ AxisShown(dp.x).lut = dp.x.lut
      /\ IsArgs(AxisShown(dp.y)) /\ AxisShown(dp.y).lut = dp.y.lut
  <2>1. IsArgs(dp.x) /\ IsArgs(dp.y) /\ "lut" \in ArgsFields \ {"acc", "gamma"}
    BY <1>1 DEF ArgsFields
  <2> HIDE DEF dp
  <2> QED BY <2>1, AccShown
<1>5. /\ q = [f \in ProfileFields |-> q[f]] /\ q.x = x /\ q.y = YAxis(w, x)
      /\ \A f \in {"raw", "rot", "smin", "odpi", "weight", "dpi"} : q[f] = s[f]
      /\ q.smax = (IF s.smax > 0 /\ s.smax < s.smin THEN s.smin ELSE s.smax)
      /\ q.id = BoundTo(w) /\ q.app = Cut[Trim[s.app]] /\ q.name = dp.name /\ q.disable = dp.disable
      /\ q.whole = (IF w.dist = "separate" THEN 0 ELSE 1)
      /\ q.norm = (CASE w.dist = "separate" -> dp.norm
                     [] w.dist = "max" -> NORM_OF_MAX
                     [] w.dist = "lp" -> w.lp
                     [] w.dist = "euclidean" -> EUCLIDEAN)
  BY DEF WrittenBack
<1>6. dp.y.lut = Cur(w).y.lut
  OBVIOUS
<1> HIDE DEF s, dp, x
<1>7. x = AxisShown(dp.x)
  <2>1. IsArgs(x) /\ x.lut = dp.x.lut /\ \A f \in ArgsFields \ {"lut"} : x[f] = s.x[f]
    <3>1. IsCurve(dp.x.lut)
      BY <1>1 DEF IsArgs
    <3> QED BY <1>2, <3>1, LutSet DEF x
  <2> DEFINE b == AxisShown(dp.x)
  <2> HIDE DEF b
  <2>2. IsArgs(b) /\ b.lut = dp.x.lut /\ \A f \in ArgsFields \ {"lut"} : s.x[f] = b[f]
    BY <1>3, <1>4 DEF XShown, b
  <2>3. \A f \in ArgsFields : x[f] = b[f]
    BY <2>1, <2>2
  <2>4. x = [f \in ArgsFields |-> x[f]] /\ b = [f \in ArgsFields |-> b[f]]
    BY <2>1, <2>2, FieldsAre DEF IsArgs
  <2>5. x = b
    BY ONLY <2>3, <2>4
  <2> QED BY <2>5 DEF b
<1>8. /\ \A f \in {"mode", "acc", "off", "capy"} : q.y[f] = AxisShown(dp.y)[f]
      /\ q.y.lut = dp.y.lut \/ dp.y.lut = <<>>
  <2>1. /\ IsArgs(YAxis(w, x)) /\ (w.linked => YAxis(w, x) = x)
        /\ ~w.linked => /\ \A f \in {"mode", "acc", "off", "capy"} : YAxis(w, x)[f] = w.shown.y[f]
                        /\ YAxis(w, x).lut = IF Cur(w).y.lut = <<>> THEN x.lut ELSE Cur(w).y.lut
    BY <1>4, <1>7, YAxisFacts
  <2>2. CASE w.linked
    BY <1>3, <1>4, <1>5, <1>7, <2>1, <2>2
  <2>3. CASE ~w.linked
    <3>1. \A f \in {"mode", "acc", "off", "capy"} : w.shown.y[f] = AxisShown(dp.y)[f]
      BY <1>3, <2>3 DEF YShown, s
    <3>2. q.y = YAxis(w, x)
      BY <1>5
    <3> QED BY <1>6, <2>1, <2>3, <3>1, <3>2
  <2> QED BY <2>2, <2>3
<1>9. IF dp.whole = 1 /\ dp.norm >= MAX_NORM THEN q.norm >= MAX_NORM
      ELSE q.norm = dp.norm \/ (dp.whole = 1 /\ q.norm = NormShown(dp.norm))
  <2> DEFINE shown == NormShown(dp.norm)
  <2> HIDE DEF shown
  <2>1. /\ dp.whole = (IF w.dist = "separate" THEN 0 ELSE 1)
        /\ w.dist = "max" => dp.norm >= MAX_NORM
        /\ w.dist = "lp" => w.lp \in {dp.norm, shown} /\ dp.norm < MAX_NORM
        /\ w.dist = "euclidean" => dp.norm = EUCLIDEAN
    BY <1>3 DEF DistanceShown, shown
  <2>2. IF dp.whole = 1 /\ dp.norm >= MAX_NORM THEN q.norm >= MAX_NORM
        ELSE q.norm = dp.norm \/ (dp.whole = 1 /\ q.norm = shown)
    <3>1. CASE w.dist = "separate"
      BY <1>5, <2>1, <3>1
    <3>2. CASE w.dist = "max"
      BY <1>5, <2>1, <3>2 DEF NORM_OF_MAX, MAX_NORM
    <3>3. CASE w.dist = "lp"
      BY <1>1, <1>5, <2>1, <3>3 DEF MAX_NORM
    <3>4. CASE w.dist = "euclidean"
      BY <1>5, <2>1, <3>4 DEF EUCLIDEAN, MAX_NORM
    <3> QED BY <1>2, <3>1, <3>2, <3>3, <3>4 DEF Distances
  <2> QED BY <2>2 DEF shown
<1>10. \A f \in ProfileFields \ {"x", "y", "norm", "app"} : q[f] = dp[f]
  <2>1. q.name = dp.name /\ q.disable = dp.disable /\ q.id = dp.id
    BY <1>3, <1>5
  <2>2. \A f \in {"raw", "rot", "smin", "odpi", "weight", "dpi"} : q[f] = dp[f]
    BY <1>3, <1>5 DEF RestShown
  <2>3. q.smax = dp.smax
    BY <1>1, <1>3, <1>5 DEF RestShown
  <2>4. q.whole = dp.whole
    BY <1>3, <1>5 DEF DistanceShown
  <2> QED BY <2>1, <2>2, <2>3, <2>4 DEF ProfileFields
<1>11. [q EXCEPT !.x = dp.x, !.y = dp.y, !.norm = dp.norm, !.app = dp.app] = dp
  <2> DEFINE r == [q EXCEPT !.x = dp.x, !.y = dp.y, !.norm = dp.norm, !.app = dp.app]
  <2>1. r = [f \in ProfileFields |-> r[f]] /\ r.x = dp.x /\ r.y = dp.y /\ r.norm = dp.norm /\ r.app = dp.app
        /\ \A f \in ProfileFields \ {"x", "y", "norm", "app"} : r[f] = q[f]
    BY <1>5 DEF ProfileFields
  <2> HIDE DEF r
  <2>2. \A f \in ProfileFields : r[f] = dp[f]
    BY <1>10, <2>1
  <2>3. r = dp
    BY <1>1, <2>1, <2>2
  <2> QED BY <2>3 DEF r
<1>12. q.app \in {dp.app, Cut[Trim[dp.app]]}
  BY <1>3, <1>5 DEF RestShown
<1>13. q.x = AxisShown(dp.x)
  BY <1>5, <1>7
<1> QED BY <1>8, <1>9, <1>11, <1>12, <1>13 DEF dp

\* Between two handlers Apply changes nothing but what no widget can show,
\* whatever was clicked before: each handler that moves to a profile, or writes
\* one, leaves the widgets saying it.
THEOREM WindowStaysHonest ==
  ASSUME MarksAreMarks
  PROVE  EditSpec => []WindowIsHonest
<1>1. EditInv => WindowIsHonest
  <2> SUFFICES ASSUME EditInv, win.phase = "idle"
               PROVE  LET dp == Cur(win)
                          back == Cur(widgets_to_profile(win))
                      IN  /\ win.linked => dp.x = dp.y
                          /\ [back EXCEPT !.x = dp.x, !.y = dp.y, !.norm = dp.norm, !.app = dp.app] = dp
                          /\ back.x = AxisShown(dp.x)
                          /\ \A f \in {"mode", "acc", "off", "capy"} : back.y[f] = AxisShown(dp.y)[f]
                          /\ back.y.lut = dp.y.lut \/ dp.y.lut = <<>>
                          /\ IF dp.whole = 1 /\ dp.norm >= MAX_NORM THEN back.norm >= MAX_NORM
                             ELSE back.norm = dp.norm \/ (dp.whole = 1 /\ back.norm = NormShown(dp.norm))
                          /\ back.app \in {dp.app, Cut[Trim[dp.app]]}
    BY DEF WindowIsHonest
  <2> DEFINE dp == Cur(win)
             back == Cur(widgets_to_profile(win))
  <2>1. IsWindow(win) /\ Honest(win)
    BY DEF EditInv, WinTyped, Shows
  <2>2. WrittenBack(win, back)
    BY <2>1, WidgetsStored
  <2>3. win.linked => dp.x = dp.y
    BY <2>1 DEF Honest
  <2> HIDE DEF back
  <2>4. /\ [back EXCEPT !.x = dp.x, !.y = dp.y, !.norm = dp.norm, !.app = dp.app] = dp
        /\ back.x = AxisShown(dp.x)
        /\ \A f \in {"mode", "acc", "off", "capy"} : back.y[f] = AxisShown(dp.y)[f]
        /\ back.y.lut = dp.y.lut \/ dp.y.lut = <<>>
        /\ IF dp.whole = 1 /\ dp.norm >= MAX_NORM THEN back.norm >= MAX_NORM
           ELSE back.norm = dp.norm \/ (dp.whole = 1 /\ back.norm = NormShown(dp.norm))
        /\ back.app \in {dp.app, Cut[Trim[dp.app]]}
    BY <2>1, <2>2, HonestStores
  <2> QED BY <2>3, <2>4 DEF back
<1> QED BY <1>1, EditsAreTyped, PTL

-----------------------------------------------------------------------------
(* A parameter that is set stays as it was set *)

\* What sanitising makes of each field, when all of them are numbers.
LEMMA ArgsSanitisedTo ==
  ASSUME NEW a, IsArgs(a)
  PROVE  LET s == sanitize_accel_args(a)
         IN  /\ s.acc = Least(a.acc, ACCEL_MAX)
             /\ s.off = Least(Most(a.off, 0), CAP_X_MAX)
             /\ s.capx = Least(IF a.mode = "classic" /\ a.capmode \in {"io", "in"}
                               THEN Most(Most(a.capx, 0), Most(a.off, 0)) ELSE Most(a.capx, 0), CAP_X_MAX)
             /\ s.capy = Clamp(IF a.acc < 0 /\ a.capy > 0 THEN 0 ELSE a.capy, 0, CAP_Y_MAX)
             /\ s.decay = Least(IF a.mode = "natural" /\ a.decay > 0 THEN Most(a.decay, NATURAL_DECAY_RATE_MIN)
                                ELSE Most(a.decay, 0), DECAY_RATE_MAX)
             /\ s.gamma = Clamp(a.gamma, 0, GAMMA_MAX)
             /\ s.scale = Clamp(a.scale, SCALE_MIN, SCALE_MAX)
<1>1. a = [f \in ArgsFields |-> a[f]] /\ a.capx \in Int /\ a.capy \in Int
  BY FieldsAre DEF IsArgs, ArgsNumbers
<1>2. finite_or(a.capx, 0) = a.capx /\ finite_or(a.capy, 0) = a.capy
  BY <1>1, IntIsNoMark DEF finite_or
<1> QED BY <1>1, <1>2 DEF sanitize_accel_args, ArgsFields

LEMMA ProfileSanitisedTo ==
  ASSUME NEW p, Numeric(p)
  PROVE  LET s == sanitize_device_profile(p)
         IN  /\ s.rot = p.rot % CIRCLE /\ s.odpi = OutputDpi(p.odpi) /\ s.dpi = Clamp(p.dpi, 1, DPI_MAX)
             /\ s.smin = SpeedLimits(Most(p.smin, 0), Most(p.smax, 0))[1]
             /\ s.smax = SpeedLimits(Most(p.smin, 0), Most(p.smax, 0))[2]
             /\ s.norm = (IF p.norm <= 0 THEN EUCLIDEAN ELSE p.norm)
             /\ s.weight = Clamp(p.weight, 0, WEIGHT_MAX)
<1>1. /\ p = [f \in ProfileFields |-> p[f]] /\ p.rot \in Int /\ p.odpi \in Int /\ p.smin \in Int /\ p.smax \in Int
      /\ p.norm \in Int /\ p.weight \in Int
  BY DEF Numeric, ProfileNumbers
<1>2. /\ finite_or(p.rot, 0) = p.rot /\ finite_or(p.odpi, device_profile.odpi) = p.odpi
      /\ finite_or(p.smin, 0) = p.smin /\ finite_or(p.smax, 0) = p.smax
      /\ finite_or(p.norm, EUCLIDEAN) = p.norm /\ finite_or(p.weight, 1) = p.weight
  BY <1>1, IntIsNoMark DEF finite_or
<1> DEFINE smin == Most(p.smin, 0)
           smax == Most(p.smax, 0)
           speed == SpeedLimits(smin, smax)
           s == sanitize_device_profile(p)
<1>3. s = [[p EXCEPT !.rot = p.rot % CIRCLE, !.odpi = OutputDpi(p.odpi), !.smin = speed[1], !.smax = speed[2],
                     !.norm = IF p.norm <= 0 THEN EUCLIDEAN ELSE p.norm,
                     !.weight = Clamp(p.weight, 0, WEIGHT_MAX),
                     !.x = sanitize_accel_args(@), !.y = sanitize_accel_args(@)]
           EXCEPT !.dpi = Clamp(@, 1, DPI_MAX)]
  BY <1>2 DEF sanitize_device_profile, sanitize_profile
<1> HIDE DEF speed, s
<1>4. /\ s.rot = p.rot % CIRCLE /\ s.odpi = OutputDpi(p.odpi) /\ s.dpi = Clamp(p.dpi, 1, DPI_MAX)
      /\ s.smin = speed[1] /\ s.smax = speed[2]
      /\ s.norm = (IF p.norm <= 0 THEN EUCLIDEAN ELSE p.norm)
      /\ s.weight = Clamp(p.weight, 0, WEIGHT_MAX)
  BY <1>1, <1>3 DEF ProfileFields
<1> QED BY <1>4 DEF s, speed

\* An axis holds v under the key, and nothing in it makes sanitising change that.
ArgHolds(a, key, v) ==
  /\ a[key] = v \/ (key = "capy" /\ a.acc < 0 /\ a.capy = 0)
  /\ key = "gain" => v \in {0, 1}
  /\ key = "acc" => v <= ACCEL_MAX
  /\ key = "off" => v \in 0..CAP_X_MAX
  /\ key = "capx" => v \in 0..CAP_X_MAX /\ v >= a.off
  /\ key = "capy" => v \in 0..CAP_Y_MAX
  /\ key = "decay" => v = 0 \/ v \in NATURAL_DECAY_RATE_MIN..DECAY_RATE_MAX
  /\ key = "gamma" => v \in 0..GAMMA_MAX
  /\ key = "scale" => v \in SCALE_MIN..SCALE_MAX

LEMMA ArgHeld ==
  ASSUME NEW a, IsArgs(a), NEW key \in AxisKeys, NEW v, ArgHolds(a, key, v)
  PROVE  ArgHolds(sanitize_accel_args(a), key, v)
<1> DEFINE s == sanitize_accel_args(a)
<1>1. /\ a.acc \in Int /\ a.off \in Int /\ a.capx \in Int /\ a.capy \in Int /\ a.decay \in Int
      /\ a.gamma \in Int /\ a.scale \in Int
  BY DEF IsArgs, ArgsNumbers
<1>2. s.mode = a.mode /\ s.gain = a.gain /\ s.capmode = a.capmode
  BY LoadedIsRead, ArgsSanitised
<1>3. /\ s.acc = Least(a.acc, ACCEL_MAX)
      /\ s.off = Least(Most(a.off, 0), CAP_X_MAX)
      /\ s.capx = Least(IF a.mode = "classic" /\ a.capmode \in {"io", "in"}
                        THEN Most(Most(a.capx, 0), Most(a.off, 0)) ELSE Most(a.capx, 0), CAP_X_MAX)
      /\ s.capy = Clamp(IF a.acc < 0 /\ a.capy > 0 THEN 0 ELSE a.capy, 0, CAP_Y_MAX)
      /\ s.decay = Least(IF a.mode = "natural" /\ a.decay > 0 THEN Most(a.decay, NATURAL_DECAY_RATE_MIN)
                         ELSE Most(a.decay, 0), DECAY_RATE_MAX)
      /\ s.gamma = Clamp(a.gamma, 0, GAMMA_MAX)
      /\ s.scale = Clamp(a.scale, SCALE_MIN, SCALE_MAX)
  BY ArgsSanitisedTo
<1> HIDE DEF s
<1>4. CASE key \in {"mode", "gain", "capmode"}
  <2>1. a[key] = v /\ s[key] = a[key] /\ (key = "gain" => v \in {0, 1})
    BY <1>2, <1>4 DEF ArgHolds
  <2> QED BY <1>4, <2>1 DEF ArgHolds, s
<1>5. CASE key = "acc"
  <2>1. v <= ACCEL_MAX /\ a.acc = v
    BY <1>5 DEF ArgHolds
  <2>2. s.acc = v
    BY <1>1, <1>3, <2>1 DEF Least, ACCEL_MAX
  <2> QED BY <1>5, <2>1, <2>2 DEF ArgHolds, s
<1>6. CASE key = "off"
  <2>1. v \in 0..CAP_X_MAX /\ a.off = v
    BY <1>6 DEF ArgHolds
  <2>2. s.off = v
    BY <1>1, <1>3, <2>1 DEF Least, Most, CAP_X_MAX
  <2> QED BY <1>6, <2>1, <2>2 DEF ArgHolds, s
<1>7. CASE key = "capx"
  <2>1. v \in 0..CAP_X_MAX /\ v >= a.off /\ a.capx = v
    BY <1>7 DEF ArgHolds
  <2>2. s.capx = v /\ v >= s.off
    BY <1>1, <1>3, <2>1 DEF Least, Most, CAP_X_MAX
  <2> QED BY <1>7, <2>1, <2>2 DEF ArgHolds, s
<1>8. CASE key = "capy"
  <2>1. v \in 0..CAP_Y_MAX /\ (a.capy = v \/ (a.acc < 0 /\ a.capy = 0))
    BY <1>8 DEF ArgHolds
  <2>2. s.capy = v \/ (s.acc < 0 /\ s.capy = 0)
    BY <1>1, <1>3, <2>1 DEF Least, Most, Clamp, CAP_Y_MAX, ACCEL_MAX
  <2> QED BY <1>8, <2>1, <2>2 DEF ArgHolds, s
<1>9. CASE key = "decay"
  <2>1. (v = 0 \/ v \in NATURAL_DECAY_RATE_MIN..DECAY_RATE_MAX) /\ a.decay = v
    BY <1>9 DEF ArgHolds
  <2>2. s.decay = v
    BY <1>1, <1>3, <2>1 DEF Least, Most, DECAY_RATE_MAX, NATURAL_DECAY_RATE_MIN
  <2> QED BY <1>9, <2>1, <2>2 DEF ArgHolds, s
<1>10. CASE key = "scale"
  <2>1. v \in SCALE_MIN..SCALE_MAX /\ a.scale = v
    BY <1>10 DEF ArgHolds
  <2>2. s.scale = v
    BY <1>1, <1>3, <2>1 DEF Least, Most, Clamp, SCALE_MIN, SCALE_MAX
  <2> QED BY <1>10, <2>1, <2>2 DEF ArgHolds, s
<1>11. CASE key = "gamma"
  <2>1. v \in 0..GAMMA_MAX /\ a.gamma = v
    BY <1>11 DEF ArgHolds
  <2>2. s.gamma = v
    BY <1>1, <1>3, <2>1 DEF Least, Most, Clamp, GAMMA_MAX
  <2> QED BY <1>11, <2>1, <2>2 DEF ArgHolds, s
<1> QED BY <1>4, <1>5, <1>6, <1>7, <1>8, <1>9, <1>10, <1>11 DEF s, AxisKeys, ArgsNumbers

\* What set-param leaves of a value: a device that means all of them is none, an
\* application loses the white space around it.
StoredAs(key, v) ==
  CASE key = "id" /\ v \in AnyDevice -> ""
    [] key = "app" -> Trim[v]
    [] OTHER -> v

\* The same for a key of the profile.  An angle is normalised.
PlainHolds(dp, key, v) ==
  /\ key # "rot" => dp[key] = StoredAs(key, v)
  /\ key = "rot" => v \in Int /\ dp.rot % CIRCLE = v % CIRCLE
  /\ key \in {"raw", "disable"} => v \in {0, 1}
  /\ key = "dpi" => v \in 1..DPI_MAX
  /\ key = "odpi" => v = 0 \/ v \in OUTPUT_DPI_MIN..DPI_MAX
  /\ key = "weight" => v \in 0..WEIGHT_MAX
  /\ key = "norm" => v \in Int /\ v > 0
  /\ key = "smin" => v \in 0..SPEED_MAX
  /\ key = "smax" => v \in 0..SPEED_MAX /\ (v = 0 \/ v >= dp.smin)

\* What set-param was asked for is in the profile.
ParamHolds(dp, key, v) ==
  IF key \in AxisKeys THEN ArgHolds(dp.x, key, v) /\ ArgHolds(dp.y, key, v) ELSE PlainHolds(dp, key, v)

LEMMA PlainHeld ==
  ASSUME NEW p, Numeric(p), Named(p), NEW key \in PlainKeys, NEW v, PlainHolds(p, key, v)
  PROVE  LET s == sanitize_device_profile(p)
         IN  PlainHolds(s, key, v) /\ (key = "rot" => s.rot = v % CIRCLE)
<1> DEFINE s == sanitize_device_profile(p)
<1>1. /\ p.rot \in Int /\ p.odpi \in Int /\ p.smin \in Int /\ p.smax \in Int
      /\ p.norm \in Int /\ p.weight \in Int /\ p.dpi \in Int
  BY DEF Numeric, ProfileNumbers
<1>2. s.id = p.id /\ s.app = p.app /\ s.disable = p.disable /\ s.raw = p.raw
  BY NumericIs, ProfileSanitised
<1>3. /\ s.rot = p.rot % CIRCLE /\ s.odpi = OutputDpi(p.odpi) /\ s.dpi = Clamp(p.dpi, 1, DPI_MAX)
      /\ s.smin = SpeedLimits(Most(p.smin, 0), Most(p.smax, 0))[1]
      /\ s.smax = SpeedLimits(Most(p.smin, 0), Most(p.smax, 0))[2]
      /\ s.norm = (IF p.norm <= 0 THEN EUCLIDEAN ELSE p.norm)
      /\ s.weight = Clamp(p.weight, 0, WEIGHT_MAX)
  BY ProfileSanitisedTo
<1> HIDE DEF s
<1>4. CASE key \in {"raw", "disable", "id", "app"}
  <2>1. /\ p[key] = StoredAs(key, v) /\ s[key] = p[key]
        /\ key \in {"raw", "disable"} => v \in {0, 1}
    BY <1>2, <1>4 DEF PlainHolds
  <2> QED BY <1>4, <2>1 DEF PlainHolds, s
<1>5. CASE key = "rot"
  <2>1. v \in Int /\ p.rot % CIRCLE = v % CIRCLE
    BY <1>5 DEF PlainHolds
  <2>2. \A n \in Int : (n % CIRCLE) % CIRCLE = n % CIRCLE
    BY DEF CIRCLE
  <2>3. s.rot = v % CIRCLE /\ s.rot % CIRCLE = v % CIRCLE
    BY <1>3, <2>1, <2>2
  <2> QED BY <1>5, <2>1, <2>3 DEF PlainHolds, s
<1>6. CASE key \in {"dpi", "weight"}
  <2>1. (key = "dpi" => p.dpi = v /\ v \in 1..DPI_MAX) /\ (key = "weight" => p.weight = v /\ v \in 0..WEIGHT_MAX)
    BY DEF PlainHolds, StoredAs
  <2>2. (key = "dpi" => s.dpi = v) /\ (key = "weight" => s.weight = v)
    BY <1>3, <2>1 DEF Clamp, Least, Most, DPI_MAX, WEIGHT_MAX
  <2> QED BY <1>6, <2>1, <2>2 DEF PlainHolds, StoredAs, s
<1>7. CASE key = "odpi"
  <2>1. p.odpi = v /\ (v = 0 \/ v \in OUTPUT_DPI_MIN..DPI_MAX)
    BY <1>7 DEF PlainHolds, StoredAs
  <2>2. s.odpi = v
    BY <1>1, <1>3, <2>1 DEF OutputDpi, Clamp, Least, Most, DPI_MAX, OUTPUT_DPI_MIN
  <2> QED BY <1>7, <2>1, <2>2 DEF PlainHolds, StoredAs, s
<1>8. CASE key = "norm"
  <2>1. p.norm = v /\ v \in Int /\ v > 0
    BY <1>8 DEF PlainHolds, StoredAs
  <2>2. s.norm = v
    BY <1>3, <2>1
  <2> QED BY <1>8, <2>1, <2>2 DEF PlainHolds, StoredAs, s
<1>9. CASE key \in {"smin", "smax"}
  <2> DEFINE speed == SpeedLimits(Most(p.smin, 0), Most(p.smax, 0))
  <2>1. /\ key = "smin" => p.smin = v /\ v \in 0..SPEED_MAX
        /\ key = "smax" => p.smax = v /\ v \in 0..SPEED_MAX /\ (v = 0 \/ v >= p.smin)
    BY DEF PlainHolds, StoredAs
  <2>2. key = "smin" => speed[1] = v
    BY <1>1, <2>1 DEF SpeedLimits, Least, Most, SPEED_MAX
  <2>3. key = "smax" => speed[2] = v /\ (v = 0 \/ v >= speed[1])
    BY <1>1, <2>1 DEF SpeedLimits, Least, Most, SPEED_MAX
  <2> HIDE DEF speed
  <2>4. s.smin = speed[1] /\ s.smax = speed[2]
    BY <1>3 DEF speed
  <2> QED BY <1>9, <2>1, <2>2, <2>3, <2>4 DEF PlainHolds, StoredAs, s
<1> QED BY <1>4, <1>5, <1>6, <1>7, <1>8, <1>9 DEF s, PlainKeys

LEMMA ParamHeld ==
  ASSUME NEW p, Numeric(p), Named(p), NEW key \in AxisKeys \cup PlainKeys, NEW v, ParamHolds(p, key, v)
  PROVE  LET s == sanitize_device_profile(p)
         IN  ParamHolds(s, key, v) /\ (key = "rot" => s.rot = v % CIRCLE)
<1> DEFINE s == sanitize_device_profile(p)
<1>1. s.x = sanitize_accel_args(p.x) /\ s.y = sanitize_accel_args(p.y) /\ IsArgs(p.x) /\ IsArgs(p.y)
  BY NumericIs, ProfileSanitised DEF Numeric
<1>2. CASE key \in AxisKeys
  <2>1. key # "rot"
    BY <1>2 DEF AxisKeys, ArgsNumbers
  <2> HIDE DEF s
  <2>2. ArgHolds(s.x, key, v) /\ ArgHolds(s.y, key, v)
    BY <1>1, <1>2, ArgHeld DEF ParamHolds
  <2> QED BY <1>2, <2>1, <2>2 DEF ParamHolds, s
<1>3. CASE key \notin AxisKeys
  <2>1. PlainHolds(s, key, v) /\ (key = "rot" => s.rot = v % CIRCLE)
    BY <1>3, PlainHeld DEF ParamHolds
  <2> HIDE DEF s
  <2> QED BY <1>3, <2>1 DEF ParamHolds, s
<1> QED BY <1>2, <1>3

\* Two axes, and two profiles, that hold the same under every key.
SameKeys(a, b) ==
  /\ \A f \in {"mode", "capmode"} \cup ArgsNumbers : b[f] = a[f]
  /\ a.gain \in {0, 1} => b.gain = a.gain
SamePlain(p, q) ==
  /\ \A f \in ProfileNumbers \cup {"app"} : q[f] = p[f]
  /\ q.id = (IF p.id \in AnyDevice THEN "" ELSE p.id)
  /\ p.raw \in {0, 1} => q.raw = p.raw
  /\ p.disable \in {0, 1} => q.disable = p.disable

LEMMA HeldBySame ==
  ASSUME NEW p, NEW q, SameKeys(p.x, q.x), SameKeys(p.y, q.y), SamePlain(p, q),
         NEW key \in AxisKeys \cup PlainKeys, NEW v, ParamHolds(p, key, v)
  PROVE  ParamHolds(q, key, v)
<1>1. ASSUME NEW a, NEW b, SameKeys(a, b), key \in AxisKeys, ArgHolds(a, key, v)
      PROVE  ArgHolds(b, key, v)
  <2>1. b.acc = a.acc /\ b.off = a.off /\ b.capy = a.capy
    BY <1>1 DEF SameKeys, ArgsNumbers
  <2>2. a[key] = v => b[key] = v
    <3>1. CASE key = "gain"
      BY <1>1, <3>1 DEF SameKeys, ArgHolds
    <3>2. CASE key # "gain"
      BY <1>1, <3>2 DEF SameKeys, AxisKeys
    <3> QED BY <3>1, <3>2
  <2> QED BY <1>1, <2>1, <2>2 DEF ArgHolds
<1>2. CASE key \in AxisKeys
  BY <1>1, <1>2 DEF ParamHolds
<1>3. CASE key \notin AxisKeys
  <2>1. PlainHolds(p, key, v) /\ key \in PlainKeys
    BY <1>3 DEF ParamHolds
  <2>2. q.rot = p.rot /\ q.smin = p.smin
    BY DEF SamePlain, ProfileNumbers
  <2>3. key # "rot" => q[key] = StoredAs(key, v)
    <3>1. CASE key = "id"
      <4>1. p.id = IF v \in AnyDevice THEN "" ELSE v
        BY <2>1, <3>1 DEF PlainHolds, StoredAs
      <4>2. "" \notin AnyDevice
        BY DEF AnyDevice
      <4>3. q.id = IF v \in AnyDevice THEN "" ELSE v
        BY <4>1, <4>2 DEF SamePlain
      <4> QED BY <3>1, <4>3 DEF StoredAs
    <3>2. CASE key \in {"raw", "disable"}
      BY <2>1, <3>2 DEF SamePlain, PlainHolds, StoredAs
    <3>3. CASE key \in ProfileNumbers \cup {"app"} /\ key # "rot"
      <4>1. p[key] = StoredAs(key, v) /\ q[key] = p[key]
        BY <2>1, <3>3 DEF SamePlain, PlainHolds, ProfileNumbers
      <4> QED BY <4>1
    <3> QED BY <2>1, <3>1, <3>2, <3>3 DEF PlainKeys, ProfileNumbers
  <2>4. PlainHolds(q, key, v)
    BY <2>1, <2>2, <2>3 DEF PlainHolds
  <2> QED BY <1>3, <2>4 DEF ParamHolds
<1> QED BY <1>2, <1>3

\* A profile that is written and read again, before it is sanitised on the way in.
LEMMA ProfileBack ==
  ASSUME MarksAreMarks, NEW dp, IsProfile(dp)
  PROVE  \E r : /\ device_profile_from_json(profile_to_json(dp)) = sanitize_device_profile(r)
                /\ Numeric(r) /\ Named(r) /\ SameKeys(dp.x, r.x) /\ SameKeys(dp.y, r.y) /\ SamePlain(dp, r)
<1> DEFINE r == Addressed(dp)
<1>1. device_profile_from_json(profile_to_json(dp)) = sanitize_device_profile(r)
  BY ProfileWritten
<1>2. /\ IsProfile(r) /\ r.id = (IF dp.id \in AnyDevice THEN "" ELSE dp.id)
      /\ \A f \in ProfileFields \ {"id"} : r[f] = dp[f]
  BY AddressedFacts
<1> HIDE DEF r
<1>3. Numeric(r) /\ Named(r)
  BY <1>2, NumericIs
<1>4. SameKeys(dp.x, r.x) /\ SameKeys(dp.y, r.y)
  <2>1. r.x = dp.x /\ r.y = dp.y
    BY <1>2 DEF ProfileFields
  <2> QED BY <2>1 DEF SameKeys
<1>5. SamePlain(dp, r)
  BY <1>2 DEF SamePlain, ProfileFields, ProfileNumbers
<1> QED BY <1>1, <1>3, <1>4, <1>5

LEMMA RescaledHolds ==
  ASSUME NEW dp, IsProfile(dp), NEW key \in AxisKeys \cup PlainKeys, NEW v, ParamHolds(dp, key, v)
  PROVE  ParamHolds(Rescaled(dp), key, v)
<1> DEFINE q == Rescaled(dp)
<1>1. /\ \A f \in ProfileFields \ {"x", "y"} : q[f] = dp[f]
      /\ SameArgs(dp.x, q.x) /\ SameArgs(dp.y, q.y)
  BY RescaleProfile
<1> HIDE DEF q
<1>2. CASE key \in AxisKeys
  <2>1. ASSUME NEW a, NEW b, SameArgs(a, b), ArgHolds(a, key, v) PROVE ArgHolds(b, key, v)
    <3>1. b[key] = a[key] /\ b.acc = a.acc /\ b.off = a.off /\ b.capy = a.capy
      BY <1>2, <2>1 DEF SameArgs, ArgsFields, AxisKeys, ArgsNumbers
    <3> QED BY <2>1, <3>1 DEF ArgHolds
  <2> QED BY <1>1, <1>2, <2>1 DEF ParamHolds, q
<1>3. CASE key \notin AxisKeys
  <2>1. q[key] = dp[key] /\ q.rot = dp.rot /\ q.smin = dp.smin
    BY <1>1, <1>3 DEF ProfileFields, PlainKeys
  <2> QED BY <1>3, <2>1 DEF ParamHolds, PlainHolds, q
<1> QED BY <1>2, <1>3

\* A profile that holds the value, saved in its place, is loaded with that value.
LEMMA HeldInFile ==
  ASSUME MarksAreMarks, NEW c, IsConfig(c), Len(c.profiles) <= MAX_PROFILES_FILE,
         NEW k \in DOMAIN c.profiles, NEW key \in AxisKeys \cup PlainKeys, NEW v, ParamHolds(c.profiles[k], key, v)
  PROVE  LET dp == load_config(save_config(c)).profiles[k]
         IN  ParamHolds(dp, key, v) /\ (key = "rot" => dp.rot = v % CIRCLE)
<1> DEFINE f == save_config(c)
           r == app_config_from_json_obj(f, MAX_PROFILES_FILE)
           m == load_config(f)
           s == sanitize_device_profile(c.profiles[k])
<1>1. IsConfig(r) /\ SameNames(c, r) /\ r.profiles[k] = device_profile_from_json(profile_to_json(s))
  BY ConfigWritten
<1>2. m = migrate_config(r)
  BY DEF load_config
<1>3. IsProfile(c.profiles[k])
  BY DEF IsConfig
<1>4. IsProfile(s) /\ ParamHolds(s, key, v)
  BY <1>3, NumericIs, LoadedIsRead, ProfileSanitised, ParamHeld
<1> HIDE DEF s, m
<1>5. PICK p : /\ device_profile_from_json(profile_to_json(s)) = sanitize_device_profile(p)
               /\ Numeric(p) /\ Named(p) /\ SameKeys(s.x, p.x) /\ SameKeys(s.y, p.y) /\ SamePlain(s, p)
  BY <1>4, ProfileBack
<1>6. ParamHolds(p, key, v)
  BY <1>4, <1>5, HeldBySame
<1> HIDE DEF r
<1>7. /\ k \in DOMAIN r.profiles
      /\ m.profiles[k] \in {r.profiles[k], sanitize_device_profile(r.profiles[k]),
                            sanitize_device_profile(Rescaled(r.profiles[k]))}
  BY <1>1, <1>2, MigrateConfig DEF SameNames
<1> DEFINE q == r.profiles[k]
<1>8. q = sanitize_device_profile(p)
  BY <1>1, <1>5
<1>9. IsProfile(q)
  BY <1>1, <1>7 DEF IsConfig
<1> HIDE DEF q
<1>10. ParamHolds(q, key, v) /\ (key = "rot" => q.rot = v % CIRCLE)
  BY <1>5, <1>6, <1>8, ParamHeld
<1>11. IsProfile(Rescaled(q)) /\ ParamHolds(Rescaled(q), key, v)
  BY <1>9, <1>10, RescaleProfile, RescaledHolds
<1>12. CASE m.profiles[k] = q
  BY <1>10, <1>12 DEF m, f
<1>13. CASE m.profiles[k] = sanitize_device_profile(q)
  BY <1>9, <1>10, <1>13, NumericIs, ParamHeld DEF m, f
<1>14. CASE m.profiles[k] = sanitize_device_profile(Rescaled(q))
  BY <1>11, <1>14, NumericIs, ParamHeld DEF m, f
<1> QED BY <1>7, <1>12, <1>13, <1>14 DEF q

-----------------------------------------------------------------------------
(* set-param and validate *)

\* What is assigned is held, before it is sanitised.
LEMMA AssignedHolds ==
  ASSUME NEW dp, IsProfile(dp), NEW key \in AxisKeys \cup PlainKeys, NEW v, InDomain(dp, key, v), ParamOk(key, v)
  PROVE  LET q == Assigned(dp, key, v)
         IN  Numeric(q) /\ Named(q) /\ ParamHolds(q, key, v)
<1> DEFINE q == Assigned(dp, key, v)
<1>0. Numeric(dp) /\ Named(dp)
  BY NumericIs
<1>1. CASE key \in AxisKeys
  <2> DEFINE a == KeyPut(dp.x, key, v)
             b == KeyPut(dp.y, key, v)
  <2>1. ArgOk(key, v)
    BY <1>1 DEF ArgOk, ParamOk, InDomain, AxisKeys, ArgsNumbers
  <2>2. /\ IsArgs(a) /\ a[key] = v /\ \A f \in ArgsFields : f # key => a[f] = dp.x[f]
        /\ IsArgs(b) /\ b[key] = v /\ \A f \in ArgsFields : f # key => b[f] = dp.y[f]
    BY <1>0, <2>1, ArgSet DEF Numeric
  <2>3. q = AxesPut(dp, a, b)
    <3>1. q = [dp EXCEPT !.x[key] = v, !.y[key] = v]
      BY <1>1 DEF Assigned, AxisKeys, ArgsNumbers
    <3>2. dp = [f \in ProfileFields |-> dp[f]]
      BY <1>0 DEF Numeric
    <3> HIDE DEF q
    <3> QED BY <3>1, <3>2 DEF ProfileFields, AxesPut, KeyPut
  <2> HIDE DEF a, b, q
  <2>4. Numeric(q) /\ q.x = a /\ q.y = b /\ \A f \in ProfileFields \ {"x", "y"} : q[f] = dp[f]
    BY <1>0, <2>2, <2>3, AxesSet
  <2>5. Named(q)
    BY <1>0, <2>4 DEF Named, ProfileFields
  <2>6. key = "capx" => v \in 0..CAP_X_MAX /\ v >= dp.x.off /\ v >= dp.y.off /\ a.off = dp.x.off /\ b.off = dp.y.off
    BY <2>2 DEF InDomain, AxisKeys, ArgsNumbers, ArgsFields
  <2>7. /\ key = "gain" => v \in {0, 1}
        /\ key = "acc" => v <= ACCEL_MAX
        /\ key = "off" => v \in 0..CAP_X_MAX
        /\ key = "capy" => v \in 0..CAP_Y_MAX
        /\ key = "decay" => v = 0 \/ v \in NATURAL_DECAY_RATE_MIN..DECAY_RATE_MAX
        /\ key = "gamma" => v \in 0..GAMMA_MAX
        /\ key = "scale" => v \in SCALE_MIN..SCALE_MAX
    BY DEF InDomain
  <2>8. ArgHolds(q.x, key, v) /\ ArgHolds(q.y, key, v)
    BY <2>2, <2>4, <2>6, <2>7 DEF ArgHolds
  <2> QED BY <1>1, <2>4, <2>5, <2>8 DEF ParamHolds, q
<1>2. CASE key \notin AxisKeys
  <2> DEFINE w == StoredAs(key, v)
  <2>0. key \in PlainKeys /\ key # "dist"
    BY <1>2 DEF PlainKeys
  <2>1. q = KeyPut(dp, key, w)
    BY <1>2, <2>0 DEF Assigned, KeyPut, StoredAs
  <2>2. FieldOk(key, w) /\ (key \in {"id", "app"} => w \in Short) /\ key # "name"
    <3>1. (key = "id" => v \in Short) /\ (key = "app" => Trim[v] \in Short)
      BY StringFacts DEF ParamOk, InDomain, Short, AxisKeys, ArgsNumbers
    <3>2. key \in ProfileNumbers => v \in Int
      BY DEF ParamOk
    <3>3. key \in {"raw", "disable"} => v \in {0, 1}
      BY DEF ParamOk, InDomain
    <3> QED BY <2>0, <3>1, <3>2, <3>3, StringFacts DEF StoredAs, FieldOk, PlainKeys, ProfileFields, ProfileNumbers
  <2> HIDE DEF w, q
  <2>3. Numeric(q) /\ q[key] = w /\ \A f \in ProfileFields : f # key => q[f] = dp[f]
    BY <1>0, <2>1, <2>2, ProfileSet
  <2>4. Named(q)
    BY <1>0, <2>2, <2>3 DEF Named, ProfileFields
  <2>5. /\ key \in {"raw", "disable"} => v \in {0, 1}
        /\ key = "dpi" => v \in 1..DPI_MAX
        /\ key = "odpi" => v = 0 \/ v \in OUTPUT_DPI_MIN..DPI_MAX
        /\ key = "weight" => v \in 0..WEIGHT_MAX
        /\ key = "norm" => v > 0
        /\ key = "smin" => v \in 0..SPEED_MAX
        /\ key = "smax" => v \in 0..SPEED_MAX /\ (v = 0 \/ v >= dp.smin)
    BY DEF InDomain
  <2>6. (key \in {"norm", "rot"} => v \in Int) /\ (key = "rot" => q.rot = v) /\ (key = "smax" => q.smin = dp.smin)
    BY <2>3 DEF ParamOk, ProfileNumbers, ProfileFields, StoredAs, w
  <2>7. PlainHolds(q, key, v)
    BY <2>3, <2>5, <2>6 DEF PlainHolds, w
  <2> QED BY <1>2, <2>3, <2>4, <2>7 DEF ParamHolds, q
<1> QED BY <1>1, <1>2

\* A profile is found under its name wherever the names are the same.
LEMMA IndexIs ==
  ASSUME NEW c, IsConfig(c), NEW d, IsConfig(d), Len(d.profiles) = Len(c.profiles),
         \A i \in DOMAIN c.profiles : d.profiles[i].name = c.profiles[i].name, NEW n
  PROVE  IndexOf(d, n) = IndexOf(c, n)
<1>1. DOMAIN d.profiles = DOMAIN c.profiles /\ DOMAIN c.profiles = 1..Len(c.profiles) /\ Len(c.profiles) \in Nat
  BY NamesFacts
<1>2. \A i \in DOMAIN c.profiles : 1..(i - 1) \subseteq DOMAIN c.profiles
  BY <1>1
<1>3. \A i \in DOMAIN c.profiles :
        (d.profiles[i].name = n /\ \A k \in 1..(i - 1) : d.profiles[k].name # n)
          <=> (c.profiles[i].name = n /\ \A k \in 1..(i - 1) : c.profiles[k].name # n)
  BY <1>2
<1> QED BY <1>1, <1>3 DEF IndexOf

\* The profile that set-param leaves holds the value.
LEMMA SetParamHolds ==
  ASSUME NEW c, IsConfig(c), NEW name, NEW key, key # "dist", NEW v, ParamOk(key, v),
         cmd_set_param(c, name, key, v).ok
  PROVE  LET d == cmd_set_param(c, name, key, v).cfg
             k == IndexOf(d, name)
         IN  /\ IsConfig(d) /\ key \in AxisKeys \cup PlainKeys
             /\ k \in DOMAIN d.profiles /\ d.profiles[k].name = name /\ ParamHolds(d.profiles[k], key, v)
<1> DEFINE k == IndexOf(c, name)
           q == Assigned(c.profiles[k], key, v)
           dp == sanitize_device_profile(q)
           d == [c EXCEPT !.profiles[k] = dp]
           r == cmd_set_param(c, name, key, v)
<1>1. name \in NamesOf(c) /\ InDomain(c.profiles[k], key, v) /\ r = Done(d)
  BY DEF cmd_set_param, Refused
<1>2. k \in DOMAIN c.profiles /\ c.profiles[k].name = name
  BY <1>1, IndexFacts
<1>3. key \in AxisKeys \cup PlainKeys
  BY <1>1, KeyIs
<1>4. IsProfile(c.profiles[k])
  BY <1>2 DEF IsConfig
<1>5. Numeric(q) /\ Named(q) /\ ParamHolds(q, key, v) /\ q.name = name
  BY <1>1, <1>2, <1>3, <1>4, AssignedHolds, AssignedFacts
<1> HIDE DEF q
<1>6. IsProfile(dp) /\ dp.name = name /\ ParamHolds(dp, key, v)
  BY <1>3, <1>5, ParamHeld, NumericIs, ProfileSanitised
<1> HIDE DEF dp, k
<1>7. d = ProfilePut(c, k, dp)
  BY DEF ProfilePut
<1> HIDE DEF d, r
<1>8. /\ IsConfig(d) /\ Len(d.profiles) = Len(c.profiles) /\ k \in DOMAIN d.profiles /\ d.profiles[k] = dp
      /\ \A i \in DOMAIN c.profiles : d.profiles[i].name = c.profiles[i].name
  <2>1. IsConfig(d)
    BY <1>2, <1>6, <1>7, ReplaceFacts
  <2>2. IsSeq(c.profiles) /\ c = [f \in ConfigFields |-> c[f]]
    BY DEF IsConfig
  <2>3. d.profiles = [c.profiles EXCEPT ![k] = dp]
    BY <1>7, <2>2 DEF ProfilePut, ConfigFields
  <2>4. c.profiles \in Seq(Range(c.profiles)) /\ DOMAIN c.profiles = 1..Len(c.profiles) /\ Len(c.profiles) \in Nat
    BY NamesFacts, <2>2 DEF IsSeq
  <2>5. DOMAIN d.profiles = DOMAIN c.profiles /\ d.profiles[k] = dp
        /\ \A i \in DOMAIN c.profiles : i # k => d.profiles[i] = c.profiles[i]
    BY <1>2, <2>3
  <2>6. DOMAIN d.profiles = 1..Len(d.profiles) /\ Len(d.profiles) \in Nat
    BY <2>1, NamesFacts
  <2> QED BY <1>2, <1>6, <2>1, <2>4, <2>5, <2>6
<1>9. IndexOf(d, name) = k
  BY <1>8, IndexIs DEF k
<1>10. r.cfg = d
  BY <1>1, DoneIs
<1> QED BY <1>2, <1>3, <1>6, <1>8, <1>9, <1>10 DEF r

\* A run that was running, or comparing, and is now done has taken that step.
LEMMA StepOf ==
  ASSUME EditInv, [EditNext]_editVars, NEW p \in Clis, cli[p].pc \in {"run", "compare"}, cli'[p].pc = "idle"
  PROVE  (cli[p].pc = "run" => CliRun(p)) /\ (cli[p].pc = "compare" => CliCompare(p))
<1>1. cli = [q \in Clis |-> cli[q]]
  BY DEF EditInv, ClisTyped
<1>2. cli' # cli
  OBVIOUS
<1>3. ASSUME NEW q \in Clis, NEW d, cli' = [cli EXCEPT ![q] = d] PROVE q = p
  <2>1. q # p => cli'[p] = cli[p]
    BY <1>1, <1>3
  <2> QED BY <2>1
<1>4. ASSUME NEW q \in Clis, CliStart(q) PROVE FALSE
  <2>1. cli[q].pc = "idle"
    BY <1>4 DEF CliStart
  <2>2. \E d : cli' = [cli EXCEPT ![q] = d]
    BY <1>4 DEF CliStart, Goes, Finished
  <2> QED BY <1>3, <2>1, <2>2
<1>5. ASSUME NEW q \in Clis, CliLook(q) PROVE FALSE
  <2>1. cli[q].pc = "look"
    BY <1>5 DEF CliLook
  <2>2. \E d : cli' = [cli EXCEPT ![q] = d]
    BY <1>5 DEF CliLook
  <2> QED BY <1>3, <2>1, <2>2
<1>6. ASSUME NEW q \in Clis, CliSeed(q) PROVE FALSE
  <2>1. cli[q].pc = "seed"
    BY <1>6 DEF CliSeed
  <2>2. \E d : cli' = [cli EXCEPT ![q] = d]
    BY <1>6 DEF CliSeed, Finished
  <2> QED BY <1>3, <2>1, <2>2
<1>7. ASSUME NEW q \in Clis, CliRun(q) PROVE q = p /\ cli[p].pc = "run" /\ CliRun(p)
  <2>1. cli[q].pc = "run"
    BY <1>7 DEF CliRun
  <2>2. \E d : cli' = [cli EXCEPT ![q] = d]
    BY <1>7 DEF CliRun, Finished
  <2> QED BY <1>3, <1>7, <2>1, <2>2
<1>8. ASSUME NEW q \in Clis, CliCompare(q) PROVE q = p /\ cli[p].pc = "compare" /\ CliCompare(p)
  <2>1. cli[q].pc = "compare"
    BY <1>8 DEF CliCompare
  <2>2. \E d : cli' = [cli EXCEPT ![q] = d]
    BY <1>8 DEF CliCompare, Finished
  <2> QED BY <1>3, <1>8, <2>1, <2>2
<1>9. CASE Handlers
  BY <1>2, <1>9, HandlersKeep
<1>10. CASE GuiLoad \/ GuiStamp \/ GuiCheck \/ GuiWrite \/ GuiRestamp \/ HandEdit
  BY <1>2, <1>10 DEF GuiLoad, GuiStamp, GuiCheck, GuiWrite, GuiRestamp, HandEdit
<1>11. CASE UNCHANGED editVars
  BY <1>2, <1>11 DEF editVars
<1> QED BY <1>4, <1>5, <1>6, <1>7, <1>8, <1>9, <1>10, <1>11 DEF EditNext, Handlers

\* What a run that set a parameter wrote is loaded with it.
LEMMA SetParamSaved ==
  ASSUME MarksAreMarks, NEW c, IsConfig(c), NEW m, IsCommand(m), m.op = "set-param", m.key # "dist",
         Result(c, m).ok, Len(Result(c, m).cfg.profiles) <= MAX_PROFILES_FILE
  PROVE  LET now == load_config(save_config(Result(c, m).cfg))
             dp == now.profiles[IndexOf(now, m.name)]
         IN  /\ m.key \in AxisKeys \cup PlainKeys
             /\ ParamHolds(dp, m.key, m.value) /\ (m.key = "rot" => dp.rot = m.value % CIRCLE)
<1> DEFINE r == cmd_set_param(c, m.name, m.key, m.value)
           d == r.cfg
           k == IndexOf(d, m.name)
           f == save_config(d)
           now == load_config(f)
<1>1. Result(c, m) = r
  BY DEF Result
<1>2. ParamOk(m.key, m.value)
  BY DEF IsCommand, ParamOk
<1>3. /\ IsConfig(d) /\ m.key \in AxisKeys \cup PlainKeys
      /\ k \in DOMAIN d.profiles /\ d.profiles[k].name = m.name /\ ParamHolds(d.profiles[k], m.key, m.value)
  BY <1>1, <1>2, SetParamHolds
<1>4. Len(d.profiles) <= MAX_PROFILES_FILE
  BY <1>1
<1> HIDE DEF r
<1>5. LET dp == load_config(save_config(d)).profiles[k]
      IN  ParamHolds(dp, m.key, m.value) /\ (m.key = "rot" => dp.rot = m.value % CIRCLE)
  BY <1>3, <1>4, HeldInFile
<1>6. IsConfig(now) /\ SameNames(d, now)
  <2> DEFINE read == app_config_from_json_obj(f, MAX_PROFILES_FILE)
  <2>1. IsConfig(read) /\ SameNames(d, read)
    BY <1>3, <1>4, ConfigWritten
  <2>2. now = migrate_config(read)
    BY DEF load_config
  <2> HIDE DEF read
  <2>3. IsConfig(now) /\ SameNames(read, now)
    BY <2>1, <2>2, MigrateConfig
  <2> QED BY <2>1, <2>3 DEF SameNames
<1> HIDE DEF now
<1>7. IndexOf(now, m.name) = k
  BY <1>3, <1>6, IndexIs DEF SameNames
<1> QED BY <1>1, <1>3, <1>5, <1>7 DEF now, f

\* What a held parameter says of the fields.
LEMMA HeldSays ==
  ASSUME NEW dp, NEW key \in AxisKeys \cup PlainKeys, NEW v, ParamHolds(dp, key, v), key = "rot" => dp.rot = v % CIRCLE
  PROVE  \/ key \in AxisKeys /\ \A axis \in {"x", "y"} :
               \/ dp[axis][key] = v
               \/ key = "capy" /\ dp[axis].acc < 0 /\ dp[axis].capy = 0
         \/ key \notin AxisKeys /\ dp[key] = v
         \/ key = "app" /\ dp.app = Trim[v]
         \/ key = "rot" /\ dp.rot = v % CIRCLE
         \/ key = "id" /\ v \in AnyDevice /\ dp.id = ""
<1>1. CASE key \in AxisKeys
  <2>1. ArgHolds(dp.x, key, v) /\ ArgHolds(dp.y, key, v)
    BY <1>1 DEF ParamHolds
  <2> QED BY <1>1, <2>1 DEF ArgHolds
<1>2. CASE key \notin AxisKeys
  BY <1>2 DEF ParamHolds, PlainHolds, StoredAs
<1> QED BY <1>1, <1>2

\* A file that is clean is consistent, and loading it changed no number.
LEMMA CleanIs ==
  ASSUME NEW f, IsFile(f), Loadable(f), cmd_validate(load_config(f), f) = "clean"
  PROVE  Sound(load_config(f)) /\ load_config(f).active # "" /\ NumbersKept(f)
<1> DEFINE c == load_config(f)
           r == app_config_from_json_obj(f, MAX_PROFILES_FILE)
           compared == IF f.root = "object" /\ f.profiles \notin {Absent, Wrong}
                       THEN {i \in DOMAIN f.profiles \cap DOMAIN c.profiles : f.profiles[i] # Wrong} ELSE {}
<1>1. /\ IsConfig(r) /\ (r.profiles = <<>> \/ f.root = "object")
      /\ f.root = "object" =>
           IF f.profiles \in {Absent, Wrong} THEN r.profiles = <<>>
           ELSE /\ DOMAIN r.profiles = DOMAIN f.profiles
                /\ \A i \in DOMAIN f.profiles : f.profiles[i] # Wrong /\ IsProfileJson(f.profiles[i])
  BY FileRead
<1>2. c = migrate_config(r)
  BY DEF load_config
<1> HIDE DEF r
<1>3. IsConfig(c) /\ SameNames(r, c)
  BY <1>1, <1>2, MigrateConfig
<1> HIDE DEF c
<1>4. ~ValidateErrors(c) /\ \A i \in compared : ~Clamped(f.profiles[i], c.profiles[i])
  BY DEF cmd_validate, c
<1>5. c.profiles # <<>> /\ c.active \in NamesOf(c) /\ "" \notin NamesOf(c)
      /\ \A i, k \in DOMAIN c.profiles : c.profiles[i].name = c.profiles[k].name => ~(i < k)
  BY <1>4 DEF ValidateErrors
<1>6. DOMAIN c.profiles = 1..Len(c.profiles) /\ Len(c.profiles) \in Nat
  BY <1>3, NamesFacts
<1>7. Sound(c) /\ c.active # ""
  <2>1. ASSUME NEW i \in DOMAIN c.profiles, NEW k \in DOMAIN c.profiles, c.profiles[i].name = c.profiles[k].name
        PROVE  i = k
    <3>1. ~(i < k) /\ ~(k < i)
      BY <1>5, <2>1
    <3>2. i \in Nat /\ k \in Nat
      BY <1>6
    <3> QED BY <3>1, <3>2
  <2> QED BY <1>5, <2>1 DEF Sound
<1>8. r.profiles # <<>>
  <2>1. r.profiles = <<>> => Len(r.profiles) = 0
    BY EmptyFacts
  <2>2. Len(c.profiles) # 0
    <3>1. c.profiles \in Seq(Range(c.profiles))
      BY <1>3 DEF IsConfig, IsSeq
    <3> QED BY <1>5, <3>1, EmptySeq
  <2> QED BY <1>3, <2>1, <2>2 DEF SameNames
<1>9. /\ f.root = "object" /\ f.profiles \notin {Absent, Wrong} /\ DOMAIN c.profiles = DOMAIN f.profiles
      /\ \A i \in DOMAIN f.profiles : f.profiles[i] # Wrong /\ IsProfileJson(f.profiles[i])
  BY <1>1, <1>3, <1>8 DEF SameNames
<1>10. \A i \in DOMAIN c.profiles : IsProfileJson(f.profiles[i]) /\ ~Clamped(f.profiles[i], c.profiles[i])
  BY <1>4, <1>9
<1> HIDE DEF compared
<1>11. ASSUME NEW j, NEW dp, IsProfileJson(j), ~Clamped(j, dp)
       PROVE  /\ \A n \in {"dpi", "odpi", "rot", "smin", "smax", "weight", "norm"} : j[n] \in {Absent, Wrong, dp[n]}
              /\ \A axis \in {"x", "y"} : j[axis] \in {Absent, Wrong}
                   \/ \A n \in ArgsNumbers : j[axis][n] \in {Absent, Wrong, dp[axis][n]}
  <2>1. \A v : IsNumber(v) => v \in {Absent, Wrong} \/ v \notin {Absent, Wrong, Inf}
    BY IntIsNoMark DEF IsNumber
  <2>2. \A n \in ProfileNumbers : j[n] \in {Absent, Wrong, dp[n]}
    BY <1>11, <2>1 DEF IsProfileJson, Clamped, Differs
  <2>3. ASSUME NEW axis \in {"x", "y"}, j[axis] \notin {Absent, Wrong}, NEW n \in ArgsNumbers
        PROVE  j[axis][n] \in {Absent, Wrong, dp[axis][n]}
    <3>1. ~Differs(j[axis], dp[axis], n)
      BY <1>11, <2>3 DEF Clamped
    <3>2. IsNumber(j[axis][n])
      <4>1. j[axis] \in {j.x, j.y}
        BY <2>3
      <4>2. IsAxisJson(j[axis])
        BY <1>11, <2>3, <4>1 DEF IsProfileJson
      <4> QED BY <4>2 DEF IsAxisJson
    <3> QED BY <2>1, <3>1, <3>2 DEF Differs
  <2> QED BY <2>2, <2>3 DEF ProfileNumbers
<1>12. NumbersKept(f)
  BY <1>10, <1>11 DEF NumbersKept, c
<1> QED BY <1>7, <1>12 DEF c

\* set-param stores what it was asked for or leaves the file alone, and a file
\* that validate calls clean is loaded as it says.
THEOREM NothingIsSilent ==
  ASSUME MarksAreMarks
  PROVE  EditSpec => NothingSilent
<1> DEFINE Says(p) ==
             LET m == cli[p].cmd  done == cli'[p].pc = "idle"  rc == cli'[p].rc IN
             /\ cli[p].pc = "run" /\ done /\ rc = 1 => file' = file
             /\ cli[p].pc = "run" /\ done /\ rc = 0 /\ m.op = "set-param" /\ m.key # "dist" =>
                  LET c == load_config(file')
                      dp == c.profiles[IndexOf(c, m.name)]
                  IN  \/ m.key \in AxisKeys /\ \A axis \in {"x", "y"} :
                           \/ dp[axis][m.key] = m.value
                           \/ m.key = "capy" /\ dp[axis].acc < 0 /\ dp[axis].capy = 0
                      \/ m.key \notin AxisKeys /\ dp[m.key] = m.value
                      \/ m.key = "app" /\ dp.app = Trim[m.value]
                      \/ m.key = "rot" /\ dp.rot = m.value % CIRCLE
                      \/ m.key = "id" /\ m.value \in AnyDevice /\ dp.id = ""
             /\ cli[p].pc = "compare" /\ done /\ rc = 0 /\ cli[p].seen = stamp =>
                  Sound(cli[p].cfg) /\ cli[p].cfg.active # "" /\ NumbersKept(file)
<1>1. ASSUME EditInv, [EditNext]_editVars, NEW p \in Clis PROVE Says(p)
  <2> DEFINE m == cli[p].cmd
             r == Result(cli[p].cfg, m)
  <2>1. \A rc : Finished(p, rc) => cli'[p].rc = rc
    <3>1. cli = [q \in Clis |-> cli[q]]
      BY <1>1 DEF EditInv, ClisTyped
    <3>2. \A rc : [IdleCli EXCEPT !.rc = rc].rc = rc
      BY IdleTyped
    <3> QED BY <3>1, <3>2 DEF Finished
  <2>2. ASSUME cli[p].pc = "run", cli'[p].pc = "idle"
        PROVE  /\ IsConfig(cli[p].cfg) /\ IsCommand(m)
               /\ \/ /\ r.ok /\ Len(r.cfg.profiles) <= MAX_PROFILES_FILE
                     /\ file' = save_config(r.cfg) /\ cli'[p].rc = 0
                  \/ file' = file /\ (m.op # "list" => cli'[p].rc = 1)
    <3>1. CliRun(p)
      BY <1>1, <2>2, StepOf
    <3> QED BY <1>1, <2>1, <3>1, RunIs DEF PutByOthers
  <2>3. cli[p].pc = "run" /\ cli'[p].pc = "idle" /\ cli'[p].rc = 1 => file' = file
    BY <2>2
  <2>4. ASSUME cli[p].pc = "run", cli'[p].pc = "idle", cli'[p].rc = 0, m.op = "set-param", m.key # "dist"
        PROVE  LET c == load_config(file')
                   dp == c.profiles[IndexOf(c, m.name)]
               IN  \/ m.key \in AxisKeys /\ \A axis \in {"x", "y"} :
                        \/ dp[axis][m.key] = m.value
                        \/ m.key = "capy" /\ dp[axis].acc < 0 /\ dp[axis].capy = 0
                   \/ m.key \notin AxisKeys /\ dp[m.key] = m.value
                   \/ m.key = "app" /\ dp.app = Trim[m.value]
                   \/ m.key = "rot" /\ dp.rot = m.value % CIRCLE
                   \/ m.key = "id" /\ m.value \in AnyDevice /\ dp.id = ""
    <3>1. /\ IsConfig(cli[p].cfg) /\ IsCommand(m) /\ r.ok /\ Len(r.cfg.profiles) <= MAX_PROFILES_FILE
          /\ file' = save_config(r.cfg)
      BY <2>2, <2>4
    <3> DEFINE c == load_config(file')
               dp == c.profiles[IndexOf(c, m.name)]
    <3>2. /\ m.key \in AxisKeys \cup PlainKeys
          /\ ParamHolds(dp, m.key, m.value) /\ (m.key = "rot" => dp.rot = m.value % CIRCLE)
      BY <2>4, <3>1, SetParamSaved
    <3>3. \A q, key, v :
            /\ key \in AxisKeys \cup PlainKeys
            /\ ParamHolds(q, key, v) /\ (key = "rot" => q.rot = v % CIRCLE)
            => \/ key \in AxisKeys /\ \A axis \in {"x", "y"} :
                     \/ q[axis][key] = v
                     \/ key = "capy" /\ q[axis].acc < 0 /\ q[axis].capy = 0
               \/ key \notin AxisKeys /\ q[key] = v
               \/ key = "app" /\ q.app = Trim[v]
               \/ key = "rot" /\ q.rot = v % CIRCLE
               \/ key = "id" /\ v \in AnyDevice /\ q.id = ""
      BY HeldSays
    <3> QED BY <3>2, <3>3, Zenon
  <2>5. ASSUME cli[p].pc = "compare", cli'[p].pc = "idle", cli'[p].rc = 0, cli[p].seen = stamp
        PROVE  Sound(cli[p].cfg) /\ cli[p].cfg.active # "" /\ NumbersKept(file)
    <3>1. CliCompare(p)
      BY <1>1, <2>5, StepOf
    <3>2. Loadable(file) /\ cli[p].cfg = load_config(file) /\ IsFile(file) /\ Parsed(file)
      BY <1>1, <2>5 DEF EditInv, ClisTyped, CliFresh, FileTyped, Loadable
    <3>3. cmd_validate(cli[p].cfg, file) = "clean"
      BY <2>1, <2>5, <3>1, <3>2 DEF CliCompare
    <3> QED BY <3>2, <3>3, CleanIs
  <2> QED BY <2>3, <2>4, <2>5
<1>2. EditInv /\ [EditNext]_editVars => [\A p \in Clis : Says(p)]_editVars
  BY <1>1
<1> QED BY <1>2, EditsAreTyped, PTL DEF EditSpec, NothingSilent
=============================================================================
