------------------------------ MODULE PidFile ------------------------------
(***************************************************************************)
(* How a starting daemon finds out whether another one runs: the gate over *)
(* the candidate PID files, the O_EXCL creation of one of them, the        *)
(* removal of stale ones and the second attempt, in main().                *)
(*                                                                         *)
(* Processes are identified by their PID.  A PID is used again after the   *)
(* process is gone, by another daemon or by an unrelated process.          *)
(***************************************************************************)
EXTENDS Naturals

CONSTANTS
  Pids,         \* process ids
  N,            \* the number of candidate files, in the order they are tried
  MaxStarts,    \* bound: starts
  MaxCrashes,   \* bound: kills of a daemon at any point
  MaxStops,     \* bound: SIGSTOPs of a daemon
  MaxFails      \* bound: failed writes of a PID file

\* There are /run and /tmp, and a third candidate where the user has a runtime
\* directory.
ASSUME PidAssumption ==
  /\ N \in Nat \ {0, 1}
  /\ MaxStarts \in Nat /\ MaxCrashes \in Nat /\ MaxStops \in Nat /\ MaxFails \in Nat

Candidates == 1..N

\* What a candidate path holds: nothing, the empty file that a process has
\* created but not filled, or a PID.
None == [kind |-> "none"]
EmptyBy(p) == [kind |-> "empty", pid |-> p]
Holds(p) == [kind |-> "pid", pid |-> p]
Contents == {None} \cup {EmptyBy(p) : p \in Pids} \cup {Holds(p) : p \in Pids}

VARIABLES
  file,   \* the candidate files
  pc,     \* what the process with a PID does
  at,     \* the candidate it is at
  seen,   \* what it read from there
  retry,  \* it has cleared a stale file
  spent,  \* how much of each bound is used up
  alone,  \* history: since a process started, no other process was in its way
          \* and no write failed
  raced   \* history: two starts have overlapped, and since then there always
          \* was a daemon

vars == <<file, pc, at, seen, retry, spent, alone, raced>>

Starting == {"gate", "write", "fill", "clear", "unlink"}

\* States of a process that is a rawaccel-daemon.
Daemon == Starting \cup {"run", "stopped"}

Bounded == {"start", "crash", "stop", "fail"}

Spend(what, max) ==
  /\ spent[what] < max
  /\ spent' = [spent EXCEPT ![what] = @ + 1]

Init ==
  /\ file = [c \in Candidates |-> None]
  /\ pc = [p \in Pids |-> "none"]
  /\ at = [p \in Pids |-> 1]
  /\ seen = [p \in Pids |-> None]
  /\ retry = [p \in Pids |-> FALSE]
  /\ spent = [what \in Bounded |-> 0]
  /\ alone = [p \in Pids |-> TRUE]
  /\ raced = FALSE

Goto(p, where, c) ==
  /\ pc' = [pc EXCEPT ![p] = where]
  /\ at' = [at EXCEPT ![p] = c]

\* The next candidate, or what follows the last one.
Advance(p, then) ==
  IF at[p] < N THEN Goto(p, pc[p], at[p] + 1) ELSE Goto(p, then, 1)

-----------------------------------------------------------------------------
(* main *)

Start(p) ==
  /\ pc[p] = "none"
  /\ Spend("start", MaxStarts)
  /\ Goto(p, "gate", 1)
  /\ retry' = [retry EXCEPT ![p] = FALSE]
  /\ UNCHANGED <<file, seen>>

\* The file names a daemon that runs, or a process that cannot be looked at.
pid_file_is_live(c) ==
  c.kind = "pid" /\ pc[c.pid] \in (Daemon \ {"stopped"}) \cup {"hidden"}

\* Fault: only the candidate tried first is checked (PID-1).
GateFirst(p) ==
  /\ pc[p] = "gate"
  /\ IF pid_file_is_live(file[1]) THEN Goto(p, "refused", 1) ELSE Goto(p, "write", 1)
  /\ UNCHANGED <<file, seen, retry, spent>>

Gate(p) ==
  /\ pc[p] = "gate"
  /\ IF pid_file_is_live(file[at[p]])
       THEN Goto(p, "refused", 1)
       ELSE Advance(p, "write")
  /\ UNCHANGED <<file, seen, retry, spent>>

\* The next candidate of the OR-chain of write_pid calls; after the last one
\* stale files are cleared, once.
NextWrite(p) == Advance(p, IF retry[p] THEN "refused" ELSE "clear")

\* write_pid: the O_EXCL open.
Create(p) ==
  /\ pc[p] = "write"
  /\ IF file[at[p]] = None
       THEN /\ file' = [file EXCEPT ![at[p]] = EmptyBy(p)]
            /\ Goto(p, "fill", at[p])
       ELSE NextWrite(p) /\ UNCHANGED file
  /\ UNCHANGED <<seen, retry, spent>>

\* write_pid: the PID goes into the file that was opened, which may have been
\* unlinked since.
Fill(p) ==
  /\ pc[p] = "fill"
  /\ file' = [file EXCEPT ![at[p]] = IF @ = EmptyBy(p) THEN Holds(p) ELSE @]
  /\ Goto(p, "run", at[p])
  /\ UNCHANGED <<seen, retry, spent>>

\* write_pid: the write fails, the path is unlinked.
FillFails(p) ==
  /\ pc[p] = "fill"
  /\ Spend("fail", MaxFails)
  /\ file' = [file EXCEPT ![at[p]] = None]
  /\ IF at[p] < N
       THEN Goto(p, "write", at[p] + 1)
       ELSE Goto(p, IF retry[p] THEN "refused" ELSE "clear", 1)
  /\ UNCHANGED <<seen, retry>>

\* Fault: an empty file is not stale (PID-2).
StaleNamed(c) == c.kind = "pid" /\ pc[c.pid] \in {"none", "refused", "stopped", "other"}

\* An empty file, a PID that is gone, belongs to another program, or to a
\* daemon that is stopped.
Stale(c) ==
  \/ c.kind = "empty"
  \/ c.kind = "pid" /\ pc[c.pid] \in {"none", "refused", "stopped", "other"}

\* try_clear_stale: the look at the file ...
ClearLook(p) ==
  /\ pc[p] = "clear"
  /\ IF Stale(file[at[p]])
       THEN /\ Goto(p, "unlink", at[p])
            /\ seen' = [seen EXCEPT ![p] = file[at[p]]]
       ELSE Advance(p, "refused") /\ UNCHANGED seen
  /\ UNCHANGED <<file, retry, spent>>

\* ... and the unlink of whatever the path holds by then.
ClearUnlink(p) ==
  /\ pc[p] = "unlink"
  /\ file' = [file EXCEPT ![at[p]] = None]
  /\ IF seen[p].kind = "empty" /\ file[at[p]] = None
       THEN /\ IF at[p] < N THEN Goto(p, "clear", at[p] + 1) ELSE Goto(p, "refused", 1)
            /\ UNCHANGED retry
       ELSE /\ Goto(p, "write", 1)
            /\ retry' = [retry EXCEPT ![p] = TRUE]
  /\ UNCHANGED <<seen, spent>>

\* remove_pid at every orderly exit: the path is unlinked.
Exit(p) ==
  /\ pc[p] = "run"
  /\ file' = [file EXCEPT ![at[p]] = None]
  /\ Goto(p, "none", 1)
  /\ UNCHANGED <<seen, retry, spent>>

\* The process that was refused has told its user.
Gone(p) ==
  /\ pc[p] = "refused"
  /\ Goto(p, "none", 1)
  /\ UNCHANGED <<file, seen, retry, spent>>

-----------------------------------------------------------------------------
(* The environment *)

Crash(p) ==
  /\ pc[p] \in Daemon
  /\ Spend("crash", MaxCrashes)
  /\ Goto(p, "none", 1)
  /\ UNCHANGED <<file, seen, retry>>

\* SIGSTOP and SIGCONT.
Stop(p) ==
  /\ pc[p] = "run"
  /\ Spend("stop", MaxStops)
  /\ Goto(p, "stopped", at[p])
  /\ UNCHANGED <<file, seen, retry>>

Continue(p) ==
  /\ pc[p] = "stopped"
  /\ Goto(p, "run", at[p])
  /\ UNCHANGED <<file, seen, retry, spent>>

\* A PID is used by another program; a hidden one cannot be signalled, or its
\* comm cannot be read.
Recycle(p) ==
  /\ pc[p] = "none"
  /\ \E kind \in {"other", "hidden"} : Goto(p, kind, 1)
  /\ UNCHANGED <<file, seen, retry, spent>>

OtherExits(p) ==
  /\ pc[p] \in {"other", "hidden"}
  /\ Goto(p, "none", 1)
  /\ UNCHANGED <<file, seen, retry, spent>>

\* A process that a start has to give way to: another daemon, or one that
\* cannot be looked at.
InTheWay == Daemon \cup {"hidden"}

\* The history variables follow every step.
Observe ==
  /\ alone' = [p \in Pids |->
                 /\ pc[p] = "none" \/ alone[p]
                 /\ \A q \in Pids \ {p} : pc'[q] \notin InTheWay
                 /\ spent'["fail"] = spent["fail"]]
  /\ raced' = \/ \E p, q \in Pids : p # q /\ {pc'[p], pc'[q]} \subseteq Starting
              \/ raced /\ \E p \in Pids : pc'[p] \in Daemon

Next ==
  /\ \E p \in Pids :
       \/ Start(p) \/ Gate(p) \/ Create(p) \/ Fill(p) \/ FillFails(p)
       \/ ClearLook(p) \/ ClearUnlink(p) \/ Exit(p) \/ Gone(p)
       \/ Crash(p) \/ Stop(p) \/ Continue(p) \/ Recycle(p) \/ OtherExits(p)
  /\ Observe

Spec == Init /\ [][Next]_vars

-----------------------------------------------------------------------------
(* Properties *)

\* Every variable has its type.
TypeOK ==
  /\ file \in [Candidates -> Contents]
  /\ pc \in [Pids -> Daemon \cup {"none", "refused", "other", "hidden"}]
  /\ at \in [Pids -> Candidates]
  /\ seen \in [Pids -> Contents]
  /\ retry \in [Pids -> BOOLEAN]
  /\ spent \in [Bounded -> Nat]
  /\ alone \in [Pids -> BOOLEAN]
  /\ raced \in BOOLEAN

Running == {p \in Pids : pc[p] \in {"run", "stopped"}}

\* A stopped daemon gives up its place, and starts that overlap are not kept
\* apart: each may pass the gate before the other has filled its file.
InTurn == spent["stop"] = 0 /\ ~raced

\* K1, PID-1: it takes two starts that overlap, one of them before the other has
\* filled its file, to bring a second daemon past the PID files, whatever earlier
\* daemons left in them; and it is over when the daemons of that race are gone.
AtMostOneDaemon == InTurn => \A p, q \in Running : p = q

\* PID-3: the file of a running daemon is there and names it, so that the next
\* start finds it; also this takes overlapping starts to break.
LiveDaemonKeepsFile == InTurn => \A p \in Running : file[at[p]] = Holds(p)

\* K1, PID-1 and PID-3 together: one daemon, and its file stays its own.
OneDaemon == TypeOK /\ AtMostOneDaemon /\ LiveDaemonKeepsFile

Refuses(p) == pc[p] # "refused" /\ pc'[p] = "refused"

NamesItself(p) == \E c \in Candidates : file[c] = Holds(p)

\* PID-2, T40-PID01, R1-14: the files that earlier daemons left behind, in any
\* state, never brick the start.  A start during which no other daemon and no
\* process that cannot be looked at exists, and no write fails, is not refused,
\* unless a stale file names the starting process itself.
StaleFilesDoNotBrick ==
  [][\A p \in Pids : Refuses(p) => ~alone[p] \/ NamesItself(p)]_vars
=============================================================================
