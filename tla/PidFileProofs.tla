--------------------------- MODULE PidFileProofs ---------------------------
(***************************************************************************)
(* Proofs about the PID files for any number of processes and candidate    *)
(* files, and any number of starts, also at the same time, of crashes,     *)
(* failed writes and re-used PIDs: one daemon runs and its file stays its  *)
(* own as long as no two starts have overlapped since there was none, and  *)
(* what earlier daemons left behind never refuses a start.                 *)
(***************************************************************************)
EXTENDS PidFile, TLAPS

LEMMA CandidateFacts ==
  /\ N \in Nat /\ N > 1 /\ 1 \in Candidates /\ N \in Candidates
  /\ \A c \in Candidates : c \in Nat /\ c >= 1 /\ c <= N
  /\ \A c \in Candidates : c < N => c + 1 \in Candidates
BY PidAssumption DEF Candidates

\* The three kinds of contents are different.
LEMMA ContentFacts ==
  /\ None \in Contents /\ None.kind = "none"
  /\ \A p \in Pids : /\ EmptyBy(p) \in Contents /\ Holds(p) \in Contents
                     /\ EmptyBy(p) # None /\ Holds(p) # None
                     /\ EmptyBy(p).kind = "empty"
                     /\ Holds(p).kind = "pid" /\ Holds(p).pid = p
  /\ \A p, q \in Pids : Holds(p) # EmptyBy(q) /\ (Holds(p) = Holds(q) => p = q)
  /\ \A x \in Contents : \/ x = None
                         \/ x.kind = "empty"
                         \/ x.kind = "pid" /\ x.pid \in Pids /\ x = Holds(x.pid)
<1>1. ASSUME NEW p \in Pids
      PROVE  /\ EmptyBy(p) \in Contents /\ Holds(p) \in Contents
             /\ EmptyBy(p).kind = "empty" /\ Holds(p).kind = "pid" /\ Holds(p).pid = p
  BY DEF EmptyBy, Holds, Contents
<1>2. None \in Contents /\ None.kind = "none"
  BY DEF None, Contents
<1>3. ASSUME NEW x \in Contents
      PROVE  x = None \/ \E p \in Pids : x = EmptyBy(p) \/ x = Holds(p)
  BY DEF Contents
<1>. QED
  BY <1>1, <1>2, <1>3

-----------------------------------------------------------------------------
(* Types *)

\* The history variables are determined by the step.
LEMMA ObserveFacts ==
  ASSUME Observe
  PROVE  /\ alone' \in [Pids -> BOOLEAN] /\ raced' \in BOOLEAN
         /\ \A p \in Pids : alone'[p] =>
              /\ pc[p] = "none" \/ alone[p]
              /\ \A q \in Pids \ {p} : pc'[q] \notin InTheWay
              /\ spent'["fail"] = spent["fail"]
BY DEF Observe

LEMMA TypeStep == TypeOK /\ [Next]_vars => TypeOK'
<1>. SUFFICES ASSUME TypeOK, [Next]_vars PROVE TypeOK'
  OBVIOUS
<1>1. CASE Next
  <2>1. PICK p \in Pids :
          \/ Start(p) \/ Gate(p) \/ Create(p) \/ Fill(p) \/ FillFails(p)
          \/ ClearLook(p) \/ ClearUnlink(p) \/ Exit(p) \/ Gone(p)
          \/ Crash(p) \/ Stop(p) \/ Continue(p) \/ Recycle(p) \/ OtherExits(p)
    BY <1>1 DEF Next
  <2>2. Observe
    BY <1>1 DEF Next
  <2>3. alone' \in [Pids -> BOOLEAN] /\ raced' \in BOOLEAN
    BY <2>2, ObserveFacts
  <2>. USE CandidateFacts, ContentFacts
  <2>4. \E w \in Daemon \cup {"none", "refused", "other", "hidden"}, c \in Candidates : Goto(p, w, c)
    <3>. USE DEF TypeOK, Daemon, Starting
    <3>1. CASE Gate(p)
      BY <3>1 DEF Gate, Advance
    <3>2. CASE Create(p)
      BY <3>2 DEF Create, NextWrite, Advance
    <3>3. CASE FillFails(p)
      BY <3>3 DEF FillFails
    <3>4. CASE ClearLook(p)
      BY <3>4 DEF ClearLook, Advance
    <3>5. CASE ClearUnlink(p)
      BY <3>5 DEF ClearUnlink
    <3>6. CASE Start(p) \/ Fill(p) \/ Exit(p) \/ Gone(p) \/ Crash(p) \/ Stop(p) \/ Continue(p)
      BY <3>6 DEF Start, Fill, Exit, Gone, Crash, Stop, Continue
    <3>7. CASE Recycle(p) \/ OtherExits(p)
      BY <3>7 DEF Recycle, OtherExits
    <3>. QED
      BY <2>1, <3>1, <3>2, <3>3, <3>4, <3>5, <3>6, <3>7
  <2>5. pc' \in [Pids -> Daemon \cup {"none", "refused", "other", "hidden"}] /\ at' \in [Pids -> Candidates]
    BY <2>4 DEF TypeOK, Goto
  <2>8. seen' \in [Pids -> Contents]
    <3>1. file[at[p]] \in Contents
      BY DEF TypeOK
    <3>2. \/ UNCHANGED seen
          \/ seen' = [seen EXCEPT ![p] = file[at[p]]]
      BY <2>1 DEF Start, Gate, Create, Fill, FillFails, ClearLook, ClearUnlink, Exit, Gone,
                  Crash, Stop, Continue, Recycle, OtherExits
    <3>. QED
      BY <3>1, <3>2 DEF TypeOK
  <2>9. \/ UNCHANGED file
        \/ \E x \in Contents : file' = [file EXCEPT ![at[p]] = x]
    <3>1. CASE Create(p)
      BY <3>1 DEF Create
    <3>2. CASE Fill(p)
      BY <3>2 DEF Fill, TypeOK
    <3>3. CASE FillFails(p) \/ ClearUnlink(p) \/ Exit(p)
      BY <3>3 DEF FillFails, ClearUnlink, Exit
    <3>. QED
      BY <2>1, <3>1, <3>2, <3>3 DEF Start, Gate, ClearLook, Gone, Crash, Stop, Continue, Recycle, OtherExits
  <2>10. file' \in [Candidates -> Contents]
    BY <2>9 DEF TypeOK
  <2>6. retry' \in [Pids -> BOOLEAN]
    BY <2>1 DEF TypeOK, Start, Gate, Create, Fill, FillFails, ClearLook, ClearUnlink, Exit, Gone,
                Crash, Stop, Continue, Recycle, OtherExits
  <2>7. spent' \in [Bounded -> Nat]
    BY <2>1 DEF TypeOK, Start, Gate, Create, Fill, FillFails, ClearLook, ClearUnlink, Exit, Gone,
                Crash, Stop, Continue, Recycle, OtherExits, Spend
  <2>. QED
    BY <2>3, <2>5, <2>6, <2>7, <2>8, <2>10 DEF TypeOK
<1>2. CASE UNCHANGED vars
  BY <1>2 DEF TypeOK, vars
<1>. QED
  BY <1>1, <1>2

LEMMA TypeInit == Init => TypeOK
<1>. SUFFICES ASSUME Init PROVE TypeOK
  OBVIOUS
<1>1. /\ file \in [Candidates -> Contents]
      /\ pc \in [Pids -> Daemon \cup {"none", "refused", "other", "hidden"}]
      /\ at \in [Pids -> Candidates]
      /\ seen \in [Pids -> Contents]
      /\ spent \in [Bounded -> Nat]
  BY CandidateFacts, ContentFacts DEF Init, Bounded
<1>2. retry \in [Pids -> BOOLEAN] /\ alone \in [Pids -> BOOLEAN]
  BY Zenon DEF Init
<1>3. raced \in BOOLEAN
  BY Zenon DEF Init
<1>. QED
  BY <1>1, <1>2, <1>3, Zenon DEF TypeOK

-----------------------------------------------------------------------------
(* One daemon *)

\* No daemon was stopped so far.
NeverStopped == spent["stop"] = 0

\* One process starts at a time; while a daemon runs, its file names it and a
\* process that starts is still at the gate and not past this file; and a file
\* that is about to be filled is there.
OneByOne ==
  /\ \A p, q \in Pids : pc[p] \in Starting /\ pc[q] \in Starting => p = q
  /\ NeverStopped =>
       /\ \A p \in Pids : pc[p] # "stopped"
       /\ \A p, q \in Running : p = q
       /\ \A p \in Running :
            /\ file[at[p]] = Holds(p)
            /\ \A q \in Pids : pc[q] \in Starting => pc[q] = "gate" /\ at[q] <= at[p]
       /\ \A p \in Pids : pc[p] = "fill" => file[at[p]] = EmptyBy(p)

\* It holds as long as starts do not overlap.
StartInv == ~raced => OneByOne

\* A start that does not overlap begins when no other is under way.
LEMMA StartsAlone ==
  ASSUME TypeOK, NEW p \in Pids, Start(p), Observe, ~raced'
  PROVE  \A q \in Pids : pc[q] \notin Starting
<1>1. pc[p] = "none" /\ pc'[p] = "gate" /\ \A q \in Pids : q # p => pc'[q] = pc[q]
  BY DEF Start, Goto, TypeOK
<1>2. \A q \in Pids : q # p => ~({pc'[p], pc'[q]} \subseteq Starting)
  BY DEF Observe
<1>. QED
  BY <1>1, <1>2 DEF Starting

LEMMA OneByOneStep ==
  ASSUME TypeOK, OneByOne, Next, ~raced'
  PROVE  OneByOne'
<1>. USE CandidateFacts, ContentFacts
<1>0. Observe
  BY DEF Next
<1>1. ASSUME NEW p \in Pids, Start(p) PROVE OneByOne'
  <2>1. UNCHANGED file /\ spent'["stop"] = spent["stop"] /\ pc[p] = "none"
    BY <1>1 DEF Start, Spend, TypeOK, Bounded
  <2>2. \A q \in Pids :
          /\ q = p => pc'[q] = "gate" /\ at'[q] = 1
          /\ q # p => pc'[q] = pc[q] /\ at'[q] = at[q] /\ pc[q] \notin Starting
    BY <1>1, <1>0, StartsAlone DEF Start, Goto, TypeOK
  <2>3. \A q \in Pids : at[q] \in Candidates
    BY DEF TypeOK
  <2>4. Running' = Running /\ p \notin Running /\ (NeverStopped' <=> NeverStopped)
    BY <2>1, <2>2 DEF Running, NeverStopped
  <2>5. \A q, r \in Pids : pc'[q] \in Starting /\ pc'[r] \in Starting => q = r
    BY <2>2
  <2>6. ASSUME NeverStopped
        PROVE  /\ \A q \in Pids : pc'[q] # "stopped"
               /\ \A q, r \in Running : q = r
               /\ \A q \in Pids : pc'[q] = "fill" => file'[at'[q]] = EmptyBy(q)
    BY <2>1, <2>2, <2>6 DEF OneByOne
  <2>7. ASSUME NeverStopped, NEW q \in Running
        PROVE  /\ file'[at'[q]] = Holds(q)
               /\ \A r \in Pids : pc'[r] \in Starting => pc'[r] = "gate" /\ at'[r] <= at'[q]
    <3>1. q \in Pids /\ q # p /\ at'[q] = at[q] /\ at[q] >= 1 /\ file[at[q]] = Holds(q)
      BY <2>2, <2>3, <2>4, <2>7 DEF OneByOne, Running
    <3>. QED
      BY <3>1, <2>1, <2>2
  <2>. QED
    BY <2>4, <2>5, <2>6, <2>7 DEF OneByOne
<1>2. ASSUME NEW p \in Pids, Gate(p) PROVE OneByOne'
  <2>1. UNCHANGED <<file, spent>> /\ pc[p] = "gate"
    BY <1>2 DEF Gate
  <2>2. \A q \in Pids : at[q] \in Candidates /\ (q # p => pc'[q] = pc[q] /\ at'[q] = at[q])
    BY <1>2 DEF Gate, Advance, Goto, TypeOK
  <2>3. \/ pc'[p] = "refused"
        \/ /\ ~pid_file_is_live(file[at[p]])
           /\ \/ pc'[p] = "gate" /\ at'[p] = at[p] + 1
              \/ pc'[p] = "write" /\ at[p] = N
    <3>1. CASE pid_file_is_live(file[at[p]])
      BY <1>2, <3>1 DEF Gate, Goto, TypeOK
    <3>2. CASE ~pid_file_is_live(file[at[p]]) /\ at[p] < N
      BY <1>2, <3>2 DEF Gate, Advance, Goto, TypeOK
    <3>3. CASE ~pid_file_is_live(file[at[p]]) /\ ~(at[p] < N)
      <4>1. pc'[p] = "write"
        BY <1>2, <3>3 DEF Gate, Advance, Goto, TypeOK
      <4>2. at[p] \in Nat /\ at[p] <= N /\ N \in Nat
        BY <2>2
      <4>. QED
        BY <4>1, <4>2, <3>3
    <3>. QED
      BY <3>1, <3>2, <3>3
  <2>4. ASSUME NeverStopped, NEW q \in Running, pc'[p] # "refused"
        PROVE  at[p] < at[q]
    <3>1. file[at[q]] = Holds(q) /\ at[p] <= at[q] /\ pc[q] = "run"
      BY <2>1, <2>4 DEF OneByOne, Running, Starting
    <3>2. pid_file_is_live(Holds(q))
      BY <3>1, <2>4 DEF pid_file_is_live, Daemon, Running
    <3>3. at[p] # at[q]
      BY <3>1, <3>2, <2>3, <2>4
    <3>4. at[p] \in Nat /\ at[q] \in Nat
      BY <2>2, <2>4 DEF Running
    <3>. QED
      BY <3>1, <3>3, <3>4
  <2>5. Running' = Running /\ p \notin Running /\ (NeverStopped' <=> NeverStopped)
    BY <2>1, <2>2, <2>3 DEF Running, NeverStopped
  <2>6. \A q, r \in Pids : pc'[q] \in Starting /\ pc'[r] \in Starting => q = r
    <3>1. pc[p] \in Starting
      BY <2>1 DEF Starting
    <3>. QED
      BY <2>2, <3>1 DEF OneByOne
  <2>7. ASSUME NeverStopped
        PROVE  /\ \A q \in Pids : pc'[q] # "stopped"
               /\ \A q, r \in Running : q = r
               /\ \A q \in Pids : pc'[q] = "fill" => file'[at'[q]] = EmptyBy(q)
    BY <2>1, <2>2, <2>3, <2>7 DEF OneByOne
  <2>8. ASSUME NeverStopped, NEW q \in Running
        PROVE  /\ file'[at'[q]] = Holds(q)
               /\ \A r \in Pids : pc'[r] \in Starting => pc'[r] = "gate" /\ at'[r] <= at'[q]
    <3>1. /\ q \in Pids /\ q # p /\ at'[q] = at[q] /\ file[at[q]] = Holds(q)
          /\ at[q] \in Nat /\ at[q] <= N /\ at[p] \in Nat /\ N \in Nat
      BY <2>2, <2>5, <2>8 DEF OneByOne, Running
    <3>2. ASSUME NEW r \in Pids, pc'[r] \in Starting PROVE r = p
      BY <2>1, <2>2, <3>2 DEF OneByOne, Starting
    <3>3. ASSUME pc'[p] \in Starting PROVE pc'[p] = "gate" /\ at'[p] <= at[q]
      <4>1. at[p] < at[q]
        BY <2>4, <2>8, <3>3 DEF Starting
      <4>2. at[p] # N
        BY <3>1, <4>1
      <4>3. pc'[p] = "gate" /\ at'[p] = at[p] + 1
        BY <2>3, <3>3, <4>2 DEF Starting
      <4>. QED
        BY <3>1, <4>1, <4>3
    <3>. QED
      BY <2>1, <3>1, <3>2, <3>3
  <2>. QED
    BY <2>5, <2>6, <2>7, <2>8 DEF OneByOne
<1>3. ASSUME NEW p \in Pids, Create(p) PROVE OneByOne'
  BY <1>3 DEF TypeOK, OneByOne, Running, NeverStopped, Create, NextWrite, Advance, Goto, Starting
<1>4. ASSUME NEW p \in Pids, Fill(p) PROVE OneByOne'
  BY <1>4 DEF TypeOK, OneByOne, Running, NeverStopped, Fill, Goto, Starting
<1>5. ASSUME NEW p \in Pids, FillFails(p) PROVE OneByOne'
  BY <1>5 DEF TypeOK, OneByOne, Running, NeverStopped, FillFails, Goto, Spend, Starting, Bounded
<1>6. ASSUME NEW p \in Pids, ClearLook(p) PROVE OneByOne'
  BY <1>6 DEF TypeOK, OneByOne, Running, NeverStopped, ClearLook, Advance, Goto, Starting
<1>7. ASSUME NEW p \in Pids, ClearUnlink(p) PROVE OneByOne'
  BY <1>7 DEF TypeOK, OneByOne, Running, NeverStopped, ClearUnlink, Goto, Starting
<1>8. ASSUME NEW p \in Pids, Exit(p) PROVE OneByOne'
  BY <1>8 DEF TypeOK, OneByOne, Running, NeverStopped, Exit, Goto, Starting
<1>9. ASSUME NEW p \in Pids, Gone(p) \/ Recycle(p) \/ OtherExits(p) PROVE OneByOne'
  <2>1. UNCHANGED <<file, spent>> /\ pc[p] \notin Starting \cup {"run", "stopped"}
    BY <1>9 DEF Gone, Recycle, OtherExits, Starting
  <2>2. PICK w \in {"none", "other", "hidden"} : Goto(p, w, 1)
    BY <1>9 DEF Gone, Recycle, OtherExits
  <2>3. \A q \in Pids :
          /\ q = p => pc'[q] = w
          /\ q # p => pc'[q] = pc[q] /\ at'[q] = at[q]
    BY <2>2 DEF Goto, TypeOK
  <2>. QED
    BY <2>1, <2>3 DEF OneByOne, Running, NeverStopped, Starting
<1>10. ASSUME NEW p \in Pids, Crash(p) PROVE OneByOne'
  BY <1>10 DEF TypeOK, OneByOne, Running, NeverStopped, Crash, Goto, Spend, Starting, Bounded
<1>11. ASSUME NEW p \in Pids, Stop(p) PROVE OneByOne'
  BY <1>11 DEF TypeOK, OneByOne, Running, NeverStopped, Stop, Goto, Spend, Starting, Bounded
<1>12. ASSUME NEW p \in Pids, Continue(p) PROVE OneByOne'
  BY <1>12 DEF TypeOK, OneByOne, Running, NeverStopped, Continue, Goto, Starting
<1>. QED
  BY <1>1, <1>2, <1>3, <1>4, <1>5, <1>6, <1>7, <1>8, <1>9, <1>10, <1>11, <1>12 DEF Next

LEMMA StartInvStep == TypeOK /\ StartInv /\ [Next]_vars => StartInv'
<1>. SUFFICES ASSUME TypeOK, StartInv, [Next]_vars, ~raced' PROVE OneByOne'
  BY DEF StartInv
<1>1. CASE Next /\ ~raced
  BY <1>1, OneByOneStep DEF StartInv
<1>2. CASE Next /\ raced
  <2>1. \A p \in Pids : pc'[p] \notin Daemon
    BY <1>2 DEF Next, Observe
  <2>2. \A p \in Pids : pc'[p] \notin Starting \cup {"run", "stopped", "fill"}
    BY <2>1 DEF Daemon, Starting
  <2>. QED
    BY <2>2 DEF OneByOne, Running
<1>3. CASE UNCHANGED vars
  BY <1>3 DEF StartInv, OneByOne, Running, NeverStopped, vars
<1>. QED
  BY <1>1, <1>2, <1>3

LEMMA StartInvInit == Init => StartInv
BY DEF Init, StartInv, OneByOne, Running, Starting

\* K1, PID-1, PID-3: a second daemon comes past the PID files, or a running one
\* loses its file, only if two starts have overlapped since there was no daemon
\* (or one was stopped), for any number of starters and candidate files, and
\* whatever crashes, failed writes, orderly exits and re-used PIDs came before.
THEOREM OneDaemonAlways == Spec => []OneDaemon
<1>1. Init => TypeOK /\ StartInv
  BY TypeInit, StartInvInit
<1>2. TypeOK /\ StartInv /\ [Next]_vars => (TypeOK /\ StartInv)'
  BY TypeStep, StartInvStep
<1>3. TypeOK /\ StartInv => OneDaemon
  BY DEF StartInv, OneByOne, OneDaemon, AtMostOneDaemon, LiveDaemonKeepsFile, InTurn, NeverStopped
<1>. QED
  BY <1>1, <1>2, <1>3, PTL DEF Spec

-----------------------------------------------------------------------------
(* Stale files *)

\* What holds for a start with nobody in its way.  On the first pass the
\* candidates behind it are taken; when it clears, all are taken, and those
\* behind it name itself (every other content is stale); on the second pass the
\* one it has cleared is still ahead of it.
Undisturbed(p) ==
  /\ \A q \in Pids \ {p} : pc[q] \notin InTheWay
  /\ pc[p] = "gate" => ~retry[p]
  /\ pc[p] = "write" /\ ~retry[p] =>
       \A c \in Candidates : c < at[p] => file[c] # None
  /\ pc[p] = "write" /\ retry[p] =>
       \E c \in Candidates : /\ c >= at[p] /\ file[c] = None
                             /\ \A b \in Candidates : b < c => file[b] = Holds(p)
  /\ pc[p] = "fill" /\ retry[p] =>
       \A b \in Candidates : b < at[p] => file[b] = Holds(p)
  /\ pc[p] \in {"clear", "unlink"} =>
       /\ ~retry[p]
       /\ \A c \in Candidates : c >= at[p] => file[c] # None
       /\ \A b \in Candidates : b < at[p] => file[b] = Holds(p)

AloneInv == \A p \in Pids : alone[p] => Undisturbed(p)

\* One step of the process p.
Does(p) ==
  \/ Start(p) \/ Gate(p) \/ Create(p) \/ Fill(p) \/ FillFails(p)
  \/ ClearLook(p) \/ ClearUnlink(p) \/ Exit(p) \/ Gone(p)
  \/ Crash(p) \/ Stop(p) \/ Continue(p) \/ Recycle(p) \/ OtherExits(p)

\* A step of p moves no other process.
LEMMA OthersStay ==
  ASSUME TypeOK, NEW p \in Pids, Does(p)
  PROVE  \A q \in Pids \ {p} : pc'[q] = pc[q] /\ at'[q] = at[q] /\ retry'[q] = retry[q]
<1>1. \E w, c : Goto(p, w, c)
  <2>1. CASE Gate(p) \/ Create(p) \/ ClearLook(p)
    BY <2>1 DEF Gate, Create, NextWrite, ClearLook, Advance
  <2>2. CASE ClearUnlink(p) \/ FillFails(p)
    BY <2>2 DEF ClearUnlink, FillFails
  <2>3. CASE Recycle(p)
    BY <2>3 DEF Recycle
  <2>. QED
    BY <2>1, <2>2, <2>3 DEF Does, Start, Fill, Exit, Gone, Crash, Stop, Continue, OtherExits
<1>2. UNCHANGED retry \/ \E x : retry' = [retry EXCEPT ![p] = x]
  BY DEF Does, Start, Gate, Create, Fill, FillFails, ClearLook, ClearUnlink, Exit, Gone,
         Crash, Stop, Continue, Recycle, OtherExits
<1>. QED
  BY <1>1, <1>2 DEF Goto, TypeOK

\* A process that is not in the way of a start, and does not get in its way,
\* leaves the files alone.
LEMMA BystandersTouchNothing ==
  ASSUME TypeOK, NEW r \in Pids, Does(r), pc[r] \notin InTheWay
  PROVE  UNCHANGED file
BY DEF Does, Start, Gate, Create, Fill, FillFails, ClearLook, ClearUnlink, Exit, Gone,
       Crash, Stop, Continue, Recycle, OtherExits, InTheWay, Daemon, Starting

LEMMA OtherStep ==
  ASSUME TypeOK, AloneInv, Observe, NEW p \in Pids, NEW r \in Pids \ {p}, Does(r), alone'[p]
  PROVE  Undisturbed(p)'
<1>1. /\ pc[p] = "none" \/ alone[p]
      /\ \A q \in Pids \ {p} : pc'[q] \notin InTheWay
  BY ObserveFacts
<1>2. pc'[p] = pc[p] /\ at'[p] = at[p] /\ retry'[p] = retry[p]
  BY OthersStay
<1>3. CASE pc[p] = "none"
  BY <1>1, <1>2, <1>3 DEF Undisturbed
<1>4. CASE alone[p]
  <2>1. Undisturbed(p)
    BY <1>4 DEF AloneInv
  <2>2. UNCHANGED file
    BY <2>1, BystandersTouchNothing DEF Undisturbed
  <2>. QED
    BY <1>1, <1>2, <2>1, <2>2 DEF Undisturbed
<1>. QED
  BY <1>1, <1>3, <1>4

\* A file that names a process in the way of a start names the starter.
LEMMA NamedInTheWay ==
  ASSUME TypeOK, NEW p \in Pids, Undisturbed(p), NEW c \in Candidates,
         file[c].kind = "pid", pc[file[c].pid] \in InTheWay
  PROVE  file[c] = Holds(p)
<1>1. file[c] \in Contents
  BY DEF TypeOK
<1>2. file[c] # None
  BY ContentFacts
<1>3. file[c].pid \in Pids /\ file[c] = Holds(file[c].pid)
  BY <1>1, <1>2, ContentFacts
<1>. QED
  BY <1>3 DEF Undisturbed

\* What is there and is not stale names the starter.
LEMMA FreshIsOwn ==
  ASSUME TypeOK, NEW p \in Pids, Undisturbed(p), NEW c \in Candidates,
         file[c] # None, ~Stale(file[c])
  PROVE  file[c] = Holds(p)
<1>1. file[c] \in Contents
  BY DEF TypeOK
<1>2. file[c].kind = "pid" /\ file[c].pid \in Pids
  BY <1>1, ContentFacts DEF Stale
<1>3. pc[file[c].pid] \in InTheWay
  BY <1>2 DEF Stale, TypeOK, InTheWay, Daemon
<1>. QED
  BY <1>2, <1>3, NamedInTheWay

\* Where a step of p goes, in the steps that walk along the candidates.
LEMMA GotoFacts ==
  ASSUME TypeOK, NEW p \in Pids, NEW w, NEW c, Goto(p, w, c)
  PROVE  pc'[p] = w /\ at'[p] = c
BY DEF Goto, TypeOK

LEMMA AdvanceFacts ==
  ASSUME TypeOK, NEW p \in Pids, NEW w, Advance(p, w)
  PROVE  \/ pc'[p] = pc[p] /\ at'[p] = at[p] + 1 /\ at[p] < N
         \/ pc'[p] = w /\ at'[p] = 1 /\ at[p] = N
<1>1. at[p] \in Nat /\ at[p] <= N /\ N \in Nat
  BY CandidateFacts DEF TypeOK
<1>2. CASE at[p] < N
  BY <1>2, GotoFacts DEF Advance
<1>3. CASE ~(at[p] < N)
  <2>1. at[p] = N
    BY <1>1, <1>3
  <2>2. Goto(p, w, 1)
    BY <1>3 DEF Advance
  <2>. QED
    BY <2>1, <2>2, GotoFacts
<1>. QED
  BY <1>2, <1>3

\* The start is refused only by a file that names the starter.
LEMMA OwnRefusal ==
  ASSUME TypeOK, NEW p \in Pids, Undisturbed(p), Does(p), Refuses(p)
  PROVE  NamesItself(p)
<1>. USE CandidateFacts
<1>0. at[p] \in Candidates /\ at[p] \in Nat /\ at[p] >= 1 /\ at[p] <= N
  BY DEF TypeOK
<1>1. CASE Gate(p)
  <2>1. pid_file_is_live(file[at[p]])
    <3>. SUFFICES ASSUME ~pid_file_is_live(file[at[p]]) PROVE FALSE
      OBVIOUS
    <3>1. Advance(p, "write") /\ pc[p] = "gate"
      BY <1>1 DEF Gate
    <3>. QED
      BY <3>1, AdvanceFacts DEF Refuses
  <2>2. file[at[p]] = Holds(p)
    BY <1>0, <2>1, NamedInTheWay DEF pid_file_is_live, InTheWay
  <2>. QED
    BY <1>0, <2>2 DEF NamesItself
<1>2. CASE Create(p)
  <2>1. NextWrite(p) /\ file[at[p]] # None /\ pc[p] = "write"
    <3>1. CASE file[at[p]] = None
      BY <1>2, <3>1, GotoFacts DEF Create, Refuses
    <3>. QED
      BY <1>2, <3>1 DEF Create
  <2>2. at[p] = N /\ retry[p]
    BY <2>1, AdvanceFacts DEF NextWrite, Refuses, TypeOK
  <2>3. PICK c \in Candidates : c >= at[p] /\ file[c] = None
    BY <2>1, <2>2 DEF Undisturbed
  <2>4. c = at[p]
    <3>1. c \in Nat /\ c <= N /\ N \in Nat
      OBVIOUS
    <3>. QED
      BY <2>2, <2>3, <3>1
  <2>. QED
    BY <2>1, <2>3, <2>4
<1>3. CASE FillFails(p)
  <2>1. retry[p] /\ ~(at[p] < N) /\ pc[p] = "fill"
    BY <1>3, GotoFacts DEF FillFails, Refuses, TypeOK
  <2>2. file[1] = Holds(p)
    BY <1>0, <2>1 DEF Undisturbed
  <2>. QED
    BY <2>2 DEF NamesItself
<1>4. CASE ClearLook(p)
  <2>1. ~Stale(file[at[p]])
    BY <1>4, GotoFacts DEF ClearLook, Refuses
  <2>2. file[at[p]] # None
    BY <1>0, <1>4 DEF ClearLook, Undisturbed
  <2>3. file[at[p]] = Holds(p)
    BY <1>0, <2>1, <2>2, FreshIsOwn
  <2>. QED
    BY <1>0, <2>3 DEF NamesItself
<1>5. CASE ClearUnlink(p)
  <2>1. file[at[p]] # None
    BY <1>0, <1>5 DEF ClearUnlink, Undisturbed
  <2>. QED
    BY <1>5, <2>1, GotoFacts DEF ClearUnlink, Refuses
<1>6. CASE Start(p) \/ Fill(p) \/ Exit(p) \/ Gone(p) \/ Crash(p) \/ Stop(p) \/ Continue(p) \/ OtherExits(p)
  BY <1>6, GotoFacts DEF Start, Fill, Exit, Gone, Crash, Stop, Continue, OtherExits, Refuses
<1>7. CASE Recycle(p)
  BY <1>7, GotoFacts DEF Recycle, Refuses
<1>. QED
  BY <1>1, <1>2, <1>3, <1>4, <1>5, <1>6, <1>7 DEF Does

LEMMA OwnStep ==
  ASSUME TypeOK, NEW p \in Pids, Undisturbed(p), Does(p),
         spent'["fail"] = spent["fail"],
         \A q \in Pids \ {p} : pc'[q] \notin InTheWay
  PROVE  Undisturbed(p)'
<1>. USE CandidateFacts
<1>0. at[p] \in Candidates /\ at[p] \in Nat /\ at[p] >= 1 /\ at[p] <= N
  BY DEF TypeOK
<1>1. CASE Gate(p)
  <2>1. UNCHANGED <<file, retry>> /\ pc[p] = "gate" /\ ~retry[p]
    BY <1>1 DEF Gate, Undisturbed
  <2>2. pc'[p] \in {"refused", "gate"} \/ (pc'[p] = "write" /\ at'[p] = 1)
    <3>1. CASE pid_file_is_live(file[at[p]])
      BY <1>1, <3>1, GotoFacts DEF Gate
    <3>2. CASE ~pid_file_is_live(file[at[p]])
      <4>1. Advance(p, "write")
        BY <1>1, <3>2 DEF Gate
      <4>2. pc'[p] = pc[p] \/ (pc'[p] = "write" /\ at'[p] = 1)
        BY <4>1, AdvanceFacts
      <4>. QED
        BY <4>2, <2>1
    <3>. QED
      BY <3>1, <3>2
  <2>. QED
    BY <2>1, <2>2 DEF Undisturbed
<1>2. CASE Create(p)
  <2>0. UNCHANGED retry /\ pc[p] = "write"
    BY <1>2 DEF Create
  <2>1. CASE file[at[p]] = None
    <3>1. pc'[p] = "fill" /\ at'[p] = at[p] /\ file' = [file EXCEPT ![at[p]] = EmptyBy(p)]
      BY <1>2, <2>1, GotoFacts DEF Create
    <3>2. ASSUME retry[p], NEW b \in Candidates, b < at[p] PROVE file[b] = Holds(p)
      <4>1. PICK c \in Candidates : c >= at[p] /\ \A d \in Candidates : d < c => file[d] = Holds(p)
        BY <2>0, <3>2 DEF Undisturbed
      <4>2. b < c
        <5>1. b \in Nat /\ c \in Nat
          OBVIOUS
        <5>. QED
          BY <1>0, <4>1, <3>2, <5>1
      <4>. QED
        BY <4>1, <4>2
    <3>3. \A b \in Candidates : b < at[p] => file'[b] = file[b]
      BY <1>0, <3>1 DEF TypeOK
    <3>. QED
      BY <2>0, <3>1, <3>2, <3>3 DEF Undisturbed
  <2>2. CASE file[at[p]] # None
    <3>1. UNCHANGED file
      BY <1>2, <2>2 DEF Create
    <3>2. \/ pc'[p] = "write" /\ at'[p] = at[p] + 1
          \/ pc'[p] = (IF retry[p] THEN "refused" ELSE "clear") /\ at'[p] = 1 /\ at[p] = N
      BY <1>2, <2>0, <2>2, AdvanceFacts DEF Create, NextWrite
    <3>3. ASSUME ~retry[p], NEW c \in Candidates, c < at[p] + 1 PROVE file[c] # None
      <4>1. c < at[p] \/ c = at[p]
        BY <1>0, <3>3
      <4>. QED
        BY <4>1, <2>0, <2>2, <3>3 DEF Undisturbed
    <3>4. ASSUME retry[p]
          PROVE \E c \in Candidates : /\ c >= at[p] + 1 /\ file[c] = None
                                      /\ \A b \in Candidates : b < c => file[b] = Holds(p)
      <4>1. PICK c \in Candidates : /\ c >= at[p] /\ file[c] = None
                                    /\ \A b \in Candidates : b < c => file[b] = Holds(p)
        BY <2>0, <3>4 DEF Undisturbed
      <4>2. c # at[p]
        BY <4>1, <2>2
      <4>3. c >= at[p] + 1
        BY <1>0, <4>1, <4>2
      <4>. QED
        BY <4>1, <4>3
    <3>5. CASE pc'[p] = "write" /\ at'[p] = at[p] + 1
      BY <2>0, <3>1, <3>3, <3>4, <3>5 DEF Undisturbed
    <3>6. CASE pc'[p] = (IF retry[p] THEN "refused" ELSE "clear") /\ at'[p] = 1 /\ at[p] = N
      <4>1. \A c \in Candidates : c < at[p] + 1 /\ ~(c < 1)
        BY <1>0, <3>6
      <4>. QED
        BY <2>0, <3>1, <3>3, <3>6, <4>1 DEF Undisturbed
    <3>. QED
      BY <3>2, <3>5, <3>6
  <2>. QED
    BY <2>1, <2>2
<1>3. CASE FillFails(p)
  BY <1>3 DEF FillFails, Spend, TypeOK, Bounded
<1>4. CASE ClearLook(p)
  <2>0. UNCHANGED <<file, retry>> /\ pc[p] = "clear" /\ file[at[p]] # None
    BY <1>0, <1>4 DEF ClearLook, Undisturbed
  <2>1. CASE Stale(file[at[p]])
    <3>1. pc'[p] = "unlink" /\ at'[p] = at[p]
      BY <1>4, <2>1, GotoFacts DEF ClearLook
    <3>. QED
      BY <2>0, <3>1 DEF Undisturbed
  <2>2. CASE ~Stale(file[at[p]])
    <3>1. file[at[p]] = Holds(p)
      BY <1>0, <2>0, <2>2, FreshIsOwn
    <3>2. \/ pc'[p] = "clear" /\ at'[p] = at[p] + 1
          \/ pc'[p] = "refused"
      BY <1>4, <2>0, <2>2, AdvanceFacts DEF ClearLook
    <3>3. ASSUME NEW b \in Candidates, b < at[p] + 1 PROVE file[b] = Holds(p)
      <4>1. b < at[p] \/ b = at[p]
        BY <1>0, <3>3
      <4>. QED
        BY <4>1, <2>0, <3>1 DEF Undisturbed
    <3>4. \A c \in Candidates : c >= at[p] + 1 => file[c] # None
      BY <1>0, <2>0 DEF Undisturbed
    <3>. QED
      BY <2>0, <3>2, <3>3, <3>4 DEF Undisturbed
  <2>. QED
    BY <2>1, <2>2
<1>5. CASE ClearUnlink(p)
  <2>1. pc[p] = "unlink" /\ file[at[p]] # None
    BY <1>0, <1>5 DEF ClearUnlink, Undisturbed
  <2>2. pc'[p] = "write" /\ at'[p] = 1 /\ file' = [file EXCEPT ![at[p]] = None]
    BY <1>5, <2>1, GotoFacts DEF ClearUnlink
  <2>3. retry'[p] = TRUE
    BY <1>5, <2>1 DEF ClearUnlink, TypeOK
  <2>4. \A b \in Candidates : b < at[p] => file'[b] = Holds(p)
    BY <1>0, <2>1, <2>2 DEF Undisturbed, TypeOK
  <2>5. file'[at[p]] = None /\ at[p] >= at'[p]
    BY <1>0, <2>2 DEF TypeOK
  <2>. QED
    BY <1>0, <2>2, <2>3, <2>4, <2>5 DEF Undisturbed
<1>6. CASE Start(p)
  <2>1. pc'[p] = "gate" /\ ~retry'[p]
    BY <1>6, GotoFacts DEF Start, TypeOK
  <2>. QED
    BY <2>1 DEF Undisturbed
<1>7. CASE Fill(p) \/ Exit(p) \/ Gone(p) \/ Crash(p) \/ Stop(p) \/ Continue(p) \/ OtherExits(p) \/ Recycle(p)
  <2>1. pc'[p] \in {"run", "none", "stopped", "other", "hidden"}
    BY <1>7, GotoFacts DEF Fill, Exit, Gone, Crash, Stop, Continue, OtherExits, Recycle
  <2>. QED
    BY <2>1 DEF Undisturbed
<1>. QED
  BY <1>1, <1>2, <1>3, <1>4, <1>5, <1>6, <1>7 DEF Does

LEMMA AloneInvStep ==
  ASSUME TypeOK, AloneInv, [Next]_vars
  PROVE  AloneInv'
<1>1. CASE Next
  <2>1. Observe /\ \E r \in Pids : Does(r)
    BY <1>1 DEF Next, Does
  <2>2. PICK r \in Pids : Does(r)
    BY <2>1
  <2>3. SUFFICES ASSUME NEW p \in Pids, alone'[p] PROVE Undisturbed(p)'
    BY DEF AloneInv
  <2>4. /\ pc[p] = "none" \/ alone[p]
        /\ \A q \in Pids \ {p} : pc'[q] \notin InTheWay
        /\ spent'["fail"] = spent["fail"]
    BY <2>1, <2>3, ObserveFacts
  <2>5. CASE r # p
    BY <2>1, <2>2, <2>3, <2>5, OtherStep
  <2>6. CASE r = p /\ alone[p]
    BY <2>2, <2>4, <2>6, OwnStep DEF AloneInv
  <2>7. CASE r = p /\ pc[p] = "none"
    <3>1. Start(p) \/ Recycle(p)
      BY <2>2, <2>7 DEF Does, Start, Gate, Create, Fill, FillFails, ClearLook, ClearUnlink, Exit,
                        Gone, Crash, Stop, Continue, OtherExits, Daemon, Starting
    <3>2. CASE Start(p)
      <4>1. pc'[p] = "gate" /\ ~retry'[p]
        BY <3>2, GotoFacts DEF Start, TypeOK
      <4>. QED
        BY <2>4, <4>1 DEF Undisturbed
    <3>3. CASE Recycle(p)
      <4>1. pc'[p] \in {"other", "hidden"}
        BY <3>3, GotoFacts DEF Recycle
      <4>. QED
        BY <2>4, <4>1 DEF Undisturbed
    <3>. QED
      BY <3>1, <3>2, <3>3
  <2>. QED
    BY <2>4, <2>5, <2>6, <2>7
<1>2. CASE UNCHANGED vars
  BY <1>2 DEF AloneInv, Undisturbed, vars
<1>. QED
  BY <1>1, <1>2

LEMMA AloneInvInit == Init => AloneInv
BY DEF Init, AloneInv, Undisturbed, InTheWay, Daemon, Starting

\* PID-2, T40-PID01, R1-14: a start with no other daemon and no process that
\* cannot be looked at beside it, and without a failed write, is refused only by a
\* file that names the starting process itself, whatever files earlier daemons
\* left behind, for any number of processes and candidates, also where several
\* daemons start at a time.
THEOREM StaleFilesNeverBrick == Spec => StaleFilesDoNotBrick
<1>1. Init => TypeOK /\ AloneInv
  BY TypeInit, AloneInvInit
<1>2. TypeOK /\ AloneInv /\ [Next]_vars => (TypeOK /\ AloneInv)'
  BY TypeStep, AloneInvStep
<1>3. TypeOK /\ AloneInv /\ [Next]_vars =>
        [\A p \in Pids : Refuses(p) => ~alone[p] \/ NamesItself(p)]_vars
  <2>. SUFFICES ASSUME TypeOK, AloneInv, Next, NEW p \in Pids, Refuses(p), alone[p]
                PROVE  NamesItself(p)
    OBVIOUS
  <2>1. PICK r \in Pids : Does(r)
    BY DEF Next, Does
  <2>2. r = p
    BY <2>1, OthersStay DEF Refuses
  <2>. QED
    BY <2>1, <2>2, OwnRefusal DEF AloneInv
<1>. QED
  BY <1>1, <1>2, <1>3, PTL DEF Spec, StaleFilesDoNotBrick
=============================================================================
