------------------------- MODULE HidppWorkerProofs -------------------------
(***************************************************************************)
(* The queue of hardware writes between the loop thread and the HID++      *)
(* worker, for any number of mice and DPI values and any sequence of       *)
(* profile changes, failures, replugs and presses of the DPI button: what  *)
(* was handed over last is what a mouse ends up with, and battery          *)
(* readings are shown for the mouse that sent them.                        *)
(***************************************************************************)
EXTENDS HidppWorker, FiniteSetTheorems, TLAPS

-----------------------------------------------------------------------------
(* The inductive invariant *)

JobType == [mouse : Mice, obj : Nat, dpi : Dpis]

HoldsDevs == {"identify", "unlock", "check", "repair", "merge"}

WorkType ==
  [pc : {"drain", "write", "scan", "look", "out"} \cup HoldsDevs,
   job : {NoJob} \cup [mouse : Mice] \cup JobType,
   todo : SUBSET Mice, read : Dpis \cup {0}]

\* The job that is being written, and the mouse that is being repaired, are
\* there.
WorkTypes ==
  /\ work \in WorkType
  /\ At("write") => work.job \in JobType
  /\ At("repair") \/ At("merge") => work.job.mouse \in Mice /\ work.read \in Dpis

\* The locks are held where the code holds them, so at most by one thread.
Locks ==
  /\ devs \in {"free", "loop", "worker"}
  /\ loop \in {"idle", "want", "held", "out"}
  /\ devs = "loop" <=> loop = "held"
  /\ devs = "worker" <=> work.pc \in HoldsDevs
  /\ devices = "loop" <=> loop = "held"

\* The transports: what is open was created; a node that was set aside has no
\* devices.
Nodes ==
  /\ known \subseteq Devices
  /\ nobj \in Nat /\ open \subseteq 1..nobj
  /\ ignored => known = {}

\* The mice of the loop thread, and the values they were given.
MiceTypes ==
  /\ evdev \subseteq Mice /\ cfg \in Dpis
  /\ hw \in [Mice -> Dpis]
  /\ DOMAIN sync = Mice
  /\ clean \subseteq evdev
  /\ ~present => evdev = {}

Queue ==
  /\ wq \in Seq(JobType)
  /\ \A i \in DOMAIN wq : wq[i].obj \in 1..nobj

\* The job i is the last one for its mouse.
LastFor(m, i) ==
  /\ i \in DOMAIN wq /\ wq[i].mouse = m
  /\ \A k \in DOMAIN wq : k > i => wq[k].mouse # m

Queued(m) == \E i \in DOMAIN wq : wq[i].mouse = m

\* The value handed over last is in the last job of the queue, else in the job
\* that is being written, else in the hardware.
LastIsHanded == \A m \in clean, i \in Nat : LastFor(m, i) => wq[i].dpi = sync[m].dpi

WrittenIsHanded ==
  \A m \in clean : At("write") /\ work.job.mouse = m /\ ~Queued(m) => work.job.dpi = sync[m].dpi

HardwareHasIt == \A m \in clean : ~Pending(m) => hw[m] = sync[m].dpi

\* What the repair of a sensor writes back is what the hardware has.
RepairIsNeutral == At("repair") /\ work.job.mouse \in clean => work.read = hw[work.job.mouse]

Types == WorkTypes /\ Locks /\ Nodes /\ MiceTypes /\ Queue
Values == LastIsHanded /\ WrittenIsHanded /\ HardwareHasIt /\ RepairIsNeutral
WorkerInv == Types /\ Values

-----------------------------------------------------------------------------
(* apply_profile *)

\* SetToSeq enumerates a finite set.
LEMMA SetToSeqFacts ==
  ASSUME NEW S, IsFiniteSet(S)
  PROVE  /\ Cardinality(S) \in Nat
         /\ SetToSeq(S) \in [1..Cardinality(S) -> S]
         /\ Range(SetToSeq(S)) = S
<1>. DEFINE n == Cardinality(S)
            f == SetToSeq(S)
<1>1. n \in Nat /\ ExistsBijection(1..n, S)
  BY FS_CardinalityType
<1>2. \E g \in [1..n -> S] : IsInjective(g)
  BY <1>1 DEF ExistsBijection, Bijection, Injection, IsInjective
<1>3. f \in [1..n -> S] /\ IsInjective(f)
  BY <1>2 DEF SetToSeq
<1>4. f \in Injection(1..n, S)
  BY <1>3 DEF Injection
<1>5. IsFiniteSet(1..n) /\ Cardinality(1..n) = n
  BY <1>1, FS_Interval
<1>6. f \in Surjection(1..n, S)
  <2>. HIDE DEF n, f
  <2>1. Cardinality(1..n) = Cardinality(S)
    BY <1>5 DEF n
  <2>. QED
    BY <1>4, <2>1, FS_Injection
<1>7. Range(f) = S
  BY <1>3, <1>6 DEF Surjection, Range
<1>. QED
  BY <1>1, <1>3, <1>7

\* The mice of ms that get a job.
Served(ms, s) == {m \in ms : find_hidpp_transport(m) /\ Planned(m, s[m])}

\* The jobs go to the end of the queue, one for each mouse that is served, with
\* the DPI of the profile, and that value is written down as handed over.
LEMMA ApplyFacts ==
  ASSUME WorkerInv, NEW ms \in SUBSET Mice, NEW s,
         apply_profile(ms, s), UNCHANGED nobj
  PROVE  LET S == Served(ms, s) IN
         /\ Queue'
         /\ \A i \in DOMAIN wq : i \in DOMAIN wq' /\ wq'[i] = wq[i]
         /\ \A i \in DOMAIN wq' : i \in Nat
         /\ \A i \in DOMAIN wq' \ DOMAIN wq : wq'[i].mouse \in S /\ wq'[i].dpi = cfg
         /\ \A i \in DOMAIN wq' \ DOMAIN wq, k \in DOMAIN wq : k < i
         /\ \A m \in S : \E i \in DOMAIN wq' : i \notin DOMAIN wq /\ wq'[i].mouse = m
         /\ \A m \in Mice : sync'[m] = IF m \in S THEN Handed(m) ELSE s[m]
         /\ DOMAIN sync' = Mice
         /\ clean' = clean \cup S
<1>. DEFINE S == Served(ms, s)
            n == Cardinality(S)
            jobs == SetToSeq(S)
            new == [i \in DOMAIN jobs |-> [mouse |-> jobs[i], obj |-> tobj, dpi |-> cfg]]
<1>1. S \subseteq Mice /\ IsFiniteSet(S)
  BY WorkerAssumption, FS_Subset DEF Served
<1>2. n \in Nat /\ jobs \in [1..n -> S] /\ Range(jobs) = S
  BY <1>1, SetToSeqFacts
<1>3. ASSUME NEW m \in S PROVE tobj \in 1..nobj /\ tobj \in Nat
  <2>1. tobj \in open
    BY <1>3 DEF Served, find_hidpp_transport
  <2>. QED
    BY <2>1 DEF WorkerInv, Types, Nodes
<1>4. /\ wq' = wq \o new
      /\ sync' = [m \in Mice |-> IF m \in Range(jobs) THEN Handed(m) ELSE s[m]]
      /\ clean' = clean \cup Range(jobs)
  BY DEF apply_profile, Served
<1>5. wq \in Seq(JobType) /\ Len(wq) \in Nat /\ DOMAIN wq = 1..Len(wq) /\ cfg \in Dpis
  BY DEF WorkerInv, Types, Queue, MiceTypes
<1>. HIDE DEF S, n, jobs
<1>6. /\ \A i \in 1..n : /\ jobs[i] \in S /\ new[i] \in JobType
                          /\ new[i].mouse = jobs[i] /\ new[i].obj \in 1..nobj
                          /\ new[i].dpi = cfg
      /\ DOMAIN new = 1..n
  BY <1>1, <1>2, <1>3, <1>5 DEF JobType
<1>. HIDE DEF new
<1>7. new \in Seq(JobType) /\ Len(new) = n
  <2>1. new \in [1..n -> JobType]
    <3>1. new = [i \in 1..n |-> new[i]]
      BY <1>2 DEF new
    <3>. QED
      BY <3>1, <1>6
  <2>. QED
    BY <1>2, <2>1
<1>8. /\ wq' \in Seq(JobType) /\ DOMAIN wq' = 1..(Len(wq) + n)
      /\ \A i \in 1..(Len(wq) + n) : wq'[i] = IF i <= Len(wq) THEN wq[i] ELSE new[i - Len(wq)]
  BY <1>2, <1>4, <1>5, <1>7
<1>9. \A i \in DOMAIN wq : i \in DOMAIN wq' /\ wq'[i] = wq[i]
  BY <1>2, <1>5, <1>8
<1>10. ASSUME NEW i \in DOMAIN wq', i \notin DOMAIN wq
       PROVE  /\ wq'[i] \in JobType /\ wq'[i].mouse \in S /\ wq'[i].dpi = cfg /\ wq'[i].obj \in 1..nobj
              /\ \A k \in DOMAIN wq : k < i
  <2>1. i \in Nat /\ i > Len(wq) /\ i - Len(wq) \in 1..n
    BY <1>2, <1>5, <1>8, <1>10
  <2>2. wq'[i] = new[i - Len(wq)]
    BY <1>2, <1>5, <1>8, <2>1
  <2>3. \A k \in DOMAIN wq : k < i
    BY <1>5, <2>1
  <2>. QED
    BY <1>6, <2>1, <2>2, <2>3
<1>11. ASSUME NEW m \in S
       PROVE  \E i \in DOMAIN wq' : i \notin DOMAIN wq /\ wq'[i].mouse = m
  <2>1. PICK k \in 1..n : jobs[k] = m
    BY <1>2, <1>11 DEF Range
  <2>2. Len(wq) + k \in DOMAIN wq' /\ Len(wq) + k \notin DOMAIN wq /\ (Len(wq) + k) - Len(wq) = k
    BY <1>2, <1>5, <1>8
  <2>3. wq'[Len(wq) + k] = new[k]
    BY <1>2, <1>5, <1>8, <2>2
  <2>. QED
    BY <1>6, <2>1, <2>2, <2>3
<1>12. Queue'
  <2>1. ASSUME NEW i \in DOMAIN wq' PROVE wq'[i].obj \in 1..nobj
    BY <1>9, <1>10, <2>1 DEF WorkerInv, Types, Queue
  <2>. QED
    BY <1>8, <2>1 DEF Queue
<1>13. \A i \in DOMAIN wq' : i \in Nat
  BY <1>8
<1>14. (\A m \in Mice : sync'[m] = IF m \in S THEN Handed(m) ELSE s[m]) /\ DOMAIN sync' = Mice
  BY <1>2, <1>4
<1>15. clean' = clean \cup S
  BY <1>2, <1>4
<1>. QED
  BY <1>9, <1>10, <1>11, <1>12, <1>13, <1>14, <1>15 DEF S

\* A profile keeps the books of the values, whoever is in the middle of what.
LEMMA ApplyKeepsValues ==
  ASSUME WorkerInv, NEW ms \in SUBSET Mice, NEW s,
         apply_profile(ms, s), UNCHANGED <<hw, work, nobj>>,
         \A m \in clean : s[m] = sync[m],
         ~At("repair")
  PROVE  Values'
<1>. DEFINE S == Served(ms, s)
<1>1. /\ \A i \in DOMAIN wq : i \in DOMAIN wq' /\ wq'[i] = wq[i]
      /\ \A i \in DOMAIN wq' : i \in Nat
      /\ \A i \in DOMAIN wq' \ DOMAIN wq : wq'[i].mouse \in S /\ wq'[i].dpi = cfg
      /\ \A i \in DOMAIN wq' \ DOMAIN wq, k \in DOMAIN wq : k < i
      /\ \A m \in S : \E i \in DOMAIN wq' : i \notin DOMAIN wq /\ wq'[i].mouse = m
      /\ \A m \in Mice : sync'[m] = IF m \in S THEN Handed(m) ELSE s[m]
      /\ clean' = clean \cup S
  BY ApplyFacts
<1>2. S \subseteq Mice /\ clean \subseteq Mice
  BY DEF Served, WorkerInv, Types, MiceTypes
<1>. HIDE DEF S
<1>old. \A i \in DOMAIN wq : i \in DOMAIN wq' /\ wq'[i] = wq[i]
  BY <1>1
<1>new. ASSUME NEW i \in DOMAIN wq', i \notin DOMAIN wq
        PROVE  wq'[i].mouse \in S /\ wq'[i].dpi = cfg /\ \A k \in DOMAIN wq : k < i
  BY <1>1, <1>new
<1>nat. \A i \in DOMAIN wq' : i \in Nat
  BY <1>1
<1>3. \A m \in S : sync'[m].dpi = cfg /\ Queued(m)'
  BY <1>1, <1>2 DEF Handed, Queued
<1>4. ASSUME NEW m \in clean, m \notin S
      PROVE  sync'[m] = sync[m] /\ (Queued(m)' <=> Queued(m))
  <2>1. sync'[m] = sync[m]
    BY <1>1, <1>2, <1>4
  <2>2. ASSUME NEW i \in DOMAIN wq', wq'[i].mouse = m PROVE i \in DOMAIN wq
    BY <1>new, <1>4, <2>2
  <2>. QED
    BY <1>old, <2>1, <2>2 DEF Queued
<1>5. LastIsHanded'
  <2>. SUFFICES ASSUME NEW m \in clean', NEW i \in Nat, LastFor(m, i)'
                PROVE  wq'[i].dpi = sync'[m].dpi
    BY DEF LastIsHanded
  <2>1. CASE m \in S
    <3>1. PICK k \in DOMAIN wq' : k \notin DOMAIN wq /\ wq'[k].mouse = m
      BY <1>1, <2>1
    <3>2. ~(k > i)
      BY <3>1 DEF LastFor
    <3>3. k \in Nat
      BY <1>nat
    <3>4. i \notin DOMAIN wq
      <4>. SUFFICES ASSUME i \in DOMAIN wq PROVE FALSE
        OBVIOUS
      <4>1. i < k
        BY <1>new, <3>1
      <4>. QED
        BY <3>2, <3>3, <4>1
    <3>. QED
      BY <1>1, <1>3, <2>1, <3>4 DEF LastFor
  <2>2. CASE m \notin S
    <3>1. m \in clean /\ i \in DOMAIN wq' /\ wq'[i].mouse = m
      BY <1>1, <2>2 DEF LastFor
    <3>2. i \in DOMAIN wq
      BY <1>1, <2>2, <3>1
    <3>3. LastFor(m, i)
      BY <1>1, <3>1, <3>2 DEF LastFor
    <3>. QED
      BY <1>1, <1>4, <2>2, <3>1, <3>2, <3>3 DEF WorkerInv, Values, LastIsHanded
  <2>. QED
    BY <2>1, <2>2
<1>6. WrittenIsHanded'
  BY <1>1, <1>3, <1>4 DEF WorkerInv, Values, WrittenIsHanded, At
<1>7. HardwareHasIt'
  <2>. SUFFICES ASSUME NEW m \in clean', ~Pending(m)' PROVE hw'[m] = sync'[m].dpi
    BY DEF HardwareHasIt
  <2>1. m \notin S /\ m \in clean
    BY <1>1, <1>3 DEF Pending, Queued
  <2>2. ~Pending(m)
    BY <1>4, <2>1 DEF Pending, Queued, At
  <2>. QED
    BY <1>4, <2>1, <2>2 DEF WorkerInv, Values, HardwareHasIt
<1>8. RepairIsNeutral'
  BY DEF RepairIsNeutral, At
<1>. QED
  BY <1>5, <1>6, <1>7, <1>8 DEF Values

-----------------------------------------------------------------------------
(* The other steps: what was handed over *)

\* A step that moves neither values nor jobs, nor the worker.
LEMMA ValuesSame ==
  ASSUME Values, UNCHANGED <<wq, hw, sync, clean, work>>
  PROVE  Values'
BY DEF Values, LastIsHanded, WrittenIsHanded, HardwareHasIt, RepairIsNeutral, LastFor, Queued,
       Pending, At

\* A step that moves the worker between the places where it has no job in hand.
LEMMA ValuesElsewhere ==
  ASSUME Values, UNCHANGED <<wq, hw, sync, clean>>,
         ~At("write"), ~At("write")', ~At("repair")'
  PROVE  Values'
BY DEF Values, LastIsHanded, WrittenIsHanded, HardwareHasIt, RepairIsNeutral, LastFor, Queued,
       Pending, At

\* TakeJob: the oldest job leaves the queue.
LEMMA TakeKeepsValues ==
  ASSUME WorkerInv, TakeJob
  PROVE  Values'
<1>1. /\ wq \in Seq(JobType) /\ wq # << >> /\ Len(wq) \in Nat /\ Len(wq) > 0
      /\ DOMAIN wq = 1..Len(wq) /\ Head(wq) = wq[1]
  BY DEF WorkerInv, Types, Queue, TakeJob
<1>2. /\ DOMAIN wq' = 1..(Len(wq) - 1)
      /\ \A i \in DOMAIN wq' : i \in Nat /\ i + 1 \in DOMAIN wq /\ wq'[i] = wq[i + 1]
      /\ \A k \in DOMAIN wq : k # 1 => k - 1 \in DOMAIN wq' /\ (k - 1) + 1 = k
  BY <1>1 DEF TakeJob
<1>3. UNCHANGED <<hw, sync, clean>> /\ At("drain")
  BY DEF TakeJob, mice
<1>4. At("write")' /\ work'.job = wq[1]
  BY <1>1 DEF TakeJob, At, WorkerInv, Types, WorkTypes, WorkType
<1>5. \A m : Queued(m) <=> Queued(m)' \/ wq[1].mouse = m
  <2>1. ASSUME NEW m, Queued(m), wq[1].mouse # m PROVE Queued(m)'
    <3>1. PICK k \in DOMAIN wq : wq[k].mouse = m
      BY <2>1 DEF Queued
    <3>2. k # 1
      BY <2>1, <3>1
    <3>3. k - 1 \in DOMAIN wq' /\ wq'[k - 1] = wq[k]
      BY <1>2, <3>2
    <3>. QED
      BY <3>1, <3>3 DEF Queued
  <2>2. ASSUME NEW m, Queued(m)' PROVE Queued(m)
    BY <1>2, <2>2 DEF Queued
  <2>3. ASSUME NEW m, wq[1].mouse = m PROVE Queued(m)
    BY <1>1, <2>3 DEF Queued
  <2>. QED
    BY <2>1, <2>2, <2>3
<1>6. LastIsHanded'
  <2>. SUFFICES ASSUME NEW m \in clean, NEW i \in Nat, LastFor(m, i)'
                PROVE  wq'[i].dpi = sync[m].dpi
    BY <1>3 DEF LastIsHanded
  <2>1. i \in DOMAIN wq' /\ i + 1 \in DOMAIN wq /\ wq'[i] = wq[i + 1] /\ wq[i + 1].mouse = m
    BY <1>2 DEF LastFor
  <2>2. ASSUME NEW k \in DOMAIN wq, k > i + 1 PROVE wq[k].mouse # m
    <3>1. k \in Nat /\ k # 1 /\ k - 1 > i
      BY <1>1, <2>2
    <3>2. k - 1 \in DOMAIN wq' /\ wq'[k - 1] = wq[k]
      BY <1>2, <3>1
    <3>. QED
      BY <3>1, <3>2 DEF LastFor
  <2>3. LastFor(m, i + 1) /\ i + 1 \in Nat
    BY <2>1, <2>2 DEF LastFor
  <2>. QED
    BY <2>1, <2>3 DEF WorkerInv, Values, LastIsHanded
<1>7. WrittenIsHanded'
  <2>. SUFFICES ASSUME NEW m \in clean, wq[1].mouse = m, ~Queued(m)'
                PROVE  wq[1].dpi = sync[m].dpi
    BY <1>3, <1>4 DEF WrittenIsHanded
  <2>1. ASSUME NEW k \in DOMAIN wq, k > 1 PROVE wq[k].mouse # m
    <3>1. k # 1
      BY <1>1, <2>1
    <3>2. k - 1 \in DOMAIN wq' /\ wq'[k - 1] = wq[k]
      BY <1>2, <3>1
    <3>. QED
      BY <3>2 DEF Queued
  <2>2. LastFor(m, 1)
    BY <1>1, <2>1 DEF LastFor
  <2>. QED
    BY <2>2 DEF WorkerInv, Values, LastIsHanded
<1>8. HardwareHasIt'
  BY <1>3, <1>4, <1>5 DEF WorkerInv, Values, HardwareHasIt, Pending, Queued, At
<1>9. RepairIsNeutral'
  BY <1>4 DEF RepairIsNeutral, At
<1>. QED
  BY <1>6, <1>7, <1>8, <1>9 DEF Values

\* WriteJob: the value reaches the hardware, or the mouse is excused.
LEMMA WriteKeepsValues ==
  ASSUME WorkerInv, WriteJob
  PROVE  Values'
<1>. DEFINE j == work.job
<1>1. /\ At("write") /\ ~At("write")' /\ ~At("repair")' /\ UNCHANGED <<wq, sync>>
      /\ j \in JobType /\ hw \in [Mice -> Dpis] /\ clean \subseteq Mice
  BY DEF WriteJob, mice, Goto, At, WorkerInv, Types, WorkTypes, WorkType, MiceTypes
<1>2. \/ hw' = [hw EXCEPT ![j.mouse] = j.dpi] /\ clean' = clean
      \/ hw' = hw /\ clean' = clean \ {j.mouse}
  BY DEF WriteJob
<1>3. LastIsHanded'
  BY <1>1, <1>2 DEF WorkerInv, Values, LastIsHanded, LastFor
<1>4. HardwareHasIt'
  <2>. SUFFICES ASSUME NEW m \in clean', ~Pending(m)' PROVE hw'[m] = sync[m].dpi
    BY <1>1 DEF HardwareHasIt
  <2>1. m \in clean /\ ~Queued(m) /\ m \in Mice
    BY <1>1, <1>2 DEF Pending, Queued
  <2>2. CASE j.mouse = m
    <3>1. hw'[m] = j.dpi
      BY <1>1, <1>2, <2>1, <2>2
    <3>2. j.dpi = sync[m].dpi
      BY <1>1, <2>1, <2>2 DEF WorkerInv, Values, WrittenIsHanded
    <3>. QED
      BY <3>1, <3>2
  <2>3. CASE j.mouse # m
    <3>1. hw'[m] = hw[m]
      BY <1>1, <1>2, <2>1, <2>3
    <3>2. ~Pending(m)
      BY <2>1, <2>3 DEF Pending, Queued
    <3>. QED
      BY <2>1, <3>1, <3>2 DEF WorkerInv, Values, HardwareHasIt
  <2>. QED
    BY <2>2, <2>3
<1>. QED
  BY <1>1, <1>3, <1>4 DEF Values, WrittenIsHanded, RepairIsNeutral

\* Repair: for a mouse that nothing else has changed, what is written is what is
\* there.
LEMMA RepairKeepsValues ==
  ASSUME WorkerInv, Repair
  PROVE  Values'
<1>. DEFINE r == work.job.mouse
<1>1. /\ At("repair") /\ ~At("write") /\ ~At("write")' /\ ~At("repair")'
      /\ UNCHANGED <<wq, sync, clean>> /\ hw \in [Mice -> Dpis] /\ clean \subseteq Mice
  BY DEF Repair, mice, Goto, At, WorkerInv, Types, WorkTypes, WorkType, MiceTypes
<1>2. \A m \in clean : hw'[m] = hw[m]
  <2>1. hw' = [hw EXCEPT ![r] = work.read] \/ hw' = hw
    BY DEF Repair
  <2>2. r \in clean => work.read = hw[r]
    BY <1>1 DEF WorkerInv, Values, RepairIsNeutral
  <2>. QED
    BY <1>1, <2>1, <2>2
<1>. QED
  BY <1>1, <1>2 DEF WorkerInv, Values, LastIsHanded, WrittenIsHanded, HardwareHasIt, RepairIsNeutral,
     LastFor, Queued, Pending

\* CheckDpi: the reading is of this moment.
LEMMA CheckKeepsValues ==
  ASSUME WorkerInv, NEW m \in Mice, CheckDpi(m)
  PROVE  Values'
<1>1. UNCHANGED <<wq, hw, sync, clean>> /\ ~At("write")
  BY DEF CheckDpi, mice, At
<1>2. ~At("write")' /\ (At("repair")' => work'.read = hw[m] /\ work'.job.mouse = m)
  <2>1. work \in WorkType /\ work.pc = "check"
    BY DEF CheckDpi, At, WorkerInv, Types, WorkTypes
  <2>2. \/ \E pc \in {"repair", "merge"} :
             work' = [work EXCEPT !.pc = pc, !.read = hw[m], !.job = [mouse |-> m]]
        \/ work' = [work EXCEPT !.todo = @ \ {m}]
    BY DEF CheckDpi
  <2>3. ASSUME NEW pc \in {"repair", "merge"},
               work' = [work EXCEPT !.pc = pc, !.read = hw[m], !.job = [mouse |-> m]]
        PROVE  work'.pc = pc /\ work'.read = hw[m] /\ work'.job.mouse = m
    BY <2>1, <2>3 DEF WorkType
  <2>4. ASSUME work' = [work EXCEPT !.todo = @ \ {m}] PROVE work'.pc = "check"
    BY <2>1, <2>4 DEF WorkType
  <2>. QED
    BY <2>2, <2>3, <2>4 DEF At
<1>. QED
  BY <1>1, <1>2 DEF WorkerInv, Values, LastIsHanded, WrittenIsHanded, HardwareHasIt, RepairIsNeutral,
     LastFor, Queued, Pending

\* The DPI button excuses its mouse.
LEMMA ButtonKeepsValues ==
  ASSUME WorkerInv, NEW m \in Mice, NEW v \in Dpis, Button(m, v)
  PROVE  Values'
<1>1. /\ UNCHANGED <<wq, sync, work>> /\ hw' = [hw EXCEPT ![m] = v] /\ clean' = clean \ {m}
      /\ hw \in [Mice -> Dpis] /\ clean \subseteq Mice
  BY DEF Button, mice, WorkerInv, Types, MiceTypes
<1>2. \A q \in clean' : q \in clean /\ hw'[q] = hw[q]
  BY <1>1
<1>. QED
  BY <1>1, <1>2 DEF WorkerInv, Values, LastIsHanded, WrittenIsHanded, HardwareHasIt, RepairIsNeutral,
     LastFor, Queued, Pending, At

-----------------------------------------------------------------------------
(* The other steps: types and locks *)

\* After a round the worker begins the next one or ends.
LEMMA RoundEnds == NextRound \in {"drain", "out"}
BY DEF NextRound

\* The worker goes from one place to another.
LEMMA GotoFacts ==
  ASSUME work \in WorkType, NEW pc \in {"drain", "write", "scan", "look", "out"} \cup HoldsDevs, Goto(pc)
  PROVE  /\ work' \in WorkType /\ work'.pc = pc /\ work'.job = work.job
         /\ work'.read = work.read /\ work'.todo = work.todo
BY DEF Goto, WorkType

LEMMA WorkTypesStep == WorkerInv /\ [Next]_vars => WorkTypes'
<1>. SUFFICES ASSUME WorkerInv, [Next]_vars PROVE WorkTypes'
  OBVIOUS
<1>0. /\ work \in WorkType /\ (At("write") => work.job \in JobType)
      /\ (At("repair") \/ At("merge") => work.job.mouse \in Mice /\ work.read \in Dpis)
      /\ hw \in [Mice -> Dpis]
  BY DEF WorkerInv, Types, WorkTypes, MiceTypes
<1>1. CASE UNCHANGED work
  BY <1>0, <1>1 DEF WorkTypes, At
<1>2. ASSUME NEW pc \in {"drain", "scan", "look", "out", "identify", "unlock", "check"}, Goto(pc)
      PROVE  WorkTypes'
  <2>1. work' \in WorkType /\ work'.pc = pc
    BY <1>0, <1>2, GotoFacts DEF HoldsDevs
  <2>. QED
    BY <2>1 DEF WorkTypes, At
<1>3. CASE TakeJob
  <2>1. Head(wq) \in JobType
    BY <1>3 DEF TakeJob, WorkerInv, Types, Queue
  <2>2. work' = [work EXCEPT !.pc = "write", !.job = Head(wq)]
    BY <1>3 DEF TakeJob
  <2>3. work' \in WorkType /\ work'.pc = "write" /\ work'.job = Head(wq)
    BY <1>0, <2>1, <2>2 DEF WorkType
  <2>. QED
    BY <2>1, <2>3 DEF WorkTypes, At
<1>4. CASE WriteJob \/ ScanDone \/ Identify \/ Notifications
  BY <1>2, <1>4, RoundEnds DEF WriteJob, ScanDone, Identify, Notifications
<1>5. CASE DrainDone
  BY <1>2, <1>5 DEF DrainDone
<1>6. CASE Scan
  BY <1>2, <1>6 DEF Scan
<1>7. CASE Look
  <2>1. \/ \E pc \in {"drain", "out"} : work' = [work EXCEPT !.pc = pc]
        \/ work' = [work EXCEPT !.pc = "check", !.todo = known \cap Mice]
    BY <1>7, RoundEnds DEF Look, Goto
  <2>2. work' \in WorkType /\ work'.pc \in {"drain", "out", "check"}
    BY <1>0, <2>1 DEF WorkType, HoldsDevs
  <2>. QED
    BY <2>2 DEF WorkTypes, At
<1>8. ASSUME NEW m \in Mice, CheckDpi(m) PROVE WorkTypes'
  <2>1. \/ \E pc \in {"repair", "merge"} :
             work' = [work EXCEPT !.pc = pc, !.read = hw[m], !.job = [mouse |-> m]]
        \/ work' = [work EXCEPT !.todo = @ \ {m}]
    BY <1>8 DEF CheckDpi
  <2>2. work.pc = "check"
    BY <1>8 DEF CheckDpi, At
  <2>3. ASSUME NEW pc \in {"repair", "merge"},
               work' = [work EXCEPT !.pc = pc, !.read = hw[m], !.job = [mouse |-> m]]
        PROVE  work' \in WorkType /\ work'.pc = pc /\ work'.read \in Dpis /\ work'.job.mouse \in Mice
    <3>1. [mouse |-> m] \in [mouse : Mice] /\ hw[m] \in Dpis
      BY <1>0
    <3>. QED
      BY <1>0, <2>3, <3>1 DEF WorkType, HoldsDevs
  <2>4. ASSUME work' = [work EXCEPT !.todo = @ \ {m}] PROVE work' \in WorkType /\ work'.pc = "check"
    BY <1>0, <2>2, <2>4 DEF WorkType
  <2>. QED
    BY <2>1, <2>3, <2>4 DEF WorkTypes, At
<1>9. CASE Repair
  <2>1. work' \in WorkType /\ work'.pc = "merge" /\ work'.job = work.job /\ work'.read = work.read
    BY <1>0, <1>9, GotoFacts DEF Repair, HoldsDevs
  <2>. QED
    BY <1>0, <1>9, <2>1 DEF WorkTypes, At, Repair
<1>10. CASE apply_hidpp_dpi
  <2>1. work' = [work EXCEPT !.pc = "check", !.todo = @ \ {work.job.mouse}, !.job = NoJob]
    BY <1>10 DEF apply_hidpp_dpi
  <2>2. work' \in WorkType /\ work'.pc = "check"
    BY <1>0, <2>1 DEF WorkType, HoldsDevs
  <2>. QED
    BY <2>2 DEF WorkTypes, At
<1>11. UNCHANGED work \/ Worker
  BY DEF Next, WantApply, LockBoth, ApplyAll, AddMouse, Stop, LoopExits, Notify, Button, Unplug,
         Replug, DescriptorDies, vars
<1>. QED
  BY <1>1, <1>3, <1>4, <1>5, <1>6, <1>7, <1>8, <1>9, <1>10, <1>11 DEF Worker

\* Where the worker takes hidpp_devs_mutex_ it has it, and where it gives it
\* back it has not.
LEMMA LocksStep == WorkerInv /\ [Next]_vars => Locks'
<1>. SUFFICES ASSUME WorkerInv, [Next]_vars PROVE Locks'
  OBVIOUS
<1>0. work \in WorkType /\ Locks
  BY DEF WorkerInv, Types, WorkTypes
<1>1. CASE UNCHANGED <<devs, devices, loop>> /\ (work'.pc \in HoldsDevs <=> work.pc \in HoldsDevs)
  BY <1>0, <1>1 DEF Locks
<1>2. CASE \E v \in Dpis : WantApply(v)
  BY <1>0, <1>2 DEF WantApply, Locks
<1>3. CASE LockBoth
  BY <1>0, <1>3 DEF LockBoth, Locks
<1>4. CASE ApplyAll
  BY <1>0, <1>4 DEF ApplyAll, Locks
<1>5. CASE LoopExits
  BY <1>0, <1>5 DEF LoopExits, Locks
<1>6. CASE Scan
  <2>1. work'.pc \in {"identify", "unlock"} /\ devs = "free" /\ devs' = "worker" /\ UNCHANGED <<devices, loop>>
    BY <1>0, <1>6, GotoFacts DEF Scan, HoldsDevs
  <2>. QED
    BY <1>0, <2>1 DEF Locks, HoldsDevs
<1>7. CASE ScanDone
  <2>1. work'.pc = "look" /\ work.pc = "unlock" /\ devs' = "free" /\ UNCHANGED <<devices, loop>>
    BY <1>0, <1>7, GotoFacts DEF ScanDone, At
  <2>. QED
    BY <1>0, <2>1 DEF Locks, HoldsDevs
<1>8. CASE Notifications
  <2>1. work'.pc \in {"drain", "out"} /\ work.pc = "check" /\ devs' = "free" /\ UNCHANGED <<devices, loop>>
    BY <1>0, <1>8, GotoFacts, RoundEnds DEF Notifications, At
  <2>. QED
    BY <1>0, <2>1 DEF Locks, HoldsDevs
<1>9. CASE Look
  <2>1. UNCHANGED <<devices, loop>> /\ work.pc = "look"
    BY <1>9 DEF Look, At
  <2>2. \/ \E pc \in {"drain", "out"} : work' = [work EXCEPT !.pc = pc] /\ UNCHANGED devs
        \/ work' = [work EXCEPT !.pc = "check", !.todo = known \cap Mice] /\ devs = "free" /\ devs' = "worker"
    BY <1>9, RoundEnds DEF Look, Goto
  <2>3. \/ work'.pc \in {"drain", "out"} /\ UNCHANGED devs
        \/ work'.pc = "check" /\ devs = "free" /\ devs' = "worker"
    BY <1>0, <2>2 DEF WorkType
  <2>. QED
    BY <1>0, <2>1, <2>3 DEF Locks, HoldsDevs
<1>10. CASE TakeJob
  BY <1>0, <1>1, <1>10 DEF TakeJob, WorkType, HoldsDevs, At
<1>11. CASE WriteJob
  BY <1>0, <1>1, <1>11, GotoFacts DEF WriteJob, HoldsDevs, At
<1>12. CASE DrainDone
  <2>1. UNCHANGED <<devs, devices, loop>> /\ work.pc = "drain"
    BY <1>12 DEF DrainDone, At
  <2>2. work'.pc \in {"scan", "look"}
    BY <1>0, <1>12, GotoFacts DEF DrainDone
  <2>. QED
    BY <1>1, <2>1, <2>2 DEF HoldsDevs
<1>13. CASE Identify
  BY <1>0, <1>1, <1>13, GotoFacts DEF Identify, HoldsDevs, At
<1>14. ASSUME NEW m \in Mice, CheckDpi(m) PROVE Locks'
  <2>1. UNCHANGED <<devs, devices, loop>> /\ work.pc = "check"
    BY <1>14 DEF CheckDpi, At
  <2>2. \/ \E pc \in {"repair", "merge"} :
             work' = [work EXCEPT !.pc = pc, !.read = hw[m], !.job = [mouse |-> m]]
        \/ work' = [work EXCEPT !.todo = @ \ {m}]
    BY <1>14 DEF CheckDpi
  <2>3. work'.pc \in {"repair", "merge", "check"}
    BY <1>0, <2>1, <2>2 DEF WorkType
  <2>. QED
    BY <1>1, <2>1, <2>3 DEF HoldsDevs
<1>15. CASE Repair
  BY <1>0, <1>1, <1>15, GotoFacts DEF Repair, HoldsDevs, At
<1>16. CASE apply_hidpp_dpi
  BY <1>0, <1>1, <1>16 DEF apply_hidpp_dpi, WorkType, HoldsDevs, At
<1>17. CASE \E m \in Mice : AddMouse(m)
  BY <1>1, <1>17 DEF AddMouse
<1>18. CASE \/ Stop \/ (\E m \in Devices : Notify(m)) \/ (\E m \in Mice, v \in Dpis : Button(m, v))
            \/ Unplug \/ Replug \/ DescriptorDies \/ UNCHANGED vars
  BY <1>1, <1>18 DEF Stop, Notify, Button, Unplug, Replug, DescriptorDies, vars
<1>. QED
  BY <1>2, <1>3, <1>4, <1>5, <1>6, <1>7, <1>8, <1>9, <1>10, <1>11, <1>12, <1>13, <1>14, <1>15, <1>16,
     <1>17, <1>18 DEF Next, Worker

LEMMA NodesStep == WorkerInv /\ [Next]_vars => Nodes' /\ nobj' \in Nat /\ nobj' >= nobj
<1>. SUFFICES ASSUME WorkerInv, [Next]_vars PROVE Nodes' /\ nobj' \in Nat /\ nobj' >= nobj
  OBVIOUS
<1>0. Nodes /\ nobj \in Nat /\ open \subseteq 1..nobj /\ known \subseteq Devices
  BY DEF WorkerInv, Types, Nodes
<1>1. CASE UNCHANGED <<known, ignored, open, nobj>>
  BY <1>0, <1>1 DEF Nodes
<1>8. ASSUME known' \subseteq Devices, ignored' => known' = {}, UNCHANGED nobj, open' \subseteq open
      PROVE  Nodes' /\ nobj' \in Nat /\ nobj' >= nobj
  <2>1. open' \subseteq 1..nobj
    BY <1>0, <1>8
  <2>2. nobj' \in Nat /\ nobj' >= nobj
    BY <1>0, <1>8
  <2>. QED
    BY <1>8, <2>1, <2>2 DEF Nodes
<1>2. CASE Scan
  <2>1. known' \in {known, {}} /\ (ignored' => ignored) /\ UNCHANGED <<nobj, open>>
    BY <1>2 DEF Scan, Forget
  <2>. QED
    BY <1>0, <1>8, <2>1 DEF Nodes
<1>3. CASE Identify
  <2>1. known' \subseteq Devices /\ (ignored' => known' = {}) /\ UNCHANGED <<nobj, open>>
    BY <1>3 DEF Identify
  <2>. QED
    BY <1>8, <2>1
<1>4. CASE Look
  <2>1. \/ UNCHANGED <<open, nobj>>
        \/ nobj' = nobj + 1 /\ open' = open \cup {nobj'}
    BY <1>4 DEF Look
  <2>2. UNCHANGED <<known, ignored>>
    BY <1>4 DEF Look
  <2>3. nobj' \in Nat /\ nobj' >= nobj
    BY <1>0, <2>1
  <2>4. open' \subseteq 1..nobj'
    <3>2. \A x \in 1..nobj : x \in 1..nobj'
      BY <1>0, <2>3
    <3>3. CASE open' = open /\ nobj' = nobj
      BY <1>0, <3>3
    <3>4. CASE nobj' = nobj + 1 /\ open' = open \cup {nobj'}
      <4>1. nobj' \in 1..nobj'
        BY <1>0, <3>4
      <4>. QED
        BY <1>0, <3>2, <3>4, <4>1
    <3>. QED
      BY <2>1, <3>3, <3>4
  <2>. QED
    BY <1>0, <2>2, <2>3, <2>4 DEF Nodes
<1>5. CASE Unplug \/ DescriptorDies
  <2>1. UNCHANGED <<known, ignored, nobj>> /\ open' \subseteq open
    BY <1>5 DEF Unplug, DescriptorDies
  <2>. QED
    BY <1>0, <1>8, <2>1 DEF Nodes
<1>6. CASE \/ \E v \in Dpis : WantApply(v)
           \/ LockBoth \/ ApplyAll \/ (\E m \in Mice : AddMouse(m)) \/ Stop \/ LoopExits
           \/ \E m \in Devices : Notify(m)
           \/ \E m \in Mice, v \in Dpis : Button(m, v)
           \/ Replug \/ UNCHANGED vars
  BY <1>1, <1>6 DEF WantApply, LockBoth, ApplyAll, AddMouse, Stop, LoopExits, Notify, Button, Replug,
                    vars, nodes
<1>7. CASE \/ TakeJob \/ WriteJob \/ DrainDone \/ ScanDone \/ (\E m \in Mice : CheckDpi(m))
           \/ Repair \/ apply_hidpp_dpi \/ Notifications
  BY <1>1, <1>7 DEF TakeJob, WriteJob, DrainDone, ScanDone, CheckDpi, Repair, apply_hidpp_dpi,
                    Notifications, nodes
<1>. QED
  BY <1>2, <1>3, <1>4, <1>5, <1>6, <1>7 DEF Next, Worker

\* Only mice that are plugged in are handed values.
LEMMA MiceTypesStep == WorkerInv /\ [Next]_vars => MiceTypes'
<1>. SUFFICES ASSUME WorkerInv, [Next]_vars PROVE MiceTypes'
  OBVIOUS
<1>0. MiceTypes
  BY DEF WorkerInv, Types
<1>1. CASE UNCHANGED <<evdev, cfg, hw, sync, clean, present>>
  BY <1>0, <1>1 DEF MiceTypes
<1>2. CASE \E v \in Dpis : WantApply(v)
  BY <1>0, <1>2 DEF WantApply, mice, MiceTypes
<1>3. CASE ApplyAll
  <2>1. apply_profile(evdev, sync) /\ UNCHANGED <<evdev, cfg, hw, present, nobj>>
    BY <1>3 DEF ApplyAll, nodes
  <2>2. DOMAIN sync' = Mice /\ clean' = clean \cup Served(evdev, sync)
    BY <1>0, <2>1, ApplyFacts DEF MiceTypes
  <2>. QED
    BY <1>0, <2>1, <2>2 DEF MiceTypes, Served
<1>4. ASSUME NEW m \in Mice, AddMouse(m) PROVE MiceTypes'
  <2>. DEFINE s == [sync EXCEPT ![m] = [obj |-> 0, dpi |-> 0]]
  <2>1. apply_profile({m}, s) /\ UNCHANGED <<cfg, hw, present, nobj>> /\ present /\ evdev' = evdev \cup {m}
    BY <1>4 DEF AddMouse, nodes
  <2>. HIDE DEF s
  <2>2. DOMAIN sync' = Mice /\ clean' = clean \cup Served({m}, s)
    <3>1. {m} \in SUBSET Mice
      OBVIOUS
    <3>. QED
      BY <2>1, <3>1, ApplyFacts
  <2>3. Served({m}, s) \subseteq {m}
    BY DEF Served
  <2>. QED
    BY <1>0, <2>1, <2>2, <2>3 DEF MiceTypes
<1>5. CASE WriteJob
  <2>1. UNCHANGED <<evdev, cfg, sync, present>> /\ work.job \in JobType
    BY <1>5 DEF WriteJob, mice, WorkerInv, Types, WorkTypes
  <2>2. clean' \subseteq clean /\ (hw' = hw \/ hw' = [hw EXCEPT ![work.job.mouse] = work.job.dpi])
    BY <1>5 DEF WriteJob
  <2>3. hw' \in [Mice -> Dpis]
    BY <1>0, <2>1, <2>2 DEF MiceTypes, JobType
  <2>. QED
    BY <1>0, <2>1, <2>2, <2>3 DEF MiceTypes
<1>6. CASE Repair
  <2>1. UNCHANGED <<evdev, cfg, sync, present, clean>> /\ work.job.mouse \in Mice /\ work.read \in Dpis
    BY <1>6 DEF Repair, mice, WorkerInv, Types, WorkTypes
  <2>2. hw' = hw \/ hw' = [hw EXCEPT ![work.job.mouse] = work.read]
    BY <1>6 DEF Repair
  <2>3. hw' \in [Mice -> Dpis]
    BY <1>0, <2>1, <2>2 DEF MiceTypes
  <2>. QED
    BY <1>0, <2>1, <2>3 DEF MiceTypes
<1>7. ASSUME NEW m \in Mice, NEW v \in Dpis, Button(m, v) PROVE MiceTypes'
  BY <1>0, <1>7 DEF Button, mice, MiceTypes
<1>8. CASE Unplug
  BY <1>0, <1>8 DEF Unplug, MiceTypes
<1>9. CASE Replug
  BY <1>0, <1>9, WorkerAssumption DEF Replug, mice, MiceTypes
<1>10. CASE \/ LockBoth \/ Stop \/ LoopExits
            \/ \E m \in Devices : Notify(m)
            \/ DescriptorDies \/ UNCHANGED vars
  BY <1>1, <1>10 DEF LockBoth, Stop, LoopExits, Notify, DescriptorDies, vars, mice
<1>11. CASE \/ TakeJob \/ DrainDone \/ Scan \/ Identify \/ ScanDone \/ Look
            \/ (\E m \in Mice : CheckDpi(m)) \/ apply_hidpp_dpi \/ Notifications
  BY <1>1, <1>11 DEF TakeJob, DrainDone, Scan, Identify, ScanDone, Look, CheckDpi, apply_hidpp_dpi,
                     Notifications, mice
<1>. QED
  BY <1>2, <1>3, <1>4, <1>5, <1>6, <1>7, <1>8, <1>9, <1>10, <1>11 DEF Next, Worker

LEMMA QueueStep == WorkerInv /\ [Next]_vars => Queue'
<1>. SUFFICES ASSUME WorkerInv, [Next]_vars PROVE Queue'
  OBVIOUS
<1>0. /\ wq \in Seq(JobType) /\ \A i \in DOMAIN wq : wq[i].obj \in 1..nobj
      /\ nobj \in Nat /\ nobj' \in Nat /\ nobj' >= nobj
  BY NodesStep DEF WorkerInv, Types, Queue, Nodes
<1>1. CASE UNCHANGED wq
  BY <1>0, <1>1 DEF Queue
<1>2. CASE ApplyAll
  <2>1. evdev \in SUBSET Mice /\ UNCHANGED nobj /\ apply_profile(evdev, sync)
    BY <1>2 DEF ApplyAll, nodes, WorkerInv, Types, MiceTypes
  <2>. QED
    BY <2>1, ApplyFacts
<1>3. ASSUME NEW m \in Mice, AddMouse(m) PROVE Queue'
  <2>1. UNCHANGED nobj /\ apply_profile({m}, [sync EXCEPT ![m] = [obj |-> 0, dpi |-> 0]])
    BY <1>3 DEF AddMouse, nodes
  <2>. QED
    BY <2>1, ApplyFacts
<1>4. CASE TakeJob
  <2>1. wq' = Tail(wq) /\ wq # << >>
    BY <1>4 DEF TakeJob
  <2>2. wq' \in Seq(JobType) /\ \A i \in DOMAIN wq' : i + 1 \in DOMAIN wq /\ wq'[i] = wq[i + 1]
    BY <1>0, <2>1
  <2>3. \A i \in DOMAIN wq' : wq'[i].obj \in 1..nobj
    BY <1>0, <2>2
  <2>. QED
    BY <1>0, <2>2, <2>3 DEF Queue
<1>5. CASE \/ WriteJob \/ DrainDone \/ Scan \/ Identify \/ ScanDone \/ Look
           \/ (\E m \in Mice : CheckDpi(m)) \/ Repair \/ apply_hidpp_dpi \/ Notifications
  BY <1>1, <1>5 DEF WriteJob, DrainDone, Scan, Identify, ScanDone, Look, CheckDpi, Repair,
                    apply_hidpp_dpi, Notifications
<1>6. CASE \/ \E v \in Dpis : WantApply(v)
           \/ LockBoth \/ Stop \/ LoopExits
           \/ \E m \in Devices : Notify(m)
           \/ \E m \in Mice, v \in Dpis : Button(m, v)
           \/ Unplug \/ Replug \/ DescriptorDies \/ UNCHANGED vars
  BY <1>1, <1>6 DEF WantApply, LockBoth, Stop, LoopExits, Notify, Button, Unplug, Replug,
                    DescriptorDies, vars
<1>. QED
  BY <1>2, <1>3, <1>4, <1>5, <1>6 DEF Next, Worker

LEMMA ValuesStep == WorkerInv /\ [Next]_vars => Values'
<1>. SUFFICES ASSUME WorkerInv, [Next]_vars PROVE Values'
  OBVIOUS
<1>0. Values /\ work \in WorkType /\ Locks
  BY DEF WorkerInv, Types, WorkTypes
<1>1. CASE ApplyAll
  <2>1. evdev \in SUBSET Mice /\ UNCHANGED <<hw, work, nobj>> /\ apply_profile(evdev, sync)
    BY <1>1 DEF ApplyAll, nodes, WorkerInv, Types, MiceTypes
  <2>2. ~At("repair")
    BY <1>0, <1>1 DEF ApplyAll, Locks, At, HoldsDevs
  <2>. QED
    BY <2>1, <2>2, ApplyKeepsValues
<1>2. ASSUME NEW m \in Mice, AddMouse(m) PROVE Values'
  <2>. DEFINE s == [sync EXCEPT ![m] = [obj |-> 0, dpi |-> 0]]
  <2>1. UNCHANGED <<hw, work, nobj>> /\ apply_profile({m}, s)
    BY <1>2 DEF AddMouse, nodes
  <2>2. ~At("repair")
    BY <1>0, <1>2 DEF AddMouse, Locks, At, HoldsDevs
  <2>3. \A q \in clean : s[q] = sync[q]
    BY <1>2 DEF AddMouse, WorkerInv, Types, MiceTypes
  <2>. HIDE DEF s
  <2>. QED
    BY <2>1, <2>2, <2>3, ApplyKeepsValues
<1>3. CASE \/ \E v \in Dpis : WantApply(v)
           \/ LockBoth \/ Stop \/ LoopExits
           \/ \E m \in Devices : Notify(m)
           \/ DescriptorDies \/ UNCHANGED vars
  BY <1>0, <1>3, ValuesSame DEF WantApply, LockBoth, Stop, LoopExits, Notify, DescriptorDies, vars, mice
<1>4. CASE Unplug
  BY <1>4 DEF Unplug, Values, LastIsHanded, WrittenIsHanded, HardwareHasIt, RepairIsNeutral
<1>5. CASE Replug
  <2>1. clean' = {}
    BY <1>5 DEF Replug, WorkerInv, Types, MiceTypes
  <2>. QED
    BY <2>1 DEF Values, LastIsHanded, WrittenIsHanded, HardwareHasIt, RepairIsNeutral
<1>6. ASSUME NEW pc \in {"drain", "scan", "look", "out", "identify", "unlock", "check"}, Goto(pc),
             ~At("write"), UNCHANGED <<wq, hw, sync, clean>>
      PROVE  Values'
  <2>1. work'.pc = pc
    BY <1>0, <1>6, GotoFacts DEF HoldsDevs
  <2>. QED
    BY <1>0, <1>6, <2>1, ValuesElsewhere DEF At
<1>7. CASE ScanDone \/ Identify \/ Notifications
  BY <1>6, <1>7, RoundEnds DEF ScanDone, Identify, Notifications, mice, At
<1>8. CASE DrainDone
  BY <1>6, <1>8 DEF DrainDone, mice, At
<1>9. CASE Scan
  BY <1>6, <1>9 DEF Scan, mice, At
<1>10. CASE Look
  <2>1. UNCHANGED <<wq, hw, sync, clean>> /\ ~At("write")
    BY <1>10 DEF Look, mice, At
  <2>2. \/ \E pc \in {"drain", "out"} : work' = [work EXCEPT !.pc = pc]
        \/ work' = [work EXCEPT !.pc = "check", !.todo = known \cap Mice]
    BY <1>10, RoundEnds DEF Look, Goto
  <2>3. work'.pc \in {"drain", "out", "check"}
    BY <1>0, <2>2 DEF WorkType
  <2>. QED
    BY <1>0, <2>1, <2>3, ValuesElsewhere DEF At
<1>11. CASE apply_hidpp_dpi
  <2>1. UNCHANGED <<wq, hw, sync, clean>> /\ ~At("write")
    BY <1>11 DEF apply_hidpp_dpi, At
  <2>2. work'.pc = "check"
    BY <1>0, <1>11 DEF apply_hidpp_dpi, WorkType
  <2>. QED
    BY <1>0, <2>1, <2>2, ValuesElsewhere DEF At
<1>12. CASE TakeJob
  BY <1>12, TakeKeepsValues
<1>13. CASE WriteJob
  BY <1>13, WriteKeepsValues
<1>14. CASE Repair
  BY <1>14, RepairKeepsValues
<1>15. CASE \E m \in Mice : CheckDpi(m)
  BY <1>15, CheckKeepsValues
<1>16. CASE \E m \in Mice, v \in Dpis : Button(m, v)
  BY <1>16, ButtonKeepsValues
<1>. QED
  BY <1>1, <1>2, <1>3, <1>4, <1>5, <1>7, <1>8, <1>9, <1>10, <1>11, <1>12, <1>13, <1>14, <1>15,
     <1>16 DEF Next, Worker

-----------------------------------------------------------------------------
(* The theorems *)

LEMMA WorkerInvInit == Init => WorkerInv
<1>. SUFFICES ASSUME Init PROVE WorkerInv
  OBVIOUS
<1>1. WorkTypes /\ Locks
  BY DEF Init, WorkTypes, WorkType, At, Locks, HoldsDevs
<1>2. Nodes /\ MiceTypes
  BY WorkerAssumption DEF Init, Nodes, MiceTypes
<1>3. Queue
  BY DEF Init, Queue
<1>4. Values
  BY DEF Init, Values, LastIsHanded, WrittenIsHanded, HardwareHasIt, RepairIsNeutral
<1>. QED
  BY <1>1, <1>2, <1>3, <1>4 DEF WorkerInv, Types

\* Between apply_profile on the loop thread and the hardware there are a queue, a
\* worker that may hold a job without a lock, a transport that may have been
\* replaced and the repair of a skewed sensor: unless a write fails, the button
\* is pressed or the receiver is pulled, the value handed over last is the one
\* the mouse has once its jobs are written; and the two threads hold the locks
\* exactly where the code takes them.
THEOREM HandedIsAlwaysWritten == Spec => []HandedIsWritten
<1>1. WorkerInv /\ [Next]_vars => WorkerInv'
  BY WorkTypesStep, LocksStep, NodesStep, MiceTypesStep, QueueStep, ValuesStep DEF WorkerInv, Types
<1>2. WorkerInv => HandedIsWritten
  BY DEF WorkerInv, Types, Values, HardwareHasIt, HandedIsWritten, TypeOK, Locks, Nodes, MiceTypes, Queue,
         HoldsDevs
<1>. QED
  BY WorkerInvInit, <1>1, <1>2, PTL DEF Spec

\* R8-HIDN: a battery reading of an identified device is shown for that device
\* and for no other on the node.
THEOREM PaintedForOwnerAlways == Spec => []PaintedForOwner
<1>1. Init => PaintedForOwner
  BY DEF Init, PaintedForOwner
<1>2. PaintedForOwner /\ [Next]_vars => PaintedForOwner'
  <2>. SUFFICES ASSUME PaintedForOwner, [Next]_vars PROVE PaintedForOwner'
    OBVIOUS
  <2>1. CASE UNCHANGED painted
    BY <2>1 DEF PaintedForOwner
  <2>2. CASE Notifications
    <3>1. painted' \subseteq painted \cup {<<Owner(inbox[i]), inbox[i], inbox[i] \in known>> : i \in DOMAIN inbox}
      BY <2>2 DEF Notifications
    <3>2. \A i \in DOMAIN inbox : inbox[i] \in known => Owner(inbox[i]) = inbox[i]
      BY DEF Owner
    <3>. SUFFICES ASSUME NEW p \in painted', p[3] PROVE p[1] = p[2]
      BY DEF PaintedForOwner
    <3>3. CASE p \in painted
      BY <3>3 DEF PaintedForOwner
    <3>4. CASE \E i \in DOMAIN inbox : p = <<Owner(inbox[i]), inbox[i], inbox[i] \in known>>
      <4>1. PICK i \in DOMAIN inbox : p = <<Owner(inbox[i]), inbox[i], inbox[i] \in known>>
        BY <3>4
      <4>2. p[1] = Owner(inbox[i]) /\ p[2] = inbox[i]
        BY <4>1
      <4>3. p[3] <=> inbox[i] \in known
        BY <4>1, Zenon
      <4>. QED
        BY <3>2, <4>2, <4>3
    <3>. QED
      BY <3>1, <3>3, <3>4
  <2>. QED
    BY <2>1, <2>2 DEF Next, Worker, WantApply, LockBoth, ApplyAll, AddMouse, TakeJob, WriteJob, DrainDone,
       Scan, Identify, ScanDone, Look, CheckDpi, Repair, apply_hidpp_dpi, Stop, LoopExits, Notify, Button,
       Unplug, Replug, DescriptorDies, vars
<1>. QED
  BY <1>1, <1>2, PTL DEF Spec
=============================================================================
