---------------------------- MODULE HidppWorker ----------------------------
(***************************************************************************)
(* The HID++ worker thread of the daemon beside its loop thread: the queue *)
(* of hardware writes, the re-scan of the hidraw nodes, the periodic look  *)
(* at the DPI the hardware really has, and the notifications, with the     *)
(* locks the two threads share (hidpp_devs_mutex_ outside, devices_mutex_  *)
(* inside; the mutex of the queue is a leaf and its sections are steps).   *)
(*                                                                         *)
(* One receiver node with mice behind it.  Transport calls are             *)
(* steps with an outcome (HidppCalls has their insides).  Of a profile the *)
(* DPI is kept: the polling rate takes the same way.                       *)
(***************************************************************************)
EXTENDS Naturals, Sequences, FiniteSets, SequencesExt

CONSTANTS
  Mice,        \* mice behind the receiver
  Shell,       \* the receiver itself, a HID++ device without a sensor (0xFF)
  Dpis,        \* DPI values
  Default,     \* what a mouse has when it is powered
  MaxApplies,  \* bound: profile changes
  MaxTrouble,  \* bound: failed calls, presses of the DPI button, replugs
  MaxNotif     \* bound: notifications

ASSUME WorkerAssumption ==
  /\ IsFiniteSet(Mice) /\ Default \in Dpis /\ Shell \notin Mice
  /\ MaxApplies \in Nat /\ MaxTrouble \in Nat /\ MaxNotif \in Nat

Devices == Mice \cup {Shell}
NoJob == [mouse |-> "none"]

VARIABLES
  running,   \* running_
  present,   \* the receiver is plugged in
  evdev,     \* devices_: the mice the loop thread has open
  mdpi,      \* mouse_device::dpi, which scales the motion
  cfg,       \* the DPI of the profile
  sync,      \* mouse_device::hw_sync: transport and DPI last handed over
  known,     \* hidpp_devs_: what was identified
  ignored,   \* non_hidpp_paths_ has the node
  tobj,      \* the object in hidpp_transports_, 0 if none could be opened
  open,      \* objects whose descriptor works
  nobj,      \* objects created so far
  wq,        \* hidpp_wq_
  hw,        \* the DPI of the hardware
  skew,      \* mice whose Y axis differs from X
  devs,      \* who holds hidpp_devs_mutex_
  devices,   \* who holds devices_mutex_
  loop,      \* the loop thread: "idle", "want", "held" or "out"
  work,      \* the worker: where it is, its job, what it has read, what is left
  inbox,     \* battery notifications at the descriptor: which mouse sent them
  painted,   \* history: battery readings: shown for, sent by, was that one known
  clean,     \* history: mice whose hardware nothing else has changed since the
             \*   last value was handed over
  applies, trouble, notifs

vars == <<running, present, evdev, mdpi, cfg, sync, known, ignored, tobj, open, nobj,
          wq, hw, skew, devs, devices, loop, work, inbox, painted, clean,
          applies, trouble, notifs>>
nodes == <<known, ignored, tobj, open, nobj>>
mice == <<evdev, mdpi, sync>>
counts == <<applies, trouble, notifs>>

At(pc) == work.pc = pc
Goto(pc) == work' = [work EXCEPT !.pc = pc]

\* run_hidpp_worker looks at running_ between two rounds only.
NextRound == IF running THEN "drain" ELSE "out"

\* start() has set the devices up before the worker runs: no transport yet.
Init ==
  /\ running = TRUE /\ present = TRUE /\ evdev = Mice
  /\ cfg = Default /\ mdpi = [m \in Mice |-> Default]
  /\ sync = [m \in Mice |-> [obj |-> 0, dpi |-> 0]]
  /\ known = {} /\ ignored = FALSE /\ tobj = 0 /\ open = {} /\ nobj = 0
  /\ wq = << >> /\ hw = [m \in Mice |-> Default] /\ skew \in SUBSET Mice
  /\ devs = "free" /\ devices = "free" /\ loop = "idle"
  /\ work = [pc |-> "drain", job |-> NoJob, todo |-> {}, read |-> 0]
  /\ inbox = << >> /\ painted = {} /\ clean = {}
  /\ applies = 0 /\ trouble = 0 /\ notifs = 0

Trouble == trouble < MaxTrouble /\ trouble' = trouble + 1

-----------------------------------------------------------------------------
(* The loop thread *)

\* A config, a focus or a device gives the mice a profile: the thread wants the
\* locks (apply_new_config, apply_active_app, check_device_wakeups).
WantApply(v) ==
  /\ running /\ loop = "idle" /\ applies < MaxApplies
  /\ applies' = applies + 1
  /\ cfg' = v /\ loop' = "want"
  /\ UNCHANGED <<running, present, mice, nodes, wq, hw, skew, devs, devices, work,
                 inbox, painted, clean, trouble, notifs>>

\* Mutant: devices_mutex_ first, then hidpp_devs_mutex_.
LockBoth_inverted ==
  /\ \/ /\ loop = "want" /\ devices = "free"
        /\ loop' = "half" /\ devices' = "loop" /\ UNCHANGED devs
     \/ /\ loop = "half" /\ devs = "free"
        /\ loop' = "held" /\ devs' = "loop" /\ UNCHANGED devices
  /\ UNCHANGED <<running, present, mice, cfg, nodes, wq, hw, skew, work, inbox,
                 painted, clean, counts>>

\* std::scoped_lock takes both or backs off.
LockBoth ==
  /\ loop = "want" /\ devs = "free" /\ devices = "free"
  /\ loop' = "held" /\ devs' = "loop" /\ devices' = "loop"
  /\ UNCHANGED <<running, present, mice, cfg, nodes, wq, hw, skew, work, inbox,
                 painted, clean, counts>>

\* find_hidpp_transport: the mouse was identified and its transport works.
find_hidpp_transport(m) == m \in known /\ tobj \in open

\* hidpp_hw_plan_job: what differs from what this transport was handed last; the
\* plan is written down when it is made.
Planned(m, s) == s.obj # tobj \/ s.dpi # cfg

Handed(m) == [obj |-> tobj, dpi |-> cfg]

\* apply_profile for the mice ms, with the sync records s: the value is in force
\* for the motion at once; a job is queued where there is a transport.
apply_profile(ms, s) ==
  LET jobs == SetToSeq({m \in ms : find_hidpp_transport(m) /\ Planned(m, s[m])}) IN
  /\ mdpi' = [m \in Mice |-> IF m \in ms THEN cfg ELSE mdpi[m]]
  /\ sync' = [m \in Mice |-> IF m \in Range(jobs) THEN Handed(m) ELSE s[m]]
  /\ wq' = wq \o [i \in DOMAIN jobs |-> [mouse |-> jobs[i], obj |-> tobj, dpi |-> cfg]]
  /\ clean' = clean \cup Range(jobs)

ApplyAll ==
  /\ loop = "held"
  /\ apply_profile(evdev, sync)
  /\ loop' = "idle" /\ devs' = "free" /\ devices' = "free"
  /\ UNCHANGED <<running, present, evdev, cfg, nodes, hw, skew, work, inbox, painted, counts>>

\* A mouse is plugged in: a new mouse_device gets its profile under
\* hidpp_devs_mutex_ and is published then.
AddMouse(m) ==
  /\ running /\ loop = "idle" /\ present /\ m \notin evdev
  /\ devs = "free" /\ devices = "free"
  /\ evdev' = evdev \cup {m}
  /\ apply_profile({m}, [sync EXCEPT ![m] = [obj |-> 0, dpi |-> 0]])
  /\ UNCHANGED <<running, present, cfg, nodes, hw, skew, devs, devices, loop, work,
                 inbox, painted, counts>>

-----------------------------------------------------------------------------
(* The worker: drain_hidpp_writes *)

\* Mutant: the newest job first.
TakeJob_newest ==
  /\ At("drain") /\ wq # << >>
  /\ work' = [work EXCEPT !.pc = "write", !.job = Last(wq)]
  /\ wq' = Front(wq)
  /\ UNCHANGED <<running, present, mice, cfg, nodes, hw, skew, devs, devices, loop,
                 inbox, painted, clean, counts>>

\* The queue is emptied before anything else is done, also when a stop has come.
TakeJob ==
  /\ At("drain") /\ wq # << >>
  /\ work' = [work EXCEPT !.pc = "write", !.job = Head(wq)]
  /\ wq' = Tail(wq)
  /\ UNCHANGED <<running, present, mice, cfg, nodes, hw, skew, devs, devices, loop,
                 inbox, painted, clean, counts>>

\* set_dpi on the job's own object, with no lock held.  It fails when the object
\* is dead or the device does not answer; a failure is logged and forgotten.
WriteJob ==
  /\ At("write")
  /\ Goto("drain")
  /\ LET j == work.job IN
     \/ /\ j.obj \in open
        /\ hw' = [hw EXCEPT ![j.mouse] = j.dpi] /\ skew' = skew \ {j.mouse}
        /\ UNCHANGED <<clean, trouble>>
     \/ /\ j.obj \notin open
        /\ clean' = clean \ {j.mouse} /\ UNCHANGED <<hw, skew, trouble>>
     \/ /\ j.obj \in open /\ Trouble
        /\ clean' = clean \ {j.mouse} /\ UNCHANGED <<hw, skew>>
  /\ UNCHANGED <<running, present, mice, cfg, nodes, wq, devs, devices, loop, inbox,
                 painted, applies, notifs>>

\* The queue is empty: on to the re-scan, if it is due.
DrainDone ==
  /\ At("drain") /\ wq = << >>
  /\ \E pc \in {"scan", "look"} : Goto(pc)
  /\ UNCHANGED <<running, present, mice, cfg, nodes, wq, hw, skew, devs, devices, loop,
                 inbox, painted, clean, counts>>

-----------------------------------------------------------------------------
(* The worker: poll_hidpp_notifications, the re-scan every 2 s *)

\* A node that is gone takes its devices and its transport along.
Forget(t, k) == IF present THEN <<t, k>> ELSE <<0, {}>>

Scan ==
  /\ At("scan") /\ devs = "free"
  /\ devs' = "worker"
  /\ LET f == Forget(tobj, known) IN tobj' = f[1] /\ known' = f[2]
  /\ ignored' = (ignored /\ present)
  /\ Goto(IF present /\ ~ignored /\ known = {} THEN "identify" ELSE "unlock")
  /\ UNCHANGED <<running, present, mice, cfg, open, nobj, wq, hw, skew, devices, loop,
                 inbox, painted, clean, counts>>

\* identify_logitech_devices under the lock.  Without trouble it finds all; a
\* mouse that does not answer is not looked for again as long as the node stays,
\* and a node on which nobody answers is set aside.
Identify ==
  /\ At("identify")
  /\ \E found \in SUBSET Devices :
       /\ IF found = (IF present THEN Devices ELSE {}) THEN UNCHANGED trouble ELSE Trouble
       /\ known' = found /\ ignored' = (found = {})
  /\ Goto("unlock")
  /\ UNCHANGED <<running, present, mice, cfg, tobj, open, nobj, wq, hw, skew, devs,
                 devices, loop, inbox, painted, clean, applies, notifs>>

ScanDone ==
  /\ At("unlock") /\ devs' = "free" /\ Goto("look")
  /\ UNCHANGED <<running, present, mice, cfg, nodes, wq, hw, skew, devices, loop, inbox,
                 painted, clean, counts>>

-----------------------------------------------------------------------------
(* The worker: battery, DPI and notifications every second *)

\* Not due yet, or the section begins: a dead transport is replaced first.
Look ==
  /\ At("look")
  /\ \/ /\ Goto(NextRound)
        /\ UNCHANGED <<devs, tobj, open, nobj>>
     \/ /\ devs = "free" /\ devs' = "worker"
        /\ work' = [work EXCEPT !.pc = "check", !.todo = known \cap Mice]
        /\ IF known = {} \/ tobj \in open
           THEN UNCHANGED <<tobj, open, nobj>>
           ELSE IF ~present THEN tobj' = 0 /\ UNCHANGED <<open, nobj>>
           ELSE nobj' = nobj + 1 /\ tobj' = nobj' /\ open' = open \cup {nobj'}
  /\ UNCHANGED <<running, present, mice, cfg, known, ignored, wq, hw, skew, devices, loop,
                 inbox, painted, clean, counts>>

\* get_dpi_info of one mouse: its value now, or no answer.
CheckDpi(m) ==
  /\ At("check") /\ m \in work.todo
  /\ \/ /\ tobj \in open
        /\ work' = [work EXCEPT !.pc = IF m \in skew THEN "repair" ELSE "merge",
                                !.read = hw[m], !.job = [mouse |-> m]]
        /\ UNCHANGED trouble
     \/ /\ (tobj \notin open /\ UNCHANGED trouble) \/ Trouble
        /\ work' = [work EXCEPT !.todo = @ \ {m}]
  /\ UNCHANGED <<running, present, mice, cfg, nodes, wq, hw, skew, devs, devices, loop,
                 inbox, painted, clean, applies, notifs>>

\* The axes differ: the value of X is written to both, without looking at what
\* came of it.
Repair ==
  /\ At("repair") /\ Goto("merge")
  /\ LET m == work.job.mouse IN
     \/ /\ tobj \in open
        /\ hw' = [hw EXCEPT ![m] = work.read] /\ skew' = skew \ {m}
        /\ UNCHANGED trouble
     \/ /\ (tobj \notin open /\ UNCHANGED trouble) \/ Trouble
        /\ UNCHANGED <<hw, skew>>
  /\ UNCHANGED <<running, present, mice, cfg, nodes, wq, devs, devices, loop, inbox,
                 painted, clean, applies, notifs>>

\* Mutant: the reading is only logged.
apply_hidpp_dpi_log_only ==
  /\ At("merge") /\ devices = "free"
  /\ work' = [work EXCEPT !.pc = "check", !.todo = @ \ {work.job.mouse}, !.job = NoJob]
  /\ UNCHANGED <<running, present, mice, cfg, nodes, wq, hw, skew, devs, devices, loop,
                 inbox, painted, clean, counts>>

\* apply_hidpp_dpi under devices_mutex_: the motion is scaled by what was read.
apply_hidpp_dpi ==
  /\ At("merge") /\ devices = "free"
  /\ LET m == work.job.mouse IN
     /\ mdpi' = IF m \in evdev THEN [mdpi EXCEPT ![m] = work.read] ELSE mdpi
     /\ work' = [work EXCEPT !.pc = "check", !.todo = @ \ {m}, !.job = NoJob]
  /\ UNCHANGED <<running, present, evdev, cfg, sync, nodes, wq, hw, skew, devs, devices, loop,
                 inbox, painted, clean, counts>>

\* The sweep asks the receiver first.
First == IF Shell \in known THEN Shell ELSE CHOOSE m \in known : TRUE

\* Mutant: the first device of the node gets them all (before R8-HIDN).
Owner_first(n) == First

\* The device a notification names; one that was not identified goes to the
\* first device of the node.
Owner(n) == IF n \in known THEN n ELSE First

\* One drain per node; every battery reading is shown for its device
\* (apply_hidpp_battery takes devices_mutex_).
Notifications ==
  /\ At("check") /\ work.todo = {} /\ devices = "free"
  /\ IF known = {} \/ tobj \notin open THEN UNCHANGED <<inbox, painted>>
     ELSE /\ inbox' = << >>
          /\ painted' = painted \cup {<<Owner(inbox[i]), inbox[i], inbox[i] \in known>> : i \in DOMAIN inbox}
  /\ devs' = "free" /\ Goto(NextRound)
  /\ UNCHANGED <<running, present, mice, cfg, nodes, wq, hw, skew, devices, loop, clean, counts>>

-----------------------------------------------------------------------------
(* stop() *)

Stop ==
  /\ running /\ running' = FALSE
  /\ UNCHANGED <<present, mice, cfg, nodes, wq, hw, skew, devs, devices, loop, work,
                 inbox, painted, clean, counts>>

LoopExits ==
  /\ ~running /\ loop = "idle" /\ loop' = "out"
  /\ UNCHANGED <<running, present, mice, cfg, nodes, wq, hw, skew, devs, devices, work,
                 inbox, painted, clean, counts>>

-----------------------------------------------------------------------------
(* The hardware (external) *)

\* The DPI button.
Button(m, v) ==
  /\ Trouble /\ present
  /\ hw' = [hw EXCEPT ![m] = v] /\ skew' = skew \ {m} /\ clean' = clean \ {m}
  /\ UNCHANGED <<running, present, mice, cfg, nodes, wq, devs, devices, loop, work,
                 inbox, painted, applies, notifs>>

\* The receiver is pulled: descriptors die, the loop thread drops the mice.
Unplug ==
  /\ Trouble /\ present /\ loop \in {"idle", "out"} /\ devices = "free"
  /\ present' = FALSE /\ open' = {} /\ evdev' = {} /\ inbox' = << >> /\ clean' = {}
  /\ UNCHANGED <<running, mdpi, sync, cfg, known, ignored, tobj, nobj, wq, hw, skew, devs,
                 devices, loop, work, painted, applies, notifs>>

\* It is plugged in again; the mice start with their own DPI.
Replug ==
  /\ ~present /\ present' = TRUE
  /\ hw' = [m \in Mice |-> Default] /\ skew' = {}
  /\ UNCHANGED <<running, mice, cfg, nodes, wq, devs, devices, loop, work, inbox, painted,
                 clean, counts>>

\* The descriptor fails without a replug; the transport closes it.
DescriptorDies ==
  /\ Trouble /\ tobj \in open
  /\ open' = open \ {tobj}
  /\ UNCHANGED <<running, present, mice, cfg, known, ignored, tobj, nobj, wq, hw, skew, devs,
                 devices, loop, work, inbox, painted, clean, applies, notifs>>

Notify(m) ==
  /\ notifs < MaxNotif /\ notifs' = notifs + 1 /\ present
  /\ inbox' = Append(inbox, m)
  /\ UNCHANGED <<running, present, mice, cfg, nodes, wq, hw, skew, devs, devices, loop, work,
                 painted, clean, applies, trouble>>

-----------------------------------------------------------------------------

Worker ==
  \/ TakeJob \/ WriteJob \/ DrainDone \/ Scan \/ Identify \/ ScanDone
  \/ Look \/ (\E m \in Mice : CheckDpi(m)) \/ Repair \/ apply_hidpp_dpi \/ Notifications

Next ==
  \/ \E v \in Dpis : WantApply(v)
  \/ LockBoth \/ ApplyAll \/ (\E m \in Mice : AddMouse(m))
  \/ Worker \/ Stop \/ LoopExits
  \/ \E m \in Devices : Notify(m)
  \/ \E m \in Mice, v \in Dpis : Button(m, v)
  \/ Unplug \/ Replug \/ DescriptorDies

\* The threads run, and a mutex that is free again and again is had in the end
\* (the worker sleeps between two rounds); the periodic parts of the worker come
\* due again and again; who pulls the receiver plugs it in again.
Fairness ==
  /\ WF_vars(Worker) /\ WF_vars(ApplyAll \/ LoopExits) /\ WF_vars(Replug)
  /\ SF_vars(LockBoth \/ \E m \in Mice : AddMouse(m))
  /\ SF_vars(DrainDone /\ At("scan")') /\ SF_vars(Look /\ At("check")')

Spec == Init /\ [][Next]_vars /\ Fairness

-----------------------------------------------------------------------------
(* Properties *)

\* The state is well formed: each lock is held exactly where the code holds it.
TypeOK ==
  /\ known \subseteq Devices /\ evdev \subseteq Mice
  /\ devs = "loop" <=> loop = "held"
  /\ devs = "worker" <=> work.pc \in {"identify", "unlock", "check", "repair", "merge"}
  /\ devices = "loop" <=> loop = "held"
  /\ ignored => known = {}
  /\ \A i \in DOMAIN wq : wq[i].obj \in 1..nobj

Pending(m) ==
  \/ \E i \in DOMAIN wq : wq[i].mouse = m
  \/ At("write") /\ work.job.mouse = m

\* What apply_profile has handed over last is what the mouse is set to once its
\* jobs are written: jobs of several applies, and the repair of a skewed sensor,
\* do not leave an older value behind.  A failed write, the DPI button and a
\* replug excuse the mouse until the next value is handed over.
HandedIsWritten == TypeOK /\ \A m \in clean : Pending(m) \/ hw[m] = sync[m].dpi

\* A battery reading of an identified device is shown for this device, also when
\* several share the node (R8-HIDN).
PaintedForOwner == \A p \in painted : p[3] => p[1] = p[2]

\* The motion is scaled by the DPI the hardware really has, on both axes, once
\* nothing changes any more: an apply that is overtaken by a reading of the old
\* value, or a button, is made good by the next look.
FollowsHardware ==
  <>[](running => \A m \in evdev \cap known : mdpi[m] = hw[m] /\ m \notin skew)

\* The two threads never wait for each other for ever: a loop thread that wants the
\* locks gets them, a queued write is taken up unless the daemon stops, and stop()
\* can join both.
ThreadsEnd ==
  /\ loop = "want" ~> loop = "idle"
  /\ wq # << >> ~> (wq = << >> \/ ~running)
  /\ ~running ~> (loop = "out" /\ At("out"))
=============================================================================
