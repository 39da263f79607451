-------------------------- MODULE DeviceLifecycle --------------------------
(***************************************************************************)
(* Which mice the daemon holds.  The loop thread opens mice at start       *)
(* (setup_devices), at hot-plug events and periodically (do_hotplug_scan), *)
(* closes them when they disappear, fail, or a config or focus change      *)
(* disables them, and backs off from a failing one with a deny list.       *)
(*                                                                         *)
(* A pass over the mice is one step per mouse, so the kernel can add and   *)
(* remove mice in the middle of it; the order of the mice is left open.    *)
(* A deny entry is the number of ticks until it expires.  A tick is long   *)
(* compared with an iteration of the loop (one second against 10 ms): the  *)
(* clock waits for what the loop has to do.                                *)
(***************************************************************************)
EXTENDS ProfileSelection, Integers, FiniteSets

CONSTANTS
  Paths,       \* the /dev/input paths of mice
  IdOf,        \* the device_id open_input_device computes for a path
  Rdevs,       \* device numbers a path can resolve to
  Configs,     \* configs the daemon can be given
  DenyTicks,   \* DENY_REOPEN_MS
  PeriodTicks, \* the 2 s between two periodic rescans
  StartFaults, \* what can fail in the pass of start()
  ScanFaults,  \* what can fail in later passes
  MaxPlugs,    \* bound: kernel events
  MaxFaults,   \* bound: failures
  MaxChanges   \* bound: config and focus changes

Faults == {"open", "grab", "create", "epoll", "io"}

ASSUME DeviceAssumption ==
  /\ IdOf \in [Paths -> Ids]
  /\ Rdevs \subseteq Nat \ {0}
  /\ Configs \subseteq ConfigType
  /\ DenyTicks \in Nat \ {0} /\ PeriodTicks \in Nat \ {0}
  /\ StartFaults \subseteq Faults /\ ScanFaults \subseteq Faults
  /\ MaxPlugs \in Nat /\ MaxFaults \in Nat /\ MaxChanges \in Nat

VARIABLES
  \* The kernel
  rdev,          \* the device number each path resolves to, 0: not there
  grabs,         \* paths whose present node an open fd of the daemon has grabbed
  inotify,       \* an unread inotify event for /dev/input
  \* The daemon
  cfg,           \* config_
  app,           \* current_app_
  report,        \* pending_app_ and active_app_dirty_: a set of at most one app
  rawOn,         \* raw_input_enabled_
  devices,       \* devices_
  openedPaths,   \* opened_paths_
  openedIds,     \* opened_device_ids_
  pathDeny,      \* path_deny_until_ms_
  idDeny,        \* dev_deny_until_ms_
  rescanNeeded,  \* rescan_needed_
  rescanIn,      \* ticks until empty_rescan_ms_
  hotplug,       \* pending_hotplug_
  pass,          \* what the loop thread is in the middle of
  todo,          \* the mice this pass has not looked at yet
  missed,        \* missed_any
  spent          \* how much of each bound is used up

kernelVars == <<rdev, inotify>>
choiceVars == <<cfg, app, report, rawOn>>
heldVars == <<devices, openedPaths, openedIds, grabs>>
denyVars == <<pathDeny, idDeny>>
timerVars == <<rescanNeeded, rescanIn, hotplug>>
passVars == <<pass, todo, missed>>
vars == <<kernelVars, choiceVars, heldVars, denyVars, timerVars, passVars, spent>>

NoDeny == -1

Bounded == {"plug", "fault", "change"}

Spend(what, max) ==
  /\ spent[what] < max
  /\ spent' = [spent EXCEPT ![what] = @ + 1]

\* find_mice
Listed == {p \in Paths : rdev[p] # 0}

PathsOf(S) == {d.path : d \in S}
IdsOf(S) == {IdOf[d.path] : d \in S}

Init ==
  /\ rdev \in [Paths -> {0} \cup {r \in Rdevs : \A s \in Rdevs : r <= s}]
  /\ grabs = {} /\ inotify = FALSE
  /\ cfg \in Configs
  /\ app = NoFocus /\ report = {} /\ rawOn = cfg.raw
  /\ devices = {} /\ openedPaths = {} /\ openedIds = {}
  /\ pathDeny = [p \in Paths |-> NoDeny]
  /\ idDeny = [i \in Ids |-> NoDeny]
  /\ rescanNeeded = FALSE /\ rescanIn = 0 /\ hotplug = FALSE
  /\ pass = "start" /\ todo = (IF cfg.raw THEN Listed ELSE {}) /\ missed = FALSE
  /\ spent = [what \in Bounded |-> 0]

-----------------------------------------------------------------------------
(* A pass over the mice *)

Idle == pass = "idle"

\* prune_path_deny and prune_dev_deny
Prune ==
  /\ pathDeny' = [p \in Paths |-> IF p \in Listed /\ pathDeny[p] > 0 THEN pathDeny[p] ELSE NoDeny]
  /\ idDeny' = [i \in Ids |-> IF idDeny[i] > 0 THEN idDeny[i] ELSE NoDeny]

\* Starts a pass of the given kind.
Begin(kind) ==
  /\ Prune
  /\ pass' = kind
  /\ todo' = Listed
  /\ missed' = FALSE

\* deny_reopen
deny_reopen(p) ==
  /\ pathDeny' = [pathDeny EXCEPT ![p] = DenyTicks]
  /\ idDeny' = [idDeny EXCEPT ![IdOf[p]] = DenyTicks]

\* The mouse that the pass looks at next, and what it leaves alone.
Visit(p) ==
  /\ p \in todo
  /\ todo' = todo \ {p}
  /\ UNCHANGED <<kernelVars, choiceVars, timerVars, pass>>

Miss == missed' = TRUE
NoMiss == UNCHANGED missed

CanFail(fault) ==
  /\ fault \in (IF pass = "start" THEN StartFaults ELSE ScanFaults)
  /\ Spend("fault", MaxFaults)

\* Not open, not held back by its path, and its node is still there.
Opens(p) == p \notin openedPaths /\ pathDeny[p] <= 0 /\ rdev[p] # 0 /\ p \notin grabs

\* ... and the id is not held back either.
Admitted(p) == Opens(p) /\ idDeny[IdOf[p]] <= 0

\* ... and no gate keeps the daemon from using it.
Wanted(p) ==
  /\ Admitted(p)
  /\ IdOf[p] \notin openedIds
  /\ ~Disabled(cfg, app, IdOf[p])

SkipOpened(p) ==
  /\ Visit(p)
  /\ p \in openedPaths
  /\ NoMiss /\ UNCHANGED <<heldVars, denyVars, spent>>

SkipDenied(p) ==
  /\ Visit(p)
  /\ p \notin openedPaths /\ pathDeny[p] > 0
  /\ Miss /\ UNCHANGED <<heldVars, denyVars, spent>>

\* open() fails, or the node has gone since it was listed: the id is unknown.
OpenFails(p) ==
  /\ Visit(p)
  /\ p \notin openedPaths /\ pathDeny[p] <= 0
  /\ \/ rdev[p] = 0 /\ UNCHANGED spent
     \/ CanFail("open")
  /\ pathDeny' = [pathDeny EXCEPT ![p] = DenyTicks]
  /\ Miss /\ UNCHANGED <<heldVars, idDeny>>

\* EVIOCGRAB fails: the node is grabbed already, by someone else or by us.
GrabFails(p) ==
  /\ Visit(p)
  /\ p \notin openedPaths /\ pathDeny[p] <= 0 /\ rdev[p] # 0
  /\ \/ p \in grabs /\ UNCHANGED spent
     \/ CanFail("grab")
  /\ deny_reopen(p)
  /\ Miss /\ UNCHANGED heldVars

\* reopen_denied by the id: the mouse is released and its windows start again.
HeldBack(p) ==
  /\ Visit(p)
  /\ Opens(p) /\ idDeny[IdOf[p]] > 0
  /\ deny_reopen(p)
  /\ Miss /\ UNCHANGED <<heldVars, spent>>

\* HP-3: another node of the same mouse is open.
SkipDuplicate(p) ==
  /\ Visit(p)
  /\ Admitted(p) /\ IdOf[p] \in openedIds
  /\ NoMiss /\ UNCHANGED <<heldVars, denyVars, spent>>

\* PAS-2, HP-1: the selected profile is disabled.
SkipDisabled(p) ==
  /\ Visit(p)
  /\ Admitted(p) /\ IdOf[p] \notin openedIds /\ Disabled(cfg, app, IdOf[p])
  /\ NoMiss /\ UNCHANGED <<heldVars, denyVars, spent>>

\* Fault: the early return after a failed uinput device keeps the grab.
CreateFailsLeaks(p) ==
  /\ Visit(p)
  /\ Wanted(p) /\ CanFail("create")
  /\ deny_reopen(p)
  /\ grabs' = grabs \cup {p}
  /\ Miss /\ UNCHANGED <<devices, openedPaths, openedIds>>

CreateFails(p) ==
  /\ Visit(p)
  /\ Wanted(p) /\ CanFail("create")
  /\ deny_reopen(p)
  /\ Miss /\ UNCHANGED heldVars

\* Fault: a failed registration does not keep the rescan going.
EpollFailsQuietly(p) ==
  /\ Visit(p)
  /\ Wanted(p) /\ CanFail("epoll")
  /\ NoMiss /\ UNCHANGED <<heldVars, denyVars>>

\* No deny entry: a scan remembers the mouse in missed_any only.
EpollFails(p) ==
  /\ Visit(p)
  /\ Wanted(p) /\ CanFail("epoll")
  /\ Miss /\ UNCHANGED <<heldVars, denyVars>>

Device(p) ==
  [path |-> p, rdev |-> rdev[p], alive |-> TRUE, applied |-> find_profile(cfg, app, IdOf[p])]

OpenDevice(p) ==
  /\ Visit(p)
  /\ Wanted(p)
  /\ devices' = devices \cup {Device(p)}
  /\ openedPaths' = openedPaths \cup {p}
  /\ openedIds' = openedIds \cup {IdOf[p]}
  /\ grabs' = grabs \cup {p}
  /\ NoMiss /\ UNCHANGED <<denyVars, spent>>

\* A scan publishes missed_any; setup_devices does not.
EndPass ==
  /\ pass \in {"start", "setup", "scan"} /\ todo = {}
  /\ pass' = "idle"
  /\ rescanNeeded' = IF pass = "scan" THEN missed ELSE rescanNeeded
  /\ UNCHANGED <<kernelVars, choiceVars, heldVars, denyVars, rescanIn, hotplug, todo, missed, spent>>

-----------------------------------------------------------------------------
(* Closing mice *)

\* The node of d is the one its path resolves to (open_fd_matches_path).
SameNode(d) == rdev[d.path] = d.rdev

\* The open sets and the grabs after the devices in S are released.
Release(S) ==
  /\ openedPaths' = openedPaths \ PathsOf(S)
  /\ openedIds' = openedIds \ IdsOf(S)
  /\ grabs' = grabs \ {d.path : d \in {e \in S : e.alive}}

\* The beginning of do_hotplug_scan: mice that are gone, or whose path leads
\* to another node, are closed before any is opened.
do_hotplug_scan ==
  IF rawOn
    THEN /\ Begin("scan")
         /\ LET gone == {d \in devices : ~SameNode(d)}
            IN devices' = devices \ gone /\ Release(gone)
    ELSE UNCHANGED <<passVars, denyVars, heldVars>>

\* The clean-up of a device with a fatal error at the end of run_loop's
\* iteration.  It backs off only if the path still leads to the failed node.
Remove(d) ==
  /\ Idle
  /\ devices' = devices \ {d}
  /\ Release({d})
  /\ IF SameNode(d)
       THEN deny_reopen(d.path)
       ELSE /\ pathDeny' = [pathDeny EXCEPT ![d.path] = NoDeny]
            /\ idDeny' = [idDeny EXCEPT ![IdOf[d.path]] = NoDeny]
  /\ rescanNeeded' = TRUE
  /\ UNCHANGED <<kernelVars, choiceVars, rescanIn, hotplug, passVars>>

\* process_device reads from a node that is gone.
Disconnect(d) == ~d.alive /\ Remove(d) /\ UNCHANGED spent

\* process_device meets an I/O error on a node that is still there.
IoError(d) == d.alive /\ "io" \in ScanFaults /\ Spend("fault", MaxFaults) /\ Remove(d)

-----------------------------------------------------------------------------
(* The other steps of the loop *)

\* handle_hotplug
HandleHotplug ==
  /\ Idle /\ inotify
  /\ inotify' = FALSE
  /\ hotplug' = TRUE
  /\ UNCHANGED <<rdev, choiceVars, heldVars, denyVars, rescanNeeded, rescanIn, passVars, spent>>

\* The 80 ms after the first event are over.
HotplugScan ==
  /\ Idle /\ hotplug
  /\ hotplug' = FALSE
  /\ do_hotplug_scan
  /\ UNCHANGED <<kernelVars, choiceVars, rescanNeeded, rescanIn, spent>>

\* Fault: only the entries by id are watched.
DenyExpiredIds == \E i \in Ids : idDeny[i] = 0

DenyExpired == (\E p \in Paths : pathDeny[p] = 0) \/ (\E i \in Ids : idDeny[i] = 0)

\* D26-N5: an expired deny entry asks for a rescan.
KickRescan ==
  /\ Idle /\ DenyExpired /\ ~rescanNeeded
  /\ rescanNeeded' = TRUE
  /\ UNCHANGED <<kernelVars, choiceVars, heldVars, denyVars, rescanIn, hotplug, passVars, spent>>

RescanDue == (devices = {} \/ rescanNeeded) /\ rescanIn = 0

PeriodicRescan ==
  /\ Idle /\ RescanDue
  /\ rescanIn' = PeriodTicks
  /\ do_hotplug_scan
  /\ UNCHANGED <<kernelVars, choiceVars, rescanNeeded, hotplug, spent>>

\* The device with the profile that is selected for it, if there is one.
Reapply(d, c, a) ==
  LET p == find_profile(c, a, IdOf[d.path])
  IN [d EXCEPT !.applied = IF p # NoProfile THEN p ELSE @]

DisabledBy(c, a) == {d \in devices : Disabled(c, a, IdOf[d.path])}

\* Fault: a focus change releases mice but does not update the others.
ApplyActiveAppReleases ==
  /\ Idle
  /\ \E a \in report \ {app} :
       /\ app' = a
       /\ devices' = devices \ DisabledBy(cfg, a)
       /\ Release(DisabledBy(cfg, a))
  /\ report' = {}
  /\ rescanNeeded' = TRUE
  /\ UNCHANGED <<kernelVars, cfg, rawOn, denyVars, rescanIn, hotplug, passVars, spent>>

\* apply_active_app with a focus that is really new.
ApplyActiveApp ==
  /\ Idle
  /\ \E a \in report \ {app} :
       /\ app' = a
       /\ devices' = {Reapply(d, cfg, a) : d \in devices \ DisabledBy(cfg, a)}
       /\ Release(DisabledBy(cfg, a))
  /\ report' = {}
  /\ rescanNeeded' = TRUE
  /\ UNCHANGED <<kernelVars, cfg, rawOn, denyVars, rescanIn, hotplug, passVars, spent>>

\* apply_active_app with the focus it knows.
SameActiveApp ==
  /\ Idle /\ report = {app}
  /\ report' = {}
  /\ UNCHANGED <<kernelVars, cfg, app, rawOn, heldVars, denyVars, timerVars, passVars, spent>>

\* setup_devices under the new value of raw_input_enabled_.
setup_devices == IF rawOn' /\ Listed # {} THEN Begin("setup") ELSE UNCHANGED <<passVars, denyVars>>

\* Fault: every change closes all mice and sets them up again.
apply_new_config_regrabs(c) ==
  /\ cfg' = c /\ rawOn' = c.raw
  /\ devices' = {} /\ Release(devices)
  /\ setup_devices

\* apply_new_config: disabled mice are released, the others get their profile
\* live; without a profile for any of them all get the identity profile.  With
\* nothing open, or another value of the intercept switch, everything is
\* closed and set up again.
apply_new_config(c) ==
  LET kept == devices \ DisabledBy(c, app)
      live == \E d \in kept : find_profile(c, app, IdOf[d.path]) # NoProfile
  IN /\ cfg' = c
     /\ rawOn' = c.raw
     /\ IF kept = {} \/ c.raw # rawOn
          THEN /\ devices' = {} /\ openedPaths' = {} /\ openedIds' = {}
               /\ grabs' = grabs \ {d.path : d \in {e \in devices : e.alive}}
               /\ setup_devices
          ELSE /\ devices' = {[Reapply(d, c, app) EXCEPT !.applied = IF live THEN @ ELSE NoProfile] : d \in kept}
               /\ Release(DisabledBy(c, app))
               /\ UNCHANGED <<passVars, denyVars>>

ApplyNewConfig ==
  /\ Idle
  /\ Spend("change", MaxChanges)
  /\ \E c \in Configs : apply_new_config(c)
  /\ rescanNeeded' = TRUE
  /\ UNCHANGED <<kernelVars, app, report, rescanIn, hotplug>>

-----------------------------------------------------------------------------
(* The environment *)

\* The IPC thread stores the focus the GUI reports (set_active_app).
SetActiveApp(a) ==
  /\ Spend("change", MaxChanges)
  /\ report' = {a}
  /\ UNCHANGED <<kernelVars, cfg, app, rawOn, heldVars, denyVars, timerVars, passVars>>

Plug(p) ==
  /\ rdev[p] = 0
  /\ Spend("plug", MaxPlugs)
  /\ \E r \in Rdevs : rdev' = [rdev EXCEPT ![p] = r]
  /\ inotify' = TRUE
  /\ UNCHANGED <<choiceVars, heldVars, denyVars, timerVars, passVars>>

\* The node disappears; an fd on it stays open and fails.
Unplug(p) ==
  /\ rdev[p] # 0
  /\ Spend("plug", MaxPlugs)
  /\ rdev' = [rdev EXCEPT ![p] = 0]
  /\ inotify' = TRUE
  /\ devices' = {[d EXCEPT !.alive = d.alive /\ d.path # p] : d \in devices}
  /\ grabs' = grabs \ {p}
  /\ UNCHANGED <<choiceVars, openedPaths, openedIds, denyVars, timerVars, passVars>>

Down(n) == IF n > 0 THEN n - 1 ELSE n

\* The loop has nothing to do until time passes.
Waiting ==
  /\ Idle /\ ~inotify /\ ~hotplug /\ report = {} /\ ~RescanDue
  /\ \A d \in devices : d.alive
  /\ DenyExpired => rescanNeeded

Tick ==
  /\ Waiting
  /\ pathDeny' = [p \in Paths |-> Down(pathDeny[p])]
  /\ idDeny' = [i \in Ids |-> Down(idDeny[i])]
  /\ rescanIn' = Down(rescanIn)
  /\ UNCHANGED <<kernelVars, choiceVars, heldVars, rescanNeeded, hotplug, passVars, spent>>

VisitMouse(p) ==
  \/ SkipOpened(p) \/ SkipDenied(p) \/ OpenFails(p) \/ GrabFails(p) \/ HeldBack(p)
  \/ SkipDuplicate(p) \/ SkipDisabled(p) \/ CreateFails(p) \/ EpollFails(p) \/ OpenDevice(p)

LoopStep ==
  \/ \E p \in Paths : VisitMouse(p)
  \/ EndPass
  \/ \E d \in devices : Disconnect(d)
  \/ HandleHotplug \/ HotplugScan \/ KickRescan \/ PeriodicRescan
  \/ ApplyActiveApp \/ SameActiveApp

Next ==
  \/ LoopStep \/ ApplyNewConfig \/ Tick
  \/ \E d \in devices : IoError(d)
  \/ \E a \in Focus : SetActiveApp(a)
  \/ \E p \in Paths : Plug(p) \/ Unplug(p)

Spec == Init /\ [][Next]_vars

\* The loop thread is scheduled and time passes.
FairSpec == Spec /\ WF_vars(LoopStep) /\ WF_vars(Tick)

-----------------------------------------------------------------------------
(* Properties *)

DeviceType ==
  [path : Paths, rdev : Rdevs, alive : BOOLEAN, applied : Profiles \cup {NoProfile}]

KernelTypes == rdev \in [Paths -> Rdevs \cup {0}] /\ inotify \in BOOLEAN

ChoiceTypes == cfg \in Configs /\ app \in Focus /\ report \subseteq Focus /\ rawOn \in BOOLEAN

HeldTypes ==
  /\ devices \subseteq DeviceType
  /\ openedPaths \subseteq Paths /\ openedIds \subseteq Ids /\ grabs \subseteq Paths

DenyTypes ==
  /\ pathDeny \in [Paths -> {NoDeny} \cup 0..DenyTicks]
  /\ idDeny \in [Ids -> {NoDeny} \cup 0..DenyTicks]

TimerTypes == rescanNeeded \in BOOLEAN /\ rescanIn \in 0..PeriodTicks /\ hotplug \in BOOLEAN

PassTypes ==
  /\ pass \in {"start", "setup", "scan", "idle"}
  /\ todo \subseteq Paths /\ missed \in BOOLEAN

\* Every variable has its type; no deny entry outlives DENY_REOPEN_MS.
TypeOK ==
  /\ KernelTypes /\ ChoiceTypes /\ HeldTypes /\ DenyTypes /\ TimerTypes /\ PassTypes
  /\ spent \in [Bounded -> Nat]

\* opened_paths_ and opened_device_ids_ are the paths and ids of devices_,
\* through every way a mouse is opened, released, lost and torn down.
OpenSetsAgree == openedPaths = PathsOf(devices) /\ openedIds = IdsOf(devices)

\* HP-3: a mouse with several nodes is held through one of them only.
OneGrabPerMouse ==
  \A d, e \in devices : IdOf[d.path] = IdOf[e.path] => d = e

\* No early return leaks a grab, and every live device has its own: a grabbed
\* node that no device owns would be a dead mouse.
GrabsOwned == grabs = PathsOf({d \in devices : d.alive})

\* The books, the devices and the grabs agree after every step, early returns and
\* events of the kernel between two mice of a pass included.
HoldsAreSound == OpenSetsAgree /\ OneGrabPerMouse /\ GrabsOwned

\* PAS-1: with the intercept switch off the daemon holds no mouse.
RawOffHoldsNothing == ~rawOn => devices = {} /\ grabs = {}

\* PAS-2, HP-1, LIVE-DISABLE: a mouse whose profile is disabled is not held,
\* whichever of config, focus and hot-plug changed last.
DisabledIsReleased == \A d \in devices : ~Disabled(cfg, app, IdOf[d.path])

\* An open mouse has the profile the current config and focus select, if they
\* select one.
AppliedIsSelected ==
  \A d \in devices :
    LET p == find_profile(cfg, app, IdOf[d.path])
    IN p # NoProfile => d.applied = p

\* What is held, and with which profile, is what config and focus ask for: nothing
\* with the switch off, no disabled mouse, and the best profile by the order
\* find_profile documents, whichever of push, focus, hot-plug and retry came last.
ConfigObeyed ==
  /\ RawOffHoldsNothing /\ DisabledIsReleased /\ AppliedIsSelected
  /\ \A id \in Ids : IsBest(cfg, app, id) /\ IsInScope(cfg, app, id)
  /\ IsNullForAll(cfg, app)

\* Something will make the loop look at the mice again.
RetryComing ==
  \/ devices = {} \/ rescanNeeded \/ hotplug \/ inotify
  \/ \E p \in Paths : pathDeny[p] # NoDeny
  \/ \E i \in Ids : idDeny[i] # NoDeny

\* R5-B: a mouse that could be open and is not has a retry coming, even while
\* others are open.
NoMouseForgotten ==
  Idle /\ rawOn =>
    \A p \in Listed : IdOf[p] \in openedIds \/ Disabled(cfg, app, IdOf[p]) \/ RetryComing

\* R5: a config or focus change that leaves the intercept switch alone never
\* drops the grab of a mouse it leaves enabled.
LiveUpdateKeepsGrabs ==
  [][(cfg' # cfg \/ app' # app) /\ rawOn' = rawOn =>
       \A d \in devices : ~Disabled(cfg', app', IdOf[d.path]) => d.path \in openedPaths']_vars

\* Every mouse with a single node that may be held is held through it.
AllHeld ==
  rawOn => \A p \in Listed :
    (\A q \in Paths \ {p} : IdOf[q] # IdOf[p]) =>
    Disabled(cfg, app, IdOf[p]) \/ \E d \in devices : d.alive /\ IdOf[d.path] = IdOf[p]

\* R5-B, R10-EIO, D26-N5: when the faults and changes stop, every mouse is
\* opened again and stays open (of mice with several nodes: README, section 4).
MiceComeBack == <>[]AllHeld
=============================================================================
