----------------------------- MODULE ConfigPush -----------------------------
(***************************************************************************)
(* The configuration pipeline of the daemon.  A client pushes a whole      *)
(* config over the IPC socket; push_config (IPC thread) checks it and      *)
(* queues it, save_worker (save thread) writes it to disk and only then    *)
(* arms a one-place slot, and run_loop (loop thread) takes the slot and    *)
(* makes it the running config.  SIGHUP and the IPC command "reload" make  *)
(* the loop re-read the file instead.  main stops the daemon by clearing   *)
(* running_ and joining the threads, and the process may also be killed.   *)
(*                                                                         *)
(* A config is an opaque value.  Every push and every edit of the file     *)
(* also gets a fresh number, which the program does not have: the program  *)
(* compares values, the properties speak of the numbers.                   *)
(***************************************************************************)
EXTENDS Naturals, Sequences

CONSTANTS
  Configs,      \* the values a config can take
  FactoryConfig,\* the value start() falls back to when the file is unreadable
  None,         \* "no pending config" in push_config's snapshot
  MaxIds,       \* bound: pushes and edits of the file
  MaxReloads,   \* bound: SIGHUP signals and "reload" commands
  MaxEdits,     \* bound: hand edits of the file
  MaxFaults,    \* bound: failed saves, failed loads, exceptions in an apply
  MaxStops,     \* bound: SIGTERM signals and kills of the process
  MaxTotal      \* bound: all of these but the pushes together

ASSUME ConstantsAssumption ==
  /\ FactoryConfig \in Configs
  /\ None \notin Configs
  /\ {MaxIds, MaxReloads, MaxEdits, MaxFaults, MaxStops, MaxTotal} \subseteq Nat

VARIABLES
  running,    \* running_
  mainPc,     \* where main() is: boot, run, joinIpc, joinLoop, joinSave, stopped
  ipcPc,      \* where the IPC thread is in push_config
  req,        \* the config push_config is handling
  snap,       \* pending_json, or None when has_pending is false
  reply,      \* the last answer to a set_config request
  saveQ,      \* save_q_
  savePc,     \* where save_worker is
  job,        \* the item save_worker popped
  slot,       \* push_cfg_
  pending,    \* push_cfg_pending_
  loopPc,     \* where run_loop is
  loaded,     \* what load_config returned to the loop
  reloadFlag, \* reload_flag_
  config,     \* config_
  disk,       \* the config file
  nextId,     \* the number the next push or edit gets
  used,       \* how much of each bound is used up
  persisted,  \* history: numbers that were on disk
  acked,      \* history: the newest push answered with ok
  enqueued,   \* history: the newest push put on save_q_ by this process
  viaPush     \* history: the newest push the loop took from the slot

mainVars == <<running, mainPc>>
ipcVars  == <<ipcPc, req, snap, reply>>
saveVars == <<saveQ, savePc, job>>
loopVars == <<loopPc, loaded, reloadFlag, config>>
slotVars == <<slot, pending>>
histVars == <<persisted, acked, enqueued, viaPush>>
vars == <<mainVars, ipcVars, saveVars, loopVars, slotVars, disk, nextId, used, histVars>>

Item == [id : Nat, val : Configs]

Factory == [id |-> 0, val |-> FactoryConfig]

Bounded == {"reload", "edit", "fault", "stop"}

Spend(what, max) ==
  /\ used[what] < max
  /\ used["reload"] + used["edit"] + used["fault"] + used["stop"] < MaxTotal
  /\ used' = [used EXCEPT ![what] = @ + 1]

-----------------------------------------------------------------------------
(* main(): start, stop, and the end of the process *)

Init ==
  /\ running = FALSE
  /\ mainPc = "boot"
  /\ ipcPc = "idle"
  /\ req = Factory
  /\ snap = None
  /\ reply = "none"
  /\ saveQ = <<>>
  /\ savePc = "none"
  /\ job = Factory
  /\ slot = Factory
  /\ pending = FALSE
  /\ loopPc = "none"
  /\ loaded = Factory
  /\ reloadFlag = FALSE
  /\ config = Factory
  /\ \E c \in Configs : disk = [id |-> 0, val |-> c]
  /\ nextId = 1
  /\ used = [what \in Bounded |-> 0]
  /\ persisted = {0}
  /\ acked = Factory
  /\ enqueued = 0
  /\ viaPush = 0

\* start(): the config comes from the file, or is the built-in default when
\* the file cannot be read; then the workers are spawned.  The IPC thread is
\* already up.
Start ==
  /\ mainPc = "boot"
  /\ \/ config' = disk /\ UNCHANGED used
     \/ config' = Factory /\ Spend("fault", MaxFaults)
  /\ running' = TRUE
  /\ mainPc' = "run"
  /\ loopPc' = "top"
  /\ savePc' = "poll"
  /\ UNCHANGED <<ipcVars, saveQ, job, loaded, reloadFlag, slotVars, disk, nextId, histVars>>

\* handle_signal on SIGTERM/SIGINT, or run_loop giving up on epoll:
\* request_stop() only clears running_.
RequestStop ==
  /\ mainPc = "run" /\ running
  /\ Spend("stop", MaxStops)
  /\ running' = FALSE
  /\ UNCHANGED <<mainPc, ipcVars, saveVars, loopVars, slotVars, disk, nextId, histVars>>

\* main() notices at its next one-second poll and stops the IPC server first.
MainSeesStop ==
  /\ mainPc = "run" /\ ~running
  /\ mainPc' = "joinIpc"
  /\ UNCHANGED <<running, ipcVars, saveVars, loopVars, slotVars, disk, nextId, used, histVars>>

MainJoins ==
  /\ \/ mainPc = "joinIpc"  /\ ipcPc = "done"  /\ mainPc' = "joinLoop"
     \/ mainPc = "joinLoop" /\ loopPc = "done" /\ mainPc' = "joinSave"
     \/ mainPc = "joinSave" /\ savePc = "done" /\ mainPc' = "stopped"
  /\ UNCHANGED <<running, ipcVars, saveVars, loopVars, slotVars, disk, nextId, used, histVars>>

\* Everything in memory is gone; the file stays.
Reboot ==
  /\ running' = FALSE
  /\ mainPc' = "boot"
  /\ ipcPc' = "idle" /\ req' = Factory /\ snap' = None /\ reply' = "none"
  /\ saveQ' = <<>> /\ savePc' = "none" /\ job' = Factory
  /\ slot' = Factory /\ pending' = FALSE
  /\ loopPc' = "none" /\ loaded' = Factory /\ reloadFlag' = FALSE /\ config' = Factory
  /\ enqueued' = viaPush

\* The process is killed at any point and started again by systemd.
Crash ==
  /\ mainPc # "stopped"
  /\ Spend("stop", MaxStops)
  /\ Reboot
  /\ UNCHANGED <<disk, nextId, persisted, acked, viaPush>>

Restart ==
  /\ mainPc = "stopped"
  /\ Reboot
  /\ UNCHANGED <<disk, nextId, used, persisted, acked, viaPush>>

-----------------------------------------------------------------------------
(* IPC thread: push_config, one step per critical section *)

\* The request is refused before start() and once running_ is cleared.
PushCheck(c) ==
  /\ ipcPc = "idle" /\ mainPc \in {"boot", "run", "joinIpc"}
  /\ nextId <= MaxIds
  /\ nextId' = nextId + 1
  /\ IF running
       THEN /\ ipcPc' = "snapshot"
            /\ req' = [id |-> nextId, val |-> c]
            /\ UNCHANGED reply
       ELSE /\ reply' = "rejected"
            /\ UNCHANGED <<ipcPc, req>>
  /\ UNCHANGED <<mainVars, snap, saveVars, loopVars, slotVars, disk, used, histVars>>

\* The loop holds push_cfg_mu_ for the whole apply.
PushMutexFree == loopPc # "clearing"

PushSnapshot ==
  /\ ipcPc = "snapshot" /\ PushMutexFree
  /\ snap' = IF pending THEN slot.val ELSE None
  /\ ipcPc' = "guard"
  /\ UNCHANGED <<mainVars, req, reply, saveVars, loopVars, slotVars, disk, nextId, used, histVars>>

\* app_config_from_json throws.
PushMalformed ==
  /\ ipcPc = "guard"
  /\ ipcPc' = "idle"
  /\ reply' = "rejected"
  /\ UNCHANGED <<mainVars, req, snap, saveVars, loopVars, slotVars, disk, nextId, used, histVars>>

\* The no-op guards: equal to the armed config, or, with nothing armed, equal
\* to the running one.
NoOpPush ==
  \/ snap # None /\ req.val = snap
  \/ snap = None /\ req.val = config.val

PushGuard ==
  /\ ipcPc = "guard"
  /\ IF NoOpPush
       THEN ipcPc' = "idle" /\ reply' = "ok" /\ acked' = req
       ELSE ipcPc' = "enqueue" /\ UNCHANGED <<reply, acked>>
  /\ UNCHANGED <<mainVars, req, snap, saveVars, loopVars, slotVars, disk, nextId, used,
                 persisted, enqueued, viaPush>>

\* save_q_ is emptied before the new snapshot goes in.
PushEnqueue ==
  /\ ipcPc = "enqueue"
  /\ saveQ' = <<req>>
  /\ ipcPc' = "idle"
  /\ reply' = "ok"
  /\ acked' = req
  /\ enqueued' = req.id
  /\ UNCHANGED <<mainVars, req, snap, savePc, job, loopVars, slotVars, disk, nextId, used,
                 persisted, viaPush>>

\* ipc_serve_loop leaves its loop between two clients.
IpcExit ==
  /\ mainPc = "joinIpc" /\ ipcPc = "idle"
  /\ ipcPc' = "done"
  /\ UNCHANGED <<mainVars, req, snap, reply, saveVars, loopVars, slotVars, disk, nextId, used, histVars>>

\* SIGHUP or the IPC command "reload".
RequestReload ==
  /\ mainPc = "run" /\ ~reloadFlag
  /\ Spend("reload", MaxReloads)
  /\ reloadFlag' = TRUE
  /\ UNCHANGED <<mainVars, ipcVars, saveVars, loopPc, loaded, config, slotVars, disk, nextId, histVars>>

-----------------------------------------------------------------------------
(* Save thread: save_worker *)

SavePop ==
  /\ savePc = "poll" /\ saveQ # <<>>
  /\ job' = Head(saveQ)
  /\ saveQ' = Tail(saveQ)
  /\ savePc' = "write"
  /\ UNCHANGED <<mainVars, ipcVars, loopVars, slotVars, disk, nextId, used, histVars>>

\* save_q_mu_ is released before running_ is looked at.
SaveSeesEmpty ==
  /\ savePc = "poll" /\ saveQ = <<>>
  /\ savePc' = "check"
  /\ UNCHANGED <<mainVars, ipcVars, saveQ, job, loopVars, slotVars, disk, nextId, used, histVars>>

\* Fault: running_ is not looked at.
SaveCheckNeverExits ==
  /\ savePc = "check"
  /\ savePc' = "poll"
  /\ UNCHANGED <<mainVars, ipcVars, saveQ, job, loopVars, slotVars, disk, nextId, used, histVars>>

SaveCheck ==
  /\ savePc = "check"
  /\ savePc' = IF running THEN "poll" ELSE "done"
  /\ UNCHANGED <<mainVars, ipcVars, saveQ, job, loopVars, slotVars, disk, nextId, used, histVars>>

SaveWrite ==
  /\ savePc = "write"
  /\ disk' = job
  /\ persisted' = persisted \cup {job.id}
  /\ savePc' = "arm"
  /\ UNCHANGED <<mainVars, ipcVars, saveQ, job, loopVars, slotVars, nextId, used,
                 acked, enqueued, viaPush>>

\* Fault: a failed save is armed like a successful one.
SaveFailsArms ==
  /\ savePc = "write"
  /\ Spend("fault", MaxFaults)
  /\ savePc' = "arm"
  /\ UNCHANGED <<mainVars, ipcVars, saveQ, job, loopVars, slotVars, disk, nextId, histVars>>

\* save_config throws: nothing is armed.
SaveFails ==
  /\ savePc = "write"
  /\ Spend("fault", MaxFaults)
  /\ savePc' = "poll"
  /\ UNCHANGED <<mainVars, ipcVars, saveQ, job, loopVars, slotVars, disk, nextId, histVars>>

\* Fault: a config that is still armed is not replaced.
SaveArmKeepsOld ==
  /\ savePc = "arm" /\ PushMutexFree
  /\ slot' = IF pending THEN slot ELSE job
  /\ pending' = TRUE
  /\ savePc' = "poll"
  /\ UNCHANGED <<mainVars, ipcVars, saveQ, job, loopVars, disk, nextId, used, histVars>>

\* Fault: the newest config is armed ahead of its save and saved again later.
SaveArmMergesBacklog ==
  /\ savePc = "arm" /\ PushMutexFree
  /\ slot' = IF saveQ = <<>> THEN job ELSE Head(saveQ)
  /\ pending' = TRUE
  /\ saveQ' = IF saveQ = <<>> THEN <<>> ELSE <<job>>
  /\ savePc' = "poll"
  /\ UNCHANGED <<mainVars, ipcVars, job, loopVars, disk, nextId, used, histVars>>

SaveArm ==
  /\ savePc = "arm" /\ PushMutexFree
  /\ slot' = job
  /\ pending' = TRUE
  /\ savePc' = "poll"
  /\ UNCHANGED <<mainVars, ipcVars, saveQ, job, loopVars, disk, nextId, used, histVars>>

-----------------------------------------------------------------------------
(* Loop thread: the config part of one run_loop iteration *)

LoopExit ==
  /\ loopPc = "top" /\ ~running
  /\ loopPc' = "done"
  /\ UNCHANGED <<mainVars, ipcVars, saveVars, loaded, reloadFlag, config, slotVars,
                 disk, nextId, used, histVars>>

\* apply_new_config(push_cfg_): push_cfg_mu_ stays held until the flag is
\* cleared.
LoopApplyPush ==
  /\ loopPc = "top" /\ running /\ pending
  /\ config' = slot
  /\ viaPush' = slot.id
  /\ loopPc' = "clearing"
  /\ UNCHANGED <<mainVars, ipcVars, saveVars, loaded, reloadFlag, slotVars, disk, nextId,
                 used, persisted, acked, enqueued>>

LoopClearPush ==
  /\ loopPc = "clearing"
  /\ pending' = FALSE
  /\ loopPc' = "reload"
  /\ UNCHANGED <<mainVars, ipcVars, saveVars, loaded, reloadFlag, config, slot, disk, nextId,
                 used, histVars>>

\* apply_new_config throws, before or after config_ was assigned; the flag is
\* cleared all the same.
LoopPushThrows ==
  /\ loopPc = "top" /\ running /\ pending
  /\ Spend("fault", MaxFaults)
  /\ \/ config' = slot /\ viaPush' = slot.id
     \/ UNCHANGED <<config, viaPush>>
  /\ pending' = FALSE
  /\ loopPc' = "reload"
  /\ UNCHANGED <<mainVars, ipcVars, saveVars, loaded, reloadFlag, slot, disk, nextId,
                 persisted, acked, enqueued>>

LoopNoPush ==
  /\ loopPc = "top" /\ running /\ ~pending
  /\ loopPc' = "reload"
  /\ UNCHANGED <<mainVars, ipcVars, saveVars, loaded, reloadFlag, config, slotVars,
                 disk, nextId, used, histVars>>

\* reload_flag_.exchange(false)
LoopTakeReload ==
  /\ loopPc = "reload"
  /\ loopPc' = IF reloadFlag THEN "load" ELSE "top"
  /\ reloadFlag' = FALSE
  /\ UNCHANGED <<mainVars, ipcVars, saveVars, loaded, config, slotVars, disk, nextId, used, histVars>>

LoopLoad ==
  /\ loopPc = "load"
  /\ loaded' = disk
  /\ loopPc' = "loaded"
  /\ UNCHANGED <<mainVars, ipcVars, saveVars, reloadFlag, config, slotVars, disk, nextId, used, histVars>>

\* load_config throws: the running config is kept.
LoopLoadFails ==
  /\ loopPc = "load"
  /\ Spend("fault", MaxFaults)
  /\ loopPc' = "top"
  /\ UNCHANGED <<mainVars, ipcVars, saveVars, loaded, reloadFlag, config, slotVars, disk, nextId, histVars>>

LoopApplyLoaded ==
  /\ loopPc = "loaded"
  /\ config' = loaded
  /\ loopPc' = "top"
  /\ UNCHANGED <<mainVars, ipcVars, saveVars, loaded, reloadFlag, slotVars, disk, nextId, used, histVars>>

-----------------------------------------------------------------------------
(* The user edits the daemon's file by hand; docs ask for a reload after it. *)

HandEdit(c) ==
  /\ nextId <= MaxIds
  /\ Spend("edit", MaxEdits)
  /\ disk' = [id |-> nextId, val |-> c]
  /\ persisted' = persisted \cup {nextId}
  /\ nextId' = nextId + 1
  /\ UNCHANGED <<mainVars, ipcVars, saveVars, loopVars, slotVars, acked, enqueued, viaPush>>

-----------------------------------------------------------------------------
Main == Start \/ MainSeesStop \/ MainJoins
Ipc  == PushSnapshot \/ PushGuard \/ PushEnqueue \/ IpcExit
Save == SavePop \/ SaveSeesEmpty \/ SaveCheck \/ SaveWrite \/ SaveArm
Loop == LoopExit \/ LoopApplyPush \/ LoopClearPush \/ LoopNoPush \/ LoopTakeReload
          \/ LoopLoad \/ LoopApplyLoaded

Environment ==
  \/ RequestStop \/ RequestReload \/ Crash \/ Restart
  \/ \E c \in Configs : PushCheck(c) \/ HandEdit(c)
  \/ PushMalformed \/ SaveFails \/ LoopPushThrows \/ LoopLoadFails

Next == Main \/ Ipc \/ Save \/ Loop \/ Environment

Spec == Init /\ [][Next]_vars

\* Each thread is an OS thread: a step it can take, it takes.
Fairness == WF_vars(Main) /\ WF_vars(Ipc) /\ WF_vars(Save) /\ WF_vars(Loop)

FairSpec == Spec /\ Fairness

-----------------------------------------------------------------------------
(* Properties *)

InFlight == savePc \in {"write", "arm"}
Armed    == pending /\ loopPc # "clearing"
Pushing  == ipcPc \in {"snapshot", "guard", "enqueue"}

FlagTypes == running \in BOOLEAN /\ pending \in BOOLEAN /\ reloadFlag \in BOOLEAN

PlaceTypes ==
  /\ mainPc \in {"boot", "run", "joinIpc", "joinLoop", "joinSave", "stopped"}
  /\ ipcPc \in {"idle", "snapshot", "guard", "enqueue", "done"}
  /\ savePc \in {"none", "poll", "check", "write", "arm", "done"}
  /\ loopPc \in {"none", "top", "clearing", "reload", "load", "loaded", "done"}
  /\ reply \in {"none", "ok", "rejected"}

ItemTypes ==
  /\ {req, job, slot, loaded, config, disk, acked} \subseteq Item
  /\ snap \in Configs \cup {None}
  /\ saveQ \in Seq(Item) /\ Len(saveQ) <= 1

CountTypes ==
  /\ {nextId, enqueued, viaPush} \subseteq Nat
  /\ persisted \subseteq Nat
  /\ used \in [Bounded -> Nat]

\* Every variable has its type, and save_q_ never holds more than one config
\* (push_config empties it before it adds one).
TypeOK ==
  /\ FlagTypes
  /\ PlaceTypes
  /\ ItemTypes
  /\ CountTypes

\* The running config was on disk before it ran, however saves fail, the
\* process dies and reloads interleave: save_worker arms the slot only after
\* save_config returned ("the live re-apply never precedes the persisted
\* config").
PersistBeforeApply ==
  /\ config.id \in persisted
  /\ pending => slot.id \in persisted

\* The stages of the pipeline hold pushes in the order the clients made them:
\* applied, then armed, then being saved, then queued, then being checked.
PipelineOrdered ==
  /\ Armed => viaPush < slot.id
  /\ InFlight => viaPush < job.id /\ (Armed => slot.id < job.id)
  /\ \A i \in 1..Len(saveQ) :
       /\ viaPush < saveQ[i].id
       /\ Armed => slot.id < saveQ[i].id
       /\ InFlight => job.id < saveQ[i].id
  /\ Pushing =>
       /\ viaPush < req.id
       /\ Armed => slot.id < req.id
       /\ InFlight => job.id < req.id
       /\ \A i \in 1..Len(saveQ) : saveQ[i].id < req.id
       /\ enqueued < req.id
       /\ req.id < nextId

\* Nothing accepted is dropped on the way to the file: whenever save_worker
\* has nothing queued and nothing in flight and no save has failed, the file
\* is at least as new as the newest push of this process.
DrainedQueueIsOnDisk ==
  saveQ = <<>> /\ ~InFlight /\ used["fault"] = 0 => disk.id >= enqueued

\* The file leads the running config: what runs or is armed was on disk before,
\* the stages between hold the pushes in order, and an idle save_worker has left
\* none behind.  A kill, a failed save or an exception at any step keeps this so.
FileLeads == PersistBeforeApply /\ PipelineOrdered /\ DrainedQueueIsOnDisk

\* run_loop never takes an older push after a newer one, although saves,
\* reloads, failures and restarts come in between.
PushesApplyInOrder == [][viaPush' >= viaPush]_vars

\* Seen from outside, the queue, the save in flight and the armed slot are a
\* mailbox that may skip a push but never reorders or invents one.
Pipe == INSTANCE Mailbox WITH sent <- enqueued, got <- viaPush
IsMailbox == Pipe!Spec

\* Once running_ is cleared, main's joins all end (or the process is killed).
StopCompletes == (mainPc = "run" /\ ~running) ~> mainPc \in {"stopped", "boot"}

\* When nobody edits the file by hand and nothing fails, pushes and reloads
\* settle with the running config equal to the file, although a reload may
\* read the file before a save and apply what it read after it; and a hand edit
\* that is followed by a reload is taken over.
SettlesOnDisk ==
  /\ <>[](config.val = disk.val \/ ~running \/ used["edit"] > 0 \/ used["fault"] > 0)
  /\ (reloadFlag /\ used["edit"] = MaxEdits)
        ~> (config.val = disk.val \/ ~running \/ used["fault"] > 0)

\* No push is anywhere between the client and config_.
Quiet ==
  /\ running /\ ipcPc = "idle" /\ saveQ = <<>> /\ ~InFlight
  /\ ~pending /\ loopPc \in {"top", "reload"}

\* What the comment L08-01 in push_config asks for: a revert is not lost, so
\* when everything has settled the config of the newest accepted push runs.
AcceptedPushWins == Quiet /\ acked.id > 0 => config.val = acked.val
=============================================================================
