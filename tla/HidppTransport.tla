--------------------------- MODULE HidppTransport ---------------------------
(***************************************************************************)
(* The request and answer exchange of HidppTransport on a hidraw node that *)
(* it shares with another process (daemon, GUI and CLI each open their     *)
(* own).  The kernel hands every input report to every open descriptor, a  *)
(* device answers when it likes, and a request gives up at its deadline,   *)
(* so what a request reads may be the answer to an earlier one or to the   *)
(* other process's, an error of either, or a notification.                 *)
(*                                                                         *)
(* A feature index and a function together are one subject: they are       *)
(* compared together everywhere.  Payloads are left out; a frame keeps as  *)
(* history which request it answers.                                       *)
(***************************************************************************)
EXTENDS Naturals, Sequences, FiniteSets, SequencesExt

CONSTANTS
  Requests,    \* the requests that are made: [kind, dev, sub, slot]
  Regs,        \* the HID++ 1.0 registers, "ping" among them
  RegNibble,   \* low four bits of the byte that names a register
  EventDev, EventSub,  \* target and subject of the notifications: the events of a
               \*   feature carry its index, as the answers of function 0 do
  SwMax,       \* software ids run from 1 to SwMax (15 in the code)
  SwFirst,     \* the next id when a behaviour begins
  StashCap,    \* pending_notifications_ holds this many (16 in the code)
  DrainMax,    \* what one drain may return (8 in the daemon)
  RxCap,       \* input reports the kernel keeps for a descriptor
  MaxReq,      \* bound: requests
  MaxEvents    \* bound: everything else: notifications, requests of the other
               \*   process, dead descriptors, drains, new targets and objects

\* Requests that carry a software id, with the report sizes each accepts, and
\* the two register exchanges that carry none.
Sizes == [feature |-> {"short", "long", "verylong"}, short |-> {"short"},
          long |-> {"long"}, verylong |-> {"verylong"},
          register |-> {"short", "long"}, ping |-> {"short", "long"}]
HasSwId(kind) == kind \in {"feature", "short", "long", "verylong"}

ASSUME TransportAssumption ==
  /\ SwMax \in Nat \ {0} /\ SwFirst \in 1..SwMax /\ StashCap \in Nat /\ DrainMax \in Nat /\ RxCap \in Nat
  /\ MaxReq \in Nat /\ MaxEvents \in Nat
  /\ RegNibble \in [Regs -> Nat]
  /\ \A c \in Requests : c.kind \in DOMAIN Sizes /\ (HasSwId(c.kind) \/ c.sub \in Regs)
  \* The sub id of a register reply has the high bit, that of a notification not.
  /\ "ping" \in Regs /\ EventSub \notin Regs

Idle == [at |-> "idle"]
NoFrame == [type |-> "none"]
Nothing == [req |-> Idle, frame |-> NoFrame]

VARIABLES
  open,     \* fd_ >= 0
  obj,      \* which transport object of this process it is
  epoch,    \* how often its target or its feature caches changed
  swid,     \* next_sw_id_
  req,      \* the request that holds request_mutex_, or Idle
  rx,       \* the input reports that wait at the descriptor
  stash,    \* pending_notifications_
  flock,    \* who holds the advisory lock of the node
  owed,     \* requests the device has received and not answered
  got,      \* history: the request that the last step ended, and with what
  drained,  \* history: the notifications that were drained, in order
  excused,  \* history: a notification was given up on purpose
  count     \* how much of each bound is used up

vars == <<open, obj, epoch, swid, req, rx, stash, flock, owed, got,
          drained, excused, count>>
object == <<open, obj, epoch>>
history == <<drained, excused>>

\* Earlier requests have used the ids before SwFirst and are answered.
Init ==
  /\ open = TRUE /\ obj = 0 /\ epoch = 0 /\ swid = SwFirst /\ req = Idle
  /\ rx = << >> /\ stash = << >>
  /\ flock = "free" /\ owed = {}
  /\ got = Nothing /\ drained = << >> /\ excused = FALSE
  /\ count = [req |-> 0, notif |-> 0, event |-> 0]

\* One event, n of which are notifications.
Event(n) ==
  /\ count.event < MaxEvents
  /\ count' = [count EXCEPT !.event = @ + 1, !.notif = @ + n]

-----------------------------------------------------------------------------
(* Frames *)

\* What byte 3 of a request holds of its software id; an error echoes it.
Byte3(r) == IF HasSwId(r.kind) THEN r.sw ELSE RegNibble[r.sub]

Answer(r, size) ==
  [type |-> "answer", of |-> r, size |-> size, dev |-> r.dev, sub |-> r.sub,
   sw |-> r.sw, slot |-> r.slot]
Error(r) ==
  [type |-> "error", of |-> r, size |-> "short", dev |-> r.dev, sub |-> "error",
   sw |-> Byte3(r), slot |-> 0]
Notification(n) ==
  [type |-> "notif", of |-> n, size |-> "long", dev |-> EventDev, sub |-> EventSub,
   sw |-> 0, slot |-> 0]

is_hidpp_error(f) == f.type = "error"

\* hidpp_notification::from_bytes keeps what has software id 0 and a sub id
\* without the high bit: no answer, error or register reply has both.
is_notification(f) == f.type = "notif"

\* The counter after a request: 0 is left out, it is what a device stamps on
\* its notifications.
next_sw_id(n) == IF n = SwMax THEN 1 ELSE n + 1

\* Mutant: the id is left out of the match.
Matches_no_id(r, f) == f.size \in Sizes[r.kind] /\ f.dev = r.dev /\ f.sub = r.sub

\* The answer of a request with a software id.
Matches(r, f) ==
  /\ f.size \in Sizes[r.kind]
  /\ f.dev = r.dev /\ f.sub = r.sub /\ f.sw = r.sw

\* The error frame of a request with a software id: target and id, not feature.
ErrorMatches(r, f) == f.dev = r.dev /\ f.sw = r.sw

\* The answer of a register read: no id, but the slot registers echo the slot.
RegisterMatches(r, f) ==
  /\ f.size \in Sizes[r.kind]
  /\ f.dev = r.dev /\ f.sub = r.sub
  /\ r.slot = 0 \/ f.slot = r.slot

\* A ping is answered by the register's reply or by its error.
PingMatches(r, f) ==
  /\ f.size \in Sizes[r.kind] /\ f.dev = r.dev
  /\ f.sub = "ping" \/ (is_hidpp_error(f) /\ f.sw = RegNibble["ping"])

\* Mutant: what is not the answer is thrown away.
FeatureVerdict_no_stash(r, f) ==
  IF is_hidpp_error(f) THEN IF ErrorMatches(r, f) THEN "fail" ELSE "skip"
  ELSE IF Matches(r, f) THEN "take" ELSE "skip"

\* What the wait loop of send_feature_request, send_short, send_long and
\* send_very_long makes of a frame.
FeatureVerdict(r, f) ==
  IF is_hidpp_error(f) THEN IF ErrorMatches(r, f) THEN "fail" ELSE "skip"
  ELSE IF Matches(r, f) THEN "take"
  ELSE IF is_notification(f) THEN "stash" ELSE "skip"

\* What the wait loop of read_register makes of it.
RegisterVerdict(r, f) ==
  IF is_hidpp_error(f) THEN IF f.dev = r.dev THEN "fail" ELSE "skip"
  ELSE IF RegisterMatches(r, f) THEN "take" ELSE "skip"

Verdict(r, f) ==
  CASE HasSwId(r.kind) -> FeatureVerdict(r, f)
    [] r.kind = "register" -> RegisterVerdict(r, f)
    [] r.kind = "ping" -> IF PingMatches(r, f) THEN "take" ELSE "skip"

-----------------------------------------------------------------------------
(* A request *)

\* The request ends with a frame, or with none; the guards let the locks go.
Ends(r, f) ==
  /\ req' = Idle
  /\ got' = [req |-> r, frame |-> f]
  /\ flock' = IF flock = "me" THEN "free" ELSE flock

\* write_packet: the report reaches the device, or the write fails (EAGAIN for
\* 500 ms, a hung descriptor, an error).
Write(r) ==
  \/ /\ req' = [r EXCEPT !.at = "wait"]
     /\ owed' = owed \cup {r}
     /\ flock' = IF r.kind = "feature" THEN "me" ELSE flock
     /\ got' = Nothing
  \/ Ends(r, NoFrame) /\ UNCHANGED owed

\* A request begins: send_feature_request waits for the lock of the node first,
\* the others write at once.
Begin(call) ==
  /\ req = Idle /\ open
  /\ count.req < MaxReq /\ count' = [count EXCEPT !.req = @ + 1]
  /\ LET id == HasSwId(call.kind)
         r == [at |-> "lock", by |-> "me", id |-> count.req + 1, obj |-> obj,
               kind |-> call.kind, dev |-> call.dev, sub |-> call.sub,
               slot |-> call.slot, sw |-> IF id THEN swid ELSE 0]
     IN /\ swid' = IF id THEN next_sw_id(swid) ELSE swid
        /\ IF call.kind = "feature"
           THEN req' = r /\ got' = Nothing /\ UNCHANGED <<owed, flock>>
           ELSE Write(r)
  /\ UNCHANGED <<object, rx, stash, history>>

\* LOCK_EX waits for every other descriptor; then the report is written.
TakeLock ==
  /\ req.at = "lock" /\ flock # "other"
  /\ Write(req)
  /\ UNCHANGED <<object, swid, rx, stash, history, count>>

\* One turn of the wait loop that finds a frame.
ReadFrame ==
  /\ req.at = "wait" /\ rx # << >>
  /\ rx' = Tail(rx)
  /\ LET f == Head(rx)
         v == Verdict(req, f)
         room == Len(stash) < StashCap
     IN \/ v \in {"take", "fail"} /\ Ends(req, f) /\ UNCHANGED <<stash, excused>>
        \/ /\ v \in {"skip", "stash"}
           /\ stash' = IF v = "stash" /\ room
                       THEN Append(stash, [n |-> f.of, epoch |-> epoch]) ELSE stash
           /\ excused' = (excused \/ (is_notification(f) /\ (~HasSwId(req.kind) \/ ~room)))
           /\ got' = Nothing /\ UNCHANGED <<req, flock>>
  /\ UNCHANGED <<object, swid, owed, drained, count>>

\* Mutant: the clock is looked at only when a frame has come.
Deadline_needs_frame ==
  /\ req.at = "wait" /\ rx # << >>
  /\ Ends(req, NoFrame)
  /\ UNCHANGED <<object, swid, rx, stash, owed, history, count>>

\* The deadline passes, whatever is still in the queue.
Deadline ==
  /\ req.at = "wait"
  /\ Ends(req, NoFrame)
  /\ UNCHANGED <<object, swid, rx, stash, owed, history, count>>

\* poll or read finds the descriptor dead: the node is gone, and with it the
\* device's answers; read_packet closes it and the request fails at once.
ReadFails ==
  /\ req.at = "wait" /\ rx = << >>
  /\ Event(0)
  /\ Ends(req, NoFrame)
  /\ open' = FALSE /\ owed' = {} /\ excused' = TRUE
  /\ UNCHANGED <<obj, epoch, swid, rx, stash, drained>>

-----------------------------------------------------------------------------
(* Between requests *)

\* write_register is fire and forget: the report is written, nobody waits.
write_register ==
  /\ req = Idle /\ open
  /\ Event(0)
  /\ got' = Nothing
  /\ UNCHANGED <<object, swid, req, rx, stash, flock, owed, history>>

\* set_device_index: what was stashed for the old target goes with the feature
\* caches.
set_device_index ==
  /\ req = Idle
  /\ Event(0)
  /\ stash' = << >> /\ epoch' = epoch + 1 /\ got' = Nothing
  /\ excused' = (excused \/ stash # << >>)
  /\ UNCHANGED <<open, obj, swid, req, rx, flock, owed, drained>>

\* clear_feature_cache: the same without a new index.
clear_feature_cache == set_device_index

\* The owner drops the object and opens another one on the node: a task of the
\* GUI, a command of the CLI, the daemon after a dead descriptor.
NewTransport ==
  /\ req = Idle
  /\ Event(0)
  /\ open' = TRUE /\ obj' = obj + 1 /\ epoch' = 0 /\ swid' = 1
  /\ rx' = << >> /\ stash' = << >> /\ excused' = TRUE /\ got' = Nothing
  /\ UNCHANGED <<req, flock, owed, drained>>

\* The places of the notifications among the first k reports of the queue, in
\* their order (there is one such sequence).
Places(k) ==
  LET S == {i \in 1..k : is_notification(rx[i])} IN
  {p \in [1..Cardinality(S) -> S] : \A i, j \in DOMAIN p : i < j => p[i] < p[j]}

\* Mutant: the queue first, then the stash.
drain_notifications_live_first ==
  /\ req = Idle /\ open
  /\ Event(0)
  /\ LET old == [i \in DOMAIN stash |-> stash[i].n]
     IN \E live \in Places(Len(rx)) :
          /\ Len(old) + Len(live) <= DrainMax
          /\ drained' = drained \o [i \in DOMAIN live |-> rx[live[i]].of] \o old
  /\ stash' = << >> /\ rx' = << >> /\ got' = Nothing
  /\ UNCHANGED <<object, swid, req, flock, owed, excused>>

\* drain_notifications: first the stash, then the queue, until there are
\* DrainMax, the queue is empty or the time is over (k frames are read).
drain_notifications ==
  /\ req = Idle /\ open
  /\ Event(0)
  /\ LET take == IF Len(stash) < DrainMax THEN Len(stash) ELSE DrainMax
         old == [i \in 1..take |-> stash[i].n]
     IN \E k \in 0..Len(rx) : \E live \in Places(k) :
          /\ take + Len(live) <= DrainMax
          /\ take = DrainMax => k = 0
          /\ drained' = drained \o old \o [i \in DOMAIN live |-> rx[live[i]].of]
          /\ stash' = SubSeq(stash, take + 1, Len(stash))
          /\ rx' = SubSeq(rx, k + 1, Len(rx))
  /\ got' = Nothing
  /\ UNCHANGED <<object, swid, req, flock, owed, excused>>

\* receive_notification reads the queue up to the first notification; it does
\* not look at the stash.
receive_notification ==
  /\ req = Idle /\ open
  /\ Event(0)
  /\ \E k \in 0..Len(rx) :
       /\ \A i \in 1..k : is_notification(rx[i]) => i = k
       /\ rx' = SubSeq(rx, k + 1, Len(rx))
       /\ excused' = (excused \/ \E i \in 1..k : is_notification(rx[i]))
  /\ got' = Nothing
  /\ UNCHANGED <<object, swid, req, stash, flock, owed, drained>>

-----------------------------------------------------------------------------
(* The other process: the same exchange seen from outside *)

\* It takes the lock of the node and writes a request; its software ids are its
\* own: any of them.
OtherLocks ==
  /\ flock = "free" /\ Event(0)
  /\ flock' = "other" /\ got' = Nothing
  /\ \E c \in {d \in Requests : d.kind = "feature"}, sw \in 1..SwMax :
       owed' = owed \cup {[at |-> "lock", by |-> "other", id |-> 0, obj |-> 0,
                           kind |-> c.kind, dev |-> c.dev, sub |-> c.sub,
                           slot |-> 0, sw |-> sw]}
  /\ UNCHANGED <<object, swid, req, rx, stash, history>>

\* Its request ends, answered or at its deadline.
OtherEnds ==
  /\ flock = "other"
  /\ flock' = "free" /\ got' = Nothing
  /\ UNCHANGED <<object, swid, req, rx, stash, owed, history, count>>

-----------------------------------------------------------------------------
(* The device and the kernel (external) *)

\* A report goes to the descriptor if it is open and has room.
Deliver(f) ==
  LET room == open /\ Len(rx) < RxCap IN
  /\ rx' = IF room THEN Append(rx, f) ELSE rx
  /\ excused' = (excused \/ (is_notification(f) /\ ~room))
  /\ got' = Nothing
  /\ UNCHANGED <<object, swid, req, stash, flock, drained>>

\* The device answers one of the requests, as late as it likes, or never: a
\* short one with a short or a long report, the others with a long one, any of
\* them with an error.
DeviceAnswers ==
  \E r \in owed :
    /\ owed' = owed \ {r}
    /\ \E f \in {Answer(r, "long"), Error(r)}
                \cup IF r.kind = "short" THEN {Answer(r, "short")} ELSE {} : Deliver(f)
    /\ UNCHANGED count

DeviceNotifies ==
  /\ Event(1)
  /\ Deliver(Notification(count.notif + 1))
  /\ UNCHANGED owed

-----------------------------------------------------------------------------

Next ==
  \/ \E c \in Requests : Begin(c)
  \/ TakeLock \/ ReadFrame \/ Deadline \/ ReadFails
  \/ write_register \/ set_device_index \/ clear_feature_cache \/ NewTransport
  \/ drain_notifications \/ receive_notification
  \/ OtherLocks \/ OtherEnds
  \/ DeviceAnswers \/ DeviceNotifies

\* Both processes run and the steady clock advances, so the wait loop of a
\* request ends at its deadline; flock wakes a waiter in the end.
Fairness ==
  WF_vars(Deadline \/ ReadFrame) /\ WF_vars(TakeLock) /\ WF_vars(OtherEnds)

Spec == Init /\ [][Next]_vars /\ Fairness

-----------------------------------------------------------------------------
(* Properties *)

Req == [at : {"lock", "wait"}, by : {"me", "other"}, id : 0..MaxReq, obj : 0..MaxEvents,
        kind : DOMAIN Sizes, dev : {c.dev : c \in Requests}, sub : {c.sub : c \in Requests},
        slot : {0} \cup {c.slot : c \in Requests}, sw : 0..SwMax]

\* The state is well formed: the queues stay within their bounds, and whoever
\* waits for an answer to a feature request holds the lock of the node.
TypeOK ==
  /\ open \in BOOLEAN /\ swid \in 1..SwMax
  /\ req = Idle \/ req \in Req
  /\ owed \subseteq Req
  /\ Len(rx) <= RxCap /\ Len(stash) <= StashCap
  /\ flock \in {"free", "me", "other"}
  /\ flock = "me" <=> req.at = "wait" /\ req.kind = "feature"

\* The payload that a request with a software id returns is a reply to this
\* request, never a notification, never a late reply to an earlier request of
\* the same transport: only after SwMax requests does an id come back.
OwnAnswer ==
  LET r == got.req  f == got.frame IN
  f.type \notin {"none", "error"} /\ HasSwId(r.kind) =>
    /\ f.type = "answer"
    /\ \/ f.of.by # "me" \/ f.of.obj # r.obj
       \/ f.of.id = r.id \/ r.id - f.of.id >= SwMax

\* A request with a software id is given up for an error only when the error
\* is its own: a late error of an earlier request of the transport (another
\* target, another feature) is noise in the wait loop (T49-01).
OwnError ==
  LET r == got.req  f == got.frame IN
  /\ f.type = "error" /\ HasSwId(r.kind)
  /\ f.of.by = "me" /\ f.of.obj = r.obj /\ HasSwId(f.of.kind)
  => f.of.id = r.id \/ r.id - f.of.id >= SwMax

\* The reply about a receiver slot is about the slot that was asked for, also
\* when the reply about an earlier slot comes late: register reads have no id.
SlotAnswer ==
  LET r == got.req  f == got.frame IN
  f.type = "answer" /\ r.kind = "register" /\ r.slot # 0 => f.of.slot = r.slot

\* A caller gets the answer, or the error, of its own request, with or without a
\* software id to tell it by, however late those of earlier requests come.
AnswersAreOwn == TypeOK /\ OwnAnswer /\ OwnError /\ SlotAnswer

\* A notification stashed in a wait window is not handed out after the target
\* or the feature caches of the transport changed (T49-05).
StashIsCurrent == \A i \in DOMAIN stash : stash[i].epoch = epoch

\* Notifications leave drain_notifications in the order the device sent them,
\* each once, whether they waited in the stash or in the queue, and none that
\* was stashed for another target.
DrainedInOrder ==
  /\ StashIsCurrent
  /\ \A i, j \in DOMAIN drained : i < j => drained[i] < drained[j]

\* A notification that arrives while a feature request waits is still there for
\* drain_notifications (BUG-22).  Lost ones are those the code gives up: a full
\* stash or queue, a register read, a new target, a new or a dead descriptor.
NotificationsKept ==
  ~excused => \A n \in 1..count.notif :
                \/ \E i \in DOMAIN rx : is_notification(rx[i]) /\ rx[i].of = n
                \/ \E i \in DOMAIN stash : stash[i].n = n
                \/ n \in Range(drained)

\* Every request ends, also one that waits for the lock of the node: a process
\* whose device does not answer gives the lock back at its deadline.
EveryRequestEnds == req # Idle ~> req = Idle
=============================================================================
