--------------------------- MODULE FrameAssembly ---------------------------
(***************************************************************************)
(* How process_device turns the event stream of one grabbed mouse into     *)
(* frames on the virtual device.  One call of process_device reads a batch *)
(* of events.  Motion is summed and buttons and wheel steps are queued     *)
(* until the frame's SYN_REPORT; a batch that ends inside a frame parks    *)
(* what it has in the mouse_device, where the next call picks it up.  In   *)
(* raw passthrough every event is written at once.                         *)
(*                                                                         *)
(* A motion event is one count on one axis (the axes are treated alike).   *)
(* Every other event gets the number of its arrival.  What the             *)
(* acceleration does to the counts is not modelled: "moved" counts what    *)
(* flush_motion was given.                                                 *)
(***************************************************************************)
EXTENDS Naturals, Sequences

CONSTANTS
  QMax,        \* kPendingEventsMax, the size of queued_events and pending_events
  MaxEvents,   \* bound: events from the mouse
  MaxDrops,    \* bound: SYN_DROPPED events
  MaxSwitches, \* bound: profile changes
  MaxFails     \* bound: failed writes and reads

ASSUME ConstantsAssumption ==
  /\ QMax \in Nat \ {0}
  /\ MaxEvents \in Nat /\ MaxDrops \in Nat /\ MaxSwitches \in Nat /\ MaxFails \in Nat

VARIABLES
  raw,          \* dev.settings.prof.raw_passthrough
  inCall,       \* process_device is running
  dx,           \* dx (and dy) of this call
  hasMotion,    \* has_motion
  queued,       \* queued_events
  unsynced,     \* wrote_unsynced_event
  pendDx,       \* dev.pending_dx
  hasPend,      \* dev.has_pending_motion
  pend,         \* dev.pending_events
  synDropped,   \* dev.syn_dropped
  disconnected, \* dev.disconnected
  spent,        \* how much of each bound is used up
  moved,        \* history: motion that was written
  movedIn,      \* history: motion that arrived outside a dropped window
  movedLost,    \* history: motion lost with the device
  delivered,    \* history: other events written, in order
  othersIn,     \* history: other events that arrived outside a dropped window
  othersLost,   \* history: other events dropped or lost with the device
  syns          \* history: SYN_REPORTs written

callVars == <<inCall, dx, hasMotion, queued, unsynced>>
pendVars == <<pendDx, hasPend, pend>>
moveVars == <<moved, movedIn, movedLost>>
otherVars == <<delivered, othersIn, othersLost>>
vars == <<raw, callVars, pendVars, synDropped, disconnected, spent, moveVars, otherVars, syns>>

Bounded == {"event", "drop", "switch", "fail"}

Spend(what, max) ==
  /\ spent[what] < max
  /\ spent' = [spent EXCEPT ![what] = @ + 1]

Least(a, b) == IF a <= b THEN a ELSE b

Init ==
  /\ raw \in BOOLEAN
  /\ inCall = FALSE /\ dx = 0 /\ hasMotion = FALSE /\ queued = <<>> /\ unsynced = FALSE
  /\ pendDx = 0 /\ hasPend = FALSE /\ pend = <<>>
  /\ synDropped = FALSE
  /\ disconnected = FALSE
  /\ spent = [what \in Bounded |-> 0]
  /\ moved = 0 /\ movedIn = 0 /\ movedLost = 0
  /\ delivered = <<>> /\ othersIn = 0 /\ othersLost = 0
  /\ syns = 0

-----------------------------------------------------------------------------
(* The call: its start, and its two ways to end *)

\* The merge of the parked tail.  A tail of buttons alone also sets has_motion.
BeginBatch ==
  /\ ~inCall /\ ~disconnected
  /\ inCall' = TRUE
  /\ unsynced' = FALSE
  /\ dx' = IF hasPend THEN pendDx ELSE 0
  /\ hasMotion' = hasPend
  /\ queued' = IF hasPend THEN SubSeq(pend, 1, Least(Len(pend), QMax)) ELSE <<>>
  /\ othersLost' = IF hasPend /\ Len(pend) > QMax THEN othersLost + (Len(pend) - QMax) ELSE othersLost
  /\ pendDx' = IF hasPend THEN 0 ELSE pendDx
  /\ pend' = IF hasPend THEN <<>> ELSE pend
  /\ hasPend' = FALSE
  /\ UNCHANGED <<raw, synDropped, disconnected, spent, moveVars, delivered, othersIn, syns>>

\* Moves the unfinished frame behind what is parked already; what does not
\* fit is counted as an overrun.
ParkRoom == Least(QMax - Len(pend), Len(queued))

\* Fault: a park overwrites the motion that is parked already.
ParkOverwrites ==
  IF hasMotion \/ queued # <<>>
    THEN /\ pendDx' = dx
         /\ hasPend' = TRUE
         /\ pend' = pend \o SubSeq(queued, 1, ParkRoom)
         /\ othersLost' = othersLost + (Len(queued) - ParkRoom)
    ELSE UNCHANGED <<pendVars, othersLost>>

Park ==
  IF hasMotion \/ queued # <<>>
    THEN /\ pendDx' = pendDx + dx
         /\ hasPend' = TRUE
         /\ pend' = pend \o SubSeq(queued, 1, ParkRoom)
         /\ othersLost' = othersLost + (Len(queued) - ParkRoom)
    ELSE UNCHANGED <<pendVars, othersLost>>

EmptyCall == dx' = 0 /\ hasMotion' = FALSE /\ queued' = <<>> /\ unsynced' = FALSE

\* read() has no more events (or the batch limit is reached), or it fails and
\* the mouse is gone.  Writes outside raw passthrough that no SYN_REPORT
\* closed get one.
EndBatch ==
  /\ inCall
  /\ Park
  /\ EmptyCall /\ inCall' = FALSE
  /\ \/ UNCHANGED <<disconnected, spent>>
     \/ Spend("fail", MaxFails) /\ disconnected' = TRUE
  /\ syns' = IF unsynced /\ ~raw THEN syns + 1 ELSE syns
  /\ UNCHANGED <<raw, synDropped, moveVars, delivered, othersIn>>

\* A write failed: the call returns at once and its locals are gone.  A
\* consumer that keeps answering EAGAIN ends like a write error.
GiveUp ==
  /\ Spend("fail", MaxFails)
  /\ disconnected' = TRUE
  /\ EmptyCall /\ inCall' = FALSE
  /\ UNCHANGED <<raw, pendVars, syns>>

\* The closing SYN_REPORT of EndBatch can fail after the tail was parked.
EndBatchFails ==
  /\ inCall /\ unsynced /\ ~raw
  /\ Park
  /\ Spend("fail", MaxFails)
  /\ disconnected' = TRUE
  /\ EmptyCall /\ inCall' = FALSE
  /\ UNCHANGED <<raw, synDropped, moveVars, delivered, othersIn, syns>>

-----------------------------------------------------------------------------
(* One event of the batch *)

Discarded == inCall /\ synDropped

\* Inside a dropped window everything up to the SYN_REPORT is ignored.
DiscardEvent ==
  /\ Discarded
  /\ Spend("event", MaxEvents)
  /\ UNCHANGED <<raw, callVars, pendVars, synDropped, disconnected, moveVars, otherVars, syns>>

Motion ==
  /\ inCall /\ ~synDropped
  /\ Spend("event", MaxEvents)
  /\ movedIn' = movedIn + 1
  /\ IF raw
       THEN moved' = moved + 1 /\ unsynced' = TRUE /\ UNCHANGED <<dx, hasMotion>>
       ELSE dx' = dx + 1 /\ hasMotion' = TRUE /\ UNCHANGED <<moved, unsynced>>
  /\ UNCHANGED <<raw, inCall, queued, pendVars, synDropped, disconnected, movedLost, otherVars, syns>>

MotionFails ==
  /\ inCall /\ ~synDropped /\ raw
  /\ GiveUp
  /\ movedIn' = movedIn + 1
  /\ movedLost' = movedLost + 1 + dx
  /\ othersLost' = othersLost + Len(queued)
  /\ UNCHANGED <<synDropped, moved, delivered, othersIn>>

Arrive == Spend("event", MaxEvents) /\ othersIn' = othersIn + 1

\* A button, wheel or other event that is written at once or queued.
OtherEvent ==
  /\ inCall /\ ~synDropped
  /\ Arrive
  /\ \/ /\ raw
        /\ delivered' = Append(delivered, othersIn + 1)
        /\ unsynced' = TRUE
        /\ UNCHANGED queued
     \/ /\ ~raw /\ Len(queued) < QMax
        /\ queued' = Append(queued, othersIn + 1)
        /\ UNCHANGED <<delivered, unsynced>>
  /\ UNCHANGED <<raw, inCall, dx, hasMotion, pendVars, synDropped, disconnected, moveVars, othersLost, syns>>

\* A wheel step or a SYN subtype that finds the queue full is dropped.
WheelOverflow ==
  /\ inCall /\ ~synDropped /\ ~raw /\ Len(queued) = QMax
  /\ Arrive
  /\ othersLost' = othersLost + 1
  /\ UNCHANGED <<raw, callVars, pendVars, synDropped, disconnected, moveVars, delivered, syns>>

\* Fault: the full queue is not written before the button.
ButtonOverflowJumpsQueue ==
  /\ inCall /\ ~synDropped /\ ~raw /\ Len(queued) = QMax
  /\ Arrive
  /\ delivered' = Append(delivered, othersIn + 1)
  /\ unsynced' = TRUE
  /\ UNCHANGED <<queued, raw, inCall, dx, hasMotion, pendVars, synDropped, disconnected, moveVars, othersLost, syns>>

\* A button that finds the queue full writes the queue out and itself after it.
ButtonOverflow ==
  /\ inCall /\ ~synDropped /\ ~raw /\ Len(queued) = QMax
  /\ Arrive
  /\ delivered' = delivered \o Append(queued, othersIn + 1)
  /\ queued' = <<>>
  /\ unsynced' = TRUE
  /\ UNCHANGED <<raw, inCall, dx, hasMotion, pendVars, synDropped, disconnected, moveVars, othersLost, syns>>

\* An inline write of one event, or of a full queue and the event, fails after
\* some of it went out.
OtherEventFails ==
  /\ inCall /\ ~synDropped /\ (raw \/ Len(queued) = QMax)
  /\ GiveUp
  /\ othersIn' = othersIn + 1
  /\ \E k \in 0..(IF raw THEN 0 ELSE Len(queued)) :
       /\ delivered' = delivered \o SubSeq(queued, 1, k)
       /\ othersLost' = othersLost + (Len(queued) - k) + 1
  /\ movedLost' = movedLost + dx
  /\ UNCHANGED <<synDropped, moved, movedIn>>

\* SYN_REPORT: motion, then the queue, then the SYN, in one write.
SynReport ==
  /\ inCall /\ ~synDropped
  /\ Spend("event", MaxEvents)
  /\ moved' = moved + dx
  /\ delivered' = delivered \o queued
  /\ syns' = syns + 1
  /\ EmptyCall
  /\ UNCHANGED <<raw, inCall, pendVars, synDropped, disconnected, movedIn, movedLost, othersIn, othersLost>>

\* The write of a frame fails after some of it went out, motion first.
SynReportFails ==
  /\ inCall /\ ~synDropped
  /\ GiveUp
  /\ \E k \in 0..Len(queued) :
       /\ delivered' = delivered \o SubSeq(queued, 1, k)
       /\ othersLost' = othersLost + (Len(queued) - k)
       /\ \/ moved' = moved + dx /\ UNCHANGED movedLost
          \/ k = 0 /\ movedLost' = movedLost + dx /\ UNCHANGED moved
  /\ UNCHANGED <<synDropped, movedIn, othersIn>>

\* SYN_DROPPED parks what came before it and opens the dropped window.
SynDropped ==
  /\ inCall
  /\ Spend("drop", MaxDrops)
  /\ Park
  /\ dx' = 0 /\ hasMotion' = FALSE /\ queued' = <<>>
  /\ synDropped' = TRUE
  /\ UNCHANGED <<raw, inCall, unsynced, disconnected, moveVars, delivered, othersIn, syns>>

\* The SYN_REPORT that ends the window is not forwarded.
WindowEnds ==
  /\ Discarded
  /\ Spend("event", MaxEvents)
  /\ synDropped' = FALSE
  /\ UNCHANGED <<raw, callVars, pendVars, disconnected, moveVars, otherVars, syns>>

-----------------------------------------------------------------------------
(* Between two calls, on the same thread *)

\* apply_profile
SwitchProfile ==
  /\ ~inCall
  /\ Spend("switch", MaxSwitches)
  /\ raw' = ~raw
  /\ UNCHANGED <<callVars, pendVars, synDropped, disconnected, moveVars, otherVars, syns>>

\* run_loop destroys a disconnected device; a later scan opens a new one.
Reopen ==
  /\ ~inCall /\ disconnected
  /\ disconnected' = FALSE
  /\ synDropped' = FALSE
  /\ pendDx' = 0 /\ hasPend' = FALSE /\ pend' = <<>>
  /\ movedLost' = movedLost + pendDx
  /\ othersLost' = othersLost + Len(pend)
  /\ UNCHANGED <<raw, callVars, spent, moved, movedIn, delivered, othersIn, syns>>

Next ==
  \/ BeginBatch \/ EndBatch \/ EndBatchFails
  \/ DiscardEvent \/ Motion \/ MotionFails
  \/ OtherEvent \/ WheelOverflow \/ ButtonOverflow \/ OtherEventFails
  \/ SynReport \/ SynReportFails \/ SynDropped \/ WindowEnds
  \/ SwitchProfile \/ Reopen

Spec == Init /\ [][Next]_vars

-----------------------------------------------------------------------------
(* Properties *)

FlagTypes ==
  /\ raw \in BOOLEAN /\ inCall \in BOOLEAN /\ hasMotion \in BOOLEAN /\ unsynced \in BOOLEAN
  /\ hasPend \in BOOLEAN /\ synDropped \in BOOLEAN /\ disconnected \in BOOLEAN

CountTypes ==
  /\ {dx, pendDx, moved, movedIn, movedLost, othersIn, othersLost, syns} \subseteq Nat
  /\ spent \in [Bounded -> Nat]

QueueTypes ==
  /\ delivered \in Seq(Nat)
  /\ queued \in Seq(Nat) /\ Len(queued) <= QMax
  /\ pend \in Seq(Nat) /\ Len(pend) <= QMax

\* Every variable has its type; queued_events and pending_events are never
\* filled past their fixed size, although a call merges one into the other
\* and parks back what a SYN_DROPPED or the end of a batch cuts off.
TypeOK == FlagTypes /\ CountTypes /\ QueueTypes

\* No motion appears or disappears: what arrived outside dropped windows was
\* written, is in the current frame, is parked, or went with the device.
MotionConserved == movedIn = moved + dx + pendDx + movedLost

\* The same for buttons and wheel steps, where an event may also be dropped at
\* a full queue, and then it is counted.
EventsConserved ==
  othersIn = Len(delivered) + Len(queued) + Len(pend) + othersLost

\* Nothing is left behind between two calls: a call ends with empty locals,
\* and a parked tail always has its flag, so the next call picks it up.
TailRemembered ==
  /\ ~inCall => dx = 0 /\ queued = <<>> /\ ~hasMotion
  /\ dx # 0 => hasMotion
  /\ pendDx # 0 \/ pend # <<>> => hasPend

\* What the mouse sent is written, waiting where the next call finds it, or
\* counted as lost, wherever a batch, a full array or a failed write cuts a frame.
Conserved == MotionConserved /\ EventsConserved /\ TailRemembered

\* No button is pressed twice: no event is in two places.
NothingTwice ==
  LET all == delivered \o queued \o pend
  IN \A i, j \in 1..Len(all) : i # j => all[i] # all[j]

\* Without dropped windows and profile changes, buttons and wheel steps leave
\* in the order they came, through parked tails and overflowing queues; and
\* with them, none leaves twice.
OrderKept ==
  /\ NothingTwice
  /\ spent["drop"] = 0 /\ spent["switch"] = 0 =>
       \A i, j \in 1..Len(delivered) : i < j => delivered[i] < delivered[j]
=============================================================================
