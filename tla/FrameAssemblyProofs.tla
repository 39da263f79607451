------------------------ MODULE FrameAssemblyProofs ------------------------
(***************************************************************************)
(* Proofs about what the loop thread does with motion: the frames of       *)
(* FrameAssembly, for every queue size and every length of the event       *)
(* stream, and the sample of Telemetry that each of them leaves for        *)
(* status_json, for any number of fields, flushes, resets and reads.       *)
(***************************************************************************)
EXTENDS FrameAssembly, Telemetry, SequenceTheorems, TLAPS

MotionNat ==
  dx \in Nat /\ pendDx \in Nat /\ moved \in Nat /\ movedIn \in Nat /\ movedLost \in Nat

FInv == TypeOK /\ MotionConserved /\ EventsConserved /\ TailRemembered

-----------------------------------------------------------------------------
(* Lemmas *)

\* Spending one unit of a bound keeps the type of the counters.
LEMMA SpendType ==
  ASSUME spent \in [Bounded -> Nat], NEW what \in Bounded, NEW max, Spend(what, max)
  PROVE  spent' \in [Bounded -> Nat]
BY DEF Spend

\* The first k events of a queue.
LEMMA Prefix ==
  ASSUME NEW q \in Seq(Nat), NEW k \in 0..Len(q)
  PROVE  SubSeq(q, 1, k) \in Seq(Nat) /\ Len(SubSeq(q, 1, k)) = k
<1>1. \A i \in 1..k : q[i] \in Nat
  BY ElementOfSeq, LenProperties
<1>2. SubSeq(q, 1, k) \in Seq(Nat) /\ Len(SubSeq(q, 1, k)) = IF 1 <= k THEN k - 1 + 1 ELSE 0
  BY <1>1, SubSeqProperties, LenProperties
<1>3. QED
  BY <1>2, LenProperties

\* Splitting a queue of b events at r leaves the total as it is.
LEMMA Split ==
  ASSUME NEW a \in Nat, NEW b \in Nat, NEW c \in Nat, NEW r \in Nat, r <= b
  PROVE  c + (b - r) \in Nat /\ (a + r) + (c + (b - r)) = a + b + c
OBVIOUS

\* A park moves the call's motion and events to the device, up to the size of
\* pending_events, and counts the rest.
LEMMA ParkEffect ==
  ASSUME TypeOK, TailRemembered, Park
  PROVE  /\ pendDx' = pendDx + dx
         /\ pend' \in Seq(Nat) /\ Len(pend') <= QMax
         /\ othersLost' \in Nat
         /\ Len(pend') + othersLost' = Len(pend) + Len(queued) + othersLost
         /\ hasPend' \in BOOLEAN
         /\ (pendDx' # 0 \/ pend' # <<>>) => hasPend'
<1> USE ConstantsAssumption DEF TypeOK, FlagTypes, CountTypes, QueueTypes
<1>1. CASE hasMotion \/ queued # <<>>
  <2>1. Len(queued) \in Nat /\ Len(pend) \in Nat
    BY LenProperties
  <2>2. ParkRoom \in 0..Len(queued) /\ ParkRoom <= QMax - Len(pend)
    BY <2>1 DEF ParkRoom, Least
  <2>3. SubSeq(queued, 1, ParkRoom) \in Seq(Nat) /\ Len(SubSeq(queued, 1, ParkRoom)) = ParkRoom
    BY <2>2, Prefix
  <2>4. pend' = pend \o SubSeq(queued, 1, ParkRoom)
    BY <1>1 DEF Park
  <2>5. pend' \in Seq(Nat) /\ Len(pend') = Len(pend) + ParkRoom
    BY <2>3, <2>4, ConcatProperties
  <2>6. othersLost' = othersLost + (Len(queued) - ParkRoom) /\ hasPend' = TRUE /\ pendDx' = pendDx + dx
    BY <1>1 DEF Park
  <2>7. ParkRoom \in Nat /\ ParkRoom <= Len(queued) /\ Len(pend) + ParkRoom <= QMax
    BY <2>1, <2>2
  <2>8. othersLost' \in Nat /\ Len(pend') + othersLost' = Len(pend) + Len(queued) + othersLost
    <3>1. othersLost \in Nat
      OBVIOUS
    <3>2. /\ othersLost + (Len(queued) - ParkRoom) \in Nat
          /\ (Len(pend) + ParkRoom) + (othersLost + (Len(queued) - ParkRoom)) = Len(pend) + Len(queued) + othersLost
      BY <2>1, <2>7, <3>1, Split
    <3>3. QED
      BY <2>5, <2>6, <3>2
  <2>9. QED
    BY <2>5, <2>6, <2>7, <2>8 DEF TailRemembered
<1>2. CASE ~hasMotion /\ queued = <<>>
  <2>1. UNCHANGED <<pendDx, hasPend, pend, othersLost>>
    BY <1>2 DEF Park, pendVars
  <2>2. Len(queued) = 0 /\ dx = 0
    BY <1>2, EmptySeq DEF TailRemembered
  <2>3. Len(pend) \in Nat
    BY LenProperties
  <2>4. QED
    BY <2>1, <2>2, <2>3 DEF TailRemembered
<1>3. QED
  BY <1>1, <1>2

\* The merge at the start of a call: the whole tail fits, because both arrays
\* have the same size.
LEMMA MergeEffect ==
  ASSUME TypeOK, TailRemembered, BeginBatch
  PROVE  /\ queued' = pend /\ dx' = pendDx
         /\ pend' = <<>> /\ pendDx' = 0
         /\ othersLost' = othersLost
<1> USE ConstantsAssumption DEF TypeOK, CountTypes, QueueTypes
<1>1. Len(pend) \in Nat /\ Len(pend) <= QMax
  BY LenProperties
<1>2. CASE hasPend
  <2>1. SubSeq(pend, 1, Len(pend)) = pend
    BY SubSeqFull
  <2>2. QED
    BY <1>1, <1>2, <2>1 DEF BeginBatch, Least
<1>3. CASE ~hasPend
  BY <1>3 DEF BeginBatch, TailRemembered
<1>4. QED
  BY <1>2, <1>3

\* One step keeps the types of the flags.
LEMMA FlagStep ==
  ASSUME TypeOK, TailRemembered, [Next]_vars
  PROVE  FlagTypes'
<1> USE DEF TypeOK, FlagTypes
<1>1. CASE BeginBatch
  BY <1>1 DEF BeginBatch, Least, moveVars
<1>2. CASE EndBatch
  BY <1>2, ParkEffect DEF EndBatch, EmptyCall
<1>3. CASE EndBatchFails
  BY <1>3, ParkEffect DEF EndBatchFails, EmptyCall
<1>4. CASE DiscardEvent
  BY <1>4 DEF DiscardEvent, Discarded, callVars, pendVars, moveVars, otherVars
<1>5. CASE Motion
  BY <1>5 DEF Motion, pendVars, otherVars
<1>6. CASE MotionFails
  BY <1>6 DEF MotionFails, GiveUp, EmptyCall, pendVars
<1>7. CASE OtherEvent
  BY <1>7 DEF OtherEvent, Arrive, pendVars, moveVars
<1>8. CASE WheelOverflow
  BY <1>8 DEF WheelOverflow, Arrive, callVars, pendVars, moveVars
<1>9. CASE ButtonOverflow
  BY <1>9 DEF ButtonOverflow, Arrive, pendVars, moveVars
<1>10. CASE OtherEventFails
  BY <1>10 DEF OtherEventFails, GiveUp, EmptyCall, pendVars
<1>11. CASE SynReport
  BY <1>11 DEF SynReport, EmptyCall, pendVars
<1>12. CASE SynReportFails
  BY <1>12 DEF SynReportFails, GiveUp, EmptyCall, pendVars
<1>13. CASE SynDropped
  BY <1>13, ParkEffect DEF SynDropped
<1>14. CASE WindowEnds
  BY <1>14 DEF WindowEnds, Discarded, callVars, pendVars, moveVars, otherVars
<1>15. CASE SwitchProfile
  BY <1>15 DEF SwitchProfile, callVars, pendVars, moveVars, otherVars
<1>16. CASE Reopen
  BY <1>16 DEF Reopen, callVars
<1>17. CASE UNCHANGED vars
  BY <1>17 DEF vars, callVars, pendVars, moveVars, otherVars
<1>18. QED
  BY <1>1, <1>2, <1>3, <1>4, <1>5, <1>6, <1>7, <1>8, <1>9, <1>10, <1>11, <1>12, <1>13,
     <1>14, <1>15, <1>16, <1>17 DEF Next

\* One step keeps the bounds counted.
LEMMA SpentStep ==
  ASSUME spent \in [Bounded -> Nat], [Next]_vars
  PROVE  spent' \in [Bounded -> Nat]
<1> USE DEF Bounded
<1>1. CASE BeginBatch
  BY <1>1, SpendType DEF BeginBatch
<1>2. CASE EndBatch
  BY <1>2, SpendType DEF EndBatch
<1>3. CASE EndBatchFails
  BY <1>3, SpendType DEF EndBatchFails
<1>4. CASE DiscardEvent
  BY <1>4, SpendType DEF DiscardEvent
<1>5. CASE Motion
  BY <1>5, SpendType DEF Motion
<1>6. CASE MotionFails
  BY <1>6, SpendType DEF MotionFails, GiveUp
<1>7. CASE OtherEvent
  BY <1>7, SpendType DEF OtherEvent, Arrive
<1>8. CASE WheelOverflow
  BY <1>8, SpendType DEF WheelOverflow, Arrive
<1>9. CASE ButtonOverflow
  BY <1>9, SpendType DEF ButtonOverflow, Arrive
<1>10. CASE OtherEventFails
  BY <1>10, SpendType DEF OtherEventFails, GiveUp
<1>11. CASE SynReport
  BY <1>11, SpendType DEF SynReport
<1>12. CASE SynReportFails
  BY <1>12, SpendType DEF SynReportFails, GiveUp
<1>13. CASE SynDropped
  BY <1>13, SpendType DEF SynDropped
<1>14. CASE WindowEnds
  BY <1>14, SpendType DEF WindowEnds
<1>15. CASE SwitchProfile
  BY <1>15, SpendType DEF SwitchProfile
<1>16. CASE Reopen
  BY <1>16, SpendType DEF Reopen
<1>17. CASE UNCHANGED vars
  BY <1>17 DEF vars, callVars, pendVars, moveVars, otherVars
<1>18. QED
  BY <1>1, <1>2, <1>3, <1>4, <1>5, <1>6, <1>7, <1>8, <1>9, <1>10, <1>11, <1>12, <1>13,
     <1>14, <1>15, <1>16, <1>17 DEF Next

\* One step keeps both queues within their size.
LEMMA QueueStep ==
  ASSUME TypeOK, TailRemembered, [Next]_vars
  PROVE  QueueTypes'
<1> USE DEF TypeOK, QueueTypes, CountTypes
<1>1. CASE BeginBatch
  <2>1. queued' = pend /\ pend' = <<>>
    BY <1>1, MergeEffect
  <2>2. delivered' = delivered
    BY <1>1 DEF BeginBatch
  <2>3. QED
    BY <2>1, <2>2, EmptySeq, ConstantsAssumption
<1>2. CASE EndBatch
  BY <1>2, ParkEffect, EmptySeq, ConstantsAssumption DEF EndBatch, EmptyCall
<1>3. CASE EndBatchFails
  BY <1>3, ParkEffect, EmptySeq, ConstantsAssumption DEF EndBatchFails, EmptyCall
<1>4. CASE DiscardEvent
  BY <1>4 DEF DiscardEvent, Discarded, callVars, pendVars, moveVars, otherVars
<1>5. CASE Motion
  BY <1>5 DEF Motion, pendVars, otherVars
<1>6. CASE MotionFails
  BY <1>6, EmptySeq, ConstantsAssumption DEF MotionFails, GiveUp, EmptyCall, pendVars
<1>7. CASE OtherEvent
  <2>1. othersIn + 1 \in Nat
    OBVIOUS
  <2>2. pend' = pend
    BY <1>7 DEF OtherEvent, pendVars
  <2>3. CASE queued' = queued /\ delivered' = Append(delivered, othersIn + 1)
    BY <2>1, <2>2, <2>3, AppendProperties
  <2>4. CASE queued' = Append(queued, othersIn + 1) /\ delivered' = delivered /\ Len(queued) < QMax
    BY <2>1, <2>2, <2>4, AppendProperties, LenProperties, ConstantsAssumption
  <2>5. QED
    BY <1>7, <2>3, <2>4 DEF OtherEvent
<1>8. CASE WheelOverflow
  BY <1>8 DEF WheelOverflow, Arrive, callVars, pendVars, moveVars
<1>9. CASE ButtonOverflow
  <2>1. Append(queued, othersIn + 1) \in Seq(Nat)
    BY AppendProperties
  <2>2. QED
    BY <1>9, <2>1, ConcatProperties, EmptySeq, ConstantsAssumption DEF ButtonOverflow, pendVars
<1>10. CASE OtherEventFails
  <2>0. 0..(IF raw THEN 0 ELSE Len(queued)) \subseteq 0..Len(queued)
    BY LenProperties
  <2>1. PICK k \in 0..Len(queued) : delivered' = delivered \o SubSeq(queued, 1, k)
    BY <1>10, <2>0 DEF OtherEventFails
  <2>2. delivered' \in Seq(Nat)
    BY <2>1, Prefix, ConcatProperties
  <2>3. QED
    BY <1>10, <2>2, EmptySeq, ConstantsAssumption DEF OtherEventFails, GiveUp, EmptyCall, pendVars
<1>11. CASE SynReport
  BY <1>11, ConcatProperties, EmptySeq, ConstantsAssumption DEF SynReport, EmptyCall, pendVars
<1>12. CASE SynReportFails
  <2>1. PICK k \in 0..Len(queued) : delivered' = delivered \o SubSeq(queued, 1, k)
    BY <1>12 DEF SynReportFails
  <2>2. delivered' \in Seq(Nat)
    BY <2>1, Prefix, ConcatProperties
  <2>3. QED
    BY <1>12, <2>2, EmptySeq, ConstantsAssumption DEF SynReportFails, GiveUp, EmptyCall, pendVars
<1>13. CASE SynDropped
  BY <1>13, ParkEffect, EmptySeq, ConstantsAssumption DEF SynDropped
<1>14. CASE WindowEnds
  BY <1>14 DEF WindowEnds, Discarded, callVars, pendVars, moveVars, otherVars
<1>15. CASE SwitchProfile
  BY <1>15 DEF SwitchProfile, callVars, pendVars, moveVars, otherVars
<1>16. CASE Reopen
  BY <1>16, EmptySeq, ConstantsAssumption DEF Reopen, callVars
<1>17. CASE UNCHANGED vars
  BY <1>17 DEF vars, callVars, pendVars, moveVars, otherVars
<1>18. QED
  BY <1>1, <1>2, <1>3, <1>4, <1>5, <1>6, <1>7, <1>8, <1>9, <1>10, <1>11, <1>12, <1>13,
     <1>14, <1>15, <1>16, <1>17 DEF Next

\* One step leaves nothing behind between two calls.
LEMMA TailStep ==
  ASSUME TypeOK, TailRemembered, [Next]_vars
  PROVE  TailRemembered'
<1> USE DEF TypeOK, FlagTypes, CountTypes, TailRemembered
<1>1. CASE BeginBatch
  BY <1>1, MergeEffect DEF BeginBatch
<1>2. CASE EndBatch
  BY <1>2, ParkEffect DEF EndBatch, EmptyCall
<1>3. CASE EndBatchFails
  BY <1>3, ParkEffect DEF EndBatchFails, EmptyCall
<1>4. CASE DiscardEvent
  BY <1>4 DEF DiscardEvent, Discarded, callVars, pendVars, moveVars, otherVars
<1>5. CASE Motion
  BY <1>5 DEF Motion, pendVars, otherVars
<1>6. CASE MotionFails
  BY <1>6 DEF MotionFails, GiveUp, EmptyCall, pendVars
<1>7. CASE OtherEvent
  BY <1>7 DEF OtherEvent, Arrive, pendVars, moveVars
<1>8. CASE WheelOverflow
  BY <1>8 DEF WheelOverflow, Arrive, callVars, pendVars, moveVars
<1>9. CASE ButtonOverflow
  BY <1>9 DEF ButtonOverflow, Arrive, pendVars, moveVars
<1>10. CASE OtherEventFails
  BY <1>10 DEF OtherEventFails, GiveUp, EmptyCall, pendVars
<1>11. CASE SynReport
  BY <1>11 DEF SynReport, EmptyCall, pendVars
<1>12. CASE SynReportFails
  BY <1>12 DEF SynReportFails, GiveUp, EmptyCall, pendVars
<1>13. CASE SynDropped
  BY <1>13, ParkEffect DEF SynDropped
<1>14. CASE WindowEnds
  BY <1>14 DEF WindowEnds, Discarded, callVars, pendVars, moveVars, otherVars
<1>15. CASE SwitchProfile
  BY <1>15 DEF SwitchProfile, callVars, pendVars, moveVars, otherVars
<1>16. CASE Reopen
  BY <1>16 DEF Reopen, callVars
<1>17. CASE UNCHANGED vars
  BY <1>17 DEF vars, callVars, pendVars, moveVars, otherVars
<1>18. QED
  BY <1>1, <1>2, <1>3, <1>4, <1>5, <1>6, <1>7, <1>8, <1>9, <1>10, <1>11, <1>12, <1>13,
     <1>14, <1>15, <1>16, <1>17 DEF Next

\* One step keeps every count of motion accounted for.
LEMMA MotionStep ==
  ASSUME TypeOK, TailRemembered, MotionConserved, [Next]_vars
  PROVE  MotionConserved' /\ MotionNat'
<1> USE DEF MotionNat, MotionConserved
<1>0. dx \in Nat /\ pendDx \in Nat /\ moved \in Nat /\ movedIn \in Nat /\ movedLost \in Nat
  BY DEF TypeOK, CountTypes
<1>1. CASE BeginBatch
  <2>1. dx' = pendDx /\ pendDx' = 0 /\ dx = 0
    BY <1>1, MergeEffect DEF BeginBatch, TailRemembered
  <2>2. UNCHANGED <<moved, movedIn, movedLost>>
    BY <1>1 DEF BeginBatch, moveVars
  <2>3. QED
    BY <1>0, <2>1, <2>2
<1>2. CASE EndBatch
  <2>1. dx' = 0 /\ pendDx' = pendDx + dx
    BY <1>2, ParkEffect DEF EndBatch, EmptyCall
  <2>2. UNCHANGED <<moved, movedIn, movedLost>>
    BY <1>2 DEF EndBatch, moveVars
  <2>3. QED
    BY <1>0, <2>1, <2>2
<1>3. CASE EndBatchFails
  <2>1. dx' = 0 /\ pendDx' = pendDx + dx
    BY <1>3, ParkEffect DEF EndBatchFails, EmptyCall
  <2>2. UNCHANGED <<moved, movedIn, movedLost>>
    BY <1>3 DEF EndBatchFails, moveVars
  <2>3. QED
    BY <1>0, <2>1, <2>2
<1>4. CASE DiscardEvent
  BY <1>4, <1>0 DEF DiscardEvent, Discarded, callVars, pendVars, moveVars, otherVars
<1>5. CASE Motion
  BY <1>5, <1>0 DEF Motion, pendVars, otherVars
<1>6. CASE MotionFails
  <2>1. movedIn' = movedIn + 1 /\ movedLost' = movedLost + 1 + dx /\ moved' = moved
    BY <1>6 DEF MotionFails
  <2>2. dx' = 0 /\ pendDx' = pendDx
    BY <1>6 DEF MotionFails, GiveUp, EmptyCall, pendVars
  <2>3. QED
    BY <1>0, <2>1, <2>2
<1>7. CASE OtherEvent
  BY <1>7, <1>0 DEF OtherEvent, Arrive, pendVars, moveVars
<1>8. CASE WheelOverflow
  BY <1>8, <1>0 DEF WheelOverflow, Arrive, callVars, pendVars, moveVars
<1>9. CASE ButtonOverflow
  BY <1>9, <1>0 DEF ButtonOverflow, Arrive, pendVars, moveVars
<1>10. CASE OtherEventFails
  <2>1. movedIn' = movedIn /\ movedLost' = movedLost + dx /\ moved' = moved
    BY <1>10 DEF OtherEventFails
  <2>2. dx' = 0 /\ pendDx' = pendDx
    BY <1>10 DEF OtherEventFails, GiveUp, EmptyCall, pendVars
  <2>3. QED
    BY <1>0, <2>1, <2>2
<1>11. CASE SynReport
  BY <1>11, <1>0 DEF SynReport, EmptyCall, pendVars
<1>12. CASE SynReportFails
  <2>1. movedIn' = movedIn /\ (\/ moved' = moved + dx /\ movedLost' = movedLost
                               \/ moved' = moved /\ movedLost' = movedLost + dx)
    BY <1>12 DEF SynReportFails
  <2>2. dx' = 0 /\ pendDx' = pendDx
    BY <1>12 DEF SynReportFails, GiveUp, EmptyCall, pendVars
  <2>3. QED
    BY <1>0, <2>1, <2>2
<1>13. CASE SynDropped
  <2>1. dx' = 0 /\ pendDx' = pendDx + dx
    BY <1>13, ParkEffect DEF SynDropped
  <2>2. UNCHANGED <<moved, movedIn, movedLost>>
    BY <1>13 DEF SynDropped, moveVars
  <2>3. QED
    BY <1>0, <2>1, <2>2
<1>14. CASE WindowEnds
  BY <1>14, <1>0 DEF WindowEnds, Discarded, callVars, pendVars, moveVars, otherVars
<1>15. CASE SwitchProfile
  BY <1>15, <1>0 DEF SwitchProfile, callVars, pendVars, moveVars, otherVars
<1>16. CASE Reopen
  BY <1>16, <1>0 DEF Reopen, callVars
<1>17. CASE UNCHANGED vars
  BY <1>17, <1>0 DEF vars, callVars, pendVars, moveVars, otherVars
<1>18. QED
  BY <1>1, <1>2, <1>3, <1>4, <1>5, <1>6, <1>7, <1>8, <1>9, <1>10, <1>11, <1>12, <1>13,
     <1>14, <1>15, <1>16, <1>17 DEF Next

\* One step keeps every button and wheel step accounted for.
LEMMA EventStep ==
  ASSUME TypeOK, TailRemembered, EventsConserved, [Next]_vars
  PROVE  EventsConserved' /\ othersIn' \in Nat /\ othersLost' \in Nat
<1> USE DEF EventsConserved
<1>0. /\ othersIn \in Nat /\ othersLost \in Nat
      /\ delivered \in Seq(Nat) /\ queued \in Seq(Nat) /\ pend \in Seq(Nat)
      /\ Len(delivered) \in Nat /\ Len(queued) \in Nat /\ Len(pend) \in Nat
  BY LenProperties DEF TypeOK, CountTypes, QueueTypes
<1>1. CASE BeginBatch
  <2>1. queued' = pend /\ Len(pend') = 0 /\ othersLost' = othersLost
    BY <1>1, MergeEffect, EmptySeq
  <2>2. Len(queued) = 0
    BY <1>1, EmptySeq DEF BeginBatch, TailRemembered
  <2>3. UNCHANGED <<delivered, othersIn>>
    BY <1>1 DEF BeginBatch
  <2>4. QED
    BY <1>0, <2>1, <2>2, <2>3
<1>2. CASE EndBatch
  <2>1. /\ Len(pend') + othersLost' = Len(pend) + Len(queued) + othersLost
        /\ othersLost' \in Nat /\ Len(pend') \in Nat
    BY <1>2, ParkEffect, LenProperties DEF EndBatch
  <2>2. Len(queued') = 0
    BY <1>2, EmptySeq DEF EndBatch, EmptyCall
  <2>3. UNCHANGED <<delivered, othersIn>>
    BY <1>2 DEF EndBatch
  <2>4. QED
    BY <1>0, <2>1, <2>2, <2>3
<1>3. CASE EndBatchFails
  <2>1. /\ Len(pend') + othersLost' = Len(pend) + Len(queued) + othersLost
        /\ othersLost' \in Nat /\ Len(pend') \in Nat
    BY <1>3, ParkEffect, LenProperties DEF EndBatchFails
  <2>2. Len(queued') = 0
    BY <1>3, EmptySeq DEF EndBatchFails, EmptyCall
  <2>3. UNCHANGED <<delivered, othersIn>>
    BY <1>3 DEF EndBatchFails
  <2>4. QED
    BY <1>0, <2>1, <2>2, <2>3
<1>4. CASE DiscardEvent
  BY <1>4, <1>0 DEF DiscardEvent, Discarded, callVars, pendVars, moveVars, otherVars
<1>5. CASE Motion
  BY <1>5, <1>0 DEF Motion, pendVars, otherVars
<1>6. CASE MotionFails
  <2>1. Len(queued') = 0 /\ pend' = pend
    BY <1>6, EmptySeq DEF MotionFails, GiveUp, EmptyCall, pendVars
  <2>2. othersLost' = othersLost + Len(queued) /\ UNCHANGED <<delivered, othersIn>>
    BY <1>6 DEF MotionFails
  <2>3. QED
    BY <1>0, <2>1, <2>2
<1>7. CASE OtherEvent
  <2>1. othersIn' = othersIn + 1 /\ pend' = pend /\ othersLost' = othersLost
    BY <1>7 DEF OtherEvent, Arrive, pendVars
  <2>2. \/ Len(queued') = Len(queued) + 1 /\ delivered' = delivered
        \/ queued' = queued /\ Len(delivered') = Len(delivered) + 1
    BY <1>7, <1>0, AppendProperties DEF OtherEvent
  <2>3. QED
    BY <1>0, <2>1, <2>2
<1>8. CASE WheelOverflow
  <2>1. othersIn' = othersIn + 1 /\ othersLost' = othersLost + 1
    BY <1>8 DEF WheelOverflow, Arrive
  <2>2. UNCHANGED <<delivered, queued, pend>>
    BY <1>8 DEF WheelOverflow, callVars, pendVars
  <2>3. QED
    BY <1>0, <2>1, <2>2
<1>9. CASE ButtonOverflow
  <2>1. /\ Append(queued, othersIn + 1) \in Seq(Nat)
        /\ Len(Append(queued, othersIn + 1)) = Len(queued) + 1
    BY <1>0, AppendProperties
  <2>2. delivered' = delivered \o Append(queued, othersIn + 1) /\ Len(queued') = 0
    BY <1>9, EmptySeq DEF ButtonOverflow
  <2>3. Len(delivered') = Len(delivered) + (Len(queued) + 1)
    BY <1>0, <2>1, <2>2, ConcatProperties
  <2>4. othersIn' = othersIn + 1 /\ UNCHANGED <<pend, othersLost>>
    BY <1>9 DEF ButtonOverflow, Arrive, pendVars
  <2>5. QED
    BY <1>0, <2>2, <2>3, <2>4
<1>10. CASE OtherEventFails
  <2>1. 0..(IF raw THEN 0 ELSE Len(queued)) \subseteq 0..Len(queued)
    BY <1>0
  <2>2. PICK k \in 0..Len(queued) : /\ delivered' = delivered \o SubSeq(queued, 1, k)
                                    /\ othersLost' = othersLost + (Len(queued) - k) + 1
    BY <1>10, <2>1 DEF OtherEventFails
  <2>3. SubSeq(queued, 1, k) \in Seq(Nat) /\ Len(SubSeq(queued, 1, k)) = k
    BY <1>0, Prefix
  <2>4. Len(delivered') = Len(delivered) + k
    BY <1>0, <2>2, <2>3, ConcatProperties
  <2>5. Len(queued') = 0 /\ pend' = pend /\ othersIn' = othersIn + 1
    BY <1>10, EmptySeq DEF OtherEventFails, GiveUp, EmptyCall, pendVars
  <2>6. k \in Nat /\ k <= Len(queued)
    BY <1>0
  <2>7. othersLost' \in Nat /\ othersIn' \in Nat
    BY <1>0, <2>2, <2>5, <2>6
  <2>8. (Len(delivered) + k) + (othersLost + (Len(queued) - k)) = Len(delivered) + Len(queued) + othersLost
    BY <1>0, <2>6, Split
  <2>9. othersIn' = Len(delivered') + Len(queued') + Len(pend') + othersLost'
    <3> DEFINE d == Len(delivered)  q == Len(queued)  p == Len(pend)  l == othersLost + (Len(queued) - k)
    <3>1. d \in Nat /\ q \in Nat /\ p \in Nat /\ l \in Nat /\ k \in Nat
      BY <1>0, <2>2, <2>6, <2>7
    <3>2. (d + k) + l = d + q + othersLost /\ othersIn = d + q + p + othersLost
      BY <2>8
    <3>3. Len(delivered') = d + k /\ Len(queued') = 0 /\ Len(pend') = p /\ othersLost' = l + 1 /\ othersIn' = othersIn + 1
      BY <2>2, <2>4, <2>5
    <3> HIDE DEF d, q, p, l
    <3>4. QED
      BY <1>0, <3>1, <3>2, <3>3
  <2>10. QED
    BY <2>7, <2>9
<1>11. CASE SynReport
  <2>1. delivered' = delivered \o queued /\ Len(queued') = 0
    BY <1>11, EmptySeq DEF SynReport, EmptyCall
  <2>2. Len(delivered') = Len(delivered) + Len(queued)
    BY <1>0, <2>1, ConcatProperties
  <2>3. UNCHANGED <<pend, othersIn, othersLost>>
    BY <1>11 DEF SynReport, pendVars
  <2>4. QED
    BY <1>0, <2>1, <2>2, <2>3
<1>12. CASE SynReportFails
  <2>1. 0..(IF raw THEN 0 ELSE Len(queued)) \subseteq 0..Len(queued)
    BY <1>0
  <2>2. PICK k \in 0..Len(queued) : /\ delivered' = delivered \o SubSeq(queued, 1, k)
                                    /\ othersLost' = othersLost + (Len(queued) - k)
    BY <1>12, <2>1 DEF SynReportFails
  <2>3. SubSeq(queued, 1, k) \in Seq(Nat) /\ Len(SubSeq(queued, 1, k)) = k
    BY <1>0, Prefix
  <2>4. Len(delivered') = Len(delivered) + k
    BY <1>0, <2>2, <2>3, ConcatProperties
  <2>5. Len(queued') = 0 /\ pend' = pend /\ othersIn' = othersIn
    BY <1>12, EmptySeq DEF SynReportFails, GiveUp, EmptyCall, pendVars
  <2>6. k \in Nat /\ k <= Len(queued)
    BY <1>0
  <2>7. othersLost' \in Nat /\ othersIn' \in Nat
    BY <1>0, <2>2, <2>5, <2>6
  <2>8. (Len(delivered) + k) + (othersLost + (Len(queued) - k)) = Len(delivered) + Len(queued) + othersLost
    BY <1>0, <2>6, Split
  <2>9. othersIn' = Len(delivered') + Len(queued') + Len(pend') + othersLost'
    <3> DEFINE d == Len(delivered)  q == Len(queued)  p == Len(pend)  l == othersLost + (Len(queued) - k)
    <3>1. d \in Nat /\ q \in Nat /\ p \in Nat /\ l \in Nat /\ k \in Nat
      BY <1>0, <2>2, <2>6, <2>7
    <3>2. (d + k) + l = d + q + othersLost /\ othersIn = d + q + p + othersLost
      BY <2>8
    <3>3. Len(delivered') = d + k /\ Len(queued') = 0 /\ Len(pend') = p /\ othersLost' = l /\ othersIn' = othersIn
      BY <2>2, <2>4, <2>5
    <3> HIDE DEF d, q, p, l
    <3>4. QED
      BY <1>0, <3>1, <3>2, <3>3
  <2>10. QED
    BY <2>7, <2>9
<1>13. CASE SynDropped
  <2>1. /\ Len(pend') + othersLost' = Len(pend) + Len(queued) + othersLost
        /\ othersLost' \in Nat /\ Len(pend') \in Nat
    BY <1>13, ParkEffect, LenProperties DEF SynDropped
  <2>2. Len(queued') = 0
    BY <1>13, EmptySeq DEF SynDropped, EmptyCall
  <2>3. UNCHANGED <<delivered, othersIn>>
    BY <1>13 DEF SynDropped
  <2>4. QED
    BY <1>0, <2>1, <2>2, <2>3
<1>14. CASE WindowEnds
  BY <1>14, <1>0 DEF WindowEnds, Discarded, callVars, pendVars, moveVars, otherVars
<1>15. CASE SwitchProfile
  BY <1>15, <1>0 DEF SwitchProfile, callVars, pendVars, moveVars, otherVars
<1>16. CASE Reopen
  <2>1. Len(pend') = 0 /\ othersLost' = othersLost + Len(pend)
    BY <1>16, EmptySeq DEF Reopen
  <2>2. UNCHANGED <<delivered, queued, othersIn>>
    BY <1>16 DEF Reopen, callVars
  <2>3. QED
    BY <1>0, <2>1, <2>2
<1>17. CASE UNCHANGED vars
  BY <1>17, <1>0 DEF vars, callVars, pendVars, moveVars, otherVars
<1>18. QED
  BY <1>1, <1>2, <1>3, <1>4, <1>5, <1>6, <1>7, <1>8, <1>9, <1>10, <1>11, <1>12, <1>13,
     <1>14, <1>15, <1>16, <1>17 DEF Next

\* One step counts SYN_REPORTs.
LEMMA SynCountStep ==
  ASSUME TypeOK, [Next]_vars
  PROVE  syns' \in Nat
<1> USE DEF TypeOK, CountTypes
<1>1. CASE BeginBatch
  BY <1>1 DEF BeginBatch
<1>2. CASE EndBatch
  BY <1>2 DEF EndBatch
<1>3. CASE EndBatchFails
  BY <1>3 DEF EndBatchFails
<1>4. CASE DiscardEvent
  BY <1>4 DEF DiscardEvent
<1>5. CASE Motion
  BY <1>5 DEF Motion
<1>6. CASE MotionFails
  BY <1>6 DEF MotionFails, GiveUp
<1>7. CASE OtherEvent
  BY <1>7 DEF OtherEvent
<1>8. CASE WheelOverflow
  BY <1>8 DEF WheelOverflow
<1>9. CASE ButtonOverflow
  BY <1>9 DEF ButtonOverflow
<1>10. CASE OtherEventFails
  BY <1>10 DEF OtherEventFails, GiveUp
<1>11. CASE SynReport
  BY <1>11 DEF SynReport
<1>12. CASE SynReportFails
  BY <1>12 DEF SynReportFails, GiveUp
<1>13. CASE SynDropped
  BY <1>13 DEF SynDropped
<1>14. CASE WindowEnds
  BY <1>14 DEF WindowEnds
<1>15. CASE SwitchProfile
  BY <1>15 DEF SwitchProfile
<1>16. CASE Reopen
  BY <1>16 DEF Reopen
<1>17. CASE UNCHANGED vars
  BY <1>17 DEF vars, callVars, pendVars, moveVars, otherVars
<1>18. QED
  BY <1>1, <1>2, <1>3, <1>4, <1>5, <1>6, <1>7, <1>8, <1>9, <1>10, <1>11, <1>12, <1>13,
     <1>14, <1>15, <1>16, <1>17 DEF Next

\* The inductive invariant.
LEMMA FInvHolds == Spec => []FInv
<1>1. Init => FInv
  <2> SUFFICES ASSUME Init PROVE FInv
    OBVIOUS
  <2> USE ConstantsAssumption DEF Init
  <2>1. FlagTypes
    BY DEF FlagTypes
  <2>2. CountTypes /\ MotionConserved
    BY DEF CountTypes, Bounded, MotionConserved
  <2>3. QueueTypes /\ EventsConserved
    BY EmptySeq DEF QueueTypes, EventsConserved
  <2>4. TailRemembered
    BY DEF TailRemembered
  <2>5. QED
    BY <2>1, <2>2, <2>3, <2>4 DEF FInv, TypeOK
<1>2. FInv /\ [Next]_vars => FInv'
  <2> SUFFICES ASSUME FInv, [Next]_vars PROVE FInv'
    OBVIOUS
  <2> USE DEF FInv
  <2>1. FlagTypes' /\ QueueTypes' /\ TailRemembered'
    BY FlagStep, QueueStep, TailStep
  <2>2. spent' \in [Bounded -> Nat]
    BY SpentStep DEF TypeOK, CountTypes
  <2>3. MotionConserved' /\ MotionNat'
    BY MotionStep
  <2>4. EventsConserved' /\ othersIn' \in Nat /\ othersLost' \in Nat
    BY EventStep
  <2>5. syns' \in Nat
    BY SynCountStep
  <2>6. CountTypes'
    BY <2>2, <2>3, <2>4, <2>5 DEF CountTypes, MotionNat
  <2>7. QED
    BY <2>1, <2>3, <2>4, <2>6 DEF TypeOK
<1>3. QED
  BY <1>1, <1>2, PTL DEF Spec

-----------------------------------------------------------------------------
(* Theorems *)

\* queued_events and pending_events are never written past their end, for
\* every array size and every stream of events.
THEOREM TypeCorrect == Spec => []TypeOK
<1>1. FInv => TypeOK
  BY DEF FInv
<1>2. QED
  BY <1>1, FInvHolds, PTL

\* process_device neither loses nor invents motion, through parked tails,
\* dropped windows, profile changes and failed writes.
THEOREM MotionIsConserved == Spec => []MotionConserved
<1>1. FInv => MotionConserved
  BY DEF FInv
<1>2. QED
  BY <1>1, FInvHolds, PTL

\* Every button and wheel step is written, waiting, or counted as lost.
THEOREM EventsAreConserved == Spec => []EventsConserved
<1>1. FInv => EventsConserved
  BY DEF FInv
<1>2. QED
  BY <1>1, FInvHolds, PTL

\* What a call parks is always found by the next call.
THEOREM TailIsRemembered == Spec => []TailRemembered
<1>1. FInv => TailRemembered
  BY DEF FInv
<1>2. QED
  BY <1>1, FInvHolds, PTL

\* No motion and no button gets lost uncounted or left behind.
THEOREM AllConserved == Spec => []Conserved
<1>1. FInv => Conserved
  BY DEF FInv, Conserved
<1>2. QED
  BY <1>1, FInvHolds, PTL

-----------------------------------------------------------------------------
(* The order of buttons and wheel steps *)

Distinct(s) == \A i, j \in 1..Len(s) : i # j => s[i] # s[j]
Apart(s, t) == \A i \in 1..Len(s), j \in 1..Len(t) : s[i] # t[j]
UpTo(s, n) == \A i \in 1..Len(s) : s[i] <= n
Sorted(s) == \A i, j \in 1..Len(s) : i < j => s[i] < s[j]
Below(s, t) == \A i \in 1..Len(s), j \in 1..Len(t) : s[i] < t[j]

\* Every event is in one place, and the number of the next one is new.
OnceInv ==
  /\ Distinct(delivered) /\ Distinct(queued) /\ Distinct(pend)
  /\ Apart(delivered, queued) /\ Apart(delivered, pend) /\ Apart(queued, pend)
  /\ UpTo(delivered, othersIn) /\ UpTo(queued, othersIn) /\ UpTo(pend, othersIn)

\* Without a dropped window the tail is parked only between two calls, and
\* without a profile change raw passthrough finds nothing waiting: what waits is
\* younger than what was written.
OrderInv ==
  spent["drop"] = 0 /\ spent["switch"] = 0 =>
    /\ raw => queued = <<>> /\ pend = <<>>
    /\ inCall => pend = <<>>
    /\ Sorted(delivered) /\ Sorted(queued) /\ Sorted(pend)
    /\ Below(delivered, queued) /\ Below(delivered, pend)

\* r is s with the first k elements of t behind it.
Joins(r, s, t, k) ==
  /\ r \in Seq(Nat) /\ s \in Seq(Nat) /\ t \in Seq(Nat)
  /\ k \in 0..Len(t) /\ Len(r) = Len(s) + k
  /\ \A i \in 1..Len(s) : r[i] = s[i]
  /\ \A i \in 1..k : r[Len(s) + i] = t[i]

LEMMA PrefixJoins ==
  ASSUME NEW s \in Seq(Nat), NEW t \in Seq(Nat), NEW k \in 0..Len(t)
  PROVE  Joins(s \o SubSeq(t, 1, k), s, t, k)
<1>. DEFINE u == SubSeq(t, 1, k)
<1>1. Len(s) \in Nat /\ Len(t) \in Nat /\ k \in Nat
  BY LenProperties
<1>2. u \in Seq(Nat) /\ Len(u) = k
  BY Prefix
<1>3. \A i \in 1..k : u[i] = t[i]
  BY <1>1, <1>2
<1>. HIDE DEF u
<1>4. /\ s \o u \in Seq(Nat) /\ Len(s \o u) = Len(s) + k
      /\ \A i \in 1..(Len(s) + k) : (s \o u)[i] = IF i <= Len(s) THEN s[i] ELSE u[i - Len(s)]
  BY <1>2, ConcatProperties
<1>5. \A i \in 1..Len(s) : (s \o u)[i] = s[i]
  BY <1>1, <1>4
<1>6. ASSUME NEW i \in 1..k PROVE (s \o u)[Len(s) + i] = t[i]
  <2>1. Len(s) + i \in 1..(Len(s) + k) /\ ~(Len(s) + i <= Len(s)) /\ (Len(s) + i) - Len(s) = i
    BY <1>1
  <2>. QED
    BY <1>3, <1>4, <2>1
<1>. QED
  BY <1>2, <1>4, <1>5, <1>6 DEF Joins, u

LEMMA ConcatJoins ==
  ASSUME NEW s \in Seq(Nat), NEW t \in Seq(Nat)
  PROVE  Joins(s \o t, s, t, Len(t))
<1>1. Len(t) \in 0..Len(t)
  BY LenProperties
<1>2. SubSeq(t, 1, Len(t)) = t
  BY SubSeqFull
<1>3. Joins(s \o SubSeq(t, 1, Len(t)), s, t, Len(t))
  BY <1>1, PrefixJoins
<1>. QED
  BY <1>2, <1>3

LEMMA NothingJoins ==
  ASSUME NEW s \in Seq(Nat), NEW t \in Seq(Nat)
  PROVE  Joins(s, s, t, 0)
<1>1. Len(s) \in Nat /\ Len(t) \in Nat
  BY LenProperties
<1>. QED
  BY <1>1 DEF Joins

LEMMA AppendJoins ==
  ASSUME NEW s \in Seq(Nat), NEW x \in Nat
  PROVE  Joins(Append(s, x), s, <<x>>, 1)
<1>1. Len(s) \in Nat
  BY LenProperties
<1>2. /\ Append(s, x) \in Seq(Nat) /\ Len(Append(s, x)) = Len(s) + 1
      /\ \A i \in 1..Len(s) : Append(s, x)[i] = s[i]
      /\ Append(s, x)[Len(s) + 1] = x
  BY <1>1, AppendProperties
<1>3. <<x>> \in Seq(Nat) /\ Len(<<x>>) = 1 /\ <<x>>[1] = x
  OBVIOUS
<1>. QED
  BY <1>1, <1>2, <1>3 DEF Joins

\* An element of a joint sequence comes from the one or from the other.
LEMMA JoinedFrom ==
  ASSUME NEW r, NEW s, NEW t, NEW k, Joins(r, s, t, k), NEW i \in 1..Len(r)
  PROVE  \/ i \in 1..Len(s) /\ r[i] = s[i]
         \/ /\ i - Len(s) \in 1..k /\ i - Len(s) \in 1..Len(t) /\ i > Len(s)
            /\ r[i] = t[i - Len(s)]
<1>1. Len(s) \in Nat /\ Len(t) \in Nat /\ k \in Nat /\ k <= Len(t) /\ Len(r) = Len(s) + k /\ i \in Nat
  BY LenProperties DEF Joins
<1>2. CASE i <= Len(s)
  BY <1>1, <1>2 DEF Joins
<1>3. CASE i > Len(s)
  <2>1. i - Len(s) \in 1..k /\ i - Len(s) \in 1..Len(t) /\ Len(s) + (i - Len(s)) = i
    BY <1>1, <1>3
  <2>. QED
    BY <1>3, <2>1 DEF Joins
<1>. QED
  BY <1>1, <1>2, <1>3

\* What a joint sequence inherits.
LEMMA JoinDistinct ==
  ASSUME NEW r, NEW s, NEW t, NEW k, Joins(r, s, t, k), Distinct(s), Distinct(t), Apart(s, t)
  PROVE  Distinct(r)
<1>. SUFFICES ASSUME NEW i \in 1..Len(r), NEW j \in 1..Len(r), i # j PROVE r[i] # r[j]
  BY DEF Distinct
<1>0. Len(s) \in Nat /\ i \in Nat /\ j \in Nat
  BY LenProperties DEF Joins
<1>1. \/ i \in 1..Len(s) /\ r[i] = s[i]
      \/ i - Len(s) \in 1..Len(t) /\ r[i] = t[i - Len(s)]
  BY JoinedFrom
<1>2. \/ j \in 1..Len(s) /\ r[j] = s[j]
      \/ j - Len(s) \in 1..Len(t) /\ r[j] = t[j - Len(s)]
  BY JoinedFrom
<1>3. i - Len(s) # j - Len(s)
  BY <1>0
<1>. QED
  BY <1>1, <1>2, <1>3 DEF Distinct, Apart

LEMMA JoinApart ==
  ASSUME NEW r, NEW s, NEW t, NEW k, NEW u, Joins(r, s, t, k), Apart(s, u), Apart(t, u)
  PROVE  Apart(r, u)
BY JoinedFrom DEF Apart

LEMMA JoinUpTo ==
  ASSUME NEW r, NEW s, NEW t, NEW k, NEW n, Joins(r, s, t, k), UpTo(s, n), UpTo(t, n)
  PROVE  UpTo(r, n)
BY JoinedFrom DEF UpTo

LEMMA JoinSorted ==
  ASSUME NEW r, NEW s, NEW t, NEW k, Joins(r, s, t, k), Sorted(s), Sorted(t), Below(s, t)
  PROVE  Sorted(r)
<1>. SUFFICES ASSUME NEW i \in 1..Len(r), NEW j \in 1..Len(r), i < j PROVE r[i] < r[j]
  BY DEF Sorted
<1>0. Len(s) \in Nat /\ i \in Nat /\ j \in Nat
  BY LenProperties DEF Joins
<1>1. \/ i \in 1..Len(s) /\ r[i] = s[i]
      \/ i - Len(s) \in 1..Len(t) /\ r[i] = t[i - Len(s)] /\ i > Len(s)
  BY JoinedFrom
<1>2. \/ j \in 1..Len(s) /\ r[j] = s[j]
      \/ j - Len(s) \in 1..Len(t) /\ r[j] = t[j - Len(s)]
  BY JoinedFrom
<1>3. i - Len(s) < j - Len(s) /\ (i > Len(s) => j \notin 1..Len(s))
  BY <1>0
<1>. QED
  BY <1>1, <1>2, <1>3 DEF Sorted, Below

LEMMA JoinBelow ==
  ASSUME NEW r, NEW s, NEW t, NEW k, NEW u, Joins(r, s, t, k), Below(s, u), Below(t, u)
  PROVE  Below(r, u)
<1>. SUFFICES ASSUME NEW i \in 1..Len(r), NEW j \in 1..Len(u) PROVE r[i] < u[j]
  BY DEF Below
<1>1. \/ i \in 1..Len(s) /\ r[i] = s[i]
      \/ i - Len(s) \in 1..Len(t) /\ r[i] = t[i - Len(s)]
  BY JoinedFrom
<1>. QED
  BY <1>1 DEF Below

LEMMA BelowJoin ==
  ASSUME NEW r, NEW s, NEW t, NEW k, NEW u, Joins(r, s, t, k), Below(u, s), Below(u, t)
  PROVE  Below(u, r)
<1>. SUFFICES ASSUME NEW i \in 1..Len(r), NEW j \in 1..Len(u) PROVE u[j] < r[i]
  BY DEF Below
<1>1. \/ i \in 1..Len(s) /\ r[i] = s[i]
      \/ i - Len(s) \in 1..Len(t) /\ r[i] = t[i - Len(s)]
  BY JoinedFrom
<1>. QED
  BY <1>1 DEF Below

LEMMA ApartSymmetric ==
  ASSUME NEW s, NEW t, Apart(s, t)
  PROVE  Apart(t, s)
BY DEF Apart

LEMMA EmptyFacts ==
  ASSUME NEW n
  PROVE  /\ Distinct(<<>>) /\ Sorted(<<>>) /\ UpTo(<<>>, n)
         /\ \A s : Apart(s, <<>>) /\ Apart(<<>>, s) /\ Below(s, <<>>) /\ Below(<<>>, s)
<1>1. Len(<<>>) = 0 /\ 1..0 = {}
  BY EmptySeq
<1>. QED
  BY <1>1 DEF Distinct, Sorted, UpTo, Apart, Below

\* The number of the event that arrives is new, and above all others.
LEMMA NewFacts ==
  ASSUME NEW n \in Nat, NEW s \in Seq(Nat), UpTo(s, n)
  PROVE  /\ <<n + 1>> \in Seq(Nat) /\ Distinct(<<n + 1>>) /\ Sorted(<<n + 1>>)
         /\ UpTo(<<n + 1>>, n + 1) /\ UpTo(s, n + 1)
         /\ Apart(s, <<n + 1>>) /\ Below(s, <<n + 1>>)
<1>1. \A i \in 1..Len(s) : s[i] \in Nat /\ s[i] <= n
  BY ElementOfSeq DEF UpTo
<1>2. <<n + 1>> \in Seq(Nat) /\ Len(<<n + 1>>) = 1 /\ <<n + 1>>[1] = n + 1 /\ 1..1 = {1}
  OBVIOUS
<1>3. \A i \in 1..Len(s) : s[i] <= n + 1 /\ s[i] < n + 1 /\ s[i] # n + 1
  BY <1>1
<1>. QED
  BY <1>2, <1>3 DEF Distinct, Sorted, UpTo, Apart, Below

\* What a step does to the three queues, in the cases the order depends on.
Kept == UNCHANGED <<delivered, queued, pend>> /\ othersIn' \in Nat /\ othersIn' >= othersIn
Merged == queued = <<>> /\ queued' = pend /\ pend' = <<>> /\ UNCHANGED <<delivered, othersIn>>
Parked == queued' = <<>> /\ UNCHANGED <<delivered, othersIn>> /\ \E k : Joins(pend', pend, queued, k)
Flushed ==
  /\ queued' = <<>> /\ UNCHANGED pend /\ othersIn' \in Nat /\ othersIn' >= othersIn
  /\ \E k : Joins(delivered', delivered, queued, k)
Written ==
  /\ UNCHANGED <<queued, pend>> /\ othersIn' = othersIn + 1
  /\ Joins(delivered', delivered, <<othersIn + 1>>, 1)
Enqueued ==
  /\ UNCHANGED <<delivered, pend>> /\ othersIn' = othersIn + 1
  /\ Joins(queued', queued, <<othersIn + 1>>, 1)
Overflowed ==
  /\ queued' = <<>> /\ UNCHANGED pend /\ othersIn' = othersIn + 1
  /\ \E q, k : Joins(q, queued, <<othersIn + 1>>, 1) /\ Joins(delivered', delivered, q, k)
Dropped == pend' = <<>> /\ UNCHANGED <<delivered, queued, othersIn>>

QueueMoves ==
  Kept \/ Merged \/ Parked \/ Flushed \/ Written \/ Enqueued \/ Overflowed \/ Dropped

LEMMA ParkMoves ==
  ASSUME TypeOK, Park
  PROVE  \E k : Joins(pend', pend, queued, k)
<1>. USE ConstantsAssumption DEF TypeOK, QueueTypes
<1>1. CASE hasMotion \/ queued # <<>>
  <2>1. Len(queued) \in Nat /\ Len(pend) \in Nat
    BY LenProperties
  <2>2. ParkRoom \in 0..Len(queued)
    BY <2>1 DEF ParkRoom, Least
  <2>3. pend' = pend \o SubSeq(queued, 1, ParkRoom)
    BY <1>1 DEF Park
  <2>. QED
    BY <2>2, <2>3, PrefixJoins
<1>2. CASE ~(hasMotion \/ queued # <<>>)
  <2>1. pend' = pend
    BY <1>2 DEF Park, pendVars
  <2>. QED
    BY <2>1, NothingJoins
<1>. QED
  BY <1>1, <1>2

\* Every step is one of these moves; a park outside a dropped window ends the call,
\* only raw passthrough writes at once, and it queues nothing.
LEMMA StepMoves ==
  ASSUME FInv, [Next]_vars
  PROVE  /\ QueueMoves
         /\ spent'["drop"] = 0 /\ spent'["switch"] = 0 =>
              /\ spent["drop"] = 0 /\ spent["switch"] = 0 /\ raw' = raw
              /\ \/ Kept /\ (inCall' => inCall)
                 \/ Merged
                 \/ Parked /\ inCall /\ ~inCall'
                 \/ Flushed /\ inCall
                 \/ Written /\ (inCall' => inCall) /\ raw
                 \/ Enqueued /\ (inCall' => inCall) /\ ~raw
                 \/ Overflowed /\ inCall
                 \/ Dropped
<1>. DEFINE Calm == spent'["drop"] = 0 /\ spent'["switch"] = 0 =>
                      spent["drop"] = 0 /\ spent["switch"] = 0 /\ raw' = raw
            Stays == inCall' => inCall
<1>0. /\ delivered \in Seq(Nat) /\ queued \in Seq(Nat) /\ pend \in Seq(Nat)
      /\ othersIn \in Nat /\ spent \in [Bounded -> Nat] /\ othersIn + 1 \in Nat /\ othersIn + 1 >= othersIn
      /\ othersIn >= othersIn
  BY DEF FInv, TypeOK, QueueTypes, CountTypes
<1>1. CASE BeginBatch
  <2>1. Merged
    BY <1>1, MergeEffect DEF BeginBatch, FInv, TailRemembered, Merged
  <2>2. Calm
    BY <1>1 DEF BeginBatch
  <2>. QED
    BY <2>1, <2>2 DEF QueueMoves
<1>2. CASE EndBatch
  <2>1. Parked /\ inCall /\ ~inCall'
    BY <1>2, ParkMoves DEF EndBatch, EmptyCall, FInv, Parked
  <2>2. Calm
    BY <1>0, <1>2 DEF EndBatch, Spend, Bounded
  <2>. QED
    BY <2>1, <2>2 DEF QueueMoves
<1>3. CASE EndBatchFails
  <2>1. Parked /\ inCall /\ ~inCall'
    BY <1>3, ParkMoves DEF EndBatchFails, EmptyCall, FInv, Parked
  <2>2. Calm
    BY <1>0, <1>3 DEF EndBatchFails, Spend, Bounded
  <2>. QED
    BY <2>1, <2>2 DEF QueueMoves
<1>4. CASE DiscardEvent \/ WindowEnds
  <2>1. Kept /\ Stays
    BY <1>0, <1>4 DEF DiscardEvent, WindowEnds, callVars, pendVars, otherVars, Kept
  <2>2. Calm
    BY <1>0, <1>4 DEF DiscardEvent, WindowEnds, Spend, Bounded
  <2>. QED
    BY <2>1, <2>2 DEF QueueMoves
<1>5. CASE Motion
  <2>1. Kept /\ Stays
    BY <1>0, <1>5 DEF Motion, pendVars, otherVars, Kept
  <2>2. Calm
    BY <1>0, <1>5 DEF Motion, Spend, Bounded
  <2>. QED
    BY <2>1, <2>2 DEF QueueMoves
<1>6. CASE MotionFails
  <2>1. Flushed /\ inCall
    <3>1. UNCHANGED <<delivered, pend, othersIn>> /\ queued' = <<>> /\ inCall
      BY <1>6 DEF MotionFails, GiveUp, EmptyCall, pendVars
    <3>2. Joins(delivered', delivered, queued, 0)
      BY <1>0, <3>1, NothingJoins
    <3>. QED
      BY <1>0, <3>1, <3>2 DEF Flushed
  <2>2. Calm
    BY <1>0, <1>6 DEF MotionFails, GiveUp, Spend, Bounded
  <2>. QED
    BY <2>1, <2>2 DEF QueueMoves
<1>7. CASE OtherEvent
  <2>1. Calm /\ Stays /\ UNCHANGED pend /\ othersIn' = othersIn + 1
    BY <1>0, <1>7 DEF OtherEvent, Arrive, Spend, Bounded, pendVars
  <2>2. CASE raw /\ delivered' = Append(delivered, othersIn + 1) /\ UNCHANGED queued
    <3>1. Written
      BY <1>0, <2>1, <2>2, AppendJoins DEF Written
    <3>. QED
      BY <2>1, <2>2, <3>1 DEF QueueMoves
  <2>3. CASE ~raw /\ queued' = Append(queued, othersIn + 1) /\ UNCHANGED delivered
    <3>1. Enqueued
      BY <1>0, <2>1, <2>3, AppendJoins DEF Enqueued
    <3>. QED
      BY <2>1, <2>3, <3>1 DEF QueueMoves
  <2>. QED
    BY <1>7, <2>2, <2>3 DEF OtherEvent
<1>8. CASE WheelOverflow
  <2>1. Kept /\ Stays
    BY <1>0, <1>8 DEF WheelOverflow, Arrive, callVars, pendVars, Kept
  <2>2. Calm
    BY <1>0, <1>8 DEF WheelOverflow, Arrive, Spend, Bounded
  <2>. QED
    BY <2>1, <2>2 DEF QueueMoves
<1>9. CASE ButtonOverflow
  <2>1. Calm /\ inCall /\ UNCHANGED pend /\ othersIn' = othersIn + 1 /\ queued' = <<>>
    BY <1>0, <1>9 DEF ButtonOverflow, Arrive, Spend, Bounded, pendVars
  <2>. DEFINE q == Append(queued, othersIn + 1)
  <2>2. Joins(q, queued, <<othersIn + 1>>, 1)
    BY <1>0, AppendJoins
  <2>3. q \in Seq(Nat) /\ delivered' = delivered \o q
    BY <1>0, <1>9, AppendProperties DEF ButtonOverflow
  <2>. HIDE DEF q
  <2>4. Joins(delivered', delivered, q, Len(q))
    BY <1>0, <2>3, ConcatJoins
  <2>5. Overflowed
    BY <2>1, <2>2, <2>4 DEF Overflowed
  <2>. QED
    BY <2>1, <2>5 DEF QueueMoves
<1>10. CASE OtherEventFails
  <2>0. 0..(IF raw THEN 0 ELSE Len(queued)) \subseteq 0..Len(queued)
    BY <1>0, LenProperties
  <2>1. PICK k \in 0..Len(queued) : delivered' = delivered \o SubSeq(queued, 1, k)
    BY <1>10, <2>0 DEF OtherEventFails
  <2>2. Calm /\ inCall /\ UNCHANGED pend /\ othersIn' = othersIn + 1 /\ queued' = <<>>
    BY <1>0, <1>10 DEF OtherEventFails, GiveUp, EmptyCall, Spend, Bounded, pendVars
  <2>3. Joins(delivered', delivered, queued, k)
    BY <1>0, <2>1, PrefixJoins
  <2>4. Flushed
    BY <1>0, <2>2, <2>3 DEF Flushed
  <2>. QED
    BY <2>2, <2>4 DEF QueueMoves
<1>11. CASE SynReport
  <2>1. Calm /\ inCall /\ UNCHANGED <<pend, othersIn>> /\ queued' = <<>>
    BY <1>0, <1>11 DEF SynReport, EmptyCall, Spend, Bounded, pendVars
  <2>2. Joins(delivered', delivered, queued, Len(queued))
    BY <1>0, <1>11, ConcatJoins DEF SynReport
  <2>3. Flushed
    BY <1>0, <2>1, <2>2 DEF Flushed
  <2>. QED
    BY <2>1, <2>3 DEF QueueMoves
<1>12. CASE SynReportFails
  <2>1. PICK k \in 0..Len(queued) : delivered' = delivered \o SubSeq(queued, 1, k)
    BY <1>12 DEF SynReportFails
  <2>2. Calm /\ inCall /\ UNCHANGED <<pend, othersIn>> /\ queued' = <<>>
    BY <1>0, <1>12 DEF SynReportFails, GiveUp, EmptyCall, Spend, Bounded, pendVars
  <2>3. Joins(delivered', delivered, queued, k)
    BY <1>0, <2>1, PrefixJoins
  <2>4. Flushed
    BY <1>0, <2>2, <2>3 DEF Flushed
  <2>. QED
    BY <2>2, <2>4 DEF QueueMoves
<1>13. CASE SynDropped
  <2>1. Parked
    BY <1>13, ParkMoves DEF SynDropped, FInv, Parked
  <2>2. spent'["drop"] # 0
    BY <1>0, <1>13 DEF SynDropped, Spend, Bounded
  <2>. QED
    BY <2>1, <2>2 DEF QueueMoves
<1>14. CASE SwitchProfile
  <2>1. Kept
    BY <1>0, <1>14 DEF SwitchProfile, callVars, pendVars, otherVars, Kept
  <2>2. spent'["switch"] # 0
    BY <1>0, <1>14 DEF SwitchProfile, Spend, Bounded
  <2>. QED
    BY <2>1, <2>2 DEF QueueMoves
<1>15. CASE Reopen
  BY <1>15 DEF Reopen, callVars, Dropped, QueueMoves
<1>16. CASE UNCHANGED vars
  <2>1. Kept /\ Stays /\ Calm
    BY <1>0, <1>16 DEF vars, callVars, pendVars, otherVars, Kept
  <2>. QED
    BY <2>1 DEF QueueMoves
<1>. QED
  BY <1>1, <1>2, <1>3, <1>4, <1>5, <1>6, <1>7, <1>8, <1>9, <1>10, <1>11, <1>12, <1>13, <1>14, <1>15,
     <1>16 DEF Next

LEMMA UpToGrows ==
  ASSUME NEW s \in Seq(Nat), NEW n \in Nat, NEW m \in Nat, m >= n, UpTo(s, n)
  PROVE  UpTo(s, m)
<1>1. \A i \in 1..Len(s) : s[i] \in Nat
  BY ElementOfSeq
<1>. QED
  BY <1>1 DEF UpTo

\* No move leaves an event in two places.
LEMMA OnceStep ==
  ASSUME FInv, OnceInv, QueueMoves
  PROVE  OnceInv'
<1>0. /\ delivered \in Seq(Nat) /\ queued \in Seq(Nat) /\ pend \in Seq(Nat) /\ othersIn \in Nat
  BY DEF FInv, TypeOK, QueueTypes, CountTypes
<1>1. /\ Distinct(delivered) /\ Distinct(queued) /\ Distinct(pend)
      /\ Apart(delivered, queued) /\ Apart(delivered, pend) /\ Apart(queued, pend)
      /\ UpTo(delivered, othersIn) /\ UpTo(queued, othersIn) /\ UpTo(pend, othersIn)
  BY DEF OnceInv
<1>2. ASSUME othersIn' \in Nat, othersIn' >= othersIn
      PROVE  UpTo(delivered, othersIn') /\ UpTo(queued, othersIn') /\ UpTo(pend, othersIn')
  BY <1>0, <1>1, <1>2, UpToGrows
<1>3. CASE Kept
  BY <1>1, <1>2, <1>3 DEF Kept, OnceInv
<1>4. CASE Merged
  BY <1>1, <1>4, EmptyFacts DEF Merged, OnceInv
<1>5. CASE Parked
  <2>1. PICK k : Joins(pend', pend, queued, k)
    BY <1>5 DEF Parked
  <2>2. Apart(pend, queued) /\ Apart(pend, delivered) /\ Apart(queued, delivered)
    BY <1>1, ApartSymmetric
  <2>3. Distinct(pend') /\ UpTo(pend', othersIn)
    BY <1>1, <2>1, <2>2, JoinDistinct, JoinUpTo
  <2>4. Apart(delivered, pend')
    BY <2>1, <2>2, JoinApart, ApartSymmetric
  <2>. QED
    BY <1>1, <1>5, <2>3, <2>4, EmptyFacts DEF Parked, OnceInv
<1>6. CASE Flushed
  <2>1. PICK k : Joins(delivered', delivered, queued, k)
    BY <1>6 DEF Flushed
  <2>2. UpTo(delivered, othersIn') /\ UpTo(queued, othersIn') /\ UpTo(pend, othersIn')
    BY <1>2, <1>6 DEF Flushed
  <2>3. Distinct(delivered') /\ UpTo(delivered', othersIn')
    BY <1>1, <2>1, <2>2, JoinDistinct, JoinUpTo
  <2>4. Apart(delivered', pend)
    BY <1>1, <2>1, JoinApart
  <2>. QED
    BY <1>1, <1>6, <2>2, <2>3, <2>4, EmptyFacts DEF Flushed, OnceInv
<1>7. CASE Written
  <2>. DEFINE n == <<othersIn + 1>>
  <2>1. /\ Distinct(n) /\ UpTo(n, othersIn + 1) /\ Apart(delivered, n) /\ Apart(queued, n) /\ Apart(pend, n)
        /\ UpTo(delivered, othersIn + 1) /\ UpTo(queued, othersIn + 1) /\ UpTo(pend, othersIn + 1)
    BY <1>0, <1>1, NewFacts
  <2>2. Joins(delivered', delivered, n, 1)
    BY <1>7 DEF Written
  <2>. HIDE DEF n
  <2>3. Apart(n, queued) /\ Apart(n, pend)
    BY <2>1, ApartSymmetric
  <2>4. Distinct(delivered') /\ UpTo(delivered', othersIn + 1)
    BY <1>1, <2>1, <2>2, JoinDistinct, JoinUpTo
  <2>5. Apart(delivered', queued) /\ Apart(delivered', pend)
    BY <1>1, <2>2, <2>3, JoinApart
  <2>. QED
    BY <1>1, <1>7, <2>1, <2>4, <2>5 DEF Written, OnceInv
<1>8. CASE Enqueued
  <2>. DEFINE n == <<othersIn + 1>>
  <2>1. /\ Distinct(n) /\ UpTo(n, othersIn + 1) /\ Apart(delivered, n) /\ Apart(queued, n) /\ Apart(pend, n)
        /\ UpTo(delivered, othersIn + 1) /\ UpTo(queued, othersIn + 1) /\ UpTo(pend, othersIn + 1)
    BY <1>0, <1>1, NewFacts
  <2>2. Joins(queued', queued, n, 1)
    BY <1>8 DEF Enqueued
  <2>. HIDE DEF n
  <2>3. Apart(n, delivered) /\ Apart(n, pend) /\ Apart(queued, delivered)
    BY <1>1, <2>1, ApartSymmetric
  <2>4. Distinct(queued') /\ UpTo(queued', othersIn + 1)
    BY <1>1, <2>1, <2>2, JoinDistinct, JoinUpTo
  <2>5. Apart(queued', delivered) /\ Apart(queued', pend)
    BY <1>1, <2>2, <2>3, JoinApart
  <2>6. Apart(delivered, queued')
    BY <2>5, ApartSymmetric
  <2>. QED
    BY <1>1, <1>8, <2>1, <2>4, <2>5, <2>6 DEF Enqueued, OnceInv
<1>9. CASE Overflowed
  <2>. DEFINE n == <<othersIn + 1>>
  <2>1. /\ Distinct(n) /\ UpTo(n, othersIn + 1) /\ Apart(delivered, n) /\ Apart(queued, n) /\ Apart(pend, n)
        /\ UpTo(delivered, othersIn + 1) /\ UpTo(queued, othersIn + 1) /\ UpTo(pend, othersIn + 1)
    BY <1>0, <1>1, NewFacts
  <2>2. PICK q, k : Joins(q, queued, n, 1) /\ Joins(delivered', delivered, q, k)
    BY <1>9 DEF Overflowed
  <2>. HIDE DEF n
  <2>3. Apart(n, delivered) /\ Apart(n, pend) /\ Apart(queued, delivered)
    BY <1>1, <2>1, ApartSymmetric
  <2>4. Distinct(q) /\ UpTo(q, othersIn + 1)
    BY <1>1, <2>1, <2>2, JoinDistinct, JoinUpTo
  <2>5. Apart(q, delivered) /\ Apart(q, pend)
    BY <1>1, <2>2, <2>3, JoinApart
  <2>6. Apart(delivered, q)
    BY <2>5, ApartSymmetric
  <2>7. Distinct(delivered') /\ UpTo(delivered', othersIn + 1)
    BY <1>1, <2>1, <2>2, <2>4, <2>6, JoinDistinct, JoinUpTo
  <2>8. Apart(delivered', pend)
    BY <1>1, <2>2, <2>5, JoinApart
  <2>. QED
    BY <1>1, <1>9, <2>1, <2>7, <2>8, EmptyFacts DEF Overflowed, OnceInv
<1>10. CASE Dropped
  BY <1>1, <1>10, EmptyFacts DEF Dropped, OnceInv
<1>. QED
  BY <1>3, <1>4, <1>5, <1>6, <1>7, <1>8, <1>9, <1>10 DEF QueueMoves

LEMMA OrderStep ==
  ASSUME FInv, OnceInv, OrderInv, [Next]_vars
  PROVE  OrderInv'
<1>. SUFFICES ASSUME spent'["drop"] = 0, spent'["switch"] = 0
              PROVE  /\ raw' => queued' = <<>> /\ pend' = <<>>
                     /\ inCall' => pend' = <<>>
                     /\ Sorted(delivered') /\ Sorted(queued') /\ Sorted(pend')
                     /\ Below(delivered', queued') /\ Below(delivered', pend')
  BY DEF OrderInv
<1>0. /\ delivered \in Seq(Nat) /\ queued \in Seq(Nat) /\ pend \in Seq(Nat) /\ othersIn \in Nat
      /\ UpTo(delivered, othersIn) /\ UpTo(queued, othersIn)
  BY DEF FInv, TypeOK, QueueTypes, CountTypes, OnceInv
<1>1. /\ raw' = raw
      /\ \/ Kept /\ (inCall' => inCall)
         \/ Merged
         \/ Parked /\ inCall /\ ~inCall'
         \/ Flushed /\ inCall
         \/ Written /\ (inCall' => inCall) /\ raw
         \/ Enqueued /\ (inCall' => inCall) /\ ~raw
         \/ Overflowed /\ inCall
         \/ Dropped
  BY StepMoves
<1>2. /\ raw => queued = <<>> /\ pend = <<>>
      /\ inCall => pend = <<>>
      /\ Sorted(delivered) /\ Sorted(queued) /\ Sorted(pend)
      /\ Below(delivered, queued) /\ Below(delivered, pend)
  BY StepMoves DEF OrderInv
<1>n. /\ Sorted(<<othersIn + 1>>) /\ Below(delivered, <<othersIn + 1>>) /\ Below(queued, <<othersIn + 1>>)
  BY <1>0, NewFacts
<1>3. CASE Kept /\ (inCall' => inCall)
  BY <1>1, <1>2, <1>3 DEF Kept
<1>4. CASE Merged
  BY <1>1, <1>2, <1>4, EmptyFacts DEF Merged
<1>5. CASE Parked /\ inCall /\ ~inCall'
  <2>1. PICK k : Joins(pend', <<>>, queued, k)
    BY <1>2, <1>5 DEF Parked
  <2>2. Sorted(pend') /\ Below(delivered, pend')
    BY <1>2, <2>1, EmptyFacts, JoinSorted, BelowJoin
  <2>3. ASSUME raw PROVE pend' = <<>>
    <3>1. k \in 0..Len(<<>>) /\ pend' \in Seq(Nat) /\ Len(pend') = Len(<<>>) + k
      BY <1>2, <2>1, <2>3 DEF Joins
    <3>. QED
      BY <3>1, EmptySeq
  <2>. QED
    BY <1>1, <1>2, <1>5, <2>2, <2>3, EmptyFacts DEF Parked
<1>6. CASE Flushed /\ inCall
  <2>1. PICK k : Joins(delivered', delivered, queued, k)
    BY <1>6 DEF Flushed
  <2>2. Sorted(delivered')
    BY <1>2, <2>1, JoinSorted
  <2>. QED
    BY <1>1, <1>2, <1>6, <2>2, EmptyFacts DEF Flushed
<1>7. CASE Written /\ (inCall' => inCall) /\ raw
  <2>1. Sorted(delivered')
    BY <1>2, <1>7, <1>n, JoinSorted DEF Written
  <2>. QED
    BY <1>1, <1>2, <1>7, <2>1, EmptyFacts DEF Written
<1>8. CASE Enqueued /\ (inCall' => inCall) /\ ~raw
  <2>1. Sorted(queued') /\ Below(delivered, queued')
    BY <1>2, <1>8, <1>n, JoinSorted, BelowJoin DEF Enqueued
  <2>. QED
    BY <1>1, <1>2, <1>8, <2>1 DEF Enqueued
<1>9. CASE Overflowed /\ inCall
  <2>1. PICK q, k : Joins(q, queued, <<othersIn + 1>>, 1) /\ Joins(delivered', delivered, q, k)
    BY <1>9 DEF Overflowed
  <2>2. Sorted(q) /\ Below(delivered, q)
    BY <1>2, <1>n, <2>1, JoinSorted, BelowJoin
  <2>3. Sorted(delivered')
    BY <1>2, <2>1, <2>2, JoinSorted
  <2>. QED
    BY <1>1, <1>2, <1>9, <2>3, EmptyFacts DEF Overflowed
<1>10. CASE Dropped
  BY <1>1, <1>2, <1>10, EmptyFacts DEF Dropped
<1>. QED
  BY <1>1, <1>3, <1>4, <1>5, <1>6, <1>7, <1>8, <1>9, <1>10

\* What the invariant says about the three queues one after the other.
LEMMA OnceIsNothingTwice ==
  ASSUME FInv, OnceInv
  PROVE  NothingTwice
<1>. DEFINE a == delivered \o queued
<1>0. /\ delivered \in Seq(Nat) /\ queued \in Seq(Nat) /\ pend \in Seq(Nat)
  BY DEF FInv, TypeOK, QueueTypes
<1>1. Joins(a, delivered, queued, Len(queued))
  BY <1>0, ConcatJoins
<1>2. a \in Seq(Nat)
  BY <1>0, ConcatProperties
<1>. HIDE DEF a
<1>3. Distinct(a) /\ Apart(a, pend)
  BY <1>1, JoinDistinct, JoinApart DEF OnceInv
<1>4. Joins(a \o pend, a, pend, Len(pend))
  BY <1>0, <1>2, ConcatJoins
<1>5. Distinct(a \o pend)
  BY <1>3, <1>4, JoinDistinct DEF OnceInv
<1>. QED
  BY <1>5 DEF Distinct, NothingTwice, a

\* No button or wheel step is written twice, whatever batches, full arrays,
\* dropped windows, profile changes and failed writes do to the frames; and
\* without dropped windows and profile changes they leave in the order they came.
THEOREM OrderIsKept == Spec => []OrderKept
<1>1. Init => OnceInv /\ OrderInv
  <2>1. ASSUME Init PROVE OnceInv /\ OrderInv
    BY <2>1, EmptyFacts DEF Init, OnceInv, OrderInv
  <2>. QED
    BY <2>1
<1>2. FInv /\ OnceInv /\ OrderInv /\ [Next]_vars => (OnceInv /\ OrderInv)'
  <2>1. ASSUME FInv, OnceInv, OrderInv, [Next]_vars PROVE OnceInv' /\ OrderInv'
    BY <2>1, StepMoves, OnceStep, OrderStep
  <2>. QED
    BY <2>1
<1>3. FInv /\ OnceInv /\ OrderInv => OrderKept
  BY OnceIsNothingTwice DEF OrderKept, OrderInv, Sorted
<1>. QED
  BY FInvHolds, <1>1, <1>2, <1>3, PTL DEF Spec

-----------------------------------------------------------------------------
(* The sample of the last motion: the generation counter protects the      *)
(* reader from flush_motion.                                               *)

\* The counter is even exactly when nothing is being written, and then the
\* payload is a published one or there is none.
WriterInv ==
  /\ writer = "idle" <=> samples % 2 = 0
  /\ writer = "idle" => wtodo = {}
  /\ writer = "idle" /\ samples # 0 => payload \in published

\* As long as the counter keeps the value of the first load and no reset has
\* been completed, what has been loaded is what is there.
ReaderInv ==
  /\ since <= resets
  /\ reader = "load" =>
       /\ s1 % 2 = 0 /\ s1 # 0
       /\ since = resets => s1 <= samples
       /\ since = resets /\ samples = s1 => \A f \in Fields \ rtodo : got[f] = payload[f]
  /\ reader = "load" => spins < MaxSpins
  /\ rtodo # {} => reader = "load"
  /\ reader \in {"try", "load"} => ~telem_ok
  /\ Reported /\ whole => got \in published

\* Nothing older than the last completed reset is left in the payload.
FreshInv ==
  /\ floor <= resetAt /\ resetAt <= flushes
  /\ writer = "flush" => resetAt < flushes
  /\ writer = "reset" => \A f \in Fields \ wtodo : payload[f] = 0
  /\ \A f \in Fields : payload[f] = 0 \/ payload[f] > resetAt
  /\ reader = "load" => \A f \in Fields \ rtodo : got[f] = 0 \/ got[f] > floor
  /\ Reported => \A f \in Fields : got[f] = 0 \/ got[f] > floor

SampleInv == TelemetryTypeOK /\ WriterInv /\ ReaderInv /\ FreshInv

LEMMA Parity ==
  ASSUME NEW n \in Nat
  PROVE  n % 2 \in {0, 1} /\ (n % 2 = 0 <=> (n + 1) % 2 # 0)
OBVIOUS

LEMMA SampleInvInit == TelemetryInit => SampleInv
<1> SUFFICES ASSUME TelemetryInit
             PROVE  SampleInv
  OBVIOUS
<1>1. Cleared \in Sample /\ \A f \in Fields : Cleared[f] = 0
  BY DEF Cleared, Sample
<1>2. rawProfile \in BOOLEAN /\ telem_ok \in BOOLEAN /\ whole \in BOOLEAN /\ ~telem_ok
  BY Zenon DEF TelemetryInit
<1>3. TelemetryTypeOK
  BY <1>1, <1>2, TelemetryAssumption DEF TelemetryInit, TelemetryTypeOK
<1>4. WriterInv
  BY DEF TelemetryInit, WriterInv
<1>5. ReaderInv
  BY <1>2 DEF TelemetryInit, ReaderInv, Reported
<1>6. FreshInv
  BY <1>1, <1>2 DEF TelemetryInit, FreshInv, Reported
<1> QED BY <1>3, <1>4, <1>5, <1>6 DEF SampleInv

LEMMA WriterType ==
  ASSUME TelemetryTypeOK, WriterStep
  PROVE  TelemetryTypeOK'
<1> USE TelemetryAssumption
<1>1. CASE FlushBegin
  BY <1>1 DEF TelemetryTypeOK, FlushBegin, readerVars
<1>2. CASE FlushEnd
  BY <1>2 DEF TelemetryTypeOK, FlushEnd, readerVars
<1>3. CASE ResetBegin
  BY <1>3 DEF TelemetryTypeOK, ResetBegin, readerVars
<1>4. CASE ResetEnd
  BY <1>4 DEF TelemetryTypeOK, ResetEnd, readerVars
<1>5. ASSUME NEW f \in Fields, Store(f)
      PROVE  TelemetryTypeOK'
  BY <1>5 DEF TelemetryTypeOK, Store, readerVars, Sample
<1> QED BY <1>1, <1>2, <1>3, <1>4, <1>5 DEF WriterStep

LEMMA ReaderType ==
  ASSUME TelemetryTypeOK, ReaderInv, ReaderStep
  PROVE  TelemetryTypeOK'
<1> USE TelemetryAssumption
<1>0. CASE StatusBegin
  <2>1. telem_ok' \in BOOLEAN
    BY <1>0, Zenon DEF StatusBegin
  <2> QED BY <1>0, <2>1 DEF TelemetryTypeOK, StatusBegin, writerVars
<1>1. CASE ReadGivesUp \/ Report
  BY <1>1 DEF TelemetryTypeOK, ReadGivesUp, Report, writerVars
<1>2. CASE Spin
  BY <1>2 DEF TelemetryTypeOK, Spin, writerVars
<1>3. CASE LoadFirst
  BY <1>3 DEF TelemetryTypeOK, LoadFirst, writerVars
<1>4. CASE LoadSecond
  <2>1. telem_ok' \in BOOLEAN /\ whole' \in BOOLEAN
    BY <1>4 DEF TelemetryTypeOK, LoadSecond
  <2>2. spins' \in 0..MaxSpins
    BY <1>4 DEF TelemetryTypeOK, LoadSecond, ReaderInv
  <2> QED BY <1>4, <2>1, <2>2 DEF TelemetryTypeOK, LoadSecond, writerVars
<1>5. ASSUME NEW f \in Fields, Load(f)
      PROVE  TelemetryTypeOK'
  BY <1>5 DEF TelemetryTypeOK, Load, writerVars, Sample
<1> QED BY <1>0, <1>1, <1>2, <1>3, <1>4, <1>5 DEF ReaderStep

\* flush_motion and apply_profile keep the counter odd while they write.
LEMMA WriterKeeps ==
  ASSUME TelemetryTypeOK, WriterInv, WriterStep
  PROVE  WriterInv'
<1>1. /\ samples \in Nat /\ samples % 2 \in {0, 1} /\ (samples % 2 = 0 <=> (samples + 1) % 2 # 0)
      /\ (samples + 1) % 2 \in {0, 1} /\ 0 % 2 = 0
  BY Parity DEF TelemetryTypeOK
<1>2. CASE FlushBegin
  BY <1>1, <1>2 DEF WriterInv, FlushBegin
<1>3. CASE FlushEnd
  BY <1>1, <1>3 DEF WriterInv, FlushEnd
<1>4. CASE ResetBegin
  BY <1>1, <1>4 DEF WriterInv, ResetBegin
<1>5. CASE ResetEnd
  BY <1>1, <1>5 DEF WriterInv, ResetEnd
<1>6. ASSUME NEW f \in Fields, Store(f)
      PROVE  WriterInv'
  BY <1>6 DEF WriterInv, Store
<1> QED BY <1>2, <1>3, <1>4, <1>5, <1>6 DEF WriterStep

\* A step of the writer moves the counter away from the reader's value for
\* good, or completes a reset.
LEMMA WriterKeepsReader ==
  ASSUME TelemetryTypeOK, WriterInv, ReaderInv, WriterStep
  PROVE  ReaderInv'
<1>0. UNCHANGED readerVars
  BY DEF WriterStep, FlushBegin, FlushEnd, ResetBegin, ResetEnd, Store
<1>1. /\ samples \in Nat /\ resets \in Nat /\ since \in Nat /\ s1 \in Nat
      /\ samples % 2 = 0 <=> (samples + 1) % 2 # 0
  BY Parity DEF TelemetryTypeOK
<1>2. published \subseteq published'
  BY DEF WriterStep, FlushBegin, FlushEnd, ResetBegin, ResetEnd, Store
<1>3. CASE FlushBegin \/ FlushEnd \/ ResetBegin
  <2>1. samples' = samples + 1 /\ UNCHANGED <<payload, resets>>
    BY <1>3 DEF FlushBegin, FlushEnd, ResetBegin
  <2> QED BY <1>0, <1>1, <1>2, <2>1 DEF ReaderInv, Reported, readerVars
<1>4. CASE ResetEnd
  <2>1. resets' = resets + 1
    BY <1>4 DEF ResetEnd
  <2> QED BY <1>0, <1>1, <1>2, <2>1 DEF ReaderInv, Reported, readerVars
<1>5. ASSUME NEW f \in Fields, Store(f)
      PROVE  ReaderInv'
  <2>1. samples % 2 # 0 /\ UNCHANGED <<samples, resets>>
    BY <1>5 DEF WriterInv, Store
  <2>2. reader = "load" => samples # s1
    BY <2>1 DEF ReaderInv
  <2> QED BY <1>0, <1>1, <1>2, <2>1, <2>2 DEF ReaderInv, Reported, readerVars
<1> QED BY <1>3, <1>4, <1>5 DEF WriterStep

\* An unchanged counter means that the sample is the published one.
LEMMA ReaderKeeps ==
  ASSUME TelemetryTypeOK, WriterInv, ReaderInv, ReaderStep
  PROVE  WriterInv' /\ ReaderInv'
<1>0. UNCHANGED writerVars
  BY DEF ReaderStep, StatusBegin, ReadGivesUp, Spin, LoadFirst, LoadSecond, Report, Load
<1>1. WriterInv'
  BY <1>0 DEF WriterInv, writerVars
<1>2. CASE StatusBegin
  BY <1>0, <1>1, <1>2 DEF ReaderInv, StatusBegin, Reported, writerVars
<1>3. CASE ReadGivesUp
  BY <1>0, <1>1, <1>3 DEF ReaderInv, ReadGivesUp, Reported, writerVars
<1>4. CASE Spin \/ Report
  BY <1>0, <1>1, <1>4 DEF ReaderInv, Spin, Report, Reported, writerVars
<1>5. CASE LoadFirst
  BY <1>0, <1>1, <1>5 DEF ReaderInv, LoadFirst, Reported, TelemetryTypeOK, writerVars
<1>6. CASE LoadSecond
  <2>1. CASE samples = s1
    <3>1. since = resets => got \in published
      <4> SUFFICES ASSUME since = resets
                   PROVE  got \in published
        OBVIOUS
      <4>1. \A f \in Fields : got[f] = payload[f]
        BY <1>6, <2>1 DEF LoadSecond, ReaderInv
      <4>2. got = payload
        BY <4>1 DEF TelemetryTypeOK, Sample
      <4>3. samples % 2 = 0 /\ samples # 0
        BY <1>6, <2>1 DEF LoadSecond, ReaderInv
      <4> QED BY <4>2, <4>3 DEF WriterInv
    <3> QED BY <1>0, <1>1, <1>6, <2>1, <3>1 DEF LoadSecond, ReaderInv, Reported, writerVars
  <2>2. CASE samples # s1
    BY <1>0, <1>1, <1>6, <2>2 DEF LoadSecond, ReaderInv, Reported, writerVars
  <2> QED BY <2>1, <2>2
<1>7. ASSUME NEW f \in Fields, Load(f)
      PROVE  ReaderInv'
  <2>1. reader = "load" /\ got' = [got EXCEPT ![f] = payload[f]] /\ rtodo' = rtodo \ {f}
        /\ UNCHANGED <<reader, spins, s1, telem_ok, since, whole>>
    BY <1>7 DEF Load, ReaderInv
  <2>2. got'[f] = payload[f] /\ \A g \in Fields \ {f} : got'[g] = got[g]
    BY <2>1 DEF TelemetryTypeOK, Sample
  <2> QED BY <1>0, <2>1, <2>2 DEF ReaderInv, Reported, writerVars
<1> QED BY <1>1, <1>2, <1>3, <1>4, <1>5, <1>6, <1>7 DEF ReaderStep

LEMMA WriterKeepsFresh ==
  ASSUME TelemetryTypeOK, FreshInv, WriterStep
  PROVE  FreshInv'
<1>0. UNCHANGED readerVars
  BY DEF WriterStep, FlushBegin, FlushEnd, ResetBegin, ResetEnd, Store
<1>1. CASE FlushBegin \/ FlushEnd \/ ResetBegin
  BY <1>0, <1>1 DEF FreshInv, FlushBegin, FlushEnd, ResetBegin, Reported, TelemetryTypeOK, readerVars
<1>2. CASE ResetEnd
  BY <1>0, <1>2 DEF FreshInv, ResetEnd, Reported, TelemetryTypeOK, readerVars
<1>3. ASSUME NEW f \in Fields, Store(f)
      PROVE  FreshInv'
  <2>1. /\ payload' = [payload EXCEPT ![f] = IF writer = "flush" THEN flushes ELSE 0]
        /\ wtodo' = wtodo \ {f} /\ UNCHANGED <<writer, flushes, resetAt>>
    BY <1>3 DEF Store
  <2>2. /\ payload'[f] = (IF writer = "flush" THEN flushes ELSE 0)
        /\ \A g \in Fields \ {f} : payload'[g] = payload[g]
    BY <2>1 DEF TelemetryTypeOK, Sample
  <2> QED BY <1>0, <2>1, <2>2 DEF FreshInv, Reported, readerVars
<1> QED BY <1>1, <1>2, <1>3 DEF WriterStep

LEMMA ReaderKeepsFresh ==
  ASSUME TelemetryTypeOK, ReaderInv, FreshInv, ReaderStep
  PROVE  FreshInv'
<1>0. UNCHANGED writerVars
  BY DEF ReaderStep, StatusBegin, ReadGivesUp, Spin, LoadFirst, LoadSecond, Report, Load
<1>1. CASE StatusBegin \/ ReadGivesUp \/ Spin \/ Report
  BY <1>0, <1>1 DEF FreshInv, ReaderInv, StatusBegin, ReadGivesUp, Spin, Report, Reported, writerVars
<1>2. CASE LoadFirst
  BY <1>0, <1>2 DEF FreshInv, LoadFirst, Reported, TelemetryTypeOK, writerVars
<1>3. CASE LoadSecond
  BY <1>0, <1>3 DEF FreshInv, LoadSecond, Reported, writerVars
<1>4. ASSUME NEW f \in Fields, Load(f)
      PROVE  FreshInv'
  <2>1. /\ got' = [got EXCEPT ![f] = payload[f]] /\ rtodo' = rtodo \ {f} /\ reader = "load"
        /\ UNCHANGED <<reader, telem_ok, floor>>
    BY <1>4 DEF Load, ReaderInv
  <2>2. got'[f] = payload[f] /\ \A g \in Fields \ {f} : got'[g] = got[g]
    BY <2>1 DEF TelemetryTypeOK, Sample
  <2>3. payload[f] \in Nat /\ floor \in Nat /\ resetAt \in Nat
    BY DEF TelemetryTypeOK, Sample
  <2> QED BY <1>0, <2>1, <2>2, <2>3 DEF FreshInv, Reported, writerVars
<1> QED BY <1>1, <1>2, <1>3, <1>4 DEF ReaderStep

LEMMA SampleInvStep == SampleInv /\ [TelemetryNext]_telemetryVars => SampleInv'
<1> SUFFICES ASSUME SampleInv, [TelemetryNext]_telemetryVars
             PROVE  SampleInv'
  OBVIOUS
<1>1. CASE WriterStep
  BY <1>1, WriterType, WriterKeeps, WriterKeepsReader, WriterKeepsFresh DEF SampleInv
<1>2. CASE ReaderStep
  BY <1>2, ReaderType, ReaderKeeps, ReaderKeepsFresh DEF SampleInv
<1>3. CASE UNCHANGED telemetryVars
  BY <1>3 DEF telemetryVars, writerVars, readerVars, SampleInv, TelemetryTypeOK, WriterInv, ReaderInv, FreshInv, Reported
<1> QED BY <1>1, <1>2, <1>3 DEF TelemetryNext

LEMMA SampleInvAlways == TelemetrySpec => []SampleInv
BY SampleInvInit, SampleInvStep, PTL DEF TelemetrySpec

\* The types hold and status_json makes a bounded number of attempts.
THEOREM TelemetryTypeCorrect == TelemetrySpec => []TelemetryTypeOK
<1>1. SampleInv => TelemetryTypeOK
  BY DEF SampleInv
<1> QED BY <1>1, SampleInvAlways, PTL

\* status_json reports only samples that flush_motion wrote as a whole, unless
\* apply_profile set the counter back to 0 during the read.
THEOREM SamplesAreWhole == TelemetrySpec => []WholeSample
<1>1. SampleInv => WholeSample
  BY DEF SampleInv, ReaderInv, WholeSample
<1> QED BY <1>1, SampleInvAlways, PTL

\* TEL-1: no field of a reported sample is from before the last profile apply
\* that was complete when status_json began to read it.
THEOREM NothingIsStale == TelemetrySpec => []NothingStale
<1>1. SampleInv => NothingStale
  BY DEF SampleInv, FreshInv, NothingStale
<1> QED BY <1>1, SampleInvAlways, PTL

\* Both promises of a read together.
THEOREM ReadsAreSound == TelemetrySpec => []ReadIsSound
<1> QED BY SamplesAreWhole, NothingIsStale, PTL DEF ReadIsSound
=============================================================================
