-------------------------- MODULE ConfigPushProofs --------------------------
(***************************************************************************)
(* Proofs about the push pipeline, for every set of configs and every      *)
(* bound.  One lemma per part of the inductive invariant, one step per     *)
(* action of ConfigPush.                                                   *)
(***************************************************************************)
EXTENDS ConfigPush, SequenceTheorems, TLAPS

\* Every number still on its way was accepted, and none is ahead of the
\* counter.
Accepted ==
  /\ viaPush <= enqueued /\ enqueued < nextId
  /\ Armed => slot.id <= enqueued
  /\ InFlight => job.id <= enqueued
  /\ \A i \in 1..Len(saveQ) : saveQ[i].id <= enqueued

\* Between Reboot and Start no thread is running.
BootInv == mainPc = "boot" => loopPc = "none" /\ savePc = "none"

OrderInv == PipelineOrdered /\ Accepted /\ BootInv

\* PersistBeforeApply, with the stages that feed the slot and the config.
PersistInv ==
  /\ PersistBeforeApply
  /\ 0 \in persisted
  /\ disk.id \in persisted
  /\ savePc = "arm" => job.id \in persisted
  /\ loopPc = "loaded" => loaded.id \in persisted

\* DrainedQueueIsOnDisk, with what each stage owes to the next: the newest
\* accepted push is in the queue, or being written, or on disk.
DiskInv ==
  used["fault"] = 0 =>
    /\ viaPush <= disk.id
    /\ Armed => slot.id <= disk.id
    /\ savePc = "arm" => job.id <= disk.id
    /\ \A i \in 1..Len(saveQ) : saveQ[i].id = enqueued
    /\ saveQ = <<>> /\ savePc = "write" => job.id = enqueued
    /\ saveQ = <<>> /\ savePc # "write" => enqueued <= disk.id

Inv == TypeOK /\ OrderInv /\ PersistInv /\ DiskInv

-----------------------------------------------------------------------------
(* Lemmas *)

\* Spending one unit of a bound keeps the type of the counters.
LEMMA SpendType ==
  ASSUME used \in [Bounded -> Nat], NEW what \in Bounded, NEW max, Spend(what, max)
  PROVE  used' \in [Bounded -> Nat]
BY DEF Spend

\* A counter that is spent was not at zero faults afterwards.
LEMMA SpendFault ==
  ASSUME used \in [Bounded -> Nat], NEW max, Spend("fault", max)
  PROVE  used'["fault"] # 0
BY DEF Spend, Bounded

\* Spending another bound leaves the number of faults alone.
LEMMA SpendOther ==
  ASSUME used \in [Bounded -> Nat], NEW what \in Bounded \ {"fault"}, NEW max, Spend(what, max)
  PROVE  used'["fault"] = used["fault"]
BY DEF Spend, Bounded

\* What save_worker finds at the front of a queue of at most one config.
LEMMA FrontOfQueue ==
  ASSUME NEW q \in Seq(Item), Len(q) <= 1, q # <<>>
  PROVE  /\ Len(q) = 1 /\ Head(q) = q[1] /\ Head(q) \in Item
         /\ Tail(q) = <<>>
<1>1. Len(q) \in Nat \ {0}
  BY EmptySeq
<1>2. Head(q) \in Item /\ Tail(q) \in Seq(Item) /\ Len(Tail(q)) = Len(q) - 1
  BY HeadTailProperties
<1>3. Len(q) = 1 /\ Len(Tail(q)) = 0
  BY <1>1, <1>2
<1>4. Tail(q) = <<>>
  BY <1>2, <1>3, EmptySeq
<1>5. Head(q) = q[1]
  BY <1>1
<1>6. QED
  BY <1>2, <1>3, <1>4, <1>5

\* One step keeps the types of the flags.
LEMMA FlagStep ==
  ASSUME FlagTypes, [Next]_vars
  PROVE  FlagTypes'
<1> USE DEF FlagTypes
<1>1. CASE Start
  BY <1>1 DEF Start, Spend, Factory, ipcVars, slotVars, histVars
<1>2. CASE MainSeesStop
  BY <1>2 DEF MainSeesStop, ipcVars, saveVars, loopVars, slotVars, histVars
<1>3. CASE MainJoins
  BY <1>3 DEF MainJoins, ipcVars, saveVars, loopVars, slotVars, histVars
<1>4. CASE PushSnapshot
  BY <1>4 DEF PushSnapshot, PushMutexFree, mainVars, saveVars, loopVars, slotVars, histVars
<1>5. CASE PushGuard
  BY <1>5 DEF PushGuard, NoOpPush, mainVars, saveVars, loopVars, slotVars
<1>6. CASE PushEnqueue
  BY <1>6 DEF PushEnqueue, mainVars, loopVars, slotVars
<1>7. CASE IpcExit
  BY <1>7 DEF IpcExit, mainVars, saveVars, loopVars, slotVars, histVars
<1>8. CASE SavePop
  BY <1>8 DEF SavePop, mainVars, ipcVars, loopVars, slotVars, histVars
<1>9. CASE SaveSeesEmpty
  BY <1>9 DEF SaveSeesEmpty, mainVars, ipcVars, loopVars, slotVars, histVars
<1>10. CASE SaveCheck
  BY <1>10 DEF SaveCheck, mainVars, ipcVars, loopVars, slotVars, histVars
<1>11. CASE SaveWrite
  BY <1>11 DEF SaveWrite, mainVars, ipcVars, loopVars, slotVars
<1>12. CASE SaveArm
  BY <1>12 DEF SaveArm, PushMutexFree, mainVars, ipcVars, loopVars, histVars
<1>13. CASE LoopExit
  BY <1>13 DEF LoopExit, mainVars, ipcVars, saveVars, slotVars, histVars
<1>14. CASE LoopApplyPush
  BY <1>14 DEF LoopApplyPush, mainVars, ipcVars, saveVars, slotVars
<1>15. CASE LoopClearPush
  BY <1>15 DEF LoopClearPush, mainVars, ipcVars, saveVars, histVars
<1>16. CASE LoopNoPush
  BY <1>16 DEF LoopNoPush, mainVars, ipcVars, saveVars, slotVars, histVars
<1>17. CASE LoopTakeReload
  BY <1>17 DEF LoopTakeReload, mainVars, ipcVars, saveVars, slotVars, histVars
<1>18. CASE LoopLoad
  BY <1>18 DEF LoopLoad, mainVars, ipcVars, saveVars, slotVars, histVars
<1>19. CASE LoopApplyLoaded
  BY <1>19 DEF LoopApplyLoaded, mainVars, ipcVars, saveVars, slotVars, histVars
<1>20. CASE RequestStop
  BY <1>20 DEF RequestStop, Spend, ipcVars, saveVars, loopVars, slotVars, histVars
<1>21. CASE RequestReload
  BY <1>21 DEF RequestReload, Spend, mainVars, ipcVars, saveVars, slotVars, histVars
<1>22. CASE Crash
  BY <1>22 DEF Crash, Spend, Reboot, Factory
<1>23. CASE Restart
  BY <1>23 DEF Restart, Reboot, Factory
<1>24. ASSUME NEW c \in Configs, PushCheck(c) PROVE FlagTypes'
  BY <1>24 DEF PushCheck, mainVars, saveVars, loopVars, slotVars, histVars
<1>25. ASSUME NEW c \in Configs, HandEdit(c) PROVE FlagTypes'
  BY <1>25 DEF HandEdit, Spend, mainVars, ipcVars, saveVars, loopVars, slotVars
<1>26. CASE PushMalformed
  BY <1>26 DEF PushMalformed, mainVars, saveVars, loopVars, slotVars, histVars
<1>27. CASE SaveFails
  BY <1>27 DEF SaveFails, Spend, mainVars, ipcVars, loopVars, slotVars, histVars
<1>28. CASE LoopPushThrows
  BY <1>28 DEF LoopPushThrows, Spend, mainVars, ipcVars, saveVars
<1>29. CASE LoopLoadFails
  BY <1>29 DEF LoopLoadFails, Spend, mainVars, ipcVars, saveVars, slotVars, histVars
<1>30. CASE UNCHANGED vars
  BY <1>30 DEF vars, mainVars, ipcVars, saveVars, loopVars, slotVars, histVars
<1>31. QED
  BY <1>1, <1>2, <1>3, <1>4, <1>5, <1>6, <1>7, <1>8, <1>9, <1>10, <1>11, <1>12, <1>13, <1>14, <1>15, <1>16, <1>17, <1>18, <1>19, <1>20, <1>21, <1>22, <1>23, <1>24, <1>25, <1>26, <1>27, <1>28, <1>29, <1>30
     DEF Next, Main, Ipc, Save, Loop, Environment

\* One step keeps every thread at one of its places.
LEMMA PlaceStep ==
  ASSUME PlaceTypes, [Next]_vars
  PROVE  PlaceTypes'
<1> USE DEF PlaceTypes
<1>1. CASE Start
  BY <1>1 DEF Start, Spend, Factory, ipcVars, slotVars, histVars
<1>2. CASE MainSeesStop
  BY <1>2 DEF MainSeesStop, ipcVars, saveVars, loopVars, slotVars, histVars
<1>3. CASE MainJoins
  BY <1>3 DEF MainJoins, ipcVars, saveVars, loopVars, slotVars, histVars
<1>4. CASE PushSnapshot
  BY <1>4 DEF PushSnapshot, PushMutexFree, mainVars, saveVars, loopVars, slotVars, histVars
<1>5. CASE PushGuard
  BY <1>5 DEF PushGuard, NoOpPush, mainVars, saveVars, loopVars, slotVars
<1>6. CASE PushEnqueue
  BY <1>6 DEF PushEnqueue, mainVars, loopVars, slotVars
<1>7. CASE IpcExit
  BY <1>7 DEF IpcExit, mainVars, saveVars, loopVars, slotVars, histVars
<1>8. CASE SavePop
  BY <1>8 DEF SavePop, mainVars, ipcVars, loopVars, slotVars, histVars
<1>9. CASE SaveSeesEmpty
  BY <1>9 DEF SaveSeesEmpty, mainVars, ipcVars, loopVars, slotVars, histVars
<1>10. CASE SaveCheck
  BY <1>10 DEF SaveCheck, mainVars, ipcVars, loopVars, slotVars, histVars
<1>11. CASE SaveWrite
  BY <1>11 DEF SaveWrite, mainVars, ipcVars, loopVars, slotVars
<1>12. CASE SaveArm
  BY <1>12 DEF SaveArm, PushMutexFree, mainVars, ipcVars, loopVars, histVars
<1>13. CASE LoopExit
  BY <1>13 DEF LoopExit, mainVars, ipcVars, saveVars, slotVars, histVars
<1>14. CASE LoopApplyPush
  BY <1>14 DEF LoopApplyPush, mainVars, ipcVars, saveVars, slotVars
<1>15. CASE LoopClearPush
  BY <1>15 DEF LoopClearPush, mainVars, ipcVars, saveVars, histVars
<1>16. CASE LoopNoPush
  BY <1>16 DEF LoopNoPush, mainVars, ipcVars, saveVars, slotVars, histVars
<1>17. CASE LoopTakeReload
  BY <1>17 DEF LoopTakeReload, mainVars, ipcVars, saveVars, slotVars, histVars
<1>18. CASE LoopLoad
  BY <1>18 DEF LoopLoad, mainVars, ipcVars, saveVars, slotVars, histVars
<1>19. CASE LoopApplyLoaded
  BY <1>19 DEF LoopApplyLoaded, mainVars, ipcVars, saveVars, slotVars, histVars
<1>20. CASE RequestStop
  BY <1>20 DEF RequestStop, Spend, ipcVars, saveVars, loopVars, slotVars, histVars
<1>21. CASE RequestReload
  BY <1>21 DEF RequestReload, Spend, mainVars, ipcVars, saveVars, slotVars, histVars
<1>22. CASE Crash
  BY <1>22 DEF Crash, Spend, Reboot, Factory
<1>23. CASE Restart
  BY <1>23 DEF Restart, Reboot, Factory
<1>24. ASSUME NEW c \in Configs, PushCheck(c) PROVE PlaceTypes'
  BY <1>24 DEF PushCheck, mainVars, saveVars, loopVars, slotVars, histVars
<1>25. ASSUME NEW c \in Configs, HandEdit(c) PROVE PlaceTypes'
  BY <1>25 DEF HandEdit, Spend, mainVars, ipcVars, saveVars, loopVars, slotVars
<1>26. CASE PushMalformed
  BY <1>26 DEF PushMalformed, mainVars, saveVars, loopVars, slotVars, histVars
<1>27. CASE SaveFails
  BY <1>27 DEF SaveFails, Spend, mainVars, ipcVars, loopVars, slotVars, histVars
<1>28. CASE LoopPushThrows
  BY <1>28 DEF LoopPushThrows, Spend, mainVars, ipcVars, saveVars
<1>29. CASE LoopLoadFails
  BY <1>29 DEF LoopLoadFails, Spend, mainVars, ipcVars, saveVars, slotVars, histVars
<1>30. CASE UNCHANGED vars
  BY <1>30 DEF vars, mainVars, ipcVars, saveVars, loopVars, slotVars, histVars
<1>31. QED
  BY <1>1, <1>2, <1>3, <1>4, <1>5, <1>6, <1>7, <1>8, <1>9, <1>10, <1>11, <1>12, <1>13, <1>14, <1>15, <1>16, <1>17, <1>18, <1>19, <1>20, <1>21, <1>22, <1>23, <1>24, <1>25, <1>26, <1>27, <1>28, <1>29, <1>30
     DEF Next, Main, Ipc, Save, Loop, Environment

\* One step keeps the configs configs and the queue short.
LEMMA ItemStep ==
  ASSUME ItemTypes, CountTypes, [Next]_vars
  PROVE  ItemTypes'
<1> USE ConstantsAssumption DEF ItemTypes, Item
<1>1. CASE Start
  BY <1>1 DEF Start, Spend, Factory, ipcVars, slotVars, histVars
<1>2. CASE MainSeesStop
  BY <1>2 DEF MainSeesStop, ipcVars, saveVars, loopVars, slotVars, histVars
<1>3. CASE MainJoins
  BY <1>3 DEF MainJoins, ipcVars, saveVars, loopVars, slotVars, histVars
<1>4. CASE PushSnapshot
  BY <1>4 DEF PushSnapshot, PushMutexFree, mainVars, saveVars, loopVars, slotVars, histVars
<1>5. CASE PushGuard
  BY <1>5 DEF PushGuard, NoOpPush, mainVars, saveVars, loopVars, slotVars
<1>6. CASE PushEnqueue
  BY <1>6 DEF PushEnqueue, mainVars, loopVars, slotVars
<1>7. CASE IpcExit
  BY <1>7 DEF IpcExit, mainVars, saveVars, loopVars, slotVars, histVars
<1>8. CASE SavePop
  <2>1. job' \in Item /\ saveQ' = <<>>
    BY <1>8, FrontOfQueue DEF SavePop
  <2>2. QED
    BY <1>8, <2>1 DEF SavePop, mainVars, ipcVars, loopVars, slotVars, histVars
<1>9. CASE SaveSeesEmpty
  BY <1>9 DEF SaveSeesEmpty, mainVars, ipcVars, loopVars, slotVars, histVars
<1>10. CASE SaveCheck
  BY <1>10 DEF SaveCheck, mainVars, ipcVars, loopVars, slotVars, histVars
<1>11. CASE SaveWrite
  BY <1>11 DEF SaveWrite, mainVars, ipcVars, loopVars, slotVars
<1>12. CASE SaveArm
  BY <1>12 DEF SaveArm, PushMutexFree, mainVars, ipcVars, loopVars, histVars
<1>13. CASE LoopExit
  BY <1>13 DEF LoopExit, mainVars, ipcVars, saveVars, slotVars, histVars
<1>14. CASE LoopApplyPush
  BY <1>14 DEF LoopApplyPush, mainVars, ipcVars, saveVars, slotVars
<1>15. CASE LoopClearPush
  BY <1>15 DEF LoopClearPush, mainVars, ipcVars, saveVars, histVars
<1>16. CASE LoopNoPush
  BY <1>16 DEF LoopNoPush, mainVars, ipcVars, saveVars, slotVars, histVars
<1>17. CASE LoopTakeReload
  BY <1>17 DEF LoopTakeReload, mainVars, ipcVars, saveVars, slotVars, histVars
<1>18. CASE LoopLoad
  BY <1>18 DEF LoopLoad, mainVars, ipcVars, saveVars, slotVars, histVars
<1>19. CASE LoopApplyLoaded
  BY <1>19 DEF LoopApplyLoaded, mainVars, ipcVars, saveVars, slotVars, histVars
<1>20. CASE RequestStop
  BY <1>20 DEF RequestStop, Spend, ipcVars, saveVars, loopVars, slotVars, histVars
<1>21. CASE RequestReload
  BY <1>21 DEF RequestReload, Spend, mainVars, ipcVars, saveVars, slotVars, histVars
<1>22. CASE Crash
  BY <1>22 DEF Crash, Spend, Reboot, Factory
<1>23. CASE Restart
  BY <1>23 DEF Restart, Reboot, Factory
<1>24. ASSUME NEW c \in Configs, PushCheck(c) PROVE ItemTypes'
  BY <1>24 DEF PushCheck, CountTypes, mainVars, saveVars, loopVars, slotVars, histVars
<1>25. ASSUME NEW c \in Configs, HandEdit(c) PROVE ItemTypes'
  BY <1>25 DEF HandEdit, CountTypes, mainVars, ipcVars, saveVars, loopVars, slotVars
<1>26. CASE PushMalformed
  BY <1>26 DEF PushMalformed, mainVars, saveVars, loopVars, slotVars, histVars
<1>27. CASE SaveFails
  BY <1>27 DEF SaveFails, Spend, mainVars, ipcVars, loopVars, slotVars, histVars
<1>28. CASE LoopPushThrows
  BY <1>28 DEF LoopPushThrows, Spend, mainVars, ipcVars, saveVars
<1>29. CASE LoopLoadFails
  BY <1>29 DEF LoopLoadFails, Spend, mainVars, ipcVars, saveVars, slotVars, histVars
<1>30. CASE UNCHANGED vars
  BY <1>30 DEF vars, mainVars, ipcVars, saveVars, loopVars, slotVars, histVars
<1>31. QED
  BY <1>1, <1>2, <1>3, <1>4, <1>5, <1>6, <1>7, <1>8, <1>9, <1>10, <1>11, <1>12, <1>13, <1>14, <1>15, <1>16, <1>17, <1>18, <1>19, <1>20, <1>21, <1>22, <1>23, <1>24, <1>25, <1>26, <1>27, <1>28, <1>29, <1>30
     DEF Next, Main, Ipc, Save, Loop, Environment

\* One step keeps the counters counters.
LEMMA CountStep ==
  ASSUME CountTypes, ItemTypes, [Next]_vars
  PROVE  CountTypes'
<1> USE DEF CountTypes, ItemTypes, Item
<1>1. CASE Start
  <2>1. used' \in [Bounded -> Nat]
    BY <1>1, SpendType DEF Start, Bounded
  <2>2. QED
    BY <1>1, <2>1 DEF Start, Factory, ipcVars, slotVars, histVars
<1>2. CASE MainSeesStop
  BY <1>2 DEF MainSeesStop, ipcVars, saveVars, loopVars, slotVars, histVars
<1>3. CASE MainJoins
  BY <1>3 DEF MainJoins, ipcVars, saveVars, loopVars, slotVars, histVars
<1>4. CASE PushSnapshot
  BY <1>4 DEF PushSnapshot, PushMutexFree, mainVars, saveVars, loopVars, slotVars, histVars
<1>5. CASE PushGuard
  BY <1>5 DEF PushGuard, NoOpPush, mainVars, saveVars, loopVars, slotVars
<1>6. CASE PushEnqueue
  BY <1>6 DEF PushEnqueue, mainVars, loopVars, slotVars
<1>7. CASE IpcExit
  BY <1>7 DEF IpcExit, mainVars, saveVars, loopVars, slotVars, histVars
<1>8. CASE SavePop
  BY <1>8 DEF SavePop, mainVars, ipcVars, loopVars, slotVars, histVars
<1>9. CASE SaveSeesEmpty
  BY <1>9 DEF SaveSeesEmpty, mainVars, ipcVars, loopVars, slotVars, histVars
<1>10. CASE SaveCheck
  BY <1>10 DEF SaveCheck, mainVars, ipcVars, loopVars, slotVars, histVars
<1>11. CASE SaveWrite
  BY <1>11 DEF SaveWrite, mainVars, ipcVars, loopVars, slotVars
<1>12. CASE SaveArm
  BY <1>12 DEF SaveArm, PushMutexFree, mainVars, ipcVars, loopVars, histVars
<1>13. CASE LoopExit
  BY <1>13 DEF LoopExit, mainVars, ipcVars, saveVars, slotVars, histVars
<1>14. CASE LoopApplyPush
  BY <1>14 DEF LoopApplyPush, mainVars, ipcVars, saveVars, slotVars
<1>15. CASE LoopClearPush
  BY <1>15 DEF LoopClearPush, mainVars, ipcVars, saveVars, histVars
<1>16. CASE LoopNoPush
  BY <1>16 DEF LoopNoPush, mainVars, ipcVars, saveVars, slotVars, histVars
<1>17. CASE LoopTakeReload
  BY <1>17 DEF LoopTakeReload, mainVars, ipcVars, saveVars, slotVars, histVars
<1>18. CASE LoopLoad
  BY <1>18 DEF LoopLoad, mainVars, ipcVars, saveVars, slotVars, histVars
<1>19. CASE LoopApplyLoaded
  BY <1>19 DEF LoopApplyLoaded, mainVars, ipcVars, saveVars, slotVars, histVars
<1>20. CASE RequestStop
  <2>1. used' \in [Bounded -> Nat]
    BY <1>20, SpendType DEF RequestStop, Bounded
  <2>2. QED
    BY <1>20, <2>1 DEF RequestStop, ipcVars, saveVars, loopVars, slotVars, histVars
<1>21. CASE RequestReload
  <2>1. used' \in [Bounded -> Nat]
    BY <1>21, SpendType DEF RequestReload, Bounded
  <2>2. QED
    BY <1>21, <2>1 DEF RequestReload, mainVars, ipcVars, saveVars, slotVars, histVars
<1>22. CASE Crash
  <2>1. used' \in [Bounded -> Nat]
    BY <1>22, SpendType DEF Crash, Bounded
  <2>2. QED
    BY <1>22, <2>1 DEF Crash, Reboot, Factory
<1>23. CASE Restart
  BY <1>23 DEF Restart, Reboot, Factory
<1>24. ASSUME NEW c \in Configs, PushCheck(c) PROVE CountTypes'
  BY <1>24 DEF PushCheck, mainVars, saveVars, loopVars, slotVars, histVars
<1>25. ASSUME NEW c \in Configs, HandEdit(c) PROVE CountTypes'
  <2>1. used' \in [Bounded -> Nat]
    BY <1>25, SpendType DEF HandEdit, Bounded
  <2>2. nextId \in Nat /\ enqueued \in Nat /\ viaPush \in Nat
    OBVIOUS
  <2>3. nextId' = nextId + 1 /\ persisted' = persisted \cup {nextId} /\ enqueued' = enqueued
        /\ viaPush' = viaPush
    BY <1>25 DEF HandEdit
  <2>4. nextId' \in Nat
    BY <2>2, <2>3
  <2>5. persisted' \subseteq Nat
    BY <2>2, <2>3
  <2>6. QED
    BY <2>1, <2>2, <2>3, <2>4, <2>5
<1>26. CASE PushMalformed
  BY <1>26 DEF PushMalformed, mainVars, saveVars, loopVars, slotVars, histVars
<1>27. CASE SaveFails
  <2>1. used' \in [Bounded -> Nat]
    BY <1>27, SpendType DEF SaveFails, Bounded
  <2>2. QED
    BY <1>27, <2>1 DEF SaveFails, mainVars, ipcVars, loopVars, slotVars, histVars
<1>28. CASE LoopPushThrows
  <2>1. used' \in [Bounded -> Nat]
    BY <1>28, SpendType DEF LoopPushThrows, Bounded
  <2>2. QED
    BY <1>28, <2>1 DEF LoopPushThrows, mainVars, ipcVars, saveVars
<1>29. CASE LoopLoadFails
  <2>1. used' \in [Bounded -> Nat]
    BY <1>29, SpendType DEF LoopLoadFails, Bounded
  <2>2. QED
    BY <1>29, <2>1 DEF LoopLoadFails, mainVars, ipcVars, saveVars, slotVars, histVars
<1>30. CASE UNCHANGED vars
  BY <1>30 DEF vars, mainVars, ipcVars, saveVars, loopVars, slotVars, histVars
<1>31. QED
  BY <1>1, <1>2, <1>3, <1>4, <1>5, <1>6, <1>7, <1>8, <1>9, <1>10, <1>11, <1>12, <1>13, <1>14, <1>15, <1>16, <1>17, <1>18, <1>19, <1>20, <1>21, <1>22, <1>23, <1>24, <1>25, <1>26, <1>27, <1>28, <1>29, <1>30
     DEF Next, Main, Ipc, Save, Loop, Environment

\* One step keeps the order of the stages.
LEMMA OrderStep ==
  ASSUME TypeOK, OrderInv, [Next]_vars
  PROVE  OrderInv'
<1> USE DEF TypeOK, BootInv, CountTypes, ItemTypes, Item, OrderInv, PipelineOrdered, Accepted, Armed, InFlight, Pushing
<1>1. CASE Start
  BY <1>1 DEF Start, Factory, ipcVars, slotVars, histVars
<1>2. CASE MainSeesStop
  BY <1>2 DEF MainSeesStop, ipcVars, saveVars, loopVars, slotVars, histVars
<1>3. CASE MainJoins
  BY <1>3 DEF MainJoins, ipcVars, saveVars, loopVars, slotVars, histVars
<1>4. CASE PushSnapshot
  BY <1>4 DEF PushSnapshot, PushMutexFree, mainVars, saveVars, loopVars, slotVars, histVars
<1>5. CASE PushGuard
  BY <1>5 DEF PushGuard, NoOpPush, mainVars, saveVars, loopVars, slotVars
<1>6. CASE PushEnqueue
  <2>1. Len(saveQ') = 1 /\ saveQ'[1] = req
    BY <1>6 DEF PushEnqueue
  <2>2. QED
    BY <1>6, <2>1 DEF PushEnqueue, mainVars, loopVars, slotVars
<1>7. CASE IpcExit
  BY <1>7 DEF IpcExit, mainVars, saveVars, loopVars, slotVars, histVars
<1>8. CASE SavePop
  <2>1. job' = saveQ[1] /\ saveQ' = <<>> /\ Len(saveQ) = 1 /\ Len(saveQ') = 0
    BY <1>8, FrontOfQueue, EmptySeq DEF SavePop
  <2>2. UNCHANGED <<mainPc, ipcPc, req, loopPc, slot, pending, disk, nextId, used, enqueued, viaPush>>
        /\ ~InFlight /\ savePc' = "write"
    BY <1>8 DEF SavePop, mainVars, ipcVars, loopVars, slotVars, histVars
  <2>3. /\ viaPush < saveQ[1].id /\ saveQ[1].id <= enqueued
        /\ Armed => slot.id < saveQ[1].id
        /\ Pushing => saveQ[1].id < req.id
    BY <2>1
  <2>4. PipelineOrdered'
    BY <2>1, <2>2, <2>3
  <2>5. Accepted' /\ BootInv'
    BY <2>1, <2>2, <2>3, <1>8 DEF SavePop
  <2>6. QED
    BY <2>4, <2>5
<1>9. CASE SaveSeesEmpty
  BY <1>9 DEF SaveSeesEmpty, mainVars, ipcVars, loopVars, slotVars, histVars
<1>10. CASE SaveCheck
  BY <1>10 DEF SaveCheck, mainVars, ipcVars, loopVars, slotVars, histVars
<1>11. CASE SaveWrite
  BY <1>11 DEF SaveWrite, mainVars, ipcVars, loopVars, slotVars
<1>12. CASE SaveArm
  BY <1>12 DEF SaveArm, PushMutexFree, mainVars, ipcVars, loopVars, histVars
<1>13. CASE LoopExit
  BY <1>13 DEF LoopExit, mainVars, ipcVars, saveVars, slotVars, histVars
<1>14. CASE LoopApplyPush
  BY <1>14 DEF LoopApplyPush, mainVars, ipcVars, saveVars, slotVars
<1>15. CASE LoopClearPush
  BY <1>15 DEF LoopClearPush, mainVars, ipcVars, saveVars, histVars
<1>16. CASE LoopNoPush
  BY <1>16 DEF LoopNoPush, mainVars, ipcVars, saveVars, slotVars, histVars
<1>17. CASE LoopTakeReload
  BY <1>17 DEF LoopTakeReload, mainVars, ipcVars, saveVars, slotVars, histVars
<1>18. CASE LoopLoad
  BY <1>18 DEF LoopLoad, mainVars, ipcVars, saveVars, slotVars, histVars
<1>19. CASE LoopApplyLoaded
  BY <1>19 DEF LoopApplyLoaded, mainVars, ipcVars, saveVars, slotVars, histVars
<1>20. CASE RequestStop
  BY <1>20 DEF RequestStop, ipcVars, saveVars, loopVars, slotVars, histVars
<1>21. CASE RequestReload
  BY <1>21 DEF RequestReload, mainVars, ipcVars, saveVars, slotVars, histVars
<1>22. CASE Crash
  BY <1>22 DEF Crash, Reboot, Factory
<1>23. CASE Restart
  BY <1>23 DEF Restart, Reboot, Factory
<1>24. ASSUME NEW c \in Configs, PushCheck(c) PROVE OrderInv'
  <2>1. CASE running
    <3>1. /\ ipcPc' = "snapshot" /\ req'.id = nextId /\ nextId' = nextId + 1
          /\ UNCHANGED <<mainPc, saveQ, savePc, job, loopPc, slot, pending, enqueued, viaPush>>
      BY <1>24, <2>1 DEF PushCheck, mainVars, saveVars, loopVars, slotVars, histVars
    <3>2. /\ viaPush < nextId /\ enqueued < nextId
          /\ Armed => slot.id < nextId
          /\ InFlight => job.id < nextId
      OBVIOUS
    <3>3. \A i \in 1..Len(saveQ) : saveQ[i].id < nextId
      <4> SUFFICES ASSUME NEW i \in 1..Len(saveQ) PROVE saveQ[i].id < nextId
        OBVIOUS
      <4>1. saveQ[i] \in Item
        BY ElementOfSeq DEF ItemTypes
      <4>2. saveQ[i].id <= enqueued
        BY DEF Accepted
      <4>3. QED
        BY <4>1, <4>2
    <3>4. PipelineOrdered'
      BY <3>1, <3>2, <3>3
    <3>5. Accepted' /\ BootInv'
      BY <3>1
    <3>6. QED
      BY <3>4, <3>5
  <2>2. CASE ~running
    <3>1. /\ nextId' = nextId + 1
          /\ UNCHANGED <<mainPc, ipcPc, req, saveQ, savePc, job, loopPc, slot, pending, enqueued, viaPush>>
      BY <1>24, <2>2 DEF PushCheck, mainVars, saveVars, loopVars, slotVars, histVars
    <3>2. QED
      BY <3>1
  <2>3. QED
    BY <2>1, <2>2
<1>25. ASSUME NEW c \in Configs, HandEdit(c) PROVE OrderInv'
  BY <1>25 DEF HandEdit, mainVars, ipcVars, saveVars, loopVars, slotVars
<1>26. CASE PushMalformed
  BY <1>26 DEF PushMalformed, mainVars, saveVars, loopVars, slotVars, histVars
<1>27. CASE SaveFails
  BY <1>27 DEF SaveFails, mainVars, ipcVars, loopVars, slotVars, histVars
<1>28. CASE LoopPushThrows
  BY <1>28 DEF LoopPushThrows, mainVars, ipcVars, saveVars
<1>29. CASE LoopLoadFails
  BY <1>29 DEF LoopLoadFails, mainVars, ipcVars, saveVars, slotVars, histVars
<1>30. CASE UNCHANGED vars
  BY <1>30 DEF vars, mainVars, ipcVars, saveVars, loopVars, slotVars, histVars
<1>31. QED
  BY <1>1, <1>2, <1>3, <1>4, <1>5, <1>6, <1>7, <1>8, <1>9, <1>10, <1>11, <1>12, <1>13, <1>14, <1>15, <1>16, <1>17, <1>18, <1>19, <1>20, <1>21, <1>22, <1>23, <1>24, <1>25, <1>26, <1>27, <1>28, <1>29, <1>30
     DEF Next, Main, Ipc, Save, Loop, Environment

\* One step keeps the running config behind the file.
LEMMA PersistStep ==
  ASSUME TypeOK, PersistInv, [Next]_vars
  PROVE  PersistInv'
<1> USE DEF TypeOK, ItemTypes, Item, PersistInv, PersistBeforeApply
<1>1. CASE Start
  BY <1>1 DEF Start, Factory, ipcVars, slotVars, histVars
<1>2. CASE MainSeesStop
  BY <1>2 DEF MainSeesStop, ipcVars, saveVars, loopVars, slotVars, histVars
<1>3. CASE MainJoins
  BY <1>3 DEF MainJoins, ipcVars, saveVars, loopVars, slotVars, histVars
<1>4. CASE PushSnapshot
  BY <1>4 DEF PushSnapshot, PushMutexFree, mainVars, saveVars, loopVars, slotVars, histVars
<1>5. CASE PushGuard
  BY <1>5 DEF PushGuard, NoOpPush, mainVars, saveVars, loopVars, slotVars
<1>6. CASE PushEnqueue
  BY <1>6 DEF PushEnqueue, mainVars, loopVars, slotVars
<1>7. CASE IpcExit
  BY <1>7 DEF IpcExit, mainVars, saveVars, loopVars, slotVars, histVars
<1>8. CASE SavePop
  BY <1>8 DEF SavePop, mainVars, ipcVars, loopVars, slotVars, histVars
<1>9. CASE SaveSeesEmpty
  BY <1>9 DEF SaveSeesEmpty, mainVars, ipcVars, loopVars, slotVars, histVars
<1>10. CASE SaveCheck
  BY <1>10 DEF SaveCheck, mainVars, ipcVars, loopVars, slotVars, histVars
<1>11. CASE SaveWrite
  BY <1>11 DEF SaveWrite, mainVars, ipcVars, loopVars, slotVars
<1>12. CASE SaveArm
  BY <1>12 DEF SaveArm, PushMutexFree, mainVars, ipcVars, loopVars, histVars
<1>13. CASE LoopExit
  BY <1>13 DEF LoopExit, mainVars, ipcVars, saveVars, slotVars, histVars
<1>14. CASE LoopApplyPush
  BY <1>14 DEF LoopApplyPush, mainVars, ipcVars, saveVars, slotVars
<1>15. CASE LoopClearPush
  BY <1>15 DEF LoopClearPush, mainVars, ipcVars, saveVars, histVars
<1>16. CASE LoopNoPush
  BY <1>16 DEF LoopNoPush, mainVars, ipcVars, saveVars, slotVars, histVars
<1>17. CASE LoopTakeReload
  BY <1>17 DEF LoopTakeReload, mainVars, ipcVars, saveVars, slotVars, histVars
<1>18. CASE LoopLoad
  BY <1>18 DEF LoopLoad, mainVars, ipcVars, saveVars, slotVars, histVars
<1>19. CASE LoopApplyLoaded
  BY <1>19 DEF LoopApplyLoaded, mainVars, ipcVars, saveVars, slotVars, histVars
<1>20. CASE RequestStop
  BY <1>20 DEF RequestStop, ipcVars, saveVars, loopVars, slotVars, histVars
<1>21. CASE RequestReload
  BY <1>21 DEF RequestReload, mainVars, ipcVars, saveVars, slotVars, histVars
<1>22. CASE Crash
  BY <1>22 DEF Crash, Reboot, Factory
<1>23. CASE Restart
  BY <1>23 DEF Restart, Reboot, Factory
<1>24. ASSUME NEW c \in Configs, PushCheck(c) PROVE PersistInv'
  BY <1>24 DEF PushCheck, mainVars, saveVars, loopVars, slotVars, histVars
<1>25. ASSUME NEW c \in Configs, HandEdit(c) PROVE PersistInv'
  BY <1>25 DEF HandEdit, mainVars, ipcVars, saveVars, loopVars, slotVars
<1>26. CASE PushMalformed
  BY <1>26 DEF PushMalformed, mainVars, saveVars, loopVars, slotVars, histVars
<1>27. CASE SaveFails
  BY <1>27 DEF SaveFails, mainVars, ipcVars, loopVars, slotVars, histVars
<1>28. CASE LoopPushThrows
  BY <1>28 DEF LoopPushThrows, mainVars, ipcVars, saveVars
<1>29. CASE LoopLoadFails
  BY <1>29 DEF LoopLoadFails, mainVars, ipcVars, saveVars, slotVars, histVars
<1>30. CASE UNCHANGED vars
  BY <1>30 DEF vars, mainVars, ipcVars, saveVars, loopVars, slotVars, histVars
<1>31. QED
  BY <1>1, <1>2, <1>3, <1>4, <1>5, <1>6, <1>7, <1>8, <1>9, <1>10, <1>11, <1>12, <1>13, <1>14, <1>15, <1>16, <1>17, <1>18, <1>19, <1>20, <1>21, <1>22, <1>23, <1>24, <1>25, <1>26, <1>27, <1>28, <1>29, <1>30
     DEF Next, Main, Ipc, Save, Loop, Environment

\* One step keeps the newest accepted push on its way to the file.
LEMMA DiskStep ==
  ASSUME TypeOK, OrderInv, DiskInv, [Next]_vars
  PROVE  DiskInv'
<1> USE DEF TypeOK, BootInv, CountTypes, ItemTypes, Item, OrderInv, PipelineOrdered, Accepted, Armed, InFlight, Pushing, DiskInv
<1>1. CASE Start
  <2>1. used'["fault"] = 0 => UNCHANGED used
    BY <1>1, SpendFault DEF Start
  <2>2. QED
    BY <1>1, <2>1 DEF Start, ipcVars, slotVars, histVars
<1>2. CASE MainSeesStop
  BY <1>2 DEF MainSeesStop, ipcVars, saveVars, loopVars, slotVars, histVars
<1>3. CASE MainJoins
  BY <1>3 DEF MainJoins, ipcVars, saveVars, loopVars, slotVars, histVars
<1>4. CASE PushSnapshot
  BY <1>4 DEF PushSnapshot, PushMutexFree, mainVars, saveVars, loopVars, slotVars, histVars
<1>5. CASE PushGuard
  BY <1>5 DEF PushGuard, NoOpPush, mainVars, saveVars, loopVars, slotVars
<1>6. CASE PushEnqueue
  <2>1. Len(saveQ') = 1 /\ saveQ'[1] = req
    BY <1>6 DEF PushEnqueue
  <2>2. QED
    BY <1>6, <2>1 DEF PushEnqueue, mainVars, loopVars, slotVars
<1>7. CASE IpcExit
  BY <1>7 DEF IpcExit, mainVars, saveVars, loopVars, slotVars, histVars
<1>8. CASE SavePop
  <2>1. job' = saveQ[1] /\ saveQ' = <<>> /\ Len(saveQ) = 1 /\ Len(saveQ') = 0
    BY <1>8, FrontOfQueue, EmptySeq DEF SavePop
  <2>2. UNCHANGED <<mainPc, ipcPc, req, loopPc, slot, pending, disk, nextId, used, enqueued, viaPush>>
        /\ ~InFlight /\ savePc' = "write"
    BY <1>8 DEF SavePop, mainVars, ipcVars, loopVars, slotVars, histVars
  <2>3. used["fault"] = 0 => saveQ[1].id = enqueued
    BY <2>1
  <2>4. QED
    BY <2>1, <2>2, <2>3
<1>9. CASE SaveSeesEmpty
  BY <1>9 DEF SaveSeesEmpty, mainVars, ipcVars, loopVars, slotVars, histVars
<1>10. CASE SaveCheck
  BY <1>10 DEF SaveCheck, mainVars, ipcVars, loopVars, slotVars, histVars
<1>11. CASE SaveWrite
  BY <1>11 DEF SaveWrite, mainVars, ipcVars, loopVars, slotVars
<1>12. CASE SaveArm
  BY <1>12 DEF SaveArm, PushMutexFree, mainVars, ipcVars, loopVars, histVars
<1>13. CASE LoopExit
  BY <1>13 DEF LoopExit, mainVars, ipcVars, saveVars, slotVars, histVars
<1>14. CASE LoopApplyPush
  BY <1>14 DEF LoopApplyPush, mainVars, ipcVars, saveVars, slotVars
<1>15. CASE LoopClearPush
  BY <1>15 DEF LoopClearPush, mainVars, ipcVars, saveVars, histVars
<1>16. CASE LoopNoPush
  BY <1>16 DEF LoopNoPush, mainVars, ipcVars, saveVars, slotVars, histVars
<1>17. CASE LoopTakeReload
  BY <1>17 DEF LoopTakeReload, mainVars, ipcVars, saveVars, slotVars, histVars
<1>18. CASE LoopLoad
  BY <1>18 DEF LoopLoad, mainVars, ipcVars, saveVars, slotVars, histVars
<1>19. CASE LoopApplyLoaded
  BY <1>19 DEF LoopApplyLoaded, mainVars, ipcVars, saveVars, slotVars, histVars
<1>20. CASE RequestStop
  <2>1. used'["fault"] = used["fault"]
    BY <1>20, SpendOther DEF RequestStop, Bounded
  <2>2. QED
    BY <1>20, <2>1 DEF RequestStop, ipcVars, saveVars, loopVars, slotVars, histVars
<1>21. CASE RequestReload
  <2>1. used'["fault"] = used["fault"]
    BY <1>21, SpendOther DEF RequestReload, Bounded
  <2>2. QED
    BY <1>21, <2>1 DEF RequestReload, mainVars, ipcVars, saveVars, slotVars, histVars
<1>22. CASE Crash
  <2>1. used'["fault"] = used["fault"]
    BY <1>22, SpendOther DEF Crash, Bounded
  <2>2. QED
    BY <1>22, <2>1 DEF Crash, Reboot, Factory
<1>23. CASE Restart
  BY <1>23 DEF Restart, Reboot, Factory
<1>24. ASSUME NEW c \in Configs, PushCheck(c) PROVE DiskInv'
  BY <1>24 DEF PushCheck, mainVars, saveVars, loopVars, slotVars, histVars
<1>25. ASSUME NEW c \in Configs, HandEdit(c) PROVE DiskInv'
  <2>1. used'["fault"] = used["fault"]
    BY <1>25, SpendOther DEF HandEdit, Bounded
  <2>2. QED
    BY <1>25, <2>1 DEF HandEdit, mainVars, ipcVars, saveVars, loopVars, slotVars
<1>26. CASE PushMalformed
  BY <1>26 DEF PushMalformed, mainVars, saveVars, loopVars, slotVars, histVars
<1>27. CASE SaveFails
  BY <1>27, SpendFault DEF SaveFails, DiskInv
<1>28. CASE LoopPushThrows
  BY <1>28, SpendFault DEF LoopPushThrows, DiskInv
<1>29. CASE LoopLoadFails
  BY <1>29, SpendFault DEF LoopLoadFails, DiskInv
<1>30. CASE UNCHANGED vars
  BY <1>30 DEF vars, mainVars, ipcVars, saveVars, loopVars, slotVars, histVars
<1>31. QED
  BY <1>1, <1>2, <1>3, <1>4, <1>5, <1>6, <1>7, <1>8, <1>9, <1>10, <1>11, <1>12, <1>13, <1>14, <1>15, <1>16, <1>17, <1>18, <1>19, <1>20, <1>21, <1>22, <1>23, <1>24, <1>25, <1>26, <1>27, <1>28, <1>29, <1>30
     DEF Next, Main, Ipc, Save, Loop, Environment

\* The inductive invariant.
LEMMA InvHolds == Spec => []Inv
<1>1. Init => Inv
  <2> USE ConstantsAssumption DEF Init, Factory
  <2>1. ASSUME Init PROVE FlagTypes /\ PlaceTypes
    BY <2>1 DEF FlagTypes, PlaceTypes
  <2>2. ASSUME Init PROVE ItemTypes
    BY <2>2 DEF ItemTypes, Item
  <2>3. ASSUME Init PROVE CountTypes
    BY <2>3 DEF CountTypes, Bounded
  <2>4. ASSUME Init PROVE OrderInv /\ PersistInv /\ DiskInv
    BY <2>4 DEF OrderInv, PipelineOrdered, Accepted, BootInv, Armed, InFlight, Pushing, PersistInv,
                PersistBeforeApply, DiskInv
  <2>5. QED
    BY <2>1, <2>2, <2>3, <2>4 DEF Inv, TypeOK
<1>2. Inv /\ [Next]_vars => Inv'
  BY FlagStep, PlaceStep, ItemStep, CountStep, OrderStep, PersistStep, DiskStep DEF Inv, TypeOK
<1>3. QED
  BY <1>1, <1>2, PTL DEF Spec

-----------------------------------------------------------------------------
(* Theorems *)

\* Every variable keeps its type and save_q_ never holds two configs, however
\* many clients push however often.
THEOREM TypeCorrect == Spec => []TypeOK
<1>1. Inv => TypeOK
  BY DEF Inv
<1>2. QED
  BY <1>1, InvHolds, PTL

\* save_worker's promise: what runs, and what is armed to run, was on disk.
THEOREM PersistedFirst == Spec => []PersistBeforeApply
<1>1. Inv => PersistBeforeApply
  BY DEF Inv, PersistInv
<1>2. QED
  BY <1>1, InvHolds, PTL

\* The stages of the pipeline never hold pushes out of order.
THEOREM StagesOrdered == Spec => []PipelineOrdered
<1>1. Inv => PipelineOrdered
  BY DEF Inv, OrderInv
<1>2. QED
  BY <1>1, InvHolds, PTL

\* Coalescing in push_config and draining in save_worker lose nothing that is
\* not obsolete.
THEOREM NothingDropped == Spec => []DrainedQueueIsOnDisk
<1>1. Inv => DrainedQueueIsOnDisk
  BY DEF Inv, DiskInv, DrainedQueueIsOnDisk, InFlight, TypeOK, ItemTypes, CountTypes, Item
<1>2. QED
  BY <1>1, InvHolds, PTL

\* The loop takes pushes in the order they were made.
THEOREM InOrder == Spec => PushesApplyInOrder
<1>1. Inv /\ [Next]_vars => [viaPush' >= viaPush]_vars
  <2> SUFFICES ASSUME Inv, Next PROVE viaPush' >= viaPush
    OBVIOUS
  <2> USE DEF Inv, TypeOK, CountTypes
  <2>1. CASE LoopApplyPush
    BY <2>1 DEF LoopApplyPush, OrderInv, PipelineOrdered, Armed, ItemTypes, Item
  <2>2. CASE LoopPushThrows
    BY <2>2 DEF LoopPushThrows, OrderInv, PipelineOrdered, Armed, ItemTypes, Item
  <2>3. CASE ~LoopApplyPush /\ ~LoopPushThrows
    <3>1. viaPush' = viaPush
      BY <2>3 DEF Next, Main, Ipc, Save, Loop, Environment, histVars, Start, MainSeesStop,
        MainJoins, PushSnapshot, PushGuard, PushEnqueue, IpcExit, SavePop, SaveSeesEmpty, SaveCheck,
        SaveWrite, SaveArm, LoopExit, LoopClearPush, LoopNoPush, LoopTakeReload, LoopLoad,
        LoopApplyLoaded, RequestStop, RequestReload, Crash, Restart, PushCheck, HandEdit,
        PushMalformed, SaveFails, LoopLoadFails
    <3>2. QED
      BY <3>1
  <2>4. QED
    BY <2>1, <2>2, <2>3
<1>2. QED
  BY <1>1, InvHolds, PTL DEF Spec, PushesApplyInOrder

\* The pipeline implements the mailbox: a push that enters the queue sends, the
\* loop's apply receives, the end of the process forgets, the rest stutters.
THEOREM ImplementsMailbox == Spec => IsMailbox
<1>1. Init => Pipe!Init
  BY DEF Init, Pipe!Init
<1>2. Inv /\ [Next]_vars => [Pipe!Next]_<<enqueued, viaPush>>
  <2> SUFFICES ASSUME Inv, [Next]_vars PROVE [Pipe!Next]_<<enqueued, viaPush>>
    OBVIOUS
  <2> USE DEF Inv, TypeOK, CountTypes, ItemTypes, Item
  <2>1. CASE LoopApplyPush
    BY <2>1 DEF LoopApplyPush, OrderInv, PipelineOrdered, Accepted, Armed, Pipe!Next, Pipe!Receive
  <2>2. CASE LoopPushThrows
    BY <2>2 DEF LoopPushThrows, OrderInv, PipelineOrdered, Accepted, Armed, Pipe!Next, Pipe!Receive
  <2>3. CASE PushEnqueue
    BY <2>3 DEF PushEnqueue, OrderInv, PipelineOrdered, Pushing, Pipe!Next, Pipe!Send
  <2>4. CASE Crash \/ Restart
    BY <2>4 DEF Crash, Restart, Reboot, Pipe!Next, Pipe!Forget
  <2>5. CASE ~LoopApplyPush /\ ~LoopPushThrows /\ ~PushEnqueue /\ ~Crash /\ ~Restart
    BY <2>5 DEF Next, Main, Ipc, Save, Loop, Environment, vars, histVars, Start, MainSeesStop,
      MainJoins, PushSnapshot, PushGuard, IpcExit, SavePop, SaveSeesEmpty, SaveCheck, SaveWrite,
      SaveArm, LoopExit, LoopClearPush, LoopNoPush, LoopTakeReload, LoopLoad, LoopApplyLoaded,
      RequestStop, RequestReload, PushCheck, HandEdit, PushMalformed, SaveFails, LoopLoadFails
  <2>6. QED
    BY <2>1, <2>2, <2>3, <2>4, <2>5
<1>3. QED
  BY <1>1, <1>2, InvHolds, PTL DEF Spec, IsMailbox, Pipe!Spec

\* The file leads the running config through every interleaving.
THEOREM FileAlwaysLeads == Spec => []FileLeads
<1>1. QED
  BY PersistedFirst, StagesOrdered, NothingDropped, PTL DEF FileLeads
=============================================================================
