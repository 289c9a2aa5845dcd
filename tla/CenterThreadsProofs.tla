------------------------ MODULE CenterThreadsProofs ------------------------
(***************************************************************************)
(* Proofs about CenterThreads, for every number of blocks and upgrades and *)
(* every set of faults.                                                    *)
(***************************************************************************)
EXTENDS Integers, CenterThreads, TLAPS

(***************************************************************************)
(* The types of all but the blocks and their counters hold by themselves.  *)
(***************************************************************************)
ThreadTypes ==
  /\ hasException \in BOOLEAN /\ isPause \in BOOLEAN /\ isStop \in BOOLEAN
  /\ lockHeld \in BOOLEAN
  /\ receiver \in ReceiverPc /\ parser \in ParserPc
  /\ checker \in CheckerPc /\ upgrader \in UpgraderPc
  /\ failed \in BOOLEAN /\ errors \in Nat
  /\ upgrades \in 0..MaxUpgrades

LEMMA ThreadTypesInit == Init => ThreadTypes
<1> SUFFICES ASSUME Init PROVE ThreadTypes
  OBVIOUS
<1>1. upgrades \in 0..MaxUpgrades /\ errors \in Nat
  BY CenterThreadsAssumption, SMT DEF Init
<1>2. /\ hasException \in BOOLEAN /\ isPause \in BOOLEAN /\ isStop \in BOOLEAN
      /\ lockHeld \in BOOLEAN /\ failed \in BOOLEAN
  BY Zenon DEF Init
<1>3. /\ receiver \in ReceiverPc /\ parser \in ParserPc
      /\ checker \in CheckerPc /\ upgrader \in UpgraderPc
  BY Zenon DEF Init, ReceiverPc, ParserPc, CheckerPc, UpgraderPc
<1>4. QED
  BY <1>1, <1>2, <1>3 DEF ThreadTypes

LEMMA ThreadTypesStep == ThreadTypes /\ [Next]_vars => ThreadTypes'
<1> SUFFICES ASSUME ThreadTypes, [Next]_vars PROVE ThreadTypes'
  OBVIOUS
<1> USE CenterThreadsAssumption
    DEF ThreadTypes, ReceiverPc, ParserPc, CheckerPc, UpgraderPc, flags, history
<1>1. CASE ReceiverTop
  BY <1>1 DEF ReceiverTop
<1>2. CASE ReceiverRead
  BY <1>2 DEF ReceiverRead
<1>3. CASE ReceiverReadNothing
  BY <1>3 DEF ReceiverReadNothing
<1>4. CASE ReceiverPut
  BY <1>4 DEF ReceiverPut
<1>5. CASE ReceiverReadRaises
  BY <1>5 DEF ReceiverReadRaises
<1>6. CASE ReceiverFlag
  BY <1>6 DEF ReceiverFlag
<1>7. CASE ParserTop
  BY <1>7 DEF ParserTop
<1>8. CASE ParserLocking
  BY <1>8 DEF ParserLocking
<1>9. CASE ParserPausing
  BY <1>9 DEF ParserPausing
<1>10. CASE ParserTake
  BY <1>10 DEF ParserTake
<1>11. CASE ParserAnalyse
  BY <1>11 DEF ParserAnalyse
<1>12. CASE CheckerLock
  BY <1>12 DEF CheckerLock
<1>13. CASE CheckerTest
  BY <1>13 DEF CheckerTest
<1>14. CASE CheckerReset
  BY <1>14 DEF CheckerReset
<1>15. CASE CheckerFinds
  BY <1>15 DEF CheckerFinds
<1>16. CASE CheckerFindRaises
  BY <1>16 DEF CheckerFindRaises
<1>17. CASE CheckerCloseReset
  BY <1>17 DEF CheckerCloseReset
<1>18. CASE CheckerCloseStop
  BY <1>18 DEF CheckerCloseStop
<1>19. CASE CheckerRelease
  BY <1>19 DEF CheckerRelease
<1>20. CASE CheckerStopTest
  BY <1>20 DEF CheckerStopTest
<1>21. CASE UpgradePause
  BY <1>21 DEF UpgradePause
<1>22. CASE UpgradeFind
  BY <1>22 DEF UpgradeFind
<1>23. CASE UpgradeResume
  BY <1>23 DEF UpgradeResume
<1>24. CASE UpgradeFoundLast
  BY <1>24 DEF UpgradeFoundLast
<1>25. CASE UpgradeNotFound
  BY <1>25 DEF UpgradeNotFound
<1>26. CASE UpgradeCloseStop
  BY <1>26 DEF UpgradeCloseStop
<1>27. CASE UNCHANGED vars
  BY <1>27 DEF vars
<1>28. QED
  BY <1>1, <1>2, <1>3, <1>4, <1>5, <1>6, <1>7, <1>8, <1>9, <1>10, <1>11, <1>12,
     <1>13, <1>14, <1>15, <1>16, <1>17, <1>18, <1>19, <1>20, <1>21, <1>22, <1>23,
     <1>24, <1>25, <1>26, <1>27
     DEF Next, ReceiverStep, ParserStep, CheckerStep, UpgradeStep

-----------------------------------------------------------------------------
(***************************************************************************)
(* Blocks taken from data_queue, and blocks put into it; data_queue holds  *)
(* what is between the two, in order.  Stray reads and late parses are     *)
(* counted among the blocks, which bounds their counters.                  *)
(***************************************************************************)
Taken   == parsed + (IF parser = "analyse" THEN 1 ELSE 0)
Entered == delivered - (IF receiver \in {"put", "dead"} THEN 1 ELSE 0)

Between ==
  /\ Len(dataQueue) = Entered - Taken
  /\ \A i \in 1..Len(dataQueue) : dataQueue[i] = Taken + i

Counters ==
  /\ delivered \in 0..MaxBlocks /\ parsed \in Nat
  /\ strayReads \in 0..delivered /\ lateParses \in 0..Taken

OrderInv == dataQueue \in Seq(1..MaxBlocks) /\ Between /\ Counters

LEMMA OrderInit == Init => OrderInv
<1> SUFFICES ASSUME Init PROVE OrderInv
  OBVIOUS
<1>1. Taken = 0 /\ Entered = 0
  <2>1. parser # "analyse" /\ receiver \notin {"put", "dead"}
    BY Zenon DEF Init
  <2>2. parsed = 0 /\ delivered = 0
    BY Zenon DEF Init
  <2>3. Taken = parsed + 0 /\ Entered = delivered - 0
    BY <2>1 DEF Taken, Entered
  <2>4. QED
    BY <2>2, <2>3
<1>2. dataQueue = <<>> /\ Len(dataQueue) = 0
  BY DEF Init
<1>3. dataQueue \in Seq(1..MaxBlocks)
  BY <1>2
<1>4. Between
  BY <1>1, <1>2 DEF Between
<1>5. Counters
  BY <1>1, CenterThreadsAssumption DEF Init, Counters
<1>6. QED
  BY <1>3, <1>4, <1>5 DEF OrderInv

(* A step that moves no block disturbs nothing.                             *)
LEMMA OrderKept ==
  ASSUME OrderInv, Taken' = Taken, Entered' = Entered,
         UNCHANGED <<dataQueue, delivered, parsed, lateParses>>,
         strayReads' \in {0, strayReads}
  PROVE  OrderInv'
<1>1. Between'
  BY DEF OrderInv, Between
<1>2. Counters'
  BY CenterThreadsAssumption DEF OrderInv, Counters
<1>3. QED
  BY <1>1, <1>2 DEF OrderInv

(* The counters of blocks are numbers.                                      *)
LEMMA CounterFacts ==
  ASSUME OrderInv
  PROVE  /\ Taken \in Nat /\ Entered \in Int /\ Entered <= delivered
         /\ delivered \in Nat /\ delivered <= MaxBlocks /\ MaxBlocks \in Nat
         /\ Taken <= Entered
<1>1. Taken \in Nat /\ Entered \in Int /\ Entered <= delivered
  BY CenterThreadsAssumption DEF OrderInv, Counters, Taken, Entered
<1>2. Len(dataQueue) \in Nat
  BY DEF OrderInv
<1>3. QED
  BY <1>1, <1>2, CenterThreadsAssumption DEF OrderInv, Between, Counters

LEMMA OrderRead == ASSUME OrderInv, ReceiverRead PROVE OrderInv'
<1>1. Taken' = Taken /\ Entered' = Entered
  BY CenterThreadsAssumption
  DEF ReceiverRead, OrderInv, Counters, Taken, Entered
<1>2. Between' /\ dataQueue' \in Seq(1..MaxBlocks)
  BY <1>1 DEF ReceiverRead, OrderInv, Between
<1>3. strayReads' \in 0..delivered' /\ delivered' \in 0..MaxBlocks
  BY CenterThreadsAssumption DEF ReceiverRead, OrderInv, Counters
<1>4. Counters'
  BY <1>1, <1>3 DEF ReceiverRead, OrderInv, Counters
<1>5. QED
  BY <1>2, <1>4 DEF OrderInv

LEMMA OrderPut == ASSUME OrderInv, ReceiverPut PROVE OrderInv'
<1> USE CounterFacts
<1>1. Taken' = Taken /\ Entered = delivered - 1 /\ Entered' = delivered
  BY DEF ReceiverPut, Taken, Entered, history
<1>2. delivered \in 1..MaxBlocks
  BY <1>1
<1>3. dataQueue' = Append(dataQueue, delivered) /\ dataQueue' \in Seq(1..MaxBlocks)
  BY <1>2 DEF ReceiverPut, OrderInv
<1>4. /\ Len(dataQueue') = Len(dataQueue) + 1 /\ Len(dataQueue) \in Nat
      /\ \A i \in 1..Len(dataQueue) : dataQueue'[i] = dataQueue[i]
      /\ dataQueue'[Len(dataQueue) + 1] = delivered
  BY <1>2, <1>3 DEF OrderInv
<1>5. Len(dataQueue) = Entered - Taken
  BY DEF OrderInv, Between
<1>6. ASSUME NEW i \in 1..Len(dataQueue') PROVE dataQueue'[i] = Taken' + i
  <2>1. CASE i \in 1..Len(dataQueue)
    BY <2>1, <1>1, <1>4 DEF OrderInv, Between
  <2>2. CASE i = Len(dataQueue) + 1
    BY <2>2, <1>1, <1>4, <1>5
  <2>3. QED
    BY <2>1, <2>2, <1>4
<1>7. Between'
  BY <1>1, <1>4, <1>5, <1>6 DEF Between
<1>8. Counters'
  BY <1>1 DEF ReceiverPut, OrderInv, Counters, history
<1>9. QED
  BY <1>3, <1>7, <1>8 DEF OrderInv

LEMMA OrderTake == ASSUME OrderInv, ParserTake PROVE OrderInv'
<1> USE CounterFacts
<1>1. CASE dataQueue = <<>>
  <2>1. Taken' = Taken /\ Entered' = Entered
    BY <1>1 DEF ParserTake, Taken, Entered
  <2>2. QED
    BY <1>1, <2>1, OrderKept DEF ParserTake
<1>2. CASE dataQueue # <<>>
  <2>1. Taken' = Taken + 1 /\ Entered' = Entered
    BY <1>2 DEF ParserTake, OrderInv, Counters, Taken, Entered
  <2>2. dataQueue' = Tail(dataQueue)
    BY <1>2 DEF ParserTake
  <2>3. /\ Len(dataQueue) \in Nat /\ Len(dataQueue) > 0
        /\ Len(dataQueue') = Len(dataQueue) - 1
        /\ dataQueue' \in Seq(1..MaxBlocks)
        /\ \A i \in 1..Len(dataQueue') : dataQueue'[i] = dataQueue[i + 1]
    BY <1>2, <2>2 DEF OrderInv
  <2>4. Len(dataQueue) = Entered - Taken
    BY DEF OrderInv, Between
  <2>5. ASSUME NEW i \in 1..Len(dataQueue') PROVE dataQueue'[i] = Taken' + i
    <3>1. i + 1 \in 1..Len(dataQueue) /\ i \in Nat
      BY <2>3
    <3>2. dataQueue[i + 1] = Taken + (i + 1)
      BY <3>1 DEF OrderInv, Between
    <3>3. QED
      BY <2>1, <2>3, <3>1, <3>2
  <2>6. Between'
    BY <2>1, <2>3, <2>4, <2>5 DEF Between
  <2>7. lateParses' \in {lateParses, lateParses + 1}
    BY <1>2 DEF ParserTake
  <2>8. Counters'
    BY <2>1, <2>7 DEF ParserTake, OrderInv, Counters
  <2>9. QED
    BY <2>3, <2>6, <2>8 DEF OrderInv
<1>3. QED
  BY <1>1, <1>2

LEMMA OrderAnalyse == ASSUME OrderInv, ParserAnalyse PROVE OrderInv'
<1> USE CounterFacts
<1>1. Taken' = Taken /\ Entered' = Entered
  BY DEF ParserAnalyse, OrderInv, Counters, Taken, Entered
<1>2. Between' /\ dataQueue' \in Seq(1..MaxBlocks)
  BY <1>1 DEF ParserAnalyse, OrderInv, Between
<1>3. Counters'
  BY <1>1 DEF ParserAnalyse, OrderInv, Counters
<1>4. QED
  BY <1>2, <1>3 DEF OrderInv

LEMMA OrderStep == OrderInv /\ [Next]_vars => OrderInv'
<1> SUFFICES ASSUME OrderInv, [Next]_vars PROVE OrderInv'
  OBVIOUS
<1> DEFINE Moves == ReceiverRead \/ ReceiverPut \/ ParserTake \/ ParserAnalyse
<1>1. CASE Moves
  BY <1>1, OrderRead, OrderPut, OrderTake, OrderAnalyse
<1>2. CASE ~Moves
  <2> USE DEF Next, ReceiverStep, ParserStep, CheckerStep, UpgradeStep,
       ReceiverTop, ReceiverRead, ReceiverReadNothing, ReceiverPut,
       ReceiverReadRaises, ReceiverFlag,
       ParserTop, ParserLocking, ParserPausing, ParserTake, ParserAnalyse,
       CheckerLock, CheckerTest, CheckerReset, CheckerFinds, CheckerFindRaises,
       CheckerCloseReset, CheckerCloseStop, CheckerRelease, CheckerStopTest,
       UpgradePause, UpgradeFind, UpgradeResume, UpgradeFoundLast, UpgradeNotFound,
       UpgradeCloseStop, vars, flags, history
  <2>1. /\ UNCHANGED <<dataQueue, delivered, parsed, lateParses>>
        /\ strayReads' \in {0, strayReads}
    BY <1>2
  <2>2. Taken' = Taken
    BY <1>2 DEF Taken
  <2>3. Entered' = Entered
    BY <1>2 DEF Entered
  <2>4. QED
    BY <2>1, <2>2, <2>3, OrderKept
<1>3. QED
  BY <1>1, <1>2

LEMMA OrderHolds == Spec => []OrderInv
BY OrderInit, OrderStep, PTL DEF Spec

(* Every attribute of the center and every counter keeps its type: in       *)
(* particular no block is parsed that was not read.                         *)
THEOREM TypeCorrect == Spec => []TypeOK
<1>1. ThreadTypes /\ OrderInv => TypeOK
  <2> SUFFICES ASSUME ThreadTypes, OrderInv PROVE TypeOK
    OBVIOUS
  <2>1. strayReads \in 0..MaxBlocks /\ lateParses \in 0..MaxBlocks
    BY CounterFacts DEF OrderInv, Counters
  <2>2. parsed <= Taken /\ parsed \in Nat
    BY DEF Taken, OrderInv, Counters
  <2>3. parsed \in 0..MaxBlocks /\ delivered \in 0..MaxBlocks
    BY <2>2, CounterFacts DEF OrderInv, Counters
  <2>4. QED
    BY <2>1, <2>3 DEF ThreadTypes, OrderInv, TypeOK
<1>2. QED
  BY <1>1, OrderHolds, ThreadTypesInit, ThreadTypesStep, PTL DEF Spec

(* The blocks reach the parser in the order in which they were read, none   *)
(* twice and none left out, across pauses, errors and stops.                *)
THEOREM BlocksKeepOrder == Spec => []BlocksInOrder
<1>1. OrderInv => BlocksInOrder
  <2> SUFFICES ASSUME OrderInv PROVE BlocksInOrder
    OBVIOUS
  <2>1. DOMAIN dataQueue = 1..Len(dataQueue)
    BY DEF OrderInv
  <2>2. QED
    BY <2>1 DEF OrderInv, Between, Entered, Taken, BlocksInOrder
<1>2. QED
  BY <1>1, OrderHolds, PTL

-----------------------------------------------------------------------------
(***************************************************************************)
(* The receiver sets _has_exception as the last thing it does; so whoever  *)
(* finds it set, and whatever the checker does then, the receiver is gone. *)
(***************************************************************************)
FlaggedLast == hasException => receiver = "exited"

ReportedLast ==
  checker \in {"reset", "find", "closing", "stopping"} => receiver = "exited"

AloneInv == FlaggedLast /\ ReportedLast

LEMMA AloneInit == Init => AloneInv
BY DEF Init, AloneInv, FlaggedLast, ReportedLast

LEMMA AloneStep == AloneInv /\ [Next]_vars => AloneInv'
<1> SUFFICES ASSUME AloneInv, [Next]_vars PROVE AloneInv'
  OBVIOUS
<1> USE DEF AloneInv, FlaggedLast, ReportedLast, flags
<1>1. CASE ReceiverTop
  BY <1>1 DEF ReceiverTop
<1>2. CASE ReceiverRead
  BY <1>2 DEF ReceiverRead
<1>3. CASE ReceiverReadNothing
  BY <1>3 DEF ReceiverReadNothing
<1>4. CASE ReceiverPut
  BY <1>4 DEF ReceiverPut
<1>5. CASE ReceiverReadRaises
  BY <1>5 DEF ReceiverReadRaises
<1>6. CASE ReceiverFlag
  BY <1>6 DEF ReceiverFlag
<1>7. CASE ParserTop
  BY <1>7 DEF ParserTop
<1>8. CASE ParserLocking
  BY <1>8 DEF ParserLocking
<1>9. CASE ParserPausing
  BY <1>9 DEF ParserPausing
<1>10. CASE ParserTake
  BY <1>10 DEF ParserTake
<1>11. CASE ParserAnalyse
  BY <1>11 DEF ParserAnalyse
<1>12. CASE CheckerLock
  BY <1>12 DEF CheckerLock
<1>13. CASE CheckerTest
  BY <1>13 DEF CheckerTest
<1>14. CASE CheckerReset
  BY <1>14 DEF CheckerReset
<1>15. CASE CheckerFinds
  BY <1>15 DEF CheckerFinds
<1>16. CASE CheckerFindRaises
  BY <1>16 DEF CheckerFindRaises
<1>17. CASE CheckerCloseReset
  BY <1>17 DEF CheckerCloseReset
<1>18. CASE CheckerCloseStop
  BY <1>18 DEF CheckerCloseStop
<1>19. CASE CheckerRelease
  BY <1>19 DEF CheckerRelease
<1>20. CASE CheckerStopTest
  BY <1>20 DEF CheckerStopTest
<1>21. CASE UpgradePause
  BY <1>21 DEF UpgradePause
<1>22. CASE UpgradeFind
  BY <1>22 DEF UpgradeFind
<1>23. CASE UpgradeResume
  BY <1>23 DEF UpgradeResume
<1>24. CASE UpgradeFoundLast
  BY <1>24 DEF UpgradeFoundLast
<1>25. CASE UpgradeNotFound
  BY <1>25 DEF UpgradeNotFound
<1>26. CASE UpgradeCloseStop
  BY <1>26 DEF UpgradeCloseStop
<1>27. CASE UNCHANGED vars
  BY <1>27 DEF vars
<1>28. QED
  BY <1>1, <1>2, <1>3, <1>4, <1>5, <1>6, <1>7, <1>8, <1>9, <1>10, <1>11, <1>12,
     <1>13, <1>14, <1>15, <1>16, <1>17, <1>18, <1>19, <1>20, <1>21, <1>22, <1>23,
     <1>24, <1>25, <1>26, <1>27
     DEF Next, ReceiverStep, ParserStep, CheckerStep, UpgradeStep

(* While the driver looks for the device, the receiver of the broken center *)
(* reads no more, whatever an upgrade does at the same time.                *)
THEOREM FindsAlone == Spec => []FindAlone
<1>1. AloneInv => FindAlone
  BY DEF AloneInv, ReportedLast, FindAlone
<1>2. QED
  BY AloneInit, AloneStep, <1>1, PTL DEF Spec

-----------------------------------------------------------------------------
(***************************************************************************)
(* While an upgrade has the device, pause or stop is set or the receiver   *)
(* is gone, although the checker may clear pause; a receiver that has      *)
(* taken a block since is on its way to that test.                         *)
(***************************************************************************)
SwitchedOff == TakenOver => isPause \/ isStop \/ receiver = "exited"

OneAtMost ==
  strayReads \in {0, 1} /\ (TakenOver => strayReads = 0 \/ receiver # "read")

StrayInv == AloneInv /\ SwitchedOff /\ OneAtMost

LEMMA StrayInit == Init => StrayInv
BY AloneInit DEF Init, StrayInv, SwitchedOff, OneAtMost, TakenOver

LEMMA StrayStep == StrayInv /\ [Next]_vars => (SwitchedOff /\ OneAtMost)'
<1> SUFFICES ASSUME StrayInv, [Next]_vars PROVE (SwitchedOff /\ OneAtMost)'
  OBVIOUS
<1> USE DEF StrayInv, AloneInv, ReportedLast, SwitchedOff, OneAtMost, TakenOver,
      flags, history
<1>1. CASE ReceiverTop
  BY <1>1 DEF ReceiverTop
<1>2. CASE ReceiverRead
  BY <1>2 DEF ReceiverRead
<1>3. CASE ReceiverReadNothing
  BY <1>3 DEF ReceiverReadNothing
<1>4. CASE ReceiverPut
  BY <1>4 DEF ReceiverPut
<1>5. CASE ReceiverReadRaises
  BY <1>5 DEF ReceiverReadRaises
<1>6. CASE ReceiverFlag
  BY <1>6 DEF ReceiverFlag
<1>7. CASE ParserTop
  BY <1>7 DEF ParserTop
<1>8. CASE ParserLocking
  BY <1>8 DEF ParserLocking
<1>9. CASE ParserPausing
  BY <1>9 DEF ParserPausing
<1>10. CASE ParserTake
  BY <1>10 DEF ParserTake
<1>11. CASE ParserAnalyse
  BY <1>11 DEF ParserAnalyse
<1>12. CASE CheckerLock
  BY <1>12 DEF CheckerLock
<1>13. CASE CheckerTest
  BY <1>13 DEF CheckerTest
<1>14. CASE CheckerReset
  BY <1>14 DEF CheckerReset
<1>15. CASE CheckerFinds
  BY <1>15 DEF CheckerFinds
<1>16. CASE CheckerFindRaises
  BY <1>16 DEF CheckerFindRaises
<1>17. CASE CheckerCloseReset
  BY <1>17 DEF CheckerCloseReset
<1>18. CASE CheckerCloseStop
  BY <1>18 DEF CheckerCloseStop
<1>19. CASE CheckerRelease
  BY <1>19 DEF CheckerRelease
<1>20. CASE CheckerStopTest
  BY <1>20 DEF CheckerStopTest
<1>21. CASE UpgradePause
  BY <1>21 DEF UpgradePause
<1>22. CASE UpgradeFind
  BY <1>22 DEF UpgradeFind
<1>23. CASE UpgradeResume
  BY <1>23 DEF UpgradeResume
<1>24. CASE UpgradeFoundLast
  BY <1>24 DEF UpgradeFoundLast
<1>25. CASE UpgradeNotFound
  BY <1>25 DEF UpgradeNotFound
<1>26. CASE UpgradeCloseStop
  BY <1>26 DEF UpgradeCloseStop
<1>27. CASE UNCHANGED vars
  BY <1>27 DEF vars
<1>28. QED
  BY <1>1, <1>2, <1>3, <1>4, <1>5, <1>6, <1>7, <1>8, <1>9, <1>10, <1>11, <1>12,
     <1>13, <1>14, <1>15, <1>16, <1>17, <1>18, <1>19, <1>20, <1>21, <1>22, <1>23,
     <1>24, <1>25, <1>26, <1>27
     DEF Next, ReceiverStep, ParserStep, CheckerStep, UpgradeStep

(* After pause(), and again after stop(), the receiver takes at most one    *)
(* block that was meant for an upgrade worker or a ping.                    *)
THEOREM OneStrayRead == Spec => []AtMostOneStrayRead
<1>1. StrayInv /\ [Next]_vars => StrayInv'
  BY StrayStep, AloneStep DEF StrayInv
<1>2. StrayInv => AtMostOneStrayRead
  BY DEF StrayInv, OneAtMost, AtMostOneStrayRead
<1>3. QED
  BY StrayInit, <1>1, <1>2, PTL DEF Spec

-----------------------------------------------------------------------------
(* stop() is never taken back, and a parser that has taken a block since    *)
(* meets it next.                                                           *)
LateInv ==
  /\ lateParses \in {0, 1}
  /\ lateParses = 1 => isStop /\ parser \notin {"locking", "pausing", "take"}

LEMMA LateInit == Init => LateInv
BY DEF Init, LateInv

LEMMA LateStep == LateInv /\ [Next]_vars => LateInv'
<1> SUFFICES ASSUME LateInv, [Next]_vars PROVE LateInv'
  OBVIOUS
<1> USE DEF LateInv, flags, history
<1>1. CASE ReceiverTop
  BY <1>1 DEF ReceiverTop
<1>2. CASE ReceiverRead
  BY <1>2 DEF ReceiverRead
<1>3. CASE ReceiverReadNothing
  BY <1>3 DEF ReceiverReadNothing
<1>4. CASE ReceiverPut
  BY <1>4 DEF ReceiverPut
<1>5. CASE ReceiverReadRaises
  BY <1>5 DEF ReceiverReadRaises
<1>6. CASE ReceiverFlag
  BY <1>6 DEF ReceiverFlag
<1>7. CASE ParserTop
  BY <1>7 DEF ParserTop
<1>8. CASE ParserLocking
  BY <1>8 DEF ParserLocking
<1>9. CASE ParserPausing
  BY <1>9 DEF ParserPausing
<1>10. CASE ParserTake
  BY <1>10 DEF ParserTake
<1>11. CASE ParserAnalyse
  BY <1>11 DEF ParserAnalyse
<1>12. CASE CheckerLock
  BY <1>12 DEF CheckerLock
<1>13. CASE CheckerTest
  BY <1>13 DEF CheckerTest
<1>14. CASE CheckerReset
  BY <1>14 DEF CheckerReset
<1>15. CASE CheckerFinds
  BY <1>15 DEF CheckerFinds
<1>16. CASE CheckerFindRaises
  BY <1>16 DEF CheckerFindRaises
<1>17. CASE CheckerCloseReset
  BY <1>17 DEF CheckerCloseReset
<1>18. CASE CheckerCloseStop
  BY <1>18 DEF CheckerCloseStop
<1>19. CASE CheckerRelease
  BY <1>19 DEF CheckerRelease
<1>20. CASE CheckerStopTest
  BY <1>20 DEF CheckerStopTest
<1>21. CASE UpgradePause
  BY <1>21 DEF UpgradePause
<1>22. CASE UpgradeFind
  BY <1>22 DEF UpgradeFind
<1>23. CASE UpgradeResume
  BY <1>23 DEF UpgradeResume
<1>24. CASE UpgradeFoundLast
  BY <1>24 DEF UpgradeFoundLast
<1>25. CASE UpgradeNotFound
  BY <1>25 DEF UpgradeNotFound
<1>26. CASE UpgradeCloseStop
  BY <1>26 DEF UpgradeCloseStop
<1>27. CASE UNCHANGED vars
  BY <1>27 DEF vars
<1>28. QED
  BY <1>1, <1>2, <1>3, <1>4, <1>5, <1>6, <1>7, <1>8, <1>9, <1>10, <1>11, <1>12,
     <1>13, <1>14, <1>15, <1>16, <1>17, <1>18, <1>19, <1>20, <1>21, <1>22, <1>23,
     <1>24, <1>25, <1>26, <1>27
     DEF Next, ReceiverStep, ParserStep, CheckerStep, UpgradeStep

(* A stopped center hands at most one block to its parser.                  *)
THEOREM OneLateParse == Spec => []AtMostOneLateParse
<1>1. LateInv => AtMostOneLateParse
  BY DEF LateInv, AtMostOneLateParse
<1>2. QED
  BY LateInit, LateStep, <1>1, PTL DEF Spec
=============================================================================
