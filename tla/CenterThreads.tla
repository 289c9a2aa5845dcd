--------------------------- MODULE CenterThreads ---------------------------
(***************************************************************************)
(* The threads of one DeviceMessageCenter and those who switch it off and  *)
(* on: thread_receiver reads the communicator and fills data_queue,        *)
(* thread_parser empties it, thread_running_checker reports a read error   *)
(* to the driver, which resets the provider, finds the device again and    *)
(* replaces the center, all on the checker thread and with exception_lock  *)
(* held; a firmware upgrade pauses the center, finds the device again and  *)
(* resumes the center or, when the device is gone, closes it.              *)
(*                                                                         *)
(* Commands (timeout_check, on_command_receive) are in MessageCenter.      *)
(***************************************************************************)
EXTENDS Naturals, Sequences

CONSTANTS
  MaxBlocks,   \* bound: data blocks the communicator delivers
  MaxUpgrades, \* bound: firmware upgrades
  Faults       \* what may go wrong, a subset of FaultKinds

(***************************************************************************)
(* "read": communicator.read raises; "raw": a READ_BLOCK listener raises;  *)
(* "frame": parser.analyse raises (an Ethernet frame that is too short);   *)
(* "find": find_device raises (an assigned serial port without a device).  *)
(***************************************************************************)
FaultKinds == {"read", "raw", "frame", "find"}

ASSUME CenterThreadsAssumption ==
  /\ MaxBlocks \in Nat /\ MaxUpgrades \in Nat
  /\ Faults \subseteq FaultKinds

VARIABLES
  hasException,   \* _has_exception
  isPause,        \* _is_pause
  isStop,         \* _is_stop
  lockHeld,       \* exception_lock is held by the checker across steps
  dataQueue,      \* data_queue: block numbers
  receiver, parser, checker, upgrader,   \* where the threads are
  delivered,      \* history: number of blocks read so far
  parsed,         \* history: number of blocks given to parser.analyse
  failed,         \* history: a read has raised
  errors,         \* history: number of ERROR events
  strayReads,     \* history: blocks read since an upgrade took the device over
  lateParses,     \* history: blocks taken since the center was stopped
  upgrades        \* number of upgrades begun

flags   == <<hasException, isPause, isStop>>
history == <<delivered, parsed, failed, errors, strayReads, lateParses, upgrades>>
vars == <<flags, lockHeld, dataQueue, receiver, parser, checker, upgrader, history>>

ReceiverPc == {"top", "read", "put", "flag", "exited", "dead"}
ParserPc   == {"top", "locking", "pausing", "take", "analyse", "exited", "dead"}
CheckerPc  == {"loop", "test", "reset", "find", "closing", "stopping", "release",
               "stopTest", "exited", "dead"}
UpgraderPc == {"idle", "work", "find", "stopping", "findAgain", "gone"}

(* An upgrade reads the communicator itself. *)
TakenOver == upgrader \in {"work", "find", "findAgain"}

Init ==
  /\ hasException = FALSE /\ isPause = FALSE /\ isStop = FALSE
  /\ lockHeld = FALSE
  /\ dataQueue = <<>>
  /\ receiver = "top" /\ parser = "top" /\ checker = "loop" /\ upgrader = "idle"
  /\ delivered = 0 /\ parsed = 0
  /\ failed = FALSE /\ errors = 0
  /\ strayReads = 0 /\ lateParses = 0 /\ upgrades = 0

-----------------------------------------------------------------------------
(* Faulty variants of operations below, each with one defect; they show     *)
(* that the properties at the end of the module can fail.                   *)

(* the receiver does not look at _is_pause *)
ReceiverTopUnpaused ==
  /\ receiver = "top"
  /\ receiver' = IF hasException \/ isStop THEN "exited" ELSE "read"
  /\ UNCHANGED <<flags, lockHeld, dataQueue, parser, checker, upgrader, history>>

(* the receiver also queues what an empty read returns *)
ReceiverPutsNothing ==
  /\ receiver = "read"
  /\ receiver' = "put"
  /\ UNCHANGED <<flags, lockHeld, dataQueue, parser, checker, upgrader, history>>

(* a bounded queue that keeps the newest block only *)
ReceiverPutNewest ==
  /\ receiver = "put"
  /\ dataQueue' = <<delivered>>
  /\ receiver' = "top"
  /\ UNCHANGED <<flags, lockHeld, parser, checker, upgrader, history>>

(* the receiver goes on after a read error *)
ReceiverFlagAndGoOn ==
  /\ receiver = "flag" /\ ~lockHeld
  /\ hasException' = TRUE
  /\ receiver' = "top"
  /\ UNCHANGED <<isPause, isStop, lockHeld, dataQueue, parser, checker,
                 upgrader, history>>

(* the receiver returns without setting _has_exception *)
ReceiverFlagForgotten ==
  /\ receiver = "flag" /\ ~lockHeld
  /\ receiver' = "exited"
  /\ UNCHANGED <<flags, lockHeld, dataQueue, parser, checker, upgrader, history>>

(* the parser looks at _has_exception only *)
ParserTopUnstopped ==
  /\ parser = "top"
  /\ parser' = IF hasException THEN "exited" ELSE "locking"
  /\ UNCHANGED <<flags, lockHeld, dataQueue, receiver, checker, upgrader, history>>

(* the parser returns without releasing exception_lock *)
ParserLockingKept ==
  /\ parser = "locking" /\ ~lockHeld
  /\ parser' = IF hasException THEN "exited" ELSE "pausing"
  /\ lockHeld' = hasException
  /\ UNCHANGED <<flags, dataQueue, receiver, checker, upgrader, history>>

-----------------------------------------------------------------------------
(* thread_receiver                                                          *)

ReceiverTop ==
  /\ receiver = "top"
  /\ receiver' = IF hasException \/ isStop THEN "exited"
                 ELSE IF isPause THEN "top" ELSE "read"
  /\ UNCHANGED <<flags, lockHeld, dataQueue, parser, checker, upgrader, history>>

(* read() returns a block, and the READ_BLOCK listeners see it.             *)
ReceiverRead ==
  /\ receiver = "read" /\ delivered < MaxBlocks
  /\ delivered' = delivered + 1
  /\ strayReads' = IF TakenOver THEN strayReads + 1 ELSE strayReads
  /\ \/ receiver' = "put"
     \/ "raw" \in Faults /\ receiver' = "dead"
  /\ UNCHANGED <<flags, lockHeld, dataQueue, parser, checker, upgrader,
                 parsed, failed, errors, lateParses, upgrades>>

ReceiverReadNothing ==
  /\ receiver = "read"
  /\ receiver' = "top"
  /\ UNCHANGED <<flags, lockHeld, dataQueue, parser, checker, upgrader, history>>

ReceiverPut ==
  /\ receiver = "put"
  /\ dataQueue' = Append(dataQueue, delivered)
  /\ receiver' = "top"
  /\ UNCHANGED <<flags, lockHeld, parser, checker, upgrader, history>>

ReceiverReadRaises ==
  /\ "read" \in Faults
  /\ receiver = "read"
  /\ receiver' = "flag"
  /\ failed' = TRUE
  /\ UNCHANGED <<flags, lockHeld, dataQueue, parser, checker, upgrader,
                 delivered, parsed, errors, strayReads, lateParses, upgrades>>

(* acquire; set; release; return                                            *)
ReceiverFlag ==
  /\ receiver = "flag" /\ ~lockHeld
  /\ hasException' = TRUE
  /\ receiver' = "exited"
  /\ UNCHANGED <<isPause, isStop, lockHeld, dataQueue, parser, checker,
                 upgrader, history>>

-----------------------------------------------------------------------------
(* thread_parser                                                            *)

ParserTop ==
  /\ parser = "top"
  /\ parser' = IF hasException \/ isStop THEN "exited" ELSE "locking"
  /\ UNCHANGED <<flags, lockHeld, dataQueue, receiver, checker, upgrader, history>>

(* acquire; test again; release                                             *)
ParserLocking ==
  /\ parser = "locking" /\ ~lockHeld
  /\ parser' = IF hasException THEN "exited" ELSE "pausing"
  /\ UNCHANGED <<flags, lockHeld, dataQueue, receiver, checker, upgrader, history>>

ParserPausing ==
  /\ parser = "pausing"
  /\ parser' = IF isPause THEN "top" ELSE "take"
  /\ UNCHANGED <<flags, lockHeld, dataQueue, receiver, checker, upgrader, history>>

ParserTake ==
  /\ parser = "take"
  /\ IF dataQueue = <<>>
     THEN /\ parser' = "top"
          /\ UNCHANGED <<dataQueue, lateParses>>
     ELSE /\ parser' = "analyse"
          /\ dataQueue' = Tail(dataQueue)
          /\ lateParses' = IF isStop THEN lateParses + 1 ELSE lateParses
  /\ UNCHANGED <<flags, lockHeld, receiver, checker, upgrader,
                 delivered, parsed, failed, errors, strayReads, upgrades>>

ParserAnalyse ==
  /\ parser = "analyse"
  /\ parsed' = parsed + 1
  /\ \/ parser' = "top"
     \/ "frame" \in Faults /\ parser' = "dead"
  /\ UNCHANGED <<flags, lockHeld, dataQueue, receiver, checker, upgrader,
                 delivered, failed, errors, strayReads, lateParses, upgrades>>

-----------------------------------------------------------------------------
(* thread_running_checker, with the driver's _handle_device_exception and   *)
(* _device_discover_handler, which run inside the ERROR event.              *)

CheckerLock ==
  /\ checker = "loop" /\ ~lockHeld
  /\ lockHeld' = TRUE
  /\ checker' = "test"
  /\ UNCHANGED <<flags, dataQueue, receiver, parser, upgrader, history>>

CheckerTest ==
  /\ checker = "test"
  /\ IF hasException
     THEN checker' = "reset" /\ errors' = errors + 1
     ELSE checker' = "release" /\ UNCHANGED errors
  /\ UNCHANGED <<flags, lockHeld, dataQueue, receiver, parser, upgrader,
                 delivered, parsed, failed, strayReads, lateParses, upgrades>>

(* provider.reset() resumes the center, which also clears _has_exception.   *)
CheckerReset ==
  /\ checker = "reset"
  /\ hasException' = FALSE /\ isPause' = FALSE
  /\ checker' = "find"
  /\ UNCHANGED <<isStop, lockHeld, dataQueue, receiver, parser, upgrader, history>>

(* find_device calls _device_discover_handler with the device it found.     *)
CheckerFinds ==
  /\ checker = "find"
  /\ checker' = "closing"
  /\ UNCHANGED <<flags, lockHeld, dataQueue, receiver, parser, upgrader, history>>

(* Nothing catches the exception: the thread ends with the lock held.       *)
CheckerFindRaises ==
  /\ "find" \in Faults
  /\ checker = "find"
  /\ checker' = "dead"
  /\ UNCHANGED <<flags, lockHeld, dataQueue, receiver, parser, upgrader, history>>

(* provider.close(): reset() once more, then stop(); a new center follows.  *)
CheckerCloseReset ==
  /\ checker = "closing"
  /\ hasException' = FALSE /\ isPause' = FALSE
  /\ checker' = "stopping"
  /\ UNCHANGED <<isStop, lockHeld, dataQueue, receiver, parser, upgrader, history>>

CheckerCloseStop ==
  /\ checker = "stopping"
  /\ isStop' = TRUE
  /\ checker' = "release"
  /\ UNCHANGED <<hasException, isPause, lockHeld, dataQueue, receiver, parser,
                 upgrader, history>>

CheckerRelease ==
  /\ checker = "release"
  /\ lockHeld' = FALSE
  /\ checker' = "stopTest"
  /\ UNCHANGED <<flags, dataQueue, receiver, parser, upgrader, history>>

CheckerStopTest ==
  /\ checker = "stopTest"
  /\ checker' = IF isStop THEN "exited" ELSE "loop"
  /\ UNCHANGED <<flags, lockHeld, dataQueue, receiver, parser, upgrader, history>>

-----------------------------------------------------------------------------
(* The firmware upgrade: upgrade_framework, handle_upgrade_complete and the *)
(* driver's handlers.  Once this center is stopped, they act on another one.*)

UpgradePause ==
  /\ upgrader = "idle" /\ upgrades < MaxUpgrades /\ ~isStop
  /\ isPause' = TRUE
  /\ upgrader' = "work"
  /\ upgrades' = upgrades + 1
  /\ strayReads' = 0
  /\ UNCHANGED <<hasException, isStop, lockHeld, dataQueue, receiver, parser,
                 checker, delivered, parsed, failed, errors, lateParses>>

(* _handle_device_upgrade_restart: find_device with two retries.            *)
UpgradeFind ==
  /\ upgrader = "work"
  /\ upgrader' = "find"
  /\ UNCHANGED <<flags, lockHeld, dataQueue, receiver, parser, checker, history>>

(* _device_upgrade_restart_handler: upgrade_completed resumes the center.   *)
UpgradeResume ==
  /\ upgrader = "find"
  /\ upgrader' = "idle"
  /\ IF isStop THEN UNCHANGED flags
     ELSE hasException' = FALSE /\ isPause' = FALSE /\ UNCHANGED isStop
  /\ UNCHANGED <<lockHeld, dataQueue, receiver, parser, checker, history>>

(* find_device of the serial port found the device in its last try: it      *)
(* returns without calling either handler, and is_upgrading, still set,     *)
(* keeps a second upgrade from beginning.                                   *)
UpgradeFoundLast ==
  /\ upgrader = "find"
  /\ upgrader' = "gone"
  /\ UNCHANGED <<flags, lockHeld, dataQueue, receiver, parser, checker, history>>

(* _device_not_found_handler: close() the provider, then find_device again. *)
UpgradeNotFound ==
  /\ upgrader = "find" /\ ~isStop
  /\ hasException' = FALSE /\ isPause' = FALSE
  /\ upgrader' = "stopping"
  /\ UNCHANGED <<isStop, lockHeld, dataQueue, receiver, parser, checker, history>>

UpgradeCloseStop ==
  /\ upgrader = "stopping"
  /\ isStop' = TRUE
  /\ strayReads' = 0
  /\ upgrader' = "findAgain"
  /\ UNCHANGED <<hasException, isPause, lockHeld, dataQueue, receiver, parser,
                 checker, delivered, parsed, failed, errors, lateParses, upgrades>>

-----------------------------------------------------------------------------
ReceiverStep ==
  \/ ReceiverTop \/ ReceiverRead \/ ReceiverReadNothing \/ ReceiverPut
  \/ ReceiverReadRaises \/ ReceiverFlag

ParserStep ==
  ParserTop \/ ParserLocking \/ ParserPausing \/ ParserTake \/ ParserAnalyse

CheckerStep ==
  \/ CheckerLock \/ CheckerTest \/ CheckerReset \/ CheckerFinds
  \/ CheckerFindRaises \/ CheckerCloseReset \/ CheckerCloseStop
  \/ CheckerRelease \/ CheckerStopTest

UpgradeStep ==
  \/ UpgradePause \/ UpgradeFind \/ UpgradeResume \/ UpgradeFoundLast
  \/ UpgradeNotFound \/ UpgradeCloseStop

Next == ReceiverStep \/ ParserStep \/ CheckerStep \/ UpgradeStep

Spec == Init /\ [][Next]_vars

(***************************************************************************)
(* Every thread that can move does, and find_device ends.  The receiver,   *)
(* the parser and the checker are strongly fair: exception_lock is free    *)
(* while they sleep.  Nobody has to begin an upgrade, to raise or to lose  *)
(* the device.                                                             *)
(***************************************************************************)
Fairness ==
  /\ SF_vars(ReceiverStep) /\ SF_vars(ParserStep) /\ SF_vars(CheckerStep)
  /\ WF_vars(UpgradeFind \/ UpgradeResume \/ UpgradeFoundLast \/ UpgradeCloseStop)

FairSpec == Spec /\ Fairness

-----------------------------------------------------------------------------
(* Properties.                                                              *)

TypeOK ==
  /\ hasException \in BOOLEAN /\ isPause \in BOOLEAN /\ isStop \in BOOLEAN
  /\ lockHeld \in BOOLEAN
  /\ dataQueue \in Seq(1..MaxBlocks)
  /\ receiver \in ReceiverPc /\ parser \in ParserPc
  /\ checker \in CheckerPc /\ upgrader \in UpgraderPc
  /\ delivered \in 0..MaxBlocks /\ parsed \in 0..MaxBlocks
  /\ failed \in BOOLEAN /\ errors \in Nat
  /\ strayReads \in 0..MaxBlocks /\ lateParses \in 0..MaxBlocks
  /\ upgrades \in 0..MaxUpgrades

(* The blocks reach parser.analyse in the order in which they were read,    *)
(* none twice and none left out, except the one that a raising READ_BLOCK   *)
(* listener swallows.                                                       *)
BlocksInOrder ==
  LET taken == parsed + (IF parser = "analyse" THEN 1 ELSE 0)
      put   == delivered - (IF receiver \in {"put", "dead"} THEN 1 ELSE 0)
  IN  /\ Len(dataQueue) = put - taken
      /\ \A i \in DOMAIN dataQueue : dataQueue[i] = taken + i

(* While the driver looks for the device after a read error, the receiver   *)
(* of the broken center reads no more: it cannot take the answer to the     *)
(* ping that find_device waits for.                                         *)
FindAlone == checker \in {"find", "closing", "stopping"} => receiver = "exited"

(* After pause(), and again after stop(), the receiver takes at most one    *)
(* block, so that at most one frame meant for an upgrade worker or for the  *)
(* ping of find_device goes astray.                                         *)
AtMostOneStrayRead == strayReads <= 1

(* A center that was stopped hands at most one block to its parser, and so  *)
(* to the provider that already works with the next center.                 *)
AtMostOneLateParse == lateParses <= 1

(* A read error is reported to the driver, although _has_exception is only  *)
(* polled: only the resume() of an upgrade can clear it before the checker  *)
(* has seen it.                                                             *)
ErrorReported ==
  receiver = "flag" /\ upgrader = "idle" ~> errors > 0 \/ upgrader # "idle"

(* A block that was read is parsed, also across the pause and the resume of *)
(* an upgrade, unless the center fails or is stopped, or a listener or the  *)
(* parser raises.                                                           *)
EveryBlockParsed ==
  \A n \in 1..MaxBlocks :
    delivered >= n ~> \/ parsed >= n \/ failed \/ isStop \/ upgrader = "gone"
                      \/ receiver = "dead" \/ parser = "dead"

(* After stop() every thread of the center comes to its end, unless the     *)
(* checker died with exception_lock held.                                   *)
ThreadsEnd ==
  isStop ~> \/ checker = "dead"
            \/ /\ receiver \in {"exited", "dead"}
               /\ parser \in {"exited", "dead"}
               /\ checker = "exited"

(* thread_parser returns "when occur Exception": the exception is that of   *)
(* the receiver, which sets _has_exception to notify the parser.            *)
ParserReturnsOnException == failed ~> parser \in {"exited", "dead"}
=============================================================================
