--------------------------- MODULE FirmwareWorker ---------------------------
(***************************************************************************)
(* FirmwareUpgradeWorker: a firmware part is written to the bootloader     *)
(* block by block over a link that may lose frames.  With ack_enable every *)
(* block is written until it is acknowledged, and the process exits when   *)
(* the tries are used up; without, every block but the first is written    *)
(* three times.  An acknowledgement does not say which block it is for.    *)
(*                                                                         *)
(* Content is abstract: the flash of the device is the set of the offsets  *)
(* it has been sent.                                                       *)
(***************************************************************************)
EXTENDS Naturals, Sequences, FiniteSets

CONSTANTS
  total,        \* length of the formatted file content
  max_data_len, \* block size: 960 or 192 on Ethernet, 240 by default
  EraseUnit,    \* 102400: bytes erased in 8 seconds
  Faults        \* what may go wrong, a subset of FaultKinds

(***************************************************************************)
(* "loss": the link loses a block or an acknowledgement; "late": an        *)
(* acknowledgement arrives after the reading of it has been given up;      *)
(* "write": communicator.write raises; "hook": a listener of BEFORE_WRITE, *)
(* FIRST_PACKET or AFTER_WRITE raises or exits; "stop": the upgrade center *)
(* stops the worker.                                                       *)
(***************************************************************************)
FaultKinds == {"loss", "late", "write", "hook", "stop"}

ASSUME FirmwareWorkerAssumption ==
  /\ total \in Nat
  /\ max_data_len \in Nat \ {0} /\ EraseUnit \in Nat \ {0}
  /\ Faults \subseteq FaultKinds

VARIABLES
  ack_enable,  \* whether the unit acknowledges blocks
  pc,          \* where work() is
  current,     \* offset of the block being written
  trial,       \* writes of this block that were begun, the range loop's i + 1
  isStopped,   \* _is_stopped
  reported,    \* history: the last PROGRESS
  wire,        \* blocks on their way to the device
  acks,        \* acknowledgements sent by the device and not yet read
  flash,       \* offsets the device has written
  losses       \* history: number of blocks that did not reach the device

workerVars == <<ack_enable, pc, current, trial, isStopped, reported>>
deviceVars == <<wire, acks, flash, losses>>
vars == <<workerVars, deviceVars>>

Running == {"work", "before", "next", "write", "read", "progress", "after"}
Ended   == {"finished", "returned", "exited"}

Offsets == {o \in 0..total : o < total}

(* packet_data_len, and the offsets of the block at an offset. *)
DataLen(o) == IF total - o > max_data_len THEN max_data_len ELSE total - o
Block(o)   == {b \in Offsets : o <= b /\ b < o + DataLen(o)}

(* How often a block is written: while the device erases its flash, the     *)
(* first one is given 8 seconds for each EraseUnit, 5 seconds for a try.    *)
EraseSeconds == ((total + EraseUnit - 1) \div EraseUnit) * 8

(* a faulty variant of Tries: two copies of a block instead of three *)
TwoTries ==
  IF ack_enable THEN (IF current = 0 THEN (EraseSeconds + 4) \div 5 ELSE 3)
  ELSE (IF current = 0 THEN 1 ELSE 2)

Tries ==
  IF ack_enable THEN (IF current = 0 THEN (EraseSeconds + 4) \div 5 ELSE 3)
  ELSE (IF current = 0 THEN 1 ELSE 3)

(* The receive cache may hold an acknowledgement of the part before, which  *)
(* has the same packet type.                                                *)
Init ==
  /\ ack_enable \in BOOLEAN
  /\ pc = "work"
  /\ current = 0 /\ trial = 0
  /\ isStopped = FALSE
  /\ reported = 0
  /\ wire = <<>> /\ acks \in 0..1
  /\ flash = {} /\ losses = 0

-----------------------------------------------------------------------------
(* Faulty variants of definitions above and below, each with one defect;    *)
(* they show that the properties at the end of the module can fail.         *)

(* reset_buffer is not called *)
BeforeWriteKeepingBuffer ==
  /\ pc = "before"
  /\ pc' = "next"
  /\ UNCHANGED <<ack_enable, current, trial, isStopped, reported, deviceVars>>

(* the loop goes on only while a whole block is left *)
NextWholeBlock ==
  /\ pc = "next"
  /\ pc' = IF current + max_data_len > total THEN "after"
           ELSE IF isStopped THEN "returned" ELSE "write"
  /\ trial' = 0
  /\ UNCHANGED <<ack_enable, current, isStopped, reported, deviceVars>>

(* the offset grows by max_data_len also after the last block *)
ProgressByMaxLen ==
  /\ pc = "progress"
  /\ current' = current + max_data_len
  /\ reported' = current'
  /\ pc' = "next"
  /\ UNCHANGED <<ack_enable, trial, isStopped, deviceVars>>

(* the reading of an acknowledgement has no limit *)
ReadGoesOn ==
  /\ pc = "read" /\ acks = 0
  /\ UNCHANGED vars

-----------------------------------------------------------------------------
(* work()                                                                   *)

(* A stopped worker returns; an empty file ends the process.                *)
Work ==
  /\ pc = "work"
  /\ pc' = IF isStopped THEN "returned" ELSE IF total = 0 THEN "exited" ELSE "before"
  /\ UNCHANGED <<ack_enable, current, trial, isStopped, reported, deviceVars>>

(* BEFORE_WRITE; then reset_buffer() drops what was received.               *)
BeforeWrite ==
  /\ pc = "before"
  /\ pc' = "next"
  /\ acks' = 0
  /\ UNCHANGED <<ack_enable, current, trial, isStopped, reported, wire, flash, losses>>

(* An exception in the listeners, or the exit() of before_write_content     *)
(* when the CS command is not acknowledged, ends the process; those of      *)
(* FIRST_PACKET are called when the first block has been written.           *)
HookFails ==
  /\ "hook" \in Faults
  /\ \/ pc \in {"before", "after"} /\ UNCHANGED wire
     \/ pc = "write" /\ current = 0 /\ wire' = Append(wire, current)
  /\ pc' = "exited"
  /\ UNCHANGED <<ack_enable, current, trial, isStopped, reported, acks, flash, losses>>

(* The top of the while loop.                                               *)
NextBlock ==
  /\ pc = "next"
  /\ pc' = IF current >= total THEN "after" ELSE IF isStopped THEN "returned" ELSE "write"
  /\ trial' = 0
  /\ UNCHANGED <<ack_enable, current, isStopped, reported, deviceVars>>

(* After t writes of the block, the last one unsuccessful or not to be      *)
(* acknowledged: the next turn of the range loop, or what follows it.       *)
Again(t) ==
  IF t < Tries THEN "write" ELSE IF ack_enable THEN "exited" ELSE "progress"

(* write_block                                                              *)
WriteBlock ==
  /\ pc = "write"
  /\ trial' = trial + 1
  /\ wire' = Append(wire, current)
  /\ pc' = IF ack_enable THEN "read" ELSE Again(trial + 1)
  /\ UNCHANGED <<ack_enable, current, isStopped, reported, acks, flash, losses>>

WriteRaises ==
  /\ "write" \in Faults
  /\ pc = "write"
  /\ trial' = trial + 1
  /\ pc' = Again(trial + 1)
  /\ losses' = losses + 1
  /\ UNCHANGED <<ack_enable, current, isStopped, reported, wire, acks, flash>>

(* read_untils_have_data compares the packet type only.                     *)
ReadAck ==
  /\ pc = "read" /\ acks > 0
  /\ acks' = acks - 1
  /\ pc' = "progress"
  /\ UNCHANGED <<ack_enable, current, trial, isStopped, reported, wire, flash, losses>>

(* It gives up after 1000 reads.                                            *)
ReadGivesUp ==
  /\ pc = "read"
  /\ "late" \in Faults \/ (wire = <<>> /\ acks = 0)
  /\ pc' = Again(trial)
  /\ UNCHANGED <<ack_enable, current, trial, isStopped, reported, deviceVars>>

Progress ==
  /\ pc = "progress"
  /\ current' = current + DataLen(current)
  /\ reported' = current'
  /\ pc' = "next"
  /\ UNCHANGED <<ack_enable, trial, isStopped, deviceVars>>

(* AFTER_WRITE, then FINISH                                                 *)
Finish ==
  /\ pc = "after"
  /\ pc' = "finished"
  /\ UNCHANGED <<ack_enable, current, trial, isStopped, reported, deviceVars>>

(* stop(), called by the upgrade center when another worker fails           *)
Stop ==
  /\ "stop" \in Faults
  /\ ~isStopped /\ pc \in Running
  /\ isStopped' = TRUE
  /\ UNCHANGED <<ack_enable, pc, current, trial, reported, deviceVars>>

-----------------------------------------------------------------------------
(* The bootloader and the link.                                             *)

Receive ==
  /\ wire # <<>>
  /\ wire' = Tail(wire)
  /\ flash' = flash \cup Block(Head(wire))
  /\ \/ acks' = IF ack_enable THEN acks + 1 ELSE acks
     \/ "loss" \in Faults /\ acks' = acks
  /\ UNCHANGED <<workerVars, losses>>

LoseBlock ==
  /\ "loss" \in Faults
  /\ wire # <<>>
  /\ wire' = Tail(wire)
  /\ losses' = losses + 1
  /\ UNCHANGED <<workerVars, acks, flash>>

-----------------------------------------------------------------------------
WorkerStep ==
  \/ Work \/ BeforeWrite \/ HookFails \/ NextBlock \/ WriteBlock \/ WriteRaises
  \/ ReadAck \/ ReadGivesUp \/ Progress \/ Finish

LinkStep == Receive \/ LoseBlock

Next == WorkerStep \/ LinkStep \/ Stop

Spec == Init /\ [][Next]_vars

(* The worker's thread runs, and a block arrives or is lost in the end.     *)
FairSpec == Spec /\ WF_vars(WorkerStep) /\ WF_vars(LinkStep)

-----------------------------------------------------------------------------
(* Properties.                                                              *)

TypeOK ==
  /\ ack_enable \in BOOLEAN /\ isStopped \in BOOLEAN
  /\ pc \in Running \cup Ended
  /\ current \in 0..total /\ reported \in 0..total
  /\ trial \in Nat
  /\ wire \in Seq(Offsets)
  /\ acks \in Nat /\ losses \in Nat
  /\ flash \subseteq Offsets

(* A worker that acknowledges blocks has written every block before the     *)
(* current one: whatever is lost, and although an acknowledgement carries   *)
(* no offset, none is skipped, up to the last, shorter one.                 *)
NoHole == ack_enable => \A o \in Offsets : o < current => o \in flash

(* FINISH is emitted only when the whole file is in the flash.              *)
ImageComplete == ack_enable /\ pc = "finished" => flash = Offsets

(* Without acknowledgements three copies make up for two losses, except for *)
(* the first block, which is written once.                                  *)
CopiesSuffice ==
  ~ack_enable /\ pc = "finished" /\ wire = <<>> /\ losses <= 2
    => Offsets \ flash \subseteq Block(0)

(* work() "upgrades firmware of connected device to file provided in        *)
(* argument": after FINISH, and with no block on its way, the device has it. *)
UpgradesFirmware ==
  ack_enable /\ pc = "finished" /\ wire = <<>> => flash = Offsets

(* The upgrade ends: it finishes, returns after stop() or ends the process. *)
WorkEnds == <>(pc \in Ended)
=============================================================================
