------------------------------ MODULE SdkWorker ------------------------------
(***************************************************************************)
(* The two SDKUpgradeWorkers: the GNSS chip behind the unit is brought     *)
(* into its boot mode stage by stage and its image is written.  A stage    *)
(* sends a command and waits for a reply, or only waits: the chip reports  *)
(* by itself that it is initialised, that it has erased its flash and that *)
(* it has checked the image.  All of these replies are the same byte 0xCC. *)
(*                                                                         *)
(* The chip and the link are modelled from how the workers use them.       *)
(* CRCs, sizes and the boot code are abstract.                             *)
(***************************************************************************)
EXTENDS Naturals, Sequences

CONSTANTS
  Blocks,     \* number of blocks of 5120 bytes in the image
  MaxTries,   \* bound: tries of a stage, where the code allows more
  SdkFaults   \* what may go wrong, a subset of SdkFaultKinds

(***************************************************************************)
(* "loss": the link loses commands and replies; "late": it also delivers   *)
(* replies that are no longer waited for; "stop": stop() is called.        *)
(***************************************************************************)
SdkFaultKinds == {"loss", "late", "stop"}

ASSUME SdkWorkerAssumption ==
  /\ Blocks \in Nat \ {0} /\ MaxTries \in Nat \ {0}
  /\ SdkFaults \subseteq SdkFaultKinds

VARIABLES
  link,       \* "serial" or "ethernet": which of the two workers
  unit,       \* "old": its firmware calls for a change of the baud rate
  late,       \* replies may come late
  sdkPc,      \* what the worker does in its stage, or how it ended
  pos,        \* its stage, an index of Stages
  block,      \* the next block to write
  trial,      \* tries of this stage that were begun
  version,    \* what firmware_version_check has made of the unit
  sdkStopped, \* _is_stopped
  wire,       \* commands on their way to the chip
  replies,    \* what was received and is not read yet
  did,        \* stages the chip has gone through
  flash       \* blocks in its flash

stageVars  == <<sdkPc, pos, block, trial>>
workerVars == <<stageVars, version, sdkStopped>>
chipVars   == <<wire, replies, did, flash>>
runVars    == <<link, unit, late>>
sdkVars    == <<workerVars, chipVars, runVars>>

SdkEnds == {"finished", "failed", "returned"}

(***************************************************************************)
(* The stages of work().  "find" sends and reads until its reply is among  *)
(* what has come, "match" takes what comes first for its reply, and "wait" *)
(* does so without having sent anything; "tell" reads nothing.  When its   *)
(* tries are used up the worker fails, unless the stage is optional.       *)
(***************************************************************************)
Stage(name, kind, tries, optional) ==
  [name |-> name, kind |-> kind, optional |-> optional,
   tries |-> IF tries < MaxTries THEN tries ELSE MaxTries]

(* send_sdk_cmd returns True without a reply, too.                          *)
SerialStages == <<
  Stage("JS", "find", 1, TRUE),
  Stage("sync", "match", 10, FALSE),
  Stage("change", "match", 1, FALSE),
  Stage("baud", "match", 1, FALSE),
  Stage("check", "match", 1, FALSE),
  Stage("host", "match", 1, FALSE),
  Stage("boot", "match", 1, FALSE),
  Stage("4A", "match", 1, FALSE),
  Stage("info", "match", 1, FALSE),
  Stage("devinit", "wait", 1, FALSE),
  Stage("erase", "wait", 1, FALSE),
  Stage("block", "match", 1, FALSE),
  Stage("crc", "wait", 1, FALSE),
  Stage("JG", "find", 1, FALSE)
>>

(* The first block goes ahead.  The loop around flash_crc ends after its    *)
(* first turn whatever that returns: the check of the image is optional.    *)
EthernetStages == <<
  Stage("pG", "find", 100, TRUE),
  Stage("JS", "find", 3, FALSE),
  Stage("version", "find", 10, TRUE),
  Stage("sync", "match", 100, FALSE),
  Stage("first", "tell", 1, FALSE),
  Stage("change", "tell", 1, FALSE),
  Stage("baud", "match", 1, FALSE),
  Stage("check", "match", 1, FALSE),
  Stage("host", "match", 5, FALSE),
  Stage("boot", "match", 3, FALSE),
  Stage("4A", "match", 3, FALSE),
  Stage("info", "match", 3, FALSE),
  Stage("devinit", "wait", 1, FALSE),
  Stage("erase", "wait", 1, FALSE),
  Stage("nvm", "wait", 1, FALSE),
  Stage("block", "match", 1, FALSE),
  Stage("crc", "wait", 1, TRUE),
  Stage("JG", "find", 6, FALSE)
>>

Stages   == IF link = "serial" THEN SerialStages ELSE EthernetStages
At(p)    == Stages[p].name
Now      == Stages[pos]
Ethernet == link = "ethernet"

(* The blocks that flash_write sends.                                       *)
FirstBlock == IF Ethernet THEN 1 ELSE 0
Sent       == FirstBlock..Blocks - 1

SdkInit ==
  /\ link \in {"serial", "ethernet"}
  /\ unit \in (IF Ethernet THEN {"old", "recent"} ELSE {"recent"})
  /\ late \in (IF "late" \in SdkFaults THEN BOOLEAN ELSE {FALSE})
  /\ sdkPc = "stage" /\ pos = 1 /\ block = FirstBlock /\ trial = 0
  /\ version = "recent" /\ sdkStopped = FALSE
  /\ wire = <<>> /\ replies = <<>> /\ did = {} /\ flash = {}

-----------------------------------------------------------------------------
(* Faulty variants of definitions below, each with one defect; they show    *)
(* that the properties at the end of the module can fail.                   *)

-----------------------------------------------------------------------------
(* The worker.                                                              *)

(* The baud rate is changed only if baud_change_enable.                     *)
BaudStages == {"change", "baud", "check"}
Skipped(p) == Ethernet /\ At(p) \in BaudStages /\ version # "old"

GoTo(p) == sdkPc' = "stage" /\ pos' = p /\ trial' = 0 /\ UNCHANGED block

NextStage ==
  IF pos = Len(Stages) THEN sdkPc' = "finished" /\ UNCHANGED <<pos, block, trial>>
  ELSE GoTo(CHOOSE p \in pos + 1..Len(Stages) :
              ~Skipped(p) /\ \A q \in pos + 1..p - 1 : Skipped(q))

(* a faulty variant of RaiseError: the result of the stage is not looked at *)
RaiseErrorIgnored == NextStage

(* _raise_error: no ERROR from a worker that was stopped.                   *)
RaiseError ==
  /\ sdkPc' = IF sdkStopped THEN "returned" ELSE "failed"
  /\ UNCHANGED <<pos, block, trial>>

(* A stopped worker goes on through the stages that do not look; flash_crc  *)
(* does, but its result does not count.                                     *)
Unchecked == IF Ethernet THEN {"pG", "version", "first", "baud"} ELSE {}

Stopped ==
  /\ sdkPc = "stage" /\ trial = 0 /\ sdkStopped /\ Now.name \notin Unchecked
  /\ IF Ethernet /\ Now.name = "crc" THEN NextStage ELSE RaiseError
  /\ UNCHANGED <<version, sdkStopped, chipVars, runVars>>

(* The reset_buffer() before a stage, and the serial port that is closed    *)
(* and opened again after JS.                                               *)
Resets == trial = 0 /\ Now.name \in (IF Ethernet THEN {"pG", "JS", "JG"} ELSE {"sync"})

AllWritten == Now.name = "block" /\ block >= Blocks

(* The sending of a stage, for the first time or again.                     *)
SendStage ==
  /\ sdkPc = "stage" /\ ~AllWritten
  /\ trial > 0 \/ ~sdkStopped \/ Now.name \in Unchecked
  /\ replies' = IF Resets THEN <<>> ELSE replies
  /\ wire' = IF Now.kind = "wait" THEN wire
             ELSE Append(wire, [stage |-> Now.name, block |-> block])
  /\ IF Now.kind = "tell" THEN NextStage
     ELSE sdkPc' = "read" /\ trial' = trial + 1 /\ UNCHANGED <<pos, block>>
  /\ UNCHANGED <<version, sdkStopped, did, flash, runVars>>

FlashWritten ==
  /\ sdkPc = "stage" /\ AllWritten /\ ~sdkStopped
  /\ NextStage
  /\ UNCHANGED <<version, sdkStopped, chipVars, runVars>>

(* The reply a stage is after.                                              *)
Expected ==
  CASE Now.name \in {"JS", "JG", "sync"} -> Now.name
    [] Now.name \in {"pG", "version"}    -> "pG"
    [] OTHER                             -> "ack"

(* What read_untils_have_data and, on Ethernet, read_until pass over.       *)
PassedOver(r) == r # Expected /\ (Now.kind = "find" \/ (Ethernet /\ r \in {"pG", "JS", "JG"}))

ReadOther ==
  /\ sdkPc = "read" /\ replies # <<>> /\ PassedOver(Head(replies))
  /\ replies' = Tail(replies)
  /\ UNCHANGED <<workerVars, wire, did, flash, runVars>>

(* The stage is over: firmware_version_check looks at the answer,           *)
(* change_baud drops what else has come.                                    *)
ReadReply ==
  /\ sdkPc = "read" /\ replies # <<>> /\ Head(replies) = Expected
  /\ replies' = IF Ethernet /\ Now.name = "baud" THEN <<>> ELSE Tail(replies)
  /\ version' = IF Now.name = "version" THEN unit ELSE version
  /\ IF Now.name = "block"
     THEN block' = block + 1 /\ trial' = 0 /\ sdkPc' = "stage" /\ UNCHANGED pos
     ELSE NextStage
  /\ UNCHANGED <<sdkStopped, wire, did, flash, runVars>>

(* a faulty variant of Again: the tries are not counted                     *)
AgainForever == sdkPc' = "stage" /\ trial' = 0 /\ UNCHANGED <<pos, block>>

(* The next turn of the loop around a stage; that of send_boot only reads.  *)
Again ==
  IF trial < Now.tries
  THEN /\ IF Now.name = "boot" THEN trial' = trial + 1 /\ UNCHANGED sdkPc
          ELSE sdkPc' = "stage" /\ UNCHANGED trial
       /\ UNCHANGED <<pos, block>>
  ELSE IF Now.optional THEN NextStage ELSE RaiseError

ReadMismatch ==
  /\ sdkPc = "read" /\ replies # <<>>
  /\ Head(replies) # Expected /\ ~PassedOver(Head(replies))
  /\ replies' = Tail(replies)
  /\ Again
  /\ UNCHANGED <<version, sdkStopped, wire, did, flash, runVars>>

SdkStop ==
  /\ "stop" \in SdkFaults
  /\ ~sdkStopped /\ sdkPc \notin SdkEnds
  /\ sdkStopped' = TRUE
  /\ UNCHANGED <<stageVars, version, chipVars, runVars>>

-----------------------------------------------------------------------------
(* The unit, the chip and the link.                                         *)

ByUnit   == {"pG", "version", "JS", "JG", "sync"}
OnItsOwn == {"devinit", "erase", "nvm", "crc"}

(* What the chip has to have done before a stage: all before it, a change   *)
(* of the baud rate apart, which is up to the worker.                       *)
Done(s) == IF s = "block" THEN Sent \subseteq flash ELSE s \in did
Before(p) ==
  {At(q) : q \in 1..p - 1} \ (ByUnit \cup {"first"} \cup
                              IF At(p) \in BaudStages THEN {} ELSE BaudStages)
Ready(s) == \E p \in DOMAIN Stages : At(p) = s /\ \A t \in Before(p) : Done(t)

(* A reply arrives, or is lost.                                             *)
Reply(r) ==
  \/ replies' = Append(replies, r)
  \/ "loss" \in SdkFaults /\ replies' = replies

(* A command it is not ready for is ignored; one it has carried out before  *)
(* may be acknowledged again.                                               *)
Receive ==
  LET c == Head(wire)
  IN  /\ wire # <<>>
      /\ wire' = Tail(wire)
      /\ \/ /\ c.stage \in ByUnit
            /\ Reply(IF c.stage = "version" THEN "pG" ELSE c.stage)
            /\ UNCHANGED <<did, flash>>
         \/ /\ c.stage = "first"
            /\ flash' = flash \cup {0}
            /\ UNCHANGED <<did, replies>>
         \/ /\ c.stage = "block" /\ Ready("block")
            /\ FirstBlock..c.block - 1 \subseteq flash
            /\ flash' = flash \cup {c.block}
            /\ Reply("ack")
            /\ UNCHANGED did
         \/ /\ c.stage \notin ByUnit \cup {"first", "block"}
            /\ Ready(c.stage)
            /\ did' = did \cup {c.stage}
            /\ Reply("ack") \/ (c.stage \in did /\ UNCHANGED replies)
            /\ UNCHANGED flash
         \/ /\ c.stage \notin ByUnit \cup {"first"} /\ ~Ready(c.stage)
            /\ UNCHANGED <<did, flash, replies>>
      /\ UNCHANGED <<workerVars, runVars>>

(* The chip reports a stage without having been asked; with its check of    *)
(* the image it also says when a block is missing.                          *)
ChipGoesOn(s) ==
  /\ s \in OnItsOwn /\ s \notin did /\ Ready(s)
  /\ did' = did \cup {s}
  /\ Reply(IF s = "crc" /\ flash # 0..Blocks - 1 THEN "nak" ELSE "ack")
  /\ UNCHANGED <<wire, flash, workerVars, runVars>>

Lose ==
  /\ "loss" \in SdkFaults /\ wire # <<>>
  /\ wire' = Tail(wire)
  /\ UNCHANGED <<replies, did, flash, workerVars, runVars>>

Quiet == wire = <<>> /\ replies = <<>> /\ \A s \in OnItsOwn : s \in did \/ ~Ready(s)

(* The reads of a stage are used up with nothing to read.                   *)
ReadGivesUp ==
  /\ sdkPc = "read" /\ replies = <<>>
  /\ late \/ Quiet
  /\ Again
  /\ UNCHANGED <<version, sdkStopped, chipVars, runVars>>

-----------------------------------------------------------------------------
SdkWork ==
  \/ Stopped \/ SendStage \/ FlashWritten
  \/ ReadOther \/ ReadReply \/ ReadMismatch \/ ReadGivesUp

SdkLink == Receive \/ Lose \/ \E s \in OnItsOwn : ChipGoesOn(s)

SdkNext == SdkWork \/ SdkLink \/ SdkStop

SdkSpec == SdkInit /\ [][SdkNext]_sdkVars /\ WF_sdkVars(SdkWork) /\ WF_sdkVars(SdkLink)

-----------------------------------------------------------------------------
(* Properties.                                                              *)

(* Although all acknowledgements are alike and a stage that is repeated may *)
(* be acknowledged twice, the worker is never ahead of the chip: a stage it *)
(* has left is one the chip has gone through.  On Ethernet it takes replies *)
(* that come in time, and a unit that needs no change of the baud rate, for *)
(* the two commands of change_baud are acknowledged once each.              *)
InStep ==
  ~Ethernet \/ (~late /\ unit = "recent") =>
    /\ \A p \in 1..pos - 1 :
         At(p) \notin ByUnit \cup {"first"} /\ ~Skipped(p) /\ ~Stages[p].optional => Done(At(p))
    /\ Now.name = "block" => FirstBlock..block - 1 \subseteq flash

(* The worker ends, whatever is lost or late.                               *)
SdkEnded == <>(sdkPc \in SdkEnds)
=============================================================================
