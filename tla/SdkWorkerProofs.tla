--------------------------- MODULE SdkWorkerProofs ---------------------------
(***************************************************************************)
(* The SDK worker is never ahead of the chip, for images of any size, any  *)
(* number of tries and all faults of the link.                             *)
(*                                                                         *)
(* All acknowledgements are the same byte, so the worker cannot know which *)
(* of them it reads.  It is in step because they can be counted: of those  *)
(* that it has not read yet, each stands for one more stage that the chip  *)
(* has gone through (Behind).  What adds one is that the chip carries out  *)
(* a command, which is the one that the worker waits for (Pending), or     *)
(* does by itself what comes next (OwnInTurn).  That no command is carried *)
(* out twice without the worker knowing takes a worker that sends it once, *)
(* on the serial line, or again only when nothing is left to come, on      *)
(* Ethernet (OverSerial, OverEthernet).                                    *)
(*                                                                         *)
(* The module goes through the tables of stages, the invariant, the steps  *)
(* of the worker before its first command to the chip (Early...) and after *)
(* it (Late...), and the steps of the link and of the chip.                *)
(***************************************************************************)
EXTENDS SdkWorker, Integers, TLAPS

(* The condition of InStep, on links and units.                             *)
Good == Ethernet => ~late /\ unit = "recent"

(* Where stages are: the first of those which the chip deals with and that  *)
(* are never skipped, the one that sends the size of the image, the blocks, *)
(* and the check of the image.                                              *)
FirstPos == IF Ethernet THEN 9 ELSE 3
InfoPos  == IF Ethernet THEN 12 ELSE 9
BlockPos == IF Ethernet THEN 16 ELSE 12
LastPos  == IF Ethernet THEN 17 ELSE 13

(* Commands to the chip, all that is sent, all stages, and all replies.     *)
Command == {"change", "baud", "check", "host", "boot", "4A", "info", "block"}
Sendable == Command \cup ByUnit \cup {"first"}
Commands == [stage : Sendable, block : Nat]
Names   == Command \cup OnItsOwn \cup ByUnit \cup {"first"}
Answers == {"pG", "JS", "JG", "sync", "ack", "nak"}

(* A row of the table: stage p is s, and all that matters of its tries.     *)
Row(p, name, kind, optional) ==
  /\ At(p) = name /\ Stages[p].kind = kind /\ Stages[p].optional = optional
  /\ Stages[p].tries \in Nat \ {0}

(* The stages of the serial worker, which tries each of those from FirstPos *)
(* on once.                                                                 *)
LEMMA SerialTable ==
  ASSUME link = "serial"
  PROVE  /\ Len(Stages) = 14 /\ DOMAIN Stages = 1..14
         /\ Row(1, "JS", "find", TRUE) /\ Row(2, "sync", "match", FALSE)
         /\ Row(3, "change", "match", FALSE) /\ Row(4, "baud", "match", FALSE)
         /\ Row(5, "check", "match", FALSE) /\ Row(6, "host", "match", FALSE)
         /\ Row(7, "boot", "match", FALSE) /\ Row(8, "4A", "match", FALSE)
         /\ Row(9, "info", "match", FALSE) /\ Row(10, "devinit", "wait", FALSE)
         /\ Row(11, "erase", "wait", FALSE) /\ Row(12, "block", "match", FALSE)
         /\ Row(13, "crc", "wait", FALSE) /\ Row(14, "JG", "find", FALSE)
         /\ \A p \in 3..13 : Stages[p].tries = 1 /\ ~Stages[p].optional
<1>1. Stages = SerialStages
  BY DEF Stages
<1>2. Len(SerialStages) = 14 /\ DOMAIN SerialStages = 1..14
  BY DEF SerialStages
<1>3. \A p \in 3..13 : SerialStages[p].tries = 1 /\ ~SerialStages[p].optional
  BY SdkWorkerAssumption DEF SerialStages, Stage
<1> QED BY <1>1, <1>2, <1>3, SdkWorkerAssumption DEF Row, At, SerialStages, Stage

LEMMA EthernetTable ==
  ASSUME link = "ethernet"
  PROVE  /\ Len(Stages) = 18 /\ DOMAIN Stages = 1..18
         /\ Row(1, "pG", "find", TRUE) /\ Row(2, "JS", "find", FALSE)
         /\ Row(3, "version", "find", TRUE) /\ Row(4, "sync", "match", FALSE)
         /\ Row(5, "first", "tell", FALSE) /\ Row(6, "change", "tell", FALSE)
         /\ Row(7, "baud", "match", FALSE) /\ Row(8, "check", "match", FALSE)
         /\ Row(9, "host", "match", FALSE) /\ Row(10, "boot", "match", FALSE)
         /\ Row(11, "4A", "match", FALSE) /\ Row(12, "info", "match", FALSE)
         /\ Row(13, "devinit", "wait", FALSE) /\ Row(14, "erase", "wait", FALSE)
         /\ Row(15, "nvm", "wait", FALSE) /\ Row(16, "block", "match", FALSE)
         /\ Row(17, "crc", "wait", TRUE) /\ Row(18, "JG", "find", FALSE)
         /\ Stages[17].tries = 1 /\ Stages[17].optional
         /\ \A p \in 9..16 : ~Stages[p].optional
<1>1. Stages = EthernetStages
  BY DEF Stages
<1>2. Len(EthernetStages) = 18 /\ DOMAIN EthernetStages = 1..18
  BY DEF EthernetStages
<1>3. \A p \in 9..16 : ~EthernetStages[p].optional
  BY SdkWorkerAssumption DEF EthernetStages, Stage
<1> QED BY <1>1, <1>2, <1>3, SdkWorkerAssumption DEF Row, At, EthernetStages, Stage

(* What both tables have in common: commands and what the chip does on its  *)
(* own from FirstPos on, "crc" the last of them.                            *)
LEMMA Table ==
  ASSUME link \in {"serial", "ethernet"}
  PROVE  /\ Len(Stages) = LastPos + 1 /\ DOMAIN Stages = 1..LastPos + 1
         /\ \A p \in 1..LastPos + 1 : Stages[p].tries \in Nat \ {0} /\ At(p) \in Names
         /\ \A p \in FirstPos..LastPos :
              /\ At(p) \in Command \cup OnItsOwn
              /\ At(p) = "block" <=> p = BlockPos
              /\ Stages[p].kind = IF At(p) \in OnItsOwn THEN "wait" ELSE "match"
              /\ Stages[p].optional <=> Ethernet /\ p = LastPos
              /\ At(p) \in OnItsOwn => p > InfoPos
              /\ At(p) \in BaudStages => ~Ethernet /\ p < InfoPos
              /\ ~Ethernet \/ p = LastPos => Stages[p].tries = 1
         /\ \A p, q \in 1..LastPos + 1 : At(p) = At(q) => p = q
         /\ \A p \in 1..FirstPos - 1 :
              /\ At(p) \in ByUnit \cup {"first"} \/ (Ethernet /\ p \in 6..8 /\ At(p) \in BaudStages)
              /\ Stages[p].kind = "tell" => Ethernet /\ p \in 5..6
         /\ At(InfoPos) = "info" /\ At(BlockPos) = "block" /\ At(LastPos) = "crc" /\ At(LastPos + 1) = "JG"
         /\ \A s \in OnItsOwn : (~Ethernet /\ s = "nvm") \/ \E p \in InfoPos + 1..LastPos : At(p) = s
         /\ \A s \in Command \ {"block"} :
              (Ethernet /\ s \in BaudStages) \/ \E p \in FirstPos..InfoPos : At(p) = s
         /\ FirstPos \in 3..9 /\ InfoPos \in FirstPos + 3..BlockPos - 3
         /\ LastPos = BlockPos + 1 /\ BlockPos \in {12, 16}
<1> USE DEF Command, Names, OnItsOwn, ByUnit, BaudStages, FirstPos, InfoPos, BlockPos, LastPos, Ethernet
<1>1. CASE link = "serial"
  <2> USE <1>1, SerialTable DEF Row
  <2>1. \A p \in 1..14 : p = 1 \/ p = 2 \/ p = 3 \/ p = 4 \/ p = 5 \/ p = 6 \/ p = 7 \/ p = 8 \/ p = 9
                          \/ p = 10 \/ p = 11 \/ p = 12 \/ p = 13 \/ p = 14
    OBVIOUS
  <2>2. \A p, q \in 1..14 : At(p) = At(q) => p = q
    BY <2>1
  <2>3. \A s \in OnItsOwn : s = "nvm" \/ \E p \in 10..13 : At(p) = s
    OBVIOUS
  <2>3a. \A s \in Command \ {"block"} : \E p \in 3..9 : At(p) = s
    OBVIOUS
  <2>4. \A p \in 1..14 : Stages[p].tries \in Nat \ {0} /\ At(p) \in Names
    BY <2>1
  <2>5. \A p \in 3..13 : At(p) \in Command \cup OnItsOwn /\ (At(p) = "block" <=> p = 12)
    BY <2>1
  <2>6. \A p \in 3..13 : At(p) \in OnItsOwn <=> p \in {10, 11, 13}
    BY <2>1
  <2>7. \A p \in 3..13 : Stages[p].kind = IF p \in {10, 11, 13} THEN "wait" ELSE "match"
    BY <2>1
  <2>9. \A p \in 3..13 : At(p) \in BaudStages => p < 9
    BY <2>1
  <2> QED BY <2>2, <2>3, <2>3a, <2>4, <2>5, <2>6, <2>7, <2>9
<1>2. CASE link = "ethernet"
  <2> USE <1>2, EthernetTable DEF Row
  <2>1. \A p \in 1..18 : p = 1 \/ p = 2 \/ p = 3 \/ p = 4 \/ p = 5 \/ p = 6 \/ p = 7 \/ p = 8 \/ p = 9
                          \/ p = 10 \/ p = 11 \/ p = 12 \/ p = 13 \/ p = 14 \/ p = 15 \/ p = 16
                          \/ p = 17 \/ p = 18
    OBVIOUS
  <2>2. \A p, q \in 1..18 : At(p) = At(q) => p = q
    BY <2>1
  <2>3. \A s \in OnItsOwn : \E p \in 13..17 : At(p) = s
    OBVIOUS
  <2>3a. \A s \in Command \ {"block"} : s \in BaudStages \/ \E p \in 9..12 : At(p) = s
    OBVIOUS
  <2>4. \A p \in 1..18 : Stages[p].tries \in Nat \ {0} /\ At(p) \in Names
    BY <2>1
  <2>5. \A p \in 9..17 : At(p) \in Command \cup OnItsOwn /\ (At(p) = "block" <=> p = 16)
    BY <2>1
  <2>7. \A p \in 9..17 : At(p) \in OnItsOwn <=> p \in {13, 14, 15, 17}
    BY <2>1
  <2>8. \A p \in 9..17 : Stages[p].kind = IF p \in {13, 14, 15, 17} THEN "wait" ELSE "match"
    BY <2>1
  <2>10. \A p \in 9..17 : At(p) \notin BaudStages
    BY <2>1
  <2>6. \A p \in 1..8 :
              /\ At(p) \in ByUnit \cup {"first"} \/ (p \in 6..8 /\ At(p) \in BaudStages)
              /\ Stages[p].kind = "tell" => p \in 5..6
    BY <2>1
  <2> QED BY <2>2, <2>3, <2>3a, <2>4, <2>5, <2>6, <2>7, <2>8, <2>10
<1> QED BY <1>1, <1>2

(* The table, a few columns at a time.                                      *)
LEMMA TablePlaces ==
  ASSUME link \in {"serial", "ethernet"}
  PROVE  /\ FirstPos \in 3..9 /\ InfoPos \in FirstPos + 3..BlockPos - 3 /\ LastPos = BlockPos + 1
         /\ BlockPos \in {12, 16} /\ Len(Stages) = LastPos + 1 /\ DOMAIN Stages = 1..LastPos + 1
         /\ \A p \in 1..LastPos + 1 : Stages[p].tries \in Nat \ {0}
BY Table

LEMMA TableNames ==
  ASSUME link \in {"serial", "ethernet"}
  PROVE  /\ At(InfoPos) = "info" /\ At(BlockPos) = "block" /\ At(LastPos) = "crc" /\ At(LastPos + 1) = "JG"
         /\ \A p \in 1..LastPos + 1 : At(p) \in Names
         /\ \A p \in FirstPos..LastPos :
              /\ At(p) \in Command \cup OnItsOwn
              /\ At(p) = "block" <=> p = BlockPos
              /\ At(p) \in OnItsOwn => p > InfoPos
              /\ At(p) \in BaudStages => ~Ethernet /\ p < InfoPos
         /\ \A s \in OnItsOwn : (~Ethernet /\ s = "nvm") \/ \E p \in InfoPos + 1..LastPos : At(p) = s
         /\ \A s \in Command \ {"block"} :
              (Ethernet /\ s \in BaudStages) \/ \E p \in FirstPos..InfoPos : At(p) = s
BY Table

LEMMA TableDistinct ==
  ASSUME link \in {"serial", "ethernet"},
         NEW p \in 1..LastPos + 1, NEW q \in 1..LastPos + 1, At(p) = At(q)
  PROVE  p = q
BY Table

LEMMA TableKinds ==
  ASSUME link \in {"serial", "ethernet"}, NEW p \in FirstPos..LastPos
  PROVE  /\ Stages[p].kind = IF At(p) \in OnItsOwn THEN "wait" ELSE "match"
         /\ Stages[p].optional <=> Ethernet /\ p = LastPos
         /\ ~Ethernet \/ p = LastPos => Stages[p].tries = 1
BY Table

LEMMA TableStart ==
  ASSUME link \in {"serial", "ethernet"}, NEW p \in 1..FirstPos - 1
  PROVE  /\ At(p) \in ByUnit \cup {"first"} \/ (Ethernet /\ p \in 6..8 /\ At(p) \in BaudStages)
         /\ Stages[p].kind = "tell" => Ethernet /\ p \in 5..6
BY Table

(* What the chip does on its own is between "info" and the end.             *)
LEMMA OwnPlace ==
  ASSUME link \in {"serial", "ethernet"}, NEW p \in 1..LastPos + 1, At(p) \in OnItsOwn
  PROVE  p \in InfoPos + 1..LastPos
<1>1. CASE p < FirstPos
  <2>1. p \in 1..FirstPos - 1
    BY <1>1, TablePlaces
  <2>2. At(p) \in ByUnit \cup {"first"} \cup BaudStages
    BY <2>1, TableStart
  <2> QED BY <2>2 DEF OnItsOwn, ByUnit, BaudStages
<1>2. CASE p = LastPos + 1
  BY <1>2, TableNames DEF OnItsOwn
<1>3. CASE p \in FirstPos..LastPos
  BY <1>3, TableNames, TablePlaces
<1> QED BY <1>1, <1>2, <1>3, TablePlaces

-----------------------------------------------------------------------------
(* The worker and the chip, stage by stage.  The acknowledgements that are  *)
(* to come are numbered: Place(p) is the number of that of stage p, the     *)
(* blocks of the image each have their own.  Current is the one the worker  *)
(* is about to wait for.                                                    *)
Place(p)      == IF p <= BlockPos THEN p ELSE p - 1 + (Blocks - FirstBlock)
BlockPlace(b) == BlockPos + (b - FirstBlock)
Current       == IF pos = BlockPos THEN BlockPlace(block) ELSE Place(pos)

DoneUpTo(n) ==
  /\ \A p \in FirstPos..LastPos \ {BlockPos} : Place(p) <= n => At(p) \in did
  /\ \A b \in Sent : BlockPlace(b) <= n => b \in flash

(* The stages of one link are those of the other state, too.                *)
LEMMA SameLink ==
  ASSUME link' = link
  PROVE  /\ Ethernet' = Ethernet /\ Stages' = Stages /\ FirstBlock' = FirstBlock /\ Sent' = Sent
         /\ FirstPos' = FirstPos /\ InfoPos' = InfoPos /\ BlockPos' = BlockPos /\ LastPos' = LastPos
         /\ \A p : At(p)' = At(p) /\ Before(p)' = Before(p) /\ Place(p)' = Place(p)
         /\ \A b : BlockPlace(b)' = BlockPlace(b)
<1>1. Stages' = Stages /\ Ethernet' = Ethernet
  BY DEF Stages, Ethernet
<1>2. \A p : At(p)' = At(p)
  BY <1>1 DEF At
<1>3. FirstBlock' = FirstBlock /\ Sent' = Sent
  BY <1>1 DEF FirstBlock, Sent
<1>4. FirstPos' = FirstPos /\ InfoPos' = InfoPos /\ BlockPos' = BlockPos /\ LastPos' = LastPos
  BY <1>1 DEF FirstPos, InfoPos, BlockPos, LastPos
<1>5. \A p : Before(p)' = Before(p)
  BY <1>2 DEF Before
<1>6. \A p : Place(p)' = Place(p)
  BY <1>3, <1>4 DEF Place
<1>7. \A b : BlockPlace(b)' = BlockPlace(b)
  BY <1>3, <1>4 DEF BlockPlace
<1> QED BY <1>1, <1>2, <1>3, <1>4, <1>5, <1>6, <1>7

(* A chip that is ready for a stage has gone through those before it.       *)
LEMMA ReadyNeeds ==
  ASSUME link \in {"serial", "ethernet"},
         NEW p \in FirstPos..LastPos, NEW q \in FirstPos..p - 1,
         Ready(At(p)), At(q) \in BaudStages => At(p) \in BaudStages
  PROVE  Done(At(q))
<1>1. PICK r \in DOMAIN Stages : At(r) = At(p) /\ \A t \in Before(r) : Done(t)
  BY DEF Ready
<1>2. r = p
  <2>1. r \in 1..LastPos + 1 /\ p \in 1..LastPos + 1
    BY TablePlaces
  <2> QED BY <1>1, <2>1, TableDistinct
<1>3. At(q) \in {At(o) : o \in 1..p - 1}
  BY TablePlaces
<1>4. At(q) \in Command \cup OnItsOwn
  <2>1. q \in FirstPos..LastPos
    BY TablePlaces
  <2> QED BY <2>1, TableNames
<1>5. At(q) \notin ByUnit \cup {"first"}
  BY <1>4 DEF Command, OnItsOwn, ByUnit
<1>6. At(q) \in Before(p)
  BY <1>3, <1>5 DEF Before
<1> QED BY <1>1, <1>2, <1>6

(* The chip does nothing by itself before it knows the size of the image.   *)
LEMMA OwnAfterInfo ==
  ASSUME link \in {"serial", "ethernet"}, NEW s \in OnItsOwn, Ready(s)
  PROVE  "info" \in did
<1>1. PICK p \in 1..LastPos + 1 : At(p) = s
  BY TablePlaces DEF Ready
<1>2. p \in InfoPos + 1..LastPos
  BY <1>1, OwnPlace
<1>3. p \in FirstPos..LastPos /\ InfoPos \in FirstPos..p - 1
  BY <1>2, TablePlaces
<1>4. Done(At(InfoPos))
  BY <1>1, <1>3, ReadyNeeds, TableNames DEF BaudStages
<1> QED BY <1>4, TableNames DEF Done

(* What the chip is ready for it stays ready for.                           *)
LEMMA ReadyStays ==
  ASSUME link' = link, did \subseteq did', flash \subseteq flash', NEW s, Ready(s)
  PROVE  Ready(s)'
<1>1. \A t : Done(t) => Done(t)'
  BY SameLink DEF Done
<1> QED BY <1>1, SameLink DEF Ready

(* A block that is not of this worker, the first on Ethernet, makes the     *)
(* chip ready for nothing.                                                  *)
LEMMA ReadySame ==
  ASSUME link' = link, did' = did, Sent \cap flash' = Sent \cap flash, NEW s
  PROVE  Ready(s)' <=> Ready(s)
<1>1. \A t : Done(t)' <=> Done(t)
  BY SameLink DEF Done
<1> QED BY <1>1, SameLink DEF Ready

-----------------------------------------------------------------------------
(* The types of the variables.                                              *)
SdkTypeOK ==
  /\ link \in {"serial", "ethernet"} /\ unit \in {"old", "recent"} /\ late \in BOOLEAN
  /\ sdkPc \in {"stage", "read"} \cup SdkEnds
  /\ pos \in 1..LastPos + 1 /\ block \in FirstBlock..Blocks /\ trial \in Nat
  /\ sdkPc = "read" /\ pos = BlockPos => block < Blocks
  /\ version \in {"old", "recent"} /\ sdkStopped \in BOOLEAN
  /\ wire \in Seq(Commands) /\ replies \in Seq(Answers)
  /\ did \subseteq (Command \cup OnItsOwn) \ {"block"} /\ flash \subseteq Nat

(* The invariant.  It is about a worker that is on its way to the image's   *)
(* check.  So many acknowledgements that lie before the worker, so many     *)
(* stages the chip is ahead.                                                *)
Running == sdkPc \in {"stage", "read"} /\ pos <= LastPos
AcksUpTo(i) == \A j \in 1..i : replies[j] = "ack"
Behind  == \A i \in 0..Len(replies) : AcksUpTo(i) => DoneUpTo(Current - 1 + i)

(* The chip has carried out no command that was not sent, and nothing on    *)
(* its own before its turn.                                                 *)
OnlySent ==
  /\ \A p \in FirstPos..LastPos :
       At(p) \in Command \cap did => p < pos \/ (p = pos /\ trial > 0)
  /\ \A b \in Sent \cap flash :
       pos > BlockPos \/ (pos = BlockPos /\ (b < block \/ (b = block /\ trial > 0)))
OwnInTurn == \A s \in OnItsOwn \cap did : Ready(s)

(* Acknowledgements come from a chip that has done something.               *)
Acked ==
  /\ \A i \in 1..Len(replies) : replies[i] \in {"ack", "nak"} => did # {}
  /\ \A i \in 1..Len(replies) : replies[i] = "nak" => "crc" \in did
  /\ Sent \cap flash # {} => did # {}

(* A command on its way is the one the worker waits for, the last in the    *)
(* wire, and nothing that could be taken for its reply is there or to come  *)
(* by itself.                                                               *)
Idle == \A s \in OnItsOwn : s \in did \/ ~Ready(s)
Pending ==
  \A i \in 1..Len(wire) : wire[i].stage \in Command =>
    /\ i = Len(wire) /\ wire[i].stage = Now.name /\ wire[i].block = block
    /\ sdkPc = "read" /\ Idle
    /\ replies # <<>> => replies[1] # "ack"
    /\ Ethernet => replies = <<>>

Counters ==
  /\ pos < BlockPos => block = FirstBlock
  /\ pos > BlockPos => block = Blocks
  /\ sdkPc = "read" => trial > 0

(* The serial worker sends the commands to the chip once.                   *)
OverSerial ==
  /\ sdkPc = "stage" /\ pos >= FirstPos => trial = 0
  /\ \A i \in 1..Len(wire) : wire[i].stage # "first"

(* The other one sends them again, but only when nothing is left to come.   *)
OverEthernet ==
  /\ version = "recent" /\ pos \notin 6..8 /\ did \cap BaudStages = {}
  /\ pos < FirstPos => /\ Len(wire) + Len(replies) <= IF sdkPc = "stage" THEN 0 ELSE 1
                       /\ pos = 5 => sdkPc = "stage"
  /\ pos >= FirstPos =>
       /\ \A i \in 1..Len(replies) :
            replies[i] \in {"ack", "nak"} /\ (replies[i] = "nak" => i = Len(replies))
       /\ \A i \in 1..Len(wire) :
            wire[i].stage \in Command \cup {"first"} /\ (wire[i].stage = "first" => did = {})
       /\ sdkPc = "stage" /\ trial > 0 => wire = <<>> /\ replies = <<>> /\ Idle

Track ==
  Behind /\ OnlySent /\ OwnInTurn /\ Acked /\ Pending /\ Counters
    /\ IF Ethernet THEN OverEthernet ELSE OverSerial
SdkInv == SdkTypeOK /\ (Good => InStep /\ (Running => Track))

-----------------------------------------------------------------------------
(* The next stage: the one after it, or the first behind change_baud.       *)
LEMMA SkippedIs ==
  ASSUME SdkTypeOK, NEW p \in 1..LastPos + 1
  PROVE  Skipped(p) <=> Ethernet /\ version # "old" /\ p \in 6..8
<1>1. CASE Ethernet
  <2>1. link = "ethernet" /\ p \in 1..18
    BY <1>1 DEF Ethernet, LastPos
  <2>2. \A q \in 1..18 : q = 1 \/ q = 2 \/ q = 3 \/ q = 4 \/ q = 5 \/ q = 6 \/ q = 7 \/ q = 8 \/ q = 9
                          \/ q = 10 \/ q = 11 \/ q = 12 \/ q = 13 \/ q = 14 \/ q = 15 \/ q = 16
                          \/ q = 17 \/ q = 18
    OBVIOUS
  <2>3. At(p) \in BaudStages <=> p \in 6..8
    BY <2>1, <2>2, EthernetTable DEF Row, BaudStages
  <2> QED BY <1>1, <2>3 DEF Skipped
<1>2. CASE ~Ethernet
  BY <1>2 DEF Skipped
<1> QED BY <1>1, <1>2

LEMMA NextIs ==
  ASSUME SdkTypeOK, NextStage
  PROVE  /\ block' = block
         /\ pos = LastPos + 1 => sdkPc' = "finished" /\ pos' = pos /\ trial' = trial
         /\ pos <= LastPos =>
              /\ sdkPc' = "stage" /\ trial' = 0
              /\ pos' = IF Ethernet /\ version # "old" /\ pos + 1 \in 6..8 THEN 9 ELSE pos + 1
<1>1. CASE pos = LastPos + 1
  BY <1>1, TablePlaces DEF NextStage, SdkTypeOK
<1>2. CASE pos <= LastPos
  <2> DEFINE Fits(p) == ~Skipped(p) /\ \A q \in pos + 1..p - 1 : Skipped(q)
             target == IF Ethernet /\ version # "old" /\ pos + 1 \in 6..8 THEN 9 ELSE pos + 1
  <2>1. /\ pos \in 1..LastPos /\ Len(Stages) = LastPos + 1
        /\ LastPos \in {13, 17} /\ (Ethernet => LastPos = 17)
    BY <1>2, TablePlaces DEF SdkTypeOK, LastPos
  <2>2. GoTo(CHOOSE p \in pos + 1..LastPos + 1 : Fits(p))
    BY <2>1 DEF NextStage
  <2>3. \A p \in pos + 1..LastPos + 1 : Skipped(p) <=> Ethernet /\ version # "old" /\ p \in 6..8
    BY <2>1, SkippedIs
  <2>4. target \in pos + 1..LastPos + 1 /\ Fits(target)
    BY <2>1, <2>3
  <2>5. \A p \in pos + 1..LastPos + 1 : Fits(p) => p = target
    <3> SUFFICES ASSUME NEW p \in pos + 1..LastPos + 1, Fits(p), p # target PROVE FALSE
      OBVIOUS
    <3>1. CASE p < target
      BY <2>1, <2>4, <3>1
    <3>2. CASE p > target
      BY <2>1, <2>4, <3>2
    <3> QED BY <2>1, <3>1, <3>2
  <2> HIDE DEF Fits
  <2>6. target = CHOOSE p \in pos + 1..LastPos + 1 : Fits(p)
    BY <2>4, <2>5
  <2> QED BY <2>1, <2>2, <2>6 DEF GoTo
<1> QED BY <1>1, <1>2, TablePlaces DEF SdkTypeOK

(* Reading from and writing to a queue.                                     *)
LEMMA TailIs ==
  ASSUME NEW S, NEW q \in Seq(S), q # <<>>
  PROVE  /\ Tail(q) \in Seq(S) /\ Head(q) = q[1] /\ q[1] \in S
         /\ Len(q) \in Nat \ {0} /\ Len(Tail(q)) = Len(q) - 1
         /\ \A i \in 1..Len(q) - 1 : Tail(q)[i] = q[i + 1]
OBVIOUS

LEMMA AppendIs ==
  ASSUME NEW S, NEW q \in Seq(S), NEW e \in S
  PROVE  /\ Append(q, e) \in Seq(S) /\ Len(q) \in Nat /\ Len(Append(q, e)) = Len(q) + 1
         /\ \A i \in 1..Len(q) : Append(q, e)[i] = q[i]
         /\ Append(q, e)[Len(q) + 1] = e
OBVIOUS

(* The types are right when a worker begins, and stay so.                   *)
Fresh ==
  /\ link \in {"serial", "ethernet"} /\ unit \in {"old", "recent"} /\ late \in BOOLEAN
  /\ sdkPc = "stage" /\ pos = 1 /\ block = FirstBlock /\ trial = 0
  /\ version = "recent" /\ sdkStopped \in BOOLEAN
  /\ wire = <<>> /\ replies = <<>> /\ did = {} /\ flash = {}

LEMMA InitIsFresh == SdkInit => Fresh
BY DEF SdkInit, Fresh

LEMMA FreshTypes == ASSUME Fresh PROVE SdkTypeOK
<1> USE SdkWorkerAssumption DEF Fresh
<1>1. link \in {"serial", "ethernet"} /\ unit \in {"old", "recent"} /\ late \in BOOLEAN
  OBVIOUS
<1>2. pos \in 1..LastPos + 1 /\ block \in FirstBlock..Blocks
  BY DEF LastPos, FirstBlock
<1>3. wire \in Seq(Commands) /\ replies \in Seq(Answers)
  OBVIOUS
<1> QED BY <1>1, <1>2, <1>3 DEF SdkTypeOK

LEMMA AtBlock == ASSUME SdkTypeOK PROVE Now.name = "block" <=> pos = BlockPos
<1>1. Now.name = At(pos) /\ At(BlockPos) = "block"
  BY TableNames DEF Now, At, SdkTypeOK
<1>2. pos \in 1..LastPos + 1 /\ BlockPos \in 1..LastPos + 1
  BY TablePlaces DEF SdkTypeOK
<1> QED BY <1>1, <1>2, TableDistinct DEF SdkTypeOK

(* What a turn of the worker does to its stage.                             *)
Turned ==
  /\ sdkPc' \in {"stage", "read"} \cup SdkEnds
  /\ pos' \in 1..LastPos + 1 /\ block' \in FirstBlock..Blocks /\ trial' \in Nat
  /\ sdkPc' = "read" /\ pos' = BlockPos => block' < Blocks

(* What becomes of the stage.                                               *)
LEMMA MovesOn == ASSUME SdkTypeOK, NextStage PROVE Turned
<1>1. pos \in 1..LastPos + 1 /\ LastPos \in Nat /\ (Ethernet => LastPos = 17)
  BY DEF SdkTypeOK, LastPos
<1>2. CASE pos = LastPos + 1
  BY <1>1, <1>2, NextIs DEF SdkTypeOK, Turned, SdkEnds
<1>3. CASE pos <= LastPos
  BY <1>1, <1>3, NextIs DEF SdkTypeOK, Turned
<1> QED BY <1>1, <1>2, <1>3

LEMMA Raises == ASSUME SdkTypeOK, RaiseError PROVE Turned
  BY DEF SdkTypeOK, Turned, RaiseError, SdkEnds

LEMMA TurnsAgain == ASSUME SdkTypeOK, Again, sdkPc = "read" PROVE Turned
<1>1. CASE trial < Now.tries
  BY <1>1 DEF SdkTypeOK, Turned, Again
<1>2. CASE ~(trial < Now.tries)
  BY <1>2, MovesOn, Raises DEF Again
<1> QED BY <1>1, <1>2

LEMMA TypeAfter ==
  ASSUME SdkTypeOK, Turned, UNCHANGED runVars, UNCHANGED sdkStopped,
         version' \in {"old", "recent"},
         wire' \in Seq(Commands), replies' \in Seq(Answers),
         UNCHANGED <<did, flash>>
  PROVE  SdkTypeOK'
BY SameLink DEF SdkTypeOK, Turned, runVars

LEMMA WorkType ==
  ASSUME SdkTypeOK, SdkWork
  PROVE  SdkTypeOK'
<1> USE DEF SdkTypeOK
<1>1. CASE Stopped
  BY <1>1, MovesOn, Raises, TypeAfter DEF Stopped, chipVars
<1>2. CASE SendStage
  <2>1. replies' \in Seq(Answers)
    BY <1>2 DEF SendStage
  <2>2. Now.kind # "wait" => Now.name \in Sendable
    <3>1. At(pos) \in Names /\ Now.name = At(pos)
      BY TableNames DEF At, Now
    <3>2. At(pos) \in OnItsOwn => pos \in FirstPos..LastPos
      BY OwnPlace, TablePlaces
    <3>3. At(pos) \in OnItsOwn => Now.kind = "wait"
      BY <3>2, TableKinds DEF Now
    <3> QED BY <3>1, <3>3 DEF Names, Sendable
  <2>3. wire' \in Seq(Commands)
    <3>1. CASE Now.kind = "wait"
      BY <1>2, <3>1 DEF SendStage
    <3>2. CASE Now.kind # "wait"
      <4>1. [stage |-> Now.name, block |-> block] \in Commands
        BY <2>2, <3>2, SdkWorkerAssumption DEF FirstBlock, Commands
      <4> QED BY <1>2, <3>2, <4>1, AppendIs DEF SendStage
    <3> QED BY <3>1, <3>2
  <2>4. Turned
    <3>1. CASE Now.kind = "tell"
      BY <1>2, <3>1, MovesOn DEF SendStage
    <3>2. CASE Now.kind # "tell"
      <4>1. pos = BlockPos => block < Blocks
        BY <1>2, TableNames, SdkWorkerAssumption DEF SendStage, AllWritten, Now, At, FirstBlock
      <4> QED BY <1>2, <3>2, <4>1 DEF SendStage, Turned
    <3> QED BY <3>1, <3>2
  <2> QED BY <1>2, <2>1, <2>3, <2>4, TypeAfter DEF SendStage
<1>3. CASE FlashWritten
  BY <1>3, MovesOn, TypeAfter DEF FlashWritten, chipVars
<1>4. CASE ReadOther
  <2>1. Turned
    BY <1>4 DEF ReadOther, workerVars, stageVars, Turned
  <2> QED BY <1>4, <2>1, TypeAfter, TailIs DEF ReadOther, workerVars
<1>5. CASE ReadReply
  <2>1. replies' \in Seq(Answers) /\ version' \in {"old", "recent"}
    BY <1>5, TailIs DEF ReadReply
  <2>2. Turned
    <3>1. CASE Now.name = "block"
      <4>1. pos = BlockPos
        BY <3>1, AtBlock
      <4> QED BY <1>5, <3>1, <4>1, SdkWorkerAssumption DEF ReadReply, Turned, FirstBlock
    <3>2. CASE Now.name # "block"
      BY <1>5, <3>2, MovesOn DEF ReadReply
    <3> QED BY <3>1, <3>2
  <2> QED BY <1>5, <2>1, <2>2, TypeAfter DEF ReadReply
<1>6. CASE ReadMismatch
  BY <1>6, TurnsAgain, TypeAfter, TailIs DEF ReadMismatch
<1>7. CASE ReadGivesUp
  BY <1>7, TurnsAgain, TypeAfter DEF ReadGivesUp, chipVars
<1> QED BY <1>1, <1>2, <1>3, <1>4, <1>5, <1>6, <1>7 DEF SdkWork

LEMMA LinkType ==
  ASSUME SdkTypeOK, SdkLink
  PROVE  SdkTypeOK'
<1> USE DEF SdkTypeOK
<1>1. /\ UNCHANGED <<sdkPc, pos, block, trial, version, sdkStopped, link, unit, late>>
      /\ UNCHANGED <<LastPos, FirstBlock, BlockPos>>
  BY SameLink DEF SdkLink, Receive, Lose, ChipGoesOn, workerVars, stageVars, runVars
<1>2. \A r \in Answers : Reply(r) => replies' \in Seq(Answers)
  BY AppendIs DEF Reply
<1>3. CASE Receive
  <2>1. /\ wire' \in Seq(Commands)
        /\ Head(wire).stage \in Sendable /\ Head(wire).block \in Nat
    <3>1. wire # <<>> /\ wire' = Tail(wire)
      BY <1>3 DEF Receive
    <3>2. wire' \in Seq(Commands) /\ Head(wire) \in Commands
      BY <3>1, TailIs
    <3> QED BY <3>2 DEF Commands
  <2>2. replies' \in Seq(Answers)
    BY <1>2, <1>3, <2>1 DEF Receive, ByUnit, Answers
  <2>3. did' \subseteq (Command \cup OnItsOwn) \ {"block"} /\ flash' \subseteq Nat
    <3>1. \/ UNCHANGED did
          \/ did' = did \cup {Head(wire).stage} /\ Head(wire).stage \notin ByUnit \cup {"first", "block"}
      BY <1>3 DEF Receive
    <3>2. flash' = flash \/ flash' = flash \cup {0} \/ flash' = flash \cup {Head(wire).block}
      BY <1>3 DEF Receive
    <3>3. did' \subseteq (Command \cup OnItsOwn) \ {"block"}
      BY <2>1, <3>1 DEF Sendable
    <3>4. flash \subseteq Nat /\ {0} \subseteq Nat /\ {Head(wire).block} \subseteq Nat
      BY <2>1
    <3>5. flash' \subseteq Nat
      BY ONLY <3>2, <3>4
    <3> QED BY <3>3, <3>5
  <2> QED BY <1>1, <2>1, <2>2, <2>3
<1>4. CASE Lose
  BY <1>1, <1>4, TailIs DEF Lose
<1>5. ASSUME NEW s \in OnItsOwn, ChipGoesOn(s) PROVE SdkTypeOK'
  <2>1. replies' \in Seq(Answers)
    BY <1>2, <1>5 DEF ChipGoesOn, Answers
  <2>2. did' \subseteq (Command \cup OnItsOwn) \ {"block"}
    BY <1>5 DEF ChipGoesOn, OnItsOwn
  <2> QED BY <1>1, <1>5, <2>1, <2>2 DEF ChipGoesOn
<1> QED BY <1>3, <1>4, <1>5 DEF SdkLink

(* What is known of the places and blocks as numbers.                       *)
LEMMA Numbers ==
  ASSUME SdkTypeOK
  PROVE  /\ FirstPos \in Nat /\ InfoPos \in Nat /\ BlockPos \in Nat /\ LastPos \in Nat
         /\ 0 < FirstPos /\ FirstPos < InfoPos /\ InfoPos < BlockPos /\ LastPos = BlockPos + 1
         /\ pos \in 1..LastPos + 1
         /\ FirstBlock \in Nat /\ Blocks \in Nat /\ block \in Nat /\ FirstBlock <= block /\ block <= Blocks
<1>1. link \in {"serial", "ethernet"} /\ pos \in 1..LastPos + 1 /\ block \in FirstBlock..Blocks
  BY DEF SdkTypeOK
<1>2. FirstBlock \in Nat /\ Blocks \in Nat
  BY SdkWorkerAssumption DEF FirstBlock
<1> QED BY <1>1, <1>2, TablePlaces

-----------------------------------------------------------------------------
(* Before the first command the chip has done nothing.                      *)
LEMMA Early ==
  ASSUME SdkTypeOK, Track, pos < FirstPos
  PROVE  /\ did = {} /\ Sent \cap flash = {}
         /\ \A i \in 1..Len(replies) : replies[i] \notin {"ack", "nak"}
<1>1. \A s \in Command \ {"block"} : s \notin did
  <2> SUFFICES ASSUME NEW s \in (Command \ {"block"}) \cap did PROVE FALSE
    OBVIOUS
  <2>1. CASE Ethernet /\ s \in BaudStages
    BY <2>1 DEF Track, OverEthernet
  <2>2. ASSUME NEW p \in FirstPos..InfoPos, At(p) = s PROVE FALSE
    <3>1. p \in FirstPos..LastPos /\ p > pos
      BY TablePlaces DEF SdkTypeOK
    <3> QED BY <2>2, <3>1, TablePlaces DEF Track, OnlySent, SdkTypeOK
  <2> QED BY <2>1, <2>2, TableNames DEF SdkTypeOK
<1>2. \A s \in OnItsOwn : s \notin did
  BY <1>1, OwnAfterInfo DEF Track, OwnInTurn, SdkTypeOK, Command
<1>3. did = {}
  BY <1>1, <1>2 DEF SdkTypeOK
<1> QED BY <1>3 DEF Track, Acked

(* What lies before the worker has a smaller number, what lies behind it a  *)
(* greater one.                                                             *)
LEMMA PlaceOrder ==
  ASSUME SdkTypeOK
  PROVE  /\ Current \in Int /\ \A p \in 1..LastPos + 1 : Place(p) \in Int
         /\ \A b \in Sent : b \in Nat /\ BlockPlace(b) \in BlockPos..LastPos + Blocks
         /\ \A p \in (1..LastPos + 1) \ {BlockPos} :
              /\ p < pos => Place(p) < Current
              /\ p > pos => Place(p) > Current \/ (pos = BlockPos /\ block = Blocks)
         /\ pos # BlockPos => Place(pos) = Current
         /\ pos > BlockPos => \A b \in Sent : BlockPlace(b) < Current
         /\ pos < BlockPos => \A b \in Sent : BlockPlace(b) >= Current + 1
         /\ pos = BlockPos =>
              \A b \in Sent : /\ b < block => BlockPlace(b) < Current
                              /\ b > block => BlockPlace(b) > Current
                              /\ b = block => BlockPlace(b) = Current
<1>1. /\ pos \in 1..LastPos + 1 /\ LastPos = BlockPos + 1 /\ BlockPos \in {12, 16}
      /\ FirstBlock \in Nat /\ Blocks \in Nat /\ block \in FirstBlock..Blocks
  BY TablePlaces, SdkWorkerAssumption DEF SdkTypeOK, FirstBlock
<1> QED BY <1>1 DEF Place, BlockPlace, Current, Sent

(* A chip that has done all before Current is one that the worker is in     *)
(* step with.                                                               *)
LEMMA InStepFrom ==
  SdkTypeOK /\ (Ethernet => version # "old") /\ pos <= LastPos /\ DoneUpTo(Current - 1) => InStep
<1> SUFFICES ASSUME SdkTypeOK, Ethernet => version # "old", pos <= LastPos, DoneUpTo(Current - 1)
             PROVE  InStep
  OBVIOUS
<1>1. ASSUME NEW p \in 1..pos - 1, At(p) \notin ByUnit \cup {"first"}, ~Skipped(p)
      PROVE  Done(At(p))
  <2>1. p \in FirstPos..LastPos
    <3>1. p \in 1..LastPos + 1
      BY TablePlaces DEF SdkTypeOK
    <3>2. ~(p \in 1..FirstPos - 1)
      BY <1>1, <3>1, TableStart, SkippedIs DEF SdkTypeOK
    <3> QED BY <3>1, <3>2, TablePlaces DEF SdkTypeOK
  <2>2. CASE p = BlockPos
    <3>1. \A b \in Sent : b \in flash
      BY <2>2, PlaceOrder, TablePlaces DEF DoneUpTo, SdkTypeOK
    <3> QED BY <2>2, <3>1, TableNames DEF Done, SdkTypeOK
  <2>3. CASE p # BlockPos
    <3>1. Place(p) <= Current - 1
      <4>1. p \in (1..LastPos + 1) \ {BlockPos} /\ p < pos
        BY <2>1, <2>3, TablePlaces DEF SdkTypeOK
      <4> QED BY <4>1, PlaceOrder
    <3>2. At(p) \in did /\ At(p) # "block"
      BY <2>1, <2>3, <3>1, TableNames DEF DoneUpTo, SdkTypeOK
    <3> QED BY <3>2 DEF Done
  <2> QED BY <2>2, <2>3
<1>2. Now.name = "block" => FirstBlock..block - 1 \subseteq flash
  <2> SUFFICES ASSUME Now.name = "block", NEW b \in FirstBlock..block - 1 PROVE b \in flash
    OBVIOUS
  <2>1. pos = BlockPos
    BY AtBlock
  <2>2. b \in Sent /\ b < block
    BY SdkWorkerAssumption DEF Sent, SdkTypeOK, FirstBlock
  <2>3. BlockPlace(b) <= Current - 1
    BY <2>1, <2>2, PlaceOrder, TablePlaces
  <2> QED BY <2>2, <2>3 DEF DoneUpTo
<1> QED BY <1>1, <1>2 DEF InStep

(* So it is when no acknowledgement is left to be read.                     *)
LEMMA DoneBefore == ASSUME SdkTypeOK, Behind PROVE DoneUpTo(Current - 1)
<1>1. Len(replies) \in Nat /\ Current \in Int
  BY PlaceOrder DEF SdkTypeOK
<1>2. AcksUpTo(0) => DoneUpTo(Current - 1 + 0)
  BY <1>1 DEF Behind
<1>3. AcksUpTo(0) /\ Current - 1 + 0 = Current - 1
  BY <1>1 DEF AcksUpTo
<1> QED BY <1>2, <1>3

LEMMA TrackInStep == SdkTypeOK /\ Track /\ pos <= LastPos => InStep
BY DoneBefore, InStepFrom DEF Track, OverEthernet

(* A worker that has ended stays in step, for the chip takes nothing back.  *)
LEMMA InStepKept ==
  ASSUME InStep, UNCHANGED <<runVars, pos, block, version>>, did \subseteq did', flash \subseteq flash'
  PROVE  InStep'
<1>1. link' = link /\ Now' = Now
  BY SameLink DEF runVars, Now
<1>2. \A s : Done(s) => Done(s)'
  BY <1>1, SameLink DEF Done
<1>3. \A p : Skipped(p)' = Skipped(p)
  BY <1>1, SameLink DEF Skipped
<1> QED BY <1>1, <1>2, <1>3, SameLink DEF InStep, runVars

(* The check of the image is the last thing the chip is waited for.         *)
LEMMA InStepLast ==
  ASSUME SdkTypeOK, Track, pos = LastPos, pos' = pos + 1, UNCHANGED <<runVars, version, did, flash>>,
         Ethernet \/ "crc" \in did
  PROVE  InStep'
<1>1. InStep
  BY TrackInStep, TablePlaces DEF SdkTypeOK
<1>2. link' = link
  BY DEF runVars
<1>3. \A s : Done(s)' <=> Done(s)
  BY <1>2, SameLink DEF Done
<1>4. \A p : Skipped(p)' = Skipped(p)
  BY <1>2, SameLink DEF Skipped
<1>5. \A p : Stages'[p] = Stages[p]
  BY <1>2, SameLink
<1>6. ~Stages[pos].optional => Done(At(pos))
  BY TableKinds, TableNames, TablePlaces DEF Done, SdkTypeOK
<1>7. Now'.name # "block"
  <2>1. Now'.name = At(LastPos + 1)
    BY <1>2, SameLink DEF Now, At
  <2> QED BY <2>1, TableNames DEF SdkTypeOK
<1>8. \A p \in 1..pos' - 1 : p \in 1..pos - 1 \/ p = pos
  BY TablePlaces DEF SdkTypeOK
<1> QED BY <1>1, <1>2, <1>3, <1>4, <1>5, <1>6, <1>7, <1>8, SameLink DEF InStep, runVars

-----------------------------------------------------------------------------
(* The worker before the first command to the chip.                         *)

(* What holds while nothing is done and no command is on its way.           *)
LEMMA EarlyTrack ==
  SdkTypeOK /\ Counters /\ did = {} /\ Sent \cap flash = {} /\ pos <= FirstPos
    /\ (\A i \in 1..Len(replies) : replies[i] \notin {"ack", "nak"})
    /\ (\A i \in 1..Len(wire) : wire[i].stage \notin Command)
  => Behind /\ OnlySent /\ OwnInTurn /\ Acked /\ Pending
<1> SUFFICES ASSUME SdkTypeOK, Counters, did = {}, Sent \cap flash = {}, pos <= FirstPos,
                    \A i \in 1..Len(replies) : replies[i] \notin {"ack", "nak"},
                    \A i \in 1..Len(wire) : wire[i].stage \notin Command
             PROVE  Behind /\ OnlySent /\ OwnInTurn /\ Acked /\ Pending
  OBVIOUS
<1>1. OnlySent /\ OwnInTurn /\ Acked /\ Pending
  BY DEF OnlySent, OwnInTurn, Acked, Pending
<1>2. Behind
  <2> SUFFICES ASSUME NEW i \in 0..Len(replies), AcksUpTo(i) PROVE DoneUpTo(Current - 1 + i)
    BY DEF Behind
  <2>1. i = 0
    <3>1. Len(replies) \in Nat
      BY DEF SdkTypeOK
    <3> SUFFICES ASSUME i >= 1 PROVE FALSE
      BY <3>1
    <3>2. replies[1] = "ack"
      BY <3>1 DEF AcksUpTo
    <3> QED BY <3>1, <3>2
  <2>2. pos < BlockPos /\ Current = pos /\ pos \in Nat
    BY TablePlaces DEF SdkTypeOK, Current, Place
  <2>3. \A p \in FirstPos..LastPos \ {BlockPos} : Place(p) \in Int /\ Place(p) >= pos
    <3> SUFFICES ASSUME NEW p \in FirstPos..LastPos \ {BlockPos} PROVE Place(p) \in Int /\ Place(p) >= pos
      OBVIOUS
    <3>1. p >= pos /\ p \in (1..LastPos + 1) \ {BlockPos}
      BY TablePlaces DEF SdkTypeOK
    <3>2. Place(p) \in Int /\ (p > pos => Place(p) > pos) /\ Place(pos) = pos
      BY <2>2, <3>1, PlaceOrder
    <3> QED BY <2>2, <3>1, <3>2
  <2>4. \A b \in Sent : BlockPlace(b) \in Int /\ BlockPlace(b) > pos
    BY <2>2, PlaceOrder, TablePlaces, SdkWorkerAssumption DEF SdkTypeOK
  <2>5. Current - 1 + i = pos - 1
    BY <2>1, <2>2
  <2> QED BY <2>2, <2>3, <2>4, <2>5 DEF DoneUpTo
<1> QED BY <1>1, <1>2

(* The stages before FirstPos are for the unit; those of change_baud are    *)
(* skipped.                                                                 *)
LEMMA EarlyNow ==
  ASSUME SdkTypeOK, Track, pos < FirstPos
  PROVE  /\ Now.name \notin Command \cup OnItsOwn /\ (~Ethernet => Now.name # "first")
         /\ Now.kind = "tell" <=> Ethernet /\ pos = 5
         /\ \A i \in 1..Len(wire) : wire[i].stage \notin Command
<1>1. pos \in 1..FirstPos - 1 /\ Now.name = At(pos) /\ Now = Stages[pos]
  BY TablePlaces DEF SdkTypeOK, Now, At
<1>2. Ethernet => pos \notin 6..8
  BY DEF Track, OverEthernet
<1>3. At(pos) \in ByUnit \cup {"first"}
  BY <1>1, <1>2, TableStart DEF SdkTypeOK
<1>4. Now.name \notin Command \cup OnItsOwn
  BY <1>1, <1>3 DEF ByUnit, OnItsOwn, Command
<1>5. ~Ethernet => Now.name # "first"
  <2> SUFFICES ASSUME ~Ethernet PROVE At(pos) # "first"
    BY <1>1
  <2>1. link = "serial" /\ (pos = 1 \/ pos = 2)
    BY <1>1 DEF SdkTypeOK, Ethernet, FirstPos
  <2> QED BY <2>1, SerialTable DEF Row
<1>6. Now.kind = "tell" <=> Ethernet /\ pos = 5
  <2>1. Now.kind = "tell" => Ethernet /\ pos = 5
    BY <1>1, <1>2, TableStart DEF SdkTypeOK
  <2>2. Ethernet => Stages[5].kind = "tell"
    BY EthernetTable DEF Ethernet, Row
  <2> QED BY <1>1, <2>1, <2>2
<1>7. \A i \in 1..Len(wire) : wire[i].stage \notin Command
  BY <1>4 DEF Track, Pending
<1> QED BY <1>4, <1>5, <1>6, <1>7

LEMMA EarlyNext ==
  ASSUME SdkTypeOK, Track, pos < FirstPos, NextStage
  PROVE  /\ sdkPc' = "stage" /\ trial' = 0 /\ block' = block
         /\ pos' = IF Ethernet /\ pos = 5 THEN 9 ELSE pos + 1
         /\ pos' <= FirstPos /\ (Ethernet => pos' \notin 6..8)
<1>1. pos \in 1..FirstPos - 1 /\ pos <= LastPos /\ FirstPos \in Nat /\ (Ethernet => FirstPos = 9)
  BY TablePlaces DEF SdkTypeOK, FirstPos
<1>2. Ethernet => pos \notin 6..8 /\ version # "old"
  BY DEF Track, OverEthernet
<1> QED BY <1>1, <1>2, NextIs

LEMMA EarlyAgain ==
  ASSUME SdkTypeOK, Track, pos < FirstPos, Again
  PROVE  \/ /\ sdkPc' = "stage" /\ UNCHANGED <<pos, block, trial>>
         \/ NextStage
         \/ sdkPc' \in SdkEnds /\ UNCHANGED <<pos, block, trial>>
<1>1. Now.name # "boot"
  BY EarlyNow DEF Command
<1> QED BY <1>1 DEF Again, RaiseError, SdkEnds

(* The queues before the first command.                                     *)
LEMMA EarlyReplies ==
  ASSUME SdkTypeOK, Track, pos < FirstPos, SdkWork
  PROVE  \A i \in 1..Len(replies') : replies'[i] \notin {"ack", "nak"}
<1>1. replies' = <<>> \/ replies' = replies \/ (replies # <<>> /\ replies' = Tail(replies))
  BY DEF SdkWork, Stopped, SendStage, FlashWritten, ReadOther, ReadReply, ReadMismatch, ReadGivesUp,
         chipVars
<1>2. \A i \in 1..Len(replies) : replies[i] \notin {"ack", "nak"}
  BY Early
<1>3. CASE replies # <<>> /\ replies' = Tail(replies)
  <2>1. /\ Len(replies) \in Nat \ {0} /\ Len(Tail(replies)) = Len(replies) - 1
        /\ \A i \in 1..Len(replies) - 1 : Tail(replies)[i] = replies[i + 1]
    BY <1>3, TailIs DEF SdkTypeOK
  <2>2. \A i \in 1..Len(replies) - 1 : i + 1 \in 1..Len(replies)
    BY <2>1
  <2> QED BY <1>2, <1>3, <2>1, <2>2
<1> QED BY <1>1, <1>2, <1>3

(* What is sent is no command to the chip.                                  *)
LEMMA EarlyWire ==
  ASSUME SdkTypeOK, Track, pos < FirstPos, SdkWork
  PROVE  /\ \A i \in 1..Len(wire') : wire'[i].stage \notin Command
         /\ ~Ethernet => \A i \in 1..Len(wire') : wire'[i].stage # "first"
<1> DEFINE e == [stage |-> Now.name, block |-> block]
           Fine(m) == m.stage \notin Command /\ (Ethernet \/ m.stage # "first")
<1>1. wire' = wire \/ wire' = Append(wire, e)
  BY DEF SdkWork, Stopped, SendStage, FlashWritten, ReadOther, ReadReply, ReadMismatch, ReadGivesUp,
         chipVars
<1>2. \A i \in 1..Len(wire) : Fine(wire[i])
  BY EarlyNow DEF Track, OverSerial
<1>3. Fine(e)
  BY EarlyNow
<1>4. /\ Len(wire) \in Nat /\ Len(Append(wire, e)) = Len(wire) + 1
      /\ \A i \in 1..Len(wire) : Append(wire, e)[i] = wire[i]
      /\ Append(wire, e)[Len(wire) + 1] = e
  BY DEF SdkTypeOK
<1>5. \A i \in 1..Len(wire') : Fine(wire'[i])
  <2> HIDE DEF e, Fine
  <2>1. CASE wire' = wire
    BY <1>2, <2>1
  <2>2. CASE wire' = Append(wire, e)
    BY <1>2, <1>3, <1>4, <2>2
  <2> QED BY <1>1, <2>1, <2>2
<1> QED BY <1>5

(* How the worker moves there.                                              *)
LEMMA EarlyMoves ==
  ASSUME SdkTypeOK, Track, pos < FirstPos, SdkWork
  PROVE  /\ UNCHANGED <<did, flash, runVars>> /\ block' = block
         /\ \/ sdkPc' \in SdkEnds /\ pos' = pos /\ version' = version
            \/ /\ pos' <= FirstPos /\ (Ethernet => pos' \notin 6..8)
               /\ \/ sdkPc' = "stage" /\ (pos' = FirstPos => trial' = 0)
                  \/ sdkPc' = "read" /\ pos' = pos /\ trial' > 0 /\ ~(Ethernet /\ pos = 5)
<1> DEFINE Moved == \/ sdkPc' \in SdkEnds /\ pos' = pos /\ block' = block
                    \/ /\ pos' <= FirstPos /\ (Ethernet => pos' \notin 6..8) /\ block' = block
                       /\ \/ sdkPc' = "stage" /\ (pos' = FirstPos => trial' = 0)
                          \/ sdkPc' = "read" /\ pos' = pos /\ trial' > 0 /\ ~(Ethernet /\ pos = 5)
<1>1. /\ pos \in Nat /\ trial \in Nat /\ FirstPos \in Nat /\ Now.name # "block"
      /\ Ethernet => pos \notin 6..8
      /\ sdkPc = "read" => trial > 0 /\ ~(Ethernet /\ pos = 5)
  BY EarlyNow, TablePlaces DEF SdkTypeOK, Command, Track, OverEthernet, Counters
<1>2. NextStage => Moved
  BY EarlyNext
<1>3. RaiseError => Moved
  BY DEF RaiseError, SdkEnds
<1>4. Again => Moved
  BY <1>1, <1>2, EarlyAgain
<1>5. Stopped => Moved /\ version' = version
  BY <1>2, <1>3 DEF Stopped
<1>6. SendStage => Moved /\ version' = version
  <2>1. CASE Now.kind = "tell"
    BY <1>2, <2>1 DEF SendStage
  <2>2. CASE Now.kind # "tell"
    BY <1>1, <2>2, EarlyNow DEF SendStage
  <2> QED BY <2>1, <2>2
<1>7. ~FlashWritten
  BY <1>1 DEF FlashWritten, AllWritten
<1>8. ReadOther => Moved /\ version' = version
  BY <1>1 DEF ReadOther, workerVars, stageVars
<1>9. ReadReply => NextStage
  BY <1>1 DEF ReadReply
<1>10. (ReadMismatch => Again /\ version' = version) /\ (ReadGivesUp => Again /\ version' = version)
  BY DEF ReadMismatch, ReadGivesUp
<1>11. UNCHANGED <<did, flash, runVars>>
  BY DEF SdkWork, Stopped, SendStage, FlashWritten, ReadOther, ReadReply, ReadMismatch, ReadGivesUp,
         chipVars
<1>12. NextStage => sdkPc' \notin SdkEnds
  BY EarlyNext DEF SdkEnds
<1>13. Moved /\ (version' = version \/ sdkPc' \notin SdkEnds)
  <2> HIDE DEF Moved
  <2> QED BY <1>2, <1>4, <1>5, <1>6, <1>7, <1>8, <1>9, <1>10, <1>12 DEF SdkWork
<1> QED BY <1>11, <1>13

(* On Ethernet there is at most one message under way, the command or its   *)
(* reply; the first block goes ahead of the commands.                       *)
LEMMA EarlyEthernet ==
  ASSUME SdkTypeOK, Good, Ethernet, Track, pos < FirstPos, SdkWork, sdkPc' \notin SdkEnds
  PROVE  OverEthernet'
<1> DEFINE under == Len(wire) + Len(replies)
<1>1. /\ pos \in Nat /\ trial \in Nat /\ FirstPos = 9 /\ Now.name # "block" /\ ~late /\ unit = "recent"
      /\ version = "recent" /\ pos <= 5 /\ (sdkPc = "read" => pos # 5)
      /\ Len(wire) \in Nat /\ Len(replies) \in Nat
      /\ under <= IF sdkPc = "stage" THEN 0 ELSE 1
      /\ pos = 5 <=> Now.kind = "tell"
  BY EarlyNow DEF SdkTypeOK, Command, Track, OverEthernet, Good, FirstPos
<1>2. UNCHANGED <<did, flash, runVars>> /\ did = {} /\ FirstPos' = 9 /\ pos' \notin 6..8
  BY EarlyMoves, Early, SameLink, <1>1 DEF runVars, SdkEnds
<1>3. version' = "recent"
  BY <1>1 DEF SdkWork, Stopped, SendStage, FlashWritten, ReadOther, ReadReply, ReadMismatch, ReadGivesUp,
              workerVars
<1>4. NextStage => sdkPc' = "stage" /\ pos' = IF pos = 5 THEN 9 ELSE pos + 1
  BY EarlyNext
<1>5. Again /\ sdkPc = "read" => sdkPc' = "stage" /\ pos' \in Nat /\ pos' <= 5
  BY <1>1, <1>4, EarlyAgain
<1> DEFINE Few   == /\ Len(wire') + Len(replies') <= IF sdkPc' = "stage" THEN 0 ELSE 1
                    /\ pos' = 5 => sdkPc' = "stage"
           First == /\ pos' = 9 /\ sdkPc' = "stage" /\ trial' = 0 /\ replies' = <<>>
                    /\ wire' = <<[stage |-> "first", block |-> block]>>
           Goal  == (pos' < 9 => Few) /\ (pos' >= 9 => First)
<1>6. ~Stopped
  <2>1. Now.name # "crc"
    BY EarlyNow DEF OnItsOwn
  <2> QED BY <2>1 DEF Stopped, RaiseError, SdkEnds
<1>7. ASSUME SendStage PROVE Goal
  <2>1. wire = <<>> /\ replies = <<>> /\ replies' = <<>> /\ sdkPc = "stage"
    <3>1. Len(wire) = 0 /\ Len(replies) = 0 /\ sdkPc = "stage"
      BY <1>1, <1>7 DEF SendStage
    <3> QED BY <1>7, <3>1 DEF SendStage, SdkTypeOK
  <2>2. CASE Now.kind = "tell"
    <3>1. Now.name = "first"
      BY <1>1, <2>2, EthernetTable DEF Ethernet, Row, Now, At
    <3>2. pos' = 9 /\ sdkPc' = "stage" /\ trial' = 0
      BY <1>1, <1>7, <2>2, EarlyNext DEF SendStage
    <3>3. wire' = <<[stage |-> "first", block |-> block]>>
      BY <1>7, <2>1, <2>2, <3>1 DEF SendStage
    <3> QED BY <2>1, <3>2, <3>3
  <2>3. CASE Now.kind # "tell"
    <3>1. Len(wire') <= 1 /\ Len(wire') \in Nat /\ Len(replies') = 0
      BY <1>7, <2>1 DEF SendStage
    <3>2. pos' = pos /\ sdkPc' = "read"
      BY <1>7, <2>3 DEF SendStage
    <3> QED BY <1>1, <2>3, <3>1, <3>2
  <2> QED BY <2>2, <2>3
<1>8. ~FlashWritten
  BY <1>1 DEF FlashWritten, AllWritten
<1>9. ASSUME sdkPc = "read", replies # <<>>, replies' = Tail(replies), wire' = wire PROVE
        Len(wire') + Len(replies') = 0
  BY <1>1, <1>9, TailIs DEF SdkTypeOK
<1>10. ASSUME ReadOther PROVE Goal
  BY <1>1, <1>9, <1>10 DEF ReadOther, workerVars, stageVars
<1>11. ASSUME ReadReply PROVE Goal
  <2>1. Now.name # "baud" /\ sdkPc = "read" /\ NextStage
    BY <1>1, <1>11, EarlyNow DEF ReadReply, Command
  <2>2. Len(wire') + Len(replies') = 0
    BY <1>9, <1>11, <2>1 DEF ReadReply
  <2> QED BY <1>1, <1>4, <2>1, <2>2
<1>12. ASSUME ReadMismatch PROVE Goal
  <2>1. Again /\ sdkPc = "read" /\ Len(wire') + Len(replies') = 0
    BY <1>9, <1>12 DEF ReadMismatch
  <2> QED BY <1>5, <2>1
<1>13. ASSUME ReadGivesUp PROVE Goal
  <2>1. wire' = <<>> /\ replies' = <<>> /\ Again /\ sdkPc = "read"
    BY <1>1, <1>13 DEF ReadGivesUp, Quiet, chipVars
  <2>2. Len(wire') + Len(replies') = 0
    BY <2>1
  <2> QED BY <1>5, <2>1, <2>2
<1>14. Goal
  BY <1>6, <1>7, <1>8, <1>10, <1>11, <1>12, <1>13 DEF SdkWork
<1>15. ASSUME pos' >= 9 PROVE
         /\ \A i \in 1..Len(replies') :
               replies'[i] \in {"ack", "nak"} /\ (replies'[i] = "nak" => i = Len(replies'))
         /\ \A i \in 1..Len(wire') :
               wire'[i].stage \in Command \cup {"first"} /\ (wire'[i].stage = "first" => did' = {})
         /\ ~(sdkPc' = "stage" /\ trial' > 0)
  <2>1. First
    BY <1>14, <1>15
  <2>2. Len(wire') = 1 /\ wire'[1].stage = "first" /\ Len(replies') = 0
    BY <2>1
  <2> QED BY <1>2, <2>1, <2>2
<1> QED BY <1>2, <1>3, <1>14, <1>15 DEF OverEthernet

(* All in all, the worker keeps the invariant up to FirstPos.               *)
LEMMA EarlyWork ==
  ASSUME SdkTypeOK, Good, Track, InStep, pos < FirstPos, SdkWork
  PROVE  IF Running' THEN Track' ELSE InStep'
<1>1. link' = link /\ SdkTypeOK' /\ UNCHANGED <<did, flash, runVars, block>>
  BY EarlyMoves, WorkType DEF runVars
<1>2. CASE sdkPc' \in SdkEnds
  <2>1. ~Running' /\ UNCHANGED <<pos, version>>
    BY <1>2, EarlyMoves DEF Running, SdkEnds
  <2> QED BY <1>1, <2>1, InStepKept
<1>3. CASE sdkPc' \notin SdkEnds
  <2>1. /\ pos' <= FirstPos
        /\ \/ sdkPc' = "stage" /\ (pos' = FirstPos => trial' = 0)
           \/ sdkPc' = "read" /\ pos' = pos /\ trial' > 0
    BY <1>3, EarlyMoves
  <2>2. pos \in Nat /\ pos' \in Nat /\ FirstPos \in Nat /\ FirstPos < BlockPos /\ BlockPos \in Nat
        /\ LastPos = BlockPos + 1
    <3>1. /\ FirstPos \in Nat /\ FirstPos < BlockPos /\ BlockPos \in Nat
          /\ LastPos = BlockPos + 1 /\ LastPos \in Nat
      BY TablePlaces DEF SdkTypeOK
    <3>2. pos \in 1..LastPos + 1 /\ pos' \in 1..LastPos + 1
      BY <1>1, SameLink DEF SdkTypeOK
    <3> QED BY <3>1, <3>2
  <2>3. Running'
    BY <1>1, <2>1, <2>2, SameLink DEF Running
  <2>4. Counters'
    BY <1>1, <2>1, <2>2, SameLink DEF Counters, Track
  <2>5. did' = {} /\ Sent' \cap flash' = {}
    BY <1>1, Early, SameLink
  <2>6. (Behind /\ OnlySent /\ OwnInTurn /\ Acked /\ Pending)'
    <3>1. /\ \A i \in 1..Len(replies') : replies'[i] \notin {"ack", "nak"}
          /\ \A i \in 1..Len(wire') : wire'[i].stage \notin Command
      BY EarlyReplies, EarlyWire
    <3>2. pos' <= FirstPos'
      BY <1>1, <2>1, SameLink
    <3>3. (SdkTypeOK /\ Counters /\ did = {} /\ Sent \cap flash = {} /\ pos <= FirstPos
           /\ (\A i \in 1..Len(replies) : replies[i] \notin {"ack", "nak"})
           /\ (\A i \in 1..Len(wire) : wire[i].stage \notin Command)
           => Behind /\ OnlySent /\ OwnInTurn /\ Acked /\ Pending)'
      BY EarlyTrack, PTL
    <3> QED BY <1>1, <2>4, <2>5, <3>1, <3>2, <3>3 DEF Command
  <2>7. CASE Ethernet
    <3>1. OverEthernet' /\ Ethernet'
      BY <1>1, <1>3, <2>7, EarlyEthernet, SameLink
    <3> QED BY <2>3, <2>4, <2>6, <3>1 DEF Track
  <2>8. CASE ~Ethernet
    <3>1. ~Ethernet' /\ FirstPos' = FirstPos
      BY <1>1, <2>8, SameLink
    <3>2. sdkPc' = "stage" /\ pos' >= FirstPos' => trial' = 0
      BY <2>1, <2>2, <3>1
    <3>3. OverSerial'
      BY <2>8, <3>2, EarlyWire DEF OverSerial
    <3> QED BY <2>3, <2>4, <2>6, <3>1, <3>3 DEF Track
  <2> QED BY <2>7, <2>8
<1> QED BY <1>2, <1>3

-----------------------------------------------------------------------------
(* The worker from the first command to the check of the image.             *)
LEMMA LateNow ==
  ASSUME SdkTypeOK, pos \in FirstPos..LastPos
  PROVE  /\ Now.name = At(pos) /\ At(pos) \in Command \cup OnItsOwn
         /\ Expected = "ack" /\ ~Resets /\ Now.name # "version" /\ ~(Ethernet /\ Now.name = "baud")
         /\ Now.kind = IF At(pos) \in OnItsOwn THEN "wait" ELSE "match"
         /\ ~Ethernet \/ pos = LastPos => Now.tries = 1
         /\ Now.optional <=> Ethernet /\ pos = LastPos
         /\ Now.name = "crc" <=> pos = LastPos
<1>1. Now.name = At(pos) /\ Now = Stages[pos]
  BY DEF Now, At
<1>2. At(pos) \in Command \cup OnItsOwn /\ (At(pos) \in BaudStages => ~Ethernet)
  BY TableNames DEF SdkTypeOK
<1>3. Expected = "ack" /\ ~Resets /\ Now.name # "version"
  BY <1>1, <1>2 DEF Expected, Resets, Command, OnItsOwn
<1>4. ~(Ethernet /\ Now.name = "baud")
  BY <1>1, <1>2 DEF BaudStages
<1>5. Now.name = "crc" <=> pos = LastPos
  <2>1. pos \in 1..LastPos + 1 /\ LastPos \in 1..LastPos + 1
    BY TablePlaces DEF SdkTypeOK
  <2> QED BY <1>1, <2>1, TableNames, TableDistinct DEF SdkTypeOK
<1> QED BY <1>1, <1>2, <1>3, <1>4, <1>5, TableKinds DEF SdkTypeOK

(* What is done remains so.                                                 *)
LEMMA DoneGrows ==
  ASSUME link' = link, did \subseteq did', flash \subseteq flash', NEW n, DoneUpTo(n)
  PROVE  DoneUpTo(n)'
BY SameLink DEF DoneUpTo

(* An acknowledgement that is taken from the replies takes the worker one   *)
(* place further.                                                           *)
LEMMA BehindKept ==
  ASSUME SdkTypeOK, Behind, link' = link, did \subseteq did', flash \subseteq flash',
         Current \in Int, NEW k \in {0, 1}, k <= Len(replies), AcksUpTo(k), Current' = Current + k,
         Len(replies') \in Nat, Len(replies') <= Len(replies) - k,
         \A i \in 1..Len(replies') : replies'[i] = replies[i + k]
  PROVE  Behind'
<1> SUFFICES ASSUME NEW i \in 0..Len(replies'), AcksUpTo(i)' PROVE DoneUpTo(Current - 1 + i)'
  BY DEF Behind
<1>1. Len(replies) \in Nat /\ i + k \in 0..Len(replies)
  BY DEF SdkTypeOK
<1>2. AcksUpTo(i + k)
  <2> SUFFICES ASSUME NEW j \in 1..i + k PROVE replies[j] = "ack"
    BY DEF AcksUpTo
  <2>1. CASE j <= k
    BY <2>1 DEF AcksUpTo
  <2>2. CASE j > k
    <3>1. j - k \in 1..i /\ j - k \in 1..Len(replies') /\ (j - k) + k = j
      BY <2>2
    <3>2. replies'[j - k] = "ack"
      BY <3>1 DEF AcksUpTo
    <3> QED BY <3>1, <3>2
  <2> QED BY <2>1, <2>2
<1>3. PICK n \in Int : n = Current - 1 + (i + k)
  BY <1>1
<1>4. DoneUpTo(n)
  BY <1>1, <1>2, <1>3 DEF Behind
<1>5. DoneUpTo(n)'
  BY <1>4, DoneGrows
<1>6. (Current - 1 + i)' = n
  BY <1>1, <1>3
<1> QED BY <1>5, <1>6

(* From FirstPos on stages follow one another.                              *)
LEMMA LateNext ==
  ASSUME SdkTypeOK, Track, pos \in FirstPos..LastPos, link' = link, NextStage
  PROVE  /\ sdkPc' = "stage" /\ trial' = 0 /\ block' = block /\ pos' = pos + 1
         /\ Current \in Int
         /\ pos # BlockPos => Current' = Current + 1
         /\ pos = BlockPos /\ block = Blocks => Current' = Current
<1>1. /\ FirstPos \in Nat /\ LastPos = BlockPos + 1 /\ BlockPos \in Nat /\ FirstPos < BlockPos
      /\ FirstBlock \in Nat /\ Blocks \in Nat /\ block \in FirstBlock..Blocks
      /\ Ethernet => FirstPos = 9
  BY TablePlaces, SdkWorkerAssumption DEF SdkTypeOK, FirstBlock, FirstPos
<1>2. sdkPc' = "stage" /\ trial' = 0 /\ block' = block /\ pos' = pos + 1
  BY <1>1, NextIs
<1>3. pos < BlockPos => block = FirstBlock
  BY DEF Track, Counters
<1>4. Current' = IF pos' = BlockPos THEN BlockPlace(block') ELSE Place(pos')
  BY SameLink DEF Current
<1> QED BY <1>1, <1>2, <1>3, <1>4 DEF Current, Place, BlockPlace

(* A command that is sent for the first time has not been carried out, and  *)
(* the chip cannot go on before it has.                                     *)
LEMMA NotYet ==
  ASSUME SdkTypeOK, Track, pos \in FirstPos..LastPos, At(pos) \in Command, trial = 0,
         pos = BlockPos => block < Blocks
  PROVE  ~DoneUpTo(Current) /\ Idle /\ "crc" \notin did
<1>1. /\ FirstPos \in Nat /\ LastPos = BlockPos + 1 /\ BlockPos \in Nat /\ InfoPos \in FirstPos..LastPos
      /\ FirstBlock \in Nat /\ Blocks \in Nat /\ block \in FirstBlock..Blocks
  <2>1. block \in FirstBlock..Blocks
    BY DEF SdkTypeOK
  <2> QED BY <2>1, Numbers
<1>2. At(pos) \notin OnItsOwn /\ (At(pos) = "block" <=> pos = BlockPos)
  <2>1. At(pos) \notin OnItsOwn
    BY DEF Command, OnItsOwn
  <2> QED BY <2>1, TableNames DEF SdkTypeOK
<1>3. pos # BlockPos => At(pos) \notin did
  BY <1>1 DEF Track, OnlySent
<1>4. pos = BlockPos => block \in Sent /\ block \notin flash
  BY <1>1 DEF Track, OnlySent, Sent
<1>5. ~Done(At(pos))
  BY <1>2, <1>3, <1>4 DEF Done
<1>6. ~DoneUpTo(Current)
  BY <1>1, <1>3, <1>4, PlaceOrder DEF DoneUpTo
<1>7. ASSUME NEW p \in InfoPos + 1..LastPos, p > pos, At(p) \in OnItsOwn, Ready(At(p)) PROVE FALSE
  <2>1. p \in FirstPos..LastPos /\ pos \in FirstPos..p - 1
    BY <1>1, <1>7
  <2>2. CASE At(pos) \in BaudStages
    <3>1. "info" \in did
      BY <1>7, OwnAfterInfo DEF SdkTypeOK
    <3>2. pos < InfoPos /\ At(InfoPos) = "info"
      BY <2>2, TableNames DEF SdkTypeOK
    <3> QED BY <1>1, <3>1, <3>2 DEF Track, OnlySent, Command
  <2>3. CASE At(pos) \notin BaudStages
    BY <1>5, <1>7, <2>1, <2>3, ReadyNeeds DEF SdkTypeOK
  <2> QED BY <2>2, <2>3
<1>8. Idle
  <2> SUFFICES ASSUME NEW s \in OnItsOwn, s \notin did, Ready(s) PROVE FALSE
    BY DEF Idle
  <2>1. PICK p \in 1..LastPos + 1 : At(p) = s
    BY TablePlaces DEF Ready, SdkTypeOK
  <2>2. p \in InfoPos + 1..LastPos
    BY <2>1, OwnPlace DEF SdkTypeOK
  <2>3. p < pos
    BY <1>1, <1>2, <1>7, <2>1, <2>2
  <2>4. DoneUpTo(Current - 1)
    BY DoneBefore DEF Track
  <2>5. p # BlockPos /\ p \in FirstPos..LastPos
    BY <1>1, <2>1, <2>2, TableNames DEF OnItsOwn, SdkTypeOK
  <2>6. Place(p) \in Int /\ Place(p) < Current /\ Current \in Int
    BY <1>1, <2>1, <2>3, <2>5, PlaceOrder
  <2>7. At(p) \in did
    BY <2>4, <2>5, <2>6 DEF DoneUpTo
  <2> QED BY <2>1, <2>7
<1>9. "crc" \notin did
  <2> SUFFICES ASSUME "crc" \in did PROVE FALSE
    OBVIOUS
  <2>1. At(LastPos) = "crc" /\ "crc" \in OnItsOwn
    BY TableNames DEF SdkTypeOK, OnItsOwn
  <2>2. Ready(At(LastPos))
    BY <2>1 DEF Track, OwnInTurn
  <2>3. LastPos > pos /\ LastPos \in InfoPos + 1..LastPos
    BY <1>1, <1>2, <2>1, TablePlaces DEF SdkTypeOK
  <2> QED BY <1>7, <2>1, <2>2, <2>3
<1> QED BY <1>6, <1>8, <1>9

(* Before a command is sent there is nothing that could be taken for its    *)
(* reply, and nothing more will come by itself.                             *)
LEMMA NothingToCome ==
  ASSUME SdkTypeOK, Track, pos \in FirstPos..LastPos, At(pos) \in Command, sdkPc = "stage",
         pos = BlockPos => block < Blocks
  PROVE  /\ Idle /\ (replies # <<>> => replies[1] # "ack") /\ (Ethernet => replies = <<>>)
         /\ \A i \in 1..Len(wire) : wire[i].stage \notin Command
<1>1. \A i \in 1..Len(wire) : wire[i].stage \notin Command
  BY DEF Track, Pending
<1>2. CASE trial > 0
  <2>1. Ethernet
    BY <1>2, TablePlaces DEF Track, OverSerial, SdkTypeOK
  <2> QED BY <1>1, <1>2, <2>1, TablePlaces DEF Track, OverEthernet, SdkTypeOK
<1>3. CASE trial = 0
  <2>1. ~DoneUpTo(Current) /\ Idle /\ "crc" \notin did /\ Current \in Int
    BY <1>3, NotYet, PlaceOrder
  <2>2. replies # <<>> => replies[1] # "ack"
    <3> SUFFICES ASSUME replies # <<>>, replies[1] = "ack" PROVE FALSE
      OBVIOUS
    <3>1. 1 \in 0..Len(replies) /\ AcksUpTo(1)
      BY TailIs DEF SdkTypeOK, AcksUpTo
    <3>2. DoneUpTo(Current - 1 + 1)
      BY <3>1 DEF Track, Behind
    <3> QED BY <2>1, <3>2
  <2>3. Ethernet => replies = <<>>
    <3> SUFFICES ASSUME Ethernet, replies # <<>> PROVE FALSE
      OBVIOUS
    <3>1. 1 \in 1..Len(replies)
      BY TailIs DEF SdkTypeOK
    <3>2. replies[1] = "nak"
      BY <2>2, <3>1, TablePlaces DEF Track, OverEthernet, SdkTypeOK
    <3> QED BY <2>1, <3>1, <3>2 DEF Track, Acked
  <2> QED BY <1>1, <2>1, <2>2, <2>3
<1> QED BY <1>2, <1>3 DEF SdkTypeOK

(* Sending a command, or beginning to wait.                                 *)
LEMMA LateSend ==
  ASSUME SdkTypeOK, Track, pos \in FirstPos..LastPos, SendStage
  PROVE  Running' /\ Track'
<1>1. /\ UNCHANGED <<did, flash, pos, block, version, replies>> /\ link' = link
      /\ sdkPc = "stage" /\ sdkPc' = "read" /\ trial' = trial + 1 /\ trial \in Nat
      /\ wire' = IF Now.kind = "wait" THEN wire ELSE Append(wire, [stage |-> Now.name, block |-> block])
      /\ pos = BlockPos => block < Blocks
  <2>1. Now.kind # "tell" /\ ~Resets /\ At(pos) = Now.name
    BY LateNow
  <2>2. pos = BlockPos => block < Blocks
    BY <2>1, AtBlock, SdkWorkerAssumption DEF SendStage, AllWritten, SdkTypeOK, FirstBlock
  <2> QED BY <2>1, <2>2 DEF SendStage, runVars, SdkTypeOK
<1>2. Current' = Current /\ Current \in Int /\ \A s : Ready(s)' <=> Ready(s)
  BY <1>1, PlaceOrder, SameLink, ReadySame DEF Current
<1>3. Behind'
  <2>1. AcksUpTo(0) /\ Len(replies) \in Nat
    BY DEF AcksUpTo, SdkTypeOK
  <2> QED BY <1>1, <1>2, <2>1, BehindKept DEF Track
<1>4. OnlySent' /\ OwnInTurn' /\ Acked' /\ Counters'
  <2>1. OnlySent'
    BY <1>1, SameLink DEF Track, OnlySent
  <2>2. OwnInTurn' /\ Acked' /\ Counters'
    BY <1>1, <1>2, SameLink DEF Track, OwnInTurn, Acked, Counters
  <2> QED BY <2>1, <2>2
<1>5. pos >= FirstPos /\ ~(pos < FirstPos)
  BY TablePlaces DEF SdkTypeOK
<1>6. CASE Now.kind = "wait"
  <2>1. wire' = wire
    BY <1>1, <1>6
  <2>2. Pending'
    BY <1>1, <2>1 DEF Track, Pending
  <2>3. IF Ethernet' THEN OverEthernet' ELSE OverSerial'
    <3>1. CASE Ethernet
      BY <1>1, <1>5, <2>1, <3>1, SameLink DEF Track, OverEthernet
    <3>2. CASE ~Ethernet
      BY <1>1, <2>1, <3>2, SameLink DEF Track, OverSerial
    <3> QED BY <3>1, <3>2
  <2> QED BY <1>1, <1>3, <1>4, <2>2, <2>3, SameLink DEF Running, Track
<1>7. CASE Now.kind # "wait"
  <2> DEFINE e == [stage |-> Now.name, block |-> block]
  <2>1. wire' = Append(wire, e) /\ At(pos) \in Command /\ Now.name = At(pos)
    BY <1>1, <1>7, LateNow
  <2>2. /\ Idle /\ (replies # <<>> => replies[1] # "ack") /\ (Ethernet => replies = <<>>)
        /\ \A i \in 1..Len(wire) : wire[i].stage \notin Command
    BY <1>1, <2>1, NothingToCome
  <2>3. e.stage = Now.name /\ e.block = block /\ e.stage # "first" /\ e.stage \in Command
    BY <2>1 DEF Command
  <2>4. /\ Len(wire) \in Nat /\ Len(wire') = Len(wire) + 1
        /\ \A i \in 1..Len(wire) : wire'[i] = wire[i]
        /\ wire'[Len(wire) + 1] = e
    BY <2>1 DEF SdkTypeOK
  <2>5. Now' = Now /\ Idle' /\ Ethernet' = Ethernet
    BY <1>1, <1>2, <2>2, SameLink DEF Now, Idle
  <2> HIDE DEF e
  <2>6. Pending'
    BY <1>1, <2>2, <2>3, <2>4, <2>5 DEF Pending
  <2>7. IF Ethernet' THEN OverEthernet' ELSE OverSerial'
    <3>1. CASE Ethernet
      <4>1. \A i \in 1..Len(wire') :
              wire'[i].stage \in Command \cup {"first"} /\ (wire'[i].stage = "first" => did' = {})
        <5>1. \A i \in 1..Len(wire) :
                wire[i].stage \in Command \cup {"first"} /\ (wire[i].stage = "first" => did = {})
          BY <1>5, <3>1 DEF Track, OverEthernet
        <5> QED BY <1>1, <2>3, <2>4, <5>1
      <4> QED BY <1>1, <1>5, <2>5, <3>1, <4>1, SameLink DEF Track, OverEthernet
    <3>2. CASE ~Ethernet
      BY <1>1, <2>3, <2>4, <2>5, <3>2, SameLink DEF Track, OverSerial
    <3> QED BY <2>5, <3>1, <3>2
  <2> QED BY <1>1, <1>3, <1>4, <2>6, <2>7, SameLink DEF Running, Track
<1> QED BY <1>6, <1>7

(* Taking an acknowledgement for the one that is expected: Current grows by *)
(* one, and there is one less to be read.                                   *)
LEMMA LateReply ==
  ASSUME SdkTypeOK, Track, pos \in FirstPos..LastPos, ReadReply
  PROVE  IF pos' <= LastPos THEN Running' /\ Track' ELSE InStep'
<1>1. /\ UNCHANGED <<did, flash, version, wire, runVars>> /\ link' = link
      /\ sdkPc = "read" /\ replies # <<>> /\ Head(replies) = "ack" /\ replies' = Tail(replies)
  BY LateNow DEF ReadReply, runVars
<1>2. /\ replies[1] = "ack" /\ Len(replies) \in Nat \ {0} /\ Len(replies') = Len(replies) - 1
      /\ \A i \in 1..Len(replies') : replies'[i] = replies[i + 1] /\ i + 1 \in 1..Len(replies)
      /\ AcksUpTo(1)
  BY <1>1, TailIs DEF SdkTypeOK, AcksUpTo
<1>3. /\ sdkPc' = "stage" /\ trial' = 0 /\ Current \in Int /\ Current' = Current + 1
      /\ IF pos = BlockPos THEN pos' = pos /\ block' = block + 1 ELSE pos' = pos + 1 /\ block' = block
  <2>1. CASE pos = BlockPos
    <3>1. sdkPc' = "stage" /\ trial' = 0 /\ pos' = pos /\ block' = block + 1
      BY <2>1, AtBlock DEF ReadReply
    <3>2. FirstBlock \in Nat /\ block \in Nat /\ BlockPos \in Nat
      BY TablePlaces, SdkWorkerAssumption DEF SdkTypeOK, FirstBlock
    <3> QED BY <1>1, <2>1, <3>1, <3>2, SameLink DEF Current, BlockPlace
  <2>2. CASE pos # BlockPos
    <3>1. NextStage
      BY <2>2, AtBlock DEF ReadReply
    <3> QED BY <1>1, <2>2, <3>1, LateNext
  <2> QED BY <2>1, <2>2
<1>4. /\ FirstPos \in Nat /\ LastPos = BlockPos + 1 /\ BlockPos \in Nat /\ FirstPos < BlockPos
      /\ pos \in Nat /\ block \in Nat /\ FirstPos <= pos /\ FirstPos <= pos' /\ pos' \in Nat
  <2>1. FirstPos \in Nat /\ LastPos = BlockPos + 1 /\ BlockPos \in Nat /\ FirstPos < BlockPos
    BY TablePlaces DEF SdkTypeOK
  <2>2. pos \in Nat /\ block \in Nat /\ FirstPos <= pos
    BY <2>1, SdkWorkerAssumption DEF SdkTypeOK, FirstBlock
  <2> QED BY <1>3, <2>1, <2>2
<1>5. CASE pos' <= LastPos
  <2>1. Behind'
    BY <1>1, <1>2, <1>3, BehindKept DEF Track
  <2>2. \A s : Ready(s)' <=> Ready(s)
    BY <1>1, ReadySame
  <2>3. OnlySent'
    <3>1. \A p \in FirstPos..LastPos : At(p) \in Command \cap did => p < pos'
      <4> SUFFICES ASSUME NEW p \in FirstPos..LastPos, At(p) \in Command \cap did PROVE p < pos'
        OBVIOUS
      <4>1. p <= pos
        BY <1>4 DEF Track, OnlySent
      <4>2. At(p) # "block"
        BY DEF SdkTypeOK
      <4>3. p # BlockPos
        BY <4>2, TableNames DEF SdkTypeOK
      <4> QED BY <1>3, <1>4, <4>1, <4>3
    <3>2. \A b \in Sent \cap flash : pos' > BlockPos \/ (pos' = BlockPos /\ b < block')
      <4> SUFFICES ASSUME NEW b \in Sent \cap flash
                   PROVE  pos' > BlockPos \/ (pos' = BlockPos /\ b < block')
        OBVIOUS
      <4>1. b \in Nat
        BY SdkWorkerAssumption DEF SdkTypeOK
      <4>2. pos > BlockPos \/ (pos = BlockPos /\ b <= block)
        BY <1>4, <4>1 DEF Track, OnlySent
      <4> QED BY <1>3, <1>4, <4>1, <4>2
    <3> QED BY <1>1, <3>1, <3>2, SameLink DEF OnlySent
  <2>4. OwnInTurn'
    BY <1>1, <2>2 DEF Track, OwnInTurn
  <2>5. Acked'
    BY <1>1, <1>2, SameLink DEF Track, Acked
  <2>6. \A i \in 1..Len(wire) : wire[i].stage \notin Command
    BY <1>1, <1>2 DEF Track, Pending
  <2>7. Pending'
    BY <1>1, <2>6 DEF Pending
  <2>8. Counters'
    <3>1. pos < BlockPos => block = FirstBlock
      BY DEF Track, Counters
    <3>2. pos > BlockPos => block = Blocks
      BY DEF Track, Counters
    <3> QED BY <1>1, <1>3, <1>4, <3>1, <3>2, SameLink DEF Counters
  <2>9. IF Ethernet' THEN OverEthernet' ELSE OverSerial'
    <3>1. CASE Ethernet
      <4>1. \A i \in 1..Len(replies') :
              replies'[i] \in {"ack", "nak"} /\ (replies'[i] = "nak" => i = Len(replies'))
        BY <1>2, <1>4, <3>1 DEF Track, OverEthernet
      <4>2. FirstPos = 9 /\ ~(pos' < FirstPos)
        BY <1>4, <3>1 DEF FirstPos
      <4> QED BY <1>1, <1>3, <1>4, <3>1, <4>1, <4>2, SameLink DEF Track, OverEthernet
    <3>2. CASE ~Ethernet
      BY <1>1, <1>3, <3>2, SameLink DEF Track, OverSerial
    <3> QED BY <1>1, <3>1, <3>2, SameLink
  <2> QED BY <1>1, <1>3, <1>5, <2>1, <2>3, <2>4, <2>5, <2>7, <2>8, <2>9, SameLink DEF Running, Track
<1>6. CASE ~(pos' <= LastPos)
  <2>1. pos = LastPos /\ pos' = pos + 1 /\ pos # BlockPos
    BY <1>3, <1>4, <1>6, TablePlaces DEF SdkTypeOK
  <2>2. DoneUpTo(Current)
    <3>1. DoneUpTo(Current - 1 + 1)
      BY <1>2 DEF Track, Behind
    <3> QED BY <1>3, <3>1
  <2>3. Place(LastPos) = Current
    BY <2>1, PlaceOrder
  <2>4. "crc" \in did
    BY <1>3, <1>4, <2>1, <2>2, <2>3, TableNames DEF DoneUpTo, SdkTypeOK
  <2> QED BY <1>1, <1>6, <2>1, <2>4, InStepLast
<1> QED BY <1>5, <1>6

(* On Ethernet a stage is repeated when nothing is left to come.            *)
LEMMA AgainWhenQuiet ==
  ASSUME SdkTypeOK, Track, InStep, Ethernet, pos \in FirstPos..LastPos, sdkPc = "read", Again,
         UNCHANGED <<did, flash, version, wire, runVars>>, wire = <<>>, replies' = <<>>, Idle
  PROVE  IF Running' THEN Track' ELSE InStep'
<1>1. /\ link' = link /\ trial \in Nat /\ trial > 0 /\ FirstPos = 9 /\ FirstPos <= pos /\ pos \in Nat
      /\ Len(replies') = 0 /\ Len(wire') = 0 /\ Len(replies) \in Nat
  BY DEF runVars, SdkTypeOK, FirstPos, Track, Counters
<1>2. \/ sdkPc' \in {"stage", "read"} /\ trial' > 0 /\ UNCHANGED <<pos, block>>
      \/ pos = LastPos /\ pos' = pos + 1
      \/ sdkPc' \in SdkEnds /\ UNCHANGED <<pos, block>>
  <2>1. CASE trial < Now.tries
    BY <1>1, <2>1 DEF Again
  <2>2. CASE ~(trial < Now.tries) /\ Now.optional
    BY <1>1, <2>2, LateNow, LateNext DEF Again
  <2>3. CASE ~(trial < Now.tries) /\ ~Now.optional
    BY <2>3 DEF Again, RaiseError, SdkEnds
  <2> QED BY <2>1, <2>2, <2>3
<1>3. CASE sdkPc' \in {"stage", "read"} /\ trial' > 0 /\ UNCHANGED <<pos, block>>
  <2>1. Current' = Current /\ Current \in Int
    BY <1>1, <1>3, PlaceOrder, SameLink DEF Current
  <2>2. \A s : Ready(s)' <=> Ready(s)
    BY <1>1, ReadySame
  <2>3. Behind'
    <3>1. AcksUpTo(0)
      BY DEF AcksUpTo
    <3> QED BY <1>1, <2>1, <3>1, BehindKept DEF Track
  <2>4. OnlySent'
    BY <1>1, <1>3, SameLink DEF Track, OnlySent
  <2>5. OwnInTurn' /\ Acked' /\ Pending' /\ Counters'
    BY <1>1, <1>3, <2>2, SameLink DEF Track, OwnInTurn, Acked, Pending, Counters
  <2>6. Idle'
    BY <2>2 DEF Idle
  <2>7. OverEthernet'
    BY <1>1, <1>3, <2>6, SameLink DEF Track, OverEthernet
  <2>8. Running'
    BY <1>1, <1>3, TablePlaces, SameLink DEF Running, SdkTypeOK
  <2> QED BY <1>1, <2>3, <2>4, <2>5, <2>7, <2>8, SameLink DEF Track
<1>4. CASE pos = LastPos /\ pos' = pos + 1
  <2>1. ~Running'
    BY <1>1, <1>4, SameLink DEF Running
  <2> QED BY <1>4, <2>1, InStepLast
<1>5. CASE sdkPc' \in SdkEnds /\ UNCHANGED <<pos, block>>
  <2>1. ~Running'
    BY <1>5 DEF Running, SdkEnds
  <2> QED BY <1>5, <2>1, InStepKept
<1> QED BY <1>2, <1>3, <1>4, <1>5

(* When the chip has checked the image it has nothing left to report.       *)
LEMMA CheckIsLast ==
  ASSUME SdkTypeOK, OwnInTurn, "crc" \in did
  PROVE  Idle
<1> SUFFICES ASSUME NEW s \in OnItsOwn, Ready(s) PROVE s \in did
  BY DEF Idle
<1>1. PICK p \in 1..LastPos + 1 : At(p) = s
  BY TablePlaces DEF Ready, SdkTypeOK
<1>2. p \in InfoPos + 1..LastPos
  BY <1>1, OwnPlace DEF SdkTypeOK
<1>3. CASE p = LastPos
  BY <1>1, <1>3, TableNames DEF SdkTypeOK
<1>4. CASE p # LastPos
  <2>1. p \in FirstPos..LastPos - 1 /\ LastPos \in FirstPos..LastPos
    BY <1>2, <1>4, TablePlaces DEF SdkTypeOK
  <2>2. At(LastPos) = "crc" /\ Ready("crc")
    BY TableNames DEF OwnInTurn, OnItsOwn, SdkTypeOK
  <2>3. At(p) \notin BaudStages /\ At(p) # "block"
    BY <1>1 DEF BaudStages, OnItsOwn
  <2>4. Done(At(p))
    BY <2>1, <2>2, <2>3, ReadyNeeds DEF SdkTypeOK
  <2> QED BY <1>1, <2>3, <2>4 DEF Done
<1> QED BY <1>3, <1>4

(* A reply that is none: the chip has found a block missing, or the answer  *)
(* of the unit to a command of an earlier stage.                            *)
LEMMA LateMismatch ==
  ASSUME SdkTypeOK, Track, InStep, pos \in FirstPos..LastPos, ReadMismatch
  PROVE  IF Running' THEN Track' ELSE InStep'
<1>1. /\ UNCHANGED <<did, flash, version, wire, runVars>> /\ Again
      /\ sdkPc = "read" /\ replies # <<>> /\ Head(replies) # "ack" /\ replies' = Tail(replies)
  BY LateNow DEF ReadMismatch
<1>2. pos \in Nat /\ FirstPos \in Nat /\ FirstPos <= pos /\ trial \in Nat /\ trial > 0
  BY <1>1, TablePlaces DEF SdkTypeOK, Track, Counters
<1>3. CASE ~Ethernet
  <2>1. RaiseError
    BY <1>1, <1>2, <1>3, LateNow DEF Again
  <2>2. ~Running' /\ UNCHANGED <<pos, block>>
    BY <2>1 DEF RaiseError, Running
  <2> QED BY <1>1, <2>2, InStepKept
<1>4. CASE Ethernet
  <2>1. 1 \in 1..Len(replies) /\ Len(replies) \in Nat \ {0} /\ replies[1] # "ack"
        /\ Len(replies') = Len(replies) - 1 /\ replies' \in Seq(Answers)
    BY <1>1, TailIs DEF SdkTypeOK
  <2>2. replies[1] = "nak" /\ Len(replies) = 1
    BY <1>2, <1>4, <2>1 DEF Track, OverEthernet
  <2>3. replies' = <<>> /\ "crc" \in did
    BY <2>1, <2>2 DEF Track, Acked
  <2>4. wire = <<>>
    <3> SUFFICES ASSUME wire # <<>> PROVE FALSE
      OBVIOUS
    <3>1. 1 \in 1..Len(wire)
      BY TailIs DEF SdkTypeOK
    <3>2. wire[1].stage \in Command \cup {"first"} /\ (wire[1].stage = "first" => did = {})
      BY <1>2, <1>4, <3>1 DEF Track, OverEthernet
    <3>3. wire[1].stage \in Command
      BY <2>3, <3>2
    <3> QED BY <1>1, <1>4, <3>1, <3>3 DEF Track, Pending
  <2>5. Idle
    BY <2>3, CheckIsLast DEF Track
  <2> QED BY <1>1, <1>4, <2>3, <2>4, <2>5, AgainWhenQuiet
<1> QED BY <1>3, <1>4

(* Nothing has come.                                                        *)
LEMMA LateGivesUp ==
  ASSUME SdkTypeOK, Good, Track, InStep, pos \in FirstPos..LastPos, ReadGivesUp
  PROVE  IF Running' THEN Track' ELSE InStep'
<1>1. UNCHANGED <<did, flash, version, wire, replies, runVars>> /\ Again /\ sdkPc = "read"
  BY DEF ReadGivesUp, chipVars
<1>2. CASE ~Ethernet
  <2>1. trial \in Nat /\ trial > 0
    BY <1>1 DEF SdkTypeOK, Track, Counters
  <2>2. RaiseError
    BY <1>1, <1>2, <2>1, LateNow DEF Again
  <2>3. ~Running' /\ UNCHANGED <<pos, block>>
    BY <2>2 DEF RaiseError, Running
  <2> QED BY <1>1, <2>3, InStepKept
<1>3. CASE Ethernet
  <2>1. wire = <<>> /\ replies' = <<>> /\ Idle
    BY <1>3 DEF ReadGivesUp, Quiet, Idle, Good, chipVars
  <2> QED BY <1>1, <1>3, <2>1, AgainWhenQuiet
<1> QED BY <1>2, <1>3

(* All blocks are written.                                                  *)
LEMMA LateWritten ==
  ASSUME SdkTypeOK, Track, pos \in FirstPos..LastPos, FlashWritten
  PROVE  Running' /\ Track'
<1>1. /\ UNCHANGED <<did, flash, version, wire, replies, runVars>> /\ link' = link
      /\ sdkPc = "stage" /\ NextStage /\ pos = BlockPos
      /\ FirstPos \in Nat /\ LastPos = BlockPos + 1 /\ BlockPos \in Nat /\ FirstPos < BlockPos
  BY AtBlock, TablePlaces DEF FlashWritten, AllWritten, chipVars, runVars, SdkTypeOK
<1>2. block = Blocks /\ block \in Nat
  BY SdkWorkerAssumption DEF FlashWritten, AllWritten, SdkTypeOK, FirstBlock
<1>3. /\ sdkPc' = "stage" /\ trial' = 0 /\ block' = block /\ pos' = pos + 1
      /\ Current \in Int /\ Current' = Current
  BY <1>1, <1>2, LateNext
<1>4. Behind'
  <2>1. AcksUpTo(0) /\ Len(replies) \in Nat
    BY DEF AcksUpTo, SdkTypeOK
  <2> QED BY <1>1, <1>3, <2>1, BehindKept DEF Track
<1>5. \A s : Ready(s)' <=> Ready(s)
  BY <1>1, ReadySame
<1>6. OnlySent'
  <2>1. \A p \in FirstPos..LastPos : At(p) \in Command \cap did => p < pos'
    BY <1>1, <1>3 DEF Track, OnlySent
  <2> QED BY <1>1, <1>3, <2>1, SameLink DEF OnlySent
<1>7. OwnInTurn' /\ Acked' /\ Counters'
  BY <1>1, <1>2, <1>3, <1>5, SameLink DEF Track, OwnInTurn, Acked, Counters
<1>8. Pending'
  BY <1>1 DEF Track, Pending
<1>9. IF Ethernet' THEN OverEthernet' ELSE OverSerial'
  <2>1. CASE Ethernet
    BY <1>1, <1>3, <2>1, SameLink DEF Track, OverEthernet, FirstPos
  <2>2. CASE ~Ethernet
    BY <1>1, <1>3, <2>2, SameLink DEF Track, OverSerial
  <2> QED BY <1>1, <2>1, <2>2, SameLink
<1> QED BY <1>1, <1>3, <1>4, <1>6, <1>7, <1>8, <1>9, SameLink DEF Running, Track

(* A stage that does not begin because of stop().                           *)
LEMMA LateStopped ==
  ASSUME SdkTypeOK, Track, InStep, pos \in FirstPos..LastPos, Stopped
  PROVE  ~Running' /\ InStep'
<1>1. UNCHANGED <<did, flash, version, runVars>> /\ link' = link
  BY DEF Stopped, chipVars, runVars
<1>2. CASE Ethernet /\ Now.name = "crc"
  <2>1. pos = LastPos /\ NextStage /\ LastPos \in Nat
    BY <1>2, LateNow, TablePlaces DEF Stopped, SdkTypeOK
  <2>2. pos' = pos + 1
    BY <1>1, <2>1, LateNext
  <2>3. ~Running'
    BY <1>1, <2>1, <2>2, SameLink DEF Running
  <2> QED BY <1>1, <1>2, <2>1, <2>2, <2>3, InStepLast
<1>3. CASE ~(Ethernet /\ Now.name = "crc")
  <2>1. ~Running' /\ UNCHANGED <<pos, block>>
    BY <1>3 DEF Stopped, RaiseError, Running
  <2> QED BY <1>1, <2>1, InStepKept
<1> QED BY <1>2, <1>3

(* At its last stage the worker stays, until it ends.                       *)
LEMMA OverWork ==
  ASSUME SdkTypeOK, InStep, pos = LastPos + 1, SdkWork
  PROVE  ~Running' /\ InStep'
<1>1. /\ LastPos \in Nat /\ At(pos) = "JG"
      /\ Now.name = At(pos) /\ Now.name \notin {"block", "version", "boot"}
  BY TableNames, TablePlaces DEF SdkTypeOK, Now, At
<1>2. NextStage => pos' = pos /\ block' = block
  BY NextIs
<1>3. RaiseError => pos' = pos /\ block' = block
  BY DEF RaiseError
<1>4. Again => pos' = pos /\ block' = block
  BY <1>2, <1>3 DEF Again
<1>5. UNCHANGED <<did, flash, version, runVars>>
  BY <1>1 DEF SdkWork, Stopped, SendStage, FlashWritten, ReadOther, ReadReply, ReadMismatch, ReadGivesUp,
              chipVars, workerVars
<1>6. UNCHANGED <<pos, block>>
  BY <1>1, <1>2, <1>3, <1>4
     DEF SdkWork, Stopped, SendStage, FlashWritten, AllWritten, ReadOther, ReadReply, ReadMismatch,
         ReadGivesUp, workerVars, stageVars
<1>7. ~Running'
  BY <1>1, <1>5, <1>6, SameLink DEF Running, runVars
<1> QED BY <1>5, <1>6, <1>7, InStepKept

(* Every turn of the worker keeps the invariant.                            *)
LEMMA WorkStep ==
  ASSUME SdkInv, SdkWork
  PROVE  SdkInv'
<1>1. SdkTypeOK /\ SdkTypeOK'
  BY WorkType DEF SdkInv
<1>2. sdkPc \in {"stage", "read"} /\ pos \in 1..LastPos + 1 /\ LastPos \in Nat /\ FirstPos \in 1..LastPos
  <2>1. sdkPc \in {"stage", "read"}
    BY DEF SdkWork, Stopped, SendStage, FlashWritten, ReadOther, ReadReply, ReadMismatch, ReadGivesUp
  <2>2. LastPos \in Nat /\ FirstPos \in 1..LastPos
    <3>1. link \in {"serial", "ethernet"}
      BY <1>1 DEF SdkTypeOK
    <3> QED BY <3>1, TablePlaces
  <2> QED BY <1>1, <2>1, <2>2 DEF SdkTypeOK
<1>3. UNCHANGED runVars
  BY DEF SdkWork, Stopped, SendStage, FlashWritten, ReadOther, ReadReply, ReadMismatch, ReadGivesUp
<1>4. Good' <=> Good
  BY <1>3, SameLink DEF Good, runVars
<1> SUFFICES ASSUME Good PROVE IF Running' THEN Track' ELSE InStep'
  <2>1. (SdkTypeOK /\ Track /\ pos <= LastPos => InStep)'
    BY TrackInStep, PTL
  <2> QED BY <1>1, <1>4, <2>1 DEF SdkInv, Running
<1>5. InStep
  BY DEF SdkInv
<1>6. CASE pos = LastPos + 1
  BY <1>1, <1>5, <1>6, OverWork
<1>7. CASE pos < FirstPos
  <2>1. Track
    BY <1>2, <1>7 DEF SdkInv, Running
  <2> QED BY <1>1, <1>5, <1>7, <2>1, EarlyWork
<1>8. CASE pos \in FirstPos..LastPos
  <2>1. Track
    BY <1>2, <1>8 DEF SdkInv, Running
  <2> USE <1>1, <1>5, <1>8, <2>1
  <2>2. CASE Stopped
    BY <2>2, LateStopped
  <2>3. CASE SendStage
    BY <2>3, LateSend
  <2>4. CASE FlashWritten
    BY <2>4, LateWritten
  <2>5. ~ReadOther
    <3>1. Now.kind # "find" /\ Expected = "ack"
      BY LateNow
    <3>2. Ethernet /\ replies # <<>> => Head(replies) \in {"ack", "nak"}
      BY <1>2, TailIs DEF Track, OverEthernet, SdkTypeOK
    <3> QED BY <3>1, <3>2 DEF ReadOther, PassedOver
  <2>6. CASE ReadReply
    <3>1. LastPos' = LastPos
      BY <1>3, SameLink DEF runVars
    <3> QED BY <2>6, <3>1, LateReply DEF Running
  <2>7. CASE ReadMismatch
    BY <2>7, LateMismatch
  <2>8. CASE ReadGivesUp
    BY <2>8, LateGivesUp
  <2> QED BY <2>2, <2>3, <2>4, <2>5, <2>6, <2>7, <2>8 DEF SdkWork
<1> QED BY <1>2, <1>6, <1>7, <1>8

-----------------------------------------------------------------------------
(* The chip and the link.                                                   *)
LEMMA BehindAppend ==
  ASSUME SdkTypeOK, Behind, link' = link, did \subseteq did', flash \subseteq flash', Current' = Current,
         NEW r \in Answers, replies' = Append(replies, r),
         NEW n \in Int, n = Current + Len(replies),
         r = "ack" /\ AcksUpTo(Len(replies)) => DoneUpTo(n)'
  PROVE  Behind'
<1>1. /\ Len(replies) \in Nat /\ Len(replies') = Len(replies) + 1 /\ Current \in Int
      /\ \A i \in 1..Len(replies) : replies'[i] = replies[i]
      /\ replies'[Len(replies) + 1] = r
  BY AppendIs, PlaceOrder DEF SdkTypeOK
<1> SUFFICES ASSUME NEW i \in 0..Len(replies'), AcksUpTo(i)' PROVE DoneUpTo(Current - 1 + i)'
  BY DEF Behind
<1>2. CASE i <= Len(replies)
  <2>1. AcksUpTo(i) /\ i \in 0..Len(replies)
    BY <1>1, <1>2 DEF AcksUpTo
  <2>2. PICK m \in Int : m = Current - 1 + i
    BY <1>1
  <2>3. DoneUpTo(m)'
    BY <2>1, <2>2, DoneGrows DEF Behind
  <2> QED BY <2>2, <2>3
<1>3. CASE i = Len(replies) + 1
  <2>1. r = "ack" /\ AcksUpTo(Len(replies))
    BY <1>1, <1>3 DEF AcksUpTo
  <2>2. (Current - 1 + i)' = n
    BY <1>1, <1>3
  <2> QED BY <2>1, <2>2
<1> QED BY <1>1, <1>2, <1>3

(* What the chip and the link leave alone.                                  *)
LEMMA LinkFrame ==
  ASSUME SdkTypeOK, SdkLink
  PROVE  /\ UNCHANGED <<workerVars, runVars, sdkPc, pos, block, trial, version, sdkStopped>>
         /\ link' = link /\ Current' = Current /\ Current \in Int /\ Now' = Now
         /\ did \subseteq did' /\ flash \subseteq flash' /\ SdkTypeOK'
<1>1. UNCHANGED <<workerVars, runVars, sdkPc, pos, block, trial, version, sdkStopped>> /\ link' = link
  BY DEF SdkLink, Receive, Lose, ChipGoesOn, workerVars, stageVars, runVars
<1>2. did \subseteq did' /\ flash \subseteq flash'
  BY DEF SdkLink, Receive, Lose, ChipGoesOn
<1> QED BY <1>1, <1>2, LinkType, PlaceOrder, SameLink DEF Current, Now

(* A message that leaves the wire, lost or read, and does nothing.          *)
LEMMA WireShorter ==
  ASSUME SdkTypeOK, SdkLink, Track, wire # <<>>, wire' = Tail(wire), Sent \cap flash' = Sent \cap flash,
         UNCHANGED <<did, replies>>
  PROVE  Track'
<1>1. /\ Len(wire) \in Nat \ {0} /\ Len(wire') = Len(wire) - 1 /\ Len(wire') \in Nat
      /\ \A i \in 1..Len(wire') : wire'[i] = wire[i + 1] /\ i + 1 \in 1..Len(wire)
  BY TailIs DEF SdkTypeOK
<1>2. \A s : Ready(s)' <=> Ready(s)
  BY LinkFrame, ReadySame
<1>3. Idle' <=> Idle
  BY <1>2 DEF Idle
<1>4. Behind'
  <2>1. AcksUpTo(0) /\ Len(replies) \in Nat
    BY DEF AcksUpTo, SdkTypeOK
  <2> QED BY <2>1, LinkFrame, BehindKept DEF Track
<1>5. OnlySent'
  BY LinkFrame, SameLink DEF Track, OnlySent
<1>6. OwnInTurn' /\ Acked' /\ Counters'
  BY LinkFrame, SameLink, <1>2 DEF Track, OwnInTurn, Acked, Counters
<1>7. Pending'
  <2> SUFFICES ASSUME NEW i \in 1..Len(wire'), wire'[i].stage \in Command
               PROVE  /\ i = Len(wire') /\ wire'[i].stage = Now'.name /\ wire'[i].block = block'
                      /\ sdkPc' = "read" /\ Idle' /\ (replies' # <<>> => replies'[1] # "ack")
                      /\ Ethernet' => replies' = <<>>
    BY DEF Pending, Command
  <2>1. i + 1 \in 1..Len(wire) /\ wire'[i] = wire[i + 1] /\ i \in Nat
    BY <1>1
  <2>2. /\ i + 1 = Len(wire) /\ wire[i + 1].stage = Now.name /\ wire[i + 1].block = block
        /\ sdkPc = "read" /\ Idle /\ (replies # <<>> => replies[1] # "ack")
        /\ Ethernet => replies = <<>>
    BY <2>1 DEF Track, Pending
  <2>3. i = Len(wire')
    <3>1. Len(wire) \in Nat /\ Len(wire') = Len(wire) - 1 /\ i + 1 = Len(wire)
      BY <1>1, <2>2
    <3> QED BY ONLY <3>1, <2>1
  <2> QED BY <1>3, <2>1, <2>2, <2>3, LinkFrame, SameLink
<1>8. IF Ethernet' THEN OverEthernet' ELSE OverSerial'
  <2>1. CASE Ethernet
    <3>1. OverEthernet
      BY <2>1 DEF Track
    <3>2. wire = <<>> => wire' = <<>>
      OBVIOUS
    <3>3. Len(replies) \in Nat
      BY DEF SdkTypeOK
    <3> QED BY <1>1, <1>3, <2>1, <3>1, <3>2, <3>3, LinkFrame, SameLink DEF OverEthernet
  <2>2. CASE ~Ethernet
    BY <1>1, <2>2, LinkFrame, SameLink DEF Track, OverSerial
  <2> QED BY <2>1, <2>2, LinkFrame, SameLink
<1> QED BY <1>4, <1>5, <1>6, <1>7, <1>8 DEF Track

(* A command for the unit is answered by the unit.                          *)
LEMMA UnitAnswers ==
  ASSUME SdkTypeOK, SdkLink, Track, wire # <<>>, wire' = Tail(wire), wire[1].stage \in ByUnit,
         UNCHANGED <<did, flash>>,
         NEW r \in {"pG", "JS", "JG", "sync"}, replies' = Append(replies, r)
  PROVE  Track'
<1>1. /\ Len(wire) \in Nat \ {0} /\ Len(wire') = Len(wire) - 1 /\ Len(wire') \in Nat
      /\ \A i \in 1..Len(wire') : wire'[i] = wire[i + 1] /\ i + 1 \in 1..Len(wire)
  BY TailIs DEF SdkTypeOK
<1>2. /\ Len(replies) \in Nat /\ Len(replies') = Len(replies) + 1
      /\ \A i \in 1..Len(replies) : replies'[i] = replies[i]
      /\ replies'[Len(replies) + 1] = r /\ r \in Answers /\ r \notin {"ack", "nak"}
  BY AppendIs DEF SdkTypeOK, Answers
<1>3. \A s : Ready(s)' <=> Ready(s)
  BY LinkFrame, ReadySame
<1>4. Idle' <=> Idle
  BY <1>3 DEF Idle
<1>5. Behind'
  <2>1. PICK n \in Int : n = Current + Len(replies)
    BY <1>2, LinkFrame
  <2> QED BY <1>2, <2>1, LinkFrame, BehindAppend DEF Track
<1>6. OnlySent'
  BY LinkFrame, SameLink DEF Track, OnlySent
<1>7. OwnInTurn' /\ Counters'
  BY LinkFrame, SameLink, <1>3 DEF Track, OwnInTurn, Counters
<1>8. Acked'
  BY LinkFrame, SameLink, <1>2 DEF Track, Acked
<1>9. Ethernet => pos < FirstPos /\ \A i \in 1..Len(wire) : wire[i].stage \notin Command
  <2> SUFFICES ASSUME Ethernet PROVE pos < FirstPos
    BY EarlyNow
  <2>1. 1 \in 1..Len(wire) /\ wire[1].stage \notin Command \cup {"first"}
    BY <1>1 DEF ByUnit, Command
  <2>2. pos \in Nat /\ FirstPos \in Nat
    BY TablePlaces DEF SdkTypeOK
  <2> QED BY <2>1, <2>2 DEF Track, OverEthernet
<1>10. Pending'
  <2> SUFFICES ASSUME NEW i \in 1..Len(wire'), wire'[i].stage \in Command
               PROVE  /\ i = Len(wire') /\ wire'[i].stage = Now'.name /\ wire'[i].block = block'
                      /\ sdkPc' = "read" /\ Idle' /\ replies'[1] # "ack"
                      /\ ~Ethernet'
    BY DEF Pending, Command
  <2>1. i + 1 \in 1..Len(wire) /\ wire'[i] = wire[i + 1] /\ i \in Nat
    BY <1>1
  <2>2. /\ i + 1 = Len(wire) /\ wire[i + 1].stage = Now.name /\ wire[i + 1].block = block
        /\ sdkPc = "read" /\ Idle /\ (replies # <<>> => replies[1] # "ack") /\ ~Ethernet
    BY <1>9, <2>1 DEF Track, Pending
  <2>3. i = Len(wire')
    <3>1. Len(wire) \in Nat /\ Len(wire') = Len(wire) - 1 /\ i + 1 = Len(wire)
      BY <1>1, <2>2
    <3> QED BY ONLY <3>1, <2>1
  <2>4. replies'[1] # "ack"
    <3>1. CASE replies = <<>>
      BY <1>2, <3>1
    <3>2. CASE replies # <<>>
      BY <1>2, <2>2, <3>2 DEF SdkTypeOK
    <3> QED BY <3>1, <3>2
  <2> QED BY <1>4, <2>1, <2>2, <2>3, <2>4, LinkFrame, SameLink
<1>11. IF Ethernet' THEN OverEthernet' ELSE OverSerial'
  <2>1. CASE Ethernet
    <3>1. OverEthernet /\ pos < FirstPos /\ pos \in Nat /\ FirstPos \in Nat
      BY <1>9, <2>1, TablePlaces DEF Track, SdkTypeOK
    <3>2. Len(wire') + Len(replies') = Len(wire) + Len(replies)
      BY <1>1, <1>2
    <3> QED BY <2>1, <3>1, <3>2, LinkFrame, SameLink DEF OverEthernet
  <2>2. CASE ~Ethernet
    BY <1>1, <2>2, LinkFrame, SameLink DEF Track, OverSerial
  <2> QED BY <2>1, <2>2, LinkFrame, SameLink
<1> QED BY <1>5, <1>6, <1>7, <1>8, <1>10, <1>11 DEF Track

(* A command that is carried out is the one the worker waits for, and its   *)
(* acknowledgement the next one.                                            *)
LEMMA CommandDone ==
  ASSUME SdkTypeOK, SdkLink, Running, Track, wire # <<>>, wire' = Tail(wire), wire[1].stage \in Command,
         Ready(wire[1].stage),
         \/ wire[1].stage # "block" /\ did' = did \cup {wire[1].stage} /\ UNCHANGED flash
         \/ wire[1].stage = "block" /\ flash' = flash \cup {wire[1].block} /\ UNCHANGED did,
         UNCHANGED replies \/ replies' = Append(replies, "ack")
  PROVE  Track'
<1>1. /\ wire' = <<>> /\ Len(wire') = 0 /\ Now.name = wire[1].stage /\ wire[1].block = block
      /\ sdkPc = "read" /\ trial > 0
      /\ (replies # <<>> => replies[1] # "ack") /\ (Ethernet => replies = <<>>)
  <2>1. /\ Len(wire) \in Nat \ {0} /\ Len(wire') = Len(wire) - 1 /\ wire' \in Seq(Commands)
        /\ 1 \in 1..Len(wire)
    BY TailIs DEF SdkTypeOK
  <2>2. /\ 1 = Len(wire) /\ sdkPc = "read" /\ Now.name = wire[1].stage /\ wire[1].block = block
        /\ (replies # <<>> => replies[1] # "ack") /\ (Ethernet => replies = <<>>)
    BY <2>1 DEF Track, Pending
  <2>3. Len(wire') = 0 /\ wire' = <<>>
    BY <2>1, <2>2
  <2> QED BY <2>2, <2>3 DEF Track, Counters
<1>2. pos \in FirstPos..LastPos /\ pos \in Nat /\ FirstPos \in Nat /\ LastPos \in Nat
      /\ BlockPos \in Nat /\ InfoPos \in FirstPos..BlockPos - 1 /\ FirstPos > 0
  <2>1. /\ FirstPos \in Nat /\ LastPos \in Nat /\ BlockPos \in Nat /\ InfoPos \in FirstPos..BlockPos - 1
        /\ FirstPos > 0
    BY Numbers
  <2>2. ~(pos < FirstPos)
    BY <1>1, EarlyNow
  <2> QED BY <2>1, <2>2 DEF Running, SdkTypeOK
<1>3. Now.name = At(pos) /\ At(pos) \in Command /\ (At(pos) = "block" <=> pos = BlockPos)
  BY <1>1, <1>2, LateNow, TableNames DEF SdkTypeOK
<1>4. pos = BlockPos => block \in Sent /\ At(pos) = "block"
  BY <1>1, <1>3, SdkWorkerAssumption DEF SdkTypeOK, Sent, FirstBlock
<1>5. /\ pos # BlockPos => did' = did \cup {At(pos)} /\ flash' = flash
      /\ pos = BlockPos => did' = did /\ flash' = flash \cup {block}
  BY <1>1, <1>3
<1>6. DoneUpTo(Current)'
  <2>1. DoneUpTo(Current - 1)
    BY DoneBefore DEF Track
  <2>2. \A p \in FirstPos..LastPos \ {BlockPos} : Place(p) <= Current => At(p) \in did'
    <3> SUFFICES ASSUME NEW p \in FirstPos..LastPos \ {BlockPos}, Place(p) <= Current PROVE At(p) \in did'
      OBVIOUS
    <3>1. p \in (1..LastPos + 1) \ {BlockPos} /\ Place(p) \in Int /\ Current \in Int
      BY <1>2, PlaceOrder
    <3>2. CASE Place(p) <= Current - 1
      BY <2>1, <3>2, LinkFrame DEF DoneUpTo
    <3>3. CASE Place(p) = Current
      <4>1. p = pos
        <5>1. ~(p < pos)
          BY <3>1, <3>3, PlaceOrder
        <5>2. pos = BlockPos => block # Blocks
          BY <1>1 DEF SdkTypeOK
        <5>3. ~(p > pos)
          BY <3>1, <3>3, <5>2, PlaceOrder
        <5> QED BY <1>2, <5>1, <5>3
      <4> QED BY <1>5, <4>1
    <3> QED BY <3>1, <3>2, <3>3
  <2>3. \A b \in Sent : BlockPlace(b) <= Current => b \in flash'
    <3> SUFFICES ASSUME NEW b \in Sent, BlockPlace(b) <= Current PROVE b \in flash'
      OBVIOUS
    <3>1. BlockPlace(b) \in Int /\ Current \in Int /\ b \in Int /\ block \in Int
      BY PlaceOrder, TablePlaces, SdkWorkerAssumption DEF SdkTypeOK, FirstBlock
    <3>2. CASE BlockPlace(b) <= Current - 1
      BY <2>1, <3>2, LinkFrame DEF DoneUpTo
    <3>3. CASE BlockPlace(b) = Current
      <4>1. pos = BlockPos /\ b = block
        BY <1>2, <3>1, <3>3, PlaceOrder
      <4> QED BY <1>5, <4>1
    <3> QED BY <3>1, <3>2, <3>3
  <2> QED BY <2>2, <2>3, LinkFrame, SameLink DEF DoneUpTo
<1>7. Behind'
  <2>1. CASE UNCHANGED replies
    <3>1. AcksUpTo(0) /\ Len(replies) \in Nat
      BY DEF AcksUpTo, SdkTypeOK
    <3> QED BY <2>1, <3>1, LinkFrame, BehindKept DEF Track
  <2>2. CASE replies' = Append(replies, "ack")
    <3>1. PICK n \in Int : n = Current + Len(replies)
      BY LinkFrame DEF SdkTypeOK
    <3>2. AcksUpTo(Len(replies)) => n = Current
      <4>1. /\ Len(replies) \in Nat /\ (replies # <<>> => 1 \in 1..Len(replies))
            /\ replies = <<>> => Len(replies) = 0
        BY DEF SdkTypeOK
      <4> QED BY <1>1, <3>1, <4>1, LinkFrame DEF AcksUpTo
    <3>3. AcksUpTo(Len(replies)) => DoneUpTo(n)'
      <4> SUFFICES ASSUME AcksUpTo(Len(replies)) PROVE DoneUpTo(n)'
        OBVIOUS
      <4>1. Current' = n
        BY <3>2, LinkFrame
      <4> QED BY <1>6, <4>1
    <3> QED BY <2>2, <3>1, <3>3, LinkFrame, BehindAppend DEF Track, Answers
  <2> QED BY <2>1, <2>2
<1>8. OnlySent'
  <2>1. \A p \in FirstPos..LastPos : At(p) \in Command \cap did' => p < pos \/ p = pos
    <3> SUFFICES ASSUME NEW p \in FirstPos..LastPos, At(p) \in Command \cap did' PROVE p < pos \/ p = pos
      OBVIOUS
    <3>1. CASE At(p) \in did
      BY <3>1 DEF Track, OnlySent
    <3>2. CASE At(p) = At(pos)
      <4>1. p \in 1..LastPos + 1 /\ pos \in 1..LastPos + 1
        BY <1>2, TablePlaces DEF SdkTypeOK
      <4> QED BY <3>2, <4>1, TableDistinct DEF SdkTypeOK
    <3> QED BY <1>5, <3>1, <3>2
  <2>2. \A b \in Sent \cap flash' : pos > BlockPos \/ (pos = BlockPos /\ (b < block \/ b = block))
    BY <1>5 DEF Track, OnlySent
  <2> QED BY <1>1, <2>1, <2>2, LinkFrame, SameLink DEF OnlySent
<1>9. OwnInTurn'
  <2>1. \A s \in OnItsOwn : s # At(pos)
    BY <1>3 DEF OnItsOwn, Command
  <2> QED BY <1>5, <2>1, LinkFrame, ReadyStays DEF Track, OwnInTurn
<1>10. did' # {}
  <2>1. CASE pos # BlockPos
    BY <1>5, <2>1
  <2>2. CASE pos = BlockPos
    <3>1. InfoPos \in FirstPos..pos - 1 /\ Ready(At(pos)) /\ At(InfoPos) = "info"
      BY <1>1, <1>2, <1>3, <2>2, TableNames DEF SdkTypeOK
    <3>2. Done("info")
      BY <1>2, <3>1, ReadyNeeds DEF BaudStages, SdkTypeOK
    <3> QED BY <3>2, LinkFrame DEF Done
  <2> QED BY <2>1, <2>2
<1>11. Acked'
  <2>1. Len(replies) \in Nat
    BY DEF SdkTypeOK
  <2>2. \A i \in 1..Len(replies') : replies'[i] = "nak" => i \in 1..Len(replies) /\ replies[i] = "nak"
    <3>1. CASE UNCHANGED replies
      BY <3>1
    <3>2. CASE replies' = Append(replies, "ack")
      BY <2>1, <3>2 DEF SdkTypeOK
    <3> QED BY <3>1, <3>2
  <2> QED BY <1>10, <2>2, LinkFrame DEF Track, Acked
<1>12. \A i \in 1..Len(wire') : FALSE
  <2>1. Len(wire') = 0
    BY <1>1
  <2> QED BY ONLY <2>1
<1>13. Pending' /\ Counters'
  BY <1>1, <1>12, LinkFrame, SameLink DEF Track, Pending, Counters
<1>14. IF Ethernet' THEN OverEthernet' ELSE OverSerial'
  <2>1. CASE Ethernet
    <3>1. did' \cap BaudStages = {}
      <4>1. At(pos) \notin BaudStages
        BY <1>2, <2>1, TableNames DEF SdkTypeOK
      <4> QED BY <1>5, <2>1, <4>1 DEF Track, OverEthernet
    <3>2. \A i \in 1..Len(replies') :
            replies'[i] \in {"ack", "nak"} /\ (replies'[i] = "nak" => i = Len(replies'))
      <4>1. replies' = <<>> \/ replies' = <<"ack">>
        BY <1>1, <2>1
      <4> QED BY <4>1
    <3>3. ~(pos < FirstPos)
      BY <1>2
    <3> QED BY <1>1, <1>12, <2>1, <3>1, <3>2, <3>3, LinkFrame, SameLink DEF Track, OverEthernet
  <2>2. CASE ~Ethernet
    BY <1>1, <1>12, <2>2, LinkFrame, SameLink DEF Track, OverSerial
  <2> QED BY <2>1, <2>2, LinkFrame, SameLink
<1> QED BY <1>7, <1>8, <1>9, <1>11, <1>13, <1>14 DEF Track

(* What the chip does by itself is the next thing it is waited for.         *)
LEMMA ChipReports ==
  ASSUME SdkTypeOK, SdkLink, Running, Track, NEW s \in OnItsOwn, ChipGoesOn(s)
  PROVE  Track'
<1>1. s \notin did /\ Ready(s) /\ did' = did \cup {s} /\ UNCHANGED <<wire, flash>> /\ ~Idle
  BY DEF ChipGoesOn, Idle
<1>2. /\ Len(replies) \in Nat /\ Current \in Int
      /\ \A b \in Sent : b \in Int /\ BlockPlace(b) \in Int
      /\ \A p \in 1..LastPos + 1 : Place(p) \in Int
  BY PlaceOrder, Numbers DEF SdkTypeOK
<1>3. PICK q \in InfoPos + 1..LastPos : At(q) = s
  <2>1. PICK p \in 1..LastPos + 1 : At(p) = s
    BY <1>1, TablePlaces DEF Ready, SdkTypeOK
  <2> QED BY <2>1, OwnPlace DEF SdkTypeOK
<1>4. q \in FirstPos..LastPos /\ q # BlockPos
  BY <1>3, Numbers, TableNames DEF OnItsOwn, SdkTypeOK
<1>5. "info" \in did /\ did # {}
  BY <1>1, OwnAfterInfo DEF SdkTypeOK
<1>6. InfoPos <= pos /\ pos \in FirstPos..LastPos
  <2>1. At(InfoPos) = "info" /\ InfoPos \in FirstPos..LastPos
    BY Numbers, TableNames DEF SdkTypeOK
  <2>2. InfoPos <= pos
    BY <1>5, <2>1, Numbers DEF Track, OnlySent, Command
  <2> QED BY <2>2, Numbers DEF Running
<1>7. Current >= InfoPos
  BY <1>6, Numbers DEF Current, Place, BlockPlace
<1>8. PICK n \in Int : n = Current + Len(replies)
  BY <1>2
<1>9. ASSUME AcksUpTo(Len(replies)) PROVE DoneUpTo(n)'
  <2>1. DoneUpTo(n - 1)
    <3>1. Current - 1 + Len(replies) = n - 1
      BY <1>2, <1>8
    <3> QED BY <1>2, <1>9, <3>1 DEF Track, Behind
  <2>2. n >= InfoPos
    BY <1>2, <1>7, <1>8, Numbers
  <2>3. ~(Place(q) <= n - 1)
    BY <1>1, <1>3, <1>4, <2>1 DEF DoneUpTo
  <2>4. \A p \in FirstPos..LastPos \ {BlockPos} : Place(p) <= n => At(p) \in did'
    <3> SUFFICES ASSUME NEW p \in FirstPos..LastPos \ {BlockPos}, Place(p) <= n PROVE At(p) \in did'
      OBVIOUS
    <3>1. CASE Place(p) <= n - 1
      BY <1>1, <2>1, <3>1 DEF DoneUpTo
    <3>2. CASE ~(Place(p) <= n - 1)
      <4>1. Place(p) = n
        BY <1>2, <3>2, Numbers
      <4>2. p <= q
        BY <1>2, <1>3, <1>4, <2>3, <4>1, Numbers DEF Place
      <4>3. CASE p = q
        BY <1>1, <1>3, <4>3
      <4>4. CASE p < q
        <5>1. p \in FirstPos..q - 1
          BY <4>4, Numbers
        <5>2. ~(p < InfoPos)
          BY <2>2, <4>1, Numbers DEF Place
        <5>3. At(p) \notin BaudStages /\ At(p) # "block"
          BY <5>2, TableNames DEF SdkTypeOK
        <5>4. Done(At(p))
          BY <1>1, <1>3, <1>4, <5>1, <5>3, ReadyNeeds DEF SdkTypeOK
        <5> QED BY <1>1, <5>3, <5>4 DEF Done
      <4> QED BY <4>2, <4>3, <4>4, <1>4, Numbers
    <3> QED BY <3>1, <3>2
  <2>5. \A b \in Sent : BlockPlace(b) <= n => b \in flash
    <3> SUFFICES ASSUME NEW b \in Sent, BlockPlace(b) <= n PROVE b \in flash
      OBVIOUS
    <3>1. CASE BlockPlace(b) <= n - 1
      BY <2>1, <3>1 DEF DoneUpTo
    <3>2. CASE ~(BlockPlace(b) <= n - 1)
      <4>1. BlockPlace(b) = n
        BY <1>2, <3>2
      <4>2. q > BlockPos
        <5> SUFFICES ASSUME q < BlockPos PROVE FALSE
          BY <1>4, Numbers
        <5>1. Place(q) = q /\ BlockPlace(b) >= BlockPos
          BY Numbers DEF Place, BlockPlace, Sent
        <5> QED BY <1>2, <2>3, <4>1, <5>1, Numbers
      <4>3. BlockPos \in FirstPos..q - 1 /\ At(BlockPos) = "block"
        BY <4>2, Numbers, TableNames DEF SdkTypeOK
      <4>4. Done("block")
        BY <1>1, <1>3, <1>4, <4>3, ReadyNeeds DEF SdkTypeOK, BaudStages
      <4> QED BY <4>4 DEF Done
    <3> QED BY <3>1, <3>2
  <2> QED BY <1>1, <2>4, <2>5, LinkFrame, SameLink DEF DoneUpTo
<1>10. PICK r \in {"ack", "nak"} :
         (replies' = replies \/ replies' = Append(replies, r)) /\ (r = "nak" => s = "crc")
  <2>1. CASE s = "crc" /\ flash # 0..Blocks - 1
    BY <2>1 DEF ChipGoesOn, Reply
  <2>2. CASE ~(s = "crc" /\ flash # 0..Blocks - 1)
    BY <2>2 DEF ChipGoesOn, Reply
  <2> QED BY <2>1, <2>2
<1>11. \A t : Ready(t) => Ready(t)'
  BY LinkFrame, ReadyStays
<1>12. Behind'
  <2>1. CASE replies' = replies
    <3>1. AcksUpTo(0)
      BY DEF AcksUpTo
    <3> QED BY <1>2, <2>1, <3>1, LinkFrame, BehindKept DEF Track
  <2>2. CASE replies' = Append(replies, r)
    BY <1>8, <1>9, <2>2, LinkFrame, BehindAppend DEF Track, Answers
  <2> QED BY <1>10, <2>1, <2>2
<1>13. OnlySent' /\ Counters'
  <2>1. s \notin Command
    BY DEF Command, OnItsOwn
  <2> QED BY <1>1, <2>1, LinkFrame, SameLink DEF Track, OnlySent, Counters
<1>14. OwnInTurn'
  BY <1>1, <1>11 DEF Track, OwnInTurn
<1>15. \A i \in 1..Len(replies) : replies[i] # "nak"
  <2>1. "crc" \notin did
    BY <1>1, CheckIsLast DEF Track
  <2> QED BY <2>1 DEF Track, Acked
<1>16. \A i \in 1..Len(replies') : replies'[i] = "nak" => i = Len(replies') /\ s = "crc"
  <2>1. CASE replies' = replies
    BY <1>15, <2>1
  <2>2. CASE replies' = Append(replies, r)
    <3>1. /\ Len(replies') = Len(replies) + 1
          /\ \A i \in 1..Len(replies) : replies'[i] = replies[i]
          /\ replies'[Len(replies) + 1] = r
      BY <2>2 DEF SdkTypeOK
    <3> QED BY <1>2, <1>10, <1>15, <3>1
  <2> QED BY <1>10, <2>1, <2>2
<1>17. Acked'
  BY <1>1, <1>5, <1>16, LinkFrame DEF Acked
<1>18. \A i \in 1..Len(wire) : wire[i].stage \notin Command
  BY <1>1 DEF Track, Pending
<1>19. Pending'
  BY <1>1, <1>18 DEF Pending, Command
<1>20. IF Ethernet' THEN OverEthernet' ELSE OverSerial'
  <2>1. CASE Ethernet
    <3>1. OverEthernet /\ ~(pos < FirstPos) /\ pos >= FirstPos
      BY <1>6, <2>1, Numbers DEF Track
    <3>2. did' \cap BaudStages = {}
      <4>1. s \notin BaudStages
        BY DEF OnItsOwn, BaudStages
      <4> QED BY <1>1, <3>1, <4>1 DEF OverEthernet
    <3>3. \A i \in 1..Len(replies') : replies'[i] \in {"ack", "nak"}
      <4>1. \A i \in 1..Len(replies) : replies[i] \in {"ack", "nak"}
        BY <3>1 DEF OverEthernet
      <4>2. CASE replies' = replies
        BY <4>1, <4>2
      <4>3. CASE replies' = Append(replies, r)
        <5>1. /\ Len(replies') = Len(replies) + 1
              /\ \A i \in 1..Len(replies) : replies'[i] = replies[i]
              /\ replies'[Len(replies) + 1] = r
          BY <4>3 DEF SdkTypeOK
        <5> QED BY <1>2, <4>1, <5>1
      <4> QED BY <1>10, <4>2, <4>3
    <3>4. \A i \in 1..Len(wire) : wire[i].stage \in Command \cup {"first"} /\ wire[i].stage # "first"
      BY <1>5, <3>1 DEF OverEthernet
    <3>5. ~(sdkPc = "stage" /\ trial > 0)
      BY <1>1, <3>1 DEF OverEthernet
    <3> QED BY <1>1, <1>16, <2>1, <3>1, <3>2, <3>3, <3>4, <3>5, LinkFrame, SameLink DEF OverEthernet
  <2>2. CASE ~Ethernet
    BY <1>1, <2>2, LinkFrame, SameLink DEF Track, OverSerial
  <2> QED BY <2>1, <2>2, LinkFrame, SameLink
<1> QED BY <1>12, <1>13, <1>14, <1>17, <1>19, <1>20 DEF Track

(* A message the chip receives.                                             *)
LEMMA Received ==
  ASSUME SdkTypeOK, Running, Track, Receive
  PROVE  Track'
<1>1. /\ SdkLink /\ wire # <<>> /\ wire' = Tail(wire)
      /\ Head(wire) = wire[1] /\ wire[1].stage \in Sendable /\ 1 \in 1..Len(wire)
  <2>1. SdkLink /\ wire # <<>> /\ wire' = Tail(wire)
    BY DEF Receive, SdkLink
  <2>2. Head(wire) = wire[1] /\ wire[1] \in Commands /\ 1 \in 1..Len(wire)
    BY <2>1, TailIs DEF SdkTypeOK
  <2> QED BY <2>1, <2>2 DEF Commands
<1>2. CASE wire[1].stage \in ByUnit
  <2>1. /\ wire[1].stage \notin {"first", "block"} /\ UNCHANGED <<did, flash>>
        /\ Reply(IF wire[1].stage = "version" THEN "pG" ELSE wire[1].stage)
    BY <1>1, <1>2 DEF Receive, ByUnit
  <2>2. PICK r \in {"pG", "JS", "JG", "sync"} : replies' = replies \/ replies' = Append(replies, r)
    BY <1>2, <2>1 DEF Reply, ByUnit
  <2>3. CASE replies' = replies
    BY <1>1, <2>1, <2>3, WireShorter
  <2>4. CASE replies' = Append(replies, r)
    BY <1>1, <1>2, <2>1, <2>4, UnitAnswers
  <2> QED BY <2>2, <2>3, <2>4
<1>3. CASE wire[1].stage = "first"
  <2>1. Ethernet
    BY <1>1, <1>3 DEF Track, OverSerial
  <2>2. flash' = flash \cup {0} /\ UNCHANGED <<did, replies>>
    BY <1>1, <1>3 DEF Receive, ByUnit
  <2>3. Sent \cap flash' = Sent \cap flash
    <3>1. 0 \notin Sent
      BY <2>1, SdkWorkerAssumption DEF Sent, FirstBlock
    <3> QED BY <2>2, <3>1
  <2> QED BY <1>1, <2>2, <2>3, WireShorter
<1>4. CASE wire[1].stage \in Command /\ Ready(wire[1].stage)
  <2>1. wire[1].stage \notin ByUnit \cup {"first"}
    BY <1>4 DEF Command, ByUnit
  <2>2. /\ \/ wire[1].stage # "block" /\ did' = did \cup {wire[1].stage} /\ UNCHANGED flash
           \/ wire[1].stage = "block" /\ flash' = flash \cup {wire[1].block} /\ UNCHANGED did
        /\ UNCHANGED replies \/ replies' = Append(replies, "ack")
    BY <1>1, <1>4, <2>1 DEF Receive, Reply
  <2> QED BY <1>1, <1>4, <2>2, CommandDone
<1>5. CASE wire[1].stage \in Command /\ ~Ready(wire[1].stage)
  <2>1. wire[1].stage \notin ByUnit \cup {"first"}
    BY <1>5 DEF Command, ByUnit
  <2>2. UNCHANGED <<did, flash, replies>>
    BY <1>1, <1>5, <2>1 DEF Receive
  <2> QED BY <1>1, <2>2, WireShorter
<1> QED BY <1>1, <1>2, <1>3, <1>4, <1>5 DEF Sendable

(* So do the chip and the link.                                             *)
LEMMA LinkStep ==
  ASSUME SdkInv, SdkLink
  PROVE  SdkInv'
<1>1. SdkTypeOK
  BY DEF SdkInv
<1>2. (Good' <=> Good) /\ (Running' <=> Running) /\ UNCHANGED <<runVars, pos, block, version>>
  BY <1>1, LinkFrame, SameLink DEF Good, Running, runVars
<1>3. Good => InStep'
  BY <1>1, <1>2, LinkFrame, InStepKept DEF SdkInv
<1>4. Good /\ Running => Track'
  <2> SUFFICES ASSUME Running, Track PROVE Track'
    BY DEF SdkInv
  <2>1. CASE Receive
    BY <1>1, <2>1, Received
  <2>2. CASE Lose
    BY <1>1, <2>2, WireShorter DEF Lose
  <2>3. ASSUME NEW s \in OnItsOwn, ChipGoesOn(s) PROVE Track'
    BY <1>1, <2>3, ChipReports
  <2> QED BY <2>1, <2>2, <2>3 DEF SdkLink
<1> QED BY <1>1, <1>2, <1>3, <1>4, LinkFrame DEF SdkInv

-----------------------------------------------------------------------------
(* stop() only sets the flag.                                               *)
LEMMA StopStep ==
  ASSUME SdkInv, sdkStopped' \in BOOLEAN, UNCHANGED <<stageVars, version, chipVars, runVars>>
  PROVE  SdkInv'
<1>1. UNCHANGED <<sdkPc, pos, block, trial, version, wire, replies, did, flash, link, unit, late>>
  BY DEF stageVars, chipVars, runVars
<1>2. /\ UNCHANGED <<Ethernet, Stages, FirstBlock, Sent, FirstPos, InfoPos, BlockPos, LastPos>>
      /\ \A p : At(p)' = At(p) /\ Before(p)' = Before(p) /\ Place(p)' = Place(p)
      /\ \A b : BlockPlace(b)' = BlockPlace(b)
  BY <1>1, SameLink
<1>3. Now' = Now /\ Current' = Current
  BY <1>1, <1>2 DEF Now, Current
<1>4. \A s : (Ready(s)' <=> Ready(s)) /\ (Done(s)' <=> Done(s))
  BY <1>1, <1>2, ReadySame DEF Done
<1>5. \A n : DoneUpTo(n)' <=> DoneUpTo(n)
  BY <1>1, <1>2 DEF DoneUpTo
<1>6. SdkTypeOK => SdkTypeOK'
  BY <1>1, <1>2 DEF SdkTypeOK
<1>7. (Good' <=> Good) /\ (Running' <=> Running)
  BY <1>1, <1>2 DEF Good, Running
<1>8. InStep => InStep'
  BY <1>1, InStepKept DEF runVars
<1>9. Behind => Behind'
  BY <1>1, <1>3, <1>5 DEF Behind, AcksUpTo
<1>10. OnlySent /\ OwnInTurn /\ Acked /\ Counters => OnlySent' /\ OwnInTurn' /\ Acked' /\ Counters'
  BY <1>1, <1>2, <1>4 DEF OnlySent, OwnInTurn, Acked, Counters
<1>11. Idle' <=> Idle
  BY <1>1, <1>4 DEF Idle
<1>12. Pending => Pending'
  BY <1>1, <1>2, <1>3, <1>11 DEF Pending
<1>13. (OverSerial => OverSerial') /\ (OverEthernet => OverEthernet')
  BY <1>1, <1>2, <1>11 DEF OverSerial, OverEthernet
<1> QED BY <1>2, <1>6, <1>7, <1>8, <1>9, <1>10, <1>12, <1>13 DEF SdkInv, Track

(* A worker that begins.                                                    *)
LEMMA BeginStep == Fresh => SdkInv
<1> SUFFICES ASSUME Fresh PROVE SdkInv
  OBVIOUS
<1>1. SdkTypeOK
  BY FreshTypes
<1>2. /\ wire = <<>> /\ replies = <<>> /\ did = {} /\ flash = {} /\ sdkPc = "stage" /\ pos = 1
      /\ block = FirstBlock /\ trial = 0 /\ version = "recent"
  BY DEF Fresh
<1>3. Len(wire) = 0 /\ Len(replies) = 0
  BY <1>2
<1>4. Counters
  BY <1>1, <1>2, Numbers DEF Counters
<1>5. Behind /\ OnlySent /\ OwnInTurn /\ Acked /\ Pending
  BY <1>1, <1>2, <1>3, <1>4, EarlyTrack, Numbers
<1>6. ~Ethernet => OverSerial
  BY <1>2, <1>3 DEF OverSerial
<1>7. Ethernet => OverEthernet
  BY <1>2, <1>3, <1>1, Numbers DEF OverEthernet
<1>8. Track
  BY <1>4, <1>5, <1>6, <1>7 DEF Track
<1> QED BY <1>1, <1>2, <1>8, TrackInStep, Numbers DEF SdkInv

-----------------------------------------------------------------------------
(* A worker that reports FINISH has come to the end of its stages.          *)
AtTheEnd == sdkPc = "finished" => pos = LastPos + 1

LEMMA EndStep ==
  ASSUME SdkTypeOK, AtTheEnd, SdkWork
  PROVE  AtTheEnd'
<1>1. sdkPc \in {"stage", "read"} /\ LastPos' = LastPos /\ pos \in 1..LastPos + 1 /\ LastPos \in Nat
  <2>1. sdkPc \in {"stage", "read"} /\ link' = link
    BY DEF SdkWork, Stopped, SendStage, FlashWritten, ReadOther, ReadReply, ReadMismatch, ReadGivesUp,
           runVars
  <2> QED BY <2>1, SameLink, Numbers DEF SdkTypeOK
<1> SUFFICES ASSUME sdkPc' = "finished" PROVE pos' = LastPos + 1
  BY <1>1 DEF AtTheEnd
<1>2. NextStage => pos' = LastPos + 1
  BY <1>1, NextIs
<1>3. ~RaiseError
  BY DEF RaiseError
<1>4. Again => pos' = LastPos + 1
  BY <1>1, <1>2, <1>3 DEF Again
<1> QED BY <1>1, <1>2, <1>3, <1>4
        DEF SdkWork, Stopped, SendStage, FlashWritten, ReadOther, ReadReply, ReadMismatch, ReadGivesUp,
            workerVars, stageVars

(* It has written the image: all blocks lie behind it.                      *)
LEMMA EndIsWritten ==
  ASSUME SdkTypeOK, Good, InStep, AtTheEnd, sdkPc = "finished"
  PROVE  Sent \subseteq flash
<1>1. pos = LastPos + 1 /\ BlockPos \in 1..pos - 1 /\ BlockPos \in FirstPos..LastPos /\ BlockPos # LastPos
  BY Numbers DEF AtTheEnd
<1>2. At(BlockPos) = "block" /\ ~Stages[BlockPos].optional
  BY <1>1, TableNames, TableKinds DEF SdkTypeOK
<1>3. ~Skipped(BlockPos)
  BY <1>2 DEF Skipped, BaudStages
<1>4. Done("block")
  BY <1>1, <1>2, <1>3 DEF InStep, Good, ByUnit
<1> QED BY <1>4 DEF Done

-----------------------------------------------------------------------------
(* The invariant of the worker, the chip and the link between them.         *)
THEOREM SdkInvariant == SdkSpec => []SdkInv
<1>1. SdkInit => SdkInv
  BY InitIsFresh, BeginStep
<1>2. SdkInv /\ [SdkNext]_sdkVars => SdkInv'
  <2> SUFFICES ASSUME SdkInv, [SdkNext]_sdkVars PROVE SdkInv'
    OBVIOUS
  <2>1. CASE SdkWork
    BY <2>1, WorkStep
  <2>2. CASE SdkLink
    BY <2>2, LinkStep
  <2>3. CASE SdkStop
    BY <2>3, StopStep DEF SdkStop
  <2>4. CASE UNCHANGED sdkVars
    <3>1. sdkStopped' \in BOOLEAN
      BY <2>4 DEF sdkVars, workerVars, SdkInv, SdkTypeOK
    <3> QED BY <2>4, <3>1, StopStep DEF sdkVars, workerVars
  <2> QED BY <2>1, <2>2, <2>3, <2>4 DEF SdkNext
<1> QED BY <1>1, <1>2, PTL DEF SdkSpec

(* A stage that the worker has left is one that the chip has gone through,  *)
(* whatever the link loses and whenever stop() is called: work() never      *)
(* takes the acknowledgement of one stage for that of a later one.          *)
THEOREM NeverAhead == SdkSpec => []InStep
<1>1. SdkInv => InStep
  BY DEF SdkInv, InStep, Good
<1> QED BY <1>1, SdkInvariant, PTL

(* A worker that reports FINISH has written every block of the image that   *)
(* it was to send, on the condition of InStep.                              *)
THEOREM FinishedIsWritten == SdkSpec => [](sdkPc = "finished" /\ Good => Sent \subseteq flash)
<1>1. SdkInit => AtTheEnd
  BY DEF SdkInit, AtTheEnd
<1>2. SdkInv /\ AtTheEnd /\ [SdkNext]_sdkVars => AtTheEnd'
  <2> SUFFICES ASSUME SdkInv, AtTheEnd, [SdkNext]_sdkVars PROVE AtTheEnd'
    OBVIOUS
  <2>1. CASE SdkWork
    BY <2>1, EndStep DEF SdkInv
  <2>2. CASE SdkLink \/ SdkStop \/ UNCHANGED sdkVars
    <3>1. UNCHANGED <<sdkPc, pos, link>>
      BY <2>2, LinkFrame DEF SdkInv, SdkStop, sdkVars, workerVars, stageVars, runVars
    <3> QED BY <3>1, SameLink DEF AtTheEnd
  <2> QED BY <2>1, <2>2 DEF SdkNext
<1>3. SdkInv /\ AtTheEnd => (sdkPc = "finished" /\ Good => Sent \subseteq flash)
  BY EndIsWritten DEF SdkInv
<1> QED BY <1>1, <1>2, <1>3, SdkInvariant, PTL DEF SdkSpec
=============================================================================
