-------------------------------- MODULE CanLog --------------------------------
(***************************************************************************)
(* canfd_app_driver over classic CAN: the unit sends an epoch as Kinds     *)
(* messages in a fixed order, and log() collects them into one row of the  *)
(* IMU and INS logs.  can_message_flag says which of them it has: bits are *)
(* set from the lowest up, so that their number stands for them.           *)
(*                                                                         *)
(* receive_parse_all puts the messages into a queue without a limit and    *)
(* start_parse takes them out in order: the two threads are one step here. *)
(***************************************************************************)
EXTENDS Naturals

CONSTANTS
  Kinds,     \* messages of an epoch, INS_ACC (0) to INS_Time (Kinds - 1)
  MaxLost,   \* messages that are lost, or too short to be unpacked
  MaxEpochs, \* bound: epochs
  None       \* no value

ASSUME CanLogAssumption ==
  /\ Kinds \in Nat /\ Kinds > 1
  /\ MaxLost \in Nat
  /\ MaxEpochs \in Nat
  /\ None \notin Nat /\ None \notin [0..Kinds - 1 -> Nat \cup {None}]

VARIABLES
  epoch, kind, \* the message that the unit sends next
  lost,        \* messages lost
  flag,        \* can_message_flag: number of bits set
  dict,        \* can_imu_dict: for each kind the epoch its values are of
  opened,      \* keys of log_files
  row,         \* the row written last
  rows,        \* rows in the logs
  written      \* history: rows written

unitVars == <<epoch, kind, lost>>
rowVars  == <<row, rows, written>>
logVars  == <<unitVars, flag, dict, opened, rowVars>>

(* The next message of the unit, in this epoch or in the next one.          *)
Advance ==
  /\ epoch < MaxEpochs
  /\ kind'  = IF kind = Kinds - 1 THEN 0 ELSE kind + 1
  /\ epoch' = IF kind = Kinds - 1 THEN epoch + 1 ELSE epoch

(* The first message of a kind opens its log, and opens the logs of rows    *)
(* again, which empties them.                                               *)
RowsBefore == IF kind \in opened THEN rows ELSE 0

(* A message in its turn is collected.  Any other one drops what has been   *)
(* collected, except for INS_ACC, which is only looked at when flag is 0.   *)
InTurn == flag = kind

\* mutants: a message out of turn is passed over; the order is not looked at
FlagKept    == IF flag = kind THEN flag + 1 ELSE flag
FlagCounted == flag + 1

NewFlag ==
  CASE flag = kind              -> flag + 1
    [] flag # kind /\ kind = 0  -> flag
    [] flag # kind /\ kind # 0  -> 0

Collected == IF InTurn THEN [dict EXCEPT ![kind] = epoch] ELSE dict

NoValues == [k \in 0..Kinds - 1 |-> None]

(* With all of the messages a row is written.                               *)
WriteRow ==
  IF NewFlag = Kinds
  THEN /\ row' = Collected /\ dict' = NoValues
       /\ rows' = RowsBefore + 1 /\ written' = written + 1
       /\ flag' = 0
  ELSE /\ rows' = RowsBefore
       /\ flag' = NewFlag /\ dict' = Collected
       /\ UNCHANGED <<row, written>>

Log ==
  /\ Advance
  /\ opened' = opened \cup {kind}
  /\ WriteRow
  /\ UNCHANGED lost

Lose ==
  /\ lost < MaxLost
  /\ Advance
  /\ lost' = lost + 1
  /\ UNCHANGED <<flag, dict, opened, rowVars>>

(* Before start_parse the messages are read and dropped by the requests for *)
(* the device's versions: the first one may be any.                         *)
LogInit ==
  /\ epoch = 0 /\ kind \in 0..Kinds - 1 /\ lost = 0
  /\ flag = 0 /\ dict = NoValues
  /\ opened = {}
  /\ row = None /\ rows = 0 /\ written = 0

LogNext == Log \/ Lose

LogSpec == LogInit /\ [][LogNext]_logVars

-----------------------------------------------------------------------------
(* Properties.                                                              *)

LogTypeOK ==
  /\ epoch \in Nat /\ kind \in 0..Kinds - 1 /\ lost \in Nat
  /\ flag \in 0..Kinds - 1
  /\ dict \in [0..Kinds - 1 -> Nat \cup {None}]
  /\ opened \subseteq 0..Kinds - 1
  /\ row \in [0..Kinds - 1 -> Nat \cup {None}] \cup {None}
  /\ rows \in Nat /\ written \in Nat

(* A row has all of its values, and all of one epoch, although no message   *)
(* says of which one it is, as long as fewer than Kinds - 1 messages are    *)
(* lost: an INS_ACC that comes too early is passed over, and what follows   *)
(* it may fit again.                                                        *)
RowOfOneEpoch ==
  MaxLost < Kinds - 1 /\ row # None =>
    row[0] \in Nat /\ \A k \in 0..Kinds - 1 : row[k] = row[0]

(* Opening the logs again never empties them of a row.                      *)
RowsKept == rows = written
=============================================================================
