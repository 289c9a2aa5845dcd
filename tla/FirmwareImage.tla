---------------------------- MODULE FirmwareImage ----------------------------
(***************************************************************************)
(* From the content of a combined firmware file to the list of workers     *)
(* that write it: firmware_parser.parser and get_upgrade_workers of the    *)
(* Ethernet provider, of the beidou provider and of the RTK provider.      *)
(*                                                                         *)
(* A file is a sequence of sections, each begun by the marker of its part; *)
(* what a section holds is abstract.                                       *)
(***************************************************************************)
EXTENDS Naturals, Sequences, SequencesExt, FiniteSetsExt

(* A worker, by its class, the part of the image it writes, and the core of *)
(* the unit, "main" or "imu", whose bootloader it takes.                    *)
Worker(kind, part, core) == [kind |-> kind, part |-> part, core |-> core]

(***************************************************************************)
(* parser: the rules are tried in turn on the section that comes next; one *)
(* that does not fit yields an empty part.  So the parts taken are those   *)
(* of the first Taken(image, rules) sections.                              *)
(***************************************************************************)
TakeSection(image, n, rule) == IF n < Len(image) /\ image[n + 1] = rule THEN n + 1 ELSE n

Taken(image, rules) ==
  LET taken[k \in 0..Len(rules)] ==
        IF k = 0 THEN 0 ELSE TakeSection(image, taken[k - 1], rules[k])
  IN  taken[Len(rules)]

Parts(image, rules) == SubSeq(image, 1, Taken(image, rules))

(* A file that is cut off within its last section: the end of that section  *)
(* is not where the file ends, so the next rule, if there is one, reads     *)
(* beyond it and raises.                                                    *)
ParserRaises(image, cut, rules) ==
  cut /\ image # <<>> /\ Taken(image, rules) = Len(image) /\ Last(image) # Last(rules)

(***************************************************************************)
(* The workers of the firmware parts of one core are put between a jump to *)
(* its bootloader and a jump to its application, by two insertions into    *)
(* the list.                                                               *)
(***************************************************************************)
Writes(workers, parts) ==
  {i \in DOMAIN workers : workers[i].kind = "write" /\ workers[i].part \in parts}

(* a faulty variant of Wrap: the second insertion forgets the first         *)
WrapShort(workers, parts, core) ==
  LET is == Writes(workers, ToSet(parts))
  IN  IF is = {} THEN workers
      ELSE InsertAt(InsertAt(workers, Min(is), Worker("jumpBoot", Head(parts), core)),
                    Max(is) + 1, Worker("jumpApp", Head(parts), core))

(* another: nobody jumps back                                               *)
WrapOpen(workers, parts, core) ==
  LET is == Writes(workers, ToSet(parts))
  IN  IF is = {} THEN workers
      ELSE InsertAt(workers, Min(is), Worker("jumpBoot", Head(parts), core))

Wrap(workers, parts, core) ==
  LET is == Writes(workers, ToSet(parts))
  IN  IF is = {} THEN workers
      ELSE InsertAt(InsertAt(workers, Min(is), Worker("jumpBoot", Head(parts), core)),
                    Max(is) + 2, Worker("jumpApp", Head(parts), core))

-----------------------------------------------------------------------------
(* The Ethernet provider.                                                   *)

(* a faulty variant of EthernetRules: the bootloader of the IMU is not      *)
(* thought of                                                               *)
EthernetRulesForImu(flags) ==
  IF "imu" \in flags
  THEN <<"rtk", "ins", "sdk", "imu_boot", "imu">> ELSE <<"rtk", "ins", "sdk">>

EthernetRules(flags) ==
  IF flags \cap {"imu", "imu_boot"} # {}
  THEN <<"rtk", "ins", "sdk", "imu_boot", "imu">> ELSE <<"rtk", "ins", "sdk">>

(* build_worker: the parts that were asked for; the sdk part is for either  *)
(* of the two chips.                                                        *)
EthernetWorker(part, flags) ==
  CASE part = "sdk" -> (IF "sdk" \in flags THEN <<Worker("sdk", "sdk", "main")>> ELSE <<>>)
                       \o (IF "sdk_2" \in flags THEN <<Worker("sdk", "sdk_2", "main")>> ELSE <<>>)
    [] part \in {"rtk", "ins"} /\ part \in flags -> <<Worker("write", part, "main")>>
    [] part \in {"imu", "imu_boot"} /\ part \in flags -> <<Worker("write", part, "imu")>>
    [] OTHER -> <<>>

EthernetWorkers(image, flags) ==
  LET parts == Parts(image, EthernetRules(flags))
      built == FlattenSeq([i \in DOMAIN parts |-> EthernetWorker(parts[i], flags)])
  IN  Wrap(Wrap(Wrap(built, <<"rtk", "ins">>, "main"), <<"imu_boot">>, "imu"), <<"imu">>, "imu")

-----------------------------------------------------------------------------
(* The beidou provider.                                                     *)

BeidouRules == <<"ins", "imu">>

BeidouWorker(part) == Worker("write", part, IF part = "ins" THEN "main" ELSE "imu")

BeidouWorkers(image) ==
  LET parts == Parts(image, BeidouRules)
      built == [i \in DOMAIN parts |-> BeidouWorker(parts[i])]
  IN  Wrap(Wrap(built, <<"ins">>, "main"), <<"imu">>, "imu")
=============================================================================
