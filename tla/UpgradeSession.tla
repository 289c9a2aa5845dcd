--------------------------- MODULE UpgradeSession ---------------------------
(***************************************************************************)
(* An upgrade as a whole: the parts of the file become workers             *)
(* (FirmwareImage), the center runs them (UpgradeCenter), and the workers  *)
(* are those of the providers: SDK workers (SdkWorker), and here the jump  *)
(* workers with the hooks of their providers, and the firmware worker as   *)
(* what FirmwareWorker shows it to do, write its part or fail.             *)
(*                                                                         *)
(* The unit is what the workers make of it: two cores, each in its         *)
(* application or in its bootloader.                                       *)
(***************************************************************************)
EXTENDS UpgradeCenter, SdkWorker, FirmwareImage

CONSTANTS
  FIRMWARE,       \* the group the providers put their workers in
  Sessions,       \* what is upgraded, records of the form Session(...)
  MaxJumps,       \* bound: commands of a jump worker, where the code sends more
  LinkFaults      \* what the link does to jumps and parts: a subset of
                  \* {"loss", "late"}, as for SdkFaults

ASSUME UpgradeSessionAssumption ==
  MaxJumps \in Nat \ {0} /\ LinkFaults \subseteq {"loss", "late"}

Session(provider, image, wanted, team, gs, raising) ==
  [provider |-> provider, image |-> image, wanted |-> wanted, team |-> team, groups |-> gs,
   raising |-> raising]

InOneGroup(team) == [i \in DOMAIN team |-> FIRMWARE]

(* get_upgrade_workers of a file with these sections, cut off or not, for   *)
(* the parts the user asks for.  The section of the SDK is for both chips.  *)
EthernetSession(image, flags, cut) ==
  LET team   == EthernetWorkers(image, flags)
      wanted == flags \cap (ToSet(image) \cup IF "sdk" \in ToSet(image) THEN {"sdk_2"} ELSE {})
  IN  Session("ethernet", image, wanted, team, InOneGroup(team),
              ParserRaises(image, cut, EthernetRules(flags)))

BeidouSession(image, cut) ==
  LET team == BeidouWorkers(image)
  IN  Session("beidou", image, ToSet(image), team, InOneGroup(team),
              ParserRaises(image, cut, BeidouRules))

(* Workers of any kind, in the groups gs.                                   *)
PlainSession(gs) ==
  Session("plain", <<>>, {}, [i \in DOMAIN gs |-> Worker("plain", "rtk", "main")], gs, FALSE)

(* The parameters for which upgrade_framework of a provider sets a flag.    *)
Selectable == {"rtk", "ins", "sdk", "sdk_2", "imu_boot", "imu"}

(* The files and flags are any.  An SDK worker of the serial provider, and  *)
(* workers of any kind, come as they are.                                   *)
ASSUME SessionsAssumption ==
  /\ FIRMWARE \notin {BEFORE_ALL, AFTER_ALL, None}
  /\ \A s \in Sessions :
       /\ s.image \in Seq(STRING)
       /\ \/ /\ DOMAIN s.groups = DOMAIN s.team /\ s.wanted = {}
             /\ \A i \in DOMAIN s.team : s.team[i].kind \in {"plain", "sdk"} /\ s.team[i].core \in {"main", "imu"}
          \/ \E flags \in SUBSET Selectable, cut \in BOOLEAN : s = EthernetSession(s.image, flags, cut)
          \/ \E cut \in BOOLEAN : s = BeidouSession(s.image, cut)

VARIABLES
  session,     \* a member of Sessions
  snRecent,    \* the serial number is one of a unit that acknowledges
  acks,        \* what get_unit_ethernet_ack_flag has returned
  inBootloader, \* is_in_bootloader: the unit was found in its bootloader
  bootVersion, \* bootloader_version of the provider
  core,        \* where the cores are, "app" or "boot"
  step,        \* of a jump worker: "begin", "try", "after"
  attempt,     \* commands it has sent
  slow,        \* acknowledgements of jumps may come late
  lateAcks,    \* acknowledgements that nobody has read yet
  installed,   \* parts that were written completely
  jumped,      \* history: cores that a worker has sent to their bootloader
  unheard      \* history: cores whose jump back was not acknowledged

unitVars    == <<session, snRecent, slow, acks, inBootloader, bootVersion, core, step, attempt,
                 lateAcks, installed, jumped, unheard>>
sessionVars == <<vars, sdkVars, unitVars>>

team     == session.team
Job(t)   == team[Executor(t)]
OnEthernet == session.provider = "ethernet"
Uses(kind) == \E i \in DOMAIN team : team[i].kind = kind

(***************************************************************************)
(* get_unit_ethernet_ack_flag is asked when the workers are built, before  *)
(* the first jump tells bootloader_version: only the serial number counts. *)
(***************************************************************************)
AckFlag == snRecent \/ bootVersion = "known"

(* A version that is not known cannot be compared.                          *)
MainUnknown(w) == OnEthernet /\ w.core = "main" /\ bootVersion = "none"

Acks(w) == ~OnEthernet \/ w.core = "imu" \/ acks

SessionInit ==
  /\ session \in Sessions
  /\ Init /\ groups = session.groups
  /\ SdkInit /\ (link = "serial" <=> session.provider = "serial")
  /\ unit = "recent" \/ Uses("sdk")
  /\ slow \in (IF "late" \in LinkFaults /\ Uses("write") /\ ~Uses("sdk") THEN BOOLEAN ELSE {FALSE})
  /\ inBootloader \in (IF OnEthernet THEN BOOLEAN ELSE {FALSE})
  /\ core = [c \in {"main", "imu"} |-> IF c = "main" /\ inBootloader THEN "boot" ELSE "app"]
  /\ snRecent \in (IF OnEthernet /\ Uses("write") THEN BOOLEAN ELSE {TRUE})
  /\ bootVersion = "none" /\ acks = AckFlag
  /\ step = "begin" /\ attempt = 0 /\ lateAcks = {}
  /\ installed = {} /\ jumped = {} /\ unheard = {}

-----------------------------------------------------------------------------
(* The center.                                                              *)

(* The parser of the file raises.                                           *)
PrepareFails == session.raising /\ PrepareError /\ UNCHANGED <<sdkVars, unitVars>>

Begin == ~session.raising /\ Start /\ UNCHANGED <<sdkVars, unitVars>>

CenterTurn(t) == CenterStep(t) /\ UNCHANGED <<sdkVars, unitVars>>

(* stop() of a worker.                                                      *)
StopTurn(t) ==
  /\ StopWorkers(t)
  /\ sdkStopped' = (sdkStopped \/ \E w \in stopped' \ stopped : team[w].kind = "sdk")
  /\ UNCHANGED <<stageVars, version, chipVars, runVars, unitVars>>

Working(t, kind) == pc[t] = "working" /\ Job(t).kind = kind
Jumping(t) == Working(t, "jumpBoot") \/ Working(t, "jumpApp")

PlainTurn(t) ==
  /\ Working(t, "plain")
  /\ WorkerStep(t)
  /\ UNCHANGED <<sdkVars, unitVars>>

-----------------------------------------------------------------------------
(* SDK workers.                                                             *)

SdkTurn(t) ==
  /\ Working(t, "sdk")
  /\ SdkWork
  /\ UNCHANGED <<vars, unitVars>>

(* The next SDK worker is for another chip.                                 *)
SdkFinished(t) ==
  /\ Working(t, "sdk") /\ sdkPc = "finished"
  /\ Finish(t)
  /\ installed' = IF Sent \subseteq flash THEN installed \cup {Job(t).part} ELSE installed
  /\ sdkPc' = "stage" /\ pos' = 1 /\ block' = FirstBlock /\ trial' = 0
  /\ version' = "recent"
  /\ wire' = <<>> /\ replies' = <<>> /\ did' = {} /\ flash' = {}
  /\ UNCHANGED <<sdkStopped, runVars, session, snRecent, slow, acks, inBootloader, bootVersion, core, step, attempt,
                 lateAcks, jumped, unheard>>

SdkFailed(t) ==
  /\ Working(t, "sdk")
  /\ \/ sdkPc = "failed" /\ Fail(t)
     \/ sdkPc = "returned" /\ Return(t)
  /\ UNCHANGED <<sdkVars, unitVars>>

Chip == (\E t \in Threads : Working(t, "sdk")) /\ SdkLink /\ UNCHANGED <<vars, unitVars>>

-----------------------------------------------------------------------------
(* Jump workers.                                                            *)

(* work() of both: BEFORE_COMMAND, which tries to shake hands, and          *)
(* reset_buffer, which drops what has come.                                 *)
JumpBegin(t) ==
  /\ Jumping(t) /\ step = "begin"
  /\ step' = "try"
  /\ lateAcks' \in {{}, lateAcks}
  /\ UNCHANGED <<vars, sdkVars, session, snRecent, slow, acks, inBootloader, bootVersion, core, attempt, installed,
                 jumped, unheard>>

(* wait_timeout_after_command; a jump to the bootloader of the IMU is tried *)
(* five times in each of three rounds.                                      *)
AtMost(n) == IF n < MaxJumps THEN n ELSE MaxJumps
RoundsOf(w) == OnEthernet /\ w.kind = "jumpBoot" /\ w.core = "imu"
JumpTries(w) ==
  CASE ~Acks(w) \/ session.provider = "beidou" -> 1
    [] RoundsOf(w)                             -> AtMost(5)
    [] w.kind = "jumpBoot"                     -> IF inBootloader THEN 1 ELSE AtMost(3)
    [] OTHER                                   -> AtMost(IF w.core = "main" THEN 4 ELSE 3)
AllTries(w) == JumpTries(w) * IF RoundsOf(w) THEN AtMost(3) ELSE 1

Target(w) == IF w.kind = "jumpBoot" THEN "boot" ELSE "app"
Ack(w)    == <<w.kind, w.core>>

(* A command to a core, and the system reset, may or may not arrive.        *)
Put(cores, c, mode) == {[cores EXCEPT ![c] = mode]} \cup IF "loss" \in LinkFaults THEN {cores} ELSE {}

(* The command is written and its acknowledgement waited for.  That may     *)
(* come too late: for the next one, perhaps, that waits for the same.  At   *)
(* the end of a round the unit is reset.                                    *)
JumpTry(t) ==
  LET w       == Job(t)
      lasts   == attempt + 1 = AllTries(w)
      resets  == RoundsOf(w) /\ (attempt + 1) % JumpTries(w) = 0
  IN  /\ Jumping(t) /\ step = "try" /\ attempt < AllTries(w)
      /\ attempt' = attempt + 1
      /\ \E new \in Put(core, w.core, Target(w)), answer \in {"prompt", "lost", "late"} :
           LET read  == Ack(w) \in lateAcks \/ (new[w.core] = Target(w) /\ answer = "prompt")
               acked == Acks(w) /\ read
           IN  /\ answer = "lost" => "loss" \in LinkFaults
               /\ answer = "late" => slow /\ new[w.core] = Target(w)
               /\ lateAcks' = (lateAcks \ {Ack(w)}) \cup
                              (IF answer = "late" /\ ~acked THEN {Ack(w)} ELSE {})
               /\ core' \in IF resets /\ ~acked THEN Put(new, "main", "app") ELSE {new}
               /\ step' = IF acked \/ ~Acks(w) \/ (lasts /\ w.kind = "jumpApp")
                          THEN "after" ELSE step
               /\ unheard' = IF acked \/ w.kind = "jumpBoot" THEN unheard \ {w.core}
                             ELSE unheard \cup {w.core}
      /\ jumped' = jumped \cup {w.core}
      /\ UNCHANGED <<vars, sdkVars, session, snRecent, slow, acks, inBootloader, bootVersion, installed>>

(* "jump bootloader fail": ERROR, and os._exit.                             *)
JumpFails(t) ==
  /\ Jumping(t) /\ step = "try" /\ attempt = AllTries(Job(t))
  /\ Fail(t)
  /\ UNCHANGED <<sdkVars, unitVars>>

(* AFTER_COMMAND.  The Ethernet provider pings a main core that went to its *)
(* bootloader, and the process ends if there is no answer; the cores that   *)
(* went back are waited for, the IMU's are followed by a reset.  The beidou *)
(* provider pings until there is an answer, which takes the application.    *)
After(w) ==
  CASE OnEthernet /\ Ack(w) = <<"jumpBoot", "main">> ->
         bootVersion' \in {"none", "known"} /\ UNCHANGED core
    [] OnEthernet /\ Ack(w) = <<"jumpApp", "imu">> ->
         /\ core' \in Put(core, IF w.part = "imu_boot" THEN "main" ELSE "imu", "app")
         /\ UNCHANGED bootVersion
    [] ~OnEthernet /\ w.kind = "jumpApp" ->
         core[w.core] = "app" /\ UNCHANGED <<core, bootVersion>>
    [] OTHER -> UNCHANGED <<core, bootVersion>>

JumpAfter(t) ==
  /\ Jumping(t) /\ step = "after"
  /\ After(Job(t))
  /\ step' = "begin" /\ attempt' = 0
  /\ Finish(t)
  /\ UNCHANGED <<sdkVars, session, snRecent, slow, acks, inBootloader, lateAcks, installed, jumped,
                 unheard>>

NoAnswer(t) ==
  /\ Jumping(t) /\ step = "after"
  /\ OnEthernet /\ Ack(Job(t)) = <<"jumpBoot", "main">> /\ "loss" \in LinkFaults
  /\ Exit(t)
  /\ UNCHANGED <<sdkVars, unitVars>>

-----------------------------------------------------------------------------
(* Firmware workers: a part is written by a core in its bootloader.  With   *)
(* acknowledgements the worker fails when they do not come; without them it *)
(* does not know.                                                           *)
WriteTurn(t) ==
  LET w == Job(t)
  IN  /\ Working(t, "write") /\ written[Executor(t)] = 0
      /\ ~MainUnknown(w)
      /\ Acks(w) => core[w.core] = "boot"
      /\ Write(t)
      /\ installed' \in {installed \cup IF core[w.core] = "boot" THEN {w.part} ELSE {}}
                        \cup IF Acks(w) THEN {} ELSE {installed}
      /\ UNCHANGED <<sdkVars, session, snRecent, slow, acks, inBootloader, bootVersion, core, step,
                     attempt, lateAcks, jumped, unheard>>

WriteFinished(t) ==
  /\ Working(t, "write") /\ written[Executor(t)] > 0
  /\ Finish(t)
  /\ UNCHANGED <<sdkVars, unitVars>>

(* The worker emits ERROR when a block is not acknowledged, and also when   *)
(* before_write_content raises, for a version that is unknown or, in the    *)
(* RTK provider, a unit that refuses the core; that of the Ethernet         *)
(* provider ends the process then.                                          *)
WriteFails(t) ==
  LET w == Job(t)
  IN  /\ Working(t, "write") /\ written[Executor(t)] = 0
      /\ \/ MainUnknown(w) /\ Fail(t)
         \/ /\ ~MainUnknown(w) /\ Acks(w)
            /\ core[w.core] = "app" \/ "loss" \in LinkFaults
            /\ Fail(t) \/ (OnEthernet /\ w.core = "main" /\ Exit(t))
      /\ UNCHANGED <<sdkVars, unitVars>>

-----------------------------------------------------------------------------
WorkerTurn(t) ==
  \/ PlainTurn(t)
  \/ SdkTurn(t) \/ SdkFinished(t) \/ SdkFailed(t)
  \/ JumpBegin(t) \/ JumpTry(t) \/ JumpFails(t) \/ JumpAfter(t) \/ NoAnswer(t)
  \/ WriteTurn(t) \/ WriteFinished(t) \/ WriteFails(t)

Turn(t) == CenterTurn(t) \/ StopTurn(t) \/ WorkerTurn(t)

SessionNext ==
  ~exited /\ (PrepareFails \/ Begin \/ Chip \/ \E t \in Threads : Turn(t))

(* Every thread goes on, and so do the unit and the link.                   *)
SessionSpec ==
  /\ SessionInit /\ [][SessionNext]_sessionVars
  /\ WF_sessionVars(~exited /\ (PrepareFails \/ Begin))
  /\ WF_sessionVars(~exited /\ Chip)
  /\ \A t \in Threads : WF_sessionVars(~exited /\ Turn(t))

-----------------------------------------------------------------------------
(* Properties.                                                              *)

(* A part is written while its core is in its bootloader: the jump workers  *)
(* are where they belong in the list, the center runs the list in order,    *)
(* and a jump that is reported has taken place - if the unit acknowledges,  *)
(* and in time.                                                             *)
WrittenInBoot ==
  \A t \in Threads :
    Working(t, "write") /\ written[Executor(t)] = 0 /\ Acks(Job(t)) /\ ~slow
      => core[Job(t).core] = "boot"

(* FINISH means that every part of the file that was asked for is in the    *)
(* unit: no part is overlooked when the file is split, none is left out of  *)
(* the list of workers or written where it has no effect.  The parts must   *)
(* be those of the unit, in their order, and the unit acknowledge, in time. *)
PartOrder(provider) ==
  IF provider = "beidou" THEN BeidouRules ELSE <<"rtk", "ins", "sdk", "imu_boot", "imu">>
InOrder(s) ==
  LET order == PartOrder(s.provider)
  IN  \A i \in DOMAIN s.image : \E p \in DOMAIN order :
        /\ s.image[i] = order[p]
        /\ \A j \in 1..i - 1 : \E q \in 1..p - 1 : s.image[j] = order[q]

EveryPartInstalled ==
  finishes > 0 /\ InOrder(session) /\ acks /\ ~late /\ ~slow /\ unit = "recent"
    => session.wanted \subseteq installed

(* After FINISH a core that was sent to its bootloader is back in its       *)
(* application, unless the jump back was never acknowledged, which no       *)
(* worker calls an error; after an upgrade through the beidou provider it   *)
(* is in any case.                                                          *)
BackInApplication ==
  finishes > 0 => \A c \in jumped : core[c] = "app" \/ (OnEthernet /\ (c \in unheard \/ slow))

(* An upgrade comes to its end, with FINISH or with the process: somebody   *)
(* notices that the last worker is done, however the threads interleave.    *)
(* But a thread dies when its worker raises, and a beidou unit that stays   *)
(* in its bootloader is pinged for ever.  It takes a worker that is neither *)
(* BEFORE_ALL nor AFTER_ALL, and, when several threads are followed by      *)
(* AFTER_ALL workers, luck: two threads may both find themselves the last.  *)
SessionEnds ==
  Normal # {} /\ (OneThread \/ Members("after") = {}) ~>
    \/ finishes > 0 \/ exited
    \/ \E t \in Threads : pc[t] = "dead"
    \/ session.provider = "beidou" /\ \E c \in {"main", "imu"} : core[c] = "boot"
=============================================================================
