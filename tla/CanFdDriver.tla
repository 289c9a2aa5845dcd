----------------------------- MODULE CanFdDriver -----------------------------
(***************************************************************************)
(* canfd_app_driver as a whole: listen() opens the bus, asks the unit what *)
(* it is and starts the threads that log and that forward corrections.     *)
(* These two share nothing, and a behaviour follows one of them.  An       *)
(* Ethernet provider, whose NTRIP thread runs from the start, is the other *)
(* program that has an NTRIPClient.                                        *)
(***************************************************************************)
EXTENDS RtcmStream, CanLog

CONSTANTS
  MaxTries   \* try_count of listen()

ASSUME CanFdAssumption == MaxTries \in Nat \ {0}

VARIABLES
  phase,       \* of listen(): "opening", "asking", "parsing"; "none": no CAN
  setUserPara, \* the option set_user_para
  tryCount,    \* try_count
  asked,       \* requests of this try that were sent
  missing,     \* one of them was not answered in time
  watch        \* the thread that is followed: "corrections" or "log"

listenVars == <<phase, setUserPara, tryCount, asked, missing, watch>>
driverVars == <<listenVars, rtcmVars, logVars>>

(* With set_user_para the lever arm that was set is read back first, and    *)
(* then save_device_info asks for the versions and for the lever arm.       *)
Requests == IF setUserPara THEN 5 ELSE 4

(* A bus that cannot be opened is tried again.                              *)
OpenBus ==
  /\ phase = "opening"
  /\ phase' = "asking"
  /\ UNCHANGED <<setUserPara, tryCount, asked, missing, watch, rtcmVars, logVars>>

(* send_and_request(): whatever else comes from the bus is dropped.         *)
Answered ==
  /\ phase = "asking" /\ asked < Requests
  /\ asked' = asked + 1
  /\ UNCHANGED <<phase, setUserPara, tryCount, missing, watch, rtcmVars, logVars>>

(* A result without data: when read back it raises at once, otherwise when  *)
(* all of the results are put together.                                     *)
TimedOut ==
  /\ phase = "asking" /\ asked < Requests
  /\ missing' = TRUE
  /\ asked' = IF setUserPara /\ asked = 0 THEN Requests ELSE asked + 1
  /\ UNCHANGED <<phase, setUserPara, tryCount, watch, rtcmVars, logVars>>

\* mutant: the tries are not counted down
TriesKept == tryCount

TriesLeft == IF missing THEN tryCount - 1 ELSE 0

(* The end of a try; after the last one the threads start in any case.      *)
EndTry ==
  /\ phase = "asking" /\ asked = Requests
  /\ tryCount' = TriesLeft
  /\ asked' = 0 /\ missing' = FALSE
  /\ IF TriesLeft = 0
     THEN /\ phase' = "parsing"
          /\ conn' = IF watch = "corrections" THEN "closed" ELSE conn
     ELSE UNCHANGED <<phase, conn>>
  /\ UNCHANGED <<setUserPara, watch, parserVars, isUpgrading, tcpVars, setting,
                 ledger, bounds, logVars>>

Listen == OpenBus \/ Answered \/ TimedOut \/ EndTry

Corrections == RtcmNext /\ UNCHANGED <<listenVars, logVars>>

LogMessages ==
  /\ phase = "parsing" /\ watch = "log"
  /\ LogNext
  /\ UNCHANGED <<listenVars, rtcmVars>>

Init ==
  /\ RtcmInit /\ LogInit
  /\ IF consumer = "can"
     THEN /\ phase = "opening" /\ conn = "off"
          /\ setUserPara \in BOOLEAN /\ watch \in {"corrections", "log"}
     ELSE /\ phase = "none" /\ conn = "closed"
          /\ setUserPara = FALSE /\ watch = "corrections"
  /\ (watch = "corrections" => kind = 0)
  /\ (watch = "log" => traffic = CHOOSE t \in Traffics : TRUE)
  /\ tryCount = MaxTries /\ asked = 0 /\ missing = FALSE

Next == Listen \/ Corrections \/ LogMessages

(* Threads run on, and the caster answers.                                  *)
Fairness ==
  /\ WF_driverVars(Listen)
  /\ WF_driverVars(ClientStep /\ UNCHANGED <<listenVars, logVars>>)
  /\ WF_driverVars(CasterAnswers /\ UNCHANGED <<listenVars, logVars>>)

Spec == Init /\ [][Next]_driverVars /\ Fairness

(* The client streams again, however often the connection breaks, is denied *)
(* or is spoilt by a sentence sent ahead of the request; and it streams at  *)
(* all although the unit answers none of the requests of listen().          *)
CorrectionsResume ==
  watch = "corrections" /\ conn \in {"closed", "off"} ~> conn = "streaming"
=============================================================================
