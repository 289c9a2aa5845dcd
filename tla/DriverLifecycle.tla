-------------------------- MODULE DriverLifecycle --------------------------
(***************************************************************************)
(* The driver, the provider it keeps and the message centers the provider  *)
(* opens one after the other: a device is searched for, set up, lost,      *)
(* searched for again, and looked for once more after each upgrade.        *)
(*                                                                         *)
(* All of this runs in threads that call each other's handlers: the        *)
(* thread of the command line detects the device and takes commands; the   *)
(* checker of a center hears of a read error and does the whole recovery   *)
(* inside its loop; the last thread of an upgrade does the search after    *)
(* it.  They share the one provider, which the device manager keeps, and   *)
(* no lock covers it.  A center is reduced here to its reader and its      *)
(* checker (CenterThreads has the rest), an upgrade to its end             *)
(* (UpgradeSession has the rest).                                          *)
(***************************************************************************)
EXTENDS Naturals, FiniteSets

CONSTANTS
  Interfaces,   \* a subset of {"uart", "assigned", "ethernet"}: "assigned" is
                \* a serial port that the user named
  MaxCenters,   \* bound: message centers the provider may open
  MaxUpgrades,  \* bound: upgrades the user starts
  MaxFaults     \* bound: times the link breaks

ASSUME DriverAssumption ==
  /\ Interfaces \subseteq {"uart", "assigned", "ethernet"}
  /\ MaxCenters \in Nat \ {0} /\ MaxUpgrades \in Nat /\ MaxFaults \in Nat

Retries  == 2             \* find_device after an upgrade
None     == 0             \* no message center
Centers  == 1..MaxCenters
Upgrades == 1..MaxUpgrades

Main       == <<"main", 0>>
Checker(c) == <<"checker", c>>
Upgrade(u) == <<"upgrade", u>>
Threads    == {Main} \cup {Checker(c) : c \in Centers} \cup {Upgrade(u) : u \in Upgrades}

VARIABLES
  interface,      \* how the device is connected
  answers,        \* the device answers a ping
  faults,         \* times the link has broken
  th,             \* what each thread does: where it is, why it searches, tries
  present,        \* the driver has a provider: _device_provider is not None
  withException,  \* _with_exception of the driver
  messageCenter,  \* _message_center of the provider, or None
  listeners,      \* handlers the driver has put on each event of the provider
  isUpgrading, isLogging,
  logOpen,        \* the provider's logger has its files open
  center,         \* the message centers
  asked,          \* the center that has the command of the command line
  told,           \* history: what the driver said of each upgrade
  disturbed,      \* history: a recovery has reset the provider during an upgrade
  lostFiles,      \* history: loggers given up with their files open
  hurried,        \* history: a log was started during a recovery or an upgrade
  exited          \* os._exit

link     == <<interface, answers, faults>>
provider == <<present, withException, messageCenter, listeners, isUpgrading, isLogging, logOpen>>
history  == <<told, disturbed, lostFiles, hurried>>
vars     == <<link, th, provider, center, asked, history, exited>>

(* Kept apart: the threads' places that are searches, and those at an end.  *)
Places == {"no", "find", "found", "load", "setup", "listen", "idle", "ask", "poll", "write",
           "gone", "raised"}
At(place)         == [at |-> place, why |-> "no", tried |-> 0]
Search(why)       == [at |-> "find", why |-> why, tried |-> 0]
Searching(t)      == th[t].at \in {"find", "found", "load", "setup", "listen"}
Busy(t)           == th[t].at = "write" \/ Searching(t)
Go(t, place)      == th' = [th EXCEPT ![t].at = place]

(* Where a handler returns to: the command line, the loop of the checker,   *)
(* which looks at the stop flag next, or the end of the upgrade's thread.   *)
Caller(t) ==
  CASE t[1] = "main"    -> At("idle")
    [] t[1] = "checker" -> At(IF center[t[2]].stop THEN "gone" ELSE "poll")
    [] OTHER            -> At("gone")
Return(t) == th' = [th EXCEPT ![t] = Caller(t)]

NoCenter == [readers |-> 0, pause |-> FALSE, stop |-> FALSE, exc |-> FALSE, late |-> FALSE]

Init ==
  /\ interface \in Interfaces /\ answers \in BOOLEAN /\ faults = 0
  /\ th = [t \in Threads |-> IF t = Main THEN Search("detect") ELSE At("no")]
  /\ present = FALSE /\ withException = FALSE /\ messageCenter = None /\ listeners = 0
  /\ isUpgrading = FALSE /\ isLogging = FALSE /\ logOpen = FALSE
  /\ center = [c \in Centers |-> NoCenter]
  /\ asked = None
  /\ told = [u \in Upgrades |-> "no"] /\ disturbed = FALSE /\ lostFiles = 0 /\ hurried = FALSE
  /\ exited = FALSE

-----------------------------------------------------------------------------
(* The device and the link                                                  *)

(* The device stops answering, as when it restarts, and answers again.      *)
FallSilent ==
  /\ answers /\ faults < MaxFaults
  /\ answers' = FALSE /\ faults' = faults + 1
  /\ UNCHANGED <<interface, th, provider, center, asked, history, exited>>

AnswerAgain ==
  /\ ~answers /\ answers' = TRUE
  /\ UNCHANGED <<interface, faults, th, provider, center, asked, history, exited>>

Reads(c) == center[c].readers > 0 /\ ~center[c].pause /\ ~center[c].stop /\ ~center[c].exc

(* A read of a serial port raises.  On Ethernet a read takes from the       *)
(* receive cache after a look at its length, and raises when somebody else  *)
(* empties the cache in between: an upgrade, or the start of a search.  A   *)
(* paused or stopped center may have one read under way.                    *)
ReadRaises(c) ==
  /\ faults < MaxFaults /\ ~exited
  /\ Reads(c) \/ (center[c].readers > 0 /\ center[c].late)
  /\ interface = "ethernet" => \E t \in Threads : th[t].at \in {"write", "find"}
  /\ center' = [center EXCEPT ![c].exc = TRUE, ![c].readers = @ - 1, ![c].late = FALSE]
  /\ faults' = faults + 1
  /\ UNCHANGED <<interface, answers, th, provider, asked, history, exited>>

LateReadEnds(c) ==
  /\ center[c].late /\ center' = [center EXCEPT ![c].late = FALSE]
  /\ UNCHANGED <<link, th, provider, asked, history, exited>>

ReaderEnds(c) ==
  /\ center[c].readers > 0 /\ ~center[c].late /\ (center[c].exc \/ center[c].stop)
  /\ center' = [center EXCEPT ![c].readers = @ - 1]
  /\ UNCHANGED <<link, th, provider, asked, history, exited>>

-----------------------------------------------------------------------------
(* The provider                                                             *)

Paused(cs, c)  == [cs EXCEPT ![c].pause = TRUE, ![c].late = @ \/ Reads(c)]
Resumed(cs, c) == [cs EXCEPT ![c].exc = FALSE, ![c].pause = FALSE]
Unstopped(cs, c) == cs    \* a mistake: the old center goes on
Stopped(cs, c) == [cs EXCEPT ![c].stop = TRUE, ![c].late = @ \/ Reads(c)]

(* reset: the client's flags, the log and the listeners of the provider.    *)
(* (Before it, two forms that a mistake could give it.)                     *)
ResetKeepingListeners ==
  isUpgrading' = FALSE /\ isLogging' = FALSE /\ logOpen' = FALSE /\ UNCHANGED listeners
ResetKeepingLog ==
  isUpgrading' = FALSE /\ isLogging' = FALSE /\ UNCHANGED logOpen /\ listeners' = 0
ResetFlags ==
  /\ isUpgrading' = FALSE /\ isLogging' = FALSE /\ logOpen' = FALSE /\ listeners' = 0

(* close, where there is a center: without one, resume() is called on None. *)
(* (Before it, the center stays the provider's.)                            *)
CloseKeepingCenter ==
  /\ ResetFlags /\ center' = Stopped(Resumed(center, messageCenter), messageCenter)
  /\ UNCHANGED messageCenter
CloseProvider ==
  /\ ResetFlags
  /\ center' = Stopped(Resumed(center, messageCenter), messageCenter)
  /\ messageCenter' = None

(* A new FileLoger takes the place of the one before, open or not.          *)
NewLogger == /\ logOpen' = FALSE
             /\ lostFiles' = lostFiles + (IF logOpen THEN 1 ELSE 0)

Unused == {c \in Centers : th[Checker(c)].at = "no"}

(* _setup_message_center: a center with its three threads; the one that is  *)
(* there already gets a receiver and a parser more.                         *)
SetupCenter(t) ==
  IF messageCenter # None
  THEN /\ center' = [center EXCEPT ![messageCenter].readers = @ + 1]
       /\ Go(t, "setup") /\ UNCHANGED messageCenter
  ELSE /\ Unused # {}
       /\ LET c == CHOOSE c \in Unused : TRUE
          IN  /\ messageCenter' = c
              /\ center' = [center EXCEPT ![c].readers = 1]
              /\ th' = [th EXCEPT ![t].at = "setup", ![Checker(c)] = At("poll")]

(* A command is done with when the device answers it, or when the checker   *)
(* finds its time is over; there is no other end.                           *)
Served(c) == \/ Reads(c) /\ answers
             \/ th[Checker(c)].at = "poll"

-----------------------------------------------------------------------------
(* Communicator.find_device                                                 *)

FoundOnLastTry(t) ==
  /\ interface = "uart" /\ th[t].why = "restart" /\ th[t].tried + 1 >= Retries

FindHit(t) ==
  /\ ~exited /\ th[t].at = "find" /\ answers
  /\ IF FoundOnLastTry(t) THEN Return(t) ELSE Go(t, "found")
  /\ UNCHANGED <<link, provider, center, asked, history, exited>>

(* On Ethernet the program ends, on a port named by the user find_device    *)
(* raises in the thread that searches.                                      *)
FindEnds(t) ==
  /\ ~exited /\ th[t].at = "find" /\ ~answers
  /\ \/ interface = "ethernet" /\ exited' = TRUE /\ UNCHANGED th
     \/ interface = "assigned" /\ Go(t, "raised") /\ UNCHANGED exited
  /\ UNCHANGED <<link, provider, center, asked, history>>

FindMiss(t) ==
  /\ ~exited /\ th[t].at = "find" /\ th[t].why = "restart" /\ ~answers /\ interface = "uart"
  /\ th[t].tried + 1 < Retries
  /\ th' = [th EXCEPT ![t].tried = @ + 1]
  /\ UNCHANGED <<link, provider, center, asked, history, exited>>

(* _device_not_found_handler: the provider is closed, the user is told, and *)
(* the device is searched for without end.                                  *)
NotFound(t) ==
  /\ ~exited /\ th[t].at = "find" /\ th[t].why = "restart" /\ ~answers /\ interface = "uart"
  /\ th[t].tried + 1 >= Retries
  /\ IF messageCenter = None
     THEN /\ Go(t, "raised")
          /\ UNCHANGED <<provider, center, told>>
     ELSE /\ CloseProvider /\ present' = FALSE
          /\ told' = [told EXCEPT ![t[2]] = "failed"]
          /\ th' = [th EXCEPT ![t] = Search("lost")]
          /\ UNCHANGED withException
  /\ UNCHANGED <<link, asked, disturbed, lostFiles, hurried, exited>>

-----------------------------------------------------------------------------
(* _device_discover_handler                                                 *)

Discover(t) ==
  /\ ~exited /\ th[t].at = "found" /\ th[t].why # "restart"
  /\ IF ~withException
     THEN Go(t, "load") /\ UNCHANGED <<provider, center, disturbed>>
     ELSE IF messageCenter = None
          THEN Go(t, "raised") /\ UNCHANGED <<provider, center, disturbed>>
          ELSE /\ CloseProvider /\ withException' = FALSE /\ Go(t, "load")
               /\ disturbed' = (disturbed \/ isUpgrading)
               /\ UNCHANGED present
  /\ UNCHANGED <<link, asked, told, lostFiles, hurried, exited>>

(* _load_device_provider up to the commands of after_setup ...              *)
Load(t) ==
  /\ ~exited /\ th[t].at = "load"
  /\ present' = TRUE /\ NewLogger /\ SetupCenter(t)
  /\ UNCHANGED <<link, withException, listeners, isUpgrading, isLogging, asked, told, disturbed,
                 hurried, exited>>

(* ... these commands; without a center they raise, which is caught ...     *)
SetupDone(t) ==
  /\ ~exited /\ th[t].at = "setup" /\ th[t].why # "restart"
  /\ messageCenter # None => Served(messageCenter)
  /\ Go(t, "listen")
  /\ UNCHANGED <<link, provider, center, asked, history, exited>>

(* ... and only then does the driver listen to the provider.                *)
Listen(t) ==
  /\ ~exited /\ th[t].at = "listen"
  /\ listeners' = listeners + 1
  /\ Return(t)
  /\ UNCHANGED <<link, present, withException, messageCenter, isUpgrading, isLogging, logOpen,
                 center, asked, history, exited>>

-----------------------------------------------------------------------------
(* _device_upgrade_restart_handler                                          *)

UpgradeCompleted(t) ==
  /\ ~exited /\ th[t].at = "found" /\ th[t].why = "restart"
  /\ present' = TRUE /\ isUpgrading' = FALSE /\ NewLogger
  /\ IF messageCenter = None
     THEN Go(t, "raised") /\ UNCHANGED center
     ELSE Go(t, "setup") /\ center' = Resumed(center, messageCenter)
  /\ UNCHANGED <<link, withException, messageCenter, listeners, isLogging, asked, told, disturbed,
                 hurried, exited>>

UpgradeTold(t) ==
  /\ ~exited /\ th[t].at = "setup" /\ th[t].why = "restart"
  /\ messageCenter # None => Served(messageCenter)
  /\ told' = [told EXCEPT ![t[2]] = "finished"]
  /\ Return(t)
  /\ UNCHANGED <<link, provider, center, asked, disturbed, lostFiles, hurried, exited>>

-----------------------------------------------------------------------------
(* The checker of a center                                                  *)

(* _handle_device_exception, called with the exception lock held; where the *)
(* driver has no provider or the provider no center, it raises.             *)
HearException(c) ==
  /\ ~exited /\ th[Checker(c)].at = "poll" /\ center[c].exc /\ listeners > 0
  /\ withException' = TRUE
  /\ disturbed' = (disturbed \/ isUpgrading)
  /\ IF present /\ messageCenter # None
     THEN /\ ResetFlags /\ center' = Resumed(center, messageCenter)
          /\ th' = [th EXCEPT ![Checker(c)] = Search("exception")]
     ELSE /\ Go(Checker(c), "raised")
          /\ UNCHANGED <<center, isUpgrading, isLogging, logOpen, listeners>>
  /\ UNCHANGED <<link, present, messageCenter, asked, told, lostFiles, hurried, exited>>

(* (Before it, the loop of the checker ends on an error, as those of the    *)
(* receiver and the parser do.)                                             *)
CheckerEndsOnError(c) ==
  /\ th[Checker(c)].at = "poll" /\ (center[c].stop \/ center[c].exc)
  /\ Go(Checker(c), "gone")
  /\ UNCHANGED <<link, provider, center, asked, history, exited>>
CheckerEnds(c) ==
  /\ th[Checker(c)].at = "poll" /\ center[c].stop /\ ~(center[c].exc /\ listeners > 0)
  /\ Go(Checker(c), "gone")
  /\ UNCHANGED <<link, provider, center, asked, history, exited>>

-----------------------------------------------------------------------------
(* The command line                                                         *)

Command == ~exited /\ th[Main].at = "idle" /\ present

StartDataLog ==
  /\ Command /\ ~isLogging /\ ~logOpen
  /\ isLogging' = TRUE /\ logOpen' = TRUE
  /\ hurried' = (hurried \/ \E t \in Threads : Busy(t))
  /\ UNCHANGED <<link, th, present, withException, messageCenter, listeners, isUpgrading, center,
                 asked, told, disturbed, lostFiles, exited>>

StopDataLog ==
  /\ Command /\ isLogging
  /\ isLogging' = FALSE /\ logOpen' = FALSE
  /\ UNCHANGED <<link, th, present, withException, messageCenter, listeners, isUpgrading, center,
                 asked, history, exited>>

(* upgrade_framework, up to the start of the upgrade center; without a      *)
(* message center it raises after isUpgrading is set, which the command     *)
(* line catches.  The log stops, is_logging is left as it is.               *)
UpgradeFramework(u) ==
  /\ Command /\ ~isUpgrading
  /\ th[Upgrade(u)].at = "no" /\ \A v \in 1..u-1 : th[Upgrade(v)].at # "no"
  /\ isUpgrading' = TRUE
  /\ IF messageCenter = None
     THEN UNCHANGED <<th, center, logOpen>>
     ELSE /\ center' = Paused(center, messageCenter)
          /\ logOpen' = FALSE
          /\ th' = [th EXCEPT ![Upgrade(u)] = At("write")]
  /\ UNCHANGED <<link, present, withException, messageCenter, listeners, isLogging, asked, history,
                 exited>>

(* A command to the device, from the command line.                          *)
Ask ==
  /\ Command /\ messageCenter # None
  /\ asked' = messageCenter /\ Go(Main, "ask")
  /\ UNCHANGED <<link, provider, center, history, exited>>

Answered ==
  /\ ~exited /\ th[Main].at = "ask" /\ Served(asked)
  /\ asked' = None /\ Go(Main, "idle")
  /\ UNCHANGED <<link, provider, center, history, exited>>

-----------------------------------------------------------------------------
(* The end of an upgrade                                                    *)

(* handle_upgrade_error: the program ends; without a center it raises first *)
UpgradeError(u) ==
  /\ ~exited /\ th[Upgrade(u)].at = "write"
  /\ isUpgrading' = FALSE
  /\ IF messageCenter = None
     THEN Go(Upgrade(u), "raised") /\ UNCHANGED <<center, told, exited>>
     ELSE /\ center' = Resumed(center, messageCenter)
          /\ told' = IF listeners > 0 THEN [told EXCEPT ![u] = "failed"] ELSE told
          /\ exited' = TRUE /\ UNCHANGED th
  /\ UNCHANGED <<link, present, withException, messageCenter, listeners, isLogging, logOpen, asked,
                 disturbed, lostFiles, hurried>>

(* handle_upgrade_complete and restart: nothing, if a reset has come in     *)
(* between.                                                                 *)
UpgradeComplete(u) ==
  /\ ~exited /\ th[Upgrade(u)].at = "write"
  /\ th' = [th EXCEPT ![Upgrade(u)] =
              IF isUpgrading /\ listeners > 0 THEN Search("restart") ELSE At("gone")]
  /\ UNCHANGED <<link, provider, center, asked, history, exited>>

-----------------------------------------------------------------------------
FindStep(t) == FindHit(t) \/ FindEnds(t) \/ FindMiss(t) \/ NotFound(t) \/ Discover(t) \/ Load(t) \/ SetupDone(t)
               \/ Listen(t) \/ UpgradeCompleted(t) \/ UpgradeTold(t)
UpgradeStep(u) == UpgradeError(u) \/ UpgradeComplete(u)
CommandStep == StartDataLog \/ StopDataLog \/ Ask \/ \E u \in Upgrades : UpgradeFramework(u)
CenterStep(c) == ReaderEnds(c) \/ LateReadEnds(c) \/ HearException(c) \/ CheckerEnds(c)
LinkStep == FallSilent \/ AnswerAgain \/ \E c \in Centers : ReadRaises(c)

Next ==
  \/ LinkStep
  \/ \E t \in Threads : FindStep(t)
  \/ \E c \in Centers : CenterStep(c)
  \/ \E u \in Upgrades : UpgradeStep(u)
  \/ CommandStep \/ Answered

(* Every thread goes on, and the device answers again each time.  Nothing   *)
(* makes the user act.                                                      *)
Fairness ==
  /\ WF_vars(AnswerAgain)
  /\ \A t \in Threads : WF_vars(FindStep(t))
  /\ \A c \in Centers : WF_vars(CenterStep(c))
  /\ \A u \in Upgrades : WF_vars(UpgradeStep(u))
  /\ WF_vars(Answered)

Spec == Init /\ [][Next]_vars /\ Fairness

-----------------------------------------------------------------------------
Raised == \E t \in Threads : th[t].at = "raised"

(* Types; a search after an upgrade makes Retries tries.                    *)
DriverTypeOK ==
  /\ interface \in Interfaces /\ answers \in BOOLEAN /\ faults \in Nat
  /\ th \in [Threads -> [at : Places, why : {"no", "detect", "exception", "restart", "lost"},
                         tried : 0..Retries - 1]]
  /\ present \in BOOLEAN /\ withException \in BOOLEAN
  /\ isUpgrading \in BOOLEAN /\ isLogging \in BOOLEAN /\ logOpen \in BOOLEAN
  /\ messageCenter \in {None} \cup Centers /\ asked \in {None} \cup Centers
  /\ listeners \in Nat /\ lostFiles \in Nat
  /\ center \in [Centers -> [readers : Nat, pause : BOOLEAN, stop : BOOLEAN, exc : BOOLEAN,
                             late : BOOLEAN]]
  /\ told \in [Upgrades -> {"no", "failed", "finished"}]
  /\ disturbed \in BOOLEAN /\ hurried \in BOOLEAN /\ exited \in BOOLEAN

(* Whenever nobody is in the middle of a search, the provider the driver    *)
(* has tells it of errors, upgrades and data, and tells it once: listeners  *)
(* are put on the same, kept provider again with every discovery            *)
(* (driver.py, _load_device_provider), and only reset() takes them off.     *)
(* Two recoveries at a time, after a read error in an upgrade, break this.  *)
DriverListens ==
  ~disturbed => /\ listeners <= 1
                /\ present /\ ~Raised /\ (\A t \in Threads : ~Searching(t)) => listeners = 1

(* The link has one user: an upgrade, or the receiver of one center, over   *)
(* all reconnections and upgrades.  The exception is a recovery that meets  *)
(* an upgrade: it resumes the center and clears is_upgrading, and upgrade   *)
(* workers know nothing of it (provider_base.py, reset).                    *)
Writers == {u \in Upgrades : th[Upgrade(u)].at = "write"}
Readers == {c \in Centers : Reads(c)}
OneUser ==
  ~disturbed /\ ~exited => /\ Cardinality(Writers) + Cardinality(Readers) <= 1
                           /\ \A c \in Centers : center[c].readers <= 1

(* No log is given up with its files open, and the status LOGGING means     *)
(* that there are files, unless the user starts the log during a recovery   *)
(* or an upgrade, or upgrades while it runs: upgrade_framework stops the    *)
(* log and leaves is_logging.                                               *)
LogKept ==
  ~hurried => /\ lostFiles = 0
              /\ isLogging /\ (\A u \in Upgrades : th[Upgrade(u)].at = "no") => logOpen

(* A device that was lost is found again and listened to, with a center     *)
(* that runs; only the end of the program or an exception in the thread     *)
(* that searches prevents it.                                               *)
Connected ==
  ~withException /\ listeners > 0 /\ \E c \in Centers : c = messageCenter /\ ~center[c].stop
Reconnects == withException ~> (Connected \/ exited \/ Raised)

(* A command that was issued before an error comes to an end in spite of    *)
(* the recovery, which keeps the checker from timing out anything: either   *)
(* the checker is back in its loop in the end, or the recovery has closed   *)
(* the center the command was put to, whose commands are given up, or has   *)
(* raised in its checker.                                                   *)
CommandReturns ==
  th[Main].at = "ask" ~>
    \/ th[Main].at = "idle" \/ exited
    \/ \E c \in Centers : asked = c /\ (center[c].stop \/ th[Checker(c)].at = "raised")

(* find_device finds the device, "then" invokes its callback                *)
(* (communicator.py): an upgrade that ends well is told so, or that the     *)
(* device is lost.                                                          *)
UpgradeAnswered ==
  \A u \in Upgrades :
    th[Upgrade(u)].at = "write" ~> (told[u] # "no" \/ exited \/ Raised \/ disturbed)
=============================================================================
