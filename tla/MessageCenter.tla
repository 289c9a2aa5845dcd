--------------------------- MODULE MessageCenter ---------------------------
(***************************************************************************)
(* The command pipeline of DeviceMessageCenter: how a command issued by a  *)
(* provider method becomes a DeviceMessage, is run or queued, answered by  *)
(* the device or timed out, and how the answer gets back to the caller     *)
(* through the module-level variable generator_result of the decorator     *)
(* with_device_message.                                                    *)
(*                                                                         *)
(* No lock protects the pipeline, so every read and every write of a       *)
(* shared attribute is a step of its own.  The threads are the callers     *)
(* (CLI loop, driver, mount-angle thread), the parser thread, which runs   *)
(* on_command_receive, and the checker thread, which runs timeout_check.   *)
(* run(), run_post() and finish() are executed by whichever thread calls   *)
(* them; the actions of these methods are therefore parameterised by t.    *)
(***************************************************************************)
EXTENDS Naturals, Sequences, FiniteSets, Functions

CONSTANTS
  Callers,   \* threads that issue commands through with_device_message
  Parser,    \* the thread running thread_parser
  Checker,   \* the thread running thread_running_checker
  MaxCalls,  \* bound: commands issued by each caller
  Faults,    \* what the environment may do, a subset of FaultKinds
  None       \* Python's None

(***************************************************************************)
(* "silent": the device may never answer a command; "late": it may answer  *)
(* after the timeout; "write": communicator.write may raise; "stop":       *)
(* provider.close may stop the center; "preempt": threads may be switched  *)
(* between any two steps, and not only where they sleep or do I/O.         *)
(***************************************************************************)
FaultKinds == {"silent", "late", "write", "stop", "preempt"}

Threads  == Callers \cup {Parser, Checker}
Messages == Callers \X (1..MaxCalls)
Results  == [of : Messages, timeout : BOOLEAN]

ASSUME MessageCenterAssumption ==
  /\ Parser # Checker
  /\ {Parser, Checker} \cap Callers = {}
  /\ MaxCalls \in Nat
  /\ Faults \subseteq FaultKinds
  /\ None \notin Messages \cup Results

VARIABLES
  isRunning,        \* DeviceMessageCenter._is_running
  runningMessage,   \* DeviceMessageCenter._running_message
  prerunQueue,      \* DeviceMessageCenter.prerun_queue
  isStop,           \* DeviceMessageCenter._is_stop
  started,          \* messages whose _start_time is set
  finished,         \* messages whose _is_finished is set
  generatorResult,  \* the global generator_result of decorator.py
  pc,               \* where each thread is
  msg,              \* the message a thread works on (self / message)
  answer,           \* the keyword arguments a thread passes to finish()
  calls,            \* number of commands each caller has issued
  received,         \* history: what each command returned to its caller
  written,          \* history: commands handed to communicator.write
  atDevice,         \* commands the device has not disposed of yet
  lost,             \* commands the device will never answer
  inbox,            \* answers read by the receiver, not yet parsed
  expired           \* messages older than their timeout

centerVars == <<isRunning, runningMessage, prerunQueue, started, finished>>
callerVars == <<generatorResult, calls, received>>
deviceVars == <<written, atDevice, lost, inbox, expired>>
threadVars == <<pc, msg, answer>>
vars == <<centerVars, isStop, callerVars, deviceVars, threadVars>>

-----------------------------------------------------------------------------
(* Program counters. "enqueue" .. "write" are request_run and run; "check"  *)
(* .. "emit" are finish; "post" .. "get" are run_post.                      *)
RunPc    == {"mark", "assign", "stamp", "write"}
FinishPc == {"check", "set", "emit", "post", "goIdle", "get"} \cup RunPc
CallerPc == {"ready", "request", "enqueue", "wait", "take"} \cup RunPc
ParserPc == {"loop", "exited", "dead"} \cup FinishPc
CheckerPc == {"span", "unfinished", "command", "expire"} \cup ParserPc

(* A thread holds a message that it is going to queue or to run. *)
Holds(t, m) == msg[t] = m /\ pc[t] \in {"request", "enqueue"} \cup RunPc

Goto(t, label) == pc' = [pc EXCEPT ![t] = label]

(* Where a thread goes when it has left run() or run_post(). *)
Home(t) == IF t \in Callers THEN "wait" ELSE "loop"

(* Without "preempt", a thread enters the pipeline only while every other   *)
(* thread sleeps, is outside of it, or does I/O: the writing of a command   *)
(* and the logging of a timeout.                                            *)
RestPc == {"ready", "wait", "loop", "write", "command", "exited", "dead"}
MayEnter(t) ==
  "preempt" \in Faults \/ \A u \in Threads \ {t} : pc[u] \in RestPc

Init ==
  /\ isRunning = FALSE
  /\ runningMessage = None
  /\ prerunQueue = <<>>
  /\ isStop = FALSE
  /\ started = {} /\ finished = {}
  /\ generatorResult = None
  /\ pc = [t \in Threads |-> IF t \in Callers THEN "ready" ELSE "loop"]
  /\ msg = [t \in Threads |-> None]
  /\ answer = [t \in Threads |-> None]
  /\ calls = [c \in Callers |-> 0]
  /\ received = [m \in Messages |-> None]
  /\ written = {} /\ atDevice = {} /\ lost = {} /\ expired = {}
  /\ inbox = <<>>

-----------------------------------------------------------------------------
(* Faulty variants of operations below, each with one defect; they show     *)
(* that the properties at the end of the module can fail.                   *)

(* the wrapper does not wipe generator_result *)
CallBeginKeepingResult(c) ==
  /\ pc[c] = "ready" /\ calls[c] < MaxCalls /\ MayEnter(c)
  /\ calls' = [calls EXCEPT ![c] = @ + 1]
  /\ msg' = [msg EXCEPT ![c] = <<c, calls[c] + 1>>]
  /\ Goto(c, "request")
  /\ UNCHANGED <<centerVars, isStop, generatorResult, deviceVars, answer, received>>

(* request_run never queues *)
RequestRunAlways(c) ==
  /\ pc[c] = "request"
  /\ Goto(c, "mark")
  /\ UNCHANGED <<centerVars, isStop, callerVars, deviceVars, msg, answer>>

(* run does not set _is_running *)
RunWithoutMark(t) ==
  /\ pc[t] = "mark"
  /\ Goto(t, "assign")
  /\ UNCHANGED <<centerVars, isStop, callerVars, deviceVars, msg, answer>>

(* run_post forgets the message when it goes idle *)
RunPostIdleForgetting(t) ==
  /\ pc[t] = "goIdle"
  /\ isRunning' = FALSE /\ runningMessage' = None
  /\ Goto(t, Home(t))
  /\ UNCHANGED <<prerunQueue, started, finished, isStop,
                 callerVars, deviceVars, msg, answer>>

(* run_post gets without asking whether the queue is empty *)
RunPostWithoutTest(t) ==
  /\ pc[t] = "post"
  /\ Goto(t, "get")
  /\ UNCHANGED <<centerVars, isStop, callerVars, deviceVars, msg, answer>>

(* run_post clears the queue when it goes idle *)
RunPostIdleClearing(t) ==
  /\ pc[t] = "goIdle"
  /\ isRunning' = FALSE /\ prerunQueue' = <<>>
  /\ Goto(t, Home(t))
  /\ UNCHANGED <<runningMessage, started, finished, isStop,
                 callerVars, deviceVars, msg, answer>>

(* run_post runs the head of the queue and leaves it there *)
RunPostPeek(t) ==
  /\ pc[t] = "get" /\ prerunQueue # <<>>
  /\ msg' = [msg EXCEPT ![t] = Head(prerunQueue)]
  /\ Goto(t, "mark")
  /\ UNCHANGED <<centerVars, isStop, callerVars, deviceVars, answer>>

(* timeout_check does not compare the age of the message *)
TimeoutSpanIgnored ==
  /\ pc[Checker] = "span"
  /\ Goto(Checker, IF runningMessage \notin started THEN "dead" ELSE "unfinished")
  /\ UNCHANGED <<centerVars, isStop, callerVars, deviceVars, msg, answer>>

-----------------------------------------------------------------------------
(* with_device_message: the caller.                                         *)

(* The wrapper wipes generator_result, builds the message and sends it.     *)
CallBegin(c) ==
  /\ pc[c] = "ready" /\ calls[c] < MaxCalls /\ MayEnter(c)
  /\ calls' = [calls EXCEPT ![c] = @ + 1]
  /\ msg' = [msg EXCEPT ![c] = <<c, calls[c] + 1>>]
  /\ generatorResult' = None
  /\ Goto(c, "request")
  /\ UNCHANGED <<centerVars, isStop, deviceVars, answer, received>>

(* request_run reads _is_running and decides between queueing and running.  *)
RequestRun(c) ==
  /\ pc[c] = "request"
  /\ Goto(c, IF isRunning THEN "enqueue" ELSE "mark")
  /\ UNCHANGED <<centerVars, isStop, callerVars, deviceVars, msg, answer>>

RequestPut(c) ==
  /\ pc[c] = "enqueue"
  /\ prerunQueue' = Append(prerunQueue, msg[c])
  /\ Goto(c, "wait")
  /\ UNCHANGED <<isRunning, runningMessage, started, finished, isStop,
                 callerVars, deviceVars, msg, answer>>

(* check_result leaves its polling loop once generator_result is set ...    *)
ResultSeen(c) ==
  /\ pc[c] = "wait" /\ generatorResult # None /\ MayEnter(c)
  /\ Goto(c, "take")
  /\ UNCHANGED <<centerVars, isStop, callerVars, deviceVars, msg, answer>>

(* ... and reads it again to send it to the generator: another caller may   *)
(* have wiped it in between, and the call then returns None.                *)
ResultTake(c) ==
  /\ pc[c] = "take"
  /\ received' = [received EXCEPT ![msg[c]] = generatorResult]
  /\ Goto(c, "ready")
  /\ UNCHANGED <<centerVars, isStop, generatorResult, calls, deviceVars,
                 msg, answer>>

-----------------------------------------------------------------------------
(* run(message), executed by thread t.                                      *)

RunMark(t) ==
  /\ pc[t] = "mark"
  /\ isRunning' = TRUE
  /\ Goto(t, "assign")
  /\ UNCHANGED <<runningMessage, prerunQueue, started, finished, isStop,
                 callerVars, deviceVars, msg, answer>>

RunAssign(t) ==
  /\ pc[t] = "assign"
  /\ runningMessage' = msg[t]
  /\ Goto(t, "stamp")
  /\ UNCHANGED <<isRunning, prerunQueue, started, finished, isStop,
                 callerVars, deviceVars, msg, answer>>

RunStamp(t) ==
  /\ pc[t] = "stamp"
  /\ started' = started \cup {msg[t]}
  /\ Goto(t, "write")
  /\ UNCHANGED <<isRunning, runningMessage, prerunQueue, finished, isStop,
                 callerVars, deviceVars, msg, answer>>

RunWrite(t) ==
  /\ pc[t] = "write"
  /\ written' = written \cup {msg[t]}
  /\ atDevice' = atDevice \cup {msg[t]}
  /\ Goto(t, Home(t))
  /\ UNCHANGED <<centerVars, isStop, callerVars, lost, inbox, expired,
                 msg, answer>>

(* communicator.write raises: a caller's command method fails with the      *)
(* exception, the parser and the checker thread end.                        *)
RunWriteRaises(t) ==
  /\ "write" \in Faults
  /\ pc[t] = "write"
  /\ written' = written \cup {msg[t]}
  /\ lost' = lost \cup {msg[t]}
  /\ Goto(t, IF t \in Callers THEN "ready" ELSE "dead")
  /\ UNCHANGED <<centerVars, isStop, callerVars, atDevice, inbox, expired,
                 msg, answer>>

-----------------------------------------------------------------------------
(* message.finish(...) followed by run_post(), executed by thread t.        *)

FinishTest(t) ==
  /\ pc[t] = "check"
  /\ Goto(t, IF msg[t] \in finished THEN "post" ELSE "set")
  /\ UNCHANGED <<centerVars, isStop, callerVars, deviceVars, msg, answer>>

FinishSet(t) ==
  /\ pc[t] = "set"
  /\ finished' = finished \cup {msg[t]}
  /\ Goto(t, "emit")
  /\ UNCHANGED <<isRunning, runningMessage, prerunQueue, started, isStop,
                 callerVars, deviceVars, msg, answer>>

(* The 'finished' listener is on_resolve: it sets generator_result.         *)
FinishEmit(t) ==
  /\ pc[t] = "emit"
  /\ generatorResult' = answer[t]
  /\ Goto(t, "post")
  /\ UNCHANGED <<centerVars, isStop, calls, received, deviceVars, msg, answer>>

RunPostTest(t) ==
  /\ pc[t] = "post"
  /\ Goto(t, IF prerunQueue = <<>> THEN "goIdle" ELSE "get")
  /\ UNCHANGED <<centerVars, isStop, callerVars, deviceVars, msg, answer>>

RunPostIdle(t) ==
  /\ pc[t] = "goIdle"
  /\ isRunning' = FALSE
  /\ Goto(t, Home(t))
  /\ UNCHANGED <<runningMessage, prerunQueue, started, finished, isStop,
                 callerVars, deviceVars, msg, answer>>

(* Queue.get() blocks while the queue is empty. *)
RunPostGet(t) ==
  /\ pc[t] = "get" /\ prerunQueue # <<>>
  /\ msg' = [msg EXCEPT ![t] = Head(prerunQueue)]
  /\ prerunQueue' = Tail(prerunQueue)
  /\ Goto(t, "mark")
  /\ UNCHANGED <<isRunning, runningMessage, started, finished, isStop,
                 callerVars, deviceVars, answer>>

-----------------------------------------------------------------------------
(* thread_running_checker and timeout_check.  _running_message is read      *)
(* again for each use.                                                      *)

TimeoutBegin ==
  /\ pc[Checker] = "loop" /\ ~isStop /\ isRunning /\ MayEnter(Checker)
  /\ Goto(Checker, "span")
  /\ UNCHANGED <<centerVars, isStop, callerVars, deviceVars, msg, answer>>

(* get_timeout() of None or the subtraction of a None start time raises,    *)
(* and nothing catches it: the checker thread ends.                         *)
TimeoutSpan ==
  /\ pc[Checker] = "span"
  /\ Goto(Checker, IF runningMessage \notin started THEN "dead"
                   ELSE IF runningMessage \in expired THEN "unfinished"
                   ELSE "loop")
  /\ UNCHANGED <<centerVars, isStop, callerVars, deviceVars, msg, answer>>

TimeoutUnfinished ==
  /\ pc[Checker] = "unfinished"
  /\ Goto(Checker, IF runningMessage \in finished THEN "loop" ELSE "command")
  /\ UNCHANGED <<centerVars, isStop, callerVars, deviceVars, msg, answer>>

TimeoutCommand ==
  /\ pc[Checker] = "command" /\ MayEnter(Checker)
  /\ answer' = [answer EXCEPT ![Checker] =
                  [of |-> runningMessage, timeout |-> TRUE]]
  /\ Goto(Checker, "expire")
  /\ UNCHANGED <<centerVars, isStop, callerVars, deviceVars, msg>>

TimeoutFinish ==
  /\ pc[Checker] = "expire"
  /\ msg' = [msg EXCEPT ![Checker] = runningMessage]
  /\ Goto(Checker, "check")
  /\ UNCHANGED <<centerVars, isStop, callerVars, deviceVars, answer>>

CheckerExit ==
  /\ pc[Checker] = "loop" /\ isStop
  /\ Goto(Checker, "exited")
  /\ UNCHANGED <<centerVars, isStop, callerVars, deviceVars, msg, answer>>

-----------------------------------------------------------------------------
(* thread_parser and on_command_receive.                                    *)

(* A parsed answer finishes whatever message is running; with no message    *)
(* yet, only run_post is called.                                            *)
OnCommandReceive ==
  /\ pc[Parser] = "loop" /\ ~isStop /\ inbox # <<>> /\ MayEnter(Parser)
  /\ inbox' = Tail(inbox)
  /\ answer' = [answer EXCEPT ![Parser] =
                  [of |-> Head(inbox), timeout |-> FALSE]]
  /\ IF runningMessage = None
     THEN Goto(Parser, "post") /\ UNCHANGED msg
     ELSE Goto(Parser, "check") /\ msg' = [msg EXCEPT ![Parser] = runningMessage]
  /\ UNCHANGED <<centerVars, isStop, callerVars,
                 written, atDevice, lost, expired>>

ParserExit ==
  /\ pc[Parser] = "loop" /\ isStop
  /\ Goto(Parser, "exited")
  /\ UNCHANGED <<centerVars, isStop, callerVars, deviceVars, msg, answer>>

Stop ==
  /\ "stop" \in Faults /\ ~isStop
  /\ isStop' = TRUE
  /\ UNCHANGED <<centerVars, callerVars, deviceVars, threadVars>>

-----------------------------------------------------------------------------
(* The device and time.                                                     *)

DeviceAnswers(m) ==
  /\ m \in atDevice
  /\ atDevice' = atDevice \ {m}
  /\ inbox' = Append(inbox, m)
  /\ UNCHANGED <<centerVars, isStop, callerVars, threadVars,
                 written, lost, expired>>

DeviceSilent(m) ==
  /\ "silent" \in Faults
  /\ m \in atDevice
  /\ atDevice' = atDevice \ {m}
  /\ lost' = lost \cup {m}
  /\ UNCHANGED <<centerVars, isStop, callerVars, threadVars,
                 written, inbox, expired>>

(* The timeout of a started message passes; unless "late" is among the      *)
(* faults, that happens only to a command that will not be answered.        *)
Expire(m) ==
  /\ m \in started \ expired
  /\ m \in lost \/ "late" \in Faults
  /\ expired' = expired \cup {m}
  /\ UNCHANGED <<centerVars, isStop, callerVars, threadVars,
                 written, atDevice, lost, inbox>>

-----------------------------------------------------------------------------
CallerStep(c) ==
  \/ CallBegin(c) \/ RequestRun(c) \/ RequestPut(c)
  \/ ResultSeen(c) \/ ResultTake(c)

RunStep(t) ==
  RunMark(t) \/ RunAssign(t) \/ RunStamp(t) \/ RunWrite(t) \/ RunWriteRaises(t)

FinishStep(t) ==
  \/ FinishTest(t) \/ FinishSet(t) \/ FinishEmit(t)
  \/ RunPostTest(t) \/ RunPostIdle(t) \/ RunPostGet(t)

CheckerStep ==
  \/ TimeoutBegin \/ TimeoutSpan \/ TimeoutUnfinished \/ TimeoutCommand
  \/ TimeoutFinish \/ CheckerExit

ParserStep == OnCommandReceive \/ ParserExit

DeviceStep(m) == DeviceAnswers(m) \/ DeviceSilent(m)

Next ==
  \/ \E c \in Callers : CallerStep(c)
  \/ \E t \in Threads : RunStep(t)
  \/ \E t \in {Parser, Checker} : FinishStep(t)
  \/ CheckerStep \/ ParserStep \/ Stop
  \/ \E m \in Messages : DeviceStep(m) \/ Expire(m)

Spec == Init /\ [][Next]_vars

(***************************************************************************)
(* Every thread that can move does, the device disposes of every command   *)
(* and time passes.  The steps that MayEnter guards are strongly fair: the *)
(* loops of the other threads sleep in every turn, so that a thread that   *)
(* waits for its turn gets it.  Issuing a command and stopping are not     *)
(* fair.                                                                   *)
(***************************************************************************)
Fairness ==
  /\ \A c \in Callers :
       SF_vars(RequestRun(c) \/ RequestPut(c) \/ ResultSeen(c) \/ ResultTake(c))
  /\ \A t \in Threads : WF_vars(RunStep(t))
  /\ \A t \in {Parser, Checker} : WF_vars(FinishStep(t))
  /\ SF_vars(CheckerStep) /\ SF_vars(ParserStep)
  /\ \A m \in Messages : WF_vars(DeviceStep(m)) /\ WF_vars(Expire(m))

FairSpec == Spec /\ Fairness

-----------------------------------------------------------------------------
(* Properties.                                                              *)

(* Every attribute of the center and every local of its threads has its     *)
(* type: in particular the checker and the parser only finish messages that *)
(* were built by a caller.                                                  *)
TypeOK ==
  /\ isRunning \in BOOLEAN /\ isStop \in BOOLEAN
  /\ runningMessage \in Messages \cup {None}
  /\ prerunQueue \in Seq(Messages)
  /\ started \subseteq Messages /\ finished \subseteq Messages
  /\ generatorResult \in Results \cup {None}
  /\ pc \in [Threads -> CheckerPc \cup CallerPc]
  /\ \A c \in Callers : pc[c] \in CallerPc
  /\ pc[Parser] \in ParserPc /\ pc[Checker] \in CheckerPc
  /\ msg \in [Threads -> Messages \cup {None}]
  /\ answer \in [Threads -> Results \cup {None}]
  /\ calls \in [Callers -> 0..MaxCalls]
  /\ received \in [Messages -> Results \cup {None}]
  /\ written \subseteq Messages /\ atDevice \subseteq Messages
  /\ lost \subseteq Messages /\ expired \subseteq Messages
  /\ inbox \in Seq(Messages)

Requested == {m \in Messages : m[2] <= calls[m[1]]}

(* The parts of the inductive invariant behind NothingDropped and           *)
(* RunAtMostOnce: a thread that is about to use its message or the running  *)
(* one has one; what is queued, held or written was issued.                 *)
LocalsSet ==
  /\ \A t \in Threads :
       pc[t] \in {"request", "enqueue", "wait", "take", "check", "set", "emit"} \cup RunPc
         => msg[t] \in Messages
  /\ pc[Checker] \in {"unfinished", "command", "expire"} => runningMessage \in Messages

OnlyIssued ==
  /\ Range(prerunQueue) \cup written \subseteq Requested
  /\ \A t \in Threads : \A m \in Messages : Holds(t, m) => m \in Requested

(* A command that was issued is never dropped by the center: it was handed  *)
(* to the communicator, waits in prerun_queue or is in the hands of a       *)
(* thread, whatever fails and however request_run, run_post and the checker *)
(* interleave.                                                              *)
NothingDropped ==
  \A m \in Requested :
    m \in written \/ m \in Range(prerunQueue) \/ \E t \in Threads : Holds(t, m)

(* No command is sent to the device twice: a queued command is queued once  *)
(* and is in nobody's hands, two threads never run the same message, and    *)
(* neither a queued nor a held command has been written already.            *)
RunAtMostOnce ==
  /\ IsInjective(prerunQueue)
  /\ Range(prerunQueue) \cap written = {}
  /\ \A t \in Threads : \A m \in Messages :
       Holds(t, m) => /\ m \notin Range(prerunQueue) \cup written
                      /\ \A u \in Threads \ {t} : ~Holds(u, m)

(* At most one command is between write() and on_command_receive, and while *)
(* one is, _is_running says so: a new command is queued behind it.          *)
OneInFlight ==
  LET inFlight == atDevice \cup Range(inbox)
  IN  Cardinality(inFlight) <= 1 /\ (inFlight # {} => isRunning)

(* Of a caller that has been alone, an answer goes astray only behind an    *)
(* earlier command that timed out: until one has, a command method returns  *)
(* its own answer, or the timeout of its own command once that has passed,  *)
(* whatever fails and however the threads interleave.                       *)
OwnUnlessTimeout ==
  \A c \in Callers : (\A d \in Callers \ {c} : calls[d] = 0) =>
    \A m \in {c} \X (1..MaxCalls) : received[m] # None =>
      \/ received[m].of = m /\ (received[m].timeout => m \in expired)
      \/ \E e \in expired : e[2] < m[2]

(* The parser and the checker are never both blocked in the Queue.get() of  *)
(* run_post, although each may find the queue emptied by the other after    *)
(* its empty(): one of them is left to serve the commands to come.          *)
AtMostOneBlocks ==
  ~(pc[Parser] = "get" /\ pc[Checker] = "get" /\ prerunQueue = <<>>)

(* Every command that reaches the communicator is finished in the end, by   *)
(* its answer or by the checker, unless the checker thread died.            *)
WrittenFinishes ==
  \A m \in Messages :
    m \in written ~> (m \in finished \/ pc[Checker] = "dead")

(* The pipeline implements CommandService: the active command is the one    *)
(* written and not finished.                                                *)
Service == INSTANCE CommandService WITH
  Commands  <- Messages,
  submitted <- Requested,
  active    <- IF written \subseteq finished THEN None
               ELSE CHOOSE m \in Messages : m \in written \ finished,
  silent    <- lost,
  done      <- finished,
  returned  <- received

(* Every command method returns, with its own answer or with a timeout only *)
(* if the device did not answer; commands are served one at a time.         *)
ServesCommands == Service!Spec
=============================================================================
