--------------------------- MODULE UpgradeCenter ---------------------------
(***************************************************************************)
(* UpgradeCenter: the workers of an upgrade are split into groups, the     *)
(* BEFORE_ALL ones run first, a thread runs each named group in order and  *)
(* a thread each of the workers without a group; whoever finishes the last *)
(* of these runs the AFTER_ALL ones.  The first error stops every worker   *)
(* and, through the provider, ends the process.                            *)
(*                                                                         *)
(* A worker is here what it is to the center: it may report its progress,  *)
(* finishes, fails or ends the process, and does nothing once stopped;     *)
(* UpgradeSession has the workers of the providers in its place.  stop()   *)
(* of the center has no caller.                                            *)
(***************************************************************************)
EXTENDS Integers, Sequences, FiniteSetsExt

CONSTANTS
  Registrations,  \* the sequences of workers to register, as their groups
  BEFORE_ALL, AFTER_ALL,
  None,           \* the group of a worker that has none
  Size,           \* bound: progress a worker reports, the size of its content
  Faults          \* a subset of {"error", "raise"}: a worker emits ERROR or ends
                  \* the process, or its work() raises, as a write of it may

ASSUME UpgradeCenterAssumption ==
  /\ \A r \in Registrations : r \in Seq({r[w] : w \in DOMAIN r})
  /\ BEFORE_ALL # AFTER_ALL /\ None \notin {BEFORE_ALL, AFTER_ALL}
  /\ Size \in Nat
  /\ Faults \subseteq {"error", "raise"}

VARIABLES
  groups,      \* the group of every registered worker
  stopped,     \* workers whose _is_stopped is set
  written,     \* what every worker has written
  reported,    \* workers[..]['current']
  current,     \* self.current
  bar,         \* history: the sum of the steps given to the progress bar
  status,      \* lengths of before_run_status, run_status, after_run_status
  pc,          \* where every thread is
  todo,        \* the workers a thread is still to call
  last,        \* last_current of handle_worker_progress
  ended,       \* history: workers that have finished
  finishes,    \* history: number of FINISH events
  exited       \* the process has ended

progressVars == <<written, reported, current, bar, last>>
vars == <<groups, stopped, progressVars, status, pc, todo, ended, finishes, exited>>

(* Threads are named by the worker they begin with; 0 is that of start().   *)
Threads == {0} \cup UNION {DOMAIN r : r \in Registrations}
Workers == DOMAIN groups

(* split_workers: groupby puts neighbours of the same group together, and   *)
(* of several BEFORE_ALL or AFTER_ALL runs the last one is kept.            *)
Between(u, v, w) == (v <= u /\ u <= w) \/ (w <= u /\ u <= v)
SameRun(v, w) == \A u \in Workers : Between(u, v, w) => groups[u] = groups[w]
LastRun(g) ==
  {w \in Workers : groups[w] = g /\ \A v \in Workers : v > w /\ groups[v] = g => SameRun(v, w)}
Normal == {w \in Workers : groups[w] \notin {BEFORE_ALL, AFTER_ALL}}

(* The workers that the thread beginning with w calls, if there is one.     *)
Group(w) ==
  IF w \notin Normal THEN {}
  ELSE IF groups[w] = None THEN {w}
  ELSE IF \E v \in Workers : v < w /\ SameRun(v, w) THEN {}
  ELSE {v \in Workers : SameRun(v, w)}

Kind(w) ==
  CASE groups[w] = BEFORE_ALL -> "before"
    [] groups[w] = AFTER_ALL  -> "after"
    [] OTHER                  -> "normal"
Members(kind) ==
  CASE kind = "before" -> LastRun(BEFORE_ALL)
    [] kind = "after"  -> LastRun(AFTER_ALL)
    [] OTHER           -> Normal

Init ==
  /\ groups \in Registrations
  /\ stopped = {}
  /\ written = [w \in Workers |-> 0] /\ reported = [w \in Workers |-> 0]
  /\ current = 0 /\ bar = 0
  /\ last = [t \in Threads |-> 0]
  /\ status = [kind \in {"before", "normal", "after"} |-> 0]
  /\ pc = [t \in Threads |-> IF t = 0 THEN "start" ELSE "idle"]
  /\ todo = [t \in Threads |-> {}]
  /\ ended = {} /\ finishes = 0
  /\ exited = FALSE

Goto(t, label) == pc' = [pc EXCEPT ![t] = label]

(* The worker thread t is calling; a thread calls its workers in order.     *)
Executor(t) == Min(todo[t])

(* normal_run starts the threads of the groups; thread t itself goes on     *)
(* with ws.                                                                 *)
NormalRun(t, ws) ==
  LET new == {u \in Workers : Group(u) # {}}
  IN  /\ pc' = [u \in Threads |-> IF u = t \/ u \in new THEN "next" ELSE pc[u]]
      /\ todo' = [u \in Threads |-> IF u = t THEN ws
                                    ELSE IF u \in new THEN Group(u) ELSE todo[u]]

-----------------------------------------------------------------------------
(* Faulty variants of operations below, each with one defect; they show     *)
(* that the properties at the end of the module can fail.                   *)

(* before_run and normal_run both run at the start *)
StartBoth ==
  /\ pc[0] = "start"
  /\ NormalRun(0, LastRun(BEFORE_ALL))
  /\ UNCHANGED <<groups, stopped, progressVars, status, ended, finishes, exited>>

(* a worker that was stopped is counted as done *)
ReturnCounted(t) ==
  /\ pc[t] = "working" /\ Executor(t) \in stopped
  /\ status' = [status EXCEPT ![Kind(Executor(t))] = @ + 1]
  /\ Goto(t, "test")
  /\ UNCHANGED <<groups, stopped, progressVars, todo, ended, finishes, exited>>

(* the lengths are compared before the worker is appended: in an order in   *)
(* which they never are equal                                               *)
DoneAppendLate(t) ==
  /\ pc[t] = "append"
  /\ ended' = ended \cup {Executor(t)}
  /\ status' = [status EXCEPT ![Kind(Executor(t))] = @ + 1]
  /\ todo' = [todo EXCEPT ![t] = @ \ {Executor(t)}]
  /\ Goto(t, "next")
  /\ UNCHANGED <<groups, stopped, progressVars, finishes, exited>>

(* FINISH is emitted before the AFTER_ALL workers are run *)
DoneTestFinishing(t) ==
  LET kind == Kind(Executor(t))
      all  == status[kind] = Cardinality(Members(kind))
      rest == todo[t] \ {Executor(t)}
  IN  /\ pc[t] = "test"
      /\ finishes' = IF all /\ kind # "before" THEN finishes + 1 ELSE finishes
      /\ IF all /\ kind = "before" THEN NormalRun(t, rest)
         ELSE /\ Goto(t, "next")
              /\ todo' = [todo EXCEPT ![t] =
                   IF all /\ kind = "normal" THEN rest \cup Members("after") ELSE rest]
      /\ UNCHANGED <<groups, stopped, progressVars, status, ended, exited>>

(* self.current is not reset *)
ProgressBeginKept(t) ==
  /\ pc[t] = "report"
  /\ last' = [last EXCEPT ![t] = current]
  /\ Goto(t, "sum")
  /\ UNCHANGED <<groups, stopped, written, reported, current, bar, status, todo,
                 ended, finishes, exited>>

-----------------------------------------------------------------------------
Start ==
  /\ pc[0] = "start"
  /\ IF LastRun(BEFORE_ALL) = {}
     THEN NormalRun(0, {})
     ELSE Goto(0, "next") /\ todo' = [todo EXCEPT ![0] = LastRun(BEFORE_ALL)]
  /\ UNCHANGED <<groups, stopped, progressVars, status, ended, finishes, exited>>

(* There is nothing to start: the workers could not be built, and           *)
(* handle_upgrade_error of the provider ends the process.                   *)
PrepareError ==
  /\ pc[0] = "start"
  /\ exited' = TRUE
  /\ UNCHANGED <<groups, stopped, progressVars, status, pc, todo, ended, finishes>>

(* work() of the next worker; a stopped one returns at once.                *)
Work(t) ==
  /\ pc[t] = "next" /\ todo[t] # {}
  /\ IF Executor(t) \in stopped
     THEN todo' = [todo EXCEPT ![t] = @ \ {Executor(t)}] /\ UNCHANGED pc
     ELSE Goto(t, "working") /\ UNCHANGED todo
  /\ UNCHANGED <<groups, stopped, progressVars, status, ended, finishes, exited>>

ThreadEnds(t) ==
  /\ pc[t] = "next" /\ todo[t] = {}
  /\ Goto(t, "ended")
  /\ UNCHANGED <<groups, stopped, progressVars, status, todo, ended, finishes, exited>>

(* The worker writes a block; PROGRESS is listened to for normal workers.   *)
Write(t) ==
  /\ pc[t] = "working" /\ written[Executor(t)] < Size
  /\ written' = [written EXCEPT ![Executor(t)] = @ + 1]
  /\ IF Executor(t) \in Normal THEN Goto(t, "report") ELSE UNCHANGED pc
  /\ UNCHANGED <<groups, stopped, reported, current, bar, last, status, todo,
                 ended, finishes, exited>>

(* handle_worker_progress resets self.current without data_lock, ...        *)
ProgressBegin(t) ==
  /\ pc[t] = "report"
  /\ last' = [last EXCEPT ![t] = current]
  /\ current' = 0
  /\ Goto(t, "sum")
  /\ UNCHANGED <<groups, stopped, written, reported, bar, status, todo,
                 ended, finishes, exited>>

(* ... adds up under it, here in one step, ...                              *)
ProgressSum(t) ==
  /\ pc[t] = "sum"
  /\ reported' = [reported EXCEPT ![Executor(t)] = written[Executor(t)]]
  /\ current' = current + SumFunction(reported')
  /\ Goto(t, "step")
  /\ UNCHANGED <<groups, stopped, written, bar, last, status, todo, ended,
                 finishes, exited>>

(* ... and hands the difference to the progress bar.                        *)
ProgressStep(t) ==
  /\ pc[t] = "step"
  /\ bar' = (bar + current) - last[t]
  /\ Goto(t, "working")
  /\ UNCHANGED <<groups, stopped, written, reported, current, last, status,
                 todo, ended, finishes, exited>>

(* FINISH of a worker: handle_..._done appends it to its list ...           *)
Finish(t) ==
  /\ pc[t] = "working"
  /\ Goto(t, "append")
  /\ UNCHANGED <<groups, stopped, progressVars, status, todo, ended, finishes, exited>>

DoneAppend(t) ==
  /\ pc[t] = "append"
  /\ ended' = ended \cup {Executor(t)}
  /\ status' = [status EXCEPT ![Kind(Executor(t))] = @ + 1]
  /\ Goto(t, "test")
  /\ UNCHANGED <<groups, stopped, progressVars, todo, finishes, exited>>

(* ... and reads its length again: the last one starts what comes next.     *)
DoneTest(t) ==
  LET kind == Kind(Executor(t))
      all  == status[kind] = Cardinality(Members(kind))
      rest == todo[t] \ {Executor(t)}
      over == all /\ (kind = "after" \/ (kind = "normal" /\ Members("after") = {}))
  IN  /\ pc[t] = "test"
      /\ finishes' = IF over THEN finishes + 1 ELSE finishes
      /\ IF all /\ kind = "before" THEN NormalRun(t, rest)
         ELSE /\ Goto(t, "next")
              /\ todo' = [todo EXCEPT ![t] =
                   IF all /\ kind = "normal" THEN rest \cup Members("after") ELSE rest]
      /\ UNCHANGED <<groups, stopped, progressVars, status, ended, exited>>

(* A worker that finds itself stopped returns without FINISH.               *)
Return(t) ==
  /\ pc[t] = "working" /\ Executor(t) \in stopped
  /\ todo' = [todo EXCEPT ![t] = @ \ {Executor(t)}]
  /\ Goto(t, "next")
  /\ UNCHANGED <<groups, stopped, progressVars, status, ended, finishes, exited>>

(* ERROR of a worker: handle_worker_error stops them all, one by one; then  *)
(* handle_upgrade_error of the provider ends the process.                   *)
Fail(t) ==
  /\ "error" \in Faults
  /\ pc[t] = "working"
  /\ Goto(t, "stop")
  /\ UNCHANGED <<groups, stopped, progressVars, status, todo, ended, finishes, exited>>

(* An exception that work() does not catch ends the thread, and nobody is   *)
(* told.                                                                    *)
Raise(t) ==
  /\ "raise" \in Faults
  /\ pc[t] = "working"
  /\ Goto(t, "dead")
  /\ UNCHANGED <<groups, stopped, progressVars, status, todo, ended, finishes, exited>>

(* os._exit of a worker or of a hook of its provider.                       *)
Exit(t) ==
  /\ "error" \in Faults
  /\ pc[t] = "working"
  /\ exited' = TRUE
  /\ UNCHANGED <<groups, stopped, progressVars, status, pc, todo, ended, finishes>>

StopWorkers(t) ==
  /\ pc[t] = "stop"
  /\ IF stopped = Workers
     THEN exited' = TRUE /\ UNCHANGED stopped
     ELSE stopped' = stopped \cup {Min(Workers \ stopped)} /\ UNCHANGED exited
  /\ UNCHANGED <<groups, progressVars, status, pc, todo, ended, finishes>>

(* What the code of the center does, and what a worker may do.              *)
CenterStep(t) ==
  \/ Work(t) \/ ThreadEnds(t)
  \/ ProgressBegin(t) \/ ProgressSum(t) \/ ProgressStep(t)
  \/ DoneAppend(t) \/ DoneTest(t)

WorkerStep(t) ==
  \/ Write(t) \/ Finish(t) \/ Return(t)
  \/ Fail(t) \/ Raise(t) \/ Exit(t)

ThreadStep(t) == CenterStep(t) \/ WorkerStep(t) \/ StopWorkers(t)

Next == ~exited /\ (Start \/ PrepareError \/ \E t \in Threads : ThreadStep(t))

Spec == Init /\ [][Next]_vars

-----------------------------------------------------------------------------
(* Properties.                                                              *)

OneThread == Cardinality({w \in Workers : Group(w) # {}}) <= 1

(* The threads run workers that were registered, which report no more than  *)
(* they have; a list gets no more entries than it waits for, but for the    *)
(* one of AFTER_ALL: several threads may each run these workers.            *)
TypeOK ==
  /\ groups \in Registrations
  /\ stopped \subseteq Workers /\ ended \subseteq Workers
  /\ written \in [Workers -> 0..Size] /\ reported \in [Workers -> 0..Size]
  /\ status["before"] <= Cardinality(Members("before"))
  /\ status["normal"] <= Cardinality(Normal)
  /\ \A t \in Threads : todo[t] \subseteq Workers
  /\ pc \in [Threads -> {"start", "idle", "next", "working", "report", "sum", "step",
                         "append", "test", "stop", "ended", "dead"}]
  /\ finishes \in Nat

(* No normal worker is called before every BEFORE_ALL worker has finished,  *)
(* no AFTER_ALL worker before every normal one, and a worker of a named     *)
(* group only when those before it in the group have finished: a firmware   *)
(* part is not written before the device has jumped to its bootloader, and  *)
(* the application is not started before the last part is written.  But     *)
(* workers are stopped one by one: of those that were, the next in the      *)
(* group may still be called.                                               *)
CalledInTurn ==
  \A t \in Threads : pc[t] = "working" =>
    LET w == Executor(t)
    IN  /\ Kind(w) = "normal" => Members("before") \subseteq ended
        /\ Kind(w) = "after" => Normal \subseteq ended
        /\ groups[w] # None => \A v \in Workers : v < w /\ SameRun(v, w) => v \in ended \cup stopped

(* FINISH, upon which the provider restarts the device, means that every    *)
(* worker has finished.  But several threads may all find themselves the    *)
(* last and run the AFTER_ALL workers, each of which is counted for each.   *)
FinishMeansAll ==
  finishes > 0 =>
    /\ Normal \subseteq ended
    /\ OneThread \/ Cardinality(Members("after")) <= 1 => Members("after") \subseteq ended

(* With all workers in one group, as the providers put them, FINISH is      *)
(* emitted once: the device is not restarted a second time.                 *)
FinishOnce == OneThread => finishes <= 1

(* With one thread the steps given to the progress bar add up to what the   *)
(* workers have reported, although self.current is reset and recomputed.    *)
BarAddsUp ==
  OneThread /\ (\A t \in Threads : pc[t] \notin {"sum", "step"})
    => bar = SumFunction(reported) /\ current = bar
=============================================================================
