--------------------------- MODULE CommandService ---------------------------
(***************************************************************************)
(* What a provider method relies on when it yields a message of            *)
(* DeviceMessageCenter: commands are served one at a time, and each one    *)
(* returns to its caller its own answer, or a timeout if the device did    *)
(* not answer it.                                                          *)
(***************************************************************************)
CONSTANTS Commands, None

VARIABLES
  submitted,  \* commands that were issued
  active,     \* the command the device is working on
  silent,     \* commands the device will not answer
  done,       \* commands that are over
  returned    \* what each command returned

vars == <<submitted, active, silent, done, returned>>

Init ==
  /\ submitted = {} /\ silent = {} /\ done = {}
  /\ active = None
  /\ returned = [m \in Commands |-> None]

Submit(m) ==
  /\ m \notin submitted
  /\ submitted' = submitted \cup {m}
  /\ UNCHANGED <<active, silent, done, returned>>

Start(m) ==
  /\ active = None /\ m \in submitted \ done
  /\ active' = m
  /\ UNCHANGED <<submitted, silent, done, returned>>

Ignore(m) ==
  /\ active = m /\ m \notin silent
  /\ silent' = silent \cup {m}
  /\ UNCHANGED <<submitted, active, done, returned>>

Finish(m) ==
  /\ active = m
  /\ active' = None
  /\ done' = done \cup {m}
  /\ UNCHANGED <<submitted, silent, returned>>

Return(m) ==
  /\ m \in done /\ returned[m] = None
  /\ returned' = [returned EXCEPT ![m] = [of |-> m, timeout |-> m \in silent]]
  /\ UNCHANGED <<submitted, active, silent, done>>

Next ==
  \E m \in Commands : Submit(m) \/ Start(m) \/ Ignore(m) \/ Finish(m) \/ Return(m)

(* A submitted command is started, finished and returned. *)
Fairness ==
  \A m \in Commands : SF_vars(Start(m)) /\ WF_vars(Finish(m)) /\ WF_vars(Return(m))

Spec == Init /\ [][Next]_vars /\ Fairness
=============================================================================
