------------------------ MODULE MessageCenterProofs ------------------------
(***************************************************************************)
(* What holds of the command pipeline for every set of callers and every   *)
(* number of calls.  Under any set of faults, preemption included: no      *)
(* command is dropped or run twice, parser and checker are not both        *)
(* blocked, and a lone caller gets an answer that is not its own only      *)
(* behind a command that timed out.  Without preemption and late answers:   *)
(* one command is at the device at a time, and every step of the pipeline   *)
(* of a single caller is one of CommandService or invisible to it.          *)
(***************************************************************************)
EXTENDS MessageCenter, FiniteSetTheorems, TLAPS

(* Appending to a queue adds one element to its range; a queue without      *)
(* duplicates stays so if the element is new.                               *)
LEMMA AppendFacts ==
  ASSUME NEW S, NEW q \in Seq(S), NEW m \in S
  PROVE  /\ Append(q, m) \in Seq(S)
         /\ Range(Append(q, m)) = Range(q) \cup {m}
         /\ IsInjective(q) /\ m \notin Range(q) => IsInjective(Append(q, m))
<1> DEFINE r == Append(q, m)
<1>1. /\ r \in Seq(S) /\ Len(r) = Len(q) + 1
      /\ \A i \in 1..Len(q) : r[i] = q[i]
      /\ r[Len(q) + 1] = m
  OBVIOUS
<1>2. DOMAIN q = 1..Len(q) /\ DOMAIN r = 1..(Len(q) + 1) /\ Len(q) \in Nat
  BY <1>1
<1>3. Range(r) \subseteq Range(q) \cup {m}
  BY <1>1, <1>2 DEF Range
<1>4. Range(q) \cup {m} \subseteq Range(r)
  <2>1. ASSUME NEW i \in 1..Len(q) PROVE q[i] \in Range(r)
    BY <1>1, <1>2 DEF Range
  <2>2. m \in Range(r)
    BY <1>1, <1>2 DEF Range
  <2> QED BY <1>2, <2>1, <2>2 DEF Range
<1>5. ASSUME IsInjective(q), m \notin Range(q) PROVE IsInjective(r)
  <2>1. \A i \in 1..Len(q) : q[i] # m
    BY <1>2, <1>5 DEF Range
  <2> QED BY <1>1, <1>2, <1>5, <2>1 DEF IsInjective
<1> QED BY <1>1, <1>3, <1>4, <1>5

(* Taking the head off a queue without duplicates removes exactly that      *)
(* element from its range.                                                  *)
LEMMA TailFacts ==
  ASSUME NEW S, NEW q \in Seq(S), q # <<>>
  PROVE  /\ Head(q) \in S /\ Tail(q) \in Seq(S)
         /\ Head(q) \in Range(q)
         /\ Range(q) = Range(Tail(q)) \cup {Head(q)}
         /\ IsInjective(q) => IsInjective(Tail(q)) /\ Head(q) \notin Range(Tail(q))
<1> DEFINE r == Tail(q)
<1>1. /\ r \in Seq(S) /\ Len(r) = Len(q) - 1
      /\ \A i \in 1..Len(r) : r[i] = q[i + 1]
      /\ Head(q) = q[1] /\ Len(q) \in Nat \ {0}
  OBVIOUS
<1>2. DOMAIN q = 1..Len(q) /\ DOMAIN r = 1..(Len(q) - 1)
  BY <1>1
<1>3. Range(r) \cup {Head(q)} \subseteq Range(q)
  BY <1>1, <1>2 DEF Range
<1>4. Range(q) \subseteq Range(r) \cup {Head(q)}
  <2>1. ASSUME NEW i \in 1..Len(q) PROVE q[i] \in Range(r) \cup {Head(q)}
    <3>1. CASE i = 1
      BY <1>1, <3>1
    <3>2. CASE i # 1
      <4>1. i - 1 \in DOMAIN r /\ r[i - 1] = q[i]
        BY <1>1, <1>2, <3>2
      <4> QED BY <4>1 DEF Range
    <3> QED BY <3>1, <3>2
  <2> QED BY <1>2, <2>1 DEF Range
<1>5. ASSUME IsInjective(q) PROVE IsInjective(r) /\ Head(q) \notin Range(r)
  <2>1. IsInjective(r)
    BY <1>1, <1>2, <1>5 DEF IsInjective
  <2>2. \A i \in 1..(Len(q) - 1) : r[i] # Head(q)
    BY <1>1, <1>2, <1>5 DEF IsInjective
  <2> QED BY <1>2, <2>1, <2>2 DEF Range
<1> QED BY <1>1, <1>3, <1>4, <1>5 DEF Range

-----------------------------------------------------------------------------
(* TypeOK alone is not inductive: a thread that queues, runs or finishes    *)
(* its message must have one.                                               *)
TypeInv == TypeOK /\ LocalsSet

LEMMA TypeInit == Init => TypeInv
<1> SUFFICES ASSUME Init PROVE TypeInv
  OBVIOUS
<1> USE MessageCenterAssumption DEF Init, Threads
<1>1. /\ pc \in [Threads -> {"ready", "loop"}]
      /\ \A c \in Callers : pc[c] = "ready"
      /\ pc[Parser] = "loop" /\ pc[Checker] = "loop"
  OBVIOUS
<1>2. /\ pc \in [Threads -> CheckerPc \cup CallerPc]
      /\ \A c \in Callers : pc[c] \in CallerPc
      /\ pc[Parser] \in ParserPc /\ pc[Checker] \in CheckerPc
  BY <1>1 DEF CallerPc, ParserPc, CheckerPc
<1>3. prerunQueue \in Seq(Messages) /\ inbox \in Seq(Messages)
  OBVIOUS
<1>4. calls \in [Callers -> 0..MaxCalls]
  OBVIOUS
<1>5. /\ msg \in [Threads -> Messages \cup {None}]
      /\ answer \in [Threads -> Results \cup {None}]
      /\ received \in [Messages -> Results \cup {None}]
  OBVIOUS
<1>6. TypeOK
  BY <1>2, <1>3, <1>4, <1>5 DEF TypeOK
<1>7. LocalsSet
  BY <1>1 DEF LocalsSet, RunPc
<1> QED BY <1>6, <1>7 DEF TypeInv

LEMMA TypeStep == TypeInv /\ [Next]_vars => TypeInv'
<1> SUFFICES ASSUME TypeInv, [Next]_vars PROVE TypeInv'
  OBVIOUS
<1> USE MessageCenterAssumption DEF TypeInv, TypeOK, LocalsSet, Threads, Goto, Home,
        centerVars, callerVars, deviceVars, threadVars,
        CallerPc, ParserPc, CheckerPc, FinishPc, RunPc
<1>1. ASSUME NEW c \in Callers, CallBegin(c) PROVE TypeInv'
  <2>1. <<c, calls[c] + 1>> \in Messages /\ calls[c] + 1 \in 0..MaxCalls
    BY <1>1 DEF CallBegin, Messages
  <2> QED BY <1>1, <2>1 DEF CallBegin
<1>2. ASSUME NEW c \in Callers, RequestRun(c) PROVE TypeInv'
  BY <1>2 DEF RequestRun
<1>3. ASSUME NEW c \in Callers, RequestPut(c) PROVE TypeInv'
  BY <1>3 DEF RequestPut
<1>4. ASSUME NEW c \in Callers, ResultSeen(c) PROVE TypeInv'
  BY <1>4 DEF ResultSeen
<1>5. ASSUME NEW c \in Callers, ResultTake(c) PROVE TypeInv'
  BY <1>5 DEF ResultTake
<1>6. ASSUME NEW t \in Threads, RunMark(t) PROVE TypeInv'
  BY <1>6 DEF RunMark
<1>7. ASSUME NEW t \in Threads, RunAssign(t) PROVE TypeInv'
  BY <1>7 DEF RunAssign
<1>8. ASSUME NEW t \in Threads, RunStamp(t) PROVE TypeInv'
  BY <1>8 DEF RunStamp
<1>9. ASSUME NEW t \in Threads, RunWrite(t) PROVE TypeInv'
  BY <1>9 DEF RunWrite
<1>10. ASSUME NEW t \in Threads, RunWriteRaises(t) PROVE TypeInv'
  <2>1. CASE t \in Callers
    BY <1>10, <2>1 DEF RunWriteRaises
  <2>2. CASE t \notin Callers
    BY <1>10, <2>2 DEF RunWriteRaises
  <2> QED BY <2>1, <2>2
<1>11. ASSUME NEW t \in {Parser, Checker}, FinishTest(t) PROVE TypeInv'
  BY <1>11 DEF FinishTest
<1>12. ASSUME NEW t \in {Parser, Checker}, FinishSet(t) PROVE TypeInv'
  BY <1>12 DEF FinishSet
<1>13. ASSUME NEW t \in {Parser, Checker}, FinishEmit(t) PROVE TypeInv'
  BY <1>13 DEF FinishEmit
<1>14. ASSUME NEW t \in {Parser, Checker}, RunPostTest(t) PROVE TypeInv'
  BY <1>14 DEF RunPostTest
<1>15. ASSUME NEW t \in {Parser, Checker}, RunPostIdle(t) PROVE TypeInv'
  BY <1>15 DEF RunPostIdle
<1>16. ASSUME NEW t \in {Parser, Checker}, RunPostGet(t) PROVE TypeInv'
  BY <1>16 DEF RunPostGet
<1>17. ASSUME TimeoutBegin PROVE TypeInv'
  BY <1>17 DEF TimeoutBegin
<1>18. ASSUME TimeoutSpan PROVE TypeInv'
  BY <1>18 DEF TimeoutSpan
<1>19. ASSUME TimeoutUnfinished PROVE TypeInv'
  BY <1>19 DEF TimeoutUnfinished
<1>20. ASSUME TimeoutCommand PROVE TypeInv'
  <2>1. [of |-> runningMessage, timeout |-> TRUE] \in Results
    BY <1>20 DEF TimeoutCommand, Results
  <2> QED BY <1>20, <2>1 DEF TimeoutCommand
<1>21. ASSUME TimeoutFinish PROVE TypeInv'
  BY <1>21 DEF TimeoutFinish
<1>22. ASSUME CheckerExit PROVE TypeInv'
  BY <1>22 DEF CheckerExit
<1>23. ASSUME OnCommandReceive PROVE TypeInv'
  <2>1. inbox' \in Seq(Messages) /\ Head(inbox) \in Messages
    BY <1>23, TailFacts DEF OnCommandReceive
  <2>2. [of |-> Head(inbox), timeout |-> FALSE] \in Results
    BY <2>1 DEF Results
  <2>3. CASE runningMessage = None
    BY <1>23, <2>1, <2>2, <2>3 DEF OnCommandReceive
  <2>4. CASE runningMessage # None
    BY <1>23, <2>1, <2>2, <2>4 DEF OnCommandReceive
  <2> QED BY <2>3, <2>4
<1>24. ASSUME ParserExit PROVE TypeInv'
  BY <1>24 DEF ParserExit
<1>25. ASSUME Stop PROVE TypeInv'
  BY <1>25 DEF Stop
<1>26. ASSUME NEW m \in Messages, DeviceAnswers(m) PROVE TypeInv'
  BY <1>26 DEF DeviceAnswers
<1>27. ASSUME NEW m \in Messages, DeviceSilent(m) PROVE TypeInv'
  BY <1>27 DEF DeviceSilent
<1>28. ASSUME NEW m \in Messages, Expire(m) PROVE TypeInv'
  BY <1>28 DEF Expire
<1>29. CASE UNCHANGED vars
  BY <1>29 DEF vars
<1> QED
  BY <1>1, <1>2, <1>3, <1>4, <1>5, <1>6, <1>7, <1>8, <1>9, <1>10, <1>11, <1>12, <1>13, <1>14, <1>15, <1>16, <1>17, <1>18, <1>19, <1>20, <1>21, <1>22, <1>23, <1>24, <1>25, <1>26, <1>27, <1>28, <1>29
  DEF Next, CallerStep, RunStep, FinishStep, CheckerStep, ParserStep, DeviceStep

(* Type correctness of the pipeline, for every value of the constants.      *)
THEOREM TypeCorrect == Spec => []TypeOK
<1>1. Init => TypeInv
  BY TypeInit
<1>2. TypeInv /\ [Next]_vars => TypeInv'
  BY TypeStep
<1>3. TypeInv => TypeOK
  BY DEF TypeInv
<1> QED BY <1>1, <1>2, <1>3, PTL DEF Spec
-----------------------------------------------------------------------------
(* Where commands are: the inductive invariant behind NothingDropped and    *)
(* RunAtMostOnce.                                                           *)
Accounts == OnlyIssued /\ NothingDropped /\ RunAtMostOnce

(* An action that moves no message keeps the accounts.                      *)
LEMMA SameHands ==
  ASSUME Accounts,
         prerunQueue' = prerunQueue, written' = written, calls' = calls,
         \A t \in Threads : \A m \in Messages : Holds(t, m)' <=> Holds(t, m)
  PROVE  Accounts'
<1>1. Requested' = Requested
  BY DEF Requested
<1>2. OnlyIssued'
  BY <1>1 DEF Accounts, OnlyIssued
<1>3. NothingDropped'
  <2> SUFFICES ASSUME NEW m \in Requested'
               PROVE  \/ m \in written' \/ m \in Range(prerunQueue')
                      \/ \E t \in Threads : Holds(t, m)'
    BY DEF NothingDropped
  <2>1. m \in Messages
    BY DEF Requested
  <2> QED BY <1>1, <2>1 DEF Accounts, NothingDropped
<1>4. RunAtMostOnce'
  <2> SUFFICES ASSUME NEW t \in Threads, NEW m \in Messages, Holds(t, m)'
               PROVE  /\ m \notin Range(prerunQueue') \cup written'
                      /\ \A u \in Threads \ {t} : ~Holds(u, m)'
    BY DEF Accounts, RunAtMostOnce
  <2> QED BY DEF Accounts, RunAtMostOnce
<1> QED BY <1>2, <1>3, <1>4 DEF Accounts

(* The actions that move a message from one place to another.               *)
LEMMA AccountsCallBegin ==
  ASSUME TypeInv, Accounts, NEW c \in Callers, CallBegin(c)
  PROVE  Accounts'
<1> USE MessageCenterAssumption DEF TypeInv, TypeOK, Threads, Goto, centerVars, deviceVars
<1> DEFINE new == <<c, calls[c] + 1>>
<1>1. /\ new \in Messages
      /\ Requested' = Requested \cup {new}
      /\ new \notin Requested
  BY DEF CallBegin, Messages, Requested
<1>2. prerunQueue' = prerunQueue /\ written' = written
  BY DEF CallBegin
<1>3. \A m \in Messages : Holds(c, m)' <=> m = new
  BY <1>1 DEF CallBegin, Holds, RunPc
<1>4. \A t \in Threads \ {c} : \A m \in Messages : Holds(t, m)' <=> Holds(t, m)
  BY DEF CallBegin, Holds
<1>5. \A m \in Messages : ~Holds(c, m)
  BY DEF CallBegin, Holds, RunPc
<1>6. OnlyIssued'
  BY <1>1, <1>2, <1>3, <1>4 DEF Accounts, OnlyIssued
<1>7. NothingDropped'
  <2> SUFFICES ASSUME NEW m \in Requested'
               PROVE  \/ m \in written' \/ m \in Range(prerunQueue')
                      \/ \E u \in Threads : Holds(u, m)'
    BY DEF NothingDropped
  <2>1. m \in Messages
    BY DEF Requested
  <2> QED BY <1>1, <1>2, <1>3, <1>4, <1>5, <2>1 DEF Accounts, NothingDropped
<1>8. RunAtMostOnce'
  <2> SUFFICES ASSUME NEW u \in Threads, NEW m \in Messages, Holds(u, m)'
               PROVE  /\ m \notin Range(prerunQueue') \cup written'
                      /\ \A v \in Threads \ {u} : ~Holds(v, m)'
    BY <1>1, <1>2, <1>3, <1>4 DEF Accounts, RunAtMostOnce
  <2>1. CASE u = c
    BY <1>1, <1>2, <1>3, <1>4, <2>1 DEF Accounts, OnlyIssued
  <2>2. CASE u # c
    <3>1. Holds(u, m) /\ m \in Requested /\ m # new
      BY <1>1, <1>4, <2>2 DEF Accounts, OnlyIssued
    <3>2. /\ m \notin Range(prerunQueue') \cup written'
          /\ \A v \in Threads \ {u} : ~Holds(v, m)
      BY <1>2, <3>1 DEF Accounts, RunAtMostOnce
    <3>3. ASSUME NEW v \in Threads \ {u} PROVE ~Holds(v, m)'
      <4>1. CASE v = c
        BY <1>3, <3>1, <4>1
      <4>2. CASE v # c
        BY <1>4, <3>2, <4>2
      <4> QED BY <4>1, <4>2
    <3> QED BY <3>2, <3>3
  <2> QED BY <2>1, <2>2
<1> QED BY <1>6, <1>7, <1>8 DEF Accounts

LEMMA AccountsRequestPut ==
  ASSUME TypeInv, Accounts, NEW c \in Callers, RequestPut(c)
  PROVE  Accounts'
<1> USE MessageCenterAssumption DEF TypeInv, TypeOK, LocalsSet, Threads, Goto, callerVars, deviceVars
<1>1. msg[c] \in Messages /\ Holds(c, msg[c])
  BY DEF RequestPut, Holds
<1>2. /\ Range(prerunQueue') = Range(prerunQueue) \cup {msg[c]}
      /\ IsInjective(prerunQueue')
  BY <1>1, AppendFacts DEF RequestPut, Accounts, RunAtMostOnce
<1>3. written' = written /\ Requested' = Requested
  BY DEF RequestPut, Requested
<1>4. \A m \in Messages : ~Holds(c, m)' /\ (Holds(c, m) <=> m = msg[c])
  BY <1>1 DEF RequestPut, Holds, RunPc
<1>5. \A t \in Threads \ {c} : \A m \in Messages : Holds(t, m)' <=> Holds(t, m)
  BY DEF RequestPut, Holds
<1>6. OnlyIssued'
  BY <1>1, <1>2, <1>3, <1>4, <1>5 DEF Accounts, OnlyIssued
<1>7. NothingDropped'
  <2> SUFFICES ASSUME NEW m \in Requested'
               PROVE  \/ m \in written' \/ m \in Range(prerunQueue')
                      \/ \E u \in Threads : Holds(u, m)'
    BY DEF NothingDropped
  <2>1. m \in Messages
    BY DEF Requested
  <2>2. m \in written \/ m \in Range(prerunQueue) \/ \E u \in Threads : Holds(u, m)
    BY <1>3, <2>1 DEF Accounts, NothingDropped
  <2>3. CASE Holds(c, m)
    BY <1>2, <1>4, <2>1, <2>3
  <2>4. CASE ~Holds(c, m)
    BY <1>2, <1>3, <1>5, <2>1, <2>2, <2>4
  <2> QED BY <2>3, <2>4
<1>8. RunAtMostOnce'
  <2> SUFFICES ASSUME NEW u \in Threads, NEW m \in Messages, Holds(u, m)'
               PROVE  /\ m \notin Range(prerunQueue') \cup written'
                      /\ \A v \in Threads \ {u} : ~Holds(v, m)'
    BY <1>1, <1>2, <1>3, <1>4, <1>5 DEF Accounts, RunAtMostOnce
  <2>1. u # c /\ Holds(u, m)
    BY <1>4, <1>5
  <2>2. /\ m \notin Range(prerunQueue) \cup written
        /\ \A v \in Threads \ {u} : ~Holds(v, m)
    BY <2>1 DEF Accounts, RunAtMostOnce
  <2>3. m # msg[c]
    BY <1>1, <2>1, <2>2
  <2> QED BY <1>2, <1>3, <1>4, <1>5, <2>2, <2>3
<1> QED BY <1>6, <1>7, <1>8 DEF Accounts

LEMMA AccountsRunWrite ==
  ASSUME TypeInv, Accounts, NEW t \in Threads, RunWrite(t) \/ RunWriteRaises(t)
  PROVE  Accounts'
<1> USE MessageCenterAssumption
    DEF TypeInv, TypeOK, LocalsSet, Goto, Home, centerVars, callerVars
<1>1. msg[t] \in Messages /\ Holds(t, msg[t])
  BY DEF RunWrite, RunWriteRaises, Holds, RunPc
<1>2. /\ written' = written \cup {msg[t]}
      /\ prerunQueue' = prerunQueue /\ Requested' = Requested
  BY DEF RunWrite, RunWriteRaises, Requested
<1>3. \A m \in Messages : ~Holds(t, m)' /\ (Holds(t, m) <=> m = msg[t])
  BY <1>1 DEF RunWrite, RunWriteRaises, Holds, RunPc
<1>4. \A u \in Threads \ {t} : \A m \in Messages : Holds(u, m)' <=> Holds(u, m)
  BY DEF RunWrite, RunWriteRaises, Holds
<1>5. OnlyIssued'
  BY <1>1, <1>2, <1>3, <1>4 DEF Accounts, OnlyIssued
<1>6. NothingDropped'
  <2> SUFFICES ASSUME NEW m \in Requested'
               PROVE  \/ m \in written' \/ m \in Range(prerunQueue')
                      \/ \E u \in Threads : Holds(u, m)'
    BY DEF NothingDropped
  <2>1. m \in Messages
    BY DEF Requested
  <2>2. CASE m = msg[t]
    BY <1>2, <2>2
  <2>3. CASE m # msg[t]
    <3>1. m \in written \/ m \in Range(prerunQueue) \/ \E u \in Threads \ {t} : Holds(u, m)
      BY <1>2, <1>3, <2>1, <2>3 DEF Accounts, NothingDropped
    <3> QED BY <1>2, <1>4, <2>1, <3>1
  <2> QED BY <2>2, <2>3
<1>7. RunAtMostOnce'
  <2> SUFFICES ASSUME NEW u \in Threads, NEW m \in Messages, Holds(u, m)'
               PROVE  /\ m \notin Range(prerunQueue') \cup written'
                      /\ \A v \in Threads \ {u} : ~Holds(v, m)'
    BY <1>1, <1>2, <1>3, <1>4 DEF Accounts, RunAtMostOnce
  <2> QED BY <1>1, <1>2, <1>3, <1>4 DEF Accounts, RunAtMostOnce
<1> QED BY <1>5, <1>6, <1>7 DEF Accounts

LEMMA AccountsRunPostGet ==
  ASSUME TypeInv, Accounts, NEW t \in {Parser, Checker}, RunPostGet(t)
  PROVE  Accounts'
<1> USE MessageCenterAssumption DEF TypeInv, TypeOK, Threads, Goto, callerVars, deviceVars
<1> DEFINE next == Head(prerunQueue)
<1>1. /\ next \in Messages /\ next \in Range(prerunQueue)
      /\ Range(prerunQueue) = Range(prerunQueue') \cup {next}
      /\ IsInjective(prerunQueue') /\ next \notin Range(prerunQueue')
  BY TailFacts DEF RunPostGet, Accounts, RunAtMostOnce
<1>2. written' = written /\ Requested' = Requested
  BY DEF RunPostGet, Requested
<1>3. \A m \in Messages : ~Holds(t, m) /\ (Holds(t, m)' <=> m = next)
  BY <1>1 DEF RunPostGet, Holds, RunPc
<1>4. \A u \in Threads \ {t} : \A m \in Messages : Holds(u, m)' <=> Holds(u, m)
  BY DEF RunPostGet, Holds
<1>5. OnlyIssued'
  BY <1>1, <1>2, <1>3, <1>4 DEF Accounts, OnlyIssued
<1>6. NothingDropped'
  <2> SUFFICES ASSUME NEW m \in Requested'
               PROVE  \/ m \in written' \/ m \in Range(prerunQueue')
                      \/ \E u \in Threads : Holds(u, m)'
    BY DEF NothingDropped
  <2>1. m \in Messages
    BY DEF Requested
  <2>2. m \in written \/ m \in Range(prerunQueue) \/ \E u \in Threads : Holds(u, m)
    BY <1>2, <2>1 DEF Accounts, NothingDropped
  <2>3. CASE m = next
    BY <1>3, <2>1, <2>3
  <2>4. CASE m # next
    BY <1>1, <1>2, <1>3, <1>4, <2>1, <2>2, <2>4
  <2> QED BY <2>3, <2>4
<1>7. RunAtMostOnce'
  <2> SUFFICES ASSUME NEW u \in Threads, NEW m \in Messages, Holds(u, m)'
               PROVE  /\ m \notin Range(prerunQueue') \cup written'
                      /\ \A v \in Threads \ {u} : ~Holds(v, m)'
    BY <1>1, <1>2, <1>3, <1>4 DEF Accounts, RunAtMostOnce
  <2> QED BY <1>1, <1>2, <1>3, <1>4 DEF Accounts, RunAtMostOnce
<1> QED BY <1>5, <1>6, <1>7 DEF Accounts

LEMMA AccountsInit == Init => Accounts
<1> SUFFICES ASSUME Init PROVE Accounts
  OBVIOUS
<1>1. Range(prerunQueue) = {} /\ IsInjective(prerunQueue)
  BY DEF Init, Range, IsInjective
<1>2. Requested = {} /\ written = {}
  BY MessageCenterAssumption DEF Init, Requested, Messages
<1>3. \A t \in Threads : \A m \in Messages : ~Holds(t, m)
  BY DEF Init, Holds, RunPc
<1> QED BY <1>1, <1>2, <1>3 DEF Accounts, OnlyIssued, NothingDropped, RunAtMostOnce

LEMMA AccountsStep == TypeInv /\ Accounts /\ [Next]_vars => Accounts'
<1> SUFFICES ASSUME TypeInv, Accounts, [Next]_vars PROVE Accounts'
  OBVIOUS
<1> DEFINE Still ==
      /\ prerunQueue' = prerunQueue /\ written' = written /\ calls' = calls
      /\ \A t \in Threads : \A m \in Messages : Holds(t, m)' <=> Holds(t, m)
<1>0. Still => Accounts'
  BY SameHands
<1> USE MessageCenterAssumption DEF TypeInv, TypeOK, Threads, Goto, Home, Holds, RunPc,
        centerVars, callerVars, deviceVars, threadVars
<1>1. ASSUME NEW c \in Callers, CallerStep(c) PROVE Accounts'
  <2>1. CASE CallBegin(c)
    BY <2>1, AccountsCallBegin
  <2>2. CASE RequestPut(c)
    BY <2>2, AccountsRequestPut
  <2>3. CASE RequestRun(c) \/ ResultSeen(c) \/ ResultTake(c)
    <3>1. Still
      BY <2>3 DEF RequestRun, ResultSeen, ResultTake
    <3> QED BY <3>1, <1>0
  <2> QED BY <1>1, <2>1, <2>2, <2>3 DEF CallerStep
<1>2. ASSUME NEW t \in Threads, RunStep(t) PROVE Accounts'
  <2>1. CASE RunWrite(t) \/ RunWriteRaises(t)
    BY <2>1, AccountsRunWrite
  <2>2. CASE RunMark(t) \/ RunAssign(t) \/ RunStamp(t)
    <3>1. Still
      BY <2>2 DEF RunMark, RunAssign, RunStamp
    <3> QED BY <3>1, <1>0
  <2> QED BY <1>2, <2>1, <2>2 DEF RunStep
<1>3. ASSUME NEW t \in {Parser, Checker}, FinishStep(t) PROVE Accounts'
  <2>1. CASE RunPostGet(t)
    BY <2>1, AccountsRunPostGet
  <2>2. CASE \/ FinishTest(t) \/ FinishSet(t) \/ FinishEmit(t)
             \/ RunPostTest(t) \/ RunPostIdle(t)
    <3>1. Still
      BY <2>2 DEF FinishTest, FinishSet, FinishEmit, RunPostTest, RunPostIdle
    <3> QED BY <3>1, <1>0
  <2> QED BY <1>3, <2>1, <2>2 DEF FinishStep
<1>4. ASSUME CheckerStep PROVE Accounts'
  <2>1. Still
    BY <1>4 DEF CheckerStep, TimeoutBegin, TimeoutSpan, TimeoutUnfinished,
                TimeoutCommand, TimeoutFinish, CheckerExit
  <2> QED BY <2>1, <1>0
<1>5. ASSUME ParserStep \/ Stop PROVE Accounts'
  <2>1. Still
    BY <1>5 DEF ParserStep, OnCommandReceive, ParserExit, Stop
  <2> QED BY <2>1, <1>0
<1>6. ASSUME NEW m \in Messages, DeviceStep(m) \/ Expire(m) PROVE Accounts'
  <2>1. Still
    BY <1>6 DEF DeviceStep, DeviceAnswers, DeviceSilent, Expire
  <2> QED BY <2>1, <1>0
<1>7. CASE UNCHANGED vars
  <2>1. Still
    BY <1>7 DEF vars
  <2> QED BY <2>1, <1>0
<1> QED BY <1>1, <1>2, <1>3, <1>4, <1>5, <1>6, <1>7 DEF Next

(* No command is dropped, whatever fails and however threads interleave.    *)
THEOREM CommandsKept == Spec => []NothingDropped
<1>1. Init => TypeInv /\ Accounts
  BY TypeInit, AccountsInit
<1>2. TypeInv /\ Accounts /\ [Next]_vars => TypeInv' /\ Accounts'
  BY TypeStep, AccountsStep
<1>3. Accounts => NothingDropped
  BY DEF Accounts
<1> QED BY <1>1, <1>2, <1>3, PTL DEF Spec

(* No command is sent to the device twice, whatever fails and however       *)
(* threads interleave.                                                      *)
THEOREM CommandsRunAtMostOnce == Spec => []RunAtMostOnce
<1>1. Init => TypeInv /\ Accounts
  BY TypeInit, AccountsInit
<1>2. TypeInv /\ Accounts /\ [Next]_vars => TypeInv' /\ Accounts'
  BY TypeStep, AccountsStep
<1>3. Accounts => RunAtMostOnce
  BY DEF Accounts
<1> QED BY <1>1, <1>2, <1>3, PTL DEF Spec

-----------------------------------------------------------------------------
(* With threads that switch only where they sleep or do I/O, and a device   *)
(* that answers in time or never, the pipeline has one command at a time.   *)
Calm == Faults \cap {"preempt", "late"} = {}

(* What was sent and has not come back, and with it what never will.        *)
InFlight == atDevice \cup Range(inbox)
Held     == InFlight \cup (lost \ finished)

(* One thread is inside of the pipeline.                                    *)
Inside(t) == pc[t] \notin RestPc
Alone     == \A t, u \in Threads : Inside(t) /\ Inside(u) => t = u

(* A thread in run, finish or run_post is the only one, has nothing at the  *)
(* device but the command it finishes, and the checker times out nothing.   *)
Working(t) == pc[t] \in FinishPc
OneWorks ==
  /\ \A t, u \in Threads : Working(t) /\ Working(u) => t = u
  /\ \A t \in Threads : Working(t) => pc[Checker] \notin {"command", "expire"}
  /\ \A t \in Threads : Working(t) /\ pc[t] # "mark" => isRunning
  /\ \A t \in Threads : Working(t) => InFlight = {}
  /\ \A t \in Threads : Working(t) =>
       \A m \in lost \ finished : pc[t] \in {"check", "set"} /\ m = msg[t]
  /\ \A t \in Threads : pc[t] \in {"stamp", "write"} => runningMessage = msg[t]

(* What is at the device is the command that runs.                          *)
OneHeld ==
  /\ \A m \in Held : isRunning /\ runningMessage = m
  /\ InFlight \cap (lost \cup finished) = {}
  /\ InFlight \cup lost \cup finished \subseteq written
  /\ expired \subseteq lost
  /\ \A t \in Threads : pc[t] \in {"check", "set", "emit"} => msg[t] \in written
  /\ pc[Checker] \in {"command", "expire"} => runningMessage \in lost \ finished
  /\ pc[Checker] = "unfinished" => runningMessage \in lost

InboxOnce == IsInjective(inbox) /\ Range(inbox) \cap atDevice = {}

(* What run_post found in the queue is there when it gets it.               *)
RunPostNeverBlocks ==
  \A t \in {Parser, Checker} : pc[t] = "get" => prerunQueue # <<>>

PipeInv == Alone /\ OneWorks /\ OneHeld /\ InboxOnce /\ RunPostNeverBlocks

(* Nothing is in the pipeline at first.                                     *)
LEMMA PipeInit == Init => PipeInv
<1> SUFFICES ASSUME Init PROVE PipeInv
  OBVIOUS
<1> USE MessageCenterAssumption
<1>1. \A t \in Threads : pc[t] \in {"ready", "loop"}
  BY DEF Init
<1>2. Range(inbox) = {} /\ IsInjective(inbox)
  BY DEF Init, Range, IsInjective
<1>3. InFlight = {} /\ Held = {}
  BY <1>2 DEF Init, InFlight, Held
<1>4. Checker \in Threads /\ Parser \in Threads
  BY DEF Threads
<1>5. Alone
  BY <1>1 DEF Alone, Inside, RestPc
<1>6. OneWorks
  BY <1>1, <1>4 DEF OneWorks, Working, FinishPc, RunPc
<1>7. OneHeld
  BY <1>1, <1>3, <1>4 DEF OneHeld, Init
<1>8. RunPostNeverBlocks
  BY <1>1, <1>4 DEF RunPostNeverBlocks
<1> QED BY <1>2, <1>5, <1>6, <1>7, <1>8 DEF PipeInv, InboxOnce

(* A thread that moves within the pipeline, or out of it, while nobody      *)
(* else does.                                                               *)
LEMMA MoveFacts ==
  ASSUME TypeInv, NEW t \in Threads, NEW l, Goto(t, l)
  PROVE  pc'[t] = l /\ \A u \in Threads : u # t => pc'[u] = pc[u]
BY DEF TypeInv, TypeOK, Goto

(* Only a thread that finds the others at rest gets into the pipeline.      *)
LEMMA StillAlone ==
  ASSUME TypeInv, Alone, NEW t \in Threads, NEW l, Goto(t, l),
         Inside(t) \/ l \in RestPc \/ \A u \in Threads \ {t} : pc[u] \in RestPc
  PROVE  Alone'
BY MoveFacts DEF Alone, Inside

(* Who is inside of the pipeline is alone in it.                            *)
LEMMA AllRest ==
  ASSUME Alone, NEW t \in Threads, Inside(t)
  PROVE  \A u \in Threads \ {t} : pc[u] \in RestPc
BY DEF Alone, Inside

(* Without preemption a thread enters only while the others rest.           *)
LEMMA Entering ==
  ASSUME Calm, NEW t \in Threads, MayEnter(t)
  PROVE  \A u \in Threads \ {t} : pc[u] \in RestPc
BY DEF Calm, MayEnter

(* The parser, the checker and the callers are different threads.           *)
LEMMA KnownThreads == Checker \in Threads /\ Parser \in Threads /\ Callers \subseteq Threads
                      /\ Parser # Checker /\ Parser \notin Callers /\ Checker \notin Callers
BY MessageCenterAssumption DEF Threads

(* Steps that change the place of a thread, its message or answer, the      *)
(* results and the queue, and nothing else.                                 *)
OnlyPlaces ==
  UNCHANGED <<isRunning, runningMessage, started, finished, written, atDevice, lost, inbox, expired>>

(* Such a step leaves what is at the device and what is lost as it was.     *)
LEMMA HeldStays ==
  ASSUME OnlyPlaces PROVE InFlight' = InFlight /\ Held' = Held
BY DEF OnlyPlaces, InFlight, Held, Range

(* Callers come and go; one that finds the pipeline idle gets it.           *)
LEMMA PipeCaller ==
  ASSUME Calm, TypeInv, PipeInv, NEW c \in Callers, CallerStep(c)
  PROVE  PipeInv'
<1> USE KnownThreads DEF PipeInv
<1>1. PICK l : Goto(c, l) /\ l \in {"request", "enqueue", "mark", "wait", "take", "ready"}
               /\ (Inside(c) \/ \A u \in Threads \ {c} : pc[u] \in RestPc)
               /\ (l = "mark" => Inside(c) /\ ~isRunning)
  <2>1. pc[c] \notin RestPc => Inside(c)
    BY DEF Inside
  <2>2. MayEnter(c) => \A u \in Threads \ {c} : pc[u] \in RestPc
    BY Entering
  <2> QED BY <2>1, <2>2 DEF CallerStep, CallBegin, RequestRun, RequestPut, ResultSeen, ResultTake, RestPc
<1>2. OnlyPlaces /\ \A t \in Threads : t # c => msg'[t] = msg[t]
  BY DEF CallerStep, CallBegin, RequestRun, RequestPut, ResultSeen, ResultTake, OnlyPlaces,
         centerVars, deviceVars, callerVars, TypeInv, TypeOK
<1>3. pc'[c] = l /\ \A u \in Threads : u # c => pc'[u] = pc[u]
  BY <1>1, MoveFacts
<1>4. InFlight' = InFlight /\ Held' = Held
  BY <1>2, HeldStays
<1>5. Alone'
  BY <1>1, StillAlone
<1>6. l # "mark" => OneWorks'
  BY <1>1, <1>2, <1>3, <1>4 DEF OneWorks, Working, FinishPc, RunPc, OnlyPlaces
<1>7. l = "mark" => OneWorks'
  <2> SUFFICES ASSUME l = "mark" PROVE OneWorks'
    OBVIOUS
  <2>1. Held = {}
    BY <1>1 DEF OneHeld
  <2>2. pc[Checker] \notin {"command", "expire"}
    BY <2>1 DEF OneHeld, Held
  <2>3. \A u \in Threads : u # c => ~Working(u)
    <3> SUFFICES ASSUME NEW u \in Threads, u # c, Working(u) PROVE FALSE
      OBVIOUS
    <3>1. pc[u] = "mark"
      BY <1>1 DEF OneWorks
    <3> QED BY <1>1, <3>1, AllRest DEF RestPc
  <2>4. \A u \in Threads : u # c => ~Working(u)'
    BY <1>3, <2>3 DEF Working
  <2>5. InFlight' = {} /\ (lost \ finished)' = {}
    BY <1>2, <1>4, <2>1 DEF Held, OnlyPlaces
  <2> QED BY <1>3, <2>2, <2>4, <2>5 DEF OneWorks, Working, FinishPc, RunPc
<1>8. OneHeld'
  BY <1>1, <1>2, <1>3, <1>4 DEF OneHeld, OnlyPlaces
<1>9. InboxOnce'
  BY <1>2 DEF InboxOnce, OnlyPlaces, IsInjective, Range
<1>10. RunPostNeverBlocks'
  <2>1. prerunQueue' = prerunQueue \/ (pc[c] = "enqueue" /\ prerunQueue' = Append(prerunQueue, msg[c]))
    BY DEF CallerStep, CallBegin, RequestRun, RequestPut, ResultSeen, ResultTake, centerVars
  <2>2. prerunQueue # <<>> => prerunQueue' # <<>>
    BY <2>1 DEF TypeInv, TypeOK
  <2> QED BY <1>3, <2>2 DEF RunPostNeverBlocks
<1> QED BY <1>5, <1>6, <1>7, <1>8, <1>9, <1>10

(* run(): a thread that has the pipeline keeps it until it has written.     *)
LEMMA PipeRun ==
  ASSUME Calm, TypeInv, Accounts, PipeInv, NEW t \in Threads, RunStep(t)
  PROVE  PipeInv'
<1> USE KnownThreads DEF PipeInv
<1>1. PICK l : Goto(t, l) /\ l \in {"assign", "stamp", "write", "wait", "loop", "ready", "dead"}
  BY DEF RunStep, RunMark, RunAssign, RunStamp, RunWrite, RunWriteRaises, Home
<1>2. pc'[t] = l /\ \A u \in Threads : u # t => pc'[u] = pc[u]
  BY <1>1, MoveFacts
<1>3. Working(t) /\ \A u \in Threads : u # t => ~Working(u)
  <2>1. Working(t)
    BY DEF RunStep, RunMark, RunAssign, RunStamp, RunWrite, RunWriteRaises, Working, FinishPc, RunPc
  <2> QED BY <2>1 DEF OneWorks
<1>4. \A u \in Threads : u # t => ~Working(u)'
  BY <1>2, <1>3 DEF Working
<1>5. InFlight = {} /\ lost \subseteq finished /\ Held = {} /\ pc[Checker] \notin {"command", "expire"}
      /\ pc[t] \in RunPc /\ msg[t] \in Messages /\ msg[t] \notin written
  <2>1. pc[t] \in RunPc
    BY DEF RunStep, RunMark, RunAssign, RunStamp, RunWrite, RunWriteRaises, RunPc
  <2>2. msg[t] \in Messages
    BY <2>1 DEF TypeInv, LocalsSet
  <2>3. Holds(t, msg[t])
    BY <2>1 DEF Holds
  <2>4. msg[t] \notin written
    BY <2>2, <2>3 DEF Accounts, RunAtMostOnce
  <2>5. InFlight = {} /\ lost \ finished = {}
    BY <1>3, <2>1 DEF OneWorks, RunPc
  <2> QED BY <1>3, <2>1, <2>2, <2>4, <2>5 DEF OneWorks, Held
<1>6. msg' = msg /\ prerunQueue' = prerunQueue /\ inbox' = inbox /\ finished' = finished
      /\ expired' = expired
  BY DEF RunStep, RunMark, RunAssign, RunStamp, RunWrite, RunWriteRaises, centerVars, deviceVars,
         callerVars
<1>7. Alone'
  <2>1. CASE RunMark(t) \/ RunAssign(t) \/ RunStamp(t)
    <3>1. Inside(t)
      BY <2>1 DEF RunMark, RunAssign, RunStamp, Inside, RestPc
    <3> QED BY <1>1, <3>1, StillAlone
  <2>2. CASE RunWrite(t) \/ RunWriteRaises(t)
    <3>1. pc'[t] \in RestPc
      BY <2>2 DEF RunWrite, RunWriteRaises, Home, Goto, RestPc, TypeInv, TypeOK
    <3> QED BY <1>1, <1>2, <3>1, StillAlone
  <2> QED BY <2>1, <2>2 DEF RunStep
<1>8. RunPostNeverBlocks'
  BY <1>1, <1>2, <1>6 DEF RunPostNeverBlocks
<1>9. CASE RunMark(t) \/ RunAssign(t) \/ RunStamp(t)
  <2>1. /\ isRunning' = TRUE \/ (pc[t] # "mark" /\ isRunning' = isRunning)
        /\ l = "assign" \/ (l = "stamp" /\ runningMessage' = msg[t])
           \/ (l = "write" /\ pc[t] = "stamp" /\ runningMessage' = runningMessage)
        /\ written' = written /\ atDevice' = atDevice /\ lost' = lost
    BY <1>1, <1>2, <1>9, MoveFacts DEF RunMark, RunAssign, RunStamp, centerVars, deviceVars
  <2>2. isRunning' = TRUE
    BY <1>3, <2>1 DEF OneWorks, TypeInv, TypeOK
  <2>3. InFlight' = {} /\ Held' = {}
    BY <1>5, <1>6, <2>1 DEF InFlight, Held, Range
  <2>4. OneWorks'
    BY <1>2, <1>4, <1>5, <1>6, <2>1, <2>2, <2>3 DEF OneWorks, Working, FinishPc, RunPc
  <2>5. OneHeld'
    <3>1. \A u \in Threads : pc'[u] \notin {"check", "set", "emit"}
      BY <1>2, <1>4, <2>1 DEF Working, FinishPc, RunPc
    <3>2. \A u \in Threads \ {t} : pc[u] \in RestPc
      BY <1>9, AllRest DEF RunMark, RunAssign, RunStamp, Inside, RestPc
    <3>3. pc'[Checker] \notin {"command", "expire", "unfinished"}
      BY <1>2, <1>5, <2>1, <3>2 DEF RestPc
    <3>4. (InFlight \cap (lost \cup finished))' = {}
          /\ (InFlight \cup lost \cup finished)' \subseteq written' /\ expired' \subseteq lost'
      BY <1>6, <2>1, <2>3 DEF OneHeld
    <3> QED BY <2>3, <3>1, <3>3, <3>4 DEF OneHeld
  <2>6. InboxOnce'
    BY <1>6, <2>1 DEF InboxOnce
  <2> QED BY <1>7, <1>8, <2>4, <2>5, <2>6
<1>10. CASE RunWrite(t) \/ RunWriteRaises(t)
  <2>1. /\ l \in {"wait", "loop", "ready", "dead"} /\ pc[t] = "write"
        /\ isRunning' = isRunning /\ runningMessage' = runningMessage
        /\ written' = written \cup {msg[t]}
        /\ \/ atDevice' = atDevice \cup {msg[t]} /\ lost' = lost
           \/ lost' = lost \cup {msg[t]} /\ atDevice' = atDevice
    BY <1>1, <1>2, <1>10, MoveFacts DEF RunWrite, RunWriteRaises, centerVars, deviceVars, Home
  <2>2. isRunning /\ runningMessage = msg[t]
    BY <1>3, <2>1 DEF OneWorks
  <2>3. msg[t] \notin lost /\ msg[t] \notin finished /\ Range(inbox) = {} /\ atDevice = {}
    BY <1>5 DEF OneHeld, InFlight
  <2>4. Range(inbox)' = {}
    BY <1>6, <2>3 DEF Range
  <2>5. Held' = {msg[t]} /\ (InFlight \cap (lost \cup finished))' = {}
        /\ InFlight' \subseteq {msg[t]}
    BY <1>5, <1>6, <2>1, <2>3, <2>4 DEF InFlight, Held
  <2>6. \A u \in Threads : ~Working(u)'
    BY <1>2, <1>4, <2>1 DEF Working, FinishPc, RunPc
  <2>7. OneWorks'
    <3>1. \A u \in Threads : pc'[u] \notin {"stamp", "write"}
      BY <2>6 DEF Working, FinishPc, RunPc
    <3> QED BY <2>6, <3>1 DEF OneWorks
  <2>8. OneHeld'
    <3>1. pc'[Checker] \notin {"command", "expire"} /\ (pc'[Checker] = "unfinished" => runningMessage' \in lost')
      BY <1>2, <1>5, <2>1 DEF OneHeld
    <3>2. \A u \in Threads : pc'[u] \notin {"check", "set", "emit"}
      BY <2>6 DEF Working, FinishPc, RunPc
    <3>3. (InFlight \cup lost \cup finished)' \subseteq written'
      BY <1>5, <1>6, <2>1, <2>5 DEF OneHeld
    <3> QED BY <1>6, <2>1, <2>2, <2>5, <3>1, <3>2, <3>3 DEF OneHeld
  <2>9. InboxOnce'
    BY <1>6, <2>1, <2>4 DEF InboxOnce
  <2> QED BY <1>7, <1>8, <2>7, <2>8, <2>9
<1> QED BY <1>9, <1>10 DEF RunStep

(* finish() and run_post(): what was at the device is finished, and then    *)
(* nothing is there until the next command.                                 *)
LEMMA PipeFinish ==
  ASSUME Calm, TypeInv, Accounts, PipeInv, NEW t \in {Parser, Checker}, FinishStep(t)
  PROVE  PipeInv'
<1> USE KnownThreads DEF PipeInv
<1>1. PICK l : Goto(t, l) /\ l \in {"set", "emit", "post", "goIdle", "get", "mark", "loop"}
  BY DEF FinishStep, FinishTest, FinishSet, FinishEmit, RunPostTest, RunPostIdle, RunPostGet, Home
<1>2. pc'[t] = l /\ \A u \in Threads : u # t => pc'[u] = pc[u]
  BY <1>1, MoveFacts
<1>3. Working(t) /\ Inside(t) /\ pc[t] \in {"check", "set", "emit", "post", "goIdle", "get"}
  BY DEF FinishStep, FinishTest, FinishSet, FinishEmit, RunPostTest, RunPostIdle, RunPostGet,
         Working, FinishPc, Inside, RestPc
<1>4. /\ \A u \in Threads : u # t => ~Working(u)
      /\ \A u \in Threads \ {t} : pc[u] \in RestPc
  BY <1>3, AllRest DEF OneWorks
<1>5. \A u \in Threads : u # t => ~Working(u)'
  BY <1>2, <1>4 DEF Working
<1>6. InFlight = {} /\ isRunning /\ pc[Checker] \notin {"command", "expire"}
      /\ \A m \in lost \ finished : pc[t] \in {"check", "set"} /\ m = msg[t]
  BY <1>3 DEF OneWorks
<1>7. UNCHANGED <<runningMessage, started, written, atDevice, lost, inbox, expired>>
  BY DEF FinishStep, FinishTest, FinishSet, FinishEmit, RunPostTest, RunPostIdle, RunPostGet,
         centerVars, deviceVars
<1>8. InFlight' = {}
  BY <1>6, <1>7 DEF InFlight, Range
<1>9. /\ finished' = finished \/ (l = "emit" /\ pc[t] = "set" /\ finished' = finished \cup {msg[t]})
      /\ isRunning' = isRunning \/ (pc[t] = "goIdle" /\ l = "loop")
      /\ l = "mark" \/ (msg' = msg /\ prerunQueue' = prerunQueue)
      /\ l = "set" => pc[t] = "check" /\ msg[t] \notin finished
      /\ l = "emit" => pc[t] = "set"
      /\ l = "get" => prerunQueue # <<>>
      /\ pc[t] = "check" => msg[t] \in finished \/ l = "set"
      /\ pc[t] = "set" => l = "emit" /\ finished' = finished \cup {msg[t]}
      /\ \A u \in Threads : u # t => msg'[u] = msg[u]
  BY <1>1, <1>2, MoveFacts DEF FinishStep, FinishTest, FinishSet, FinishEmit, RunPostTest, RunPostIdle,
     RunPostGet, Home, centerVars, TypeInv, TypeOK
<1>10. \A m \in (lost \ finished)' : l = "set" /\ m = msg'[t]
  BY <1>6, <1>7, <1>9
<1>11. Held' = {} \/ (l = "set" /\ Held' \subseteq {msg[t]} /\ Held' \subseteq Held)
  BY <1>7, <1>8, <1>9, <1>10 DEF Held
<1>12. Alone'
  BY <1>1, <1>3, StillAlone
<1>13. OneWorks'
  <2>1. l # "loop" => isRunning'
    BY <1>6, <1>9
  <2>2. pc'[Checker] \notin {"command", "expire"}
    BY <1>1, <1>2, <1>6
  <2>3. \A u \in Threads : pc'[u] \notin {"stamp", "write"}
    BY <1>1, <1>2, <1>5 DEF Working, FinishPc, RunPc
  <2> QED BY <1>2, <1>5, <1>8, <1>10, <2>1, <2>2, <2>3 DEF OneWorks, Working, FinishPc, RunPc
<1>14. OneHeld'
  <2>1. \A m \in Held' : isRunning' /\ runningMessage' = m
    BY <1>6, <1>7, <1>9, <1>11 DEF OneHeld
  <2>2. pc[t] \in {"check", "set"} => msg[t] \in written
    BY DEF OneHeld
  <2>3. finished' \subseteq written'
    BY <1>7, <1>9, <2>2 DEF OneHeld
  <2>4. \A u \in Threads : pc'[u] \in {"check", "set", "emit"} => msg'[u] \in written'
    <3>1. l \in {"set", "emit"} => msg'[t] \in written'
      BY <1>7, <1>9, <2>2
    <3>2. \A u \in Threads : u # t => pc'[u] \notin {"check", "set", "emit"}
      BY <1>5 DEF Working, FinishPc
    <3> QED BY <1>1, <1>2, <3>1, <3>2
  <2>5. pc'[Checker] \notin {"command", "expire", "unfinished"}
    BY <1>1, <1>2, <1>4, <1>6 DEF RestPc
  <2>6. (lost \cup expired)' = lost \cup expired /\ lost' = lost /\ expired' = expired
    BY <1>7
  <2> QED BY <1>7, <1>8, <2>1, <2>3, <2>4, <2>5, <2>6 DEF OneHeld
<1>15. InboxOnce'
  BY <1>7 DEF InboxOnce
<1>16. RunPostNeverBlocks'
  BY <1>2, <1>5, <1>9 DEF RunPostNeverBlocks, Working, FinishPc
<1> QED BY <1>12, <1>13, <1>14, <1>15, <1>16

(* The checker times out a command that is lost, and so has the pipeline.   *)
LEMMA PipeChecker ==
  ASSUME Calm, TypeInv, PipeInv, CheckerStep
  PROVE  PipeInv'
<1> USE KnownThreads DEF PipeInv
<1>1. PICK l : Goto(Checker, l)
               /\ l \in {"span", "dead", "unfinished", "loop", "command", "expire", "check", "exited"}
  BY DEF CheckerStep, TimeoutBegin, TimeoutSpan, TimeoutUnfinished, TimeoutCommand, TimeoutFinish, CheckerExit
<1>2. pc'[Checker] = l /\ \A u \in Threads : u # Checker => pc'[u] = pc[u]
  BY <1>1, MoveFacts
<1>3. OnlyPlaces /\ prerunQueue' = prerunQueue
      /\ \A u \in Threads : u # Checker => msg'[u] = msg[u]
  BY DEF CheckerStep, TimeoutBegin, TimeoutSpan, TimeoutUnfinished, TimeoutCommand, TimeoutFinish,
         CheckerExit, OnlyPlaces, centerVars, deviceVars, TypeInv, TypeOK
<1>4. InFlight' = InFlight /\ Held' = Held
  BY <1>3, HeldStays
<1>5. /\ pc[Checker] \notin FinishPc
      /\ Inside(Checker) \/ l \in RestPc \/ \A u \in Threads \ {Checker} : pc[u] \in RestPc
      /\ l = "unfinished" => runningMessage \in expired
      /\ l = "command" => pc[Checker] = "unfinished" /\ runningMessage \notin finished
      /\ l = "expire" => pc[Checker] = "command"
      /\ l = "check" => pc[Checker] = "expire" /\ msg'[Checker] = runningMessage
  <2>1. MayEnter(Checker) => \A u \in Threads \ {Checker} : pc[u] \in RestPc
    BY Entering
  <2> QED BY <1>1, <1>2, <2>1, MoveFacts DEF CheckerStep, TimeoutBegin, TimeoutSpan, TimeoutUnfinished,
             TimeoutCommand, TimeoutFinish, CheckerExit, Inside, RestPc, FinishPc, RunPc, TypeInv, TypeOK
<1>6. Alone'
  BY <1>1, <1>5, StillAlone
<1>7. l \in {"command", "expire", "check"} =>
        /\ runningMessage \in lost \ finished
        /\ InFlight = {} /\ \A m \in lost \ finished : m = runningMessage
        /\ isRunning /\ \A u \in Threads : ~Working(u)
  <2> SUFFICES ASSUME l \in {"command", "expire", "check"}
               PROVE  /\ runningMessage \in lost \ finished
                      /\ InFlight = {} /\ \A m \in lost \ finished : m = runningMessage
                      /\ isRunning /\ \A u \in Threads : ~Working(u)
    OBVIOUS
  <2>1. runningMessage \in lost \ finished
    BY <1>5 DEF OneHeld
  <2>2. InFlight = {} /\ isRunning /\ \A m \in lost \ finished : m = runningMessage
    BY <2>1 DEF OneHeld, Held
  <2>3. ASSUME NEW u \in Threads, Working(u) PROVE FALSE
    <3>1. pc[Checker] = "unfinished" /\ pc[u] \in {"check", "set"}
      BY <1>5, <2>1, <2>3 DEF OneWorks
    <3> QED BY <3>1 DEF Alone, Inside, RestPc
  <2> QED BY <2>1, <2>2, <2>3
<1>8. OneWorks'
  <2>1. CASE l = "check"
    <3>1. \A u \in Threads : u # Checker => ~Working(u)'
      BY <1>2, <1>7, <2>1 DEF Working
    <3> QED BY <1>2, <1>3, <1>4, <1>5, <1>7, <2>1, <3>1 DEF OneWorks, Working, FinishPc, RunPc, OnlyPlaces
  <2>2. CASE l \in {"command", "expire"}
    <3>1. \A u \in Threads : ~Working(u)'
      BY <1>2, <1>7, <2>2 DEF Working, FinishPc, RunPc
    <3> QED BY <3>1 DEF OneWorks, Working, FinishPc, RunPc
  <2>3. CASE l \notin {"check", "command", "expire"}
    <3>1. ~Working(Checker)' /\ \A u \in Threads : u # Checker => (Working(u)' <=> Working(u))
      BY <1>1, <1>2, <2>3 DEF Working, FinishPc, RunPc
    <3> QED BY <1>2, <1>3, <1>4, <2>3, <3>1 DEF OneWorks, Working, FinishPc, RunPc, OnlyPlaces
  <2> QED BY <2>1, <2>2, <2>3
<1>9. OneHeld'
  <2>1. l = "unfinished" => runningMessage \in lost
    BY <1>5 DEF OneHeld
  <2>2. \A u \in Threads : pc'[u] \in {"check", "set", "emit"} => msg'[u] \in written'
    BY <1>1, <1>2, <1>3, <1>5, <1>7 DEF OneHeld, OnlyPlaces
  <2> QED BY <1>2, <1>3, <1>4, <1>7, <2>1, <2>2 DEF OneHeld, OnlyPlaces
<1>10. InboxOnce'
  BY <1>3 DEF InboxOnce, OnlyPlaces
<1>11. RunPostNeverBlocks'
  BY <1>1, <1>2, <1>3 DEF RunPostNeverBlocks
<1> QED BY <1>6, <1>8, <1>9, <1>10, <1>11

(* The parser takes the one answer there is, to the command that runs.      *)
LEMMA PipeParser ==
  ASSUME Calm, TypeInv, PipeInv, ParserStep
  PROVE  PipeInv'
<1> USE KnownThreads DEF PipeInv
<1>1. CASE ParserExit
  <2>1. Goto(Parser, "exited") /\ OnlyPlaces /\ msg' = msg /\ prerunQueue' = prerunQueue
    BY <1>1 DEF ParserExit, OnlyPlaces, centerVars, deviceVars
  <2>2. pc'[Parser] = "exited" /\ \A u \in Threads : u # Parser => pc'[u] = pc[u]
    BY <2>1, MoveFacts
  <2>3. InFlight' = InFlight /\ Held' = Held
    BY <2>1, HeldStays
  <2>4. Alone'
    BY <2>1, StillAlone DEF RestPc
  <2>5. ~Working(Parser)' /\ \A u \in Threads : u # Parser => (Working(u)' <=> Working(u))
    BY <2>2 DEF Working, FinishPc, RunPc
  <2>6. OneWorks'
    BY <2>1, <2>2, <2>3, <2>5 DEF OneWorks, OnlyPlaces
  <2>7. OneHeld' /\ InboxOnce' /\ RunPostNeverBlocks'
    BY <2>1, <2>2, <2>3 DEF OneHeld, InboxOnce, RunPostNeverBlocks, OnlyPlaces
  <2> QED BY <2>4, <2>6, <2>7
<1>2. CASE OnCommandReceive
  <2> DEFINE m == Head(inbox)
  <2>1. m \in Messages /\ m \in Range(inbox) /\ Range(inbox) = Range(inbox)' \cup {m}
        /\ IsInjective(inbox') /\ m \notin Range(inbox)'
    BY <1>2, TailFacts DEF OnCommandReceive, TypeInv, TypeOK, InboxOnce
  <2>2. runningMessage = m /\ isRunning /\ InFlight \subseteq {m} /\ m \in InFlight
    BY <2>1 DEF OneHeld, Held, InFlight
  <2>3. Goto(Parser, "check") /\ msg' = [msg EXCEPT ![Parser] = m]
    BY <1>2, <2>1, <2>2, MessageCenterAssumption DEF OnCommandReceive
  <2>4. pc'[Parser] = "check" /\ (\A u \in Threads : u # Parser => pc'[u] = pc[u])
        /\ msg'[Parser] = m /\ \A u \in Threads : u # Parser => msg'[u] = msg[u]
    BY <2>3, MoveFacts DEF TypeInv, TypeOK
  <2>5. UNCHANGED <<isRunning, runningMessage, finished, written, atDevice, lost, expired, prerunQueue>>
    BY <1>2 DEF OnCommandReceive, centerVars
  <2>6. InFlight' = {} /\ lost \subseteq finished
    <3>1. m \notin atDevice /\ m \notin lost
      BY <2>1, <2>2 DEF InboxOnce, OneHeld
    <3>2. \A n \in lost \ finished : n = m
      BY <2>2 DEF OneHeld, Held
    <3> QED BY <2>1, <2>2, <2>5, <3>1, <3>2 DEF InFlight
  <2>7. pc[Checker] \notin {"command", "expire"} /\ \A u \in Threads : ~Working(u)
    BY <2>2, <2>6 DEF OneWorks, OneHeld
  <2>8. \A u \in Threads : u # Parser => ~Working(u)'
    BY <2>4, <2>7 DEF Working
  <2>9. Alone'
    <3>1. \A u \in Threads \ {Parser} : pc[u] \in RestPc
      BY <1>2, Entering DEF OnCommandReceive
    <3> QED BY <2>3, <3>1, StillAlone
  <2>10. OneWorks'
    BY <2>2, <2>4, <2>5, <2>6, <2>7, <2>8 DEF OneWorks, Working, FinishPc, RunPc
  <2>11. OneHeld'
    <3>1. Held' = {}
      BY <2>5, <2>6 DEF Held
    <3>2. m \in written
      BY <2>2 DEF OneHeld
    <3>3. \A u \in Threads : u # Parser => pc'[u] \notin {"check", "set", "emit"}
      BY <2>8 DEF Working, FinishPc
    <3> QED BY <2>4, <2>5, <2>6, <2>7, <3>1, <3>2, <3>3 DEF OneHeld
  <2>12. InboxOnce'
    BY <2>1, <2>5 DEF InboxOnce
  <2>13. RunPostNeverBlocks'
    BY <2>4, <2>5 DEF RunPostNeverBlocks
  <2> QED BY <2>9, <2>10, <2>11, <2>12, <2>13
<1> QED BY <1>1, <1>2 DEF ParserStep

(* The device answers or loses what is at it; time passes only for what is  *)
(* lost.                                                                    *)
LEMMA PipeDevice ==
  ASSUME Calm, TypeInv, PipeInv, NEW m \in Messages, DeviceStep(m) \/ Expire(m)
  PROVE  PipeInv'
<1> USE DEF PipeInv
<1>1. UNCHANGED <<centerVars, pc, msg, written>>
  BY DEF DeviceStep, DeviceAnswers, DeviceSilent, Expire, threadVars
<1>2. Alone' /\ RunPostNeverBlocks' /\ UNCHANGED <<isRunning, runningMessage, finished, prerunQueue>>
  BY <1>1 DEF Alone, Inside, RunPostNeverBlocks, centerVars
<1>3. \A t \in Threads : Working(t)' <=> Working(t)
  BY <1>1 DEF Working
<1>4. CASE DeviceAnswers(m)
  <2>1. Range(inbox') = Range(inbox) \cup {m} /\ IsInjective(inbox')
    BY <1>4, AppendFacts DEF DeviceAnswers, TypeInv, TypeOK, InboxOnce
  <2>2. InFlight' = InFlight /\ lost' = lost /\ expired' = expired
    BY <1>4, <2>1 DEF DeviceAnswers, InFlight, Range
  <2>3. Held' = Held
    BY <1>2, <2>2 DEF Held
  <2>4. InboxOnce'
    BY <1>4, <2>1 DEF DeviceAnswers, InboxOnce, Range
  <2> QED BY <1>1, <1>2, <1>3, <2>2, <2>3, <2>4 DEF OneWorks, OneHeld
<1>5. CASE DeviceSilent(m)
  <2>1. atDevice' = atDevice \ {m} /\ lost' = lost \cup {m} /\ m \in InFlight /\ m \notin Range(inbox)
        /\ inbox' = inbox /\ expired' = expired
    BY <1>5 DEF DeviceSilent, InFlight, InboxOnce
  <2>2. InFlight' = InFlight \ {m} /\ Range(inbox') = Range(inbox)
    BY <2>1 DEF InFlight, Range
  <2>3. Held' = Held
    BY <1>2, <2>1, <2>2 DEF Held, OneHeld
  <2>4. \A t \in Threads : ~Working(t)
    BY <2>1 DEF OneWorks
  <2>5. \A t \in Threads : ~Working(t)' /\ pc'[t] \notin {"check", "set", "emit", "stamp", "write"}
    BY <1>3, <2>4 DEF Working, FinishPc, RunPc
  <2>6. OneWorks'
    BY <2>5 DEF OneWorks
  <2>7. OneHeld'
    BY <1>1, <1>2, <2>1, <2>2, <2>3, <2>5 DEF OneHeld
  <2>8. InboxOnce'
    BY <2>1, <2>2 DEF InboxOnce
  <2> QED BY <1>2, <2>6, <2>7, <2>8
<1>6. CASE Expire(m)
  <2>1. m \in lost /\ expired' = expired \cup {m}
        /\ UNCHANGED <<atDevice, inbox, lost>>
    BY <1>6 DEF Expire, Calm
  <2>2. InFlight' = InFlight /\ Held' = Held
    BY <1>2, <2>1 DEF InFlight, Held, Range
  <2> QED BY <1>1, <1>2, <1>3, <2>1, <2>2 DEF OneWorks, OneHeld, InboxOnce
<1> QED BY <1>4, <1>5, <1>6 DEF DeviceStep

(* Every step keeps the pipeline to one thread and one command.             *)
LEMMA PipeStep ==
  ASSUME Calm, TypeInv, Accounts, PipeInv, [Next]_vars
  PROVE  PipeInv'
<1>1. CASE Stop \/ UNCHANGED vars
  BY <1>1 DEF Stop, vars, centerVars, deviceVars, threadVars, PipeInv, Alone, Inside, OneWorks, Working,
     OneHeld, Held, InFlight, InboxOnce, RunPostNeverBlocks, Range, IsInjective
<1> QED BY <1>1, PipeCaller, PipeRun, PipeFinish, PipeChecker, PipeParser, PipeDevice DEF Next

(* The accounts and the order of the pipeline hold throughout.              *)
LEMMA Pipeline == Calm => (Spec => [](TypeInv /\ Accounts /\ PipeInv))
<1>1. Init => TypeInv /\ Accounts /\ PipeInv
  BY TypeInit, AccountsInit, PipeInit
<1>2. Calm /\ TypeInv /\ Accounts /\ PipeInv /\ [Next]_vars => TypeInv' /\ Accounts' /\ PipeInv'
  BY TypeStep, AccountsStep, PipeStep
<1>3. SUFFICES ASSUME Calm PROVE Spec => [](TypeInv /\ Accounts /\ PipeInv)
  OBVIOUS
<1>4. TypeInv /\ Accounts /\ PipeInv /\ [Next]_vars => TypeInv' /\ Accounts' /\ PipeInv'
  BY <1>2, <1>3
<1> QED BY <1>1, <1>4, PTL DEF Spec

(* One command at a time is at the device, for any number of callers and    *)
(* commands, with silent devices, raising writes and a stop at any moment.  *)
THEOREM OneAtTheDevice == Calm => (Spec => []OneInFlight)
<1>1. PipeInv => OneInFlight
  <2> SUFFICES ASSUME PipeInv PROVE OneInFlight
    OBVIOUS
  <2>1. \A m \in InFlight : isRunning /\ m = runningMessage
    BY DEF PipeInv, OneHeld, Held
  <2>2. InFlight = {} \/ InFlight = {runningMessage}
    BY <2>1
  <2>3. Cardinality(InFlight) <= 1
    <3>1. CASE InFlight = {}
      <4>1. Cardinality({}) = 0
        BY FS_EmptySet
      <4> QED BY <3>1, <4>1
    <3>2. CASE InFlight = {runningMessage}
      <4>1. Cardinality({runningMessage}) = 1
        BY FS_Singleton
      <4> QED BY <3>2, <4>1
    <3> QED BY <2>2, <3>1, <3>2
  <2> QED BY <2>1, <2>3 DEF OneInFlight, InFlight
<1>2. SUFFICES ASSUME Calm PROVE Spec => []OneInFlight
  OBVIOUS
<1> QED BY <1>1, <1>2, Pipeline, PTL

(* Whatever fails and however the threads interleave, the parser and the    *)
(* checker are not both blocked in run_post: who takes the last command out *)
(* of the queue is the one that runs it.                                    *)
THEOREM OneIsLeft == Spec => []AtMostOneBlocks
<1>1. Init => TypeInv /\ AtMostOneBlocks
  <2>1. Init => AtMostOneBlocks
    BY MessageCenterAssumption DEF Init, AtMostOneBlocks, Threads
  <2> QED BY <2>1, TypeInit
<1>2. TypeInv /\ AtMostOneBlocks /\ [Next]_vars => TypeInv' /\ AtMostOneBlocks'
  <2> SUFFICES ASSUME TypeInv, AtMostOneBlocks, [Next]_vars PROVE AtMostOneBlocks'
    BY TypeStep
  <2> USE KnownThreads, MessageCenterAssumption DEF AtMostOneBlocks, Goto, Home
  <2> DEFINE Kept ==
        /\ prerunQueue' = <<>> => prerunQueue = <<>>
        /\ \A t \in {Parser, Checker} : pc'[t] = "get" => pc[t] = "get" \/ prerunQueue # <<>>
  <2>1. Kept => AtMostOneBlocks'
    OBVIOUS
  <2>2. ASSUME NEW c \in Callers, CallerStep(c) PROVE AtMostOneBlocks'
    <3>1. prerunQueue' = prerunQueue \/ prerunQueue' = Append(prerunQueue, msg[c])
      BY <2>2 DEF CallerStep, CallBegin, RequestRun, RequestPut, ResultSeen, ResultTake, centerVars
    <3>2. prerunQueue' = <<>> => prerunQueue = <<>>
      BY <3>1 DEF TypeInv, TypeOK
    <3>3. \A t \in {Parser, Checker} : pc'[t] = pc[t]
      BY <2>2 DEF CallerStep, CallBegin, RequestRun, RequestPut, ResultSeen, ResultTake, TypeInv, TypeOK
    <3> QED BY <2>1, <3>2, <3>3
  <2>3. ASSUME NEW t \in Threads, RunStep(t) PROVE AtMostOneBlocks'
    <3>1. Kept
      BY <2>3 DEF RunStep, RunMark, RunAssign, RunStamp, RunWrite, RunWriteRaises, centerVars, TypeInv, TypeOK
    <3> QED BY <2>1, <3>1
  <2>4. ASSUME NEW t \in {Parser, Checker}, FinishStep(t) PROVE AtMostOneBlocks'
    <3>1. CASE RunPostGet(t)
      BY <2>4, <3>1 DEF RunPostGet, TypeInv, TypeOK
    <3>2. CASE FinishTest(t) \/ FinishSet(t) \/ FinishEmit(t) \/ RunPostTest(t) \/ RunPostIdle(t)
      <4>1. Kept
        BY <2>4, <3>2 DEF FinishTest, FinishSet, FinishEmit, RunPostTest, RunPostIdle, centerVars,
           TypeInv, TypeOK
      <4> QED BY <2>1, <4>1
    <3> QED BY <2>4, <3>1, <3>2 DEF FinishStep
  <2>5. CASE CheckerStep \/ ParserStep
    <3>1. Kept
      BY <2>5 DEF CheckerStep, TimeoutBegin, TimeoutSpan, TimeoutUnfinished, TimeoutCommand, TimeoutFinish,
         CheckerExit, ParserStep, OnCommandReceive, ParserExit, centerVars, TypeInv, TypeOK
    <3> QED BY <2>1, <3>1
  <2>6. CASE Stop \/ (\E m \in Messages : DeviceStep(m) \/ Expire(m)) \/ UNCHANGED vars
    <3>1. pc' = pc /\ prerunQueue' = prerunQueue
      BY <2>6 DEF Stop, DeviceStep, DeviceAnswers, DeviceSilent, Expire, vars, centerVars, threadVars
    <3> QED BY <3>1
  <2> QED BY <2>2, <2>3, <2>4, <2>5, <2>6 DEF Next
<1> QED BY <1>1, <1>2, PTL DEF Spec

-----------------------------------------------------------------------------
(* One caller, and no write that raises: what is queued, runs, is at the    *)
(* device or is being finished is the command the caller waits for, and     *)
(* once there is a result there is no command any more.                     *)
OneCaller == "write" \notin Faults /\ \A c, d \in Callers : c = d

(* A command method gets the answer to its own command, or the timeout of   *)
(* its own command, although on_command_receive and on_resolve do not look  *)
(* at what was answered.                                                    *)
OwnAnswer ==
  \A m \in Messages : received[m] # None => received[m].of = m

Finishing(t) == pc[t] \in {"check", "set", "emit"}
Serving(t)   == Finishing(t) \/ pc[t] \in RunPc
NothingOpen  == Held = {} /\ prerunQueue = <<>> /\ \A t \in {Parser, Checker} : ~Serving(t)

OwnInv ==
  \A c \in Callers :
    /\ \A m \in Held \cup Range(prerunQueue) : m = msg[c] /\ pc[c] = "wait"
    /\ \A t \in {Parser, Checker} : Serving(t) => msg[t] = msg[c] /\ pc[c] = "wait"
    /\ generatorResult # None =>
         /\ pc[c] \in {"wait", "take", "ready"} /\ NothingOpen
         /\ pc[c] # "ready" => generatorResult.of = msg[c]
    /\ pc[c] = "take" => generatorResult # None

AnswersOwn ==
  /\ \A t \in {Parser, Checker} : Finishing(t) => answer[t].of = msg[t]
  /\ pc[Checker] = "expire" => answer[Checker].of = runningMessage

(* The caller opens a command only after the last one is settled.           *)
LEMMA OwnCaller ==
  ASSUME TypeInv, OwnInv, AnswersOwn, OneCaller, NEW c \in Callers, CallerStep(c)
  PROVE  OwnInv' /\ AnswersOwn' /\ (OwnAnswer => OwnAnswer')
<1> USE KnownThreads
<1>1. PICK l : Goto(c, l) /\ l \in {"request", "enqueue", "mark", "wait", "take", "ready"}
  BY DEF CallerStep, CallBegin, RequestRun, RequestPut, ResultSeen, ResultTake
<1>2. pc'[c] = l /\ \A u \in Threads : u # c => pc'[u] = pc[u]
  BY <1>1, MoveFacts
<1>3. OnlyPlaces /\ answer' = answer /\ \A t \in Threads : t # c => msg'[t] = msg[t]
  BY DEF CallerStep, CallBegin, RequestRun, RequestPut, ResultSeen, ResultTake, OnlyPlaces,
         centerVars, deviceVars, callerVars, TypeInv, TypeOK
<1>4. Held' = Held
  BY <1>3, HeldStays
<1>5. \A t \in {Parser, Checker} : /\ Serving(t)' <=> Serving(t)
                                  /\ Finishing(t)' <=> Finishing(t)
                                  /\ msg'[t] = msg[t]
  BY <1>2, <1>3 DEF Serving, Finishing
<1>6. AnswersOwn'
  BY <1>2, <1>3 DEF AnswersOwn, OnlyPlaces, Finishing
<1>7. Callers = {c}
  BY DEF OneCaller
<1>8. CASE CallBegin(c)
  <2>1. pc[c] = "ready" /\ l = "request" /\ generatorResult' = None /\ prerunQueue' = prerunQueue
        /\ received' = received
    BY <1>2, <1>8, MoveFacts DEF CallBegin, centerVars
  <2>2. Held = {} /\ Range(prerunQueue) = {} /\ \A t \in {Parser, Checker} : ~Serving(t)
    BY <2>1 DEF OwnInv
  <2>3. Range(prerunQueue') = {}
    BY <2>1, <2>2
  <2> QED BY <1>2, <1>4, <1>5, <1>6, <1>7, <2>1, <2>2, <2>3 DEF OwnInv, OwnAnswer, Serving, Finishing
<1>9. CASE RequestRun(c)
  <2>1. pc[c] = "request" /\ l # "take" /\ UNCHANGED <<generatorResult, prerunQueue, received>>
    BY <1>2, <1>9, MoveFacts DEF RequestRun, centerVars, callerVars
  <2>2. Held = {} /\ Range(prerunQueue) = {} /\ generatorResult = None
        /\ \A t \in {Parser, Checker} : ~Serving(t)
    BY <2>1 DEF OwnInv
  <2>3. Range(prerunQueue') = {}
    BY <2>1, <2>2
  <2> QED BY <1>2, <1>4, <1>5, <1>6, <1>7, <2>1, <2>2, <2>3 DEF OwnInv, OwnAnswer, Serving, Finishing
<1>10. CASE RequestPut(c)
  <2>1. pc[c] = "enqueue" /\ l = "wait" /\ UNCHANGED <<generatorResult, received, msg>>
        /\ prerunQueue' = Append(prerunQueue, msg[c])
    BY <1>2, <1>10, MoveFacts DEF RequestPut, callerVars
  <2>2. Held = {} /\ Range(prerunQueue) = {} /\ generatorResult = None
        /\ \A t \in {Parser, Checker} : ~Serving(t)
    BY <2>1 DEF OwnInv
  <2>3. Range(prerunQueue') = {msg[c]}
    <3>1. msg[c] \in Messages /\ prerunQueue \in Seq(Messages)
      BY <2>1 DEF TypeInv, TypeOK, LocalsSet
    <3> QED BY <2>1, <2>2, <3>1, AppendFacts
  <2> QED BY <1>2, <1>4, <1>5, <1>6, <1>7, <2>1, <2>2, <2>3 DEF OwnInv, OwnAnswer, Serving, Finishing
<1>11. CASE ResultSeen(c) \/ ResultTake(c)
  <2>1. /\ \/ /\ pc[c] = "wait" /\ generatorResult # None
              /\ l = "take" /\ received' = received
           \/ /\ pc[c] = "take" /\ l = "ready"
              /\ received' = [received EXCEPT ![msg[c]] = generatorResult]
        /\ UNCHANGED <<generatorResult, prerunQueue, msg>>
    BY <1>2, <1>11, MoveFacts DEF ResultSeen, ResultTake, centerVars, callerVars
  <2>2. generatorResult # None /\ NothingOpen /\ generatorResult.of = msg[c] /\ msg[c] \in Messages
    <3>1. msg[c] \in Messages
      BY <2>1 DEF TypeInv, LocalsSet
    <3> QED BY <2>1, <3>1 DEF OwnInv
  <2>3. NothingOpen'
    <3>1. Held' = {} /\ prerunQueue' = <<>>
      BY <1>4, <2>1, <2>2 DEF NothingOpen
    <3>2. \A t \in {Parser, Checker} : pc'[t] = pc[t] /\ ~Serving(t)
      BY <1>2, <2>2 DEF NothingOpen
    <3>3. \A t \in {Parser, Checker} : ~Serving(t)'
      BY <3>2 DEF Serving, Finishing
    <3> QED BY <3>1, <3>3 DEF NothingOpen
  <2>4. Range(prerunQueue') = {}
    BY <2>3 DEF NothingOpen, Range
  <2>5. OwnInv'
    BY <1>2, <1>7, <2>1, <2>2, <2>3, <2>4 DEF OwnInv, NothingOpen
  <2>6. OwnAnswer => OwnAnswer'
    BY <2>1, <2>2 DEF OwnAnswer, TypeInv, TypeOK
  <2> QED BY <1>6, <2>5, <2>6
<1> QED BY <1>8, <1>9, <1>10, <1>11 DEF CallerStep

(* run() puts the command the caller waits for at the device.               *)
LEMMA OwnRun ==
  ASSUME Calm, TypeInv, Accounts, PipeInv, OwnInv, AnswersOwn, OneCaller,
         NEW t \in Threads, RunStep(t)
  PROVE  OwnInv' /\ AnswersOwn' /\ (OwnAnswer => OwnAnswer')
<1> USE KnownThreads
<1>1. PICK l : Goto(t, l) /\ l \in {"assign", "stamp", "write"} \cup {"wait", "loop"}
  BY DEF RunStep, RunMark, RunAssign, RunStamp, RunWrite, RunWriteRaises, Home, OneCaller
<1>2. pc'[t] = l /\ \A u \in Threads : u # t => pc'[u] = pc[u]
  BY <1>1, MoveFacts
<1>3. pc[t] \in RunPc /\ (t \in Callers => l # "loop") /\ (t \notin Callers => l # "wait")
  BY <1>2, MoveFacts DEF RunStep, RunMark, RunAssign, RunStamp, RunWrite, RunWriteRaises, Home, OneCaller, RunPc,
     Goto, TypeInv, TypeOK
<1>4. UNCHANGED <<prerunQueue, msg, answer, generatorResult, received>>
  BY DEF RunStep, RunMark, RunAssign, RunStamp, RunWrite, RunWriteRaises, OneCaller, centerVars, callerVars, deviceVars
<1>5. Held = {} /\ (Held' = {} \/ (l \in {"wait", "loop"} /\ Held' = {msg[t]}))
  <2>1. Working(t) /\ pc[t] \notin {"check", "set"}
    BY <1>3 DEF Working, FinishPc, RunPc
  <2>2. Held = {}
    BY <2>1 DEF PipeInv, OneWorks, Held
  <2>3. Range(inbox) = {} /\ atDevice = {} /\ lost \subseteq finished
    BY <2>2 DEF Held, InFlight
  <2>4. UNCHANGED <<inbox, lost, finished>>
        /\ (atDevice' = atDevice \/ (l \in {"wait", "loop"} /\ atDevice' = atDevice \cup {msg[t]}))
    BY <1>2, <1>3, MoveFacts DEF RunStep, RunMark, RunAssign, RunStamp, RunWrite, RunWriteRaises, OneCaller, Home,
       centerVars, callerVars, deviceVars
  <2>5. Range(inbox') = {}
    BY <2>3, <2>4
  <2> QED BY <2>2, <2>3, <2>4, <2>5 DEF Held, InFlight
<1>6. generatorResult = None
  <2>1. CASE t \in Callers
    BY <1>3, <2>1 DEF OwnInv, RunPc
  <2>2. CASE t \notin Callers
    <3>1. t \in {Parser, Checker} /\ Serving(t)
      BY <1>3, <2>2 DEF Threads, Serving
    <3>2. PICK c \in Callers : TRUE
      <4>1. msg[t] \in Messages
        BY <1>3 DEF TypeInv, LocalsSet
      <4> QED BY <4>1 DEF Messages
    <3> QED BY <3>1, <3>2 DEF OwnInv, NothingOpen
  <2> QED BY <2>1, <2>2
<1>7. \A u \in Threads : u # t => (Serving(u)' <=> Serving(u))
  BY <1>2 DEF Serving, Finishing
<1>8. t \notin Callers => Serving(t) /\ t \in {Parser, Checker}
  BY <1>3 DEF Serving, Threads
<1>9. OwnInv'
  <2> SUFFICES ASSUME NEW c \in Callers
               PROVE  /\ \A m \in Held' \cup Range(prerunQueue') : m = msg'[c] /\ pc'[c] = "wait"
                      /\ \A u \in {Parser, Checker} : Serving(u)' => msg'[u] = msg'[c] /\ pc'[c] = "wait"
                      /\ pc'[c] # "take"
    BY <1>4, <1>6 DEF OwnInv
  <2>1. /\ \A m \in Range(prerunQueue) : m = msg[c] /\ pc[c] = "wait"
        /\ \A u \in {Parser, Checker} : Serving(u) => msg[u] = msg[c] /\ pc[c] = "wait"
        /\ pc[c] # "take"
    BY <1>6 DEF OwnInv
  <2>2. Range(prerunQueue') = Range(prerunQueue)
    BY <1>4
  <2>3. CASE t \in Callers
    <3>1. t = c
      BY <2>3 DEF OneCaller
    <3>2. Range(prerunQueue) = {} /\ \A u \in {Parser, Checker} : ~Serving(u)
      BY <1>3, <2>1, <3>1 DEF RunPc
    <3> QED BY <1>1, <1>2, <1>3, <1>4, <1>5, <1>7, <2>2, <2>3, <3>1, <3>2
  <2>4. CASE t \notin Callers
    <3>1. msg[t] = msg[c] /\ pc[c] = "wait" /\ pc'[c] = "wait" /\ c # t
      BY <1>2, <1>8, <2>1, <2>4
    <3> QED BY <1>4, <1>5, <1>7, <1>8, <2>1, <2>2, <2>4, <3>1
  <2> QED BY <2>3, <2>4
<1>10. AnswersOwn'
  <2>1. ~Finishing(t)'
    BY <1>1, <1>2 DEF Finishing
  <2>2. pc'[Checker] = "expire" => t # Checker /\ pc[Checker] = "expire"
    BY <1>1, <1>2
  <2>3. pc[Checker] = "expire" => FALSE
    <3>1. Working(t)
      BY <1>3 DEF Working, FinishPc, RunPc
    <3> QED BY <3>1 DEF PipeInv, OneWorks
  <2> QED BY <1>2, <1>4, <2>1, <2>2, <2>3 DEF AnswersOwn, Finishing
<1> QED BY <1>4, <1>9, <1>10 DEF OwnAnswer

(* finish() gives the result of the command the caller waits for.           *)
LEMMA OwnFinish ==
  ASSUME TypeInv, Accounts, PipeInv, OwnInv, AnswersOwn, NEW t \in {Parser, Checker}, FinishStep(t)
  PROVE  OwnInv' /\ AnswersOwn' /\ (OwnAnswer => OwnAnswer')
<1> USE KnownThreads
<1>1. PICK l : Goto(t, l) /\ l \in {"set", "emit", "post", "goIdle", "get", "mark", "loop"}
  BY DEF FinishStep, FinishTest, FinishSet, FinishEmit, RunPostTest, RunPostIdle, RunPostGet, Home
<1>2. pc'[t] = l /\ \A u \in Threads : u # t => pc'[u] = pc[u]
  BY <1>1, MoveFacts
<1>3. \A u \in Threads : u # t => (Serving(u)' <=> Serving(u)) /\ (Finishing(u)' <=> Finishing(u))
  BY <1>2 DEF Serving, Finishing
<1>4. Working(t) /\ \A u \in Threads : u # t => ~Serving(u)
  <2>1. Working(t)
    BY DEF FinishStep, FinishTest, FinishSet, FinishEmit, RunPostTest, RunPostIdle, RunPostGet, Working, FinishPc
  <2>2. \A u \in Threads : u # t => ~Working(u)
    BY <2>1 DEF PipeInv, OneWorks
  <2> QED BY <2>1, <2>2 DEF Working, Serving, Finishing, FinishPc
<1>5. pc[Checker] # "expire" /\ pc'[Checker] # "expire"
  BY <1>1, <1>2, <1>4 DEF PipeInv, OneWorks
<1>6. /\ UNCHANGED <<answer, received, runningMessage>>
      /\ Held' \subseteq Held
  <2>1. UNCHANGED <<answer, received, runningMessage, atDevice, inbox, lost>> /\ finished \subseteq finished'
    BY DEF FinishStep, FinishTest, FinishSet, FinishEmit, RunPostTest, RunPostIdle, RunPostGet,
           centerVars, callerVars, deviceVars
  <2>2. Range(inbox') = Range(inbox)
    BY <2>1
  <2> QED BY <2>1, <2>2 DEF Held, InFlight
<1>7. OwnAnswer => OwnAnswer'
  BY <1>6 DEF OwnAnswer
<1>8. CASE FinishTest(t) \/ FinishSet(t) \/ RunPostTest(t) \/ RunPostIdle(t)
  <2>1. UNCHANGED <<msg, prerunQueue, generatorResult>> /\ (Serving(t)' => Finishing(t)) /\ l # "mark"
    BY <1>1, <1>2, <1>8, MoveFacts DEF FinishTest, FinishSet, RunPostTest, RunPostIdle, Serving, Finishing, RunPc,
       centerVars, callerVars, Home
  <2>2. (Serving(t)' => Serving(t)) /\ (Finishing(t)' => Finishing(t))
    BY <1>1, <1>2, <2>1 DEF Serving, Finishing, RunPc
  <2>3. Range(prerunQueue') = Range(prerunQueue)
    BY <2>1
  <2>4. NothingOpen => NothingOpen'
    BY <1>3, <1>6, <2>1, <2>2 DEF NothingOpen
  <2>5. OwnInv'
    BY <1>2, <1>3, <1>6, <2>1, <2>2, <2>3, <2>4 DEF OwnInv
  <2>6. AnswersOwn'
    BY <1>3, <1>5, <1>6, <2>1, <2>2 DEF AnswersOwn
  <2> QED BY <1>7, <2>5, <2>6
<1>9. CASE FinishEmit(t)
  <2>1. pc[t] = "emit" /\ l = "post" /\ generatorResult' = answer[t] /\ UNCHANGED <<msg, prerunQueue>>
    BY <1>2, <1>9, MoveFacts DEF FinishEmit, centerVars
  <2>2. Finishing(t) /\ Serving(t) /\ ~Serving(t)' /\ ~Finishing(t)'
    BY <1>2, <2>1 DEF Finishing, Serving, RunPc
  <2>3. Held = {} /\ msg[t] \in written
    BY <1>4, <2>1 DEF PipeInv, OneWorks, OneHeld, Held
  <2>4. ASSUME NEW c \in Callers PROVE msg[t] = msg[c] /\ pc[c] = "wait" /\ prerunQueue = <<>>
    <3>1. msg[t] = msg[c] /\ pc[c] = "wait" /\ \A m \in Range(prerunQueue) : m = msg[t]
      BY <2>2 DEF OwnInv
    <3>2. Range(prerunQueue) = {}
      BY <2>3, <3>1 DEF Accounts, RunAtMostOnce
    <3>3. prerunQueue = <<>>
      BY <3>2, TailFacts DEF TypeInv, TypeOK
    <3> QED BY <3>1, <3>3
  <2>5. \A u \in {Parser, Checker} : ~Serving(u)'
    BY <1>3, <1>4, <2>2
  <2>6. Range(prerunQueue') = Range(prerunQueue) /\ Held' = {}
    BY <1>6, <2>1, <2>3
  <2>7. answer[t].of = msg[t]
    BY <2>2 DEF AnswersOwn
  <2>8. OwnInv'
    <3> SUFFICES ASSUME NEW c \in Callers
                 PROVE  /\ \A m \in Held' \cup Range(prerunQueue') : m = msg'[c] /\ pc'[c] = "wait"
                        /\ NothingOpen' /\ pc'[c] = "wait" /\ answer[t].of = msg'[c]
      BY <2>1, <2>5 DEF OwnInv
    <3>1. pc'[c] = "wait" /\ msg'[c] = msg[t] /\ prerunQueue' = <<>>
      BY <1>2, <2>1, <2>4
    <3>2. Range(prerunQueue') = {}
      BY <3>1 DEF Range
    <3> QED BY <2>5, <2>6, <2>7, <3>1, <3>2 DEF NothingOpen
  <2>9. AnswersOwn'
    BY <1>3, <1>4, <1>5, <2>2 DEF AnswersOwn, Serving
  <2> QED BY <1>7, <2>8, <2>9
<1>10. CASE RunPostGet(t)
  <2>1. /\ pc[t] = "get" /\ l = "mark" /\ prerunQueue # <<>> /\ generatorResult' = generatorResult
        /\ msg'[t] = Head(prerunQueue) /\ prerunQueue' = Tail(prerunQueue)
        /\ \A u \in Threads : u # t => msg'[u] = msg[u]
    BY <1>2, <1>10, MoveFacts DEF RunPostGet, callerVars, TypeInv, TypeOK
  <2>2. Head(prerunQueue) \in Range(prerunQueue) /\ Range(prerunQueue') \subseteq Range(prerunQueue)
    BY <2>1, TailFacts DEF TypeInv, TypeOK
  <2>3. OwnInv'
    <3> SUFFICES ASSUME NEW c \in Callers
                 PROVE  /\ \A m \in Held' \cup Range(prerunQueue') : m = msg'[c] /\ pc'[c] = "wait"
                        /\ \A u \in {Parser, Checker} : Serving(u)' => msg'[u] = msg'[c] /\ pc'[c] = "wait"
                        /\ generatorResult' = None /\ pc'[c] # "take"
      BY DEF OwnInv
    <3>1. Head(prerunQueue) = msg[c] /\ pc[c] = "wait" /\ generatorResult = None
      BY <2>1, <2>2 DEF OwnInv, NothingOpen
    <3>2. msg'[c] = msg[c] /\ pc'[c] = "wait"
      BY <1>2, <2>1, <3>1
    <3>3. \A m \in Held' \cup Range(prerunQueue') : m = msg[c]
      BY <1>6, <2>2 DEF OwnInv
    <3> QED BY <1>3, <1>4, <2>1, <3>1, <3>2, <3>3
  <2>4. AnswersOwn'
    <3>1. ~Finishing(t)'
      BY <1>2, <2>1 DEF Finishing
    <3> QED BY <1>3, <1>4, <1>5, <3>1 DEF AnswersOwn, Serving
  <2> QED BY <1>7, <2>3, <2>4
<1> QED BY <1>8, <1>9, <1>10 DEF FinishStep

(* No command is open at first.                                             *)
LEMMA OwnInit == Init => OwnInv /\ AnswersOwn /\ OwnAnswer
<1> SUFFICES ASSUME Init PROVE OwnInv /\ AnswersOwn /\ OwnAnswer
  OBVIOUS
<1> USE KnownThreads
<1>1. \A t \in {Parser, Checker} : pc[t] = "loop"
  BY DEF Init
<1>2. \A c \in Callers : pc[c] = "ready"
  BY DEF Init
<1>3. Held = {} /\ Range(prerunQueue) = {}
  BY DEF Init, Held, InFlight, Range
<1>4. \A t \in {Parser, Checker} : ~Serving(t) /\ ~Finishing(t)
  BY <1>1 DEF Serving, Finishing, RunPc
<1> QED BY <1>1, <1>2, <1>3, <1>4 DEF Init, OwnInv, AnswersOwn, OwnAnswer

(* The checker finishes the one command there is, with its own timeout.     *)
LEMMA OwnChecker ==
  ASSUME TypeInv, PipeInv, OwnInv, AnswersOwn, CheckerStep
  PROVE  OwnInv' /\ AnswersOwn' /\ (OwnAnswer => OwnAnswer')
<1> USE KnownThreads
<1>1. PICK l : Goto(Checker, l)
               /\ l \in {"span", "dead", "unfinished", "loop", "command", "expire", "check", "exited"}
  BY DEF CheckerStep, TimeoutBegin, TimeoutSpan, TimeoutUnfinished, TimeoutCommand, TimeoutFinish, CheckerExit
<1>2. pc'[Checker] = l /\ \A u \in Threads : u # Checker => pc'[u] = pc[u]
  BY <1>1, MoveFacts
<1>3. /\ OnlyPlaces /\ UNCHANGED <<prerunQueue, generatorResult, received>>
      /\ \A u \in Threads : u # Checker => msg'[u] = msg[u] /\ answer'[u] = answer[u]
  BY DEF CheckerStep, TimeoutBegin, TimeoutSpan, TimeoutUnfinished, TimeoutCommand, TimeoutFinish,
         CheckerExit, OnlyPlaces, centerVars, callerVars, deviceVars, TypeInv, TypeOK
<1>4. /\ l = "expire" => answer'[Checker] = [of |-> runningMessage, timeout |-> TRUE]
      /\ l = "check" => /\ pc[Checker] = "expire" /\ msg'[Checker] = runningMessage
                        /\ answer'[Checker] = answer[Checker]
  <2>1. CASE TimeoutCommand
    <3>1. l = "expire"
      BY <1>2, <2>1, MoveFacts DEF TimeoutCommand
    <3> QED BY <2>1, <3>1 DEF TimeoutCommand, TypeInv, TypeOK
  <2>2. CASE TimeoutFinish
    <3>1. l = "check"
      BY <1>2, <2>2, MoveFacts DEF TimeoutFinish
    <3> QED BY <2>2, <3>1 DEF TimeoutFinish, TypeInv, TypeOK
  <2>3. CASE TimeoutBegin \/ TimeoutSpan \/ TimeoutUnfinished \/ CheckerExit
    <3>1. l \notin {"expire", "check"}
      <4>1. PICK k \in {"span", "dead", "unfinished", "loop", "command", "exited"} : Goto(Checker, k)
        BY <2>3 DEF TimeoutBegin, TimeoutSpan, TimeoutUnfinished, CheckerExit
      <4> QED BY <1>2, <4>1, MoveFacts
    <3> QED BY <3>1
  <2> QED BY <2>1, <2>2, <2>3 DEF CheckerStep
<1>5. Held' = Held /\ Range(prerunQueue') = Range(prerunQueue) /\ runningMessage' = runningMessage
  BY <1>3, HeldStays DEF OnlyPlaces
<1>6. /\ Serving(Parser)' <=> Serving(Parser)
      /\ Finishing(Parser)' <=> Finishing(Parser)
      /\ Serving(Checker)' => l = "check"
      /\ Finishing(Checker)' => l = "check"
  BY <1>1, <1>2 DEF Serving, Finishing, RunPc
<1>7. l = "check" => runningMessage \in Held
  BY <1>4 DEF PipeInv, OneHeld, Held
<1>8. OwnInv'
  <2> SUFFICES ASSUME NEW c \in Callers
               PROVE  /\ \A m \in Held \cup Range(prerunQueue) : m = msg[c] /\ pc[c] = "wait"
                      /\ \A t \in {Parser, Checker} : Serving(t)' => msg'[t] = msg[c] /\ pc[c] = "wait"
                      /\ generatorResult # None =>
                           /\ pc[c] \in {"wait", "take", "ready"} /\ NothingOpen'
                           /\ pc[c] # "ready" => generatorResult.of = msg[c]
                      /\ pc[c] = "take" => generatorResult # None
    BY <1>2, <1>3, <1>5 DEF OwnInv
  <2>1. \A t \in {Parser, Checker} : Serving(t)' => msg'[t] = msg[c] /\ pc[c] = "wait"
    BY <1>3, <1>4, <1>6, <1>7 DEF OwnInv
  <2>2. NothingOpen => NothingOpen'
    BY <1>3, <1>5, <1>6, <1>7 DEF NothingOpen
  <2> QED BY <2>1, <2>2 DEF OwnInv
<1>9. AnswersOwn'
  BY <1>2, <1>3, <1>4, <1>5, <1>6 DEF AnswersOwn
<1> QED BY <1>3, <1>8, <1>9 DEF OwnAnswer

(* The parser finishes the one command there is, with the answer to it.     *)
LEMMA OwnParser ==
  ASSUME TypeInv, PipeInv, OwnInv, AnswersOwn, ParserStep
  PROVE  OwnInv' /\ AnswersOwn' /\ (OwnAnswer => OwnAnswer')
<1> USE KnownThreads
<1>1. CASE ParserExit
  <2>1. Goto(Parser, "exited") /\ OnlyPlaces
        /\ UNCHANGED <<msg, answer, prerunQueue, generatorResult, received>>
    BY <1>1 DEF ParserExit, OnlyPlaces, centerVars, callerVars, deviceVars
  <2>2. pc'[Parser] = "exited" /\ \A u \in Threads : u # Parser => pc'[u] = pc[u]
    BY <2>1, MoveFacts
  <2>3. Held' = Held /\ Range(prerunQueue') = Range(prerunQueue) /\ runningMessage' = runningMessage
    BY <2>1, HeldStays DEF OnlyPlaces
  <2>4. \A t \in {Parser, Checker} : (Serving(t)' => Serving(t)) /\ (Finishing(t)' => Finishing(t))
    BY <2>2 DEF Serving, Finishing, RunPc
  <2>5. NothingOpen => NothingOpen'
    BY <2>1, <2>3, <2>4 DEF NothingOpen
  <2>6. OwnInv'
    BY <2>1, <2>2, <2>3, <2>4, <2>5 DEF OwnInv
  <2>7. AnswersOwn'
    BY <2>1, <2>2, <2>3, <2>4 DEF AnswersOwn
  <2> QED BY <2>1, <2>6, <2>7 DEF OwnAnswer
<1>2. CASE OnCommandReceive
  <2> DEFINE m == Head(inbox)
  <2>1. m \in Messages /\ m \in Range(inbox) /\ Range(inbox') \subseteq Range(inbox)
    BY <1>2, TailFacts DEF OnCommandReceive, TypeInv, TypeOK
  <2>2. runningMessage = m /\ m \in Held /\ m \in InFlight
    BY <2>1 DEF PipeInv, OneHeld, Held, InFlight
  <2>3. /\ Goto(Parser, "check") /\ msg' = [msg EXCEPT ![Parser] = m]
        /\ answer' = [answer EXCEPT ![Parser] = [of |-> m, timeout |-> FALSE]]
    BY <1>2, <2>1, <2>2, MessageCenterAssumption DEF OnCommandReceive
  <2>4. /\ pc'[Parser] = "check" /\ msg'[Parser] = m /\ answer'[Parser].of = m
        /\ \A u \in Threads : u # Parser => pc'[u] = pc[u] /\ msg'[u] = msg[u] /\ answer'[u] = answer[u]
    BY <2>3, MoveFacts DEF TypeInv, TypeOK
  <2>5. UNCHANGED <<runningMessage, finished, atDevice, lost, prerunQueue, generatorResult, received>>
    BY <1>2 DEF OnCommandReceive, centerVars, callerVars
  <2>6. Held' \subseteq Held /\ Range(prerunQueue') = Range(prerunQueue)
    BY <2>1, <2>5 DEF Held, InFlight
  <2>7. /\ Serving(Checker)' <=> Serving(Checker)
        /\ Finishing(Checker)' <=> Finishing(Checker)
    BY <2>4 DEF Serving, Finishing
  <2>8. OwnInv'
    <3> SUFFICES ASSUME NEW c \in Callers
                 PROVE  /\ \A n \in Held' \cup Range(prerunQueue') : n = msg'[c] /\ pc'[c] = "wait"
                        /\ \A t \in {Parser, Checker} : Serving(t)' => msg'[t] = msg'[c] /\ pc'[c] = "wait"
                        /\ generatorResult' = None /\ pc'[c] # "take"
      BY DEF OwnInv
    <3>1. m = msg[c] /\ pc[c] = "wait" /\ generatorResult = None
      BY <2>2 DEF OwnInv, NothingOpen
    <3>2. msg'[c] = m /\ pc'[c] = "wait"
      BY <2>4, <3>1
    <3>3. Serving(Checker) => msg[Checker] = m
      BY <3>1 DEF OwnInv
    <3> QED BY <2>4, <2>5, <2>6, <2>7, <3>1, <3>2, <3>3 DEF OwnInv
  <2>9. AnswersOwn'
    BY <2>4, <2>5, <2>7 DEF AnswersOwn
  <2> QED BY <2>5, <2>8, <2>9 DEF OwnAnswer
<1> QED BY <1>1, <1>2 DEF ParserStep

(* What the device and time do changes neither the commands that are open   *)
(* nor what a thread does.                                                  *)
LEMMA OwnDevice ==
  ASSUME TypeInv, PipeInv, OwnInv, AnswersOwn, NEW m \in Messages, DeviceStep(m) \/ Expire(m)
  PROVE  OwnInv' /\ AnswersOwn' /\ (OwnAnswer => OwnAnswer')
<1>1. UNCHANGED <<pc, msg, answer, runningMessage, prerunQueue, finished, generatorResult, received>>
  BY DEF DeviceStep, DeviceAnswers, DeviceSilent, Expire, centerVars, callerVars, threadVars
<1>2. Held' = Held
  <2>1. CASE DeviceAnswers(m)
    <3>1. Range(inbox') = Range(inbox) \cup {m}
      BY <2>1, AppendFacts DEF DeviceAnswers, TypeInv, TypeOK
    <3> QED BY <1>1, <2>1, <3>1 DEF DeviceAnswers, Held, InFlight
  <2>2. CASE DeviceSilent(m)
    <3>1. m \in InFlight /\ m \notin finished
      BY <2>2 DEF DeviceSilent, InFlight, PipeInv, OneHeld
    <3>2. Range(inbox') = Range(inbox)
      BY <2>2 DEF DeviceSilent
    <3> QED BY <1>1, <2>2, <3>1, <3>2 DEF DeviceSilent, Held, InFlight
  <2>3. CASE Expire(m)
    <3>1. Range(inbox') = Range(inbox)
      BY <2>3 DEF Expire
    <3> QED BY <1>1, <2>3, <3>1 DEF Expire, Held, InFlight
  <2> QED BY <2>1, <2>2, <2>3 DEF DeviceStep
<1>3. Range(prerunQueue') = Range(prerunQueue)
  BY <1>1
<1>4. OwnInv'
  BY <1>1, <1>2, <1>3 DEF OwnInv, NothingOpen, Serving, Finishing
<1> QED BY <1>1, <1>4 DEF AnswersOwn, Finishing, OwnAnswer

(* Every step keeps the result and the command together.                    *)
LEMMA OwnStep ==
  ASSUME Calm, OneCaller, TypeInv, Accounts, PipeInv, OwnInv, AnswersOwn, OwnAnswer, [Next]_vars
  PROVE  OwnInv' /\ AnswersOwn' /\ OwnAnswer'
<1>1. CASE Stop \/ UNCHANGED vars
  BY <1>1 DEF Stop, vars, centerVars, callerVars, deviceVars, threadVars, OwnInv, AnswersOwn, OwnAnswer,
     NothingOpen, Serving, Finishing, Held, InFlight, Range
<1> QED BY <1>1, OwnCaller, OwnRun, OwnFinish, OwnChecker, OwnParser, OwnDevice DEF Next

-----------------------------------------------------------------------------
(* The pipeline implements CommandService, step by step: what was written   *)
(* and is not finished is on its way or about to be finished, a result is   *)
(* that of a finished command, and a timeout only if the device is silent.  *)
ToBeSet(t) == pc[t] \in {"check", "set"}

Unfinished ==
  \A m \in written \ finished :
    m \in Held \/ \E t \in {Parser, Checker} : ToBeSet(t) /\ msg[t] = m

ResultsRight ==
  /\ \A t \in {Parser, Checker} : /\ pc[t] = "emit" => msg[t] \in finished
                                  /\ Finishing(t) => (answer[t].timeout <=> msg[t] \in lost)
  /\ pc[Checker] = "expire" => answer[Checker].timeout
  /\ \A c \in Callers :
       generatorResult # None /\ pc[c] \in {"wait", "take"} =>
         msg[c] \in finished /\ (generatorResult.timeout <=> msg[c] \in lost)

ReturnsOnce ==
  /\ \A c \in Callers : pc[c] # "ready" => received[msg[c]] = None
  /\ \A m \in Messages : received[m] # None => m \in Requested

ServedInv == Unfinished /\ ResultsRight /\ ReturnsOnce
PipelineInv == TypeInv /\ Accounts /\ PipeInv /\ OwnInv /\ AnswersOwn

LEMMA ServedInit == Init => ServedInv
<1> SUFFICES ASSUME Init PROVE ServedInv
  OBVIOUS
<1> USE KnownThreads
<1>1. \A t \in {Parser, Checker} : pc[t] = "loop"
  BY DEF Init
<1>2. \A c \in Callers : pc[c] = "ready"
  BY DEF Init
<1>3. written = {} /\ \A m \in Messages : received[m] = None
  BY DEF Init
<1> QED BY <1>1, <1>2, <1>3 DEF ServedInv, Unfinished, ResultsRight, ReturnsOnce, Finishing

(* Steps of the service.                                                    *)
Same == UNCHANGED <<Requested, written, finished, lost, received>>

LEMMA Stutters ==
  ASSUME Same PROVE UNCHANGED Service!vars
BY DEF Same, Service!vars

LEMMA Serves ==
  ASSUME NEW m \in Messages,
         Service!Submit(m) \/ Service!Start(m) \/ Service!Ignore(m) \/ Service!Finish(m) \/ Service!Return(m)
  PROVE  Service!Next
BY DEF Service!Next

(* The active command is the one that was written and is not finished.      *)
LEMMA ActiveIs ==
  /\ written \subseteq finished => (IF written \subseteq finished THEN None
               ELSE CHOOSE m \in Messages : m \in written \ finished) = None
  /\ \A m \in Messages : written \ finished = {m} =>
       (IF written \subseteq finished THEN None
        ELSE CHOOSE n \in Messages : n \in written \ finished) = m
OBVIOUS

(* The one command there is.                                                *)
LEMMA TheOne ==
  ASSUME TypeInv, OwnInv, Unfinished, OneCaller, NEW c \in Callers
  PROVE  \A m \in written \ finished : m = msg[c] /\ pc[c] = "wait"
<1> SUFFICES ASSUME NEW m \in written \ finished PROVE m = msg[c] /\ pc[c] = "wait"
  OBVIOUS
<1>1. CASE m \in Held
  BY <1>1 DEF OwnInv
<1>2. CASE \E t \in {Parser, Checker} : ToBeSet(t) /\ msg[t] = m
  BY <1>2 DEF OwnInv, ToBeSet, Serving, Finishing
<1> QED BY <1>1, <1>2 DEF Unfinished

(* A command is issued, and its result is taken.                            *)
LEMMA ServedCaller ==
  ASSUME PipelineInv, ServedInv, OneCaller, NEW c \in Callers, CallerStep(c)
  PROVE  ServedInv' /\ [Service!Next]_(Service!vars)
<1> USE KnownThreads DEF PipelineInv
<1>1. PICK l : Goto(c, l) /\ l \in {"request", "enqueue", "mark", "wait", "take", "ready"}
  BY DEF CallerStep, CallBegin, RequestRun, RequestPut, ResultSeen, ResultTake
<1>2. pc'[c] = l /\ \A u \in Threads : u # c => pc'[u] = pc[u]
  BY <1>1, MoveFacts
<1>3. OnlyPlaces /\ answer' = answer /\ \A t \in Threads : t # c => msg'[t] = msg[t]
  BY DEF CallerStep, CallBegin, RequestRun, RequestPut, ResultSeen, ResultTake, OnlyPlaces,
         centerVars, deviceVars, callerVars, TypeInv, TypeOK
<1>4. Held' = Held
  BY <1>3, HeldStays
<1>5. Callers = {c}
  BY DEF OneCaller
<1>6. Unfinished'
  BY <1>2, <1>3, <1>4 DEF Unfinished, ServedInv, OnlyPlaces, ToBeSet
<1>7. \A t \in {Parser, Checker} : pc'[t] = pc[t] /\ msg'[t] = msg[t] /\ answer'[t] = answer[t]
  BY <1>2, <1>3
<1>8. CASE CallBegin(c)
  <2> DEFINE m == <<c, calls[c] + 1>>
  <2>1. /\ calls[c] < MaxCalls /\ calls' = [calls EXCEPT ![c] = @ + 1] /\ calls[c] \in Nat
        /\ msg'[c] = m /\ generatorResult' = None /\ received' = received
    BY <1>8 DEF CallBegin, TypeInv, TypeOK
  <2>2. m \in Messages /\ m \notin Requested /\ Requested' = Requested \cup {m}
    <3>1. m \in Messages /\ m \notin Requested
      BY <2>1, MessageCenterAssumption DEF Messages, Requested
    <3>2. ASSUME NEW n \in Messages PROVE n[2] <= calls'[n[1]] <=> n[2] <= calls[n[1]] \/ n = m
      <4>1. n = <<n[1], n[2]>> /\ n[1] = c /\ n[2] \in Nat /\ n[1] \in Callers
        BY <1>5, MessageCenterAssumption DEF Messages
      <4>2. calls'[c] = calls[c] + 1
        BY <2>1 DEF TypeInv, TypeOK
      <4>3. n = m <=> n[2] = calls[c] + 1
        BY <4>1
      <4> QED BY <2>1, <4>1, <4>2, <4>3
    <3> QED BY <3>1, <3>2 DEF Requested
  <2> HIDE DEF m
  <2>3. received[m] = None
    BY <2>2 DEF ServedInv, ReturnsOnce
  <2>4. ReturnsOnce'
    BY <1>5, <2>1, <2>2, <2>3 DEF ServedInv, ReturnsOnce
  <2>5. ResultsRight'
    BY <1>3, <1>7, <2>1 DEF ServedInv, ResultsRight, Finishing, OnlyPlaces
  <2>6. Service!Submit(m)
    BY <1>3, <2>1, <2>2 DEF Service!Submit, OnlyPlaces
  <2>7. Service!Next
    BY <2>2, <2>6, Serves
  <2> QED BY <1>6, <2>4, <2>5, <2>7 DEF ServedInv
<1>9. CASE RequestRun(c) \/ RequestPut(c) \/ ResultSeen(c)
  <2>1. /\ UNCHANGED <<generatorResult, received, calls, msg>> /\ pc[c] # "ready"
        /\ l \in {"wait", "take"} /\ generatorResult # None => pc[c] \in {"wait", "enqueue"}
    BY <1>1, <1>2, <1>9, MoveFacts DEF RequestRun, RequestPut, ResultSeen, callerVars
  <2>2. pc[c] = "enqueue" => generatorResult = None
    BY DEF OwnInv
  <2>3. ResultsRight'
    BY <1>2, <1>3, <1>5, <1>7, <2>1, <2>2 DEF ServedInv, ResultsRight, Finishing, OnlyPlaces
  <2>4. Requested' = Requested
    BY <2>1 DEF Requested
  <2>5. ReturnsOnce'
    BY <1>5, <2>1, <2>4 DEF ServedInv, ReturnsOnce
  <2>6. Same
    BY <1>3, <2>1, <2>4 DEF Same, OnlyPlaces
  <2> QED BY <1>6, <2>3, <2>5, <2>6, Stutters DEF ServedInv
<1>10. CASE ResultTake(c)
  <2>1. /\ pc[c] = "take" /\ l = "ready" /\ UNCHANGED <<generatorResult, calls, msg>>
        /\ received' = [received EXCEPT ![msg[c]] = generatorResult]
    BY <1>2, <1>10, MoveFacts DEF ResultTake, callerVars
  <2>2. msg[c] \in Messages /\ generatorResult \in Results /\ generatorResult.of = msg[c]
    BY <2>1 DEF TypeInv, TypeOK, LocalsSet, OwnInv
  <2>3. msg[c] \in finished /\ (generatorResult.timeout <=> msg[c] \in lost) /\ received[msg[c]] = None
    BY <2>1, <2>2 DEF ServedInv, ResultsRight, ReturnsOnce, TypeInv, TypeOK, OwnInv
  <2>4. generatorResult = [of |-> msg[c], timeout |-> msg[c] \in lost]
    <3>1. generatorResult.timeout \in BOOLEAN
          /\ generatorResult = [of |-> generatorResult.of, timeout |-> generatorResult.timeout]
      BY <2>2 DEF Results
    <3>2. generatorResult.timeout = (msg[c] \in lost)
      BY <2>3, <3>1
    <3> QED BY <2>2, <3>1, <3>2
  <2>5. Requested' = Requested /\ msg[c] \in Requested
    <3>1. msg[c] \in written
      BY <2>3 DEF PipeInv, OneHeld
    <3> QED BY <2>1, <3>1 DEF Requested, Accounts, OnlyIssued
  <2>6. Service!Return(msg[c])
    BY <1>3, <2>1, <2>3, <2>4, <2>5 DEF Service!Return, OnlyPlaces
  <2>7. ResultsRight'
    BY <1>2, <1>3, <1>5, <1>7, <2>1 DEF ServedInv, ResultsRight, Finishing, OnlyPlaces
  <2>8. ReturnsOnce'
    BY <1>2, <1>5, <2>1, <2>2, <2>5 DEF ServedInv, ReturnsOnce, TypeInv, TypeOK
  <2>9. Service!Next
    BY <2>2, <2>6, Serves
  <2> QED BY <1>6, <2>7, <2>8, <2>9 DEF ServedInv
<1> QED BY <1>8, <1>9, <1>10 DEF CallerStep

(* run(): a command is started.                                             *)
LEMMA ServedRun ==
  ASSUME Calm, PipelineInv, ServedInv, OneCaller, NEW t \in Threads, RunStep(t)
  PROVE  ServedInv' /\ [Service!Next]_(Service!vars)
<1> USE KnownThreads DEF PipelineInv
<1>1. PICK l : Goto(t, l) /\ l \in {"assign", "stamp", "write"} \cup {"wait", "loop"}
  BY DEF RunStep, RunMark, RunAssign, RunStamp, RunWrite, RunWriteRaises, Home, OneCaller
<1>2. pc'[t] = l /\ \A u \in Threads : u # t => pc'[u] = pc[u]
  BY <1>1, MoveFacts
<1>3. pc[t] \in RunPc
  BY DEF RunStep, RunMark, RunAssign, RunStamp, RunWrite, RunWriteRaises, RunPc
<1>4. UNCHANGED <<msg, answer, generatorResult, received, calls, finished, lost, inbox>>
  BY DEF RunStep, RunMark, RunAssign, RunStamp, RunWrite, RunWriteRaises, OneCaller, centerVars, callerVars, deviceVars
<1>5. Held = {} /\ \A u \in {Parser, Checker} : ~ToBeSet(u)
  <2>1. Working(t) /\ pc[t] \notin {"check", "set"}
    BY <1>3 DEF Working, FinishPc, RunPc
  <2>2. Held = {}
    BY <2>1 DEF PipeInv, OneWorks, Held
  <2>3. \A u \in Threads : u # t => ~Working(u)
    BY <2>1 DEF PipeInv, OneWorks
  <2> QED BY <2>1, <2>2, <2>3 DEF ToBeSet, Working, FinishPc
<1>6. written \subseteq finished
  BY <1>5 DEF ServedInv, Unfinished
<1>7. Requested' = Requested
  BY <1>4 DEF Requested
<1>8. \A u \in {Parser, Checker} : /\ ~ToBeSet(u)' /\ (pc'[u] = "emit" => pc[u] = "emit")
                                  /\ (Finishing(u)' => Finishing(u)) /\ (pc'[u] = "expire" => pc[u] = "expire")
  BY <1>1, <1>2, <1>5 DEF ToBeSet, Finishing
<1>9. generatorResult # None => t \notin Callers
  BY <1>3 DEF OwnInv, RunPc
<1>10. \A c \in Callers : /\ generatorResult # None => pc'[c] = pc[c]
                          /\ pc'[c] # "ready" => pc[c] # "ready"
  <2>1. pc[t] # "ready"
    BY <1>3 DEF RunPc
  <2> QED BY <1>2, <1>9, <2>1
<1>11. ResultsRight' /\ ReturnsOnce'
  BY <1>4, <1>7, <1>8, <1>10 DEF ServedInv, ResultsRight, ReturnsOnce
<1>12. CASE RunWrite(t)
  <2>1. written' = written \cup {msg[t]} /\ atDevice' = atDevice \cup {msg[t]}
    BY <1>12 DEF RunWrite
  <2>2. msg[t] \in Messages /\ msg[t] \in Requested /\ msg[t] \notin written /\ msg[t] \notin finished
    <3>1. msg[t] \in Messages /\ Holds(t, msg[t])
      BY <1>3 DEF TypeInv, LocalsSet, Holds
    <3> QED BY <3>1 DEF Accounts, OnlyIssued, RunAtMostOnce, PipeInv, OneHeld
  <2>3. written' \ finished' = {msg[t]} /\ ~(written' \subseteq finished')
    BY <1>4, <1>6, <2>1, <2>2
  <2>4. Unfinished'
    BY <2>1, <2>3 DEF Unfinished, Held, InFlight
  <2>5. PICK m \in Messages : m = msg[t]
    BY <2>2
  <2>6. Service!Start(m)
    BY <1>4, <1>6, <1>7, <2>2, <2>3, <2>5, ActiveIs DEF Service!Start
  <2> QED BY <1>11, <2>4, <2>6, Serves DEF ServedInv
<1>13. CASE ~RunWrite(t)
  <2>1. written' = written
    BY <1>13 DEF RunStep, RunMark, RunAssign, RunStamp, RunWriteRaises, OneCaller, deviceVars
  <2>2. Same /\ Unfinished'
    BY <1>4, <1>6, <1>7, <2>1 DEF Same, Unfinished
  <2> QED BY <1>11, <2>2, Stutters DEF ServedInv
<1> QED BY <1>12, <1>13

(* finish(): the command that was started is over.                          *)
LEMMA ServedFinish ==
  ASSUME PipelineInv, ServedInv, OneCaller, NEW t \in {Parser, Checker}, FinishStep(t)
  PROVE  ServedInv' /\ [Service!Next]_(Service!vars)
<1> USE KnownThreads DEF PipelineInv
<1>1. PICK l : Goto(t, l) /\ l \in {"set", "emit", "post", "goIdle", "get", "mark", "loop"}
  BY DEF FinishStep, FinishTest, FinishSet, FinishEmit, RunPostTest, RunPostIdle, RunPostGet, Home
<1>2. pc'[t] = l /\ \A u \in Threads : u # t => pc'[u] = pc[u]
  BY <1>1, MoveFacts
<1>3. Working(t) /\ \A u \in Threads : u # t => ~Working(u)
  <2>1. Working(t)
    BY DEF FinishStep, FinishTest, FinishSet, FinishEmit, RunPostTest, RunPostIdle, RunPostGet, Working, FinishPc
  <2> QED BY <2>1 DEF PipeInv, OneWorks
<1>4. \A u \in {Parser, Checker} : u # t => ~ToBeSet(u)' /\ ~Finishing(u)' /\ ~ToBeSet(u)
  BY <1>2, <1>3 DEF ToBeSet, Finishing, Working, FinishPc
<1>5. pc[Checker] # "expire" /\ pc'[Checker] # "expire"
  BY <1>1, <1>2, <1>3 DEF PipeInv, OneWorks
<1>6. UNCHANGED <<answer, received, calls, written, atDevice, inbox, lost>>
  BY DEF FinishStep, FinishTest, FinishSet, FinishEmit, RunPostTest, RunPostIdle, RunPostGet,
         centerVars, callerVars, deviceVars
<1>7. Requested' = Requested
  BY <1>6 DEF Requested
<1>8. \A c \in Callers : pc'[c] = pc[c] /\ msg'[c] = msg[c]
  <2>1. \A u \in Threads : u # t => msg'[u] = msg[u]
    BY DEF FinishStep, FinishTest, FinishSet, FinishEmit, RunPostTest, RunPostIdle, RunPostGet, TypeInv, TypeOK
  <2> QED BY <1>2, <2>1
<1>9. ReturnsOnce'
  BY <1>6, <1>7, <1>8 DEF ServedInv, ReturnsOnce
<1>10. InFlight = {} /\ InFlight' = {} /\ Range(inbox') = Range(inbox)
  <2>1. InFlight = {} /\ Range(inbox') = Range(inbox)
    BY <1>3, <1>6 DEF PipeInv, OneWorks
  <2> QED BY <1>6, <2>1 DEF InFlight
<1>11. CASE FinishTest(t)
  <2>1. /\ pc[t] = "check" /\ l = IF msg[t] \in finished THEN "post" ELSE "set"
        /\ UNCHANGED <<finished, msg, generatorResult>>
    BY <1>2, <1>11, MoveFacts DEF FinishTest, centerVars, callerVars
  <2>2. Finishing(t) /\ Held' = Held
    BY <1>6, <1>10, <2>1 DEF Finishing, Held
  <2>3. Unfinished'
    <3> SUFFICES ASSUME NEW m \in written \ finished, m \notin Held
                 PROVE  \E u \in {Parser, Checker} : ToBeSet(u)' /\ msg[u] = m
      BY <1>6, <2>1, <2>2 DEF Unfinished
    <3>1. msg[t] = m
      BY <1>4 DEF ServedInv, Unfinished
    <3>2. ToBeSet(t)'
      BY <1>2, <2>1, <3>1 DEF ToBeSet
    <3> QED BY <3>1, <3>2
  <2>4. ResultsRight'
    BY <1>2, <1>4, <1>5, <1>6, <1>8, <2>1, <2>2 DEF ServedInv, ResultsRight, Finishing
  <2>5. Same
    BY <1>6, <1>7, <2>1 DEF Same
  <2> QED BY <1>9, <2>3, <2>4, <2>5, Stutters DEF ServedInv
<1>12. CASE FinishSet(t)
  <2>1. /\ pc[t] = "set" /\ l = "emit" /\ finished' = finished \cup {msg[t]}
        /\ UNCHANGED <<msg, generatorResult>>
    BY <1>2, <1>12, MoveFacts DEF FinishSet, callerVars
  <2>2. Finishing(t) /\ ToBeSet(t) /\ Serving(t) /\ Finishing(t)' /\ msg[t] \in written /\ msg[t] \in Messages
    BY <1>2, <2>1 DEF Finishing, ToBeSet, Serving, PipeInv, OneHeld, TypeInv, LocalsSet
  <2>3. written \ finished \subseteq {msg[t]}
    <3> SUFFICES ASSUME NEW m \in written \ finished PROVE m = msg[t]
      OBVIOUS
    <3>1. PICK c \in Callers : TRUE
      BY <2>2 DEF Messages
    <3>2. m = msg[c] /\ msg[t] = msg[c]
      BY <2>2, TheOne DEF ServedInv, OwnInv
    <3> QED BY <3>2
  <2>4. written' \subseteq finished'
    BY <1>6, <2>1, <2>3
  <2>5. Unfinished'
    BY <2>4 DEF Unfinished
  <2>6. ResultsRight'
    BY <1>2, <1>4, <1>5, <1>6, <1>8, <2>1, <2>2 DEF ServedInv, ResultsRight
  <2>7. CASE msg[t] \in finished
    <3>1. Same
      BY <1>6, <1>7, <2>1, <2>7 DEF Same
    <3> QED BY <1>9, <2>5, <2>6, <3>1, Stutters DEF ServedInv
  <2>8. CASE msg[t] \notin finished
    <3>1. written \ finished = {msg[t]} /\ ~(written \subseteq finished)
      BY <2>2, <2>3, <2>8
    <3>2. PICK m \in Messages : m = msg[t]
      BY <2>2
    <3>3. Service!Finish(m)
      BY <1>6, <1>7, <2>1, <2>2, <2>4, <3>1, <3>2, ActiveIs DEF Service!Finish
    <3> QED BY <1>9, <2>5, <2>6, <3>3, Serves DEF ServedInv
  <2> QED BY <2>7, <2>8
<1>13. CASE FinishEmit(t) \/ RunPostTest(t) \/ RunPostIdle(t) \/ RunPostGet(t)
  <2>1. /\ pc[t] \notin {"check", "set"} /\ pc'[t] \notin {"check", "set", "emit"} /\ finished' = finished
        /\ FinishEmit(t) \/ generatorResult' = generatorResult
    BY <1>1, <1>2, <1>13, MoveFacts DEF FinishEmit, RunPostTest, RunPostIdle, RunPostGet, Home, centerVars, callerVars
  <2>2. written \subseteq finished
    <3>1. lost \ finished = {}
      BY <1>3, <2>1 DEF PipeInv, OneWorks
    <3>2. Held = {} /\ \A u \in {Parser, Checker} : ~ToBeSet(u)
      BY <1>4, <1>10, <2>1, <3>1 DEF Held, ToBeSet
    <3> QED BY <3>2 DEF ServedInv, Unfinished
  <2>3. Unfinished' /\ Same
    BY <1>6, <1>7, <2>1, <2>2 DEF Unfinished, Same
  <2>4. ~Finishing(t)' /\ pc'[t] # "emit"
    BY <2>1 DEF Finishing
  <2>5. \A c \in Callers : generatorResult' # None /\ pc'[c] \in {"wait", "take"} =>
          msg'[c] \in finished' /\ (generatorResult'.timeout <=> msg'[c] \in lost')
    <3>1. CASE generatorResult' = generatorResult
      BY <1>6, <1>8, <2>1, <3>1 DEF ServedInv, ResultsRight
    <3>2. CASE FinishEmit(t)
      <4>1. generatorResult' = answer[t] /\ pc[t] = "emit"
        BY <3>2 DEF FinishEmit
      <4>2. msg[t] \in finished /\ (answer[t].timeout <=> msg[t] \in lost) /\ Serving(t)
        BY <4>1 DEF ServedInv, ResultsRight, Finishing, Serving
      <4>3. \A c \in Callers : msg[t] = msg[c]
        BY <4>2 DEF OwnInv
      <4> QED BY <1>6, <1>8, <2>1, <4>1, <4>2, <4>3
    <3> QED BY <2>1, <3>1, <3>2
  <2>6. ResultsRight'
    BY <1>4, <1>5, <2>4, <2>5 DEF ResultsRight, Finishing
  <2> QED BY <1>9, <2>3, <2>6, Stutters DEF ServedInv
<1> QED BY <1>11, <1>12, <1>13 DEF FinishStep

(* The checker and the parser take up the command that is over.             *)
LEMMA ServedChecker ==
  ASSUME PipelineInv, ServedInv, OneCaller, CheckerStep
  PROVE  ServedInv' /\ [Service!Next]_(Service!vars)
<1> USE KnownThreads DEF PipelineInv
<1>1. PICK l : Goto(Checker, l)
               /\ l \in {"span", "dead", "unfinished", "loop", "command", "expire", "check", "exited"}
  BY DEF CheckerStep, TimeoutBegin, TimeoutSpan, TimeoutUnfinished, TimeoutCommand, TimeoutFinish, CheckerExit
<1>2. pc'[Checker] = l /\ \A u \in Threads : u # Checker => pc'[u] = pc[u]
  BY <1>1, MoveFacts
<1>3. /\ OnlyPlaces /\ UNCHANGED <<generatorResult, received, calls>>
      /\ \A u \in Threads : u # Checker => msg'[u] = msg[u] /\ answer'[u] = answer[u]
  BY DEF CheckerStep, TimeoutBegin, TimeoutSpan, TimeoutUnfinished, TimeoutCommand, TimeoutFinish,
         CheckerExit, OnlyPlaces, centerVars, callerVars, deviceVars, TypeInv, TypeOK
<1>4. Held' = Held
  BY <1>3, HeldStays
<1>5. pc[Checker] \notin {"check", "set", "emit"}
  <2>1. pc[Checker] \in {"loop", "span", "unfinished", "command", "expire"}
    BY DEF CheckerStep, TimeoutBegin, TimeoutSpan, TimeoutUnfinished, TimeoutCommand, TimeoutFinish, CheckerExit
  <2> QED BY <2>1
<1>6. /\ l = "expire" => answer'[Checker].timeout
      /\ l = "check" => /\ pc[Checker] = "expire" /\ msg'[Checker] = runningMessage
                        /\ answer'[Checker] = answer[Checker]
  <2>1. CASE TimeoutCommand
    <3>1. l = "expire"
      BY <1>2, <2>1, MoveFacts DEF TimeoutCommand
    <3>2. answer'[Checker] = [of |-> runningMessage, timeout |-> TRUE]
      BY <2>1 DEF TimeoutCommand, TypeInv, TypeOK
    <3> QED BY <3>1, <3>2
  <2>2. CASE TimeoutFinish
    <3>1. l = "check"
      BY <1>2, <2>2, MoveFacts DEF TimeoutFinish
    <3> QED BY <2>2, <3>1 DEF TimeoutFinish, TypeInv, TypeOK
  <2>3. CASE TimeoutBegin \/ TimeoutSpan \/ TimeoutUnfinished \/ CheckerExit
    <3>1. PICK k \in {"span", "dead", "unfinished", "loop", "command", "exited"} : Goto(Checker, k)
      BY <2>3 DEF TimeoutBegin, TimeoutSpan, TimeoutUnfinished, CheckerExit
    <3>2. l = k
      BY <1>2, <3>1, MoveFacts
    <3> QED BY <3>1, <3>2
  <2> QED BY <2>1, <2>2, <2>3 DEF CheckerStep
<1>7. Unfinished'
  <2> SUFFICES ASSUME NEW m \in written \ finished, m \notin Held
               PROVE  \E u \in {Parser, Checker} : ToBeSet(u)' /\ msg'[u] = m
    BY <1>3, <1>4 DEF Unfinished, OnlyPlaces
  <2>1. ToBeSet(Parser) /\ msg[Parser] = m
    BY <1>5 DEF ServedInv, Unfinished, ToBeSet
  <2> QED BY <1>2, <1>3, <2>1 DEF ToBeSet
<1>8. l = "check" => answer'[Checker].timeout /\ msg'[Checker] \in lost
  BY <1>6 DEF ServedInv, ResultsRight, PipeInv, OneHeld
<1>9. ResultsRight'
  <2>1. pc'[Checker] # "emit" /\ (Finishing(Checker)' => l = "check")
    BY <1>1, <1>2 DEF Finishing
  <2>2. /\ Finishing(Parser)' <=> Finishing(Parser)
        /\ pc'[Parser] = pc[Parser] /\ msg'[Parser] = msg[Parser] /\ answer'[Parser] = answer[Parser]
    BY <1>2, <1>3 DEF Finishing
  <2>3. \A c \in Callers : pc'[c] = pc[c] /\ msg'[c] = msg[c]
    BY <1>2, <1>3
  <2>4. finished' = finished /\ lost' = lost
    BY <1>3 DEF OnlyPlaces
  <2> QED BY <1>2, <1>3, <1>6, <1>8, <2>1, <2>2, <2>3, <2>4 DEF ServedInv, ResultsRight
<1>10. Requested' = Requested
  BY <1>3 DEF Requested
<1>11. ReturnsOnce'
  BY <1>2, <1>3, <1>10 DEF ServedInv, ReturnsOnce
<1>12. Same
  BY <1>3, <1>10 DEF Same, OnlyPlaces
<1> QED BY <1>7, <1>9, <1>11, <1>12, Stutters DEF ServedInv

(* An answer that is parsed is in the hands of the parser, for the running *)
(* command, which the device did not keep silent on.                        *)
LEMMA ServedParser ==
  ASSUME PipelineInv, ServedInv, OneCaller, ParserStep
  PROVE  ServedInv' /\ [Service!Next]_(Service!vars)
<1> USE KnownThreads DEF PipelineInv
<1>1. UNCHANGED <<runningMessage, finished, written, atDevice, lost, generatorResult, received, calls>>
      /\ \A u \in Threads : u # Parser => pc'[u] = pc[u] /\ msg'[u] = msg[u] /\ answer'[u] = answer[u]
      /\ pc[Parser] = "loop"
  BY DEF ParserStep, OnCommandReceive, ParserExit, Goto, centerVars, callerVars, deviceVars, TypeInv, TypeOK
<1>2. Requested' = Requested
  BY <1>1 DEF Requested
<1>3. Same
  BY <1>1, <1>2 DEF Same
<1>4. ReturnsOnce'
  BY <1>1, <1>2 DEF ServedInv, ReturnsOnce
<1>5. /\ \A m \in Held \ Held' : ToBeSet(Parser)' /\ msg'[Parser] = m
      /\ pc'[Parser] # "emit"
      /\ Finishing(Parser)' => ~answer'[Parser].timeout /\ msg'[Parser] \notin lost
  <2>1. CASE ParserExit
    <3>1. inbox' = inbox /\ pc'[Parser] = "exited"
      BY <2>1, MoveFacts DEF ParserExit, deviceVars
    <3>2. Held' = Held
      BY <1>1, <3>1 DEF Held, InFlight, Range
    <3> QED BY <3>1, <3>2 DEF Finishing
  <2>2. CASE OnCommandReceive
    <3> DEFINE m == Head(inbox)
    <3>1. m \in Messages /\ m \in Range(inbox) /\ Range(inbox) = Range(inbox') \cup {m}
      BY <2>2, TailFacts DEF OnCommandReceive, TypeInv, TypeOK
    <3>2. runningMessage = m /\ m \in InFlight /\ m \notin lost
      BY <3>1 DEF PipeInv, OneHeld, Held, InFlight
    <3>3. pc'[Parser] = "check" /\ msg'[Parser] = m /\ answer'[Parser] = [of |-> m, timeout |-> FALSE]
      BY <2>2, <3>1, <3>2, MessageCenterAssumption DEF OnCommandReceive, Goto, TypeInv, TypeOK
    <3>4. Held \ Held' \subseteq {m}
      BY <1>1, <3>1 DEF Held, InFlight
    <3> QED BY <3>2, <3>3, <3>4 DEF ToBeSet
  <2> QED BY <2>1, <2>2 DEF ParserStep
<1>6. Unfinished'
  <2> SUFFICES ASSUME NEW m \in written \ finished, m \notin Held'
               PROVE  \E u \in {Parser, Checker} : ToBeSet(u)' /\ msg'[u] = m
    BY <1>1 DEF Unfinished
  <2>1. CASE m \in Held
    BY <1>5, <2>1
  <2>2. CASE m \notin Held
    <3>1. ToBeSet(Checker) /\ msg[Checker] = m
      BY <1>1, <2>2 DEF ServedInv, Unfinished, ToBeSet
    <3> QED BY <1>1, <3>1 DEF ToBeSet
  <2> QED BY <2>1, <2>2
<1>7. ResultsRight'
  <2>1. /\ Finishing(Checker)' <=> Finishing(Checker)
        /\ pc'[Checker] = pc[Checker] /\ msg'[Checker] = msg[Checker] /\ answer'[Checker] = answer[Checker]
    BY <1>1 DEF Finishing
  <2>2. \A c \in Callers : pc'[c] = pc[c] /\ msg'[c] = msg[c]
    BY <1>1
  <2> QED BY <1>1, <1>5, <2>1, <2>2 DEF ServedInv, ResultsRight
<1> QED BY <1>3, <1>4, <1>6, <1>7, Stutters DEF ServedInv

(* The device is silent on the command it works on.                         *)
LEMMA ServedDevice ==
  ASSUME PipelineInv, ServedInv, OneCaller, NEW m \in Messages, DeviceStep(m) \/ Expire(m)
  PROVE  ServedInv' /\ [Service!Next]_(Service!vars)
<1> USE KnownThreads DEF PipelineInv
<1>1. UNCHANGED <<pc, msg, answer, written, finished, generatorResult, received, calls>>
  BY DEF DeviceStep, DeviceAnswers, DeviceSilent, Expire, centerVars, callerVars, threadVars
<1>2. Requested' = Requested
  BY <1>1 DEF Requested
<1>3. ReturnsOnce'
  BY <1>1, <1>2 DEF ServedInv, ReturnsOnce
<1>4. Held \subseteq Held'
  <2>1. CASE DeviceAnswers(m)
    <3>1. Range(inbox') = Range(inbox) \cup {m}
      BY <2>1, AppendFacts DEF DeviceAnswers, TypeInv, TypeOK
    <3> QED BY <1>1, <2>1, <3>1 DEF DeviceAnswers, Held, InFlight
  <2>2. CASE DeviceSilent(m)
    <3>1. m \in InFlight /\ m \notin finished
      BY <2>2 DEF DeviceSilent, InFlight, PipeInv, OneHeld
    <3>2. Range(inbox') = Range(inbox)
      BY <2>2 DEF DeviceSilent
    <3> QED BY <1>1, <2>2, <3>1, <3>2 DEF DeviceSilent, Held, InFlight
  <2>3. CASE Expire(m)
    <3>1. Range(inbox') = Range(inbox)
      BY <2>3 DEF Expire
    <3> QED BY <1>1, <2>3, <3>1 DEF Expire, Held, InFlight
  <2> QED BY <2>1, <2>2, <2>3 DEF DeviceStep
<1>5. Unfinished'
  BY <1>1, <1>4 DEF ServedInv, Unfinished, ToBeSet
<1>6. CASE DeviceSilent(m)
  <2>1. m \in atDevice /\ m \in InFlight /\ m \in Held /\ lost' = lost \cup {m}
    BY <1>6 DEF DeviceSilent, InFlight, Held
  <2>2. m \in written \ finished /\ m \notin lost
    BY <2>1 DEF PipeInv, OneHeld
  <2>3. \A t \in {Parser, Checker} : ~Finishing(t)
    BY <2>1 DEF PipeInv, OneWorks, Working, FinishPc, Finishing
  <2>4. generatorResult = None \/ \A c \in Callers : pc[c] = "ready"
    BY <2>1 DEF OwnInv, NothingOpen
  <2>5. ResultsRight'
    BY <1>1, <2>3, <2>4 DEF ServedInv, ResultsRight, Finishing
  <2>6. written \ finished = {m} /\ ~(written \subseteq finished)
    <3>1. PICK c \in Callers : TRUE
      BY DEF Messages
    <3>2. \A n \in written \ finished : n = msg[c]
      BY TheOne DEF ServedInv
    <3> QED BY <2>2, <3>2
  <2>7. Service!Ignore(m)
    BY <1>1, <1>2, <2>1, <2>2, <2>6, ActiveIs DEF Service!Ignore
  <2>8. Service!Next
    BY <2>7, Serves
  <2> QED BY <1>3, <1>5, <2>5, <2>8 DEF ServedInv
<1>7. CASE DeviceAnswers(m) \/ Expire(m)
  <2>1. lost' = lost
    BY <1>7 DEF DeviceAnswers, Expire
  <2>2. ResultsRight' /\ Same
    BY <1>1, <1>2, <2>1 DEF ServedInv, ResultsRight, Same, Finishing
  <2> QED BY <1>3, <1>5, <2>2, Stutters DEF ServedInv
<1> QED BY <1>6, <1>7 DEF DeviceStep

(* Every step of the pipeline.                                              *)
LEMMA ServedStep ==
  ASSUME Calm, OneCaller, PipelineInv, ServedInv, [Next]_vars
  PROVE  ServedInv' /\ [Service!Next]_(Service!vars)
<1>1. CASE Stop \/ UNCHANGED vars
  <2>1. UNCHANGED <<centerVars, callerVars, deviceVars, threadVars>>
    BY <1>1 DEF Stop, vars
  <2>2. Same
    BY <2>1 DEF Same, Requested, centerVars, callerVars, deviceVars
  <2>3. ServedInv'
    BY <2>1 DEF ServedInv, Unfinished, ResultsRight, ReturnsOnce, Held, InFlight, ToBeSet, Finishing, Range,
       Requested, centerVars, callerVars, deviceVars, threadVars
  <2> QED BY <2>2, <2>3, Stutters
<1> QED BY <1>1, ServedCaller, ServedRun, ServedFinish, ServedChecker, ServedParser, ServedDevice DEF Next

(* The safety half of ServesCommands, for any number of commands: every     *)
(* step of the pipeline is one of the service or invisible.                 *)
THEOREM CommandsAreServed ==
  Calm /\ OneCaller => (Spec => Service!Init /\ [][Service!Next]_(Service!vars))
<1>1. SUFFICES ASSUME Calm, OneCaller PROVE Spec => Service!Init /\ [][Service!Next]_(Service!vars)
  OBVIOUS
<1>2. Init => Service!Init
  <2> SUFFICES ASSUME Init PROVE Service!Init
    OBVIOUS
  <2>1. written \subseteq finished /\ lost = {} /\ finished = {} /\ received = [m \in Messages |-> None]
    BY DEF Init
  <2>2. Requested = {}
    BY MessageCenterAssumption DEF Init, Requested, Messages
  <2> QED BY <2>1, <2>2 DEF Service!Init
<1>3. TypeInv /\ Accounts /\ PipeInv /\ OwnInv /\ AnswersOwn /\ OwnAnswer /\ [Next]_vars
        => OwnInv' /\ AnswersOwn' /\ OwnAnswer'
  BY <1>1, OwnStep
<1>4. TypeInv /\ Accounts /\ PipeInv /\ OwnInv /\ AnswersOwn /\ ServedInv /\ [Next]_vars
        => ServedInv' /\ [Service!Next]_(Service!vars)
  BY <1>1, ServedStep DEF PipelineInv
<1>5. Spec => [](TypeInv /\ Accounts /\ PipeInv)
  BY <1>1, Pipeline
<1> QED BY <1>2, <1>3, <1>4, <1>5, OwnInit, ServedInit, PTL DEF Spec

-----------------------------------------------------------------------------
(* One caller so far, and any fault: late answers, preemption, writes that  *)
(* raise.  Until a command before the latest one has timed out, all that    *)
(* moves in the pipeline belongs to the latest command.                     *)
Sole          == \A c, d \in Callers : calls[c] # 0 /\ calls[d] # 0 => c = d
OnlyCaller(c) == \A d \in Callers \ {c} : calls[d] = 0
Latest(m)     == m[2] = calls[m[1]]
Fresh         == \A m \in expired : Latest(m)

(* Nothing is at the device, on its way back, taken up or to be run.        *)
Idle == atDevice = {} /\ inbox = <<>> /\ ~Finishing(Parser) /\ Requested \subseteq written

Traced ==
  /\ started \subseteq Requested /\ expired \subseteq started /\ InFlight \subseteq written
  /\ \A c \in Callers : pc[c] # "ready" => msg[c] \in Messages /\ Latest(msg[c]) /\ msg[c][1] = c

(* What is not written yet or on its way back is the latest command, and it *)
(* is in one place.                                                         *)
OnePlace == Fresh =>
  /\ \A m \in InFlight \cup (Requested \ written) : Latest(m)
  /\ Len(inbox) <= 1 /\ (inbox # <<>> => atDevice = {})
  /\ Finishing(Parser) => /\ atDevice = {} /\ inbox = <<>> /\ ~answer[Parser].timeout
                          /\ answer[Parser].of \in written /\ Latest(answer[Parser].of)

(* The latest command runs once it was started; the checker times out a     *)
(* command that is too old.                                                 *)
LatestRuns == Fresh =>
  /\ (\E m \in started : Latest(m)) => runningMessage \in Messages /\ Latest(runningMessage)
  /\ \A t \in Threads : pc[t] = "stamp" => runningMessage = msg[t]
  /\ pc[Checker] \in {"unfinished", "command"} => runningMessage \in expired
  /\ pc[Checker] \in {"expire", "check", "set", "emit"} =>
       answer[Checker].timeout /\ answer[Checker].of \in expired

(* A result that a caller may see is that of its command.                   *)
ResultLatest == Fresh /\ generatorResult # None =>
  \A c \in Callers : pc[c] # "ready" =>
    Latest(generatorResult.of) /\ (generatorResult.timeout => generatorResult.of \in expired)

(* While no command has timed out a caller that has its result, or is about *)
(* to issue another command, leaves nothing behind.                         *)
NothingBehind == expired = {} =>
  \A c \in Callers :
    OnlyCaller(c) /\ (pc[c] \in {"ready", "take"} \/ (generatorResult # None /\ pc[c] # "ready")) =>
      pc[c] \in {"ready", "wait", "take"} /\ Idle

(* What OwnUnlessTimeout says, of all commands.                             *)
OwnBefore ==
  \A m \in Messages : received[m] # None =>
    \/ received[m].of = m /\ (received[m].timeout => m \in expired)
    \/ \E e \in expired : e[2] < m[2]

AstrayInv ==
  /\ Traced /\ OnePlace /\ LatestRuns /\ ResultLatest /\ NothingBehind /\ OwnBefore

(* A queue of one is empty when its head is taken.                          *)
LEMMA TailOfOne ==
  ASSUME NEW S, NEW q \in Seq(S), q # <<>>, Len(q) <= 1
  PROVE  Tail(q) = <<>> /\ Len(Tail(q)) = 0
<1>1. Len(q) \in Nat /\ Len(q) # 0
  OBVIOUS
<1>2. Len(q) = 1
  BY <1>1
<1>3. Tail(q) \in Seq(S) /\ Len(Tail(q)) = Len(q) - 1
  OBVIOUS
<1>4. Len(Tail(q)) = 0
  BY <1>2, <1>3
<1>5. \A r \in Seq(S) : Len(r) = 0 => r = <<>>
  OBVIOUS
<1> QED BY <1>3, <1>4, <1>5

(* There is one latest command.                                             *)
LEMMA OneLatest ==
  ASSUME Sole, NEW m \in Messages, NEW n \in Messages, Latest(m), Latest(n)
  PROVE  m = n
BY MessageCenterAssumption DEF Sole, Latest, Messages

(* A thread that holds a command holds the latest, which is nowhere else.   *)
LEMMA HoldsLatest ==
  ASSUME Sole, TypeInv, Accounts, AstrayInv, Fresh,
         NEW t \in Threads, NEW m \in Messages, Holds(t, m)
  PROVE  /\ Latest(m) /\ m \notin written
         /\ atDevice = {} /\ inbox = <<>> /\ ~Finishing(Parser)
         /\ \A u \in Threads : u # t => pc[u] \notin {"request", "enqueue"} \cup RunPc
<1>1. m \in Requested /\ m \notin written
  BY DEF Accounts, OnlyIssued, RunAtMostOnce
<1>2. Latest(m)
  BY <1>1 DEF AstrayInv, OnePlace
<1>3. InFlight \subseteq Messages
  <2>1. Range(inbox) \subseteq Messages
    BY DEF TypeInv, TypeOK, Range
  <2> QED BY <2>1 DEF InFlight, TypeInv, TypeOK
<1>4. \A n \in InFlight : n = m
  BY <1>2, <1>3, OneLatest DEF AstrayInv, OnePlace
<1>5. InFlight = {}
  BY <1>1, <1>4 DEF AstrayInv, Traced
<1>6. inbox = <<>>
  <2>1. inbox # <<>> => Head(inbox) \in Range(inbox)
    BY TailFacts DEF TypeInv, TypeOK
  <2> QED BY <1>5, <2>1 DEF InFlight
<1>7. ~Finishing(Parser)
  <2> SUFFICES ASSUME Finishing(Parser) PROVE FALSE
    OBVIOUS
  <2>1. answer[Parser].of \in written /\ Latest(answer[Parser].of)
    BY DEF AstrayInv, OnePlace
  <2>2. answer[Parser].of \in Messages
    BY <2>1 DEF TypeInv, TypeOK
  <2> QED BY <1>1, <1>2, <2>1, <2>2, OneLatest
<1>8. ASSUME NEW u \in Threads, u # t, pc[u] \in {"request", "enqueue"} \cup RunPc PROVE FALSE
  <2>1. msg[u] \in Messages /\ Holds(u, msg[u])
    BY <1>8 DEF TypeInv, LocalsSet, Holds
  <2>2. msg[u] \in Requested /\ msg[u] \notin written
    BY <2>1 DEF Accounts, OnlyIssued, RunAtMostOnce
  <2>3. msg[u] = m
    BY <1>2, <2>1, <2>2, OneLatest DEF AstrayInv, OnePlace
  <2> QED BY <1>8, <2>1, <2>3 DEF Accounts, RunAtMostOnce
<1> QED BY <1>1, <1>2, <1>5, <1>6, <1>7, <1>8 DEF InFlight

LEMMA AstrayInit == Init => AstrayInv
<1> SUFFICES ASSUME Init PROVE AstrayInv
  OBVIOUS
<1>1. /\ \A c \in Callers : pc[c] = "ready"
      /\ pc[Parser] = "loop" /\ pc[Checker] = "loop"
      /\ \A t \in Threads : pc[t] \in {"ready", "loop"}
  BY KnownThreads, MessageCenterAssumption DEF Init
<1>2. Range(inbox) = {} /\ InFlight = {} /\ Len(inbox) = 0
  BY DEF Init, Range, InFlight
<1>3. Requested = {}
  BY MessageCenterAssumption DEF Init, Requested, Messages
<1>4. Idle
  BY <1>1, <1>3 DEF Init, Idle, Finishing
<1>5. Traced /\ OnePlace
  BY <1>1, <1>2, <1>3 DEF Init, Traced, OnePlace, Finishing
<1>6. LatestRuns /\ ResultLatest /\ NothingBehind
  BY <1>1, <1>4 DEF Init, LatestRuns, ResultLatest, NothingBehind
<1>7. OwnBefore
  BY DEF Init, OwnBefore
<1> QED BY <1>5, <1>6, <1>7 DEF AstrayInv

(* A new command: unless one before it timed out, nothing is left of those. *)
LEMMA AstrayCallBegin ==
  ASSUME Sole', TypeInv, Accounts, AstrayInv, NEW c \in Callers, CallBegin(c)
  PROVE  AstrayInv'
<1> USE KnownThreads
<1>0. PICK new : new = <<c, calls[c] + 1>>
  OBVIOUS
<1>1. /\ pc[c] = "ready" /\ calls[c] \in Nat /\ new \in Messages
      /\ calls'[c] = calls[c] + 1 /\ \A d \in Callers \ {c} : calls'[d] = calls[d]
      /\ Goto(c, "request") /\ msg' = [msg EXCEPT ![c] = new] /\ generatorResult' = None
      /\ UNCHANGED <<runningMessage, started, written, atDevice, inbox, expired, answer, received>>
  BY <1>0, MessageCenterAssumption DEF CallBegin, TypeInv, TypeOK, Messages, centerVars, deviceVars
<1>only. OnlyCaller(c) /\ \A d \in Callers : OnlyCaller(d)' => d = c
  BY <1>1 DEF Sole, OnlyCaller
<1>2. pc'[c] = "request" /\ \A u \in Threads : u # c => pc'[u] = pc[u] /\ msg'[u] = msg[u]
  BY <1>1, MoveFacts DEF TypeInv, TypeOK
<1>3. /\ Requested' = Requested \cup {new} /\ new \notin Requested
      /\ new[2] = calls'[c] /\ \A m \in Requested : m[2] # calls'[m[1]]
  <2>1. \A m \in Messages : m[2] \in Nat \ {0} /\ (m[1] = c => (m = new <=> m[2] = calls[c] + 1))
    BY <1>0, <1>1 DEF Messages
  <2>2. \A m \in Messages : m[1] # c => m[1] \in Callers /\ calls[m[1]] = 0 /\ calls'[m[1]] = 0
    BY <1>1, <1>only DEF Messages, OnlyCaller
  <2>3. new[1] = c /\ new[2] = calls[c] + 1
    BY <1>0
  <2>4. \A m \in Messages : m[1] # c => m # new /\ m \notin Requested /\ m \notin Requested'
    BY <2>1, <2>2, <2>3 DEF Requested
  <2>5. \A m \in Messages : m[1] = c => (m \in Requested <=> m[2] <= calls[c]) /\ (m \in Requested' <=> m[2] <= calls[c] + 1)
    BY <1>1 DEF Requested
  <2>6. Requested \subseteq Messages /\ Requested' \subseteq Messages
    BY DEF Requested
  <2> QED BY <1>1, <2>1, <2>3, <2>4, <2>5, <2>6
<1>4. InFlight' = InFlight
  BY <1>1 DEF InFlight, Range
<1>5. Traced'
  <2>1. msg'[c] = new /\ new[1] = c
    BY <1>0, <1>1 DEF TypeInv, TypeOK
  <2> QED BY <1>1, <1>2, <1>3, <1>4, <2>1 DEF AstrayInv, Traced, Latest
<1>6. Fresh' => expired = {}
  BY <1>1, <1>3 DEF AstrayInv, Traced, Fresh, Latest
<1>7. expired = {} => Fresh /\ Idle
  BY <1>1, <1>only DEF Fresh, AstrayInv, NothingBehind
<1>8. ~Finishing(Parser)' <=> ~Finishing(Parser)
  BY <1>2 DEF Finishing
<1>9. OnePlace'
  <2> SUFFICES ASSUME Idle PROVE OnePlace'
    BY <1>6, <1>7 DEF OnePlace
  <2>1. InFlight' = {} /\ Len(inbox') = 0 /\ atDevice' = {}
    BY <1>1 DEF Idle, InFlight, Range
  <2> QED BY <1>0, <1>1, <1>3, <1>8, <2>1 DEF Idle, OnePlace, Latest
<1>10. LatestRuns'
  <2> SUFFICES ASSUME expired = {}, Idle, Fresh PROVE LatestRuns'
    BY <1>6, <1>7 DEF LatestRuns
  <2>1. \A m \in started' : ~Latest(m)'
    BY <1>1, <1>3 DEF AstrayInv, Traced, Latest
  <2>2. ASSUME NEW t \in Threads, pc'[t] = "stamp" PROVE FALSE
    <3>1. t # c /\ pc[t] = "stamp" /\ msg[t] \in Messages /\ Holds(t, msg[t])
      BY <1>2, <2>2 DEF TypeInv, LocalsSet, Holds, RunPc
    <3> QED BY <3>1 DEF Idle, Accounts, OnlyIssued, RunAtMostOnce
  <2>3. pc'[Checker] \notin {"unfinished", "command", "expire", "check", "set", "emit"}
    BY <1>2 DEF AstrayInv, LatestRuns
  <2> QED BY <2>1, <2>2, <2>3 DEF LatestRuns
<1>11. ResultLatest' /\ NothingBehind'
  BY <1>1, <1>2, <1>only DEF ResultLatest, NothingBehind
<1>12. OwnBefore'
  BY <1>1 DEF AstrayInv, OwnBefore
<1> QED BY <1>5, <1>9, <1>10, <1>11, <1>12 DEF AstrayInv

(* Steps that change no more than where threads are, their messages and     *)
(* answers, the flag and the queue.                                         *)
Moves ==
  UNCHANGED <<runningMessage, started, written, atDevice, inbox, expired, calls, generatorResult, received>>

(* What such a step leaves as it was.                                       *)
LEMMA MovesKeep ==
  ASSUME Moves
  PROVE  /\ Requested' = Requested /\ InFlight' = InFlight /\ (Fresh' <=> Fresh)
         /\ \A m : Latest(m)' <=> Latest(m)
         /\ OwnBefore' <=> OwnBefore
         /\ \A c : OnlyCaller(c)' <=> OnlyCaller(c)
BY DEF Moves, Requested, InFlight, Fresh, Latest, OwnBefore, OnlyCaller, Range

(* A caller on its way.                                                     *)
LEMMA AstrayCaller ==
  ASSUME Sole, TypeInv, Accounts, AstrayInv, NEW c \in Callers,
         RequestRun(c) \/ RequestPut(c) \/ ResultSeen(c) \/ ResultTake(c)
  PROVE  AstrayInv'
<1> USE KnownThreads
<1>1. PICK l : /\ Goto(c, l) /\ l \in {"enqueue", "mark", "wait", "take", "ready"}
               /\ pc[c] \in {"request", "enqueue", "wait", "take"}
               /\ l = "take" => pc[c] = "wait" /\ generatorResult # None
               /\ l = "ready" => pc[c] = "take"
               /\ l \notin {"take", "ready"} => pc[c] \in {"request", "enqueue"}
  BY DEF RequestRun, RequestPut, ResultSeen, ResultTake
<1>2. pc'[c] = l /\ \A u \in Threads : u # c => pc'[u] = pc[u]
  BY <1>1, MoveFacts
<1>3. /\ UNCHANGED <<runningMessage, started, written, atDevice, inbox, expired, calls, generatorResult>>
      /\ msg' = msg /\ answer' = answer
  BY DEF RequestRun, RequestPut, ResultSeen, ResultTake, centerVars, callerVars, deviceVars
<1>4. /\ Requested' = Requested /\ InFlight' = InFlight /\ (Fresh' <=> Fresh)
      /\ \A m : Latest(m)' <=> Latest(m)
  BY <1>3 DEF Requested, InFlight, Fresh, Latest, Range
<1>5. Finishing(Parser)' <=> Finishing(Parser)
  BY <1>2 DEF Finishing
<1>6. Traced' /\ OnePlace'
  BY <1>1, <1>2, <1>3, <1>4, <1>5 DEF AstrayInv, Traced, OnePlace
<1>7. LatestRuns' /\ ResultLatest'
  BY <1>1, <1>2, <1>3, <1>4 DEF AstrayInv, LatestRuns, ResultLatest
<1>8. NothingBehind'
  <2>1. Idle' <=> Idle
    BY <1>3, <1>4, <1>5 DEF Idle
  <2>2. msg[c] \in Messages /\ Latest(msg[c]) /\ msg[c][1] = c
    BY <1>1 DEF AstrayInv, Traced
  <2>3. calls[c] # 0
    BY <2>2, MessageCenterAssumption DEF Latest, Messages
  <2>4. \A d \in Callers : (OnlyCaller(d)' <=> OnlyCaller(d)) /\ (OnlyCaller(d) => d = c)
    BY <1>3, <2>3 DEF OnlyCaller
  <2> QED BY <1>1, <1>2, <1>3, <2>1, <2>4 DEF AstrayInv, NothingBehind
<1>9. OwnBefore'
  <2>1. CASE received' = received
    BY <1>3, <2>1 DEF AstrayInv, OwnBefore
  <2>2. CASE ResultTake(c)
    <3> DEFINE q == msg[c]
    <3>1. pc[c] = "take" /\ received' = [received EXCEPT ![q] = generatorResult]
      BY <2>2 DEF ResultTake
    <3>2. q \in Messages /\ Latest(q) /\ expired \subseteq Requested
      BY <3>1 DEF AstrayInv, Traced
    <3>3. \A m \in Messages : m # q => received'[m] = received[m]
      BY <3>1 DEF TypeInv, TypeOK
    <3>4. received'[q] = generatorResult
      BY <3>1, <3>2 DEF TypeInv, TypeOK
    <3>5. CASE Fresh
      <4>1. generatorResult # None => generatorResult.of \in Messages
        BY DEF TypeInv, TypeOK, Results
      <4>2. generatorResult # None =>
              generatorResult.of = q /\ (generatorResult.timeout => q \in expired)
        BY <3>1, <3>2, <3>5, <4>1, OneLatest DEF AstrayInv, ResultLatest
      <4> QED BY <1>3, <3>3, <3>4, <4>2 DEF AstrayInv, OwnBefore
    <3>6. CASE ~Fresh
      <4>1. PICK e \in expired : ~Latest(e)
        BY <3>6 DEF Fresh
      <4>2. e \in Messages /\ e[2] <= calls[e[1]] /\ e[2] # calls[e[1]]
        BY <3>2, <4>1 DEF Requested, Latest
      <4>3. e[1] = q[1]
        <5>1. \A m \in Messages : m[1] \in Callers /\ m[2] \in Nat \ {0} /\ calls[m[1]] \in Nat
          BY MessageCenterAssumption DEF Messages, TypeInv, TypeOK
        <5>2. calls[e[1]] # 0 /\ calls[q[1]] # 0
          BY <3>2, <4>2, <5>1 DEF Latest
        <5> QED BY <3>2, <4>2, <5>1, <5>2 DEF Sole
      <4>4. e[2] < q[2]
        BY <3>2, <4>2, <4>3, MessageCenterAssumption DEF Latest, Messages, TypeInv, TypeOK
      <4> QED BY <1>3, <3>3, <4>1, <4>4 DEF AstrayInv, OwnBefore
    <3> QED BY <3>5, <3>6
  <2> QED BY <2>1, <2>2 DEF RequestRun, RequestPut, ResultSeen, callerVars
<1> QED BY <1>6, <1>7, <1>8, <1>9 DEF AstrayInv

(* run(): the latest command, which was in the hands of one thread only.    *)
LEMMA AstrayRun ==
  ASSUME Sole, TypeInv, Accounts, AstrayInv, NEW t \in Threads, RunStep(t)
  PROVE  AstrayInv'
<1> DEFINE q == msg[t]
<1> USE KnownThreads
<1>1. PICK l : /\ Goto(t, l)
               /\ \/ l \in {"assign", "stamp", "write", "wait", "loop"}
                  \/ l \in {"ready", "dead"} /\ (l = "ready" <=> t \in Callers) /\ RunWriteRaises(t)
  BY DEF RunStep, RunMark, RunAssign, RunStamp, RunWrite, RunWriteRaises, Home
<1>2. pc'[t] = l /\ \A u \in Threads : u # t => pc'[u] = pc[u]
  BY <1>1, MoveFacts
<1>3. UNCHANGED <<inbox, expired, calls, generatorResult, received, msg, answer>>
  BY DEF RunStep, RunMark, RunAssign, RunStamp, RunWrite, RunWriteRaises, centerVars, callerVars, deviceVars
<1>4. /\ Requested' = Requested /\ (Fresh' <=> Fresh)
      /\ \A m : Latest(m)' <=> Latest(m)
  BY <1>3 DEF Requested, Fresh, Latest
<1>5. pc[t] \in RunPc /\ q \in Messages /\ Holds(t, q) /\ q \in Requested /\ q \notin written
  <2>1. pc[t] \in RunPc
    BY DEF RunStep, RunMark, RunAssign, RunStamp, RunWrite, RunWriteRaises, RunPc
  <2>2. q \in Messages /\ Holds(t, q)
    BY <2>1 DEF TypeInv, LocalsSet, Holds
  <2> QED BY <2>1, <2>2 DEF Accounts, OnlyIssued, RunAtMostOnce
<1>6. Fresh => /\ Latest(q) /\ atDevice = {} /\ inbox = <<>> /\ ~Finishing(Parser)
               /\ \A u \in Threads : u # t => pc[u] \notin {"request", "enqueue"} \cup RunPc
  BY <1>5, HoldsLatest
<1>7. Finishing(Parser)' => Finishing(Parser)
  BY <1>1, <1>2 DEF Finishing
<1>8. /\ written' = written /\ atDevice' = atDevice /\ pc[t] # "write" /\ l \notin {"wait", "loop"}
      \/ /\ written' = written \cup {q} /\ started' = started /\ pc[t] = "write"
         /\ atDevice' \in {atDevice, atDevice \cup {q}} /\ runningMessage' = runningMessage
         /\ l \notin {"assign", "stamp", "write"}
  BY <1>1, <1>2, MoveFacts DEF RunStep, RunMark, RunAssign, RunStamp, RunWrite, RunWriteRaises, Home, deviceVars, centerVars
<1>9. /\ started' = started \/ (started' = started \cup {q} /\ pc[t] = "stamp")
      /\ \/ runningMessage' = runningMessage /\ l # "stamp"
         \/ runningMessage' = q /\ started' = started
  BY <1>1, <1>2, MoveFacts DEF RunStep, RunMark, RunAssign, RunStamp, RunWrite, RunWriteRaises, Home, centerVars
<1>10. Traced'
  <2>1. InFlight' \subseteq InFlight \cup (written' \ written)
    BY <1>3, <1>5, <1>8 DEF InFlight, Range
  <2>2. written \subseteq written'
    BY <1>8
  <2>3. \A c \in Callers : pc'[c] # "ready" => pc[c] # "ready"
    BY <1>2, <1>5 DEF RunPc
  <2> QED BY <1>3, <1>4, <1>5, <1>9, <2>1, <2>2, <2>3 DEF AstrayInv, Traced
<1>11. OnePlace'
  <2> SUFFICES ASSUME Fresh PROVE OnePlace'
    BY <1>4 DEF OnePlace
  <2>1. Range(inbox') = {} /\ Len(inbox') = 0 /\ inbox' = <<>>
    BY <1>3, <1>6 DEF Range
  <2>2. atDevice' \subseteq {q}
    BY <1>6, <1>8
  <2>3. Requested' \ written' \subseteq Requested \ written
    BY <1>4, <1>8
  <2>4. \A m \in Requested \ written : Latest(m)
    BY DEF AstrayInv, OnePlace
  <2>5. \A m \in (InFlight \cup (Requested \ written))' : Latest(m)'
    BY <1>4, <1>6, <2>1, <2>2, <2>3, <2>4 DEF InFlight
  <2> QED BY <1>6, <1>7, <2>1, <2>5 DEF OnePlace
<1>12. LatestRuns'
  <2> SUFFICES ASSUME Fresh PROVE LatestRuns'
    BY <1>4 DEF LatestRuns
  <2>1. Latest(q) /\ \A u \in Threads : u # t => pc'[u] # "stamp"
    BY <1>2, <1>6 DEF RunPc
  <2>2. pc[t] = "stamp" => runningMessage = q
    BY DEF AstrayInv, LatestRuns
  <2>3. (\E m \in started' : Latest(m)) => runningMessage' \in Messages /\ Latest(runningMessage')
    BY <1>5, <1>9, <2>1, <2>2 DEF AstrayInv, LatestRuns
  <2>4. pc'[t] = "stamp" => runningMessage' = msg'[t]
    BY <1>2, <1>3, <1>9
  <2>5. pc'[Checker] \in {"unfinished", "command"} => runningMessage' \in expired'
    <3> SUFFICES ASSUME pc'[Checker] \in {"unfinished", "command"} PROVE runningMessage' \in expired
      BY <1>3
    <3>1. pc[Checker] = pc'[Checker]
      BY <1>1, <1>2
    <3>2. runningMessage \in expired
      BY <3>1 DEF AstrayInv, LatestRuns
    <3>3. runningMessage \in Messages /\ Latest(runningMessage)
      BY <3>2 DEF Fresh, TypeInv, TypeOK
    <3> QED BY <1>5, <1>9, <2>1, <3>2, <3>3, OneLatest
  <2>6. pc'[Checker] \in {"expire", "check", "set", "emit"} => pc[Checker] = pc'[Checker]
    BY <1>1, <1>2
  <2> QED BY <1>3, <2>1, <2>3, <2>4, <2>5, <2>6 DEF AstrayInv, LatestRuns, Latest
<1>13. ResultLatest'
  <2>1. \A c \in Callers : pc'[c] # "ready" => pc[c] # "ready"
    BY <1>2, <1>5 DEF RunPc
  <2> QED BY <1>3, <1>4, <2>1 DEF AstrayInv, ResultLatest
<1>14. NothingBehind'
  <2> SUFFICES ASSUME expired = {}, NEW c \in Callers, OnlyCaller(c),
                      pc'[c] \in {"ready", "take"} \/ (generatorResult' # None /\ pc'[c] # "ready")
               PROVE  pc'[c] \in {"ready", "wait", "take"} /\ Idle'
    BY <1>3 DEF NothingBehind, OnlyCaller
  <2>1. Fresh
    BY DEF Fresh
  <2>2. ~Idle
    BY <1>5 DEF Idle
  <2>3. c = t
    BY <1>2, <1>3, <2>2 DEF AstrayInv, NothingBehind
  <2>4. generatorResult = None
    BY <1>5, <2>2, <2>3 DEF AstrayInv, NothingBehind, RunPc
  <2>5. pc'[c] = "ready" /\ RunWriteRaises(t)
    BY <1>1, <1>2, <1>3, <2>3, <2>4
  <2>6. Requested' \subseteq written'
    <3>1. written' = written \cup {q}
      BY <2>5 DEF RunWriteRaises
    <3>2. ASSUME NEW m \in Requested, m \notin written PROVE m = q
      BY <1>5, <1>6, <2>1, <3>2, OneLatest DEF AstrayInv, OnePlace, Requested
    <3> QED BY <1>4, <3>1, <3>2
  <2>7. atDevice' = {} /\ inbox' = <<>> /\ ~Finishing(Parser)'
    BY <1>3, <1>6, <1>7, <2>1, <2>5 DEF RunWriteRaises
  <2> QED BY <2>5, <2>6, <2>7 DEF Idle
<1>15. OwnBefore'
  BY <1>3 DEF AstrayInv, OwnBefore
<1> QED BY <1>10, <1>11, <1>12, <1>13, <1>14, <1>15 DEF AstrayInv

(* finish() and run_post(): a result is that of the latest command.         *)
LEMMA AstrayFinish ==
  ASSUME Sole, TypeInv, Accounts, AstrayInv, NEW t \in {Parser, Checker}, FinishStep(t)
  PROVE  AstrayInv'
<1> USE KnownThreads
<1>1. PICK l : /\ Goto(t, l) /\ l \in {"set", "emit", "post", "goIdle", "get", "mark", "loop"}
               /\ l \in {"set", "emit"} => Finishing(t)
               /\ pc[t] = "emit" => l = "post"
  BY DEF FinishStep, FinishTest, FinishSet, FinishEmit, RunPostTest, RunPostIdle, RunPostGet, Home, Finishing
<1>2. pc'[t] = l /\ \A u \in Threads : u # t => pc'[u] = pc[u]
  BY <1>1, MoveFacts
<1>3. /\ UNCHANGED <<runningMessage, started, written, atDevice, inbox, expired, calls, received, answer>>
      /\ \A u \in Threads : u # t => msg'[u] = msg[u]
  BY DEF FinishStep, FinishTest, FinishSet, FinishEmit, RunPostTest, RunPostIdle, RunPostGet,
         centerVars, callerVars, deviceVars, TypeInv, TypeOK
<1>4. /\ Requested' = Requested /\ InFlight' = InFlight /\ (Fresh' <=> Fresh)
      /\ \A m : Latest(m)' <=> Latest(m)
  BY <1>3 DEF Requested, InFlight, Fresh, Latest, Range
<1>5. Finishing(Parser)' => Finishing(Parser)
  BY <1>1, <1>2 DEF Finishing
<1>6. \A c \in Callers : pc'[c] = pc[c] /\ msg'[c] = msg[c]
  BY <1>2, <1>3
<1>7. Traced'
  BY <1>3, <1>4, <1>6 DEF AstrayInv, Traced
<1>8. OnePlace'
  BY <1>3, <1>4, <1>5 DEF AstrayInv, OnePlace
<1>9. LatestRuns'
  <2>1. \A u \in Threads : pc'[u] = "stamp" => u # t /\ pc[u] = "stamp" /\ msg'[u] = msg[u]
    BY <1>1, <1>2, <1>3
  <2>2. pc'[Checker] \in {"unfinished", "command"} => pc[Checker] = pc'[Checker]
    BY <1>1, <1>2
  <2>3. pc'[Checker] \in {"expire", "check", "set", "emit"} => pc[Checker] \in {"expire", "check", "set", "emit"}
    BY <1>1, <1>2 DEF Finishing
  <2> QED BY <1>3, <1>4, <2>1, <2>2, <2>3 DEF AstrayInv, LatestRuns
<1>10. OwnBefore'
  BY <1>3 DEF AstrayInv, OwnBefore
<1>11. Idle => Idle'
  BY <1>3, <1>4, <1>5 DEF Idle
<1>12. CASE FinishEmit(t)
  <2>1. pc[t] = "emit" /\ Finishing(t) /\ generatorResult' = answer[t]
    BY <1>12 DEF FinishEmit, Finishing
  <2>2. ASSUME Fresh, generatorResult' # None
        PROVE Latest(generatorResult'.of) /\ (generatorResult'.timeout => generatorResult'.of \in expired)
    <3>1. CASE t = Parser
      BY <2>1, <2>2, <3>1 DEF AstrayInv, OnePlace
    <3>2. CASE t = Checker
      BY <2>1, <2>2, <3>2 DEF AstrayInv, LatestRuns, Fresh
    <3> QED BY <3>1, <3>2
  <2>3. ResultLatest'
    BY <1>3, <1>4, <2>2 DEF ResultLatest, Latest
  <2>4. NothingBehind'
    <3> SUFFICES ASSUME expired = {}, NEW c \in Callers
                 PROVE  pc'[c] \in {"ready", "wait", "take"} /\ Idle'
      BY <1>3 DEF NothingBehind
    <3>1. Fresh /\ t = Parser
      BY <2>1 DEF Fresh, AstrayInv, LatestRuns
    <3>2. /\ atDevice = {} /\ inbox = <<>>
          /\ answer[Parser].of \in written /\ Latest(answer[Parser].of)
      BY <2>1, <3>1 DEF AstrayInv, OnePlace
    <3>3. answer[Parser].of \in Messages
      BY <3>2 DEF TypeInv, TypeOK
    <3>4. ASSUME NEW m \in Requested, m \notin written PROVE FALSE
      <4>1. m \in Messages /\ Latest(m)
        BY <3>1, <3>4 DEF Requested, AstrayInv, OnePlace
      <4> QED BY <3>2, <3>3, <3>4, <4>1, OneLatest
    <3>5. ~Finishing(Parser)'
      BY <1>1, <1>2, <2>1, <3>1 DEF Finishing
    <3>6. Idle'
      BY <1>3, <1>4, <3>2, <3>4, <3>5 DEF Idle
    <3>7. pc[c] \notin {"request", "enqueue"} \cup RunPc
      <4> SUFFICES ASSUME pc[c] \in {"request", "enqueue"} \cup RunPc PROVE FALSE
        OBVIOUS
      <4>1. msg[c] \in Messages /\ Holds(c, msg[c])
        BY DEF TypeInv, LocalsSet, Holds
      <4>2. msg[c] \in Requested /\ msg[c] \notin written
        BY <4>1 DEF Accounts, OnlyIssued, RunAtMostOnce
      <4> QED BY <3>4, <4>2
    <3>8. pc[c] \in {"ready", "wait", "take"}
      BY <3>7 DEF TypeInv, TypeOK, CallerPc
    <3> QED BY <1>6, <3>6, <3>8
  <2> QED BY <1>7, <1>8, <1>9, <1>10, <2>3, <2>4 DEF AstrayInv
<1>13. CASE generatorResult' = generatorResult
  <2>1. ResultLatest'
    BY <1>3, <1>4, <1>6, <1>13 DEF AstrayInv, ResultLatest
  <2>2. NothingBehind'
    BY <1>3, <1>6, <1>11, <1>13 DEF AstrayInv, NothingBehind, OnlyCaller
  <2> QED BY <1>7, <1>8, <1>9, <1>10, <2>1, <2>2 DEF AstrayInv
<1>14. FinishEmit(t) \/ generatorResult' = generatorResult
  BY DEF FinishStep, FinishTest, FinishSet, RunPostTest, RunPostIdle, RunPostGet, callerVars
<1> QED BY <1>12, <1>13, <1>14

(* The checker: it times out the running command, if that is too old.       *)
LEMMA AstrayChecker ==
  ASSUME Sole, TypeInv, Accounts, AstrayInv, CheckerStep
  PROVE  AstrayInv'
<1> USE KnownThreads
<1>1. PICK l : /\ Goto(Checker, l)
               /\ l \in {"span", "dead", "unfinished", "loop", "command", "expire", "check", "exited"}
               /\ l = "unfinished" => runningMessage \in expired
               /\ l = "command" => pc[Checker] = "unfinished"
               /\ l = "check" => pc[Checker] = "expire" /\ answer' = answer
               /\ l = "expire" => pc[Checker] = "command"
                    /\ answer' = [answer EXCEPT ![Checker] = [of |-> runningMessage, timeout |-> TRUE]]
  BY DEF CheckerStep, TimeoutBegin, TimeoutSpan, TimeoutUnfinished, TimeoutCommand, TimeoutFinish, CheckerExit
<1>2. pc'[Checker] = l /\ \A u \in Threads : u # Checker => pc'[u] = pc[u]
  BY <1>1, MoveFacts
<1>3. Moves /\ \A u \in Threads : u # Checker => msg'[u] = msg[u] /\ answer'[u] = answer[u]
  BY DEF CheckerStep, TimeoutBegin, TimeoutSpan, TimeoutUnfinished, TimeoutCommand, TimeoutFinish,
         CheckerExit, Moves, centerVars, callerVars, deviceVars, TypeInv, TypeOK
<1>4. Finishing(Parser)' <=> Finishing(Parser)
  BY <1>2 DEF Finishing
<1>5. Traced' /\ OnePlace' /\ ResultLatest'
  BY <1>2, <1>3, <1>4, MovesKeep DEF AstrayInv, Traced, OnePlace, ResultLatest, Moves
<1>6. LatestRuns'
  <2> SUFFICES ASSUME Fresh PROVE LatestRuns'
    BY <1>3, MovesKeep DEF LatestRuns
  <2>1. pc'[Checker] \in {"unfinished", "command"} => runningMessage \in expired
    BY <1>1, <1>2 DEF AstrayInv, LatestRuns
  <2>2. l = "expire" => answer'[Checker].timeout /\ answer'[Checker].of \in expired
    <3> SUFFICES ASSUME l = "expire" PROVE answer'[Checker].timeout /\ answer'[Checker].of \in expired
      OBVIOUS
    <3>1. runningMessage \in expired
      BY <1>1 DEF AstrayInv, LatestRuns
    <3>2. answer'[Checker] = [of |-> runningMessage, timeout |-> TRUE]
      BY <1>1 DEF TypeInv, TypeOK
    <3> QED BY <3>1, <3>2
  <2>3. l = "check" => answer'[Checker].timeout /\ answer'[Checker].of \in expired
    BY <1>1 DEF AstrayInv, LatestRuns
  <2>4. pc'[Checker] \in {"expire", "check", "set", "emit"} => l \in {"expire", "check"}
    BY <1>1, <1>2
  <2>5. \A u \in Threads : pc'[u] = "stamp" => u # Checker /\ pc[u] = "stamp" /\ msg'[u] = msg[u]
    BY <1>1, <1>2, <1>3
  <2> QED BY <1>3, <2>1, <2>2, <2>3, <2>4, <2>5, MovesKeep DEF AstrayInv, LatestRuns, Moves
<1>7. NothingBehind'
  <2>1. Idle' <=> Idle
    BY <1>3, <1>4, MovesKeep DEF Idle, Moves
  <2> QED BY <1>2, <1>3, <2>1, MovesKeep DEF AstrayInv, NothingBehind, Moves
<1> QED BY <1>3, <1>5, <1>6, <1>7, MovesKeep DEF AstrayInv

(* The parser takes up the one answer on its way.                           *)
LEMMA AstrayParser ==
  ASSUME Sole, TypeInv, Accounts, AstrayInv, ParserStep
  PROVE  AstrayInv'
<1> USE KnownThreads
<1>1. /\ UNCHANGED <<runningMessage, started, written, atDevice, expired, calls, generatorResult, received>>
      /\ \A u \in Threads : u # Parser => pc'[u] = pc[u] /\ msg'[u] = msg[u] /\ answer'[u] = answer[u]
      /\ pc'[Parser] \in {"exited", "post", "check"}
  BY DEF ParserStep, OnCommandReceive, ParserExit, Goto, centerVars, callerVars, deviceVars, TypeInv, TypeOK
<1>2. Requested' = Requested /\ (Fresh' <=> Fresh) /\ \A m : Latest(m)' <=> Latest(m)
  BY <1>1 DEF Requested, Fresh, Latest
<1>3. InFlight' \subseteq InFlight
  <2>1. CASE ParserExit
    BY <2>1 DEF ParserExit, deviceVars, InFlight, Range
  <2>2. CASE OnCommandReceive
    <3>1. Range(inbox') \subseteq Range(inbox)
      BY <2>2, TailFacts DEF OnCommandReceive, TypeInv, TypeOK
    <3> QED BY <1>1, <3>1 DEF InFlight
  <2> QED BY <2>1, <2>2 DEF ParserStep
<1>4. Traced'
  BY <1>1, <1>2, <1>3 DEF AstrayInv, Traced
<1>5. LatestRuns' /\ ResultLatest'
  BY <1>1, <1>2 DEF AstrayInv, LatestRuns, ResultLatest
<1>6. OwnBefore'
  BY <1>1 DEF AstrayInv, OwnBefore
<1>7. OnePlace' /\ NothingBehind'
  <2>1. CASE ParserExit
    <3>1. inbox' = inbox /\ ~Finishing(Parser)' /\ ~Finishing(Parser)
      BY <2>1, MoveFacts DEF ParserExit, deviceVars, Finishing
    <3>2. Idle' <=> Idle
      BY <1>1, <1>2, <3>1 DEF Idle
    <3> QED BY <1>1, <1>2, <1>3, <3>1, <3>2 DEF AstrayInv, OnePlace, NothingBehind, OnlyCaller
  <2>2. CASE OnCommandReceive
    <3> DEFINE m == Head(inbox)
    <3>1. inbox # <<>> /\ inbox' = Tail(inbox) /\ m \in Messages /\ m \in Range(inbox)
      BY <2>2, TailFacts DEF OnCommandReceive, TypeInv, TypeOK
    <3>2. answer'[Parser].of = m /\ ~answer'[Parser].timeout
      BY <2>2 DEF OnCommandReceive, TypeInv, TypeOK
    <3>3. ~Idle
      BY <3>1 DEF Idle
    <3>4. NothingBehind'
      BY <1>1, <3>3 DEF AstrayInv, NothingBehind, OnlyCaller
    <3>5. OnePlace'
      <4> SUFFICES ASSUME Fresh PROVE OnePlace'
        BY <1>2 DEF OnePlace
      <4>1. atDevice = {} /\ Len(inbox) <= 1
        BY <3>1 DEF AstrayInv, OnePlace
      <4>2. inbox' = <<>> /\ Len(inbox') = 0
        BY <3>1, <4>1, TailOfOne DEF TypeInv, TypeOK
      <4>3. m \in written /\ Latest(m)
        BY <3>1 DEF AstrayInv, OnePlace, Traced, InFlight
      <4>4. \A n \in (InFlight \cup (Requested \ written))' : Latest(n)'
        BY <1>1, <1>2, <1>3 DEF AstrayInv, OnePlace
      <4> QED BY <1>1, <1>2, <3>2, <4>1, <4>2, <4>3, <4>4 DEF OnePlace, Latest
    <3> QED BY <3>4, <3>5
  <2> QED BY <2>1, <2>2 DEF ParserStep
<1> QED BY <1>4, <1>5, <1>6, <1>7 DEF AstrayInv

(* The device answers, or does not; time passes.                            *)
LEMMA AstrayDevice ==
  ASSUME Sole, TypeInv, Accounts, AstrayInv, NEW m \in Messages, DeviceStep(m) \/ Expire(m)
  PROVE  AstrayInv'
<1> USE KnownThreads
<1>1. UNCHANGED <<runningMessage, started, written, calls, generatorResult, received, pc, msg, answer>>
  BY DEF DeviceStep, DeviceAnswers, DeviceSilent, Expire, centerVars, callerVars, threadVars
<1>2. Requested' = Requested /\ \A n : Latest(n)' <=> Latest(n)
  BY <1>1 DEF Requested, Latest
<1>3. \/ expired' = expired
      \/ expired' = expired \cup {m} /\ m \in started /\ atDevice' = atDevice /\ inbox' = inbox
  BY DEF DeviceStep, DeviceAnswers, DeviceSilent, Expire
<1>4. Fresh' => Fresh
  BY <1>2, <1>3 DEF Fresh
<1>5. InFlight' \subseteq InFlight
  <2>1. CASE DeviceAnswers(m)
    <3>1. Range(inbox') = Range(inbox) \cup {m}
      BY <2>1, AppendFacts DEF DeviceAnswers, TypeInv, TypeOK
    <3> QED BY <2>1, <3>1 DEF DeviceAnswers, InFlight
  <2>2. CASE DeviceSilent(m) \/ Expire(m)
    BY <2>2 DEF DeviceSilent, Expire, InFlight, Range
  <2> QED BY <2>1, <2>2 DEF DeviceStep
<1>6. Traced'
  BY <1>1, <1>2, <1>3, <1>5 DEF AstrayInv, Traced
<1>7. LatestRuns' /\ ResultLatest' /\ OwnBefore'
  BY <1>1, <1>2, <1>3, <1>4 DEF AstrayInv, LatestRuns, ResultLatest, OwnBefore
<1>8. Finishing(Parser)' <=> Finishing(Parser)
  BY <1>1 DEF Finishing
<1>9. OnePlace'
  <2> SUFFICES ASSUME Fresh PROVE OnePlace'
    BY <1>4 DEF OnePlace
  <2>1. \A n \in (InFlight \cup (Requested \ written))' : Latest(n)'
    BY <1>1, <1>2, <1>5 DEF AstrayInv, OnePlace
  <2>2. CASE DeviceAnswers(m)
    <3>1. m \in atDevice /\ atDevice' = atDevice \ {m} /\ inbox' = Append(inbox, m)
      BY <2>2 DEF DeviceAnswers
    <3>2. inbox = <<>> /\ ~Finishing(Parser)
      BY <3>1 DEF AstrayInv, OnePlace
    <3>3. \A n \in atDevice : n = m
      BY <3>1, OneLatest DEF AstrayInv, OnePlace, InFlight, TypeInv, TypeOK
    <3>4. atDevice' = {} /\ Len(inbox') = 1
      BY <3>1, <3>2, <3>3
    <3> QED BY <1>8, <2>1, <3>2, <3>4 DEF OnePlace
  <2>3. CASE DeviceSilent(m) \/ Expire(m)
    <3>1. atDevice' \subseteq atDevice /\ inbox' = inbox
      BY <2>3 DEF DeviceSilent, Expire
    <3> QED BY <1>1, <1>2, <1>8, <2>1, <3>1 DEF AstrayInv, OnePlace, Latest
  <2> QED BY <2>2, <2>3 DEF DeviceStep
<1>10. NothingBehind'
  <2>1. expired' = {} => expired = {} /\ (DeviceAnswers(m) \/ DeviceSilent(m))
    BY <1>3 DEF DeviceStep, Expire
  <2>2. DeviceAnswers(m) \/ DeviceSilent(m) => ~Idle
    BY DEF DeviceAnswers, DeviceSilent, Idle
  <2> QED BY <1>1, <2>1, <2>2 DEF AstrayInv, NothingBehind, OnlyCaller
<1> QED BY <1>6, <1>7, <1>9, <1>10 DEF AstrayInv

LEMMA AstrayStep ==
  ASSUME Sole, Sole', TypeInv, Accounts, AstrayInv, [Next]_vars
  PROVE  AstrayInv'
<1>1. CASE Stop \/ UNCHANGED vars
  <2>1. Moves /\ pc' = pc /\ msg' = msg /\ answer' = answer
    BY <1>1 DEF Stop, Moves, vars, centerVars, callerVars, deviceVars, threadVars
  <2>2. Finishing(Parser)' <=> Finishing(Parser)
    BY <2>1 DEF Finishing
  <2>3. Idle' <=> Idle
    BY <2>1, <2>2, MovesKeep DEF Moves, Idle
  <2>4. Traced' /\ OnePlace' /\ LatestRuns'
    BY <2>1, <2>2, MovesKeep DEF AstrayInv, Traced, OnePlace, LatestRuns, Moves
  <2>5. ResultLatest' /\ NothingBehind'
    BY <2>1, <2>3, MovesKeep DEF AstrayInv, ResultLatest, NothingBehind, Moves
  <2> QED BY <2>1, <2>4, <2>5, MovesKeep DEF AstrayInv
<1> QED
  BY <1>1, AstrayCallBegin, AstrayCaller, AstrayRun, AstrayFinish, AstrayChecker, AstrayParser, AstrayDevice
  DEF Next, CallerStep

(* A caller that is not the only one has not been so before.                *)
LEMMA SoleBefore ==
  ASSUME TypeInv, Sole', [Next]_vars
  PROVE  Sole
<1>1. CASE \E c \in Callers : CallBegin(c)
  <2>1. PICK c \in Callers : CallBegin(c)
    BY <1>1
  <2>2. \A d \in Callers : calls[d] \in Nat /\ calls'[d] \in {calls[d], calls[d] + 1}
    BY <2>1 DEF CallBegin, TypeInv, TypeOK
  <2>3. \A d \in Callers : calls[d] # 0 => calls'[d] # 0
    BY <2>2
  <2> QED BY <2>3 DEF Sole
<1>2. CASE calls' = calls
  BY <1>2 DEF Sole
<1>3. CASE \E c \in Callers : RequestRun(c) \/ RequestPut(c) \/ ResultSeen(c) \/ ResultTake(c)
  BY <1>2, <1>3 DEF RequestRun, RequestPut, ResultSeen, ResultTake, callerVars
<1>4. CASE \E t \in Threads : RunStep(t)
  BY <1>2, <1>4 DEF RunStep, RunMark, RunAssign, RunStamp, RunWrite, RunWriteRaises, callerVars
<1>5. CASE \E t \in {Parser, Checker} : FinishStep(t)
  BY <1>2, <1>5 DEF FinishStep, FinishTest, FinishSet, FinishEmit, RunPostTest, RunPostIdle, RunPostGet, callerVars
<1>6. CASE CheckerStep
  BY <1>2, <1>6 DEF CheckerStep, TimeoutBegin, TimeoutSpan, TimeoutUnfinished, TimeoutCommand,
                    TimeoutFinish, CheckerExit, callerVars
<1>7. CASE ParserStep \/ Stop \/ UNCHANGED vars
  BY <1>2, <1>7 DEF ParserStep, OnCommandReceive, ParserExit, Stop, vars, callerVars
<1>8. CASE \E m \in Messages : DeviceStep(m) \/ Expire(m)
  BY <1>2, <1>8 DEF DeviceStep, DeviceAnswers, DeviceSilent, Expire, callerVars
<1> QED BY <1>1, <1>3, <1>4, <1>5, <1>6, <1>7, <1>8 DEF Next, CallerStep

(* For every set of callers and every fault: of a caller that has been      *)
(* alone, an answer goes astray only behind an earlier command that timed   *)
(* out, for any number of commands.                                         *)
THEOREM AnswersOwnUnlessTimeout == Spec => []OwnUnlessTimeout
<1> DEFINE Inv == Sole => AstrayInv
<1>1. Init => TypeInv /\ Accounts /\ Inv
  BY TypeInit, AccountsInit, AstrayInit
<1>2. TypeInv /\ Accounts /\ Inv /\ [Next]_vars => TypeInv' /\ Accounts' /\ Inv'
  BY TypeStep, AccountsStep, AstrayStep, SoleBefore
<1>3. Inv => OwnUnlessTimeout
  <2> SUFFICES ASSUME Inv, NEW c \in Callers, \A d \in Callers \ {c} : calls[d] = 0,
                      NEW m \in {c} \X (1..MaxCalls), received[m] # None
               PROVE  \/ received[m].of = m /\ (received[m].timeout => m \in expired)
                      \/ \E e \in expired : e[2] < m[2]
    BY DEF OwnUnlessTimeout
  <2>1. Sole
    BY DEF Sole
  <2>2. m \in Messages
    BY DEF Messages
  <2> QED BY <2>1, <2>2 DEF AstrayInv, OwnBefore
<1> QED BY <1>1, <1>2, <1>3, PTL DEF Spec
=============================================================================
