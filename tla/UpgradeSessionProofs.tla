------------------------ MODULE UpgradeSessionProofs ------------------------
(***************************************************************************)
(* UpgradeSession, with the workers of the providers, implements           *)
(* UpgradeCenter, whose workers do as they like: what is proved of the     *)
(* center holds for every upgrade.                                         *)
(*                                                                         *)
(* Then the workers themselves: the lists that the providers make of a     *)
(* file have the jumps where they must be (Bracketed) and leave no part    *)
(* out (Covered); the unit follows the jumps (JumpInv), and the parts of   *)
(* the workers that have ended are in it (PartsIn).                        *)
(***************************************************************************)
EXTENDS UpgradeSession, UpgradeCenterProofs, SdkWorkerProofs

(* Steps of the center are the center's.                                    *)
LEMMA CenterIsCenter ==
  ASSUME NEW t \in Threads, CenterTurn(t) \/ StopTurn(t) \/ PlainTurn(t)
  PROVE  ThreadStep(t)
BY DEF CenterTurn, StopTurn, PlainTurn, ThreadStep

(* To the center, a worker of the providers progresses, finishes, fails,    *)
(* returns or ends the process, or does nothing that it sees.               *)
LEMMA WorkersAreWorkers ==
  ASSUME NEW t \in Threads, WorkerTurn(t)
  PROVE  ThreadStep(t) \/ UNCHANGED vars
<1> USE DEF ThreadStep, WorkerStep
<1>1. CASE PlainTurn(t)
  BY <1>1, CenterIsCenter
<1>2. CASE SdkTurn(t) \/ JumpBegin(t) \/ JumpTry(t)
  BY <1>2 DEF SdkTurn, JumpBegin, JumpTry
<1>3. CASE SdkFinished(t) \/ JumpAfter(t) \/ WriteFinished(t)
  BY <1>3 DEF SdkFinished, JumpAfter, WriteFinished
<1>4. CASE SdkFailed(t) \/ JumpFails(t) \/ NoAnswer(t) \/ WriteFails(t)
  BY <1>4 DEF SdkFailed, JumpFails, NoAnswer, WriteFails
<1>5. CASE WriteTurn(t)
  BY <1>5 DEF WriteTurn
<1> QED BY <1>1, <1>2, <1>3, <1>4, <1>5 DEF WorkerTurn

LEMMA SessionStep == [SessionNext]_sessionVars => [Next]_vars
<1>1. CASE ~exited /\ PrepareFails
  BY <1>1 DEF PrepareFails, Next
<1>2. CASE ~exited /\ Begin
  BY <1>2 DEF Begin, Next
<1>3. CASE Chip
  BY <1>3 DEF Chip
<1>4. ASSUME NEW t \in Threads, ~exited, Turn(t) PROVE [Next]_vars
  <2>1. ThreadStep(t) \/ UNCHANGED vars
    BY <1>4, CenterIsCenter, WorkersAreWorkers DEF Turn
  <2> QED BY <1>4, <2>1 DEF Next
<1>5. CASE UNCHANGED sessionVars
  BY <1>5 DEF sessionVars
<1> QED BY <1>1, <1>2, <1>3, <1>4, <1>5 DEF SessionNext

(* Every upgrade, over any link and with any unit, is a behaviour of the    *)
(* center.                                                                  *)
THEOREM SessionImplementsCenter == SessionSpec => Spec
<1>1. SessionInit => Init
  BY DEF SessionInit
<1> QED BY <1>1, SessionStep, PTL DEF SessionSpec, Spec

(* The parts of a firmware file are written in their turn, after the jumps  *)
(* before them and before the jump back.                                    *)
THEOREM SessionCalledInOrder == SessionSpec => []CalledInTurn
BY SessionImplementsCenter, CalledInOrder, PTL

(* The device is restarted after an upgrade when all of its parts were      *)
(* dealt with.                                                              *)
THEOREM SessionFinishIsComplete == SessionSpec => []FinishMeansAll
BY SessionImplementsCenter, FinishIsComplete, PTL

(* In a session too, what the bar was told adds up to what the workers of   *)
(* the two versions together have reported.                                 *)
THEOREM SessionBarIsTotal == SessionSpec => []BarAddsUp
BY SessionImplementsCenter, BarIsTotal, PTL

-----------------------------------------------------------------------------
(* The lists of workers: a part is written after a jump to the bootloader   *)
(* of its core, with no other jump between, and whoever is sent to its      *)
(* bootloader is sent back.                                                 *)
IsJump(w) == w.kind \in {"jumpBoot", "jumpApp"}

Bracketed(ws) ==
  \A i \in DOMAIN ws :
    /\ ws[i].kind = "write" =>
         \E j \in DOMAIN ws : /\ j < i /\ ws[j].kind = "jumpBoot" /\ ws[j].core = ws[i].core
                              /\ \A k \in DOMAIN ws : j < k /\ k < i => ~IsJump(ws[k])
    /\ ws[i].kind = "jumpBoot" =>
         \E k \in DOMAIN ws : k > i /\ ws[k].kind = "jumpApp" /\ ws[k].core = ws[i].core

(* There is a worker for every part that is wanted.                         *)
Covered(s) ==
  InOrder(s) =>
    \A p \in s.wanted : \E i \in DOMAIN s.team : s.team[i].kind \in {"write", "sdk"} /\ s.team[i].part = p

(* Such are the lists of the providers; others have no jumps and no parts.  *)
Proper(s) ==
  /\ DOMAIN s.groups = DOMAIN s.team
  /\ \A i \in DOMAIN s.team : s.team[i].core \in {"main", "imu"}
  /\ Bracketed(s.team) /\ Covered(s)
  /\ \/ s.groups = InOneGroup(s.team)
     \/ s.wanted = {} /\ \A i \in DOMAIN s.team : s.team[i].kind \in {"plain", "sdk"}

Alone  == session.wanted = {} /\ \A i \in DOMAIN team : team[i].kind \in {"plain", "sdk"}
Chain  == groups = InOneGroup(team) /\ DOMAIN team # {}
Listed == Proper(session) /\ groups = session.groups

(* One thread calls all workers of such a list.                             *)
LEMMA OneCaller ==
  ASSUME OrderInv, Listed, Chain
  PROVE  /\ 1 \in Threads /\ 1 \in Workers /\ Workers = DOMAIN team /\ Workers \subseteq Nat
         /\ Firsts = {} /\ Lasts = {} /\ Normal = Workers /\ Group(1) = Workers
         /\ \A t \in Threads : t # 1 => todo[t] = {}
         /\ todo[1] \subseteq Workers
         /\ \A w \in Workers : Kind(w) = "normal"
<1>1. Workers = DOMAIN team /\ groups \in Registrations
  BY DEF Listed, Proper, Workers, OrderInv, Shape, team
<1>2. Workers = 1..Len(groups) /\ Len(groups) \in Nat
  BY <1>1, UpgradeCenterAssumption DEF Workers
<1>3. 1 \in Workers
  <2>1. Len(groups) # 0
    BY <1>1, <1>2 DEF Chain
  <2> QED BY <1>2, <2>1
<1>4. \A w \in Workers : groups[w] = FIRMWARE
  BY <1>1 DEF Chain, InOneGroup
<1>5. FIRMWARE \notin {BEFORE_ALL, AFTER_ALL, None}
  BY SessionsAssumption
<1>6. Normal = Workers
  BY <1>4, <1>5 DEF Normal
<1>7. Firsts = {} /\ Lasts = {}
  BY <1>1, <1>6, Kinds3
<1>8. \A v, w \in Workers : SameRun(v, w)
  BY <1>4 DEF SameRun
<1>9. Group(1) = Workers /\ \A t \in Workers : t # 1 => Group(t) = {}
  <2>1. ASSUME NEW t \in Workers
        PROVE  Group(t) = IF \E v \in Workers : v < t THEN {} ELSE Workers
    BY <1>4, <1>5, <1>6, <1>8, <2>1 DEF Group
  <2>2. ASSUME NEW t \in Workers PROVE (\E v \in Workers : v < t) <=> t # 1
    BY <1>2, <1>3
  <2> QED BY <1>3, <2>1, <2>2
<1>10. \A t \in Threads : t # 1 => Home(t) = {}
  <2>1. \A t : t \notin Workers => Group(t) = {}
    BY <1>6 DEF Group
  <2> QED BY <1>7, <1>9, <2>1 DEF Home
<1>11. 1 \in Threads
  BY <1>1, <1>3 DEF Threads, Workers
<1>12. \A t \in Threads : todo[t] \subseteq Home(t) \cup Lasts
  BY <1>7 DEF OrderInv, Shape
<1>13. Home(1) = Workers
  BY <1>9 DEF Home
<1>14. \A w \in Workers : Kind(w) = "normal"
  BY <1>1, <1>6, Kinds3
<1> QED BY <1>1, <1>2, <1>3, <1>6, <1>7, <1>9, <1>10, <1>11, <1>12, <1>13, <1>14

-----------------------------------------------------------------------------
(* The unit, while one thread goes through such a list.                     *)

(* The call of the worker in turn is over.                                  *)
Left == pc[1] \in {"append", "test"}

(* The jumps before w have been made; those of core c have, too.            *)
Over(w) ==
  \A j \in todo[1] : j < w /\ IsJump(team[j]) =>
    j = Executor(1) /\ (Left \/ (pc[1] = "working" /\ step = "after"))
AllBack(c) == \A j \in todo[1] : IsJump(team[j]) /\ team[j].core = c => j = Executor(1) /\ Left

Excused(c) == core[c] = "app" \/ (OnEthernet /\ (c \in unheard \/ slow))

(* The list is called in order, by its thread and no other, and a jump is   *)
(* not left before it is made.                                              *)
InLine ==
  /\ \A v \in todo[1], u \in Workers : u > v => u \in todo[1]
  /\ \A t \in Threads : pc[t] = "stop" => t = 1
  /\ stopped = {} \/ pc[1] = "stop"
  /\ step = "begin" \/ Jumping(1) \/ pc[1] = "stop"
  /\ jumped = {} \/ pc[1] # "idle"
  /\ slow \/ lateAcks = {}

(* A core is in its bootloader when the jumps before a part have been made, *)
(* and in its application when all of its jumps have.                       *)
Entered ==
  \A w \in todo[1] :
    team[w].kind = "write" /\ Acks(team[w]) /\ ~slow /\ Over(w) => core[team[w].core] = "boot"
Back == \A c \in jumped : AllBack(c) => Excused(c)
BackHeard == Jumping(1) /\ step = "after" /\ OnEthernet /\ Job(1).kind = "jumpApp" => Excused(Job(1).core)

UnitOK ==
  /\ core \in [{"main", "imu"} -> {"app", "boot"}] /\ jumped \subseteq {"main", "imu"}
  /\ Chain \/ jumped = {}

JumpInv == UnitOK /\ (Chain => InLine /\ Entered /\ Back /\ BackHeard)

-----------------------------------------------------------------------------
(* What is upgraded stays.                                                  *)
LEMMA Fixed ==
  ASSUME [SessionNext]_sessionVars
  PROVE  UNCHANGED <<session, groups, slow, acks, snRecent, inBootloader>>
<1>1. groups' = groups
  BY SessionStep DEF Next, vars, Start, PrepareError, ThreadStep, CenterStep, WorkerStep, StopWorkers, Work,
           ThreadEnds, ProgressBegin, ProgressSum, ProgressStep, DoneAppend, DoneTest, Write,
           Finish, Return, Fail, Raise, Exit
<1>2. UNCHANGED <<session, slow, acks, snRecent, inBootloader>>
  BY DEF SessionNext, sessionVars, unitVars, PrepareFails, Begin, Chip, Turn, CenterTurn, StopTurn,
         WorkerTurn, PlainTurn, SdkTurn, SdkFinished, SdkFailed, JumpBegin, JumpTry, JumpFails,
         JumpAfter, NoAnswer, WriteTurn, WriteFinished, WriteFails
<1> QED BY <1>1, <1>2

LEMMA Frame ==
  ASSUME UNCHANGED <<session, groups, slow, acks>>
  PROVE  /\ UNCHANGED <<team, OnEthernet, Chain, Alone, Listed, Workers>>
         /\ \A w : Acks(w)' = Acks(w)
BY DEF team, OnEthernet, Chain, Alone, Listed, Workers, Acks

(* Whoever is working is a worker of the list.                              *)
LEMMA AtWork ==
  ASSUME OrderInv, Listed, NEW t \in Threads, pc[t] \in InCall
  PROVE  /\ todo[t] # {} /\ Executor(t) \in todo[t] /\ Executor(t) \in Workers
         /\ Job(t).core \in {"main", "imu"} /\ \A w \in todo[t] : Executor(t) <= w
         /\ Chain => t = 1
         /\ ~Chain => Job(t).kind \in {"plain", "sdk"}
<1>1. todo[t] # {}
  BY DEF OrderInv, Shape
<1>2. Executor(t) \in todo[t] /\ Executor(t) \in Workers /\ \A w \in todo[t] : Executor(t) <= w
  BY <1>1, InTurn DEF OrderInv
<1>3. Workers = DOMAIN team
  BY DEF Listed, Proper, Workers, team
<1>4. Job(t).core \in {"main", "imu"}
  BY <1>2, <1>3 DEF Listed, Proper, Job, team
<1>5. ~Chain => Job(t).kind \in {"plain", "sdk"}
  BY <1>2, <1>3 DEF Chain, Listed, Proper, Job, team
<1>6. Chain => t = 1
  BY <1>1, OneCaller
<1> QED BY <1>1, <1>2, <1>4, <1>5, <1>6

-----------------------------------------------------------------------------
(* The steps of the thread of the list that leave the unit as it is: it     *)
(* goes on to l with its worker, or leaves it when it is done.              *)
Held(l) ==
  /\ UNCHANGED <<session, groups, slow, acks, core, step, jumped, unheard, lateAcks>>
  /\ pc'[1] = l /\ \A t \in Threads : pc'[t] = "stop" => t = 1
  /\ stopped' = stopped \/ pc[1] = "stop"
  /\ \/ todo'[1] = todo[1] /\ l = pc[1]
     \/ /\ todo'[1] = todo[1] /\ pc[1] \notin {"idle", "stop"} /\ l # "idle"
        /\ Jumping(1) => l = "stop"
        /\ l \in {"append", "test"} => pc[1] = "append" \/ ~IsJump(Job(1))
     \/ pc[1] = "test" /\ l = "next" /\ todo'[1] = todo[1] \ {Executor(1)}

LEMMA HeldStep ==
  ASSUME OrderInv, Listed, Chain, UnitOK, InLine, Entered, Back, BackHeard, NEW l, Held(l)
  PROVE  UnitOK' /\ InLine' /\ Entered' /\ Back' /\ BackHeard'
<1>1. /\ UNCHANGED <<team, OnEthernet, Chain, Workers>> /\ Chain'
      /\ \A w : Acks(w)' = Acks(w)
  BY Frame DEF Held
<1>2. /\ 1 \in Threads /\ Workers = DOMAIN team /\ Workers \subseteq Nat /\ todo[1] \subseteq Workers
      /\ todo'[1] \subseteq todo[1]
  BY OneCaller DEF Held
<1>3. UnitOK'
  BY <1>1 DEF UnitOK, Held
<1>4. todo'[1] = todo[1] => Job(1)' = Job(1) /\ Executor(1)' = Executor(1)
  BY <1>1 DEF Job, Executor
<1>5. Jumping(1)' => Jumping(1) \/ step = "begin"
  <2>1. CASE l = pc[1] /\ todo'[1] = todo[1]
    BY <1>4, <2>1 DEF Held, Jumping, Working
  <2>2. CASE pc[1] \notin {"idle", "stop"}
    BY <2>2 DEF InLine
  <2> QED BY <2>1, <2>2 DEF Held
<1>6. InLine'
  <2>1. \A v \in todo'[1], u \in Workers' : u > v => u \in todo'[1]
    <3>1. CASE todo'[1] = todo[1]
      BY <1>1, <3>1 DEF InLine
    <3>2. CASE pc[1] = "test" /\ todo'[1] = todo[1] \ {Executor(1)}
      <4>1. Executor(1) \in todo[1] /\ \A w \in todo[1] : Executor(1) <= w
        BY <1>2, <3>2, AtWork DEF InCall
      <4> QED BY <1>1, <1>2, <3>2, <4>1 DEF InLine
    <3> QED BY <3>1, <3>2 DEF Held
  <2>2. step' = "begin" \/ Jumping(1)' \/ pc'[1] = "stop"
    <3>1. CASE l = pc[1] /\ todo'[1] = todo[1]
      BY <1>4, <3>1 DEF Held, InLine, Jumping, Working
    <3>2. CASE l # pc[1] \/ todo'[1] # todo[1]
      BY <3>2 DEF Held, InLine, Jumping, Working
    <3> QED BY <3>1, <3>2
  <2>3. /\ \A t \in Threads' : pc'[t] = "stop" => t = 1
        /\ stopped' = {} \/ pc'[1] = "stop"
        /\ jumped' = {} \/ pc'[1] # "idle"
        /\ slow' \/ lateAcks' = {}
    BY DEF InLine, Held, Threads
  <2> QED BY <2>1, <2>2, <2>3 DEF InLine
<1>7. ASSUME NEW j \in todo[1], IsJump(team[j]),
             j \in todo'[1] => j = Executor(1)' /\ (Left' \/ (pc'[1] = "working" /\ step' = "after"))
      PROVE  j = Executor(1) /\ (Left \/ (pc[1] = "working" /\ step = "after"))
  <2>1. CASE l = pc[1] /\ todo'[1] = todo[1]
    BY <1>4, <1>7, <2>1 DEF Held, Left
  <2>2. CASE todo'[1] = todo[1] /\ pc[1] \notin {"idle", "stop"}
             /\ (Jumping(1) => l = "stop")
             /\ (l \in {"append", "test"} => pc[1] = "append" \/ ~IsJump(Job(1)))
    <3>1. j = Executor(1) /\ (l \in {"append", "test"} \/ (l = "working" /\ step = "after"))
      BY <1>4, <1>7, <2>2 DEF Left, Held
    <3>2. IsJump(Job(1))
      BY <1>7, <3>1 DEF Job
    <3>3. l = "working" => step = "begin"
      BY <2>2 DEF InLine
    <3> QED BY <2>2, <3>1, <3>2, <3>3 DEF Left
  <2>3. CASE pc[1] = "test" /\ l = "next" /\ todo'[1] = todo[1] \ {Executor(1)}
    <3>1. j \notin todo'[1]
      BY <1>7, <2>3 DEF Left, Held
    <3> QED BY <2>3, <3>1 DEF Left
  <2> QED BY <2>1, <2>2, <2>3 DEF Held
<1>8. ASSUME NEW j \in todo[1], IsJump(team[j]), j \in todo'[1] => j = Executor(1)' /\ Left'
      PROVE  j = Executor(1) /\ Left
  <2>1. CASE l = pc[1] /\ todo'[1] = todo[1]
    BY <1>4, <1>8, <2>1 DEF Held, Left
  <2>2. CASE todo'[1] = todo[1] /\ pc[1] \notin {"idle", "stop"}
             /\ (l \in {"append", "test"} => pc[1] = "append" \/ ~IsJump(Job(1)))
    <3>1. j = Executor(1) /\ l \in {"append", "test"}
      BY <1>4, <1>8, <2>2 DEF Left, Held
    <3> QED BY <1>8, <2>2, <3>1 DEF Left, Job
  <2>3. CASE pc[1] = "test" /\ l = "next" /\ todo'[1] = todo[1] \ {Executor(1)}
    <3>1. j \notin todo'[1]
      BY <1>8, <2>3 DEF Left, Held
    <3> QED BY <2>3, <3>1 DEF Left
  <2> QED BY <2>1, <2>2, <2>3 DEF Held
<1>9. ASSUME NEW w, Over(w)' PROVE Over(w)
  BY <1>1, <1>7, <1>9 DEF Over
<1>10. ASSUME NEW c, AllBack(c)' PROVE AllBack(c)
  BY <1>1, <1>8, <1>10 DEF AllBack
<1>11. \A c : Excused(c)' <=> Excused(c)
  BY <1>1 DEF Excused, Held
<1>12. Entered'
  BY <1>1, <1>2, <1>9 DEF Entered, Held
<1>13. Back'
  BY <1>10, <1>11 DEF Back, Held
<1>14. BackHeard'
  <2> SUFFICES ASSUME Jumping(1)', step' = "after", OnEthernet', Job(1)'.kind = "jumpApp"
               PROVE  Excused(Job(1).core)'
    BY DEF BackHeard
  <2>1. step = "after" /\ Jumping(1)
    BY <1>5 DEF Held
  <2>2. l = "working"
    BY DEF Jumping, Working, Held
  <2>3. todo'[1] = todo[1]
    BY <2>1, <2>2 DEF Held, Jumping, Working
  <2>4. Job(1)' = Job(1)
    BY <1>4, <2>3
  <2> QED BY <1>1, <1>11, <2>1, <2>4 DEF BackHeard
<1> QED BY <1>3, <1>6, <1>12, <1>13, <1>14

-----------------------------------------------------------------------------
(* If the worker in turn makes the only jump before a part, that is a jump  *)
(* to the bootloader of its core; a worker is sent back by one that follows.*)
LEMMA LastJump ==
  ASSUME OrderInv, Listed, Chain, InLine, NEW e \in todo[1], \A v \in todo[1] : e <= v,
         IsJump(team[e]), NEW w \in todo[1], team[w].kind = "write",
         \A j \in todo[1] : j < w /\ IsJump(team[j]) => j = e
  PROVE  team[e].kind = "jumpBoot" /\ team[e].core = team[w].core
<1>1. Workers = DOMAIN team /\ Workers \subseteq Nat /\ todo[1] \subseteq Workers
  BY OneCaller
<1>2. PICK j \in Workers : /\ j < w /\ team[j].kind = "jumpBoot" /\ team[j].core = team[w].core
                           /\ \A k \in Workers : j < k /\ k < w => ~IsJump(team[k])
  BY <1>1 DEF Listed, Proper, Bracketed, team
<1>3. e < w
  BY <1>1 DEF IsJump
<1>4. ~(j < e)
  BY <1>1, <1>2, <1>3
<1>5. j \in todo[1]
  BY <1>1, <1>4 DEF InLine
<1>6. IsJump(team[j])
  BY <1>2 DEF IsJump
<1> QED BY <1>2, <1>5, <1>6

LEMMA WayBack ==
  ASSUME OrderInv, Listed, Chain, InLine, NEW e \in todo[1], team[e].kind = "jumpBoot"
  PROVE  \E k \in todo[1] : k # e /\ IsJump(team[k]) /\ team[k].core = team[e].core
<1>1. Workers = DOMAIN team /\ Workers \subseteq Nat /\ todo[1] \subseteq Workers
  BY OneCaller
<1>2. PICK k \in Workers : k > e /\ team[k].kind = "jumpApp" /\ team[k].core = team[e].core
  BY <1>1 DEF Listed, Proper, Bracketed, team
<1>3. k \in todo[1] /\ k # e
  BY <1>1, <1>2 DEF InLine
<1> QED BY <1>2, <1>3 DEF IsJump

(* The thread begins: nobody has jumped, and before every part there is a   *)
(* jump to come.                                                            *)
LEMMA RunStep ==
  ASSUME OrderInv, Listed, Chain, UnitOK, InLine, Start, UNCHANGED unitVars
  PROVE  UnitOK' /\ InLine' /\ Entered' /\ Back' /\ BackHeard'
<1>1. UNCHANGED <<session, groups, slow, acks, core, step, jumped, unheard, lateAcks, stopped>>
  BY DEF unitVars, Start
<1>2. /\ UNCHANGED <<team, OnEthernet, Chain, Workers>> /\ Chain'
      /\ \A w : Acks(w)' = Acks(w)
  BY <1>1, Frame
<1>3. /\ 1 \in Threads /\ Workers = DOMAIN team /\ Workers \subseteq Nat /\ Firsts = {}
      /\ Group(1) = Workers /\ 1 \in Workers
  BY OneCaller
<1>4. pc[1] = "idle"
  BY <1>3 DEF Start, OrderInv, Phases, Resting, Others
<1>5. jumped = {} /\ step = "begin" /\ stopped = {}
  BY <1>4 DEF InLine, Jumping, Working
<1>6. pc'[1] = "next" /\ todo'[1] = Workers /\ \A t \in Threads : pc'[t] \in {"next", pc[t]}
  <2>1. NormalRun(0, {})
    BY <1>3 DEF Start, Firsts, Members
  <2> QED BY <1>3, <2>1 DEF NormalRun
<1>7. UnitOK'
  BY <1>1, <1>2 DEF UnitOK
<1>8. InLine'
  BY <1>1, <1>2, <1>5, <1>6 DEF InLine, Threads
<1>9. Entered'
  <2> SUFFICES ASSUME NEW w \in Workers, team[w].kind = "write", Over(w)' PROVE FALSE
    BY <1>1, <1>2, <1>6 DEF Entered
  <2>1. PICK j \in Workers : j < w /\ team[j].kind = "jumpBoot"
    BY <1>3 DEF Listed, Proper, Bracketed, team
  <2>2. Left' \/ (pc'[1] = "working" /\ step' = "after")
    BY <1>2, <1>6, <2>1 DEF Over, IsJump
  <2> QED BY <1>6, <2>2 DEF Left
<1>10. Back'
  BY <1>1, <1>5 DEF Back
<1>11. BackHeard'
  BY <1>6 DEF BackHeard, Jumping, Working
<1> QED BY <1>7, <1>8, <1>9, <1>10, <1>11

(* A jump worker shakes hands.                                              *)
LEMMA HandsStep ==
  ASSUME OrderInv, Listed, Chain, UnitOK, InLine, Entered, Back, BackHeard, JumpBegin(1)
  PROVE  UnitOK' /\ InLine' /\ Entered' /\ Back' /\ BackHeard'
<1>1. /\ UNCHANGED <<session, groups, slow, acks, core, jumped, unheard, stopped, pc, todo>>
      /\ step = "begin" /\ step' = "try" /\ lateAcks' \in {{}, lateAcks} /\ Jumping(1)
  BY DEF JumpBegin, vars
<1>2. /\ UNCHANGED <<team, OnEthernet, Chain, Workers, Job(1), Executor(1), Left>> /\ Chain'
      /\ \A w : Acks(w)' = Acks(w)
  BY <1>1, Frame DEF Job, Executor, Left
<1>3. UnitOK'
  BY <1>1, <1>2 DEF UnitOK
<1>4. InLine'
  BY <1>1, <1>2 DEF InLine, Jumping, Working, Threads
<1>5. ASSUME NEW w, Over(w)' PROVE Over(w)
  BY <1>1, <1>2, <1>5 DEF Over
<1>6. \A c : (AllBack(c)' <=> AllBack(c)) /\ (Excused(c)' <=> Excused(c))
  BY <1>1, <1>2 DEF AllBack, Excused
<1>7. Entered'
  BY <1>1, <1>2, <1>5 DEF Entered
<1>8. Back'
  BY <1>1, <1>6 DEF Back
<1>9. BackHeard'
  BY <1>1 DEF BackHeard
<1> QED BY <1>3, <1>4, <1>7, <1>8, <1>9

(* It sends its command; what it takes for the acknowledgement is one of a  *)
(* jump that was made, if none comes late.                                  *)
Cores == [{"main", "imu"} -> {"app", "boot"}]

LEMMA PutCores ==
  ASSUME NEW cores \in Cores, NEW c \in {"main", "imu"}, NEW mode \in {"app", "boot"},
         NEW new \in Put(cores, c, mode)
  PROVE  /\ new \in Cores
         /\ \A d \in {"main", "imu"} : new[d] = cores[d] \/ (d = c /\ new[d] = mode)
BY DEF Put, Cores

LEMMA Tried ==
  ASSUME OrderInv, Listed, Chain, UnitOK, InLine, JumpTry(1)
  PROVE  LET w == Job(1)
         IN  /\ core' \in Cores /\ w.core \in {"main", "imu"}
             /\ \A c \in {"main", "imu"} \ {w.core} : core'[c] = core[c] \/ core'[c] = "app"
             /\ step' \in {"try", "after"}
             /\ step' = "after" /\ Acks(w) /\ ~slow /\ w.kind = "jumpBoot" => core'[w.core] = "boot"
             /\ step' = "after" /\ ~slow /\ w.kind = "jumpApp" => core'[w.core] = "app" \/ w.core \in unheard'
             /\ \A c \in unheard : c # w.core => c \in unheard'
             /\ slow \/ lateAcks' = {}
<1> DEFINE w == Job(1)
           lasts == attempt + 1 = AllTries(w)
           resets == RoundsOf(w) /\ (attempt + 1) % JumpTries(w) = 0
<1>1. Jumping(1) /\ step = "try" /\ pc[1] = "working" /\ w.kind \in {"jumpBoot", "jumpApp"}
  BY DEF JumpTry, Jumping, Working
<1>2. w.core \in {"main", "imu"} /\ core \in Cores
  BY <1>1, AtWork, OneCaller DEF InCall, UnitOK, Cores
<1>3. Target(w) \in {"app", "boot"} /\ (w.kind = "jumpApp" => Target(w) = "app")
      /\ (w.kind = "jumpBoot" => Target(w) = "boot")
  BY DEF Target
<1>4. PICK new \in Put(core, w.core, Target(w)), answer \in {"prompt", "lost", "late"} :
        LET read  == Ack(w) \in lateAcks \/ (new[w.core] = Target(w) /\ answer = "prompt")
            acked == Acks(w) /\ read
        IN  /\ answer = "late" => slow /\ new[w.core] = Target(w)
            /\ lateAcks' = (lateAcks \ {Ack(w)}) \cup
                           (IF answer = "late" /\ ~acked THEN {Ack(w)} ELSE {})
            /\ core' \in IF resets /\ ~acked THEN Put(new, "main", "app") ELSE {new}
            /\ step' = IF acked \/ ~Acks(w) \/ (lasts /\ w.kind = "jumpApp") THEN "after" ELSE step
            /\ unheard' = IF acked \/ w.kind = "jumpBoot" THEN unheard \ {w.core}
                          ELSE unheard \cup {w.core}
  BY DEF JumpTry
<1> DEFINE acked == Acks(w) /\ (Ack(w) \in lateAcks \/ (new[w.core] = Target(w) /\ answer = "prompt"))
<1>5. /\ answer = "late" => slow
      /\ lateAcks' = (lateAcks \ {Ack(w)}) \cup (IF answer = "late" /\ ~acked THEN {Ack(w)} ELSE {})
      /\ core' \in Put(new, "main", "app") \/ core' = new
      /\ acked => core' = new
      /\ step' = IF acked \/ ~Acks(w) \/ (lasts /\ w.kind = "jumpApp") THEN "after" ELSE step
      /\ unheard' = IF acked \/ w.kind = "jumpBoot" THEN unheard \ {w.core} ELSE unheard \cup {w.core}
  BY <1>4, Zenon
<1> HIDE DEF w, lasts, resets
<1>6. new \in Cores /\ \A d \in {"main", "imu"} : d # w.core => new[d] = core[d]
  BY <1>2, <1>3, PutCores
<1>7. core' \in Cores /\ \A d \in {"main", "imu"} : core'[d] = new[d] \/ core'[d] = "app"
  BY <1>5, <1>6, PutCores
<1>8. acked /\ ~slow => core'[w.core] = Target(w)
  BY <1>5 DEF InLine
<1>9. slow \/ lateAcks' = {}
  BY <1>5 DEF InLine
<1> QED BY <1>1, <1>2, <1>3, <1>5, <1>6, <1>7, <1>8, <1>9 DEF w

LEMMA TryStep ==
  ASSUME OrderInv, Listed, Chain, UnitOK, InLine, Entered, Back, BackHeard, JumpTry(1)
  PROVE  UnitOK' /\ InLine' /\ Entered' /\ Back' /\ BackHeard'
<1>1. /\ UNCHANGED <<session, groups, slow, acks, stopped, pc, todo>>
      /\ step = "try" /\ Jumping(1) /\ pc[1] = "working" /\ jumped' = jumped \cup {Job(1).core}
  BY DEF JumpTry, vars, Jumping, Working
<1>2. /\ UNCHANGED <<team, OnEthernet, Chain, Workers, Job(1), Executor(1), Left>> /\ Chain'
      /\ \A w : Acks(w)' = Acks(w)
  BY <1>1, Frame DEF Job, Executor, Left
<1>3. /\ core' \in Cores /\ Job(1).core \in {"main", "imu"}
      /\ \A c \in {"main", "imu"} \ {Job(1).core} : core'[c] = core[c] \/ core'[c] = "app"
      /\ step' \in {"try", "after"}
      /\ step' = "after" /\ Acks(Job(1)) /\ ~slow /\ Job(1).kind = "jumpBoot" => core'[Job(1).core] = "boot"
      /\ step' = "after" /\ ~slow /\ Job(1).kind = "jumpApp"
           => core'[Job(1).core] = "app" \/ Job(1).core \in unheard'
      /\ \A c \in unheard : c # Job(1).core => c \in unheard'
      /\ slow \/ lateAcks' = {}
  BY Tried
<1>4. /\ Executor(1) \in todo[1] /\ \A v \in todo[1] : Executor(1) <= v
      /\ IsJump(Job(1)) /\ Job(1) = team[Executor(1)]
      /\ todo[1] \subseteq Workers /\ Workers = DOMAIN team /\ Workers \subseteq Nat
  BY <1>1, AtWork, OneCaller DEF InCall, IsJump, Jumping, Working, Job
<1>5. UnitOK'
  BY <1>1, <1>2, <1>3 DEF UnitOK, Cores
<1>6. InLine'
  BY <1>1, <1>2, <1>3 DEF InLine, Jumping, Working, Threads
<1>7. Entered'
  <2> SUFFICES ASSUME NEW w \in todo[1], team[w].kind = "write", Acks(team[w]), ~slow, Over(w)'
               PROVE  core'[team[w].core] = "boot"
    BY <1>1, <1>2 DEF Entered
  <2>1. \A j \in todo[1] : j < w /\ IsJump(team[j]) => j = Executor(1) /\ step' = "after"
    BY <1>1, <1>2 DEF Over, Left
  <2>2. Job(1).kind = "jumpBoot" /\ Job(1).core = team[w].core
    BY <1>4, <2>1, LastJump
  <2>3. Executor(1) < w
    <3>1. Executor(1) # w
      BY <1>4 DEF IsJump
    <3> QED BY <1>4, <3>1
  <2>4. step' = "after"
    BY <1>4, <2>1, <2>3
  <2>5. Acks(Job(1))
    BY <2>2 DEF Acks
  <2> QED BY <1>3, <2>2, <2>4, <2>5
<1>8. Back'
  <2> SUFFICES ASSUME NEW c \in jumped', AllBack(c)' PROVE Excused(c)'
    BY DEF Back
  <2>1. \A j \in todo[1] : IsJump(team[j]) => team[j].core # c
    BY <1>1, <1>2 DEF AllBack, Left
  <2>2. c # Job(1).core /\ c \in jumped /\ AllBack(c)
    BY <1>1, <1>4, <2>1 DEF AllBack
  <2>3. Excused(c) /\ c \in {"main", "imu"}
    BY <2>2 DEF Back, UnitOK
  <2> QED BY <1>1, <1>2, <1>3, <2>2, <2>3 DEF Excused
<1>9. BackHeard'
  BY <1>1, <1>2, <1>3 DEF BackHeard, Excused
<1> QED BY <1>5, <1>6, <1>7, <1>8, <1>9

(* It is done: a core that went back to its application is there, or its    *)
(* acknowledgement was not heard.                                           *)
LEMMA AfterStep ==
  ASSUME OrderInv, Listed, Chain, UnitOK, InLine, Entered, Back, BackHeard, JumpAfter(1)
  PROVE  UnitOK' /\ InLine' /\ Entered' /\ Back' /\ BackHeard'
<1>1. /\ UNCHANGED <<session, groups, slow, acks, stopped, todo, jumped, unheard, lateAcks>>
      /\ step = "after" /\ step' = "begin" /\ Jumping(1) /\ pc[1] = "working"
      /\ pc' = [pc EXCEPT ![1] = "append"]
  BY DEF JumpAfter, Finish, Goto, Jumping, Working
<1>2. /\ UNCHANGED <<team, OnEthernet, Chain, Workers, Job(1), Executor(1)>> /\ Chain'
      /\ \A w : Acks(w)' = Acks(w)
  BY <1>1, Frame DEF Job, Executor
<1>3. 1 \in Threads /\ pc'[1] = "append" /\ \A t \in Threads : t # 1 => pc'[t] = pc[t]
  BY <1>1, OneCaller DEF OrderInv, Shape
<1>4. /\ Executor(1) \in todo[1] /\ \A v \in todo[1] : Executor(1) <= v
      /\ IsJump(Job(1)) /\ Job(1) = team[Executor(1)] /\ Job(1).core \in {"main", "imu"}
      /\ todo[1] \subseteq Workers /\ Workers = DOMAIN team /\ Workers \subseteq Nat
  BY <1>1, AtWork, OneCaller DEF InCall, IsJump, Jumping, Working, Job
<1>5. /\ core' \in Cores /\ \A c \in {"main", "imu"} : core'[c] = core[c] \/ core'[c] = "app"
      /\ Job(1).kind = "jumpBoot" => core' = core
      /\ Job(1).kind = "jumpApp" /\ ~OnEthernet => core'[Job(1).core] = "app"
  <2>1. After(Job(1)) /\ core \in Cores
    BY DEF JumpAfter, UnitOK, Cores
  <2>2. CASE OnEthernet /\ Ack(Job(1)) = <<"jumpApp", "imu">>
    <3>1. \E c \in {"main", "imu"} : core' \in Put(core, c, "app")
      BY <2>1, <2>2 DEF After, Ack
    <3>2. Job(1).kind = "jumpApp"
      BY <2>2 DEF Ack
    <3> QED BY <2>1, <2>2, <3>1, <3>2, PutCores
  <2>3. CASE ~(OnEthernet /\ Ack(Job(1)) = <<"jumpApp", "imu">>)
    <3>1. core' = core /\ (Job(1).kind = "jumpApp" /\ ~OnEthernet => core[Job(1).core] = "app")
      BY <2>1, <2>3 DEF After
    <3> QED BY <2>1, <3>1
  <2> QED BY <2>2, <2>3
<1>6. UnitOK'
  BY <1>1, <1>2, <1>5 DEF UnitOK, Cores
<1>7. InLine'
  BY <1>1, <1>2, <1>3 DEF InLine, Threads
<1>8. Entered'
  <2> SUFFICES ASSUME NEW w \in todo[1], team[w].kind = "write", Acks(team[w]), ~slow, Over(w)'
               PROVE  core'[team[w].core] = "boot"
    BY <1>1, <1>2 DEF Entered
  <2>1. \A j \in todo[1] : j < w /\ IsJump(team[j]) => j = Executor(1)
    BY <1>1, <1>2 DEF Over
  <2>2. Job(1).kind = "jumpBoot"
    BY <1>4, <2>1, LastJump
  <2>3. Over(w)
    BY <1>1, <2>1 DEF Over
  <2> QED BY <1>5, <2>2, <2>3 DEF Entered
<1>9. Back'
  <2> SUFFICES ASSUME NEW c \in jumped, AllBack(c)' PROVE Excused(c)'
    BY <1>1 DEF Back
  <2>0. c \in {"main", "imu"}
    BY DEF UnitOK
  <2>1. \A j \in todo[1] : IsJump(team[j]) /\ team[j].core = c => j = Executor(1)
    BY <1>1, <1>2 DEF AllBack
  <2>2. Excused(c) => Excused(c)'
    BY <1>1, <1>2, <1>5, <2>0 DEF Excused
  <2>3. CASE Job(1).core # c
    <3>1. AllBack(c)
      BY <1>4, <2>1, <2>3 DEF AllBack
    <3> QED BY <2>2, <3>1 DEF Back
  <2>4. CASE Job(1).core = c
    <3>1. Job(1).kind = "jumpApp"
      <4>1. Job(1).kind # "jumpBoot"
        BY <1>4, <2>1, <2>4, WayBack
      <4> QED BY <1>4, <4>1 DEF IsJump
    <3>2. CASE OnEthernet
      BY <1>1, <2>2, <2>4, <3>1, <3>2 DEF BackHeard
    <3>3. CASE ~OnEthernet
      BY <1>5, <2>4, <3>1, <3>3 DEF Excused
    <3> QED BY <3>2, <3>3
  <2> QED BY <2>3, <2>4
<1>10. BackHeard'
  BY <1>1 DEF BackHeard
<1> QED BY <1>6, <1>7, <1>8, <1>9, <1>10

-----------------------------------------------------------------------------
(* All other steps hold the unit.                                           *)
LEMMA HeldSteps ==
  ASSUME OrderInv, Listed, Chain, InLine,
         PrepareFails \/ Chip \/ UNCHANGED sessionVars
         \/ \E t \in Threads : CenterTurn(t) \/ StopTurn(t) \/ WorkerTurn(t)
  PROVE  (\E l : Held(l)) \/ \E t \in {1} : JumpBegin(t) \/ JumpTry(t) \/ JumpAfter(t)
<1>1. 1 \in Threads /\ \A t \in Threads : t # 1 => todo[t] = {}
  BY OneCaller
<1>2. 0 \in Threads /\ DOMAIN pc = Threads /\ DOMAIN todo = Threads
      /\ \A t \in Threads : t # 1 => pc[t] \in {"start", "idle", "next", "ended", "dead"}
  BY <1>1 DEF OrderInv, Shape, InLine, Threads, InCall
<1>3. stopped \cap todo[1] = {} \/ pc[1] = "stop"
  BY DEF InLine
<1>4. ASSUME UNCHANGED <<pc, todo>>, UNCHANGED <<session, groups, slow, acks, core, step, jumped, unheard, lateAcks>>,
             stopped' = stopped \/ pc[1] = "stop"
      PROVE  Held(pc[1])
  BY <1>1, <1>4 DEF Held, InLine
<1>5. CASE PrepareFails \/ Chip \/ UNCHANGED sessionVars
  BY <1>4, <1>5 DEF PrepareFails, PrepareError, Chip, sessionVars, vars, unitVars
<1>6. ASSUME NEW t \in Threads, StopTurn(t) PROVE Held(pc[1])
  <2>1. pc[1] = "stop"
    BY <1>6 DEF StopTurn, StopWorkers, InLine
  <2> QED BY <1>4, <1>6, <2>1 DEF StopTurn, StopWorkers, unitVars
<1>7. ASSUME NEW t \in Threads, CenterTurn(t), t # 1 PROVE Held(pc[1])
  <2>1. ThreadEnds(t)
    BY <1>1, <1>2, <1>7 DEF CenterTurn, CenterStep, Work, ProgressBegin, ProgressSum, ProgressStep, DoneAppend, DoneTest
  <2> QED BY <1>1, <1>2, <1>7, <2>1 DEF CenterTurn, ThreadEnds, Goto, unitVars, Held, InLine
<1>8. ASSUME NEW l, pc' = [pc EXCEPT ![1] = l], todo' = todo, stopped' = stopped,
             UNCHANGED <<session, groups, slow, acks, core, step, jumped, unheard, lateAcks>>,
             pc[1] \notin {"idle", "stop"}, l # "idle", Jumping(1) => l = "stop",
             l \in {"append", "test"} => pc[1] = "append" \/ ~IsJump(Job(1))
      PROVE  Held(l)
  BY <1>1, <1>2, <1>8 DEF Held, InLine
<1>9. CASE CenterTurn(1)
  <2>1. UNCHANGED <<session, slow, acks, core, step, jumped, unheard, lateAcks>>
    BY <1>9 DEF CenterTurn, unitVars
  <2>2. CASE Work(1)
    <3>1. pc' = [pc EXCEPT ![1] = "working"] /\ todo' = todo /\ stopped' = stopped /\ groups' = groups /\ pc[1] = "next"
      <4>1. Executor(1) \notin stopped
        <5>1. Executor(1) \in todo[1]
          BY <2>2, <1>1, InTurn DEF Work, OrderInv
        <5> QED BY <1>3, <2>2, <5>1 DEF Work
      <4> QED BY <2>2, <4>1 DEF Work, Goto
    <3> QED BY <1>8, <2>1, <3>1 DEF Jumping, Working
  <2>3. CASE ThreadEnds(1)
    BY <1>8, <2>1, <2>3 DEF ThreadEnds, Goto, Jumping, Working
  <2>4. CASE ProgressBegin(1)
    BY <1>8, <2>1, <2>4 DEF ProgressBegin, Goto, Jumping, Working
  <2>5. CASE ProgressSum(1)
    BY <1>8, <2>1, <2>5 DEF ProgressSum, Goto, Jumping, Working
  <2>6. CASE ProgressStep(1)
    BY <1>8, <2>1, <2>6 DEF ProgressStep, Goto, Jumping, Working
  <2>7. CASE DoneAppend(1)
    BY <1>8, <2>1, <2>7 DEF DoneAppend, Goto, Jumping, Working
  <2>8. CASE DoneTest(1)
    <3>1. Kind(Executor(1)) = "normal" /\ Lasts = {}
      BY <1>1, <2>8, AtWork, OneCaller DEF DoneTest, InCall
    <3>2. /\ pc' = [pc EXCEPT ![1] = "next"] /\ pc[1] = "test" /\ UNCHANGED <<groups, stopped>>
          /\ todo' = [todo EXCEPT ![1] = @ \ {Executor(1)}]
      BY <2>8, <3>1 DEF DoneTest, Goto, Lasts
    <3> QED BY <1>1, <1>2, <2>1, <3>2 DEF Held, InLine
  <2> QED BY <1>9, <2>2, <2>3, <2>4, <2>5, <2>6, <2>7, <2>8 DEF CenterTurn, CenterStep
<1>10. ASSUME NEW t \in Threads, WorkerTurn(t)
       PROVE  (\E l : Held(l)) \/ JumpBegin(1) \/ JumpTry(1) \/ JumpAfter(1)
  <2>1. pc[t] = "working"
    BY <1>10 DEF WorkerTurn, PlainTurn, SdkTurn, SdkFinished, SdkFailed, JumpBegin, JumpTry, JumpFails, JumpAfter,
                 NoAnswer, WriteTurn, WriteFinished, WriteFails, Jumping, Working
  <2>2. t = 1 /\ pc[1] = "working" /\ Executor(1) \in todo[1] /\ Executor(1) \notin stopped
    BY <1>3, <2>1, AtWork DEF InCall
  <2>3. Exit(1) /\ UNCHANGED unitVars => Held(pc[1])
    BY <1>4 DEF Exit, unitVars
  <2>4. Fail(1) /\ UNCHANGED unitVars => Held("stop")
    BY <1>8, <2>2 DEF Fail, Goto, unitVars
  <2>5. ~Return(1)
    BY <2>2 DEF Return
  <2>6. Finish(1) /\ UNCHANGED <<session, slow, acks, core, step, jumped, unheard, lateAcks>> /\ ~IsJump(Job(1))
          => Held("append")
    BY <1>8, <2>2 DEF Finish, Goto, Jumping, Working, IsJump
  <2>7. Write(1) /\ UNCHANGED <<session, slow, acks, core, step, jumped, unheard, lateAcks>> /\ ~IsJump(Job(1))
          => \E l : Held(l)
    <3>1. Executor(1) \in Normal
      BY <2>2, AtWork, OneCaller DEF InCall
    <3> QED BY <1>8, <2>2, <3>1 DEF Write, Goto, Jumping, Working, IsJump
  <2>8. Raise(1) /\ UNCHANGED unitVars /\ ~IsJump(Job(1)) => Held("dead")
    BY <1>8, <2>2 DEF Raise, Goto, unitVars, Jumping, Working, IsJump
  <2>9. CASE PlainTurn(1)
    <3>1. ~IsJump(Job(1)) /\ UNCHANGED unitVars /\ WorkerStep(1)
      BY <2>9 DEF PlainTurn, Working, IsJump
    <3> QED BY <2>3, <2>4, <2>5, <2>6, <2>7, <2>8, <3>1 DEF WorkerStep, unitVars
  <2>10. CASE SdkTurn(1)
    BY <1>4, <2>10 DEF SdkTurn, vars, unitVars
  <2>11. CASE SdkFinished(1)
    BY <2>6, <2>11 DEF SdkFinished, Working, IsJump
  <2>12. CASE SdkFailed(1) \/ JumpFails(1) \/ NoAnswer(1) \/ WriteFails(1)
    BY <2>3, <2>4, <2>5, <2>12 DEF SdkFailed, JumpFails, NoAnswer, WriteFails
  <2>13. CASE WriteTurn(1)
    BY <2>7, <2>13 DEF WriteTurn, Working, IsJump
  <2>14. CASE WriteFinished(1)
    BY <2>6, <2>14 DEF WriteFinished, Working, IsJump, unitVars
  <2> QED BY <1>10, <2>2, <2>9, <2>10, <2>11, <2>12, <2>13, <2>14 DEF WorkerTurn
<1> QED BY <1>5, <1>6, <1>7, <1>9, <1>10

LEMMA JumpInvStep ==
  ASSUME OrderInv, Listed, JumpInv, [SessionNext]_sessionVars
  PROVE  JumpInv'
<1>1. UNCHANGED <<session, groups, slow, acks>> /\ UNCHANGED <<team, Chain>>
  BY Fixed, Frame
<1>2. CASE Chain
  <2> SUFFICES UnitOK' /\ InLine' /\ Entered' /\ Back' /\ BackHeard'
    BY <1>1 DEF JumpInv
  <2>1. UnitOK /\ InLine /\ Entered /\ Back /\ BackHeard
    BY <1>2 DEF JumpInv
  <2>2. CASE Begin
    BY <1>2, <2>1, <2>2, RunStep DEF Begin
  <2>3. CASE ~Begin
    <3>1. (\E l : Held(l)) \/ JumpBegin(1) \/ JumpTry(1) \/ JumpAfter(1)
      BY <1>2, <2>1, <2>3, HeldSteps DEF SessionNext, Turn
    <3> QED BY <1>2, <2>1, <3>1, HeldStep, HandsStep, TryStep, AfterStep
  <2> QED BY <2>2, <2>3
<1>3. CASE ~Chain
  <2>1. \A t \in Threads : ~Jumping(t)
    BY <1>3, AtWork DEF Jumping, Working, InCall
  <2>2. UNCHANGED <<core, jumped>>
    BY <2>1 DEF SessionNext, sessionVars, unitVars, PrepareFails, Begin, Chip, Turn, CenterTurn, StopTurn,
           WorkerTurn, PlainTurn, SdkTurn, SdkFinished, SdkFailed, JumpBegin, JumpTry, JumpFails,
           JumpAfter, NoAnswer, WriteTurn, WriteFinished, WriteFails
  <2> QED BY <1>1, <1>3, <2>2 DEF JumpInv, UnitOK
<1> QED BY <1>2, <1>3

LEMMA JumpInvInit ==
  ASSUME SessionInit, Listed
  PROVE  JumpInv
<1>1. UnitOK
  BY DEF SessionInit, UnitOK
<1>2. /\ step = "begin" /\ stopped = {} /\ lateAcks = {} /\ jumped = {}
      /\ \A t \in Threads : todo[t] = {} /\ pc[t] \in {"start", "idle"}
  BY DEF SessionInit, Init
<1>3. ASSUME Chain PROVE InLine /\ Entered /\ Back /\ BackHeard
  <2>1. 1 \in Threads
    BY <1>3, OrderInit, OneCaller DEF SessionInit
  <2>2. todo[1] = {} /\ pc[1] \in {"start", "idle"}
    BY <1>2, <2>1
  <2> QED BY <1>2, <2>2 DEF InLine, Entered, Back, BackHeard, Jumping, Working
<1> QED BY <1>1, <1>3 DEF JumpInv

(* A part is written while its core is in its bootloader.                   *)
LEMMA EnteredIsInBoot ==
  ASSUME OrderInv, Listed, JumpInv
  PROVE  WrittenInBoot
<1> SUFFICES ASSUME NEW t \in Threads, Working(t, "write"), Acks(Job(t)), ~slow
             PROVE  core[Job(t).core] = "boot"
  BY DEF WrittenInBoot
<1>1. /\ Chain /\ t = 1 /\ Executor(1) \in todo[1] /\ \A w \in todo[1] : Executor(1) <= w
      /\ todo[1] \subseteq Nat
  BY AtWork, OneCaller DEF Working, InCall
<1>2. Over(Executor(1))
  BY <1>1 DEF Over
<1> QED BY <1>1, <1>2 DEF JumpInv, Entered, Job, Working

(* When all workers have finished, all jumps have been made.                *)
LEMMA BackIsInApplication ==
  ASSUME OrderInv, Listed, JumpInv, FinishMeansAll
  PROVE  BackInApplication
<1> SUFFICES ASSUME finishes > 0, NEW c \in jumped PROVE Excused(c)
  BY DEF BackInApplication, Excused
<1>1. Chain
  BY DEF JumpInv, UnitOK
<1>2. /\ 1 \in Threads /\ todo[1] \subseteq Workers /\ Workers = Normal /\ Lasts = {}
  BY <1>1, OneCaller
<1>3. \A w \in todo[1] : pc[1] = "test" /\ w = Executor(1)
  BY <1>2 DEF FinishMeansAll, OrderInv, Counts
<1>4. AllBack(c)
  BY <1>3 DEF AllBack, Left
<1> QED BY <1>1, <1>4 DEF JumpInv, Back

-----------------------------------------------------------------------------
(* SDK workers, one after the other: each begins afresh.                    *)
LEMMA ChipStep ==
  ASSUME SdkInv, AtTheEnd, [SessionNext]_sessionVars
  PROVE  SdkInv' /\ AtTheEnd' /\ UNCHANGED runVars
<1>1. CASE UNCHANGED <<stageVars, version, chipVars, runVars>> /\ sdkStopped' \in BOOLEAN
  <2>1. UNCHANGED <<sdkPc, pos, link>>
    BY <1>1 DEF stageVars, runVars
  <2> QED BY <1>1, <2>1, StopStep, SameLink DEF AtTheEnd
<1>2. CASE SdkWork
  <2>1. UNCHANGED runVars
    BY <1>2 DEF SdkWork, Stopped, SendStage, FlashWritten, ReadOther, ReadReply, ReadMismatch, ReadGivesUp
  <2> QED BY <1>2, <2>1, WorkStep, EndStep DEF SdkInv
<1>3. CASE SdkLink
  <2>1. UNCHANGED <<sdkPc, pos, link>> /\ UNCHANGED runVars
    BY <1>3, LinkFrame DEF SdkInv, runVars
  <2> QED BY <1>3, <2>1, LinkStep, SameLink DEF AtTheEnd
<1>4. ASSUME NEW t \in Threads, SdkFinished(t) PROVE SdkInv' /\ AtTheEnd' /\ UNCHANGED runVars
  <2>1. UNCHANGED <<link, unit, late, sdkStopped>>
    BY <1>4 DEF SdkFinished, runVars
  <2>2. FirstBlock' = FirstBlock
    BY <2>1, SameLink
  <2>3. Fresh'
    BY <1>4, <2>1, <2>2 DEF SdkFinished, Fresh, SdkInv, SdkTypeOK
  <2>4. SdkInv'
    BY <2>3, BeginStep, PTL
  <2>5. AtTheEnd'
    BY <2>3 DEF AtTheEnd, Fresh
  <2> QED BY <1>4, <2>4, <2>5 DEF SdkFinished
<1>5. ASSUME NEW t \in Threads, StopTurn(t) PROVE UNCHANGED <<stageVars, version, chipVars, runVars>> /\ sdkStopped' \in BOOLEAN
  BY <1>5 DEF StopTurn, SdkInv, SdkTypeOK
<1>6. CASE UNCHANGED sdkVars
  <2>1. sdkStopped \in BOOLEAN
    BY DEF SdkInv, SdkTypeOK
  <2> QED BY <1>1, <1>6, <2>1 DEF sdkVars, workerVars
<1>7. ASSUME NEW t \in Threads, Turn(t) PROVE SdkInv' /\ AtTheEnd' /\ UNCHANGED runVars
  <2>1. CASE SdkTurn(t)
    BY <1>2, <2>1 DEF SdkTurn
  <2>2. CASE ~SdkTurn(t) /\ ~SdkFinished(t) /\ ~StopTurn(t)
    <3>1. UNCHANGED sdkVars
      BY <1>7, <2>2 DEF Turn, CenterTurn, WorkerTurn, PlainTurn, SdkFailed, JumpBegin, JumpTry, JumpFails,
             JumpAfter, NoAnswer, WriteTurn, WriteFinished, WriteFails
    <3> QED BY <1>6, <3>1
  <2> QED BY <1>1, <1>4, <1>5, <1>7, <2>1, <2>2
<1>8. CASE PrepareFails \/ Begin \/ UNCHANGED sessionVars
  BY <1>6, <1>8 DEF PrepareFails, Begin, sessionVars
<1>9. CASE Chip
  BY <1>3, <1>9 DEF Chip
<1> QED BY <1>7, <1>8, <1>9 DEF SessionNext

-----------------------------------------------------------------------------
(* The parts in the unit.  A firmware worker that has written anything, and *)
(* a worker that is done, has installed its part.                           *)
Faultless == acks /\ ~late /\ ~slow /\ unit = "recent"
Brings(w) == team[w].kind \in {"write", "sdk"}

PartsIn ==
  /\ \A w \in Workers : team[w].kind = "write" /\ written[w] > 0 => team[w].part \in installed
  /\ Left /\ Brings(Executor(1)) => team[Executor(1)].part \in installed
  /\ \A w \in ended : Brings(w) => team[w].part \in installed

LEMMA PartsStep ==
  ASSUME OrderInv, Listed, Chain, Amounts, SdkInv, AtTheEnd, Faultless, PartsIn, [SessionNext]_sessionVars
  PROVE  PartsIn'
<1>1. UNCHANGED <<session, groups, slow, acks>> /\ UNCHANGED <<team, Workers>> /\ \A w : Brings(w)' = Brings(w)
  BY Fixed, Frame DEF Brings
<1>2. 1 \in Threads /\ (\A t \in Threads : t # 1 => todo[t] = {}) /\ Workers = DOMAIN team
  BY OneCaller
<1>3. DOMAIN pc = Threads /\ DOMAIN todo = Threads /\ \A t \in Threads : t # 1 => pc[t] \notin InCall
  BY <1>2 DEF OrderInv, Shape
<1>4. installed \subseteq installed'
  BY DEF SessionNext, sessionVars, unitVars, PrepareFails, Begin, Chip, Turn, CenterTurn, StopTurn,
         WorkerTurn, PlainTurn, SdkTurn, SdkFinished, SdkFailed, JumpBegin, JumpTry, JumpFails,
         JumpAfter, NoAnswer, WriteTurn, WriteFinished, WriteFails
<1>5. ASSUME UNCHANGED <<ended, written>>,
             pc'[1] \in {"append", "test"} =>
               todo'[1] = todo[1] /\ (Left \/ (Brings(Executor(1)) => team[Executor(1)].part \in installed'))
      PROVE  PartsIn'
  <2>1. \A w \in Workers : team[w].kind = "write" /\ written[w] > 0 => team[w].part \in installed'
    BY <1>4 DEF PartsIn
  <2>2. Left' /\ Brings(Executor(1))' => team[Executor(1)]'.part \in installed'
    <3> SUFFICES ASSUME Left', Brings(Executor(1))' PROVE team[Executor(1)]'.part \in installed'
      OBVIOUS
    <3>1. Executor(1)' = Executor(1)
      BY <1>5 DEF Left, Executor
    <3>2. Brings(Executor(1))
      BY <1>1, <3>1 DEF Brings
    <3> QED BY <1>1, <1>4, <1>5, <3>1, <3>2 DEF PartsIn, Left
  <2>3. \A w \in ended : Brings(w) => team[w].part \in installed'
    BY <1>4 DEF PartsIn
  <2> QED BY <1>1, <1>5, <2>1, <2>2, <2>3 DEF PartsIn
<1>6. CASE PrepareFails \/ Chip \/ UNCHANGED sessionVars \/ \E t \in Threads : StopTurn(t)
  <2>1. UNCHANGED <<pc, todo, ended, written>>
    BY <1>6 DEF PrepareFails, PrepareError, Chip, sessionVars, vars, progressVars, StopTurn, StopWorkers
  <2> QED BY <1>5, <2>1 DEF Left
<1>7. CASE Begin
  <2>1. UNCHANGED <<ended, written>>
    BY <1>7 DEF Begin, Start, progressVars
  <2>2. pc'[1] \in {"next", pc[1]} /\ pc[1] = "idle"
    <3>1. pc[1] = "idle"
      BY <1>2, <1>7, OneCaller, Kinds3 DEF Begin, Start, OrderInv, Shape, Phases, Resting
    <3> QED BY <1>2, <1>3, <1>7, <3>1 DEF Begin, Start, NormalRun, Goto
  <2> QED BY <1>5, <2>1, <2>2
<1>8. ASSUME NEW t \in Threads, CenterTurn(t), ~DoneAppend(t) PROVE PartsIn'
  <2>1. UNCHANGED <<ended, written>>
    BY <1>8 DEF CenterTurn, CenterStep, progressVars, Work, ThreadEnds, ProgressBegin, ProgressSum, ProgressStep, DoneTest
  <2>2. CASE t = 1
    <3>1. pc'[1] \in {"working", "ended", "sum", "step", "next"}
      BY <1>2, <1>3, <1>8, <2>2 DEF CenterTurn, CenterStep, Goto, NormalRun, Work, ThreadEnds,
             ProgressBegin, ProgressSum, ProgressStep, DoneTest
    <3> QED BY <1>5, <2>1, <3>1
  <2>3. CASE t # 1
    <3>1. ThreadEnds(t)
      BY <1>2, <1>3, <1>8, <2>3 DEF CenterTurn, CenterStep, Work, ProgressBegin, ProgressSum, ProgressStep, DoneTest, InCall
    <3>2. pc'[1] = pc[1] /\ todo' = todo
      BY <2>3, <3>1 DEF ThreadEnds, Goto
    <3> QED BY <1>5, <2>1, <3>2 DEF Left
  <2> QED BY <2>2, <2>3
<1>9. ASSUME NEW t \in Threads, DoneAppend(t) PROVE PartsIn'
  <2>1. t = 1 /\ Left
    BY <1>3, <1>9 DEF DoneAppend, InCall, Left
  <2>2. UNCHANGED <<todo, written>> /\ ended' = ended \cup {Executor(1)}
    BY <1>9, <2>1 DEF DoneAppend, progressVars
  <2>3. Executor(1)' = Executor(1)
    BY <2>2 DEF Executor
  <2>4. Brings(Executor(1)) => team[Executor(1)].part \in installed'
    BY <1>4, <2>1 DEF PartsIn
  <2>5. Brings(Executor(1))' => Brings(Executor(1))
    BY <1>1, <2>3 DEF Brings
  <2>6. \A w \in Workers : team[w].kind = "write" /\ written[w] > 0 => team[w].part \in installed'
    BY <1>4 DEF PartsIn
  <2>7. \A w \in ended : Brings(w) => team[w].part \in installed'
    BY <1>4 DEF PartsIn
  <2> QED BY <1>1, <2>2, <2>3, <2>4, <2>5, <2>6, <2>7 DEF PartsIn
<1>10. ASSUME NEW t \in Threads, WorkerTurn(t) PROVE PartsIn'
  <2>1. pc[t] = "working"
    BY <1>10 DEF WorkerTurn, PlainTurn, SdkTurn, SdkFinished, SdkFailed, JumpBegin, JumpTry, JumpFails, JumpAfter,
                 NoAnswer, WriteTurn, WriteFinished, WriteFails, Jumping, Working
  <2>2. t = 1 /\ pc[1] = "working" /\ Executor(1) \in Workers
    BY <2>1, AtWork DEF InCall
  <2>3. CASE UNCHANGED vars \/ Fail(1) \/ Return(1) \/ Raise(1) \/ Exit(1)
    <3>1. UNCHANGED <<ended, written>>
      BY <2>3 DEF vars, progressVars, Fail, Return, Raise, Exit
    <3>2. pc'[1] \notin {"append", "test"}
      BY <1>2, <1>3, <2>2, <2>3 DEF vars, Fail, Return, Raise, Exit, Goto
    <3> QED BY <1>5, <3>1, <3>2
  <2>4. ASSUME Finish(1), Brings(Executor(1)) => team[Executor(1)].part \in installed' PROVE PartsIn'
    BY <1>5, <2>4 DEF Finish, progressVars
  <2>5. ASSUME Write(1), team[Executor(1)].kind = "write" => team[Executor(1)].part \in installed' PROVE PartsIn'
    <3>1. written' = [written EXCEPT ![Executor(1)] = @ + 1] /\ ended' = ended /\ written \in [Workers -> 0..Size]
      BY <2>5 DEF Write, Amounts
    <3>2. pc'[1] \in {"report", "working"}
      BY <1>2, <1>3, <2>2, <2>5 DEF Write, Goto
    <3>3. ~Left'
      BY <3>2 DEF Left
    <3>4. \A w \in Workers : team[w].kind = "write" /\ written'[w] > 0 => team[w].part \in installed'
      BY <1>4, <2>2, <2>5, <3>1 DEF PartsIn
    <3>5. \A w \in ended : Brings(w) => team[w].part \in installed'
      BY <1>4 DEF PartsIn
    <3> QED BY <1>1, <3>1, <3>3, <3>4, <3>5 DEF PartsIn
  <2>6. CASE PlainTurn(1)
    <3>1. team[Executor(1)].kind = "plain" /\ WorkerStep(1)
      BY <2>6 DEF PlainTurn, Working, Job
    <3> QED BY <2>3, <2>4, <2>5, <3>1 DEF WorkerStep, Brings
  <2>7. CASE SdkTurn(1) \/ SdkFailed(1)
    BY <2>3, <2>7 DEF SdkTurn, SdkFailed
  <2>8. CASE SdkFinished(1)
    <3>1. Sent \subseteq flash
      BY <2>8, EndIsWritten DEF SdkFinished, SdkInv, Good, Faultless
    <3> QED BY <2>4, <2>8, <3>1 DEF SdkFinished, Job
  <2>9. CASE JumpBegin(1) \/ JumpTry(1) \/ JumpFails(1) \/ NoAnswer(1) \/ WriteFails(1)
    BY <2>3, <2>9 DEF JumpBegin, JumpTry, JumpFails, NoAnswer, WriteFails
  <2>10. CASE JumpAfter(1)
    BY <2>4, <2>10 DEF JumpAfter, Jumping, Working, Job, Brings
  <2>11. CASE WriteTurn(1)
    <3>1. Acks(Job(1))
      BY DEF Acks, Faultless
    <3>2. Write(1) /\ Job(1).part \in installed'
      BY <2>11, <3>1 DEF WriteTurn
    <3> QED BY <2>5, <3>2 DEF Job
  <2>12. CASE WriteFinished(1)
    <3>1. Job(1).part \in installed /\ Finish(1)
      BY <2>2, <2>12 DEF WriteFinished, Working, PartsIn, Job
    <3> QED BY <1>4, <2>4, <3>1 DEF Job
  <2> QED BY <1>10, <2>2, <2>6, <2>7, <2>8, <2>9, <2>10, <2>11, <2>12 DEF WorkerTurn
<1> QED BY <1>6, <1>7, <1>8, <1>9, <1>10 DEF SessionNext, Turn, CenterTurn

-----------------------------------------------------------------------------
(* The sections that are taken, rule by rule.                               *)
TakenBy(image, rules, g) ==
  \A k \in 0..Len(rules) : g[k] = IF k = 0 THEN 0 ELSE TakeSection(image, g[k - 1], rules[k])

(* The recursive function of Taken is there, and so it is what it says.     *)
LEMMA TakenExists ==
  ASSUME NEW image, NEW rules, Len(rules) \in Nat
  PROVE  \E g : g = [k \in 0..Len(rules) |-> IF k = 0 THEN 0 ELSE TakeSection(image, g[k - 1], rules[k])]
<1> DEFINE Fits(n, g) == \A k \in 0..n : g[k] = IF k = 0 THEN 0 ELSE TakeSection(image, g[k - 1], rules[k])
           Bad == {n \in Nat : ~\E g : Fits(n, g)}
<1>1. Bad = {}
  <2> SUFFICES ASSUME Bad # {} PROVE FALSE
    OBVIOUS
  <2>1. Bad \subseteq Nat
    OBVIOUS
  <2>2. PICK n \in Bad : \A m \in Bad : n <= m
    BY <2>1, MinIsLeast
  <2>3. n # 0
    <3>1. Fits(0, [k \in {0} |-> 0])
      OBVIOUS
    <3> QED BY <3>1
  <2>4. n - 1 \in Nat /\ n - 1 \notin Bad
    BY <2>2, <2>3
  <2>5. PICK g : Fits(n - 1, g)
    BY <2>4
  <2> DEFINE h == [k \in 0..n |-> IF k < n THEN g[k] ELSE TakeSection(image, g[n - 1], rules[n])]
  <2>6. Fits(n, h)
    <3> SUFFICES ASSUME NEW k \in 0..n
                 PROVE  h[k] = IF k = 0 THEN 0 ELSE TakeSection(image, h[k - 1], rules[k])
      OBVIOUS
    <3>1. k # 0 => h[k - 1] = g[k - 1]
      BY <2>3
    <3>2. CASE k < n
      BY <2>5, <3>1, <3>2
    <3>3. CASE k = n
      BY <2>3, <3>1, <3>3
    <3> QED BY <3>2, <3>3
  <2> QED BY <2>2, <2>6
<1>2. PICK g : Fits(Len(rules), g)
  BY <1>1
<1> DEFINE h == [k \in 0..Len(rules) |-> g[k]]
<1>3. h = [k \in 0..Len(rules) |-> IF k = 0 THEN 0 ELSE TakeSection(image, h[k - 1], rules[k])]
  <2>1. ASSUME NEW k \in 0..Len(rules)
        PROVE  h[k] = IF k = 0 THEN 0 ELSE TakeSection(image, h[k - 1], rules[k])
    <3>1. k # 0 => h[k - 1] = g[k - 1]
      OBVIOUS
    <3> QED BY <1>2, <3>1
  <2> QED BY <2>1
<1> QED BY <1>3

LEMMA TakenIs ==
  ASSUME NEW image, NEW rules, Len(rules) \in Nat
  PROVE  \E g : TakenBy(image, rules, g) /\ Taken(image, rules) = g[Len(rules)]
<1> DEFINE g == CHOOSE g : g = [k \in 0..Len(rules) |-> IF k = 0 THEN 0 ELSE TakeSection(image, g[k - 1], rules[k])]
<1>1. g = [k \in 0..Len(rules) |-> IF k = 0 THEN 0 ELSE TakeSection(image, g[k - 1], rules[k])]
  BY TakenExists
<1>2. Taken(image, rules) = g[Len(rules)]
  BY DEF Taken
<1> HIDE DEF g
<1>3. TakenBy(image, rules, g)
  BY <1>1 DEF TakenBy
<1> QED BY <1>2, <1>3

(* The first n sections of an image are those of some of the first k rules, *)
(* in the order of the rules.                                               *)
Follows(image, n, rules, k) ==
  \A i \in 1..n : \E p \in 1..k :
    /\ image[i] = rules[p]
    /\ \A j \in 1..i - 1 : \E q \in 1..p - 1 : image[j] = rules[q]

(* What is taken is taken in order; the image may be any.                   *)
LEMMA TakenInOrder ==
  ASSUME NEW image \in Seq(STRING), NEW rules, Len(rules) \in Nat
  PROVE  Taken(image, rules) \in 0..Len(image) /\ Follows(image, Taken(image, rules), rules, Len(rules))
<1>1. PICK g : TakenBy(image, rules, g) /\ Taken(image, rules) = g[Len(rules)]
  BY TakenIs
<1> DEFINE Holds(k) == g[k] \in 0..Len(image) /\ Follows(image, g[k], rules, k)
           Bad == {k \in 0..Len(rules) : ~Holds(k)}
<1>2. Bad = {}
  <2> SUFFICES ASSUME Bad # {} PROVE FALSE
    OBVIOUS
  <2>1. Bad \subseteq Nat
    OBVIOUS
  <2>2. PICK k \in Bad : \A m \in Bad : k <= m
    BY <2>1, MinIsLeast
  <2>3. Holds(0)
    BY <1>1 DEF TakenBy, Follows
  <2>4. k # 0 /\ k - 1 \in 0..Len(rules) /\ k - 1 \notin Bad
    BY <2>2, <2>3
  <2>5. Holds(k - 1)
    BY <2>4
  <2>6. g[k] = TakeSection(image, g[k - 1], rules[k])
    BY <1>1, <2>4 DEF TakenBy
  <2>7. CASE g[k] = g[k - 1]
    <3>1. Follows(image, g[k], rules, k)
      BY <2>4, <2>5, <2>7 DEF Follows
    <3> QED BY <2>2, <2>5, <2>7, <3>1
  <2>8. CASE g[k - 1] < Len(image) /\ image[g[k - 1] + 1] = rules[k] /\ g[k] = g[k - 1] + 1
    <3>0. \A i \in 1..g[k] : i \in 1..g[k - 1] \/ i = g[k]
      BY <2>5, <2>8
    <3>1. ASSUME NEW i \in 1..g[k]
          PROVE  \E p \in 1..k : /\ image[i] = rules[p]
                                 /\ \A j \in 1..i - 1 : \E q \in 1..p - 1 : image[j] = rules[q]
      <4>1. CASE i \in 1..g[k - 1]
        BY <2>4, <2>5, <4>1 DEF Follows
      <4>2. CASE i = g[k]
        <5>1. \A j \in 1..i - 1 : \E q \in 1..k - 1 : image[j] = rules[q]
          BY <2>5, <2>8, <4>2 DEF Follows
        <5> QED BY <2>4, <2>8, <4>2, <5>1
      <4> QED BY <3>0, <4>1, <4>2
    <3>2. Follows(image, g[k], rules, k)
      BY <3>1 DEF Follows
    <3>3. g[k] \in 0..Len(image)
      BY <2>5, <2>8
    <3> QED BY <2>2, <3>2, <3>3
  <2> QED BY <2>6, <2>7, <2>8 DEF TakeSection
<1>3. Holds(Len(rules))
  BY <1>2
<1> QED BY <1>1, <1>3

(* An image in order is taken as far as its rules reach.                    *)
LEMMA TakenAll ==
  ASSUME NEW image \in Seq(STRING), NEW rules, NEW order, Len(rules) \in Nat, Len(order) \in Nat,
         Len(rules) <= Len(order), \A p \in 1..Len(rules) : rules[p] = order[p],
         \A p, q \in 1..Len(order) : order[p] = order[q] => p = q,
         Follows(image, Len(image), order, Len(order)),
         NEW i \in DOMAIN image, \E p \in 1..Len(rules) : image[i] = rules[p]
  PROVE  i \in 1..Taken(image, rules)
<1>1. PICK g : TakenBy(image, rules, g) /\ Taken(image, rules) = g[Len(rules)]
  BY TakenIs
<1> DEFINE Holds(k) == /\ g[k] \in 0..Len(image)
                       /\ \A m \in 1..Len(image) : (\E p \in 1..k : image[m] = rules[p]) => m <= g[k]
           Bad == {k \in 0..Len(rules) : ~Holds(k)}
<1>2. Bad = {}
  <2> SUFFICES ASSUME Bad # {} PROVE FALSE
    OBVIOUS
  <2>1. Bad \subseteq Nat
    OBVIOUS
  <2>2. PICK k \in Bad : \A m \in Bad : k <= m
    BY <2>1, MinIsLeast
  <2>3. Holds(0)
    BY <1>1 DEF TakenBy
  <2>4. k # 0 /\ k - 1 \in 0..Len(rules) /\ k - 1 \notin Bad /\ k \in 1..Len(rules)
    <3>1. k # 0
      BY <2>2, <2>3
    <3> HIDE DEF Holds
    <3> QED BY <2>2, <3>1
  <2>5. Holds(k - 1)
    BY <2>4
  <2>6. g[k] = TakeSection(image, g[k - 1], rules[k])
    BY <1>1, <2>4 DEF TakenBy
  <2>7. g[k] \in 0..Len(image) /\ g[k - 1] <= g[k]
    BY <2>5, <2>6 DEF TakeSection
  <2>8. ASSUME NEW m \in 1..Len(image), NEW p \in 1..k, image[m] = rules[p] PROVE m <= g[k]
    <3>1. CASE p # k
      <4>1. p \in 1..k - 1
        BY <2>4, <3>1
      <4> QED BY <2>5, <2>7, <2>8, <4>1
    <3>2. CASE p = k
      <4>1. PICK r \in 1..Len(order) : /\ image[m] = order[r]
                                       /\ \A j \in 1..m - 1 : \E q \in 1..r - 1 : image[j] = order[q]
        BY DEF Follows
      <4>2. r = k
        BY <2>4, <2>8, <3>2, <4>1
      <4>3. \A j \in 1..m - 1 : j <= g[k - 1]
        <5> SUFFICES ASSUME NEW j \in 1..m - 1 PROVE j <= g[k - 1]
          OBVIOUS
        <5>1. PICK q \in 1..k - 1 : image[j] = order[q]
          BY <4>1, <4>2
        <5>2. image[j] = rules[q] /\ j \in 1..Len(image)
          BY <2>4, <5>1
        <5> QED BY <2>5, <5>2
      <4>4. m <= g[k - 1] + 1
        <5>1. CASE m = 1
          BY <2>5, <5>1
        <5>2. CASE m > 1
          <6>1. m - 1 \in 1..m - 1
            BY <5>2
          <6> QED BY <2>5, <4>3, <6>1
        <5> QED BY <5>1, <5>2
      <4> QED BY <2>5, <2>6, <2>7, <2>8, <3>2, <4>4 DEF TakeSection
    <3> QED BY <3>1, <3>2
  <2> QED BY <2>2, <2>7, <2>8
<1>3. Holds(Len(rules))
  BY <1>2
<1> QED BY <1>1, <1>3

-----------------------------------------------------------------------------
(* Lists of workers that are sorted: by their part, in four groups.         *)
Listable == [kind : {"write", "sdk", "jumpBoot", "jumpApp"}, part : Selectable, core : {"main", "imu"}]
Rank(part) ==
  CASE part \in {"rtk", "ins"} -> 1 [] part \in {"sdk", "sdk_2"} -> 2 [] part = "imu_boot" -> 3 [] OTHER -> 4
Sorted(ws) == \A i, j \in 1..Len(ws) : i < j => Rank(ws[i].part) <= Rank(ws[j].part)

(* A group that is between its jumps.                                       *)
Closed(ws, g) ==
  \A i \in 1..Len(ws) : Rank(ws[i].part) = g =>
    /\ ws[i].kind = "write" =>
         \E j \in 1..i - 1 : /\ Rank(ws[j].part) = g /\ ws[j].kind = "jumpBoot" /\ ws[j].core = ws[i].core
                             /\ \A k \in j + 1..i - 1 : ~IsJump(ws[k])
    /\ ws[i].kind = "jumpBoot" =>
         \E k \in i + 1..Len(ws) : ws[k].kind = "jumpApp" /\ ws[k].core = ws[i].core

(* There are four groups.                                                   *)
LEMMA RankNat == \A part : Rank(part) \in 1..4
BY DEF Rank

(* What an insertion puts where.                                            *)
Inserted(S, ws, i, x, made) ==
  /\ made \in Seq(S) /\ Len(made) = Len(ws) + 1 /\ made[i] = x
  /\ \A k \in 1..i - 1 : made[k] = ws[k]
  /\ \A k \in i + 1..Len(ws) + 1 : made[k] = ws[k - 1]

LEMMA InsertIs ==
  ASSUME NEW S, NEW ws \in Seq(S), NEW i \in 1..Len(ws) + 1, NEW x \in S
  PROVE  Inserted(S, ws, i, x, InsertAt(ws, i, x))
<1> DEFINE s1 == SubSeq(ws, 1, i - 1)
           s2 == SubSeq(ws, i, Len(ws))
<1>1. s1 \in Seq(S) /\ Len(s1) = i - 1 /\ \A k \in 1..i - 1 : s1[k] = ws[k]
  OBVIOUS
<1>2. s2 \in Seq(S) /\ Len(s2) = Len(ws) - i + 1 /\ \A k \in 1..Len(ws) - i + 1 : s2[k] = ws[i + k - 1]
  OBVIOUS
<1>3. InsertAt(ws, i, x) = s1 \o <<x>> \o s2
  BY DEF InsertAt
<1> HIDE DEF s1, s2
<1>4. /\ s1 \o <<x>> \in Seq(S) /\ Len(s1 \o <<x>>) = i
      /\ \A k \in 1..i - 1 : (s1 \o <<x>>)[k] = ws[k]
      /\ (s1 \o <<x>>)[i] = x
  BY <1>1
<1> DEFINE s3 == s1 \o <<x>>
<1> HIDE DEF s3
<1>5. s3 \in Seq(S) /\ Len(s3) = i /\ (\A k \in 1..i - 1 : s3[k] = ws[k]) /\ s3[i] = x
  BY <1>4 DEF s3
<1>6. /\ s3 \o s2 \in Seq(S) /\ Len(s3 \o s2) = Len(ws) + 1
      /\ \A k \in 1..i : (s3 \o s2)[k] = s3[k]
      /\ \A k \in i + 1..Len(ws) + 1 : (s3 \o s2)[k] = s2[k - i]
  BY <1>2, <1>5
<1>7. \A k \in i + 1..Len(ws) + 1 : s2[k - i] = ws[k - 1]
  BY <1>2
<1> QED BY <1>3, <1>5, <1>6, <1>7 DEF s3, Inserted

(* Two workers are inserted, before a and after b.                          *)
Before2(a, b, k) == IF k < a THEN k ELSE IF k < b + 2 THEN k - 1 ELSE k - 2
LEMMA InsertTwo ==
  ASSUME NEW S, NEW ws \in Seq(S), NEW a \in 1..Len(ws), NEW b \in a..Len(ws), NEW x \in S, NEW y \in S
  PROVE  LET made == InsertAt(InsertAt(ws, a, x), b + 2, y)
         IN  /\ made \in Seq(S) /\ Len(made) = Len(ws) + 2 /\ made[a] = x /\ made[b + 2] = y
             /\ \A k \in 1..Len(ws) + 2 : k # a /\ k # b + 2 =>
                  Before2(a, b, k) \in 1..Len(ws) /\ made[k] = ws[Before2(a, b, k)]
<1> DEFINE one == InsertAt(ws, a, x)
           new == InsertAt(one, b + 2, y)
<1>1. /\ one \in Seq(S) /\ Len(one) = Len(ws) + 1 /\ one[a] = x
      /\ \A k \in 1..a - 1 : one[k] = ws[k]
      /\ \A k \in a + 1..Len(ws) + 1 : one[k] = ws[k - 1]
  <2>1. a \in 1..Len(ws) + 1
    OBVIOUS
  <2>2. Inserted(S, ws, a, x, one)
    BY <2>1, InsertIs
  <2> HIDE DEF new, one
  <2> QED BY <2>2 DEF Inserted
<1> HIDE DEF one
<1>2. /\ new \in Seq(S) /\ Len(new) = Len(one) + 1 /\ new[b + 2] = y
      /\ \A k \in 1..b + 1 : new[k] = one[k]
      /\ \A k \in b + 3..Len(one) + 1 : new[k] = one[k - 1]
  <2>1. b + 2 \in 1..Len(one) + 1 /\ b + 2 - 1 = b + 1 /\ b + 2 + 1 = b + 3
    BY <1>1
  <2>2. Inserted(S, one, b + 2, y, new)
    BY <1>1, <2>1, InsertIs
  <2> HIDE DEF new
  <2> QED BY <2>1, <2>2 DEF Inserted
<1> HIDE DEF new
<1>3. \A k \in 1..Len(ws) + 2 : k # a /\ k # b + 2 =>
        Before2(a, b, k) \in 1..Len(ws) /\ new[k] = ws[Before2(a, b, k)]
  <2> SUFFICES ASSUME NEW k \in 1..Len(ws) + 2, k # a, k # b + 2
               PROVE  Before2(a, b, k) \in 1..Len(ws) /\ new[k] = ws[Before2(a, b, k)]
    OBVIOUS
  <2>1. CASE k < a
    <3>1. k \in 1..a - 1 /\ k \in 1..b + 1
      BY <2>1
    <3> QED BY <1>1, <1>2, <2>1, <3>1 DEF Before2
  <2>2. CASE a < k /\ k < b + 2
    <3>1. k \in a + 1..Len(ws) + 1 /\ k \in 1..b + 1
      BY <2>2
    <3> QED BY <1>1, <1>2, <2>2, <3>1 DEF Before2
  <2>3. CASE k > b + 2
    <3>1. k \in b + 3..Len(one) + 1 /\ k - 1 \in a + 1..Len(ws) + 1 /\ k - 1 - 1 = k - 2
      BY <1>1, <2>3
    <3> QED BY <1>1, <1>2, <2>3, <3>1 DEF Before2
  <2> QED BY <2>1, <2>2, <2>3
<1> QED BY <1>1, <1>2, <1>3 DEF new, one

(* The last of finitely many places.                                        *)
LEMMA MaxIsGreatest ==
  ASSUME NEW n \in Nat, NEW S, S \subseteq 1..n, S # {}
  PROVE  Max(S) \in S /\ \A x \in S : x <= Max(S)
<1> DEFINE T == {n - x : x \in S}
<1>1. T \subseteq Nat /\ T # {}
  <2>1. \A x \in S : n - x \in Nat
    OBVIOUS
  <2> QED BY <2>1
<1>2. PICK m \in T : \A y \in T : m <= y
  BY <1>1, MinIsLeast
<1>3. PICK z \in S : m = n - z
  BY <1>2
<1>4. \A x \in S : z >= x
  BY <1>2, <1>3
<1> QED BY <1>4 DEF Max

-----------------------------------------------------------------------------
(* Wrap puts its group between jumps and leaves the others as they are.     *)
LEMMA SortedWrites ==
  ASSUME NEW ws, Sorted(ws), NEW a \in 1..Len(ws), NEW b \in 1..Len(ws), Len(ws) \in Nat,
         Rank(ws[a].part) = Rank(ws[b].part), NEW m \in a..b
  PROVE  Rank(ws[m].part) = Rank(ws[a].part)
<1>1. CASE m = a \/ m = b
  BY <1>1
<1>2. CASE a < m /\ m < b
  <2>1. m \in 1..Len(ws) /\ Rank(ws[a].part) <= Rank(ws[m].part) /\ Rank(ws[m].part) <= Rank(ws[b].part)
    BY <1>2 DEF Sorted
  <2> QED BY <2>1, RankNat
<1> QED BY <1>1, <1>2

(* The group g is from a to b, all of it parts for core c.                  *)
Lies(ws, g, c, a, b) ==
  /\ a \in 1..Len(ws) /\ b \in a..Len(ws) /\ Rank(ws[a].part) = g /\ Rank(ws[b].part) = g
  /\ \A i \in 1..Len(ws) : Rank(ws[i].part) = g =>
       a <= i /\ i <= b /\ ws[i].kind = "write" /\ ws[i].core = c

Around(ws, p, c, a, b) ==
  InsertAt(InsertAt(ws, a, Worker("jumpBoot", p, c)), b + 2, Worker("jumpApp", p, c))

(* The two insertions of Wrap.                                              *)
LEMMA AroundIs ==
  ASSUME NEW ws \in Seq(Listable), NEW c \in {"main", "imu"}, NEW p \in Selectable,
         NEW a \in 1..Len(ws), NEW b \in a..Len(ws)
  PROVE  LET made == Around(ws, p, c, a, b)
         IN  /\ made \in Seq(Listable) /\ Len(made) = Len(ws) + 2
             /\ made[a] = Worker("jumpBoot", p, c) /\ made[b + 2] = Worker("jumpApp", p, c)
             /\ \A k \in 1..Len(ws) + 2 : k # a /\ k # b + 2 =>
                  Before2(a, b, k) \in 1..Len(ws) /\ made[k] = ws[Before2(a, b, k)]
<1>1. Worker("jumpBoot", p, c) \in Listable /\ Worker("jumpApp", p, c) \in Listable
  BY DEF Worker, Listable
<1> QED BY <1>1, InsertTwo DEF Around

(* A group that jumps are put around is closed, and the others stay so.     *)
LEMMA Enclosed ==
  ASSUME NEW ws \in Seq(Listable), Sorted(ws), NEW c \in {"main", "imu"}, NEW g \in 1..4,
         NEW p \in Selectable, Rank(p) = g, NEW a, NEW b, Lies(ws, g, c, a, b)
  PROVE  LET made == Around(ws, p, c, a, b)
         IN  /\ made \in Seq(Listable) /\ Sorted(made) /\ Closed(made, g)
             /\ \A h \in 1..4 : h # g => (Closed(ws, h) => Closed(made, h))
             /\ \A i \in 1..Len(ws) : \E k \in 1..Len(made) : made[k] = ws[i]
             /\ \A k \in 1..Len(made) : Rank(made[k].part) # g => \E i \in 1..Len(ws) : made[k] = ws[i]
<1> DEFINE x == Worker("jumpBoot", p, c)
           y == Worker("jumpApp", p, c)
           new == Around(ws, p, c, a, b)
           old(k) == Before2(a, b, k)
           Kept == {k \in 1..Len(ws) + 2 : k # a /\ k # b + 2}
<1>0. /\ a \in 1..Len(ws) /\ b \in a..Len(ws) /\ b \in 1..Len(ws)
      /\ \A m \in a..b : Rank(ws[m].part) = g
  <2>1. a \in 1..Len(ws) /\ b \in a..Len(ws) /\ b \in 1..Len(ws) /\ Rank(ws[a].part) = g /\ Rank(ws[b].part) = g
    BY DEF Lies
  <2>2. Len(ws) \in Nat
    OBVIOUS
  <2>3. \A m \in a..b : Rank(ws[m].part) = Rank(ws[a].part)
    BY <2>1, <2>2, SortedWrites
  <2> QED BY <2>1, <2>3
<1>1. /\ new \in Seq(Listable) /\ Len(new) = Len(ws) + 2 /\ new[a] = x /\ new[b + 2] = y
      /\ \A k \in Kept : old(k) \in 1..Len(ws) /\ new[k] = ws[old(k)]
  BY <1>0, AroundIs
<1> HIDE DEF new
<1>2. \A i, j \in Kept : i < j <=> old(i) < old(j)
  BY <1>0 DEF Before2
<1>3. /\ \A k \in Kept : (k < a => old(k) < a) /\ (k > b + 2 => old(k) > b)
      /\ \A k \in Kept : a < k /\ k < b + 2 => old(k) \in a..b
  BY <1>0 DEF Before2
<1>4. \A m \in 1..Len(ws) : \E k \in Kept : old(k) = m
  <2> SUFFICES ASSUME NEW m \in 1..Len(ws) PROVE \E k \in Kept : old(k) = m
    OBVIOUS
  <2>1. CASE m < a
    BY <1>0, <2>1 DEF Before2
  <2>2. CASE a <= m /\ m <= b
    <3>1. m + 1 \in Kept /\ old(m + 1) = m
      BY <1>0, <2>2 DEF Before2
    <3> QED BY <3>1
  <2>3. CASE m > b
    <3>1. m + 2 \in Kept /\ old(m + 2) = m
      BY <1>0, <2>3 DEF Before2
    <3> QED BY <3>1
  <2> QED BY <1>0, <2>1, <2>2, <2>3
<1> DEFINE r(k) == Rank(new[k].part)
<1>5. \A k \in 1..Len(ws) + 2 : /\ (a <= k /\ k <= b + 2 => r(k) = g)
                               /\ r(k) \in 1..4
                               /\ (k < a => r(k) < g)
                               /\ (k > b + 2 => r(k) > g)
  <2> SUFFICES ASSUME NEW k \in 1..Len(ws) + 2
               PROVE  /\ a <= k /\ k <= b + 2 => r(k) = g
                      /\ k < a => r(k) < g
                      /\ k > b + 2 => r(k) > g
    BY RankNat
  <2>1. CASE k = a \/ k = b + 2
    <3>1. new[k].part = p
      BY <1>1, <2>1 DEF Worker
    <3> QED BY <1>0, <2>1, <3>1
  <2>2. CASE k \in Kept /\ k < a
    <3>1. r(k) <= g /\ r(k) # g
      <4>1. old(k) < a /\ old(k) \in 1..Len(ws) /\ new[k] = ws[old(k)]
        BY <1>1, <1>3, <2>2
      <4> HIDE DEF old
      <4>2. Rank(ws[old(k)].part) <= g /\ Rank(ws[old(k)].part) # g
        BY <1>0, <4>1, RankNat DEF Sorted, Lies
      <4> QED BY <4>1, <4>2
    <3> HIDE DEF r, old
    <3>2. r(k) \in 1..4
      BY RankNat DEF r
    <3> QED BY <1>0, <2>2, <3>1, <3>2
  <2>3. CASE k \in Kept /\ a < k /\ k < b + 2
    <3>1. old(k) \in a..b /\ new[k] = ws[old(k)]
      BY <1>1, <1>3, <2>3
    <3> QED BY <1>0, <2>3, <3>1
  <2>4. CASE k \in Kept /\ k > b + 2
    <3>1. r(k) >= g /\ r(k) # g
      <4>1. old(k) > b /\ old(k) \in 1..Len(ws) /\ new[k] = ws[old(k)]
        BY <1>1, <1>3, <2>4
      <4> HIDE DEF old
      <4>2. Rank(ws[old(k)].part) >= g /\ Rank(ws[old(k)].part) # g
        BY <1>0, <4>1, RankNat DEF Sorted, Lies
      <4> QED BY <4>1, <4>2
    <3> HIDE DEF r, old
    <3>2. r(k) \in 1..4
      BY RankNat DEF r
    <3> QED BY <1>0, <2>4, <3>1, <3>2
  <2> HIDE DEF r, old
  <2> QED BY <1>0, <2>1, <2>2, <2>3, <2>4
<1> HIDE DEF old
<1>6. Sorted(new)
  <2> SUFFICES ASSUME NEW i \in 1..Len(ws) + 2, NEW j \in 1..Len(ws) + 2, i < j PROVE r(i) <= r(j)
    BY <1>1 DEF Sorted
  <2>1. CASE i \in Kept /\ j \in Kept
    <3>1. old(i) \in 1..Len(ws) /\ old(j) \in 1..Len(ws) /\ old(i) < old(j)
      BY <1>1, <1>2, <2>1
    <3> QED BY <1>1, <2>1, <3>1 DEF Sorted
  <2>2. CASE i = a \/ i = b + 2 \/ j = a \/ j = b + 2
    <3> HIDE DEF r
    <3> QED BY <1>0, <1>5, <2>2
  <2> QED BY <2>1, <2>2
<1> HIDE DEF r
<1>7. \A k \in Kept : r(k) = Rank(ws[old(k)].part)
  BY <1>1 DEF r
<1>8. \A k \in 1..Len(new) : r(k) # g => k \in Kept
  BY <1>0, <1>1, <1>5
<1>9. \A k \in Kept : a < k /\ k < b + 2 =>
        new[k].kind = "write" /\ new[k].core = c
  <2> SUFFICES ASSUME NEW k \in Kept, a < k, k < b + 2 PROVE new[k].kind = "write" /\ new[k].core = c
    OBVIOUS
  <2>1. old(k) \in 1..Len(ws) /\ new[k] = ws[old(k)] /\ Rank(ws[old(k)].part) = g
    BY <1>0, <1>1, <1>3
  <2> QED BY <2>1 DEF Lies
<1>10. /\ new[a].kind = "jumpBoot" /\ new[a].core = c
       /\ new[b + 2].kind = "jumpApp" /\ new[b + 2].core = c
  BY <1>1 DEF Worker
<1>11. Closed(new, g)
  <2> SUFFICES ASSUME NEW i \in 1..Len(ws) + 2, r(i) = g
               PROVE  /\ new[i].kind = "write" =>
                           \E j \in 1..i - 1 : /\ r(j) = g /\ new[j].kind = "jumpBoot" /\ new[j].core = new[i].core
                                               /\ \A k \in j + 1..i - 1 : ~IsJump(new[k])
                      /\ new[i].kind = "jumpBoot" =>
                           \E k \in i + 1..Len(ws) + 2 : new[k].kind = "jumpApp" /\ new[k].core = new[i].core
    BY <1>1 DEF Closed, r
  <2>1. a <= i /\ i <= b + 2 /\ a \in Nat /\ b \in Nat /\ i \in Nat
    BY <1>0, <1>5
  <2>2. CASE i = a
    <3>1. b + 2 \in i + 1..Len(ws) + 2
      BY <1>0, <2>1, <2>2
    <3> QED BY <1>10, <2>2, <3>1
  <2>3. CASE i = b + 2
    BY <1>10, <2>3
  <2>4. CASE a < i /\ i < b + 2
    <3>1. i \in Kept /\ new[i].kind = "write" /\ new[i].core = c
      BY <1>9, <2>1, <2>4
    <3>2. a \in 1..i - 1 /\ r(a) = g
      BY <1>0, <1>5, <2>1, <2>4
    <3>3. ASSUME NEW k \in a + 1..i - 1 PROVE ~IsJump(new[k])
      <4>1. k \in Kept /\ a < k /\ k < b + 2
        BY <2>1, <2>4
      <4>2. new[k].kind = "write"
        BY <1>9, <4>1
      <4> QED BY <4>2 DEF IsJump
    <3> QED BY <1>10, <3>1, <3>2, <3>3
  <2> QED BY <2>1, <2>2, <2>3, <2>4
<1>12. ASSUME NEW h \in 1..4, h # g, Closed(ws, h) PROVE Closed(new, h)
  <2>0. Len(new) = Len(ws) + 2 /\ \A i \in 1..Len(new) : Rank(new[i].part) = h => i \in Kept
    BY <1>1, <1>8, <1>12 DEF r
  <2> SUFFICES ASSUME NEW i \in Kept, r(i) = h
               PROVE  /\ new[i].kind = "write" =>
                           \E j \in 1..i - 1 : /\ r(j) = h /\ new[j].kind = "jumpBoot" /\ new[j].core = new[i].core
                                               /\ \A k \in j + 1..i - 1 : ~IsJump(new[k])
                      /\ new[i].kind = "jumpBoot" =>
                           \E k \in i + 1..Len(ws) + 2 : new[k].kind = "jumpApp" /\ new[k].core = new[i].core
    <3> HIDE DEF Kept
    <3> QED BY <2>0 DEF Closed, r
  <2>1. old(i) \in 1..Len(ws) /\ new[i] = ws[old(i)] /\ Rank(ws[old(i)].part) = h /\ old(i) \in Nat
    BY <1>1, <1>7
  <2>2. ASSUME new[i].kind = "write"
        PROVE  \E j \in 1..i - 1 : /\ r(j) = h /\ new[j].kind = "jumpBoot" /\ new[j].core = new[i].core
                                   /\ \A k \in j + 1..i - 1 : ~IsJump(new[k])
    <3>1. PICK m \in 1..old(i) - 1 : /\ Rank(ws[m].part) = h /\ ws[m].kind = "jumpBoot" /\ ws[m].core = new[i].core
                                     /\ \A k \in m + 1..old(i) - 1 : ~IsJump(ws[k])
      BY <1>12, <2>1, <2>2 DEF Closed
    <3>2. PICK j \in Kept : old(j) = m
      BY <1>4, <2>1, <3>1
    <3>3. j < i /\ j \in 1..i - 1 /\ r(j) = h /\ new[j] = ws[m]
      <4>1. j < i
        BY <1>2, <2>1, <3>1, <3>2
      <4> QED BY <1>1, <1>7, <3>1, <3>2, <4>1
    <3>4. ASSUME NEW k \in j + 1..i - 1 PROVE ~IsJump(new[k])
      <4>1. k \in 1..Len(ws) + 2 /\ j < k /\ k < i
        OBVIOUS
      <4>2. r(k) = h
        <5>1. r(j) <= r(k) /\ r(k) <= r(i)
          BY <1>1, <1>6, <4>1 DEF Sorted, r
        <5> QED BY <1>5, <3>3, <4>1, <5>1
      <4>3. k \in Kept
        BY <1>1, <1>8, <1>12, <4>1, <4>2
      <4>4. old(k) \in m + 1..old(i) - 1
        BY <1>1, <1>2, <2>1, <3>2, <4>1, <4>3
      <4> QED BY <1>1, <3>1, <4>3, <4>4
    <3> QED BY <3>1, <3>3, <3>4
  <2>3. ASSUME new[i].kind = "jumpBoot"
        PROVE  \E k \in i + 1..Len(ws) + 2 : new[k].kind = "jumpApp" /\ new[k].core = new[i].core
    <3>1. PICK m \in old(i) + 1..Len(ws) : ws[m].kind = "jumpApp" /\ ws[m].core = new[i].core
      BY <1>12, <2>1, <2>3 DEF Closed
    <3>2. PICK k \in Kept : old(k) = m
      BY <1>4, <2>1, <3>1
    <3>3. i < k
      BY <1>2, <2>1, <3>1, <3>2
    <3> QED BY <1>1, <3>1, <3>2, <3>3
  <2> QED BY <2>2, <2>3
<1>13. \A i \in 1..Len(ws) : \E k \in 1..Len(new) : new[k] = ws[i]
  BY <1>1, <1>4
<1>14. \A k \in 1..Len(new) : Rank(new[k].part) # g => \E i \in 1..Len(ws) : new[k] = ws[i]
  BY <1>1, <1>8 DEF r
<1> QED BY <1>1, <1>6, <1>11, <1>12, <1>13, <1>14 DEF new

(* The workers of the parts themselves, and for which core they are.        *)
Due(x) ==
  /\ x \in Listable
  /\ CASE Rank(x.part) = 1 -> x.kind = "write" /\ x.core = "main" /\ x.part \in {"rtk", "ins"}
       [] Rank(x.part) = 2 -> x.kind = "sdk"
       [] Rank(x.part) = 3 -> x.kind = "write" /\ x.core = "imu" /\ x.part = "imu_boot"
       [] OTHER            -> x.kind = "write" /\ x.core = "imu" /\ x.part = "imu"

AllDue(ws) == \A k \in 1..Len(ws) : Due(ws[k])

(* Wrap of the group g, whose workers are for core c.                       *)
Fit(ws, P, c, g) ==
  /\ c \in {"main", "imu"} /\ g \in 1..4 /\ Head(P) \in Selectable /\ Rank(Head(P)) = g
  /\ \A p \in ToSet(P) : Rank(p) = g
  /\ \A i \in 1..Len(ws) : Rank(ws[i].part) = g =>
       ws[i].kind = "write" /\ ws[i].core = c /\ ws[i].part \in ToSet(P)

DueIn(ws, h) == \A k \in 1..Len(ws) : Rank(ws[k].part) = h => Due(ws[k])

Whole(ws, made, g) ==
  /\ made \in Seq(Listable) /\ Sorted(made) /\ Closed(made, g)
  /\ \A h \in 1..4 : h # g => (Closed(ws, h) => Closed(made, h))
  /\ \A i \in 1..Len(ws) : \E k \in 1..Len(made) : made[k] = ws[i]
  /\ \A k \in 1..Len(made) : Rank(made[k].part) # g => \E i \in 1..Len(ws) : made[k] = ws[i]

(* Wrap does so for its group, or has nothing to do.                        *)
LEMMA WrapIs ==
  ASSUME NEW ws \in Seq(Listable), Sorted(ws), NEW P, NEW c, NEW g, Fit(ws, P, c, g)
  PROVE  Whole(ws, Wrap(ws, P, c), g)
<1> DEFINE is == Writes(ws, ToSet(P))
<1>0. /\ c \in {"main", "imu"} /\ g \in 1..4 /\ Head(P) \in Selectable /\ Rank(Head(P)) = g
      /\ \A p \in ToSet(P) : Rank(p) = g
      /\ \A i \in 1..Len(ws) : Rank(ws[i].part) = g =>
           ws[i].kind = "write" /\ ws[i].core = c /\ ws[i].part \in ToSet(P)
  BY DEF Fit
<1>1. is = {i \in 1..Len(ws) : Rank(ws[i].part) = g} /\ Len(ws) \in Nat
  BY <1>0 DEF Writes
<1>2. CASE is = {}
  <2>1. Wrap(ws, P, c) = ws
    BY <1>2 DEF Wrap
  <2>2. \A i \in 1..Len(ws) : Rank(ws[i].part) # g
    BY <1>1, <1>2
  <2> QED BY <2>1, <2>2 DEF Closed, Whole
<1>3. CASE is # {}
  <2>1. Wrap(ws, P, c) = Around(ws, Head(P), c, Min(is), Max(is))
    BY <1>3 DEF Wrap, Around
  <2> DEFINE a == Min(is)
             b == Max(is)
  <2> HIDE DEF is
  <2>2. a \in is /\ \A i \in is : a <= i
    <3>1. is \subseteq Nat
      BY <1>1
    <3> QED BY <1>3, <3>1, MinIsLeast
  <2>3. b \in is /\ \A i \in is : i <= b
    <3>1. is \subseteq 1..Len(ws)
      BY <1>1
    <3> QED BY <1>1, <1>3, <3>1, MaxIsGreatest
  <2> HIDE DEF a, b
  <2>4. Lies(ws, g, c, a, b)
    <3>1. a \in 1..Len(ws) /\ b \in 1..Len(ws) /\ a <= b
      BY <1>1, <2>2, <2>3
    <3>2. b \in a..Len(ws)
      BY <1>1, <3>1
    <3> QED BY <1>0, <1>1, <2>2, <2>3, <3>1, <3>2 DEF Lies
  <2> QED BY <1>0, <2>1, <2>4, Enclosed DEF a, b, Whole
<1> QED BY <1>2, <1>3

(* And workers that are due in other groups stay due.                       *)
LEMMA WrapGroup ==
  ASSUME NEW ws \in Seq(Listable), Sorted(ws), NEW P, NEW c, NEW g, Fit(ws, P, c, g)
  PROVE  LET made == Wrap(ws, P, c)
         IN  /\ made \in Seq(Listable) /\ Sorted(made) /\ Closed(made, g)
             /\ \A h \in 1..4 : h # g => /\ Closed(ws, h) => Closed(made, h)
                                         /\ DueIn(ws, h) => DueIn(made, h)
             /\ \A i \in 1..Len(ws) : \E k \in 1..Len(made) : made[k] = ws[i]
<1> DEFINE new == Wrap(ws, P, c)
<1>1. Whole(ws, new, g)
  BY WrapIs
<1> HIDE DEF new
<1>2. ASSUME NEW h \in 1..4, h # g, DueIn(ws, h) PROVE DueIn(new, h)
  BY <1>1, <1>2 DEF DueIn, Whole
<1> QED BY <1>1, <1>2 DEF new, Whole

(* What flattening a sequence of lists yields.                              *)
Flat(seqs, f) ==
  \A i \in 1..Len(seqs) : f[i] = IF i = 1 THEN seqs[i] ELSE f[i - 1] \o seqs[i]

(* FlattenSeq is a recursive function, too.                                 *)
LEMMA FlatExists ==
  ASSUME NEW seqs, Len(seqs) \in Nat
  PROVE  \E f : f = [i \in 1..Len(seqs) |-> IF i = 1 THEN seqs[i] ELSE f[i - 1] \o seqs[i]]
<1> DEFINE Fits(n, f) == \A i \in 1..n : f[i] = IF i = 1 THEN seqs[i] ELSE f[i - 1] \o seqs[i]
           Bad == {n \in Nat : ~\E f : Fits(n, f)}
<1>1. Bad = {}
  <2> SUFFICES ASSUME Bad # {} PROVE FALSE
    OBVIOUS
  <2>1. Bad \subseteq Nat
    OBVIOUS
  <2>2. PICK n \in Bad : \A m \in Bad : n <= m
    BY <2>1, MinIsLeast
  <2>3. n # 0
    <3>1. Fits(0, <<>>)
      OBVIOUS
    <3> HIDE DEF Fits
    <3> QED BY <2>2, <3>1
  <2>4. n - 1 \in Nat /\ n - 1 \notin Bad
    <3> HIDE DEF Fits
    <3> QED BY <2>2, <2>3
  <2>5. PICK f : Fits(n - 1, f)
    BY <2>4
  <2> DEFINE h == [i \in 1..n |-> IF i < n THEN f[i] ELSE IF n = 1 THEN seqs[n] ELSE f[n - 1] \o seqs[n]]
  <2>6. Fits(n, h)
    <3> SUFFICES ASSUME NEW i \in 1..n
                 PROVE  h[i] = IF i = 1 THEN seqs[i] ELSE h[i - 1] \o seqs[i]
      OBVIOUS
    <3>1. i # 1 => h[i - 1] = f[i - 1]
      OBVIOUS
    <3>2. CASE i < n
      BY <2>5, <3>1, <3>2
    <3>3. CASE i = n
      BY <3>1, <3>3
    <3> QED BY <3>2, <3>3
  <2> QED BY <2>2, <2>6
<1>2. PICK f : Fits(Len(seqs), f)
  BY <1>1
<1> DEFINE h == [i \in 1..Len(seqs) |-> f[i]]
<1>3. h = [i \in 1..Len(seqs) |-> IF i = 1 THEN seqs[i] ELSE h[i - 1] \o seqs[i]]
  <2>1. ASSUME NEW i \in 1..Len(seqs)
        PROVE  h[i] = IF i = 1 THEN seqs[i] ELSE h[i - 1] \o seqs[i]
    <3>1. i # 1 => h[i - 1] = f[i - 1]
      OBVIOUS
    <3> QED BY <1>2, <3>1
  <2> QED BY <2>1
<1> QED BY <1>3

LEMMA FlatIs ==
  ASSUME NEW seqs, Len(seqs) \in Nat, Len(seqs) # 0
  PROVE  \E f : Flat(seqs, f) /\ FlattenSeq(seqs) = f[Len(seqs)]
<1> DEFINE f == CHOOSE f : f = [i \in 1..Len(seqs) |-> IF i = 1 THEN seqs[i] ELSE f[i - 1] \o seqs[i]]
<1>1. f = [i \in 1..Len(seqs) |-> IF i = 1 THEN seqs[i] ELSE f[i - 1] \o seqs[i]]
  BY FlatExists
<1>2. FlattenSeq(seqs) = f[Len(seqs)]
  BY DEF FlattenSeq
<1> HIDE DEF f
<1>3. Flat(seqs, f)
  BY <1>1 DEF Flat
<1> QED BY <1>2, <1>3

(* Lists one after the other are sorted when they are and their ranks rise. *)
In(ws, x) == \E k \in 1..Len(ws) : ws[k] = x
Below(us, vs) == \A i \in 1..Len(us), j \in 1..Len(vs) : Rank(us[i].part) <= Rank(vs[j].part)

LEMMA JoinIs ==
  ASSUME NEW us \in Seq(Listable), NEW vs \in Seq(Listable), Sorted(us), Sorted(vs), Below(us, vs)
  PROVE  /\ us \o vs \in Seq(Listable) /\ Sorted(us \o vs)
         /\ \A x : In(us \o vs, x) <=> In(us, x) \/ In(vs, x)
<1> DEFINE ws == us \o vs
           m == Len(us)
<1>1. /\ ws \in Seq(Listable) /\ Len(ws) = m + Len(vs) /\ m \in Nat /\ Len(vs) \in Nat
      /\ \A i \in 1..m : ws[i] = us[i]
      /\ \A i \in m + 1..m + Len(vs) : ws[i] = vs[i - m]
  OBVIOUS
<1>2. \A j \in 1..Len(vs) : m + j \in m + 1..m + Len(vs) /\ ws[m + j] = vs[j] /\ m + j - m = j
  <2> HIDE DEF ws, m
  <2> QED BY <1>1
<1> HIDE DEF ws, m
<1>3. ASSUME NEW i \in 1..Len(ws), NEW j \in 1..Len(ws), i < j
      PROVE  Rank(ws[i].part) <= Rank(ws[j].part)
  <2>1. CASE j <= m
    <3>1. i \in 1..m /\ j \in 1..m
      BY <1>1, <1>3, <2>1
    <3> QED BY <1>1, <1>3, <3>1 DEF Sorted, m
  <2>2. CASE i <= m /\ j > m
    <3>1. i \in 1..m /\ j \in m + 1..m + Len(vs) /\ j - m \in 1..Len(vs)
      BY <1>1, <1>3, <2>2
    <3> QED BY <1>1, <3>1 DEF Below, m
  <2>3. CASE i > m
    <3>1. i - m \in 1..Len(vs) /\ j - m \in 1..Len(vs) /\ i - m < j - m
          /\ i \in m + 1..m + Len(vs) /\ j \in m + 1..m + Len(vs)
      BY <1>1, <1>3, <2>3
    <3> QED BY <1>1, <3>1 DEF Sorted
  <2> QED BY <1>1, <2>1, <2>2, <2>3
<1>4. ASSUME NEW x PROVE In(ws, x) <=> In(us, x) \/ In(vs, x)
  <2>1. ASSUME NEW k \in 1..Len(ws), ws[k] = x PROVE In(us, x) \/ In(vs, x)
    <3>1. k \in 1..m \/ (k \in m + 1..m + Len(vs) /\ k - m \in 1..Len(vs))
      BY <1>1
    <3> QED BY <1>1, <2>1, <3>1 DEF In, m
  <2>2. ASSUME NEW k \in 1..Len(us), us[k] = x PROVE In(ws, x)
    <3>1. k \in 1..m /\ k \in 1..Len(ws)
      BY <1>1 DEF m
    <3> QED BY <1>1, <2>2, <3>1 DEF In
  <2>3. ASSUME NEW k \in 1..Len(vs), vs[k] = x PROVE In(ws, x)
    <3>1. m + k \in 1..Len(ws)
      BY <1>1
    <3> QED BY <1>2, <2>3, <3>1 DEF In
  <2> QED BY <2>1, <2>2, <2>3 DEF In
<1> QED BY <1>1, <1>3, <1>4 DEF Sorted, ws

(* So are many lists, by induction over their number.                       *)
LEMMA FlatSorted ==
  ASSUME NEW seqs \in Seq(Seq(Listable)), \A i \in 1..Len(seqs) : Sorted(seqs[i]),
         \A i, j \in 1..Len(seqs) : i < j => Below(seqs[i], seqs[j])
  PROVE  LET made == FlattenSeq(seqs)
         IN  /\ made \in Seq(Listable) /\ Sorted(made)
             /\ \A x : In(made, x) <=> \E i \in 1..Len(seqs) : In(seqs[i], x)
<1>0. Len(seqs) \in Nat
  OBVIOUS
<1>1. CASE Len(seqs) = 0
  <2>1. FlattenSeq(seqs) = seqs /\ seqs = <<>>
    BY <1>1 DEF FlattenSeq
  <2> QED BY <1>1, <2>1 DEF Sorted, In
<1>2. CASE Len(seqs) # 0
  <2>1. PICK f : Flat(seqs, f) /\ FlattenSeq(seqs) = f[Len(seqs)]
    BY <1>0, <1>2, FlatIs
  <2> DEFINE Holds(k) == /\ f[k] \in Seq(Listable) /\ Sorted(f[k])
                         /\ \A x : In(f[k], x) <=> \E i \in 1..k : In(seqs[i], x)
             Bad == {k \in 1..Len(seqs) : ~Holds(k)}
  <2>2. Bad = {}
    <3> SUFFICES ASSUME Bad # {} PROVE FALSE
      OBVIOUS
    <3>1. Bad \subseteq Nat
      OBVIOUS
    <3>2. PICK k \in Bad : \A m \in Bad : k <= m
      <4> HIDE DEF Bad
      <4> QED BY <3>1, MinIsLeast
    <3>3. seqs[1] \in Seq(Listable) /\ f[1] = seqs[1] /\ 1..1 = {1}
      BY <1>0, <1>2, <2>1 DEF Flat
    <3>4. Holds(1)
      <4>0. 1 \in 1..Len(seqs)
        BY <1>0, <1>2
      <4>1. ASSUME NEW x PROVE In(f[1], x) <=> \E i \in 1..1 : In(seqs[i], x)
        BY <3>3
      <4> QED BY <3>3, <4>0, <4>1
    <3>5. k # 1 /\ k \in 1..Len(seqs) /\ k - 1 \in 1..Len(seqs) /\ k - 1 \notin Bad
      <4>1. k # 1
        BY <3>2, <3>4
      <4> HIDE DEF Holds
      <4> QED BY <3>2, <4>1
    <3>6. Holds(k - 1)
      BY <3>5
    <3>7. f[k] = f[k - 1] \o seqs[k] /\ seqs[k] \in Seq(Listable) /\ Sorted(seqs[k])
      <4>1. f[k] = f[k - 1] \o seqs[k]
        <5> HIDE DEF Bad
        <5> QED BY <2>1, <3>5 DEF Flat
      <4>2. k \in 1..Len(seqs)
        BY <3>5
      <4> HIDE DEF Bad
      <4> QED BY <4>1, <4>2
    <3>8. Below(f[k - 1], seqs[k])
      <4> SUFFICES ASSUME NEW i \in 1..Len(f[k - 1]), NEW j \in 1..Len(seqs[k])
                   PROVE  Rank(f[k - 1][i].part) <= Rank(seqs[k][j].part)
        BY DEF Below
      <4>1. In(f[k - 1], f[k - 1][i])
        BY DEF In
      <4>2. PICK l \in 1..k - 1 : In(seqs[l], f[k - 1][i])
        BY <3>6, <4>1
      <4>3. l \in 1..Len(seqs) /\ l < k
        BY <3>5
      <4> QED BY <3>5, <4>2, <4>3 DEF In, Below
    <3>9. /\ f[k] \in Seq(Listable) /\ Sorted(f[k])
          /\ \A x : In(f[k], x) <=> In(f[k - 1], x) \/ In(seqs[k], x)
      BY <3>6, <3>7, <3>8, JoinIs
    <3>10. \A i : i \in 1..k <=> i \in 1..k - 1 \/ i = k
      BY <3>5
    <3>11. \A x : In(f[k], x) <=> \E i \in 1..k : In(seqs[i], x)
      BY <3>6, <3>9, <3>10
    <3> QED BY <3>2, <3>9, <3>11
  <2>3. Holds(Len(seqs))
    <3>1. Len(seqs) \in 1..Len(seqs)
      BY <1>0, <1>2
    <3> HIDE DEF Holds
    <3> QED BY <2>2, <3>1
  <2> QED BY <2>1, <2>3
<1> QED BY <1>1, <1>2

(* Lists with all groups between their jumps are as the center needs them.  *)
LEMMA ClosedIsBracketed ==
  ASSUME NEW ws \in Seq(Listable), \A g \in 1..4 : Closed(ws, g)
  PROVE  Bracketed(ws)
<1>1. DOMAIN ws = 1..Len(ws) /\ Len(ws) \in Nat
  OBVIOUS
<1> SUFFICES ASSUME NEW i \in 1..Len(ws)
             PROVE  /\ ws[i].kind = "write" =>
                         \E j \in 1..Len(ws) : /\ j < i /\ ws[j].kind = "jumpBoot" /\ ws[j].core = ws[i].core
                                               /\ \A k \in 1..Len(ws) : j < k /\ k < i => ~IsJump(ws[k])
                    /\ ws[i].kind = "jumpBoot" =>
                         \E k \in 1..Len(ws) : k > i /\ ws[k].kind = "jumpApp" /\ ws[k].core = ws[i].core
  BY <1>1 DEF Bracketed
<1>2. Closed(ws, Rank(ws[i].part))
  BY RankNat
<1>3. ASSUME ws[i].kind = "write"
      PROVE  \E j \in 1..Len(ws) : /\ j < i /\ ws[j].kind = "jumpBoot" /\ ws[j].core = ws[i].core
                                   /\ \A k \in 1..Len(ws) : j < k /\ k < i => ~IsJump(ws[k])
  <2>1. PICK j \in 1..i - 1 : /\ ws[j].kind = "jumpBoot" /\ ws[j].core = ws[i].core
                              /\ \A k \in j + 1..i - 1 : ~IsJump(ws[k])
    BY <1>2, <1>3 DEF Closed
  <2>2. \A k \in 1..Len(ws) : j < k /\ k < i => k \in j + 1..i - 1
    BY <1>1
  <2>3. j \in 1..Len(ws) /\ j < i
    BY <1>1
  <2> QED BY <2>1, <2>2, <2>3
<1>4. ASSUME ws[i].kind = "jumpBoot"
      PROVE  \E k \in 1..Len(ws) : k > i /\ ws[k].kind = "jumpApp" /\ ws[k].core = ws[i].core
  <2>1. PICK k \in i + 1..Len(ws) : ws[k].kind = "jumpApp" /\ ws[k].core = ws[i].core
    BY <1>2, <1>4 DEF Closed
  <2> QED BY <1>1, <2>1
<1> QED BY <1>3, <1>4

(* They are there, among the jumps that close all groups.                   *)
Complete(ws, made) ==
  /\ made \in Seq(Listable) /\ \A g \in 1..4 : Closed(made, g)
  /\ \A i \in 1..Len(ws) : \E k \in 1..Len(made) : made[k] = ws[i]

(* Sdk workers need no jumps.                                               *)
LEMMA SdkIsClosed ==
  ASSUME NEW ws, DueIn(ws, 2)
  PROVE  Closed(ws, 2)
BY DEF Closed, DueIn, Due

(* Workers are of the parts that may be selected.                           *)
LEMMA Parted ==
  ASSUME NEW ws \in Seq(Listable), NEW k \in 1..Len(ws)
  PROVE  ws[k].part \in Selectable
<1>1. ws[k] \in Listable
  OBVIOUS
<1> QED BY <1>1 DEF Listable

(* The groups of the Ethernet provider are the parts of one rank.           *)
LEMMA Groups ==
  /\ ToSet(<<"rtk", "ins">>) = {p \in Selectable : Rank(p) = 1}
  /\ ToSet(<<"imu_boot">>) = {p \in Selectable : Rank(p) = 3}
  /\ ToSet(<<"imu">>) = {p \in Selectable : Rank(p) = 4}
<1>1. ToSet(<<"rtk", "ins">>) = {"rtk", "ins"} /\ ToSet(<<"imu_boot">>) = {"imu_boot"} /\ ToSet(<<"imu">>) = {"imu"}
  BY DEF ToSet
<1> QED BY <1>1 DEF Selectable, Rank

(* Workers that are due fit the Wrap of their group.                        *)
LEMMA DueFits ==
  ASSUME NEW ws, NEW P, NEW g \in {1, 3, 4}, DueIn(ws, g), NEW c,
         c = IF g = 1 THEN "main" ELSE "imu",
         Head(P) \in Selectable, Head(P) \in ToSet(P), \A p \in ToSet(P) : Rank(p) = g,
         \A k \in 1..Len(ws) : Rank(ws[k].part) = g => ws[k].part \in ToSet(P)
  PROVE  Fit(ws, P, c, g)
<1>1. ASSUME NEW i \in 1..Len(ws), Rank(ws[i].part) = g PROVE ws[i].kind = "write" /\ ws[i].core = c
  BY <1>1 DEF DueIn, Due
<1> QED BY <1>1 DEF Fit

LEMMA GroupFits ==
  ASSUME NEW ws \in Seq(Listable), NEW P, NEW g \in {1, 3, 4}, DueIn(ws, g), NEW c,
         c = IF g = 1 THEN "main" ELSE "imu",
         Head(P) \in Selectable, Rank(Head(P)) = g, ToSet(P) = {p \in Selectable : Rank(p) = g}
  PROVE  Fit(ws, P, c, g)
<1>1. Head(P) \in ToSet(P) /\ \A p \in ToSet(P) : Rank(p) = g
  OBVIOUS
<1>2. \A k \in 1..Len(ws) : Rank(ws[k].part) = g => ws[k].part \in ToSet(P)
  BY Parted
<1> QED BY <1>1, <1>2, DueFits

(* The Ethernet provider closes three groups, one after the other.          *)
LEMMA EthernetWraps ==
  ASSUME NEW ws \in Seq(Listable), Sorted(ws), AllDue(ws)
  PROVE  Complete(ws, Wrap(Wrap(Wrap(ws, <<"rtk", "ins">>, "main"), <<"imu_boot">>, "imu"), <<"imu">>, "imu"))
<1> DEFINE w1 == Wrap(ws, <<"rtk", "ins">>, "main")
           w2 == Wrap(w1, <<"imu_boot">>, "imu")
           w3 == Wrap(w2, <<"imu">>, "imu")
<1>0. /\ Head(<<"rtk", "ins">>) = "rtk" /\ Head(<<"imu_boot">>) = "imu_boot" /\ Head(<<"imu">>) = "imu"
      /\ {"rtk", "imu_boot", "imu"} \subseteq Selectable
      /\ Rank("rtk") = 1 /\ Rank("imu_boot") = 3 /\ Rank("imu") = 4
  BY DEF Selectable, Rank
<1>1. Fit(ws, <<"rtk", "ins">>, "main", 1)
  <2>1. DueIn(ws, 1)
    BY DEF AllDue, DueIn
  <2> QED BY <1>0, <2>1, GroupFits, Groups
<1>2. /\ w1 \in Seq(Listable) /\ Sorted(w1) /\ Closed(w1, 1) /\ DueIn(w1, 2) /\ DueIn(w1, 3) /\ DueIn(w1, 4)
      /\ \A i \in 1..Len(ws) : \E k \in 1..Len(w1) : w1[k] = ws[i]
  <2>1. \A h \in 1..4 : DueIn(ws, h)
    BY DEF AllDue, DueIn
  <2> QED BY <1>1, <2>1, WrapGroup
<1> HIDE DEF w1
<1>3. Fit(w1, <<"imu_boot">>, "imu", 3)
  BY <1>0, <1>2, GroupFits, Groups
<1>4. /\ w2 \in Seq(Listable) /\ Sorted(w2) /\ Closed(w2, 1) /\ Closed(w2, 3) /\ DueIn(w2, 2) /\ DueIn(w2, 4)
      /\ \A i \in 1..Len(w1) : \E k \in 1..Len(w2) : w2[k] = w1[i]
  BY <1>2, <1>3, WrapGroup
<1> HIDE DEF w2
<1>5. Fit(w2, <<"imu">>, "imu", 4)
  BY <1>0, <1>4, GroupFits, Groups
<1>6. /\ w3 \in Seq(Listable) /\ Closed(w3, 1) /\ Closed(w3, 3) /\ Closed(w3, 4) /\ DueIn(w3, 2)
      /\ \A i \in 1..Len(w2) : \E k \in 1..Len(w3) : w3[k] = w2[i]
  BY <1>4, <1>5, WrapGroup
<1> HIDE DEF w3
<1>7. Closed(w3, 2)
  BY <1>6, SdkIsClosed
<1>8. \A g \in 1..4 : g = 1 \/ g = 2 \/ g = 3 \/ g = 4
  OBVIOUS
<1>9. \A i \in 1..Len(ws) : \E k \in 1..Len(w3) : w3[k] = ws[i]
  BY <1>2, <1>4, <1>6
<1>10. Complete(ws, w3)
  BY <1>6, <1>7, <1>8, <1>9 DEF Complete
<1> QED BY <1>10 DEF w1, w2, w3

(* The beidou provider knows two groups.                                    *)
LEMMA BeidouWraps ==
  ASSUME NEW ws \in Seq(Listable), Sorted(ws), AllDue(ws), \A k \in 1..Len(ws) : ws[k].part \in {"ins", "imu"}
  PROVE  Complete(ws, Wrap(Wrap(ws, <<"ins">>, "main"), <<"imu">>, "imu"))
<1> DEFINE w1 == Wrap(ws, <<"ins">>, "main")
           w2 == Wrap(w1, <<"imu">>, "imu")
<1>0. /\ Head(<<"ins">>) = "ins" /\ Head(<<"imu">>) = "imu" /\ {"ins", "imu"} \subseteq Selectable
      /\ ToSet(<<"ins">>) = {"ins"} /\ Rank("ins") = 1 /\ Rank("imu") = 4
  BY DEF Selectable, ToSet, Rank
<1>1. Fit(ws, <<"ins">>, "main", 1)
  <2>1. DueIn(ws, 1)
    BY DEF AllDue, DueIn
  <2>2. \A k \in 1..Len(ws) : Rank(ws[k].part) = 1 => ws[k].part \in ToSet(<<"ins">>)
    BY <1>0
  <2> QED BY <1>0, <2>1, <2>2, DueFits
<1>2. DueIn(ws, 2) /\ DueIn(ws, 3) /\ DueIn(ws, 4) /\ Closed(ws, 2) /\ Closed(ws, 3)
  <2>1. \A k \in 1..Len(ws) : Rank(ws[k].part) \in {1, 4}
    BY <1>0
  <2> QED BY <2>1 DEF AllDue, DueIn, Closed
<1>3. /\ w1 \in Seq(Listable) /\ Sorted(w1) /\ Closed(w1, 1) /\ Closed(w1, 2) /\ Closed(w1, 3) /\ DueIn(w1, 4)
      /\ \A i \in 1..Len(ws) : \E k \in 1..Len(w1) : w1[k] = ws[i]
  BY <1>1, <1>2, WrapGroup
<1> HIDE DEF w1
<1>4. Fit(w1, <<"imu">>, "imu", 4)
  BY <1>0, <1>3, GroupFits, Groups
<1>5. /\ w2 \in Seq(Listable) /\ Closed(w2, 1) /\ Closed(w2, 2) /\ Closed(w2, 3) /\ Closed(w2, 4)
      /\ \A i \in 1..Len(w1) : \E k \in 1..Len(w2) : w2[k] = w1[i]
  BY <1>3, <1>4, WrapGroup
<1> HIDE DEF w2
<1>6. \A g \in 1..4 : g = 1 \/ g = 2 \/ g = 3 \/ g = 4
  OBVIOUS
<1>7. Complete(ws, w2)
  BY <1>3, <1>5, <1>6 DEF Complete
<1> QED BY <1>7 DEF w1, w2

-----------------------------------------------------------------------------
(* The workers that are built for the parts of a file.                      *)
Sections == {"rtk", "ins", "sdk", "imu_boot", "imu"}

(* A list for one part, and with a worker for it, and one for p.            *)
For(ws, part) ==
  /\ ws \in Seq(Listable) /\ AllDue(ws) /\ \A k \in 1..Len(ws) : Rank(ws[k].part) = Rank(part)
Has(ws, p) == \E k \in 1..Len(ws) : ws[k].kind \in {"write", "sdk"} /\ ws[k].part = p

(* Lists of one worker, of none, and of those of two lists.                 *)
LEMMA OneFor ==
  ASSUME NEW kind, NEW part, NEW c, Due(Worker(kind, part, c)), kind \in {"write", "sdk"}
  PROVE  For(<<Worker(kind, part, c)>>, part) /\ Has(<<Worker(kind, part, c)>>, part)
<1> DEFINE w == Worker(kind, part, c)
<1>1. w \in Listable /\ w.part = part /\ w.kind = kind
  BY DEF Due, Worker
<1>2. Due(w)
  OBVIOUS
<1> HIDE DEF w
<1>3. <<w>> \in Seq(Listable) /\ Len(<<w>>) = 1 /\ <<w>>[1] = w
  BY <1>1
<1>4. \A k \in 1..1 : k = 1
  OBVIOUS
<1>5. For(<<w>>, part)
  BY <1>1, <1>2, <1>3, <1>4 DEF For, AllDue
<1>6. Has(<<w>>, part)
  BY <1>1, <1>3 DEF Has
<1> QED BY <1>5, <1>6 DEF w

LEMMA NoneFor == \A part : For(<<>>, part)
BY DEF For, AllDue

LEMMA TwoFor ==
  ASSUME NEW part, NEW us, NEW vs, For(us, part), For(vs, part)
  PROVE  For(us \o vs, part) /\ \A p : Has(us, p) \/ Has(vs, p) => Has(us \o vs, p)
<1>1. us \in Seq(Listable) /\ vs \in Seq(Listable)
  BY DEF For
<1>2. Sorted(us) /\ Sorted(vs) /\ Below(us, vs)
  BY <1>1, RankNat DEF For, Sorted, Below
<1>3. /\ us \o vs \in Seq(Listable)
      /\ \A x : In(us \o vs, x) <=> In(us, x) \/ In(vs, x)
  BY <1>1, <1>2, JoinIs
<1> DEFINE ws == us \o vs
<1> HIDE DEF ws
<1>4. \A k \in 1..Len(ws) : In(us, ws[k]) \/ In(vs, ws[k])
  BY <1>3 DEF In, ws
<1>5. For(ws, part)
  <2>1. ws \in Seq(Listable)
    BY <1>3 DEF ws
  <2>2. \A k \in 1..Len(ws) : Due(ws[k]) /\ Rank(ws[k].part) = Rank(part)
    BY <1>4 DEF For, In, AllDue
  <2> QED BY <2>1, <2>2 DEF For, AllDue
<1>6. ASSUME NEW p, Has(us, p) \/ Has(vs, p) PROVE Has(ws, p)
  <2>1. PICK x : (In(us, x) \/ In(vs, x)) /\ x.kind \in {"write", "sdk"} /\ x.part = p
    BY <1>6 DEF Has, In
  <2>2. In(ws, x)
    BY <1>3, <2>1 DEF ws
  <2> QED BY <2>1, <2>2 DEF Has, In
<1> QED BY <1>5, <1>6 DEF ws

(* The workers that the providers make are due.                             *)
LEMMA Dues ==
  /\ \A p \in {"rtk", "ins"} : Due(Worker("write", p, "main"))
  /\ \A p \in {"imu_boot", "imu"} : Due(Worker("write", p, "imu"))
  /\ \A p \in {"sdk", "sdk_2"} : Due(Worker("sdk", p, "main"))
BY DEF Due, Worker, Listable, Selectable, Rank

(* build_worker makes what is asked for of a part, and nothing else.        *)
LEMMA EthernetWorkerIs ==
  ASSUME NEW part \in Sections, NEW flags
  PROVE  /\ For(EthernetWorker(part, flags), part)
         /\ part \in flags => Has(EthernetWorker(part, flags), part)
         /\ part = "sdk" /\ "sdk_2" \in flags => Has(EthernetWorker(part, flags), "sdk_2")
<1>1. CASE part = "sdk"
  <2> DEFINE us == IF "sdk" \in flags THEN <<Worker("sdk", "sdk", "main")>> ELSE <<>>
             vs == IF "sdk_2" \in flags THEN <<Worker("sdk", "sdk_2", "main")>> ELSE <<>>
  <2>1. EthernetWorker(part, flags) = us \o vs
    BY <1>1 DEF EthernetWorker
  <2>2. For(us, "sdk") /\ ("sdk" \in flags => Has(us, "sdk"))
    BY Dues, OneFor, NoneFor
  <2>3. For(vs, "sdk") /\ ("sdk_2" \in flags => Has(vs, "sdk_2"))
    <3>1. Rank("sdk") = Rank("sdk_2")
      BY DEF Rank
    <3>2. For(vs, "sdk_2") /\ ("sdk_2" \in flags => Has(vs, "sdk_2"))
      BY Dues, OneFor, NoneFor
    <3> HIDE DEF vs
    <3> QED BY <3>1, <3>2 DEF For
  <2> HIDE DEF us, vs
  <2>4. For(us \o vs, "sdk") /\ \A p : Has(us, p) \/ Has(vs, p) => Has(us \o vs, p)
    BY <2>2, <2>3, TwoFor
  <2> QED BY <1>1, <2>1, <2>2, <2>3, <2>4
<1>2. CASE part \in {"rtk", "ins"} /\ part \in flags
  <2>1. EthernetWorker(part, flags) = <<Worker("write", part, "main")>> /\ part # "sdk"
    BY <1>2 DEF EthernetWorker
  <2> QED BY <1>2, <2>1, Dues, OneFor
<1>3. CASE part \in {"imu_boot", "imu"} /\ part \in flags
  <2>1. EthernetWorker(part, flags) = <<Worker("write", part, "imu")>> /\ part # "sdk"
    BY <1>3 DEF EthernetWorker
  <2> QED BY <1>3, <2>1, Dues, OneFor
<1>4. CASE part # "sdk" /\ part \notin flags
  <2>1. EthernetWorker(part, flags) = <<>>
    BY <1>4 DEF EthernetWorker
  <2> QED BY <1>4, <2>1, NoneFor
<1> QED BY <1>1, <1>2, <1>3, <1>4 DEF Sections

(* The lists for the parts of an image that rise in rank, joined.           *)
LEMMA JoinedBuilt ==
  ASSUME NEW parts \in Seq(STRING), NEW seqs, seqs = [i \in 1..Len(parts) |-> seqs[i]],
         \A i \in 1..Len(parts) : For(seqs[i], parts[i]),
         \A i, j \in 1..Len(parts) : i < j => Rank(parts[i]) <= Rank(parts[j])
  PROVE  LET made == FlattenSeq(seqs)
         IN  /\ made \in Seq(Listable) /\ Sorted(made) /\ AllDue(made)
             /\ \A p : (\E i \in 1..Len(parts) : Has(seqs[i], p)) => Has(made, p)
<1> DEFINE made == FlattenSeq(seqs)
<1>1. Len(parts) \in Nat
  OBVIOUS
<1>2. seqs \in Seq(Seq(Listable)) /\ Len(seqs) = Len(parts)
  <2>1. \A i \in 1..Len(parts) : seqs[i] \in Seq(Listable)
    BY DEF For
  <2>2. [i \in 1..Len(parts) |-> seqs[i]] \in Seq(Seq(Listable))
        /\ Len([i \in 1..Len(parts) |-> seqs[i]]) = Len(parts)
    BY <1>1, <2>1
  <2> QED BY <2>2
<1>3. \A i \in 1..Len(parts) : For(seqs[i], parts[i])
  OBVIOUS
<1>4. \A i \in 1..Len(seqs) : Sorted(seqs[i])
  <2> SUFFICES ASSUME NEW i \in 1..Len(parts) PROVE Sorted(seqs[i])
    BY <1>2
  <2>1. For(seqs[i], parts[i])
    BY <1>3
  <2> QED BY <2>1, RankNat DEF For, Sorted
<1>5. \A i, j \in 1..Len(seqs) : i < j => Below(seqs[i], seqs[j])
  <2> SUFFICES ASSUME NEW i \in 1..Len(parts), NEW j \in 1..Len(parts), i < j
               PROVE  Below(seqs[i], seqs[j])
    BY <1>2
  <2>1. For(seqs[i], parts[i]) /\ For(seqs[j], parts[j]) /\ Rank(parts[i]) <= Rank(parts[j])
    BY <1>3
  <2> QED BY <2>1 DEF For, Below
<1>6. /\ made \in Seq(Listable) /\ Sorted(made)
      /\ \A x : In(made, x) <=> \E i \in 1..Len(seqs) : In(seqs[i], x)
  BY <1>2, <1>4, <1>5, FlatSorted
<1> HIDE DEF made
<1>7. AllDue(made)
  <2> SUFFICES ASSUME NEW k \in 1..Len(made) PROVE Due(made[k])
    BY DEF AllDue
  <2>1. In(made, made[k])
    BY DEF In
  <2>2. PICK i \in 1..Len(seqs) : In(seqs[i], made[k])
    BY <1>6, <2>1
  <2> QED BY <1>2, <1>3, <2>2 DEF For, In, AllDue
<1>8. ASSUME NEW p, NEW i \in 1..Len(parts), Has(seqs[i], p) PROVE Has(made, p)
  <2>1. PICK x : In(seqs[i], x) /\ x.kind \in {"write", "sdk"} /\ x.part = p
    BY <1>2, <1>8 DEF Has, In
  <2>2. In(made, x)
    BY <1>2, <1>6, <2>1
  <2> QED BY <2>1, <2>2 DEF Has, In
<1> QED BY <1>6, <1>7, <1>8 DEF made

(* The sections that are taken, as parts.                                   *)
LEMMA PartsAre ==
  ASSUME NEW image \in Seq(STRING), NEW rules, Len(rules) \in Nat
  PROVE  LET parts == Parts(image, rules)
         IN  /\ parts \in Seq(STRING) /\ Len(parts) = Taken(image, rules)
             /\ \A i \in 1..Len(parts) : parts[i] = image[i] /\ i \in DOMAIN image
             /\ \A j \in 1..Len(parts) : \E p \in 1..Len(rules) :
                  /\ parts[j] = rules[p]
                  /\ \A i \in 1..j - 1 : \E q \in 1..p - 1 : parts[i] = rules[q]
<1> DEFINE n == Taken(image, rules)
           parts == SubSeq(image, 1, n)
<1>1. n \in 0..Len(image) /\ Follows(image, n, rules, Len(rules))
  BY TakenInOrder
<1>2. Parts(image, rules) = parts
  BY DEF Parts
<1> HIDE DEF n
<1>3. /\ parts \in Seq(STRING) /\ Len(parts) = n
      /\ \A i \in 1..n : parts[i] = image[i] /\ i \in DOMAIN image
  BY <1>1
<1> HIDE DEF parts
<1>4. ASSUME NEW j \in 1..n
      PROVE  \E p \in 1..Len(rules) : /\ parts[j] = rules[p]
                                      /\ \A i \in 1..j - 1 : \E q \in 1..p - 1 : parts[i] = rules[q]
  <2>1. PICK p \in 1..Len(rules) : /\ image[j] = rules[p]
                                   /\ \A i \in 1..j - 1 : \E q \in 1..p - 1 : image[i] = rules[q]
    BY <1>1 DEF Follows
  <2>2. \A i \in 1..j - 1 : i \in 1..n
    BY <1>1
  <2> QED BY <1>3, <2>1, <2>2
<1> QED BY <1>2, <1>3, <1>4 DEF n

(* Parts are in the order of their ranks when the rules are.                *)
LEMMA PartsRise ==
  ASSUME NEW image \in Seq(STRING), NEW rules, Len(rules) \in Nat,
         \A p, q \in 1..Len(rules) : q < p => Rank(rules[q]) <= Rank(rules[p])
  PROVE  LET parts == Parts(image, rules)
         IN  \A i, j \in 1..Len(parts) : i < j => Rank(parts[i]) <= Rank(parts[j])
<1> DEFINE parts == Parts(image, rules)
<1>1. /\ Len(parts) \in Nat
      /\ \A j \in 1..Len(parts) : \E p \in 1..Len(rules) :
           /\ parts[j] = rules[p]
           /\ \A i \in 1..j - 1 : \E q \in 1..p - 1 : parts[i] = rules[q]
  <2>1. /\ parts \in Seq(STRING)
        /\ \A j \in 1..Len(parts) : \E p \in 1..Len(rules) :
             /\ parts[j] = rules[p]
             /\ \A i \in 1..j - 1 : \E q \in 1..p - 1 : parts[i] = rules[q]
    BY PartsAre
  <2> HIDE DEF parts
  <2> QED BY <2>1
<1> HIDE DEF parts
<1>2. ASSUME NEW i \in 1..Len(parts), NEW j \in 1..Len(parts), i < j
      PROVE  Rank(parts[i]) <= Rank(parts[j])
  <2>1. PICK p \in 1..Len(rules) : /\ parts[j] = rules[p]
                                   /\ \A k \in 1..j - 1 : \E q \in 1..p - 1 : parts[k] = rules[q]
    BY <1>1
  <2>2. i \in 1..j - 1
    BY <1>1, <1>2
  <2>3. PICK q \in 1..p - 1 : parts[i] = rules[q]
    BY <2>1, <2>2
  <2>4. q \in 1..Len(rules) /\ q < p
    OBVIOUS
  <2> QED BY <2>1, <2>3, <2>4
<1> QED BY <1>2 DEF parts

(* The rules of the Ethernet provider: a part of the order of its parts.    *)
LEMMA RulesAre ==
  ASSUME NEW flags
  PROVE  LET rules == EthernetRules(flags)
             order == PartOrder("ethernet")
         IN  /\ Len(rules) \in Nat /\ Len(order) = 5 /\ Len(rules) <= Len(order)
             /\ (Len(rules) = 3 /\ flags \cap {"imu", "imu_boot"} = {}) \/ Len(rules) = 5
             /\ \A p \in 1..Len(rules) : rules[p] = order[p] /\ rules[p] \in Sections
             /\ \A p, q \in 1..Len(rules) : q < p => Rank(rules[q]) <= Rank(rules[p])
             /\ \A p, q \in 1..Len(order) : order[p] = order[q] => p = q
             /\ \A p \in 1..Len(order) : order[p] \in Sections /\ (p > 3 => order[p] \in {"imu", "imu_boot"})
<1> DEFINE five == <<"rtk", "ins", "sdk", "imu_boot", "imu">>
           these == EthernetRules(flags)
<1>1. PartOrder("ethernet") = five /\ Len(five) = 5
  BY DEF PartOrder
<1>2. /\ five[1] = "rtk" /\ five[2] = "ins" /\ five[3] = "sdk" /\ five[4] = "imu_boot" /\ five[5] = "imu"
      /\ 1..5 = {1, 2, 3, 4, 5} /\ 1..3 = {1, 2, 3}
  OBVIOUS
<1>3. Rank("rtk") = 1 /\ Rank("ins") = 1 /\ Rank("sdk") = 2 /\ Rank("imu_boot") = 3 /\ Rank("imu") = 4
  BY DEF Rank
<1>4. CASE flags \cap {"imu", "imu_boot"} # {}
  <2>1. these = five
    BY <1>4 DEF EthernetRules
  <2> HIDE DEF five, these
  <2>2. \A p \in 1..5 : five[p] \in Sections /\ (p > 3 => five[p] \in {"imu", "imu_boot"})
    BY <1>2 DEF Sections
  <2>3. \A p, q \in 1..5 : q < p => Rank(five[q]) <= Rank(five[p])
    BY <1>2, <1>3
  <2>4. \A p, q \in 1..5 : five[p] = five[q] => p = q
    BY <1>2
  <2>5. /\ Len(these) = 5 /\ \A p \in 1..Len(these) : these[p] = PartOrder("ethernet")[p] /\ these[p] \in Sections
        /\ \A p, q \in 1..Len(these) : q < p => Rank(these[q]) <= Rank(these[p])
    BY <1>1, <2>1, <2>2, <2>3
  <2> QED BY <1>1, <2>2, <2>4, <2>5 DEF these
<1>5. CASE flags \cap {"imu", "imu_boot"} = {}
  <2>1. these = <<"rtk", "ins", "sdk">>
    BY <1>5 DEF EthernetRules
  <2>2. Len(these) = 3 /\ these[1] = "rtk" /\ these[2] = "ins" /\ these[3] = "sdk"
    BY <2>1
  <2> HIDE DEF five, these
  <2> QED BY <1>1, <1>2, <1>3, <1>5, <2>2 DEF Sections, these
<1> QED BY <1>4, <1>5

(* What is in a list is still there among the jumps.                        *)
LEMMA StillHas ==
  ASSUME NEW ws, NEW made, Complete(ws, made), NEW p, Has(ws, p)
  PROVE  \E i \in DOMAIN made : made[i].kind \in {"write", "sdk"} /\ made[i].part = p
<1>1. PICK k \in 1..Len(ws) : ws[k].kind \in {"write", "sdk"} /\ ws[k].part = p
  BY DEF Has
<1>2. PICK i \in 1..Len(made) : made[i] = ws[k]
  BY DEF Complete
<1>3. DOMAIN made = 1..Len(made)
  BY DEF Complete
<1> QED BY <1>1, <1>2, <1>3

(* A complete list is one that the center can be given.                     *)
LEMMA CompleteTeam ==
  ASSUME NEW ws, NEW made, Complete(ws, made)
  PROVE  Bracketed(made) /\ \A i \in DOMAIN made : made[i].core \in {"main", "imu"}
<1>1. made \in Seq(Listable) /\ \A g \in 1..4 : Closed(made, g)
  BY DEF Complete
<1>2. ASSUME NEW i \in DOMAIN made PROVE made[i].core \in {"main", "imu"}
  <2>1. made[i] \in Listable
    BY <1>1
  <2> QED BY <2>1 DEF Listable
<1> QED BY <1>1, <1>2, ClosedIsBracketed

(* The list of the Ethernet provider, with a worker for all that is asked for. *)
LEMMA EthernetTeam ==
  ASSUME NEW image \in Seq(STRING), NEW flags
  PROVE  LET rules == EthernetRules(flags)
             parts == Parts(image, rules)
             built == FlattenSeq([i \in DOMAIN parts |-> EthernetWorker(parts[i], flags)])
         IN  /\ Complete(built, EthernetWorkers(image, flags))
             /\ \A i \in 1..Taken(image, rules) : /\ image[i] \in flags => Has(built, image[i])
                                                  /\ image[i] = "sdk" /\ "sdk_2" \in flags => Has(built, "sdk_2")
<1> DEFINE rules == EthernetRules(flags)
           parts == Parts(image, rules)
           seqs  == [i \in DOMAIN parts |-> EthernetWorker(parts[i], flags)]
           built == FlattenSeq(seqs)
<1>1. /\ Len(rules) \in Nat /\ \A p \in 1..Len(rules) : rules[p] \in Sections
      /\ \A p, q \in 1..Len(rules) : q < p => Rank(rules[q]) <= Rank(rules[p])
  BY RulesAre
<1> HIDE DEF rules
<1>2. /\ parts \in Seq(STRING) /\ Len(parts) = Taken(image, rules)
      /\ \A i \in 1..Len(parts) : parts[i] = image[i] /\ parts[i] \in Sections
      /\ \A i, j \in 1..Len(parts) : i < j => Rank(parts[i]) <= Rank(parts[j])
  <2>1. /\ parts \in Seq(STRING) /\ Len(parts) = Taken(image, rules)
        /\ \A i \in 1..Len(parts) : parts[i] = image[i] /\ \E p \in 1..Len(rules) : parts[i] = rules[p]
    BY <1>1, PartsAre
  <2>2. \A i, j \in 1..Len(parts) : i < j => Rank(parts[i]) <= Rank(parts[j])
    BY <1>1, PartsRise
  <2> HIDE DEF parts
  <2> QED BY <1>1, <2>1, <2>2
<1> HIDE DEF parts
<1>3. /\ seqs = [i \in 1..Len(parts) |-> seqs[i]]
      /\ \A i \in 1..Len(parts) : seqs[i] = EthernetWorker(parts[i], flags)
  BY <1>2
<1> HIDE DEF seqs
<1>4. \A i \in 1..Len(parts) : For(seqs[i], parts[i])
  BY <1>2, <1>3, EthernetWorkerIs
<1>5. /\ built \in Seq(Listable) /\ Sorted(built) /\ AllDue(built)
      /\ \A p : (\E i \in 1..Len(parts) : Has(seqs[i], p)) => Has(built, p)
  BY <1>2, <1>3, <1>4, JoinedBuilt
<1> HIDE DEF built
<1>6. Complete(built, EthernetWorkers(image, flags))
  BY <1>5, EthernetWraps DEF EthernetWorkers, built, seqs, parts, rules
<1>7. ASSUME NEW i \in 1..Taken(image, rules)
      PROVE  /\ image[i] \in flags => Has(built, image[i])
             /\ image[i] = "sdk" /\ "sdk_2" \in flags => Has(built, "sdk_2")
  <2>1. i \in 1..Len(parts) /\ parts[i] = image[i] /\ parts[i] \in Sections
        /\ seqs[i] = EthernetWorker(image[i], flags)
    BY <1>2, <1>3
  <2> QED BY <1>5, <2>1, EthernetWorkerIs
<1> QED BY <1>6, <1>7 DEF built, seqs, parts, rules

(* An image in order follows the rules of its provider.                     *)
LEMMA InOrderFollows ==
  ASSUME NEW s, s.image \in Seq(STRING), InOrder(s), NEW rules, rules = PartOrder(s.provider),
         DOMAIN rules = 1..Len(rules)
  PROVE  Follows(s.image, Len(s.image), rules, Len(rules))
<1>1. DOMAIN s.image = 1..Len(s.image)
  OBVIOUS
<1>2. \A i \in DOMAIN s.image : \E p \in DOMAIN rules :
        /\ s.image[i] = rules[p]
        /\ \A j \in 1..i - 1 : \E q \in 1..p - 1 : s.image[j] = rules[q]
  BY DEF InOrder
<1>3. ASSUME NEW i \in 1..Len(s.image)
      PROVE  \E p \in 1..Len(rules) : /\ s.image[i] = rules[p]
                                      /\ \A j \in 1..i - 1 : \E q \in 1..p - 1 : s.image[j] = rules[q]
  <2>1. PICK p \in DOMAIN rules : /\ s.image[i] = rules[p]
                                  /\ \A j \in 1..i - 1 : \E q \in 1..p - 1 : s.image[j] = rules[q]
    <3>1. i \in DOMAIN s.image
      BY <1>1
    <3> QED BY <1>2, <3>1, Zenon
  <2>2. p \in 1..Len(rules)
    OBVIOUS
  <2> QED BY <2>1, <2>2
<1> QED BY <1>3 DEF Follows

(* The upgrades of the Ethernet provider, for any file and flags.           *)
LEMMA EthernetIsProper ==
  ASSUME NEW image \in Seq(STRING), NEW flags \in SUBSET Selectable, NEW cut
  PROVE  Proper(EthernetSession(image, flags, cut))
<1> DEFINE s     == EthernetSession(image, flags, cut)
           these == EthernetRules(flags)
           five  == PartOrder("ethernet")
           parts == Parts(image, these)
           list  == FlattenSeq([i \in DOMAIN parts |-> EthernetWorker(parts[i], flags)])
           all   == EthernetWorkers(image, flags)
<1>1. /\ s.team = all /\ s.groups = InOneGroup(all) /\ s.provider = "ethernet" /\ s.image = image
      /\ s.wanted = flags \cap (ToSet(image) \cup IF "sdk" \in ToSet(image) THEN {"sdk_2"} ELSE {})
  BY DEF EthernetSession, Session
<1> HIDE DEF s, all
<1>2. /\ Complete(list, all)
      /\ \A i \in 1..Taken(image, these) : /\ image[i] \in flags => Has(list, image[i])
                                           /\ image[i] = "sdk" /\ "sdk_2" \in flags => Has(list, "sdk_2")
  BY EthernetTeam DEF all
<1> HIDE DEF list, parts
<1>3. /\ Len(these) \in Nat /\ Len(five) = 5 /\ Len(these) <= Len(five)
      /\ (Len(these) = 3 /\ flags \cap {"imu", "imu_boot"} = {}) \/ Len(these) = 5
      /\ \A p \in 1..Len(these) : these[p] = five[p] /\ these[p] \in Sections
      /\ \A p, q \in 1..Len(five) : five[p] = five[q] => p = q
      /\ \A p \in 1..Len(five) : five[p] \in Sections /\ (p > 3 => five[p] \in {"imu", "imu_boot"})
  BY RulesAre
<1>4. five = PartOrder(s.provider) /\ DOMAIN five = 1..Len(five)
  BY <1>1 DEF PartOrder
<1> HIDE DEF these, five
<1>5. DOMAIN s.groups = DOMAIN s.team
  BY <1>1 DEF InOneGroup
<1>6. Covered(s)
  <2> SUFFICES ASSUME InOrder(s), NEW p \in s.wanted
               PROVE  \E i \in DOMAIN all : all[i].kind \in {"write", "sdk"} /\ all[i].part = p
    BY <1>1 DEF Covered
  <2>1. Follows(image, Len(image), five, Len(five))
    BY <1>1, <1>4, InOrderFollows
  <2>2. PICK i \in DOMAIN image : image[i] = p \/ (image[i] = "sdk" /\ p = "sdk_2")
    BY <1>1 DEF ToSet
  <2>3. p \in flags /\ i \in 1..Len(image)
    BY <1>1
  <2>4. PICK r \in 1..Len(five) : image[i] = five[r]
    BY <2>1, <2>3 DEF Follows
  <2>5. r \in 1..Len(these)
    <3>1. CASE Len(these) = 3 /\ flags \cap {"imu", "imu_boot"} = {}
      <4>1. image[i] \notin {"imu", "imu_boot"}
        BY <2>2, <2>3, <3>1
      <4> QED BY <1>3, <2>4, <3>1, <4>1
    <3>2. CASE Len(these) = 5
      BY <1>3, <3>2
    <3> QED BY <1>3, <3>1, <3>2
  <2>6. i \in 1..Taken(image, these)
    <3>1. \E p2 \in 1..Len(these) : image[i] = these[p2]
      BY <1>3, <2>4, <2>5
    <3>2. Len(five) \in Nat
      BY <1>3
    <3> QED BY <1>3, <2>1, <3>1, <3>2, TakenAll
  <2>7. Has(list, p)
    BY <1>2, <2>2, <2>3, <2>6
  <2> QED BY <1>2, <2>7, StillHas
<1>7. Bracketed(all) /\ \A i \in DOMAIN all : all[i].core \in {"main", "imu"}
  BY <1>2, CompleteTeam
<1> QED BY <1>1, <1>5, <1>6, <1>7 DEF Proper, s

(* Those of the beidou provider.                                            *)
LEMMA BeidouIsProper ==
  ASSUME NEW image \in Seq(STRING), NEW cut
  PROVE  Proper(BeidouSession(image, cut))
<1> DEFINE s     == BeidouSession(image, cut)
           parts == Parts(image, BeidouRules)
           list  == [i \in DOMAIN parts |-> BeidouWorker(parts[i])]
           all   == BeidouWorkers(image)
<1>1. /\ s.team = all /\ s.groups = InOneGroup(all) /\ s.provider = "beidou" /\ s.image = image
      /\ s.wanted = ToSet(image)
  BY DEF BeidouSession, Session
<1> HIDE DEF s
<1>2. /\ Len(BeidouRules) = 2 /\ DOMAIN BeidouRules = 1..2 /\ BeidouRules[1] = "ins" /\ BeidouRules[2] = "imu"
      /\ BeidouRules = PartOrder("beidou") /\ Rank("ins") = 1 /\ Rank("imu") = 4
      /\ \A p \in 1..2 : p = 1 \/ p = 2
  BY DEF BeidouRules, PartOrder, Rank
<1>3. /\ parts \in Seq(STRING) /\ Len(parts) = Taken(image, BeidouRules)
      /\ \A i \in 1..Len(parts) : parts[i] = image[i] /\ parts[i] \in {"ins", "imu"}
  <2>1. /\ parts \in Seq(STRING) /\ Len(parts) = Taken(image, BeidouRules)
        /\ \A i \in 1..Len(parts) : parts[i] = image[i] /\ \E p \in 1..Len(BeidouRules) : parts[i] = BeidouRules[p]
    <3>1. Len(BeidouRules) \in Nat
      BY <1>2
    <3>2. /\ parts \in Seq(STRING) /\ Len(parts) = Taken(image, BeidouRules)
          /\ \A i \in 1..Len(parts) : parts[i] = image[i] /\ i \in DOMAIN image
          /\ \A j \in 1..Len(parts) : \E p \in 1..Len(BeidouRules) :
               /\ parts[j] = BeidouRules[p]
               /\ \A i \in 1..j - 1 : \E q \in 1..p - 1 : parts[i] = BeidouRules[q]
      <4>1. \A rules : Len(rules) \in Nat =>
              /\ Parts(image, rules) \in Seq(STRING) /\ Len(Parts(image, rules)) = Taken(image, rules)
              /\ \A i \in 1..Len(Parts(image, rules)) : Parts(image, rules)[i] = image[i] /\ i \in DOMAIN image
              /\ \A j \in 1..Len(Parts(image, rules)) : \E p \in 1..Len(rules) :
                   /\ Parts(image, rules)[j] = rules[p]
                   /\ \A i \in 1..j - 1 : \E q \in 1..p - 1 : Parts(image, rules)[i] = rules[q]
        BY PartsAre
      <4> QED BY <3>1, <4>1
    <3> HIDE DEF parts
    <3> QED BY <3>2
  <2> HIDE DEF parts
  <2> QED BY <1>2, <2>1
<1>4. \A i, j \in 1..Len(parts) : i < j => Rank(parts[i]) <= Rank(parts[j])
  <2>1. \A p, q \in 1..Len(BeidouRules) : q < p => Rank(BeidouRules[q]) <= Rank(BeidouRules[p])
    BY <1>2
  <2> QED BY <1>2, <2>1, PartsRise
<1> HIDE DEF parts
<1>5. /\ list = [i \in 1..Len(parts) |-> BeidouWorker(parts[i])] /\ Len(parts) \in Nat
      /\ Len(list) = Len(parts) /\ \A i \in 1..Len(parts) : list[i] = BeidouWorker(parts[i])
  BY <1>3
<1> HIDE DEF list
<1>6. \A i \in 1..Len(parts) : /\ Due(list[i]) /\ list[i].part = parts[i] /\ list[i].kind = "write"
                               /\ list[i] \in Listable
  <2> SUFFICES ASSUME NEW i \in 1..Len(parts)
               PROVE  Due(list[i]) /\ list[i].part = parts[i] /\ list[i].kind = "write"
    BY DEF Due
  <2>1. list[i] = Worker("write", parts[i], IF parts[i] = "ins" THEN "main" ELSE "imu")
    BY <1>5 DEF BeidouWorker
  <2>2. parts[i] \in {"ins", "imu"}
    BY <1>3
  <2>3. Due(list[i])
    BY <2>1, <2>2, Dues
  <2> QED BY <2>1, <2>3 DEF Worker
<1>7. list \in Seq(Listable) /\ Sorted(list) /\ AllDue(list) /\ \A k \in 1..Len(list) : list[k].part \in {"ins", "imu"}
  <2>1. \A i \in 1..Len(parts) : BeidouWorker(parts[i]) \in Listable
    BY <1>5, <1>6
  <2>2. list \in Seq(Listable)
    BY <1>5, <2>1
  <2> QED BY <1>3, <1>4, <1>5, <1>6, <2>2 DEF Sorted, AllDue
<1>8. Complete(list, all)
  BY <1>7, BeidouWraps DEF BeidouWorkers, list, parts
<1> HIDE DEF all
<1>9. Covered(s)
  <2> SUFFICES ASSUME InOrder(s), NEW p \in s.wanted
               PROVE  \E i \in DOMAIN all : all[i].kind \in {"write", "sdk"} /\ all[i].part = p
    BY <1>1 DEF Covered
  <2>1. Follows(image, Len(image), BeidouRules, Len(BeidouRules))
    BY <1>1, <1>2, InOrderFollows
  <2>2. PICK i \in DOMAIN image : image[i] = p
    BY <1>1 DEF ToSet
  <2>3. i \in 1..Len(image)
    OBVIOUS
  <2>4. PICK r \in 1..Len(BeidouRules) : image[i] = BeidouRules[r]
    BY <2>1, <2>3 DEF Follows
  <2>5. \A q, r2 \in 1..Len(BeidouRules) : BeidouRules[q] = BeidouRules[r2] => q = r2
    BY <1>2
  <2>6. i \in 1..Taken(image, BeidouRules)
    <3>1. Len(BeidouRules) \in Nat /\ Len(BeidouRules) <= Len(BeidouRules)
      BY <1>2
    <3> QED BY <2>1, <2>4, <2>5, <3>1, TakenAll
  <2>7. i \in 1..Len(list) /\ list[i].kind = "write" /\ list[i].part = p
    BY <1>3, <1>5, <1>6, <2>2, <2>6
  <2>8. Has(list, p)
    BY <2>7 DEF Has
  <2> QED BY <1>8, <2>8, StillHas
<1>10. Bracketed(all) /\ \A i \in DOMAIN all : all[i].core \in {"main", "imu"}
  BY <1>8, CompleteTeam
<1>11. DOMAIN s.groups = DOMAIN s.team
  BY <1>1 DEF InOneGroup
<1> QED BY <1>1, <1>9, <1>10, <1>11 DEF Proper, s

(* All upgrades have lists as they must be.                                 *)
LEMMA SessionsAreProper == \A s \in Sessions : Proper(s)
<1> SUFFICES ASSUME NEW s \in Sessions PROVE Proper(s)
  OBVIOUS
<1>1. s.image \in Seq(STRING)
  BY SessionsAssumption
<1>2. CASE /\ DOMAIN s.groups = DOMAIN s.team /\ s.wanted = {}
           /\ \A i \in DOMAIN s.team : s.team[i].kind \in {"plain", "sdk"} /\ s.team[i].core \in {"main", "imu"}
  BY <1>2 DEF Proper, Bracketed, Covered
<1>3. CASE \E flags \in SUBSET Selectable, cut \in BOOLEAN : s = EthernetSession(s.image, flags, cut)
  BY <1>1, <1>3, EthernetIsProper
<1>4. CASE \E cut \in BOOLEAN : s = BeidouSession(s.image, cut)
  BY <1>1, <1>4, BeidouIsProper
<1> QED BY <1>2, <1>3, <1>4, SessionsAssumption

-----------------------------------------------------------------------------
(* The invariant of an upgrade: those of the center and of the SDK worker,  *)
(* with what is known of the list, of the unit and of its parts.            *)
SessionInv ==
  /\ OrderInv /\ FinishInv /\ Amounts
  /\ Listed /\ JumpInv
  /\ SdkInv /\ AtTheEnd
  /\ Chain /\ Faultless => PartsIn

(* It holds at first, and every step keeps it.                              *)
LEMMA SessionInvInit == SessionInit => SessionInv
<1> SUFFICES ASSUME SessionInit PROVE SessionInv
  OBVIOUS
<1>1. Init /\ SdkInit /\ step = "begin"
  BY DEF SessionInit
<1>2. OrderInv /\ FinishInv
  BY <1>1, OrderInit, FinishInit
<1>3. Amounts
  <2>1. 0 \in 0..Size
    BY UpgradeCenterAssumption
  <2> QED BY <1>1, <2>1 DEF Init, Amounts
<1>4. Listed /\ JumpInv
  BY SessionsAreProper, JumpInvInit DEF SessionInit, Listed
<1>5. SdkInv /\ AtTheEnd
  BY <1>1, InitIsFresh, BeginStep DEF SdkInit, AtTheEnd
<1>6. ASSUME Chain PROVE PartsIn
  <2>1. (\A w \in Workers : written[w] = 0) /\ ended = {}
    BY <1>1 DEF Init
  <2>2. ~Left
    <3>1. 1 \in Threads
      BY <1>2, <1>4, <1>6, OneCaller
    <3> QED BY <1>1, <3>1 DEF Init, Left
  <2> QED BY <2>1, <2>2 DEF PartsIn
<1> QED BY <1>2, <1>3, <1>4, <1>5, <1>6 DEF SessionInv

LEMMA SessionInvStep == SessionInv /\ [SessionNext]_sessionVars => SessionInv'
<1> SUFFICES ASSUME SessionInv, [SessionNext]_sessionVars PROVE SessionInv'
  OBVIOUS
<1> USE DEF SessionInv
<1>1. OrderInv' /\ FinishInv' /\ Amounts'
  BY SessionStep, OrderStep, FinishStep, AmountsStep
<1>2. UNCHANGED <<session, groups, slow, acks>> /\ Listed' /\ Chain' = Chain
  BY Fixed, Frame
<1>3. JumpInv'
  BY JumpInvStep
<1>4. SdkInv' /\ AtTheEnd' /\ UNCHANGED runVars
  BY ChipStep
<1>5. Chain' /\ Faultless' => PartsIn'
  <2>1. Faultless' => Faultless
    BY <1>2, <1>4 DEF Faultless, runVars
  <2> QED BY <1>2, <2>1, PartsStep
<1> QED BY <1>1, <1>2, <1>3, <1>4, <1>5

(* So it holds in every upgrade.                                            *)
THEOREM SessionInvariant == SessionSpec => []SessionInv
BY SessionInvInit, SessionInvStep, PTL DEF SessionSpec

(* A firmware part is written while its core is in its bootloader, through  *)
(* every provider, for every file and all flags, whatever the link loses,   *)
(* if the unit acknowledges, and in time.                                   *)
THEOREM PartsWrittenInBoot == SessionSpec => []WrittenInBoot
<1>1. SessionInv => WrittenInBoot
  BY EnteredIsInBoot DEF SessionInv
<1> QED BY <1>1, SessionInvariant, PTL

(* After FINISH the cores that jumped are back in their applications; over  *)
(* Ethernet, unless a jump back was not acknowledged or the unit is slow.   *)
THEOREM CoresBackInApplication == SessionSpec => []BackInApplication
<1>1. SessionInv => BackInApplication
  <2> SUFFICES ASSUME SessionInv PROVE BackInApplication
    OBVIOUS
  <2>1. FinishMeansAll
    BY DEF SessionInv, FinishInv, FinishMeansAll, Singly, Lasts
  <2> QED BY <2>1, BackIsInApplication DEF SessionInv
<1> QED BY <1>1, SessionInvariant, PTL

(* After FINISH every part of the file that was asked for is in the unit,   *)
(* whatever the link loses, if the parts were in their order in the file    *)
(* and the unit acknowledges, in time.                                      *)
THEOREM PartsInstalled == SessionSpec => []EveryPartInstalled
<1>1. SessionInv => EveryPartInstalled
  <2> SUFFICES ASSUME SessionInv, finishes > 0, InOrder(session), Faultless, NEW p \in session.wanted
               PROVE  p \in installed
    BY DEF EveryPartInstalled, Faultless
  <2>1. PICK i \in DOMAIN team : Brings(i) /\ team[i].part = p
    BY DEF SessionInv, Listed, Proper, Covered, Brings, team
  <2>2. Chain
    BY <2>1 DEF SessionInv, Listed, Proper, Chain, team
  <2>3. Normal = DOMAIN team
    BY <2>2, OneCaller DEF SessionInv
  <2>4. i \in ended
    BY <2>3 DEF SessionInv, FinishInv, FinishMeansAll, Singly, Lasts
  <2> QED BY <2>1, <2>2, <2>4 DEF SessionInv, PartsIn
<1> QED BY <1>1, SessionInvariant, PTL

(* Among all workers of an upgrade, too, an SDK worker is never ahead of    *)
(* its chip.                                                                *)
THEOREM SessionNeverAhead == SessionSpec => []InStep
<1>1. SessionInv => InStep
  BY DEF SessionInv, SdkInv, InStep, Good
<1> QED BY <1>1, SessionInvariant, PTL
=============================================================================
