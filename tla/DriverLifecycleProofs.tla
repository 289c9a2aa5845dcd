------------------------ MODULE DriverLifecycleProofs ------------------------
(***************************************************************************)
(* One user of the link and one listener of each event, over any number of *)
(* reconnections, upgrades and faults, as long as no recovery meets an     *)
(* upgrade.                                                                *)
(***************************************************************************)
EXTENDS DriverLifecycle, FiniteSetTheorems, TLAPS

(* Who recovers the device: from the search to the listeners.  The search   *)
(* after an upgrade belongs to the upgrade until it has an answer.          *)
Recovering(t) == Searching(t) /\ th[t].why # "restart"
Seeking(t)    == th[t].at \in {"find", "found"} /\ th[t].why = "restart"
Active(u)     == th[Upgrade(u)].at = "write" \/ Seeking(Upgrade(u))

(* A recovery from an error closes the old center when it has found the     *)
(* device; any other starts without a center.                               *)
Early(t) == th[t].at \in {"find", "found"} /\ th[t].why = "exception"
Late(t)  == \/ th[t].at = "load" /\ th[t].why # "restart"
            \/ th[t].at \in {"find", "found"} /\ th[t].why \notin {"exception", "restart"}

(* Only an upgrade writes and seeks, and it does not load; a center that    *)
(* was left has no reader that reads.                                       *)
Misplaced(t) == th[t].at \in {"load", "listen"} /\ th[t].why = "restart"
Roles ==
  /\ \A t \in Threads : ~Misplaced(t)
  /\ \A t \in Threads : th[t].at = "write" \/ Seeking(t) => \E u \in Upgrades : t = Upgrade(u)
  /\ \A c \in Centers : c # messageCenter => center[c].stop \/ center[c].readers = 0

(* An upgrade is alone and is_upgrading says so, until the program ends.    *)
OneUpgrade ==
  ~exited =>
    /\ \A u, v \in Upgrades : Active(u) /\ Active(v) => u = v
    /\ \A u \in Upgrades : Active(u) => isUpgrading
    /\ \A u \in Upgrades : th[Upgrade(u)].at = "write" =>
         \A c \in Centers : c = messageCenter => ~Reads(c)

(* A recovery is alone, nobody hears of another error meanwhile, and it     *)
(* makes a new center when the old one is closed, and no upgrade is there.  *)
OneRecovery ==
  /\ \A s, t \in Threads : Recovering(s) /\ Recovering(t) => s = t
  /\ \A t \in Threads : Recovering(t) => listeners = 0
  /\ \A s, t \in Threads : ~(Seeking(s) /\ Recovering(t))
  /\ \A t \in Threads : Early(t) => withException
  /\ \A t \in Threads : Late(t) => messageCenter = None
  /\ \A t \in Threads, u \in Upgrades : ~(Late(t) /\ Active(u))
  /\ \A c \in Centers : center[c].readers <= 1
  /\ listeners <= 1
  /\ listeners = 1 \/ Raised \/ \E t \in Threads : Recovering(t)

DriverInv == DriverTypeOK /\ Roles /\ (~disturbed => OneUpgrade /\ OneRecovery)

-----------------------------------------------------------------------------
LEMMA ThreadNames ==
  /\ Main \in Threads /\ \A c \in Centers : Checker(c) \in Threads
  /\ \A u \in Upgrades : Upgrade(u) \in Threads
  /\ \A c \in Centers : Checker(c) # Main /\ \A d \in Centers : Checker(c) = Checker(d) => c = d
  /\ \A u \in Upgrades : Upgrade(u) # Main /\ \A v \in Upgrades : Upgrade(u) = Upgrade(v) => u = v
  /\ \A c \in Centers, u \in Upgrades : Checker(c) # Upgrade(u)
BY DEF Main, Checker, Upgrade, Threads

Cells == [at : Places, why : {"no", "detect", "exception", "restart", "lost"},
          tried : 0..Retries - 1]

LEMMA CellFacts ==
  /\ \A place \in Places : At(place) \in Cells
  /\ \A why \in {"no", "detect", "exception", "restart", "lost"} : Search(why) \in Cells
  /\ \A t \in Threads : \E place \in {"idle", "gone", "poll"} : Caller(t) = At(place)
<1>1. \A t \in Threads : \E place \in {"idle", "gone", "poll"} : Caller(t) = At(place)
  <2> SUFFICES ASSUME NEW t \in Threads
               PROVE  \E place \in {"idle", "gone", "poll"} : Caller(t) = At(place)
    OBVIOUS
  <2>1. CASE t[1] = "main"
    BY <2>1 DEF Caller
  <2>2. CASE t[1] = "checker"
    BY <2>2 DEF Caller
  <2>3. CASE t[1] # "main" /\ t[1] # "checker"
    BY <2>3 DEF Caller
  <2> QED BY <2>1, <2>2, <2>3
<1>2. \A place \in Places : At(place) \in Cells
  BY DEF At, Cells, Retries, Places
<1>3. \A why \in {"no", "detect", "exception", "restart", "lost"} : Search(why) \in Cells
  BY DEF Search, Cells, Retries, Places
<1> QED BY <1>1, <1>2, <1>3

CenterCells == [readers : Nat, pause : BOOLEAN, stop : BOOLEAN, exc : BOOLEAN, late : BOOLEAN]

LEMMA CenterFacts ==
  ASSUME NEW cs \in [Centers -> CenterCells], NEW c \in Centers,
         center \in [Centers -> CenterCells]
  PROVE  /\ Paused(cs, c) \in [Centers -> CenterCells]
         /\ Resumed(cs, c) \in [Centers -> CenterCells]
         /\ Stopped(cs, c) \in [Centers -> CenterCells]
<1>1. Reads(c) \in BOOLEAN
  BY DEF Reads
<1>2. Paused(cs, c) \in [Centers -> CenterCells]
  BY <1>1 DEF Paused, CenterCells
<1>3. Resumed(cs, c) \in [Centers -> CenterCells]
  BY DEF Resumed, CenterCells
<1>4. Stopped(cs, c) \in [Centers -> CenterCells]
  BY <1>1 DEF Stopped, CenterCells
<1> QED BY <1>2, <1>3, <1>4

LEMMA TypeInit == Init => DriverTypeOK
<1> SUFFICES ASSUME Init PROVE DriverTypeOK
  OBVIOUS
<1>1. th \in [Threads -> Cells]
  BY CellFacts DEF Init, Places
<1>2. center \in [Centers -> CenterCells]
  BY DEF Init, NoCenter, CenterCells
<1>3. told \in [Upgrades -> {"no", "failed", "finished"}]
  BY DEF Init
<1> QED BY <1>1, <1>2, <1>3 DEF Init, DriverTypeOK, Cells, CenterCells

(* Each step keeps the types: one thread moves, or two when a center starts. *)
LEMMA Moves ==
  ASSUME DriverTypeOK, NEW t \in Threads
  PROVE  /\ \A place \in Places : [th EXCEPT ![t].at = place] \in [Threads -> Cells]
         /\ \A place \in Places : Go(t, place) => th' \in [Threads -> Cells]
         /\ \A cell \in Cells : [th EXCEPT ![t] = cell] \in [Threads -> Cells]
         /\ Return(t) => th' \in [Threads -> Cells]
<1>1. th \in [Threads -> Cells]
  BY DEF DriverTypeOK, Cells
<1>2. \A place \in Places : [th EXCEPT ![t].at = place] \in [Threads -> Cells]
  BY <1>1 DEF Cells
<1>3. \A cell \in Cells : [th EXCEPT ![t] = cell] \in [Threads -> Cells]
  BY <1>1
<1>4. Caller(t) \in Cells
  BY CellFacts DEF Places
<1> QED BY <1>2, <1>3, <1>4 DEF Go, Return

LEMMA TypeStep == DriverTypeOK /\ [Next]_vars => DriverTypeOK'
<1> SUFFICES ASSUME DriverTypeOK, [Next]_vars PROVE DriverTypeOK'
  OBVIOUS
<1>1. /\ th \in [Threads -> Cells] /\ center \in [Centers -> CenterCells]
      /\ faults \in Nat /\ listeners \in Nat /\ lostFiles \in Nat
      /\ messageCenter # None => messageCenter \in Centers
  BY DEF DriverTypeOK, Cells, CenterCells
<1>2. ASSUME th' \in [Threads -> Cells], center' \in [Centers -> CenterCells],
             UNCHANGED interface, answers' \in BOOLEAN, faults' \in Nat,
             present' \in BOOLEAN, withException' \in BOOLEAN,
             isUpgrading' \in BOOLEAN, isLogging' \in BOOLEAN, logOpen' \in BOOLEAN,
             messageCenter' \in {None} \cup Centers, asked' \in {None} \cup Centers,
             listeners' \in Nat, lostFiles' \in Nat,
             told' \in [Upgrades -> {"no", "failed", "finished"}],
             disturbed' \in BOOLEAN, hurried' \in BOOLEAN, exited' \in BOOLEAN
      PROVE  DriverTypeOK'
  BY <1>2 DEF DriverTypeOK, Cells, CenterCells
<1> USE <1>1
<1>9. /\ NewLogger => logOpen' \in BOOLEAN /\ lostFiles' \in Nat
      /\ ResetFlags => /\ isUpgrading' \in BOOLEAN /\ isLogging' \in BOOLEAN
                       /\ logOpen' \in BOOLEAN /\ listeners' \in Nat
  <2>1. ASSUME NewLogger PROVE logOpen' \in BOOLEAN /\ lostFiles' \in Nat
    <3>1. lostFiles' = lostFiles + 1 \/ lostFiles' = lostFiles + 0
      BY <2>1 DEF NewLogger
    <3>2. lostFiles' \in Nat
      BY <3>1
    <3>3. logOpen' \in BOOLEAN
      BY <2>1 DEF NewLogger
    <3> QED BY <3>2, <3>3
  <2>2. 0 \in Nat
    OBVIOUS
  <2> QED BY <2>1, <2>2 DEF ResetFlags
<1>10. ASSUME CloseProvider, messageCenter # None
       PROVE  /\ center' \in [Centers -> CenterCells] /\ messageCenter' = None
              /\ isUpgrading' \in BOOLEAN /\ isLogging' \in BOOLEAN
              /\ logOpen' \in BOOLEAN /\ listeners' \in Nat
  <2>1. Resumed(center, messageCenter) \in [Centers -> CenterCells]
    BY <1>10, CenterFacts
  <2>2. Stopped(Resumed(center, messageCenter), messageCenter) \in [Centers -> CenterCells]
    BY <1>10, <2>1, CenterFacts
  <2> QED BY <1>10, <2>2, <1>9 DEF CloseProvider
<1>3. ASSUME LinkStep PROVE DriverTypeOK'
  <2>1. CASE FallSilent
    <3>1. faults' \in Nat
      BY <2>1 DEF FallSilent
    <3> QED BY <2>1, <3>1, <1>2 DEF FallSilent, DriverTypeOK, provider, history
  <2>3. CASE AnswerAgain
    BY <2>3, <1>2 DEF AnswerAgain, DriverTypeOK, provider, history
  <2>2. ASSUME NEW c \in Centers, ReadRaises(c) PROVE DriverTypeOK'
    <3>1. center' \in [Centers -> CenterCells]
      BY <2>2 DEF ReadRaises, Reads, CenterCells
    <3> QED BY <2>2, <3>1, <1>2 DEF ReadRaises, DriverTypeOK, provider, history
  <2> QED BY <1>3, <2>1, <2>2, <2>3 DEF LinkStep
<1>4. ASSUME NEW c \in Centers, CenterStep(c) PROVE DriverTypeOK'
  <2> Checker(c) \in Threads
    BY ThreadNames
  <2>1. CASE ReaderEnds(c)
    <3>1. center' \in [Centers -> CenterCells]
      BY <2>1 DEF ReaderEnds, CenterCells
    <3> QED BY <2>1, <3>1, <1>2 DEF ReaderEnds, DriverTypeOK, link, provider, history
  <2>2. CASE LateReadEnds(c)
    <3>1. center' \in [Centers -> CenterCells]
      BY <2>2 DEF LateReadEnds, CenterCells
    <3> QED BY <2>2, <3>1, <1>2 DEF LateReadEnds, DriverTypeOK, link, provider, history
  <2>3. CASE HearException(c)
    <3>1. th' \in [Threads -> Cells] /\ center' \in [Centers -> CenterCells]
      <4>1. CASE present /\ messageCenter # None
        <5>1. Search("exception") \in Cells /\ Resumed(center, messageCenter) \in [Centers -> CenterCells]
          BY <4>1, CellFacts, CenterFacts
        <5>2. /\ th' = [th EXCEPT ![Checker(c)] = Search("exception")]
              /\ center' = Resumed(center, messageCenter)
          BY <2>3, <4>1 DEF HearException
        <5> QED BY <5>1, <5>2
      <4>2. CASE ~(present /\ messageCenter # None)
        BY <2>3, <4>2, Moves DEF HearException, Places
      <4> QED BY <4>1, <4>2
    <3>2. /\ isUpgrading' \in BOOLEAN /\ isLogging' \in BOOLEAN
          /\ logOpen' \in BOOLEAN /\ listeners' \in Nat
      BY <2>3, <1>9 DEF HearException, DriverTypeOK
    <3>3. disturbed' \in BOOLEAN
      BY <2>3 DEF HearException
    <3> QED BY <2>3, <3>1, <3>2, <3>3, <1>2 DEF HearException, DriverTypeOK, link
  <2>4. CASE CheckerEnds(c)
    <3>1. th' \in [Threads -> Cells]
      BY <2>4, Moves DEF CheckerEnds, Places
    <3> QED BY <2>4, <3>1, <1>2 DEF CheckerEnds, DriverTypeOK, link, provider, history
  <2> QED BY <1>4, <2>1, <2>2, <2>3, <2>4 DEF CenterStep
<1>5. ASSUME NEW u \in Upgrades, UpgradeStep(u) PROVE DriverTypeOK'
  <2> Upgrade(u) \in Threads
    BY ThreadNames
  <2>1. CASE UpgradeError(u)
    <3>1. th' \in [Threads -> Cells] /\ center' \in [Centers -> CenterCells]
      <4>1. CASE messageCenter = None
        BY <2>1, <4>1, Moves DEF UpgradeError, Places
      <4>2. CASE messageCenter # None
        BY <2>1, <4>2, CenterFacts DEF UpgradeError, DriverTypeOK
      <4> QED BY <4>1, <4>2
    <3>2. told' \in [Upgrades -> {"no", "failed", "finished"}] /\ exited' \in BOOLEAN
      BY <2>1 DEF UpgradeError, DriverTypeOK
    <3> QED BY <2>1, <3>1, <3>2, <1>2 DEF UpgradeError, DriverTypeOK, link
  <2>2. CASE UpgradeComplete(u)
    <3>1. th' \in [Threads -> Cells]
      BY <2>2, Moves, CellFacts DEF UpgradeComplete, Places
    <3> QED BY <2>2, <3>1, <1>2 DEF UpgradeComplete, DriverTypeOK, link, provider, history
  <2> QED BY <1>5, <2>1, <2>2 DEF UpgradeStep
<1>6. ASSUME CommandStep \/ Answered PROVE DriverTypeOK'
  <2> Main \in Threads
    BY ThreadNames
  <2>1. CASE StartDataLog
    BY <2>1, <1>2 DEF StartDataLog, DriverTypeOK, link
  <2>2. CASE StopDataLog
    BY <2>2, <1>2 DEF StopDataLog, DriverTypeOK, link, history
  <2>3. CASE Ask
    <3>1. th' \in [Threads -> Cells]
      BY <2>3, Moves DEF Ask, Places
    <3> QED BY <2>3, <3>1, <1>2 DEF Ask, DriverTypeOK, link, provider, history
  <2>4. CASE Answered
    <3>1. th' \in [Threads -> Cells]
      BY <2>4, Moves DEF Answered, Places
    <3> QED BY <2>4, <3>1, <1>2 DEF Answered, DriverTypeOK, link, provider, history
  <2>5. ASSUME NEW u \in Upgrades, UpgradeFramework(u) PROVE DriverTypeOK'
    <3> Upgrade(u) \in Threads
      BY ThreadNames
    <3>1. th' \in [Threads -> Cells] /\ center' \in [Centers -> CenterCells]
      <4>1. CASE messageCenter = None
        BY <2>5, <4>1 DEF UpgradeFramework
      <4>2. CASE messageCenter # None
        <5>1. At("write") \in Cells
          BY CellFacts DEF Places
        <5> QED BY <2>5, <4>2, <5>1, CenterFacts, Moves DEF UpgradeFramework
      <4> QED BY <4>1, <4>2
    <3>2. logOpen' \in BOOLEAN
      BY <2>5 DEF UpgradeFramework, DriverTypeOK
    <3> QED BY <2>5, <3>1, <3>2, <1>2 DEF UpgradeFramework, DriverTypeOK, link, history
  <2> QED BY <1>6, <2>1, <2>2, <2>3, <2>4, <2>5 DEF CommandStep
<1>7. ASSUME NEW t \in Threads, FindStep(t) PROVE DriverTypeOK'
  <2>1. CASE FindHit(t)
    <3>1. th' \in [Threads -> Cells]
      BY <2>1, Moves DEF FindHit, Places
    <3> QED BY <2>1, <3>1, <1>2 DEF FindHit, DriverTypeOK, link, provider, history
  <2>2. CASE FindEnds(t)
    <3>1. th' \in [Threads -> Cells] /\ exited' \in BOOLEAN
      BY <2>2, Moves DEF FindEnds, Places, DriverTypeOK
    <3> QED BY <2>2, <3>1, <1>2 DEF FindEnds, DriverTypeOK, link, provider, history
  <2>3. CASE FindMiss(t)
    <3>1. th' \in [Threads -> Cells]
      BY <2>3 DEF FindMiss, Cells, Retries
    <3> QED BY <2>3, <3>1, <1>2 DEF FindMiss, DriverTypeOK, link, provider, history
  <2>4. CASE NotFound(t)
    <3>1. CASE messageCenter = None
      <4>1. th' \in [Threads -> Cells]
        BY <2>4, <3>1, Moves DEF NotFound, Places
      <4> QED BY <2>4, <3>1, <4>1, <1>2 DEF NotFound, DriverTypeOK, link, provider
    <3>2. CASE messageCenter # None
      <4>1. th' \in [Threads -> Cells]
        BY <2>4, <3>2, Moves, CellFacts DEF NotFound
      <4>2. CloseProvider
        BY <2>4, <3>2 DEF NotFound
      <4>3. told' \in [Upgrades -> {"no", "failed", "finished"}]
        BY <2>4, <3>2 DEF NotFound, DriverTypeOK
      <4> QED BY <2>4, <3>2, <4>1, <4>2, <4>3, <1>2, <1>10 DEF NotFound, DriverTypeOK, link
    <3> QED BY <3>1, <3>2
  <2>5. CASE Discover(t)
    <3>1. th' \in [Threads -> Cells]
      BY <2>5, Moves DEF Discover, Places
    <3>2. CASE ~withException \/ messageCenter = None
      BY <2>5, <3>1, <3>2, <1>2 DEF Discover, DriverTypeOK, link, provider
    <3>3. CASE withException /\ messageCenter # None
      <4>1. CloseProvider /\ disturbed' \in BOOLEAN
        BY <2>5, <3>3 DEF Discover
      <4> QED BY <2>5, <3>1, <3>3, <4>1, <1>2, <1>10 DEF Discover, DriverTypeOK, link
    <3> QED BY <3>2, <3>3 DEF DriverTypeOK
  <2>6. CASE Load(t)
    <3>1. lostFiles' \in Nat /\ logOpen' \in BOOLEAN
      BY <2>6, <1>9 DEF Load
    <3>2. CASE messageCenter # None
      <4>1. th' \in [Threads -> Cells]
        BY <2>6, <3>2, Moves DEF Load, SetupCenter, Places
      <4>2. center' \in [Centers -> CenterCells] /\ messageCenter' = messageCenter
        BY <2>6, <3>2 DEF Load, SetupCenter, DriverTypeOK, CenterCells
      <4> QED BY <2>6, <3>1, <4>1, <4>2, <1>2 DEF Load, DriverTypeOK, link
    <3>3. CASE messageCenter = None
      <4> DEFINE d == CHOOSE c \in Unused : TRUE
      <4>1. d \in Centers /\ Checker(d) \in Threads
        BY <2>6, <3>3, ThreadNames DEF Load, SetupCenter, Unused
      <4>2. /\ messageCenter' = d /\ center' = [center EXCEPT ![d].readers = 1]
            /\ th' = [th EXCEPT ![t].at = "setup", ![Checker(d)] = At("poll")]
        BY <2>6, <3>3 DEF Load, SetupCenter
      <4>3. th' \in [Threads -> Cells]
        <5>1. At("poll") \in Cells
          BY CellFacts DEF Places
        <5>2. [th EXCEPT ![t].at = "setup"] \in [Threads -> Cells]
          BY Moves DEF Places
        <5> QED BY <4>1, <4>2, <5>1, <5>2
      <4>4. center' \in [Centers -> CenterCells] /\ messageCenter' \in Centers
        BY <4>1, <4>2 DEF CenterCells
      <4> QED BY <2>6, <3>1, <4>3, <4>4, <1>2 DEF Load, DriverTypeOK, link
    <3> QED BY <3>2, <3>3
  <2>7. CASE SetupDone(t)
    <3>1. th' \in [Threads -> Cells]
      BY <2>7, Moves DEF SetupDone, Places
    <3> QED BY <2>7, <3>1, <1>2 DEF SetupDone, DriverTypeOK, link, provider, history
  <2>8. CASE Listen(t)
    <3>1. th' \in [Threads -> Cells]
      BY <2>8, Moves DEF Listen
    <3> QED BY <2>8, <3>1, <1>2 DEF Listen, DriverTypeOK, link, history
  <2>9. CASE UpgradeCompleted(t)
    <3>1. th' \in [Threads -> Cells] /\ center' \in [Centers -> CenterCells]
      <4>1. CASE messageCenter = None
        BY <2>9, <4>1, Moves DEF UpgradeCompleted, Places
      <4>2. CASE messageCenter # None
        <5>1. Go(t, "setup") /\ center' = Resumed(center, messageCenter)
          BY <2>9, <4>2 DEF UpgradeCompleted
        <5> QED BY <4>2, <5>1, CenterFacts, Moves DEF Places
      <4> QED BY <4>1, <4>2
    <3> QED BY <2>9, <3>1, <1>2, <1>9 DEF UpgradeCompleted, DriverTypeOK, link
  <2>10. CASE UpgradeTold(t)
    <3>1. th' \in [Threads -> Cells]
      BY <2>10, Moves DEF UpgradeTold
    <3>2. told' \in [Upgrades -> {"no", "failed", "finished"}]
      BY <2>10 DEF UpgradeTold, DriverTypeOK
    <3> QED BY <2>10, <3>1, <3>2, <1>2 DEF UpgradeTold, DriverTypeOK, link, provider
  <2> QED BY <1>7, <2>1, <2>2, <2>3, <2>4, <2>5, <2>6, <2>7, <2>8, <2>9, <2>10 DEF FindStep
<1>8. CASE UNCHANGED vars
  BY <1>8 DEF DriverTypeOK, vars, link, provider, history
<1> QED BY <1>3, <1>4, <1>5, <1>6, <1>7, <1>8 DEF Next

(* The types of the driver's state, over any number of centers and upgrades. *)
THEOREM TypeCorrect == Spec => []DriverTypeOK
<1> QED BY TypeInit, TypeStep, PTL DEF Spec

-----------------------------------------------------------------------------
(* Only t moves; it takes no role that it did not have, except that a       *)
(* writing upgrade may seek where the driver listens, and a recovery that   *)
(* it gives up has raised.                                                  *)
OnlyMoves(t) == \A s \in Threads : s # t => th'[s] = th[s]
NoNewRole(t) ==
  /\ th'[t].at = "write" => th[t].at = "write"
  /\ Seeking(t)' => Seeking(t) \/ (th[t].at = "write" /\ listeners # 0)
  /\ Recovering(t)' => Recovering(t)
  /\ Recovering(t) => Recovering(t)' \/ th'[t].at = "raised"
  /\ Early(t)' => Early(t)
  /\ Late(t)' => Late(t)
  /\ th[t].at = "raised" => th'[t].at = "raised"
  /\ Misplaced(t)' => Misplaced(t)

LEMMA RolesKept ==
  ASSUME DriverInv, DriverTypeOK', NEW t \in Threads, OnlyMoves(t), NoNewRole(t),
         UNCHANGED messageCenter,
         \A c \in Centers : center[c].stop => center'[c].stop,
         \A c \in Centers : center'[c].readers <= center[c].readers
  PROVE  Roles'
<1>1. \A s \in Threads : th'[s].at = "write" \/ Seeking(s)' => th[s].at = "write" \/ Seeking(s)
  BY DEF OnlyMoves, NoNewRole, Seeking
<1>3. \A s \in Threads : Misplaced(s)' => Misplaced(s)
  BY DEF OnlyMoves, NoNewRole, Misplaced
<1>2. \A c \in Centers : center[c].readers = 0 => center'[c].readers = 0
  <2>1. \A c \in Centers : center[c].readers \in Nat /\ center'[c].readers \in Nat
    BY DEF DriverInv, DriverTypeOK
  <2> QED BY <2>1
<1> QED BY <1>1, <1>2, <1>3 DEF DriverInv, Roles

LEMMA Onward ==
  ASSUME DriverInv, DriverTypeOK', NEW t \in Threads, OnlyMoves(t), NoNewRole(t),
         UNCHANGED <<messageCenter, listeners>>, withException => withException',
         exited => exited', disturbed => disturbed',
         \A c \in Centers : center[c].stop => center'[c].stop,
         \A c \in Centers : center'[c].readers <= center[c].readers,
         ASSUME NEW u \in Upgrades, ~exited', ~disturbed', Active(u)'
         PROVE  /\ isUpgrading => isUpgrading'
                /\ \A c \in Centers : th'[Upgrade(u)].at = "write" /\ Reads(c)' => Reads(c)
  PROVE  DriverInv'
<1>1. Roles'
  BY RolesKept
<1>2. ASSUME ~disturbed' PROVE OneUpgrade' /\ OneRecovery'
  <2>1. ~disturbed /\ OneUpgrade /\ OneRecovery
    BY <1>2 DEF DriverInv
  <2>2. \A u \in Upgrades : Active(u)' => Active(u)
    BY ThreadNames DEF OnlyMoves, NoNewRole, Seeking, Active
  <2>3. \A u \in Upgrades : th'[Upgrade(u)].at = "write" => th[Upgrade(u)].at = "write"
    BY ThreadNames DEF OnlyMoves, NoNewRole
  <2>4. ASSUME ~exited' PROVE OneUpgrade'
    <3>1. \A u, v \in Upgrades : Active(u)' /\ Active(v)' => u = v
      BY <2>1, <2>2, <2>4 DEF OneUpgrade
    <3>2. \A u \in Upgrades : Active(u)' => isUpgrading'
      BY <1>2, <2>1, <2>2, <2>4 DEF OneUpgrade
    <3>3. ASSUME NEW u \in Upgrades, th'[Upgrade(u)].at = "write",
                 NEW c \in Centers, c = messageCenter', Reads(c)'
          PROVE  FALSE
      <4>1. Active(u)'
        BY <3>3 DEF Active
      <4> QED BY <1>2, <2>1, <2>3, <2>4, <3>3, <4>1 DEF OneUpgrade
    <3> QED BY <3>1, <3>2, <3>3 DEF OneUpgrade
  <2>5. \A s \in Threads : /\ Recovering(s)' => Recovering(s)
                           /\ Early(s)' => Early(s)
                           /\ Late(s)' => Late(s)
                           /\ Recovering(s) => Recovering(s)' \/ th'[s].at = "raised"
                           /\ th[s].at = "raised" => th'[s].at = "raised"
    BY DEF OnlyMoves, NoNewRole, Recovering, Searching, Early, Late, Misplaced
  <2>7. \A s, r \in Threads : ~(Seeking(s)' /\ Recovering(r)')
    <3>1. \A s \in Threads : Seeking(s)' => Seeking(s) \/ listeners # 0
      BY DEF OnlyMoves, NoNewRole, Seeking
    <3> QED BY <2>1, <2>5, <3>1 DEF OneRecovery
  <2>8. \A c \in Centers : center'[c].readers <= 1
    <3>1. \A c \in Centers : center[c].readers \in Nat /\ center'[c].readers \in Nat
      BY DEF DriverInv, DriverTypeOK
    <3> QED BY <2>1, <3>1 DEF OneRecovery
  <2>9. listeners' = 1 \/ Raised' \/ \E s \in Threads : Recovering(s)'
    BY <2>1, <2>5 DEF OneRecovery, Raised
  <2> QED BY <2>1, <2>2, <2>4, <2>5, <2>7, <2>8, <2>9 DEF OneRecovery, OneUpgrade
<1> QED BY <1>1, <1>2 DEF DriverInv

-----------------------------------------------------------------------------
LEMMA Starts == Init => DriverInv
<1> SUFFICES ASSUME Init PROVE DriverInv
  OBVIOUS
<1>1. DriverTypeOK
  BY TypeInit
<1>2. \A t \in Threads : th[t] = IF t = Main THEN Search("detect") ELSE At("no")
  BY DEF Init
<1>3. \A t \in Threads : t # Main => th[t].at = "no"
  BY <1>2 DEF At
<1>4. th[Main].at = "find" /\ th[Main].why = "detect"
  BY <1>2, ThreadNames DEF Search
<1>5. Roles
  <2>1. \A c \in Centers : center[c].readers = 0
    BY DEF Init, NoCenter
  <2> QED BY <1>3, <1>4, <2>1 DEF Roles, Seeking, Misplaced
<1>6. OneUpgrade
  <2>1. \A u \in Upgrades : ~Active(u)
    BY <1>3, ThreadNames DEF Active, Seeking
  <2> QED BY <2>1 DEF OneUpgrade, Active
<1>7. OneRecovery
  <2>1. \A t \in Threads : Recovering(t) => t = Main
    BY <1>3 DEF Recovering, Searching
  <2>2. \A t \in Threads : ~Seeking(t) /\ ~Early(t)
    BY <1>3, <1>4 DEF Seeking, Early
  <2>3. listeners = 0 /\ messageCenter = None /\ Recovering(Main)
    BY <1>4 DEF Init, Recovering, Searching
  <2>4. \A u \in Upgrades : ~Active(u)
    BY <1>3, ThreadNames DEF Active, Seeking
  <2>5. \A c \in Centers : center[c].readers <= 1
    BY DEF Init, NoCenter
  <2> QED BY <2>1, <2>2, <2>3, <2>4, <2>5, ThreadNames DEF OneRecovery
<1> QED BY <1>1, <1>5, <1>6, <1>7 DEF DriverInv

-----------------------------------------------------------------------------
(* Where a thread is after a move.                                          *)
LEMMA MoveFacts ==
  ASSUME DriverTypeOK, NEW t \in Threads
  PROVE  /\ \A place \in Places : Go(t, place) =>
              OnlyMoves(t) /\ th'[t].at = place /\ th'[t].why = th[t].why
         /\ Return(t) => OnlyMoves(t) /\ th'[t].at \in {"idle", "gone", "poll"}
         /\ UNCHANGED th => OnlyMoves(t) /\ NoNewRole(t)
<1>1. th \in [Threads -> Cells]
  BY DEF DriverTypeOK, Cells
<1>2. ASSUME NEW place \in Places, Go(t, place)
      PROVE  OnlyMoves(t) /\ th'[t].at = place /\ th'[t].why = th[t].why
  BY <1>1, <1>2 DEF Go, OnlyMoves, Cells
<1>3. ASSUME Return(t) PROVE OnlyMoves(t) /\ th'[t].at \in {"idle", "gone", "poll"}
  <2>1. Caller(t).at \in {"idle", "gone", "poll"}
    BY CellFacts DEF At
  <2>2. th'[t] = Caller(t) /\ OnlyMoves(t)
    BY <1>1, <1>3 DEF Return, OnlyMoves
  <2> QED BY <2>1, <2>2
<1>4. ASSUME UNCHANGED th PROVE OnlyMoves(t) /\ NoNewRole(t)
  BY <1>4 DEF OnlyMoves, NoNewRole, Seeking, Recovering, Searching, Early, Late, Misplaced
<1> QED BY <1>2, <1>3, <1>4

(* A step that leaves the threads, the client and the provider as they are  *)
(* and the centers with no more readers than they have.                     *)
LEMMA CalmCenters ==
  ASSUME DriverInv, DriverTypeOK', UNCHANGED <<th, messageCenter, listeners, withException,
           isUpgrading, exited, disturbed>>,
         \A c \in Centers : /\ center[c].stop => center'[c].stop
                            /\ center'[c].readers <= center[c].readers
                            /\ Reads(c)' => Reads(c)
  PROVE  DriverInv'
<1>1. Main \in Threads /\ OnlyMoves(Main) /\ NoNewRole(Main)
  BY ThreadNames, MoveFacts DEF DriverInv
<1> QED BY <1>1, Onward

(* One center has a reader less; the others are as they were.               *)
LEMMA LessRead ==
  ASSUME DriverInv, NEW c \in Centers,
         \/ center' = [center EXCEPT ![c].exc = TRUE, ![c].readers = @ - 1, ![c].late = FALSE]
         \/ center' = [center EXCEPT ![c].readers = @ - 1]
         \/ center' = [center EXCEPT ![c].late = FALSE]
         \/ center' = center
  PROVE  \A d \in Centers : /\ center[d].stop => center'[d].stop
                            /\ center'[d].readers <= center[d].readers
                            /\ Reads(d)' => Reads(d)
<1>1. center \in [Centers -> CenterCells]
  BY DEF DriverInv, DriverTypeOK, CenterCells
<1> SUFFICES ASSUME NEW d \in Centers
             PROVE  /\ center[d].stop => center'[d].stop
                    /\ center'[d].readers <= center[d].readers
                    /\ Reads(d)' => Reads(d)
  OBVIOUS
<1>2. center[d].readers \in Nat
  BY <1>1 DEF CenterCells
<1>3. /\ center'[d].stop = center[d].stop /\ center'[d].pause = center[d].pause
      /\ center[d].exc => center'[d].exc
      /\ center'[d].readers = center[d].readers \/ center'[d].readers = center[d].readers - 1
  BY <1>1 DEF CenterCells
<1> QED BY <1>2, <1>3 DEF Reads

LEMMA LinkAndCommands ==
  ASSUME DriverInv, DriverTypeOK',
         \/ FallSilent \/ AnswerAgain \/ StartDataLog \/ StopDataLog
         \/ \E c \in Centers : ReadRaises(c) \/ LateReadEnds(c) \/ ReaderEnds(c)
         \/ UNCHANGED vars
  PROVE  DriverInv'
<1>1. CASE FallSilent \/ AnswerAgain \/ UNCHANGED vars
  <2>1. UNCHANGED <<th, messageCenter, listeners, withException, isUpgrading, exited, disturbed>>
    BY <1>1 DEF FallSilent, AnswerAgain, vars, provider, history
  <2>2. center' = center
    BY <1>1 DEF FallSilent, AnswerAgain, vars
  <2>3. \A d \in Centers : /\ center[d].stop => center'[d].stop
                           /\ center'[d].readers <= center[d].readers
                           /\ Reads(d)' => Reads(d)
    BY <2>2, LessRead
  <2> QED BY <2>1, <2>3, CalmCenters
<1>2. CASE StartDataLog \/ StopDataLog
  <2>1. UNCHANGED <<th, messageCenter, listeners, withException, isUpgrading, exited, disturbed>>
    BY <1>2 DEF StartDataLog, StopDataLog, history
  <2>2. center' = center
    BY <1>2 DEF StartDataLog, StopDataLog
  <2>3. \A d \in Centers : /\ center[d].stop => center'[d].stop
                           /\ center'[d].readers <= center[d].readers
                           /\ Reads(d)' => Reads(d)
    BY <2>2, LessRead
  <2> QED BY <2>1, <2>3, CalmCenters
<1>3. ASSUME NEW c \in Centers, ReadRaises(c) \/ LateReadEnds(c) \/ ReaderEnds(c)
      PROVE  DriverInv'
  <2>1. UNCHANGED <<th, messageCenter, listeners, withException, isUpgrading, exited, disturbed>>
    BY <1>3 DEF ReadRaises, LateReadEnds, ReaderEnds, provider, history
  <2>2. \A d \in Centers : /\ center[d].stop => center'[d].stop
                           /\ center'[d].readers <= center[d].readers
                           /\ Reads(d)' => Reads(d)
    BY <1>3, LessRead DEF ReadRaises, LateReadEnds, ReaderEnds
  <2> QED BY <2>1, <2>2, CalmCenters
<1> QED BY <1>1, <1>2, <1>3

(* A step in which a thread moves and the centers stay as they are.         *)
LEMMA CalmThread ==
  ASSUME DriverInv, DriverTypeOK', NEW t \in Threads, OnlyMoves(t), NoNewRole(t),
         UNCHANGED <<center, messageCenter, listeners>>, withException => withException',
         isUpgrading => isUpgrading', exited => exited', disturbed => disturbed'
  PROVE  DriverInv'
<1>1. \A d \in Centers : /\ center[d].stop => center'[d].stop
                         /\ center'[d].readers <= center[d].readers
                         /\ Reads(d)' => Reads(d)
  BY LessRead
<1> QED BY <1>1, Onward

LEMMA FindSteps ==
  ASSUME DriverInv, DriverTypeOK', NEW t \in Threads,
         FindHit(t) \/ FindEnds(t) \/ FindMiss(t) \/ SetupDone(t) \/ UpgradeTold(t)
  PROVE  DriverInv'
<1> USE DEF OnlyMoves
<1>0. DriverTypeOK /\ th \in [Threads -> Cells]
  BY DEF DriverInv, DriverTypeOK, Cells
<1>1. CASE FindHit(t)
  <2>1. OnlyMoves(t) /\ NoNewRole(t)
    <3>1. CASE FoundOnLastTry(t)
      <4>1. OnlyMoves(t) /\ th'[t].at \in {"idle", "gone", "poll"}
        BY <1>0, <1>1, <3>1, MoveFacts DEF FindHit
      <4> QED BY <1>1, <3>1, <4>1
              DEF FindHit, FoundOnLastTry, NoNewRole, Seeking, Recovering, Searching, Early, Late, Misplaced
    <3>2. CASE ~FoundOnLastTry(t)
      <4>1. OnlyMoves(t) /\ th'[t].at = "found" /\ th'[t].why = th[t].why
        BY <1>0, <1>1, <3>2, MoveFacts DEF FindHit, Places
      <4> QED BY <1>1, <4>1 DEF FindHit, NoNewRole, Seeking, Recovering, Searching, Early, Late, Misplaced
    <3> QED BY <3>1, <3>2
  <2> QED BY <1>1, <2>1, CalmThread DEF FindHit, provider, history
<1>2. CASE FindEnds(t)
  <2>1. OnlyMoves(t) /\ NoNewRole(t)
    <3>1. CASE UNCHANGED th
      BY <1>0, <3>1, MoveFacts
    <3>2. CASE Go(t, "raised")
      <4>1. OnlyMoves(t) /\ th'[t].at = "raised"
        BY <1>0, <3>2, MoveFacts DEF Places
      <4> QED BY <1>2, <4>1 DEF FindEnds, NoNewRole, Seeking, Recovering, Searching, Early, Late, Misplaced
    <3> QED BY <1>2, <3>1, <3>2 DEF FindEnds
  <2> QED BY <1>2, <2>1, CalmThread DEF FindEnds, provider, history
<1>3. CASE FindMiss(t)
  <2>1. OnlyMoves(t) /\ th'[t].at = th[t].at /\ th'[t].why = th[t].why
    BY <1>0, <1>3 DEF FindMiss, Cells
  <2>2. NoNewRole(t)
    BY <2>1 DEF NoNewRole, Seeking, Recovering, Searching, Early, Late, Misplaced
  <2> QED BY <1>3, <2>1, <2>2, CalmThread DEF FindMiss, provider, history
<1>4. CASE SetupDone(t)
  <2>1. OnlyMoves(t) /\ th'[t].at = "listen" /\ th'[t].why = th[t].why
    BY <1>0, <1>4, MoveFacts DEF SetupDone, Places
  <2>2. NoNewRole(t)
    BY <1>4, <2>1 DEF SetupDone, NoNewRole, Seeking, Recovering, Searching, Early, Late, Misplaced
  <2> QED BY <1>4, <2>1, <2>2, CalmThread DEF SetupDone, provider, history
<1>5. CASE UpgradeTold(t)
  <2>1. OnlyMoves(t) /\ th'[t].at \in {"idle", "gone", "poll"}
    BY <1>0, <1>5, MoveFacts DEF UpgradeTold
  <2>2. NoNewRole(t)
    BY <1>5, <2>1 DEF UpgradeTold, NoNewRole, Seeking, Recovering, Searching, Early, Late, Misplaced
  <2> QED BY <1>5, <2>1, <2>2, CalmThread DEF UpgradeTold, provider
<1> QED BY <1>1, <1>2, <1>3, <1>4, <1>5

LEMMA OtherMoves ==
  ASSUME DriverInv, DriverTypeOK',
         \/ Ask \/ Answered
         \/ \E c \in Centers : CheckerEnds(c)
         \/ \E u \in Upgrades : UpgradeComplete(u)
  PROVE  DriverInv'
<1>0. DriverTypeOK /\ th \in [Threads -> Cells]
  BY DEF DriverInv, DriverTypeOK, Cells
<1>1. CASE Ask
  <2>1. OnlyMoves(Main) /\ th'[Main].at = "ask"
    BY <1>0, <1>1, MoveFacts, ThreadNames DEF Ask, Places
  <2>2. NoNewRole(Main)
    BY <1>1, <2>1 DEF Ask, Command, NoNewRole, Seeking, Recovering, Searching, Early, Late, Misplaced
  <2> QED BY <1>1, <2>1, <2>2, ThreadNames, CalmThread DEF Ask, provider, history
<1>2. CASE Answered
  <2>1. OnlyMoves(Main) /\ th'[Main].at = "idle"
    BY <1>0, <1>2, MoveFacts, ThreadNames DEF Answered, Places
  <2>2. NoNewRole(Main)
    BY <1>2, <2>1 DEF Answered, NoNewRole, Seeking, Recovering, Searching, Early, Late, Misplaced
  <2> QED BY <1>2, <2>1, <2>2, ThreadNames, CalmThread DEF Answered, provider, history
<1>3. ASSUME NEW c \in Centers, CheckerEnds(c) PROVE DriverInv'
  <2>1. OnlyMoves(Checker(c)) /\ th'[Checker(c)].at = "gone"
    BY <1>0, <1>3, MoveFacts, ThreadNames DEF CheckerEnds, Places
  <2>2. NoNewRole(Checker(c))
    BY <1>3, <2>1 DEF CheckerEnds, NoNewRole, Seeking, Recovering, Searching, Early, Late, Misplaced
  <2> QED BY <1>3, <2>1, <2>2, ThreadNames, CalmThread DEF CheckerEnds, provider, history
<1>4. ASSUME NEW u \in Upgrades, UpgradeComplete(u) PROVE DriverInv'
  <2> DEFINE t == Upgrade(u)
  <2>0. t \in Threads
    BY ThreadNames
  <2>1. OnlyMoves(t)
    BY <1>0, <1>4 DEF UpgradeComplete, OnlyMoves
  <2>2. th'[t] = IF isUpgrading /\ listeners > 0 THEN Search("restart") ELSE At("gone")
    BY <1>0, <1>4, <2>0 DEF UpgradeComplete
  <2>3. NoNewRole(t)
    <3>1. th[t].at = "write"
      BY <1>4 DEF UpgradeComplete
    <3>2. CASE listeners > 0
      <4>1. listeners # 0
        BY <3>2
      <4>2. \/ th'[t].at = "find" /\ th'[t].why = "restart"
            \/ th'[t].at = "gone"
        BY <2>2 DEF Search, At
      <4> HIDE DEF t
      <4> QED BY <3>1, <4>1, <4>2 DEF NoNewRole, Seeking, Recovering, Searching, Early, Late, Misplaced
    <3>3. CASE ~(listeners > 0)
      <4>1. th'[t].at = "gone"
        BY <2>2, <3>3 DEF At
      <4> HIDE DEF t
      <4> QED BY <3>1, <4>1 DEF NoNewRole, Seeking, Recovering, Searching, Early, Late, Misplaced
    <3> QED BY <3>2, <3>3
  <2> QED BY <1>4, <2>0, <2>1, <2>3, CalmThread DEF UpgradeComplete, provider, history
<1> QED BY <1>1, <1>2, <1>3, <1>4

-----------------------------------------------------------------------------
(* The steps that change who uses the link or who recovers the device.      *)

(* At most one upgrade is active, and only if is_upgrading says so.         *)
LEMMA NobodyActive ==
  ASSUME DriverInv, ~disturbed, ~exited, ~isUpgrading
  PROVE  /\ \A u \in Upgrades : ~Active(u)
         /\ \A t \in Threads : th[t].at # "write" /\ ~Seeking(t)
<1>1. \A u \in Upgrades : ~Active(u)
  BY DEF DriverInv, OneUpgrade
<1> QED BY <1>1 DEF DriverInv, Roles, Active

(* What resuming and stopping leave of a center.                            *)
LEMMA ResumedFacts ==
  ASSUME DriverInv, NEW m \in Centers
  PROVE  \A c \in Centers :
           /\ Resumed(center, m)[c].readers = center[c].readers
           /\ Resumed(center, m)[c].stop = center[c].stop
           /\ Stopped(Resumed(center, m), m)[c].readers = center[c].readers
           /\ center[c].stop => Stopped(Resumed(center, m), m)[c].stop
           /\ Stopped(Resumed(center, m), m)[m].stop
<1>1. center \in [Centers -> CenterCells]
  BY DEF DriverInv, DriverTypeOK, CenterCells
<1>2. Resumed(center, m) \in [Centers -> CenterCells]
  BY <1>1, CenterFacts
<1>3. \A c \in Centers : /\ Resumed(center, m)[c].readers = center[c].readers
                         /\ Resumed(center, m)[c].stop = center[c].stop
  BY <1>1 DEF Resumed, CenterCells
<1>4. \A cs \in [Centers -> CenterCells] : \A c \in Centers :
        /\ Stopped(cs, m)[c].readers = cs[c].readers
        /\ cs[c].stop => Stopped(cs, m)[c].stop
        /\ Stopped(cs, m)[m].stop
  BY DEF Stopped, CenterCells
<1> QED BY <1>2, <1>3, <1>4

LEMMA StartOfUpgrade ==
  ASSUME DriverInv, DriverTypeOK', NEW u \in Upgrades, UpgradeFramework(u)
  PROVE  DriverInv'
<1> DEFINE t == Upgrade(u)
<1>0. t \in Threads /\ th \in [Threads -> Cells] /\ center \in [Centers -> CenterCells]
  BY ThreadNames DEF DriverInv, DriverTypeOK, Cells, CenterCells
<1>1. CASE messageCenter = None
  <2>1. Main \in Threads /\ OnlyMoves(Main) /\ NoNewRole(Main)
    BY <1>1, ThreadNames, MoveFacts DEF UpgradeFramework, DriverInv
  <2> QED BY <1>1, <2>1, CalmThread DEF UpgradeFramework, history
<1>2. CASE messageCenter # None
  <2>0. messageCenter \in Centers
    BY <1>2 DEF DriverInv, DriverTypeOK
  <2>1. th[t].at = "no" /\ th'[t] = At("write") /\ OnlyMoves(t)
    BY <1>0, <1>2 DEF UpgradeFramework, OnlyMoves
  <2>2. th'[t].at = "write" /\ th'[t].why = "no"
    BY <2>1 DEF At
  <2>3. \A c \in Centers : center'[c].stop = center[c].stop /\ center'[c].readers = center[c].readers
    BY <1>0, <1>2 DEF UpgradeFramework, Paused, CenterCells
  <2>4. center'[messageCenter].pause
    BY <1>0, <1>2, <2>0 DEF UpgradeFramework, Paused, CenterCells
  <2>5. ~exited /\ ~isUpgrading /\ isUpgrading' /\ UNCHANGED <<exited, disturbed, messageCenter, listeners, withException>>
    BY DEF UpgradeFramework, Command, history
  <2>6. Roles'
    <3>1. \A s \in Threads : s # t => th'[s] = th[s]
      BY <2>1 DEF OnlyMoves
    <3>2. ~Misplaced(t)' /\ ~Seeking(t)'
      BY <2>2 DEF Misplaced, Seeking
    <3>3. \A s \in Threads : s # t => /\ Misplaced(s)' <=> Misplaced(s)
                                      /\ Seeking(s)' <=> Seeking(s)
      BY <3>1 DEF Misplaced, Seeking
    <3> HIDE DEF t
    <3>4. \A s \in Threads : ~Misplaced(s)'
      BY <3>2, <3>3 DEF DriverInv, Roles
    <3>5. \A s \in Threads : th'[s].at = "write" \/ Seeking(s)' => \E v \in Upgrades : s = Upgrade(v)
      <4>1. \A s \in Threads : s # t /\ (th'[s].at = "write" \/ Seeking(s)') => \E v \in Upgrades : s = Upgrade(v)
        BY <3>1, <3>3 DEF DriverInv, Roles
      <4>2. \E v \in Upgrades : t = Upgrade(v)
        BY DEF t
      <4> QED BY <4>1, <4>2
    <3> QED BY <2>3, <2>5, <3>4, <3>5 DEF DriverInv, Roles
  <2>7. ASSUME ~disturbed' PROVE OneUpgrade' /\ OneRecovery'
    <3>1. /\ OneUpgrade /\ OneRecovery /\ \A v \in Upgrades : ~Active(v)
          /\ \A s \in Threads : ~Seeking(s)
      BY <2>5, <2>7, NobodyActive DEF DriverInv
    <3>2. \A v \in Upgrades : Active(v)' => v = u
      <4>1. \A v \in Upgrades : v # u => th'[Upgrade(v)] = th[Upgrade(v)]
        BY <2>1, ThreadNames DEF OnlyMoves
      <4> QED BY <3>1, <4>1 DEF Active, Seeking
    <3>3. \A c \in Centers : c = messageCenter' => ~Reads(c)'
      BY <2>4, <2>5 DEF Reads
    <3>4. OneUpgrade'
      BY <2>5, <3>2, <3>3 DEF OneUpgrade
    <3>5. \A s \in Threads : /\ Recovering(s)' => Recovering(s)
                             /\ Recovering(s) => Recovering(s)'
                             /\ ~Seeking(s)' /\ (Early(s)' => Early(s)) /\ (Late(s)' => Late(s))
                             /\ th[s].at = "raised" => th'[s].at = "raised"
      <4> HIDE DEF t
      <4> QED BY <2>1, <2>2, <3>1
              DEF OnlyMoves, Recovering, Searching, Seeking, Early, Late
    <3>6. \A s \in Threads : ~Late(s)
      BY <1>2, <3>1 DEF OneRecovery
    <3>7. listeners' = 1 \/ Raised' \/ \E s \in Threads : Recovering(s)'
      BY <2>5, <3>1, <3>5 DEF OneRecovery, Raised
    <3>8. OneRecovery'
      BY <2>3, <2>5, <3>1, <3>5, <3>6, <3>7 DEF OneRecovery
    <3> QED BY <3>4, <3>8
  <2> QED BY <2>6, <2>7 DEF DriverInv
<1> QED BY <1>1, <1>2

LEMMA EndOfUpgrade ==
  ASSUME DriverInv, DriverTypeOK', NEW u \in Upgrades, UpgradeError(u)
  PROVE  DriverInv'
<1> DEFINE t == Upgrade(u)
<1>0. t \in Threads /\ DriverTypeOK
  BY ThreadNames DEF DriverInv
<1>1. CASE messageCenter = None
  <2>1. OnlyMoves(t) /\ th'[t].at = "raised" /\ th[t].at = "write"
    BY <1>0, <1>1, MoveFacts DEF UpgradeError, Places
  <2>2. NoNewRole(t)
    <3> HIDE DEF t
    <3> QED BY <2>1 DEF NoNewRole, Seeking, Recovering, Searching, Early, Late, Misplaced
  <2>3. ASSUME NEW v \in Upgrades, ~exited', ~disturbed', Active(v)' PROVE FALSE
    <3>1. OneUpgrade /\ ~exited /\ Active(u)
      BY <1>1, <2>1, <2>3 DEF UpgradeError, DriverInv, Active
    <3>2. v # u
      BY <2>1, <2>3 DEF Active, Seeking
    <3>3. Active(v)
      BY <2>1, <2>3, <3>2, ThreadNames DEF Active, Seeking, OnlyMoves
    <3> QED BY <3>1, <3>2, <3>3 DEF OneUpgrade
  <2>4. \A d \in Centers : center[d].stop => center'[d].stop
    BY <1>1 DEF UpgradeError
  <2>5. \A d \in Centers : center'[d].readers <= center[d].readers
    BY <1>1, LessRead DEF UpgradeError
  <2> HIDE DEF t
  <2> QED BY <1>0, <1>1, <2>1, <2>2, <2>3, <2>4, <2>5, Onward DEF UpgradeError
<1>2. CASE messageCenter # None
  <2>0. messageCenter \in Centers
    BY <1>2 DEF DriverInv, DriverTypeOK
  <2>1. OnlyMoves(t) /\ NoNewRole(t)
    BY <1>0, <1>2, MoveFacts DEF UpgradeError
  <2>2. \A d \in Centers : center[d].stop => center'[d].stop
    BY <1>2, <2>0, ResumedFacts DEF UpgradeError
  <2>3. \A d \in Centers : center'[d].readers <= center[d].readers
    <3>1. \A d \in Centers : center[d].readers \in Nat
      BY DEF DriverInv, DriverTypeOK
    <3> QED BY <1>2, <2>0, <3>1, ResumedFacts DEF UpgradeError
  <2> HIDE DEF t
  <2> QED BY <1>0, <1>2, <2>1, <2>2, <2>3, Onward DEF UpgradeError
<1> QED BY <1>1, <1>2

LEMMA SetUpAgain ==
  ASSUME DriverInv, DriverTypeOK', NEW t \in Threads, UpgradeCompleted(t)
  PROVE  DriverInv'
<1>0. DriverTypeOK
  BY DEF DriverInv
<1>1. OnlyMoves(t) /\ th'[t].at \in {"raised", "setup"} /\ th'[t].why = "restart"
  <2>1. CASE messageCenter = None
    BY <1>0, <2>1, MoveFacts DEF UpgradeCompleted, Places
  <2>2. CASE messageCenter # None
    BY <1>0, <2>2, MoveFacts DEF UpgradeCompleted, Places
  <2> QED BY <2>1, <2>2
<1>2. th[t].at = "found" /\ th[t].why = "restart"
  BY DEF UpgradeCompleted
<1>3. NoNewRole(t)
  BY <1>1, <1>2 DEF NoNewRole, Seeking, Recovering, Searching, Early, Late, Misplaced
<1>4. ASSUME NEW v \in Upgrades, ~exited', ~disturbed', Active(v)' PROVE FALSE
  <2>1. OneUpgrade /\ ~exited
    BY <1>4 DEF UpgradeCompleted, DriverInv
  <2>2. PICK w \in Upgrades : t = Upgrade(w)
    BY <1>2 DEF DriverInv, Roles, Seeking
  <2>3. Active(w) /\ ~Active(w)'
    BY <1>1, <1>2, <2>2 DEF Active, Seeking
  <2>4. v # w
    BY <1>4, <2>3
  <2>5. Active(v)
    BY <1>1, <1>4, <2>2, <2>4, ThreadNames DEF Active, Seeking, OnlyMoves
  <2> QED BY <2>1, <2>3, <2>4, <2>5 DEF OneUpgrade
<1>5. /\ \A d \in Centers : center[d].stop => center'[d].stop
      /\ \A d \in Centers : center'[d].readers <= center[d].readers
  <2>0. \A d \in Centers : center[d].readers \in Nat
    BY DEF DriverInv, DriverTypeOK
  <2>1. CASE messageCenter = None
    BY <2>0, <2>1 DEF UpgradeCompleted
  <2>2. CASE messageCenter # None
    <3>1. messageCenter \in Centers
      BY <2>2 DEF DriverInv, DriverTypeOK
    <3> QED BY <2>0, <2>2, <3>1, ResumedFacts DEF UpgradeCompleted
  <2> QED BY <2>1, <2>2
<1> QED BY <1>1, <1>3, <1>4, <1>5, Onward DEF UpgradeCompleted

(* The provider is closed: no center is left, and none reads.               *)
LEMMA Closed ==
  ASSUME DriverInv, CloseProvider, messageCenter # None
  PROVE  /\ messageCenter' = None /\ listeners' = 0 /\ ~isUpgrading'
         /\ \A c \in Centers : center'[c].stop \/ center'[c].readers = 0
         /\ \A c \in Centers : center'[c].readers = center[c].readers
<1>1. messageCenter \in Centers
  BY DEF DriverInv, DriverTypeOK
<1>2. center' = Stopped(Resumed(center, messageCenter), messageCenter)
  BY DEF CloseProvider
<1>3. \A c \in Centers : center'[c].stop \/ center'[c].readers = 0
  BY <1>1, <1>2, ResumedFacts DEF DriverInv, Roles
<1> QED BY <1>1, <1>2, <1>3, ResumedFacts DEF CloseProvider, ResetFlags

(* The search after an upgrade has no end: the device is lost.              *)
LEMMA LostAfterUpgrade ==
  ASSUME DriverInv, DriverTypeOK', NEW t \in Threads, NotFound(t)
  PROVE  DriverInv'
<1>0. DriverTypeOK /\ th \in [Threads -> Cells]
  BY DEF DriverInv, DriverTypeOK, Cells
<1>1. th[t].at = "find" /\ th[t].why = "restart" /\ ~exited /\ UNCHANGED <<exited, disturbed, withException>>
  BY DEF NotFound, provider
<1>2. CASE messageCenter = None
  <2>1. OnlyMoves(t) /\ th'[t].at = "raised"
    BY <1>0, <1>2, MoveFacts DEF NotFound, Places
  <2>2. NoNewRole(t)
    BY <1>1, <2>1 DEF NoNewRole, Seeking, Recovering, Searching, Early, Late, Misplaced
  <2> QED BY <1>1, <1>2, <2>1, <2>2, CalmThread DEF NotFound, provider
<1>3. CASE messageCenter # None
  <2>1. /\ messageCenter' = None /\ listeners' = 0 /\ ~isUpgrading'
        /\ \A c \in Centers : center'[c].stop \/ center'[c].readers = 0
        /\ \A c \in Centers : center'[c].readers = center[c].readers
    BY <1>3, Closed DEF NotFound
  <2>2. OnlyMoves(t) /\ th'[t] = Search("lost")
    BY <1>0, <1>3 DEF NotFound, OnlyMoves
  <2>3. th'[t].at = "find" /\ th'[t].why = "lost"
    BY <2>2 DEF Search
  <2>4. \A s \in Threads : s # t => th'[s] = th[s]
    BY <2>2 DEF OnlyMoves
  <2>5. Roles'
    <3>1. \A s \in Threads : /\ Misplaced(s)' => Misplaced(s)
                             /\ th'[s].at = "write" \/ Seeking(s)' => th[s].at = "write" \/ Seeking(s)
      BY <1>1, <2>3, <2>4 DEF Misplaced, Seeking
    <3> QED BY <2>1, <3>1 DEF DriverInv, Roles
  <2>6. ASSUME ~disturbed' PROVE OneUpgrade' /\ OneRecovery'
    <3>1. OneUpgrade /\ OneRecovery
      BY <1>1, <2>6 DEF DriverInv
    <3>2. PICK w \in Upgrades : t = Upgrade(w)
      BY <1>1 DEF DriverInv, Roles, Seeking
    <3>3. Active(w) /\ Seeking(t)
      BY <1>1, <3>2 DEF Active, Seeking
    <3>4. \A v \in Upgrades : ~Active(v)'
      <4>1. ~Active(w)'
        BY <2>3, <3>2 DEF Active, Seeking
      <4>2. \A v \in Upgrades : v # w => (Active(v)' => Active(v))
        BY <2>4, <3>2, ThreadNames DEF Active, Seeking
      <4> QED BY <1>1, <3>1, <3>3, <4>1, <4>2 DEF OneUpgrade
    <3>5. OneUpgrade'
      BY <3>4 DEF OneUpgrade, Active
    <3>6. \A s \in Threads : Recovering(s)' => s = t
      <4>1. \A s \in Threads : ~Recovering(s)
        BY <3>1, <3>3 DEF OneRecovery
      <4> QED BY <2>4, <4>1 DEF Recovering, Searching
    <3>7. Recovering(t)'
      BY <2>3 DEF Recovering, Searching
    <3>8. \A s \in Threads : ~Seeking(s)'
      <4>1. \A s \in Threads : Seeking(s)' => \E v \in Upgrades : s = Upgrade(v) /\ Active(v)'
        BY <2>5 DEF Roles, Active
      <4> QED BY <3>4, <4>1
    <3>9. \A s \in Threads : ~Early(s)'
      BY <2>3, <3>6 DEF Early, Recovering, Searching
    <3> QED BY <2>1, <3>1, <3>4, <3>5, <3>6, <3>7, <3>8, <3>9 DEF OneRecovery
  <2> QED BY <2>5, <2>6 DEF DriverInv
<1> QED BY <1>2, <1>3

(* The device of the search is there.                                       *)
LEMMA Discovered ==
  ASSUME DriverInv, DriverTypeOK', NEW t \in Threads, Discover(t)
  PROVE  DriverInv'
<1>0. DriverTypeOK /\ th \in [Threads -> Cells]
  BY DEF DriverInv, DriverTypeOK, Cells
<1>1. /\ th[t].at = "found" /\ th[t].why # "restart" /\ ~exited /\ UNCHANGED exited
      /\ OnlyMoves(t) /\ th'[t].at \in {"load", "raised"} /\ th'[t].why = th[t].why
  <2>1. Go(t, "load") \/ Go(t, "raised")
    BY DEF Discover
  <2> QED BY <1>0, <2>1, MoveFacts DEF Discover, Places
<1>2. \A s \in Threads : s # t => th'[s] = th[s]
  BY <1>1 DEF OnlyMoves
<1>3. CASE ~withException
  <2>1. th'[t].at = "load"
    BY <1>0, <1>3, MoveFacts DEF Discover, Places
  <2>2. UNCHANGED <<provider, center, disturbed>>
    BY <1>3 DEF Discover
  <2>3. CASE disturbed
    <3>1. Roles'
      <4>1. \A s \in Threads : /\ Misplaced(s)' => Misplaced(s)
                               /\ th'[s].at = "write" \/ Seeking(s)' => th[s].at = "write" \/ Seeking(s)
        BY <1>1, <1>2, <2>1 DEF Misplaced, Seeking
      <4> QED BY <2>2, <4>1 DEF DriverInv, Roles, provider
    <3> QED BY <2>2, <2>3, <3>1 DEF DriverInv
  <2>4. CASE ~disturbed
    <3>1. ~Early(t)
      BY <1>3, <2>4 DEF DriverInv, OneRecovery
    <3>2. NoNewRole(t)
      BY <1>1, <2>1, <3>1 DEF NoNewRole, Seeking, Recovering, Searching, Early, Late, Misplaced
    <3> QED BY <1>1, <2>2, <3>2, CalmThread DEF provider
  <2> QED BY <2>3, <2>4 DEF DriverInv, DriverTypeOK
<1>4. CASE withException /\ messageCenter = None
  <2>1. th'[t].at = "raised" /\ UNCHANGED <<provider, center, disturbed>>
    BY <1>0, <1>4, MoveFacts DEF Discover, Places
  <2>2. NoNewRole(t)
    BY <1>1, <2>1 DEF NoNewRole, Seeking, Recovering, Searching, Early, Late, Misplaced
  <2> QED BY <1>1, <2>1, <2>2, CalmThread DEF provider
<1>5. CASE withException /\ messageCenter # None
  <2>1. /\ messageCenter' = None /\ listeners' = 0 /\ ~isUpgrading'
        /\ \A c \in Centers : center'[c].stop \/ center'[c].readers = 0
        /\ \A c \in Centers : center'[c].readers = center[c].readers
    BY <1>5, Closed DEF Discover
  <2>2. th'[t].at = "load" /\ disturbed' = (disturbed \/ isUpgrading)
    BY <1>0, <1>5, MoveFacts DEF Discover, Places
  <2>3. Roles'
    <3>1. \A s \in Threads : /\ Misplaced(s)' => Misplaced(s)
                             /\ th'[s].at = "write" \/ Seeking(s)' => th[s].at = "write" \/ Seeking(s)
      BY <1>1, <1>2, <2>2 DEF Misplaced, Seeking
    <3> QED BY <2>1, <3>1 DEF DriverInv, Roles
  <2>4. ASSUME ~disturbed' PROVE OneUpgrade' /\ OneRecovery'
    <3>1. ~disturbed /\ ~isUpgrading
      BY <2>2, <2>4
    <3>2. /\ OneRecovery /\ \A u \in Upgrades : ~Active(u)
          /\ \A s \in Threads : th[s].at # "write" /\ ~Seeking(s)
      BY <1>1, <3>1, NobodyActive DEF DriverInv
    <3>3. \A s \in Threads : th'[s].at # "write" /\ ~Seeking(s)'
      BY <1>2, <2>2, <3>2 DEF Seeking
    <3>4. \A u \in Upgrades : ~Active(u)'
      BY <3>3, ThreadNames DEF Active
    <3>5. OneUpgrade'
      BY <3>4 DEF OneUpgrade, Active
    <3>6. Recovering(t) /\ Recovering(t)'
      BY <1>1, <2>2 DEF Recovering, Searching
    <3>7. \A s \in Threads : Recovering(s)' => s = t
      <4>1. \A s \in Threads : Recovering(s) => s = t
        BY <3>2, <3>6 DEF OneRecovery
      <4> QED BY <1>2, <4>1 DEF Recovering, Searching
    <3>8. \A s \in Threads : ~Early(s)'
      BY <2>2, <3>7 DEF Early, Recovering, Searching
    <3> QED BY <2>1, <3>2, <3>3, <3>4, <3>5, <3>6, <3>7, <3>8 DEF OneRecovery
  <2> QED BY <2>3, <2>4 DEF DriverInv
<1> QED BY <1>3, <1>4, <1>5

(* A center is made, or, after a recovery that met an upgrade, the one that *)
(* is there gets another reader.                                            *)
LEMMA Loaded ==
  ASSUME DriverInv, DriverTypeOK', NEW t \in Threads, Load(t)
  PROVE  DriverInv'
<1>0. /\ DriverTypeOK /\ th \in [Threads -> Cells] /\ center \in [Centers -> CenterCells]
      /\ th[t].at = "load" /\ th[t].why # "restart" /\ ~exited
      /\ UNCHANGED <<withException, listeners, isUpgrading, disturbed, exited>>
  BY DEF DriverInv, DriverTypeOK, Cells, CenterCells, Roles, Misplaced, Load
<1>1. CASE messageCenter # None
  <2>1. OnlyMoves(t) /\ th'[t].at = "setup" /\ th'[t].why = th[t].why
    BY <1>0, <1>1, MoveFacts DEF Load, SetupCenter, Places
  <2>2. messageCenter' = messageCenter /\ center' = [center EXCEPT ![messageCenter].readers = @ + 1]
    BY <1>1 DEF Load, SetupCenter
  <2>3. \A c \in Centers : center'[c].stop = center[c].stop
    BY <1>0, <2>2 DEF CenterCells
  <2>4. \A c \in Centers : c # messageCenter => center'[c].readers = center[c].readers
    BY <1>0, <2>2 DEF CenterCells
  <2>5. Roles'
    <3>1. \A s \in Threads : s # t => th'[s] = th[s]
      BY <2>1 DEF OnlyMoves
    <3>2. \A s \in Threads : /\ Misplaced(s)' => Misplaced(s)
                             /\ th'[s].at = "write" \/ Seeking(s)' => th[s].at = "write" \/ Seeking(s)
      BY <2>1, <3>1 DEF Misplaced, Seeking
    <3> QED BY <2>2, <2>3, <2>4, <3>2 DEF DriverInv, Roles
  <2>6. disturbed
    BY <1>0, <1>1 DEF DriverInv, OneRecovery, Late
  <2> QED BY <1>0, <2>5, <2>6 DEF DriverInv
<1>2. CASE messageCenter = None
  <2> DEFINE d == CHOOSE c \in Unused : TRUE
  <2>1. d \in Centers /\ th[Checker(d)].at = "no"
    BY <1>2 DEF Load, SetupCenter, Unused
  <2>2. /\ messageCenter' = d /\ center' = [center EXCEPT ![d].readers = 1]
        /\ th' = [th EXCEPT ![t].at = "setup", ![Checker(d)] = At("poll")]
    BY <1>2 DEF Load, SetupCenter
  <2> HIDE DEF d
  <2>3. Checker(d) \in Threads /\ Checker(d) # t
    BY <1>0, <2>1, ThreadNames
  <2>4. /\ th'[t].at = "setup" /\ th'[t].why = th[t].why
        /\ th'[Checker(d)].at = "poll"
        /\ \A s \in Threads : s # t /\ s # Checker(d) => th'[s] = th[s]
    BY <1>0, <2>2, <2>3 DEF Cells, At
  <2>5. /\ \A c \in Centers : center'[c].stop = center[c].stop
        /\ \A c \in Centers : c # d => center'[c].readers = center[c].readers
        /\ center'[d].readers = 1
    BY <1>0, <2>1, <2>2 DEF CenterCells
  <2>6. Roles'
    <3>1. \A s \in Threads : /\ Misplaced(s)' => Misplaced(s)
                             /\ th'[s].at = "write" \/ Seeking(s)' => th[s].at = "write" \/ Seeking(s)
      BY <2>4 DEF Misplaced, Seeking
    <3>2. \A c \in Centers : c # messageCenter
      BY <1>2 DEF None, Centers
    <3> QED BY <2>2, <2>5, <3>1, <3>2 DEF DriverInv, Roles
  <2>7. ASSUME ~disturbed' PROVE OneUpgrade' /\ OneRecovery'
    <3>1. OneUpgrade /\ OneRecovery /\ Late(t) /\ Recovering(t)
      BY <1>0, <2>7 DEF DriverInv, Late, Recovering, Searching
    <3>2. \A u \in Upgrades : ~Active(u)
      BY <3>1 DEF OneRecovery
    <3>3. \A s \in Threads : th[s].at # "write" /\ ~Seeking(s)
      BY <3>2 DEF DriverInv, Roles, Active
    <3>4. \A s \in Threads : th'[s].at # "write" /\ ~Seeking(s)'
      BY <2>4, <3>3 DEF Seeking
    <3>5. \A u \in Upgrades : ~Active(u)'
      BY <3>4, ThreadNames DEF Active
    <3>6. OneUpgrade'
      BY <3>5 DEF OneUpgrade, Active
    <3>7. \A s \in Threads : Recovering(s)' => s = t
      <4>1. \A s \in Threads : Recovering(s) => s = t
        BY <3>1 DEF OneRecovery
      <4> QED BY <2>4, <4>1 DEF Recovering, Searching
    <3>8. Recovering(t)' /\ listeners' = 0
      BY <1>0, <2>4, <3>1 DEF Recovering, Searching, OneRecovery
    <3>9. \A s \in Threads : ~Early(s)' /\ ~Late(s)'
      BY <1>0, <2>4, <3>7 DEF Early, Late, Recovering, Searching
    <3>10. \A c \in Centers : center'[c].readers <= 1
      BY <2>5, <3>1 DEF OneRecovery
    <3> QED BY <3>4, <3>6, <3>7, <3>8, <3>9, <3>10 DEF OneRecovery
  <2> QED BY <2>6, <2>7 DEF DriverInv
<1> QED BY <1>1, <1>2

(* The recovery ends: the driver listens.                                   *)
LEMMA Listening ==
  ASSUME DriverInv, DriverTypeOK', NEW t \in Threads, Listen(t)
  PROVE  DriverInv'
<1>0. /\ DriverTypeOK /\ th[t].at = "listen" /\ th[t].why # "restart" /\ ~exited
      /\ UNCHANGED <<withException, messageCenter, center, isUpgrading, disturbed, exited>>
      /\ listeners' = listeners + 1
  BY DEF DriverInv, Roles, Misplaced, Listen, history
<1>1. OnlyMoves(t) /\ th'[t].at \in {"idle", "gone", "poll"}
  BY <1>0, MoveFacts DEF Listen
<1>2. \A s \in Threads : s # t => th'[s] = th[s]
  BY <1>1 DEF OnlyMoves
<1>3. \A s \in Threads : /\ Misplaced(s)' => Misplaced(s)
                         /\ th'[s].at = "write" => th[s].at = "write"
                         /\ Seeking(s)' => Seeking(s)
  BY <1>1, <1>2 DEF Misplaced, Seeking
<1>4. Roles'
  BY <1>0, <1>3 DEF DriverInv, Roles
<1>5. ASSUME ~disturbed' PROVE OneUpgrade' /\ OneRecovery'
  <2>1. OneUpgrade /\ OneRecovery /\ Recovering(t)
    BY <1>0, <1>5 DEF DriverInv, Recovering, Searching
  <2>2. \A u \in Upgrades : /\ Active(u)' => Active(u)
                            /\ th'[Upgrade(u)].at = "write" => th[Upgrade(u)].at = "write"
    BY <1>3, ThreadNames DEF Active
  <2>3. \A c \in Centers : Reads(c)' <=> Reads(c)
    BY <1>0 DEF Reads
  <2>4. OneUpgrade'
    BY <1>0, <2>1, <2>2, <2>3 DEF OneUpgrade
  <2>5. \A s \in Threads : ~Recovering(s)'
    <3>1. \A s \in Threads : Recovering(s) => s = t
      BY <2>1 DEF OneRecovery
    <3> QED BY <1>1, <1>2, <3>1 DEF Recovering, Searching
  <2>6. \A s \in Threads : ~Early(s)' /\ ~Late(s)'
    BY <2>5 DEF Early, Late, Recovering, Searching
  <2>7. listeners' = 1
    BY <1>0, <2>1 DEF OneRecovery
  <2>8. \A c \in Centers : center'[c].readers <= 1
    BY <1>0, <2>1 DEF OneRecovery
  <2> QED BY <2>4, <2>5, <2>6, <2>7, <2>8 DEF OneRecovery
<1> QED BY <1>4, <1>5 DEF DriverInv

(* A recovery begins: the driver no longer listens, so that nobody else     *)
(* begins one.                                                              *)
LEMMA Heard ==
  ASSUME DriverInv, DriverTypeOK', NEW c \in Centers, HearException(c)
  PROVE  DriverInv'
<1> DEFINE t == Checker(c)
<1>0. /\ DriverTypeOK /\ th \in [Threads -> Cells] /\ t \in Threads
      /\ th[t].at = "poll" /\ listeners > 0 /\ ~exited /\ withException'
      /\ UNCHANGED <<messageCenter, exited>> /\ disturbed' = (disturbed \/ isUpgrading)
  BY ThreadNames DEF DriverInv, DriverTypeOK, Cells, HearException
<1>1. CASE ~(present /\ messageCenter # None)
  <2>1. OnlyMoves(t) /\ th'[t].at = "raised"
    BY <1>0, <1>1, MoveFacts DEF HearException, Places
  <2>2. UNCHANGED <<center, listeners, isUpgrading>>
    BY <1>1 DEF HearException
  <2> HIDE DEF t
  <2>3. NoNewRole(t)
    BY <1>0, <2>1 DEF NoNewRole, Seeking, Recovering, Searching, Early, Late, Misplaced
  <2> QED BY <1>0, <2>1, <2>2, <2>3, CalmThread
<1>2. CASE present /\ messageCenter # None
  <2>0. messageCenter \in Centers
    BY <1>2 DEF DriverInv, DriverTypeOK
  <2>1. /\ th' = [th EXCEPT ![t] = Search("exception")] /\ listeners' = 0
        /\ center' = Resumed(center, messageCenter)
    BY <1>2 DEF HearException, ResetFlags
  <2>2. \A d \in Centers : center'[d].stop = center[d].stop /\ center'[d].readers = center[d].readers
    BY <2>0, <2>1, ResumedFacts
  <2> HIDE DEF t
  <2>3. th'[t].at = "find" /\ th'[t].why = "exception" /\ \A s \in Threads : s # t => th'[s] = th[s]
    BY <1>0, <2>1 DEF Search
  <2>4. \A s \in Threads : /\ Misplaced(s)' => Misplaced(s)
                           /\ th'[s].at = "write" => th[s].at = "write"
                           /\ Seeking(s)' => Seeking(s)
    BY <2>3 DEF Misplaced, Seeking
  <2>5. Roles'
    BY <1>0, <2>2, <2>4 DEF DriverInv, Roles
  <2>6. ASSUME ~disturbed' PROVE OneUpgrade' /\ OneRecovery'
    <3>1. ~disturbed /\ ~isUpgrading
      BY <1>0, <2>6
    <3>2. /\ OneRecovery /\ \A u \in Upgrades : ~Active(u)
          /\ \A s \in Threads : th[s].at # "write" /\ ~Seeking(s)
      BY <1>0, <3>1, NobodyActive DEF DriverInv
    <3>3. \A s \in Threads : th'[s].at # "write" /\ ~Seeking(s)'
      BY <2>4, <3>2
    <3>4. \A u \in Upgrades : ~Active(u)'
      BY <3>3, ThreadNames DEF Active
    <3>5. OneUpgrade'
      BY <3>4 DEF OneUpgrade, Active
    <3>6. \A s \in Threads : Recovering(s)' => s = t
      <4>1. \A s \in Threads : ~Recovering(s)
        BY <1>0, <3>2 DEF OneRecovery
      <4> QED BY <2>3, <4>1 DEF Recovering, Searching
    <3>7. Recovering(t)'
      BY <2>3 DEF Recovering, Searching
    <3>8. \A s \in Threads : ~Late(s)'
      BY <2>3, <3>6 DEF Late, Recovering, Searching
    <3>9. \A d \in Centers : center'[d].readers <= 1
      BY <2>2, <3>2 DEF OneRecovery
    <3> QED BY <1>0, <2>1, <3>3, <3>5, <3>6, <3>7, <3>8, <3>9 DEF OneRecovery
  <2> QED BY <2>5, <2>6 DEF DriverInv
<1> QED BY <1>1, <1>2

-----------------------------------------------------------------------------
LEMMA DriverStep == DriverInv /\ [Next]_vars => DriverInv'
<1> SUFFICES ASSUME DriverInv, [Next]_vars PROVE DriverInv'
  OBVIOUS
<1>0. DriverTypeOK'
  BY TypeStep DEF DriverInv
<1>1. CASE LinkStep \/ UNCHANGED vars
  BY <1>0, <1>1, LinkAndCommands DEF LinkStep
<1>2. ASSUME NEW t \in Threads, FindStep(t) PROVE DriverInv'
  BY <1>0, <1>2, FindSteps, LostAfterUpgrade, Discovered, Loaded, Listening, SetUpAgain DEF FindStep
<1>3. ASSUME NEW c \in Centers, CenterStep(c) PROVE DriverInv'
  BY <1>0, <1>3, LinkAndCommands, OtherMoves, Heard DEF CenterStep
<1>4. ASSUME NEW u \in Upgrades, UpgradeStep(u) PROVE DriverInv'
  BY <1>0, <1>4, OtherMoves, EndOfUpgrade DEF UpgradeStep
<1>5. CASE CommandStep \/ Answered
  BY <1>0, <1>5, OtherMoves, LinkAndCommands, StartOfUpgrade DEF CommandStep
<1> QED BY <1>1, <1>2, <1>3, <1>4, <1>5 DEF Next

LEMMA AlwaysDriverInv == Spec => []DriverInv
<1> QED BY Starts, DriverStep, PTL DEF Spec

(* At rest, the driver listens to the provider it has, once.                *)
THEOREM ListensOnce == Spec => []DriverListens
<1>1. DriverInv => DriverListens
  <2> SUFFICES ASSUME DriverInv, ~disturbed
               PROVE  /\ listeners <= 1
                      /\ present /\ ~Raised /\ (\A t \in Threads : ~Searching(t)) => listeners = 1
    BY DEF DriverListens
  <2> QED BY DEF DriverInv, OneRecovery, Recovering
<1> QED BY <1>1, AlwaysDriverInv, PTL

(* A set with at most one element counts at most one.                       *)
LEMMA AtMostOneCounts ==
  ASSUME NEW S, \A x, y \in S : x = y
  PROVE  /\ Cardinality(S) = 0 \/ Cardinality(S) = 1
         /\ S = {} => Cardinality(S) = 0
<1>1. CASE S = {}
  BY <1>1, FS_EmptySet
<1>2. CASE S # {}
  <2>1. PICK x \in S : S = {x}
    BY <1>2
  <2> QED BY <1>2, <2>1, FS_Singleton
<1> QED BY <1>1, <1>2

(* The link has one user at a time, an upgrade or the reader of one center. *)
THEOREM LinkHasOneUser == Spec => []OneUser
<1>1. DriverInv => OneUser
  <2> SUFFICES ASSUME DriverInv, ~disturbed, ~exited
               PROVE  /\ Cardinality(Writers) + Cardinality(Readers) <= 1
                      /\ \A c \in Centers : center[c].readers <= 1
    BY DEF OneUser
  <2>1. OneUpgrade /\ OneRecovery /\ Roles
    BY DEF DriverInv
  <2>2. \A u, v \in Writers : u = v
    BY <2>1 DEF Writers, OneUpgrade, Active
  <2>3. Readers \subseteq {messageCenter}
    <3>1. \A c \in Centers : center[c].readers > 0 => center[c].readers # 0
      OBVIOUS
    <3> QED BY <2>1, <3>1 DEF Readers, Reads, Roles
  <2>4. Writers # {} => Readers = {}
    <3>1. Writers # {} => \A c \in Centers : c = messageCenter => ~Reads(c)
      BY <2>1 DEF Writers, OneUpgrade
    <3> QED BY <2>3, <3>1 DEF Readers
  <2>5. \A c, d \in Readers : c = d
    BY <2>3
  <2>6. Cardinality(Writers) + Cardinality(Readers) <= 1
    <3>1. /\ Cardinality(Writers) = 0 \/ Cardinality(Writers) = 1
          /\ Writers = {} => Cardinality(Writers) = 0
      BY <2>2, AtMostOneCounts
    <3>2. /\ Cardinality(Readers) = 0 \/ Cardinality(Readers) = 1
          /\ Readers = {} => Cardinality(Readers) = 0
      BY <2>5, AtMostOneCounts
    <3>3. Writers = {} \/ Readers = {}
      BY <2>4
    <3> QED BY <3>1, <3>2, <3>3
  <2> QED BY <2>1, <2>6 DEF OneRecovery
<1> QED BY <1>1, AlwaysDriverInv, PTL

-----------------------------------------------------------------------------
(* The log: as long as it is not started in a recovery or an upgrade, it is *)
(* only open while nobody searches or writes, so that whoever replaces the  *)
(* logger finds it closed.                                                  *)
NotUpgraded == \A u \in Upgrades : th[Upgrade(u)].at = "no"
LogInv ==
  /\ DriverTypeOK
  /\ ~hurried => /\ lostFiles = 0
                 /\ \A t \in Threads : logOpen => ~Busy(t)
                 /\ isLogging /\ NotUpgraded => logOpen

(* A thread that moves is not at its beginning, and is busy only if it was. *)
NoNewWork(t) ==
  /\ OnlyMoves(t)
  /\ Busy(t)' => Busy(t)
  /\ th'[t].at = "no" => th[t].at = "no"

LEMMA WorkKept ==
  ASSUME DriverTypeOK, NEW t \in Threads, NoNewWork(t)
  PROVE  /\ \A s \in Threads : Busy(s)' => Busy(s)
         /\ NotUpgraded' => NotUpgraded
<1>1. \A s \in Threads : s # t => th'[s] = th[s]
  BY DEF NoNewWork, OnlyMoves
<1>2. \A s \in Threads : Busy(s)' => Busy(s)
  BY <1>1 DEF NoNewWork, Busy, Searching
<1>3. NotUpgraded' => NotUpgraded
  BY <1>1, ThreadNames DEF NotUpgraded, NoNewWork
<1> QED BY <1>2, <1>3

(* A step that leaves the log alone.                                        *)
LEMMA LogLeftAlone ==
  ASSUME LogInv, DriverTypeOK', NEW t \in Threads, NoNewWork(t),
         UNCHANGED <<logOpen, isLogging, lostFiles, hurried>>
  PROVE  LogInv'
<1>1. /\ \A s \in Threads : Busy(s)' => Busy(s)
      /\ NotUpgraded' => NotUpgraded
  BY WorkKept DEF LogInv
<1>2. ASSUME ~hurried' PROVE /\ lostFiles' = 0
                             /\ \A s \in Threads : logOpen' => ~Busy(s)'
                             /\ isLogging' /\ NotUpgraded' => logOpen'
  BY <1>1, <1>2 DEF LogInv
<1> QED BY <1>2 DEF LogInv

(* A step that closes the log.                                              *)
LEMMA LogClosed ==
  ASSUME LogInv, DriverTypeOK', ~logOpen',
         hurried' = hurried,
         ~hurried => lostFiles' = lostFiles /\ (isLogging' => ~NotUpgraded')
  PROVE  LogInv'
BY DEF LogInv

(* A logger that is replaced by a busy thread has its files closed.         *)
LEMMA LogReplaced ==
  ASSUME LogInv, DriverTypeOK', NEW t \in Threads, Busy(t), NewLogger,
         UNCHANGED <<isLogging, hurried>>, NotUpgraded' => NotUpgraded
  PROVE  LogInv'
<1>1. ~hurried => ~logOpen /\ lostFiles' = lostFiles /\ (isLogging => ~NotUpgraded)
  <2>1. lostFiles \in Nat
    BY DEF LogInv, DriverTypeOK
  <2> QED BY <2>1 DEF LogInv, NewLogger
<1>2. ~logOpen'
  BY DEF NewLogger
<1> QED BY <1>1, <1>2, LogClosed

LEMMA LogStarts == Init => LogInv
<1> SUFFICES ASSUME Init PROVE LogInv
  OBVIOUS
<1>1. DriverTypeOK
  BY TypeInit
<1> QED BY <1>1 DEF Init, LogInv

(* A thread that goes on in its work, and one that leaves it.               *)
LEMMA WorkMoves ==
  ASSUME LogInv, NEW t \in Threads
  PROVE  /\ \A place \in Places : Go(t, place) /\ place # "no" /\ (place \in {"idle", "ask", "poll", "gone", "raised"} \/ Busy(t))
              => NoNewWork(t)
         /\ Return(t) => NoNewWork(t)
         /\ UNCHANGED th => NoNewWork(t)
<1>0. DriverTypeOK
  BY DEF LogInv
<1>1. ASSUME NEW place \in Places, Go(t, place), place # "no",
             place \in {"idle", "ask", "poll", "gone", "raised"} \/ Busy(t)
      PROVE  NoNewWork(t)
  <2>1. OnlyMoves(t) /\ th'[t].at = place
    BY <1>0, <1>1, MoveFacts
  <2> QED BY <1>1, <2>1 DEF NoNewWork, Busy, Searching
<1>2. ASSUME Return(t) PROVE NoNewWork(t)
  <2>1. OnlyMoves(t) /\ th'[t].at \in {"idle", "gone", "poll"}
    BY <1>0, <1>2, MoveFacts
  <2> QED BY <2>1 DEF NoNewWork, Busy, Searching
<1>3. ASSUME UNCHANGED th PROVE NoNewWork(t)
  BY <1>3 DEF NoNewWork, OnlyMoves, Busy, Searching
<1> QED BY <1>1, <1>2, <1>3

LEMMA LogLink ==
  ASSUME LogInv, DriverTypeOK',
         LinkStep \/ UNCHANGED vars \/ \E c \in Centers : LateReadEnds(c) \/ ReaderEnds(c)
  PROVE  LogInv'
<1>1. UNCHANGED <<th, logOpen, isLogging, lostFiles, hurried>>
  BY DEF LinkStep, FallSilent, AnswerAgain, ReadRaises, LateReadEnds, ReaderEnds, provider, history, vars
<1>2. Main \in Threads /\ NoNewWork(Main)
  BY <1>1, ThreadNames, WorkMoves
<1> QED BY <1>1, <1>2, LogLeftAlone

LEMMA LogFind ==
  ASSUME LogInv, DriverTypeOK', NEW t \in Threads,
         \/ FindHit(t) \/ FindEnds(t) \/ FindMiss(t) \/ SetupDone(t) \/ Listen(t) \/ UpgradeTold(t)
  PROVE  LogInv'
<1>1. UNCHANGED <<logOpen, isLogging, lostFiles, hurried>>
  BY DEF FindHit, FindEnds, FindMiss, SetupDone, Listen, UpgradeTold, provider, history
<1>2. NoNewWork(t)
  <2>1. CASE FindMiss(t)
    <3>1. th' = [th EXCEPT ![t].tried = @ + 1] /\ th \in [Threads -> Cells]
      BY <2>1 DEF FindMiss, LogInv, DriverTypeOK, Cells
    <3>2. OnlyMoves(t) /\ th'[t].at = th[t].at
      BY <3>1 DEF OnlyMoves, Cells
    <3> QED BY <3>2 DEF NoNewWork, Busy, Searching
  <2>2. CASE FindHit(t)
    <3>1. Busy(t) /\ (Return(t) \/ Go(t, "found"))
      BY <2>2 DEF FindHit, Busy, Searching
    <3> QED BY <3>1, WorkMoves DEF Places
  <2>3. CASE FindEnds(t)
    <3>1. UNCHANGED th \/ Go(t, "raised")
      BY <2>3 DEF FindEnds
    <3> QED BY <3>1, WorkMoves DEF Places
  <2>4. CASE SetupDone(t)
    <3>1. Busy(t) /\ Go(t, "listen")
      BY <2>4 DEF SetupDone, Busy, Searching
    <3> QED BY <3>1, WorkMoves DEF Places
  <2>5. CASE Listen(t) \/ UpgradeTold(t)
    BY <2>5, WorkMoves DEF Listen, UpgradeTold
  <2> QED BY <2>1, <2>2, <2>3, <2>4, <2>5
<1> QED BY <1>1, <1>2, LogLeftAlone

LEMMA LogClosing ==
  ASSUME LogInv, DriverTypeOK', NEW t \in Threads, NotFound(t) \/ Discover(t)
  PROVE  LogInv'
<1>1. CASE CloseProvider
  <2>1. ~logOpen' /\ ~isLogging'
    BY <1>1 DEF CloseProvider, ResetFlags
  <2>2. hurried' = hurried /\ lostFiles' = lostFiles
    BY DEF NotFound, Discover
  <2> QED BY <2>1, <2>2, LogClosed
<1>2. CASE ~CloseProvider
  <2>1. UNCHANGED <<provider, lostFiles, hurried>> /\ (Go(t, "raised") \/ Go(t, "load"))
    BY <1>2 DEF NotFound, Discover
  <2>2. Busy(t)
    BY DEF NotFound, Discover, Busy, Searching
  <2>3. NoNewWork(t)
    BY <2>1, <2>2, WorkMoves DEF Places
  <2> QED BY <2>1, <2>3, LogLeftAlone DEF provider
<1> QED BY <1>1, <1>2

LEMMA LogLoad ==
  ASSUME LogInv, DriverTypeOK', NEW t \in Threads, Load(t) \/ UpgradeCompleted(t)
  PROVE  LogInv'
<1>0. DriverTypeOK /\ th \in [Threads -> Cells]
  BY DEF LogInv, DriverTypeOK, Cells
<1>1. Busy(t) /\ NewLogger /\ UNCHANGED <<isLogging, hurried>>
  BY DEF Load, UpgradeCompleted, Busy, Searching
<1>2. NotUpgraded' => NotUpgraded
  <2>1. CASE \E place \in {"setup", "raised"} : Go(t, place)
    <3>1. NoNewWork(t)
      BY <1>1, <2>1, WorkMoves DEF Places
    <3> QED BY <1>0, <3>1, WorkKept
  <2>2. CASE Load(t) /\ messageCenter = None
    <3> DEFINE d == CHOOSE c \in Unused : TRUE
    <3>1. d \in Centers /\ th' = [th EXCEPT ![t].at = "setup", ![Checker(d)] = At("poll")]
      BY <2>2 DEF Load, SetupCenter, Unused
    <3> HIDE DEF d
    <3>2. \A u \in Upgrades : th'[Upgrade(u)].at = "no" => th[Upgrade(u)].at = "no"
      BY <1>0, <3>1, ThreadNames DEF Cells
    <3> QED BY <3>2 DEF NotUpgraded
  <2> QED BY <2>1, <2>2 DEF Load, SetupCenter, UpgradeCompleted
<1> QED BY <1>1, <1>2, LogReplaced

LEMMA LogHeard ==
  ASSUME LogInv, DriverTypeOK', NEW c \in Centers, HearException(c) \/ CheckerEnds(c)
  PROVE  LogInv'
<1>0. Checker(c) \in Threads
  BY ThreadNames
<1>1. CASE HearException(c) /\ ResetFlags
  <2>1. ~logOpen' /\ ~isLogging'
    BY <1>1 DEF ResetFlags
  <2>2. hurried' = hurried /\ lostFiles' = lostFiles
    BY <1>1 DEF HearException
  <2> QED BY <2>1, <2>2, LogClosed
<1>2. CASE ~(HearException(c) /\ ResetFlags)
  <2>1. UNCHANGED <<logOpen, isLogging, lostFiles, hurried>>
    BY <1>2 DEF HearException, CheckerEnds, provider, history
  <2>2. Go(Checker(c), "raised") \/ Go(Checker(c), "gone")
    BY <1>2 DEF HearException, CheckerEnds
  <2>3. NoNewWork(Checker(c))
    BY <1>0, <2>2, WorkMoves DEF Places
  <2> QED BY <1>0, <2>1, <2>3, LogLeftAlone
<1> QED BY <1>1, <1>2

LEMMA LogUpgrade ==
  ASSUME LogInv, DriverTypeOK', NEW u \in Upgrades,
         UpgradeStep(u) \/ UpgradeFramework(u)
  PROVE  LogInv'
<1> DEFINE t == Upgrade(u)
<1>0. t \in Threads /\ DriverTypeOK /\ th \in [Threads -> Cells]
  BY ThreadNames DEF LogInv, DriverTypeOK, Cells
<1>1. CASE UpgradeStep(u)
  <2>1. UNCHANGED <<logOpen, isLogging, lostFiles, hurried>> /\ th[t].at = "write"
    BY <1>1 DEF UpgradeStep, UpgradeError, UpgradeComplete, provider, history
  <2>2. NoNewWork(t)
    <3>1. CASE UpgradeError(u)
      <4>1. Go(t, "raised") \/ UNCHANGED th
        BY <3>1 DEF UpgradeError
      <4> QED BY <1>0, <4>1, WorkMoves DEF Places
    <3>2. CASE UpgradeComplete(u)
      <4>1. OnlyMoves(t)
        BY <1>0, <3>2 DEF UpgradeComplete, OnlyMoves
      <4>2. th'[t] = Search("restart") \/ th'[t] = At("gone")
        BY <1>0, <3>2 DEF UpgradeComplete
      <4>3. th'[t].at # "no"
        BY <4>2 DEF Search, At
      <4>4. Busy(t)
        BY <2>1 DEF Busy
      <4> QED BY <4>1, <4>3, <4>4 DEF NoNewWork
    <3> QED BY <1>1, <3>1, <3>2 DEF UpgradeStep
  <2> HIDE DEF t
  <2> QED BY <1>0, <2>1, <2>2, LogLeftAlone
<1>2. CASE UpgradeFramework(u) /\ messageCenter = None
  <2>1. UNCHANGED <<th, logOpen, isLogging, lostFiles, hurried>>
    BY <1>2 DEF UpgradeFramework, history
  <2>2. NoNewWork(t)
    BY <1>0, <2>1, WorkMoves
  <2> HIDE DEF t
  <2> QED BY <1>0, <2>1, <2>2, LogLeftAlone
<1>3. CASE UpgradeFramework(u) /\ messageCenter # None
  <2>1. ~logOpen' /\ UNCHANGED <<isLogging, lostFiles, hurried>>
    BY <1>3 DEF UpgradeFramework, history
  <2>2. th'[t] = At("write")
    BY <1>0, <1>3 DEF UpgradeFramework
  <2>3. ~NotUpgraded'
    BY <2>2 DEF NotUpgraded, At
  <2> QED BY <2>1, <2>3, LogClosed
<1> QED BY <1>1, <1>2, <1>3

LEMMA LogCommands ==
  ASSUME LogInv, DriverTypeOK', StartDataLog \/ StopDataLog \/ Ask \/ Answered
  PROVE  LogInv'
<1>1. CASE StartDataLog
  <2>1. \A t \in Threads : Busy(t)' <=> Busy(t)
    BY <1>1 DEF StartDataLog, Busy, Searching
  <2>2. ~hurried' => ~hurried /\ \A t \in Threads : ~Busy(t)
    BY <1>1 DEF StartDataLog
  <2> QED BY <1>1, <2>1, <2>2 DEF StartDataLog, LogInv
<1>2. CASE StopDataLog
  <2>1. ~logOpen' /\ ~isLogging' /\ UNCHANGED <<lostFiles, hurried>>
    BY <1>2 DEF StopDataLog, history
  <2> QED BY <2>1, LogClosed
<1>3. CASE Ask \/ Answered
  <2>1. UNCHANGED <<logOpen, isLogging, lostFiles, hurried>>
    BY <1>3 DEF Ask, Answered, provider, history
  <2>2. Main \in Threads /\ NoNewWork(Main)
    BY <1>3, ThreadNames, WorkMoves DEF Ask, Answered, Places
  <2> QED BY <2>1, <2>2, LogLeftAlone
<1> QED BY <1>1, <1>2, <1>3

LEMMA LogStep == LogInv /\ [Next]_vars => LogInv'
<1> SUFFICES ASSUME LogInv, [Next]_vars PROVE LogInv'
  OBVIOUS
<1>0. DriverTypeOK'
  BY TypeStep DEF LogInv
<1>1. CASE LinkStep \/ UNCHANGED vars
  BY <1>0, <1>1, LogLink
<1>2. ASSUME NEW t \in Threads, FindStep(t) PROVE LogInv'
  BY <1>0, <1>2, LogFind, LogClosing, LogLoad DEF FindStep
<1>3. ASSUME NEW c \in Centers, CenterStep(c) PROVE LogInv'
  BY <1>0, <1>3, LogLink, LogHeard DEF CenterStep
<1>4. ASSUME NEW u \in Upgrades, UpgradeStep(u) PROVE LogInv'
  BY <1>0, <1>4, LogUpgrade
<1>5. CASE CommandStep \/ Answered
  BY <1>0, <1>5, LogCommands, LogUpgrade DEF CommandStep
<1> QED BY <1>1, <1>2, <1>3, <1>4, <1>5 DEF Next

(* No log is given up with its files open, and LOGGING means open files.    *)
THEOREM LogIsKept == Spec => []LogKept
<1>1. LogInv => LogKept
  BY DEF LogInv, LogKept, NotUpgraded
<1> QED BY <1>1, LogStarts, LogStep, PTL DEF Spec
=============================================================================
