------------------------- MODULE UpgradeCenterProofs -------------------------
(***************************************************************************)
(* The order in which UpgradeCenter calls its workers, and what its FINISH *)
(* means, for all groupings and sizes, with any faults of the workers; and *)
(* that the progress bar adds up.                                          *)
(***************************************************************************)
EXTENDS UpgradeCenter, FiniteSetTheorems, TLAPS

Firsts == Members("before")
Lasts  == Members("after")

(* The workers that a thread has to call, those of AFTER_ALL apart.         *)
Home(t) == IF t = 0 THEN Firsts ELSE Group(t)

Others  == Threads \ {0}
Resting == \A t \in Others : pc[t] = "idle" /\ todo[t] = {}

InCall == {"working", "report", "sum", "step", "append", "test"}

(* The shape of the state: who has what to do.                              *)
Shape ==
  /\ groups \in Registrations
  /\ pc \in [Threads -> InCall \cup {"start", "idle", "next", "stop", "ended", "dead"}]
  /\ DOMAIN todo = Threads
  /\ stopped \subseteq Workers /\ ended \subseteq Workers
  /\ \A t \in Threads : todo[t] \subseteq Home(t) \cup (IF t = 0 THEN {} ELSE Lasts)
  /\ \A t \in Threads : pc[t] \in InCall => todo[t] # {}
  /\ \A t \in Others : pc[t] # "start" /\ IF pc[t] = "idle" THEN todo[t] = {} ELSE Group(t) # {}
  /\ pc[0] # "idle"

(* The lists hold a finished worker each, once, and the workers of a thread *)
(* that are not ended are those it has still to call.                       *)
Counts ==
  /\ DOMAIN status = {"before", "normal", "after"}
  /\ status["before"] = Cardinality(ended \cap Firsts)
  /\ status["normal"] = Cardinality(ended \cap Normal)
  /\ \A t \in Threads : pc[t] = "test" => Executor(t) \in ended
  /\ \A t \in Threads : \A w \in todo[t] :
       w \in ended /\ w \notin Lasts => pc[t] = "test" /\ w = Executor(t)

(* The threads of the groups begin when the BEFORE_ALL workers have         *)
(* finished, and these are not called again; the AFTER_ALL workers follow   *)
(* when the normal ones have finished.                                      *)
Phases ==
  /\ pc[0] = "start" => Resting /\ ended = {} /\ todo[0] = {}
  /\ Resting \/ (Firsts \subseteq ended /\ todo[0] = {})
  /\ Resting => ended \cap Normal = {}
  /\ \A t \in Threads : todo[t] \cap Lasts # {} =>
       Normal \subseteq ended /\ todo[t] \cap Normal = {}

(* What a thread has left behind has finished or was stopped.               *)
Passed ==
  \A t \in Threads :
    /\ pc[t] \notin {"idle", "start"} => Home(t) \ todo[t] \subseteq ended \cup stopped
    /\ todo[t] \cap Lasts # {} => Lasts \ todo[t] \subseteq ended \cup stopped

OrderInv == Shape /\ Counts /\ Phases /\ Passed

-----------------------------------------------------------------------------
(* Groups and numbers.                                                      *)

(* A nonempty set of naturals has its minimum.                              *)
LEMMA MinIsLeast ==
  ASSUME NEW S, S \subseteq Nat, S # {}
  PROVE  Min(S) \in S /\ \A x \in S : Min(S) <= x
<1> DEFINE T == {0..x : x \in S}
<1>1. T \subseteq FiniteSubsetsOf(Nat) /\ T # {}
  <2>1. ASSUME NEW x \in S PROVE 0..x \in SUBSET Nat /\ IsFiniteSet(0..x)
    <3>1. x \in Int /\ 0 \in Int
      OBVIOUS
    <3> QED BY <3>1, FS_Interval
  <2>2. T \subseteq FiniteSubsetsOf(Nat)
    BY <2>1 DEF FiniteSubsetsOf
  <2> QED BY <2>2
<1>2. PICK X \in T : \A Y \in T : ~(<<Y, X>> \in StrictSubsetOrdering(Nat))
  BY <1>1, FS_StrictSubsetOrderingWellFounded, WFMin, Zenon
<1>3. PICK x \in S : X = 0..x
  OBVIOUS
<1>4. ASSUME NEW y \in S, y < x PROVE FALSE
  <2>1. 0..y \in SUBSET Nat /\ 0..x \in SUBSET Nat
    BY <1>4
  <2>2. 0..y \subseteq 0..x /\ x \in 0..x /\ x \notin 0..y
    BY <1>4
  <2>3. <<0..y, X>> \in StrictSubsetOrdering(Nat)
    BY <1>3, <2>1, <2>2 DEF StrictSubsetOrdering
  <2> QED BY <1>2, <2>3
<1>5. \A y \in S : x <= y
  BY <1>4
<1> QED BY <1>5 DEF Min

(* A set with at most one element has no two.                               *)
LEMMA AtMostOne ==
  ASSUME NEW S, IsFiniteSet(S), Cardinality(S) <= 1, NEW x \in S, NEW y \in S
  PROVE  x = y
<1>1. IsFiniteSet({x}) /\ Cardinality({x}) = 1
  BY FS_Singleton, Zenon
<1>2. {x} \in SUBSET S
  OBVIOUS
<1>3. Cardinality({x}) <= Cardinality(S) /\ (Cardinality(S) = Cardinality({x}) => S = {x})
  BY <1>2, FS_Subset
<1>4. Cardinality(S) \in Nat
  BY FS_CardinalityType
<1> QED BY <1>1, <1>3, <1>4

(* The workers are numbered, and finite; the three kinds exclude each other.*)
LEMMA Kinds3 ==
  ASSUME groups \in Registrations
  PROVE  /\ Workers \subseteq Nat \ {0} /\ Workers \subseteq Others /\ IsFiniteSet(Workers)
         /\ Firsts \subseteq Workers /\ Lasts \subseteq Workers /\ Normal \subseteq Workers
         /\ Firsts \cap Lasts = {} /\ Firsts \cap Normal = {} /\ Lasts \cap Normal = {}
         /\ \A w \in Firsts : Kind(w) = "before"
         /\ \A w \in Lasts : Kind(w) = "after"
         /\ \A w \in Normal : Kind(w) = "normal"
         /\ Members("normal") = Normal
<1>1. Workers = 1..Len(groups) /\ Len(groups) \in Nat
  BY UpgradeCenterAssumption DEF Workers
<1>2. IsFiniteSet(Workers)
  BY <1>1, FS_Interval
<1>3. Workers \subseteq Others
  BY <1>1 DEF Others, Threads, Workers
<1>4. BEFORE_ALL # AFTER_ALL
  BY UpgradeCenterAssumption
<1>5. Firsts = LastRun(BEFORE_ALL) /\ Lasts = LastRun(AFTER_ALL) /\ Members("normal") = Normal
  BY DEF Firsts, Lasts, Members
<1> QED BY <1>1, <1>2, <1>3, <1>4, <1>5 DEF LastRun, Normal, Kind

(* A run is of one group, and the runs are apart.                           *)
LEMMA Runs ==
  ASSUME groups \in Registrations
  PROVE  /\ \A v, w \in Workers : SameRun(v, w) => groups[v] = groups[w] /\ SameRun(w, v)
         /\ \A u, v, w \in Workers : SameRun(u, v) /\ SameRun(v, w) => SameRun(u, w)
<1>1. Workers \subseteq Nat
  BY Kinds3
<1>2. ASSUME NEW v \in Workers, NEW w \in Workers, SameRun(v, w)
      PROVE  groups[v] = groups[w] /\ SameRun(w, v)
  <2>1. groups[v] = groups[w]
    BY <1>1, <1>2 DEF SameRun, Between
  <2> QED BY <1>2, <2>1 DEF SameRun, Between
<1>3. ASSUME NEW u \in Workers, NEW v \in Workers, NEW w \in Workers,
             SameRun(u, v), SameRun(v, w)
      PROVE  SameRun(u, w)
  <2>1. groups[v] = groups[w]
    BY <1>2, <1>3
  <2>2. ASSUME NEW x \in Workers, Between(x, u, w)
        PROVE  Between(x, u, v) \/ Between(x, v, w)
    BY <1>1, <2>2 DEF Between
  <2> QED BY <1>3, <2>1, <2>2 DEF SameRun
<1> QED BY <1>2, <1>3

(* A normal worker is in the group of one thread.                           *)
LEMMA GroupsApart ==
  ASSUME groups \in Registrations
  PROVE  /\ \A t : Group(t) \subseteq Normal /\ (Group(t) # {} => t \in Normal)
         /\ \A t, u : t # u => Group(t) \cap Group(u) = {}
<1>1. Workers \subseteq Nat /\ Normal \subseteq Workers
  BY Kinds3
<1>2. \A v, w \in Workers : SameRun(v, w) => groups[v] = groups[w]
  BY Runs
<1>3. \A t : Group(t) \subseteq Normal /\ (Group(t) # {} => t \in Normal)
  BY <1>1, <1>2 DEF Group, Normal
<1>4. ASSUME NEW t, NEW u, NEW w \in Group(t) \cap Group(u), t # u
      PROVE  FALSE
  <2>1. t \in Normal /\ u \in Normal /\ w \in Normal /\ {t, u, w} \subseteq Workers
    BY <1>1, <1>3
  <2>2. CASE groups[t] = None \/ groups[u] = None
    BY <1>2, <1>4, <2>1, <2>2 DEF Group
  <2>3. CASE groups[t] # None /\ groups[u] # None
    <3>1. SameRun(w, t) /\ SameRun(w, u)
      BY <2>1, <2>3 DEF Group
    <3>2. SameRun(t, u) /\ SameRun(u, t)
      BY <2>1, <3>1, Runs
    <3>3. t < u \/ u < t
      BY <1>1, <1>4, <2>1
    <3> QED BY <2>1, <2>3, <3>2, <3>3 DEF Group
  <2> QED BY <2>2, <2>3
<1> QED BY <1>3, <1>4

(* What is defined by the groups alone stays as it is.                      *)
LEMMA Rigid ==
  ASSUME groups' = groups
  PROVE  /\ Workers' = Workers /\ Firsts' = Firsts /\ Lasts' = Lasts /\ Normal' = Normal
         /\ \A w : Kind(w)' = Kind(w) /\ Group(w)' = Group(w) /\ Home(w)' = Home(w)
         /\ \A v, w : SameRun(v, w)' = SameRun(v, w)
<1>1. Workers' = Workers /\ Normal' = Normal
  BY DEF Workers, Normal
<1>2. \A v, w : SameRun(v, w)' = SameRun(v, w)
  BY <1>1 DEF SameRun
<1>3. \A g : LastRun(g)' = LastRun(g)
  BY <1>1, <1>2 DEF LastRun
<1>4. Firsts' = Firsts /\ Lasts' = Lasts
  BY <1>3 DEF Firsts, Lasts, Members
<1>5. \A w : Kind(w)' = Kind(w) /\ Group(w)' = Group(w)
  BY <1>1, <1>2 DEF Kind, Group
<1> QED BY <1>1, <1>2, <1>4, <1>5 DEF Home

(* The worker in turn is one of those that the thread still has to call,    *)
(* and one of BEFORE_ALL just in the first thread.                          *)
LEMMA InTurn ==
  ASSUME Shape, NEW t \in Threads, todo[t] # {}
  PROVE  /\ Executor(t) \in todo[t] /\ Executor(t) \in Workers
         /\ \A w \in todo[t] : Executor(t) <= w
         /\ Executor(t) \in Firsts \cup Normal \cup Lasts
         /\ Executor(t) \in Firsts <=> t = 0
<1>1. todo[t] \subseteq Workers /\ todo[t] \subseteq Firsts \cup Normal \cup Lasts
  BY Kinds3, GroupsApart DEF Shape, Home
<1>2. /\ Executor(t) \in todo[t] /\ \A w \in todo[t] : Executor(t) <= w
  BY <1>1, MinIsLeast, Kinds3 DEF Executor, Shape
<1>3. Executor(t) \in Firsts <=> t = 0
  BY <1>2, Kinds3, GroupsApart DEF Shape, Home
<1> QED BY <1>1, <1>2, <1>3

-----------------------------------------------------------------------------
(* The steps.                                                               *)

LEMMA OrderInit == ASSUME Init PROVE OrderInv
<1> USE DEF Init
<1>1. 0 \in Threads /\ 0 \notin Others
  BY DEF Threads, Others
<1>2. Shape
  BY <1>1 DEF Shape, InCall, Others
<1>3. Counts
  BY FS_EmptySet DEF Counts
<1>4. Resting
  BY <1>1 DEF Resting, Others
<1>5. Phases
  BY <1>1, <1>4 DEF Phases
<1>6. Passed
  BY DEF Passed
<1> QED BY <1>2, <1>3, <1>5, <1>6 DEF OrderInv

(* A step that leaves everybody what they have to call: thread t goes on to *)
(* l, if anywhere.                                                          *)
Still(t, l) ==
  /\ groups' = groups /\ ended' = ended /\ status' = status /\ todo' = todo
  /\ finishes' = finishes
  /\ stopped \subseteq stopped' /\ stopped' \subseteq Workers
  /\ \/ pc' = pc
     \/ /\ pc' = [pc EXCEPT ![t] = l]
        /\ l \in (InCall \ {"test"}) \cup {"stop", "ended", "dead"}
        /\ l \in InCall => todo[t] # {}
        /\ pc[t] \notin {"start", "idle", "test"}

LEMMA StillStep ==
  ASSUME OrderInv, NEW t \in Threads, NEW l, Still(t, l)
  PROVE  OrderInv'
<1> USE DEF OrderInv, Still
<1>0. /\ Workers' = Workers /\ Firsts' = Firsts /\ Lasts' = Lasts /\ Normal' = Normal
      /\ \A w : Kind(w)' = Kind(w) /\ Group(w)' = Group(w) /\ Home(w)' = Home(w)
  BY Rigid
<1>1. \A u \in Threads : Executor(u)' = Executor(u)
  BY DEF Executor
<1>2. 0 \in Threads
  BY DEF Threads
<1>3. CASE pc' = pc
  <2>1. Shape'
    BY <1>0, <1>3 DEF Shape
  <2>2. Counts'
    BY <1>0, <1>1, <1>3 DEF Counts
  <2>3. Phases'
    BY <1>0, <1>3 DEF Phases, Resting
  <2>4. Passed'
    BY <1>0, <1>3 DEF Passed
  <2> QED BY <2>1, <2>2, <2>3, <2>4
<1>4. CASE /\ pc' = [pc EXCEPT ![t] = l]
           /\ l \in (InCall \ {"test"}) \cup {"stop", "ended", "dead"}
           /\ l \in InCall => todo[t] # {}
           /\ pc[t] \notin {"start", "idle", "test"}
  <2>1. /\ \A u \in Threads : u # t => pc'[u] = pc[u]
        /\ pc'[t] = l /\ l \notin {"start", "idle", "test"}
    BY <1>4 DEF Shape, InCall
  <2>2. pc' \in [Threads -> InCall \cup {"start", "idle", "next", "stop", "ended", "dead"}]
    BY <1>4 DEF Shape
  <2>3. Shape'
    BY <1>0, <1>2, <1>4, <2>1, <2>2 DEF Shape, Others
  <2>4. Counts'
    BY <1>0, <1>1, <1>4, <2>1 DEF Counts
  <2>5. Resting' <=> Resting
    BY <1>4, <2>1 DEF Resting, Others
  <2>6. Phases'
    BY <1>0, <1>2, <1>4, <2>1, <2>5 DEF Phases
  <2>7. Passed'
    BY <1>0, <1>4, <2>1 DEF Passed
  <2> QED BY <2>3, <2>4, <2>6, <2>7
<1> QED BY <1>3, <1>4

(* A stopped worker is passed over, or returns.                             *)
Drop(t) ==
  /\ groups' = groups /\ ended' = ended /\ status' = status /\ stopped' = stopped
  /\ finishes' = finishes
  /\ pc[t] \in {"next", "working"} /\ todo[t] # {} /\ Executor(t) \in stopped
  /\ pc' = [pc EXCEPT ![t] = "next"]
  /\ todo' = [todo EXCEPT ![t] = @ \ {Executor(t)}]

LEMMA DropStep ==
  ASSUME OrderInv, NEW t \in Threads, Drop(t)
  PROVE  OrderInv'
<1> USE DEF OrderInv, Drop
<1>0. /\ Workers' = Workers /\ Firsts' = Firsts /\ Lasts' = Lasts /\ Normal' = Normal
      /\ \A w : Kind(w)' = Kind(w) /\ Group(w)' = Group(w) /\ Home(w)' = Home(w)
  BY Rigid
<1>1. \A u \in Threads : u # t => todo'[u] = todo[u] /\ pc'[u] = pc[u] /\ Executor(u)' = Executor(u)
  BY DEF Executor, Shape
<1>2. todo'[t] = todo[t] \ {Executor(t)} /\ pc'[t] = "next" /\ DOMAIN todo' = Threads
  BY DEF Shape
<1>3. 0 \in Threads
  BY DEF Threads
<1>4. Shape'
  BY <1>0, <1>1, <1>2, <1>3 DEF Shape, Others, InCall
<1>5. Counts'
  BY <1>0, <1>1, <1>2 DEF Counts
<1>6. Resting' => Resting
  BY <1>1, <1>2 DEF Resting, Others
<1>7. Resting => Resting' \/ t \in Others
  BY <1>1 DEF Resting, Others
<1>8. t \in Others => ~Resting
  BY DEF Resting
<1>9. Phases'
  BY <1>0, <1>1, <1>2, <1>3, <1>6, <1>7, <1>8 DEF Phases
<1>10. Passed'
  BY <1>0, <1>1, <1>2 DEF Passed
<1> QED BY <1>4, <1>5, <1>9, <1>10

(* A worker has finished.                                                   *)
LEMMA AppendStep ==
  ASSUME OrderInv, NEW t \in Threads, DoneAppend(t)
  PROVE  OrderInv'
<1> USE DEF OrderInv
<1> DEFINE w == Executor(t)
<1>0. /\ Workers' = Workers /\ Firsts' = Firsts /\ Lasts' = Lasts /\ Normal' = Normal
      /\ \A v : Kind(v)' = Kind(v) /\ Group(v)' = Group(v) /\ Home(v)' = Home(v)
  BY Rigid DEF DoneAppend
<1>1. /\ pc[t] = "append" /\ pc' = [pc EXCEPT ![t] = "test"] /\ todo' = todo
      /\ ended' = ended \cup {w} /\ status' = [status EXCEPT ![Kind(w)] = @ + 1]
      /\ groups' = groups /\ stopped' = stopped
  BY DEF DoneAppend, Goto
<1>2. \A u \in Threads : Executor(u)' = Executor(u)
  BY <1>1 DEF Executor
<1>3. /\ todo[t] # {} /\ w \in todo[t] /\ w \in Workers /\ w \in Firsts \cup Normal \cup Lasts
      /\ w \in Firsts <=> t = 0
  BY <1>1, InTurn DEF Shape, InCall
<1>4. /\ \A u \in Threads : u # t => pc'[u] = pc[u]
      /\ pc'[t] = "test"
  BY <1>1 DEF Shape
<1>5. 0 \in Threads
  BY DEF Threads
<1>6. Shape'
  BY <1>0, <1>1, <1>3, <1>4, <1>5 DEF Shape, Others, InCall
<1>7. Counts'
  <2>1. w \notin Lasts => w \notin ended
    BY <1>1, <1>3 DEF Counts
  <2>2. IsFiniteSet(ended \cap Firsts) /\ IsFiniteSet(ended \cap Normal)
    <3>1. IsFiniteSet(Workers)
      BY Kinds3 DEF Shape
    <3>2. ended \cap Firsts \in SUBSET Workers /\ ended \cap Normal \in SUBSET Workers
      BY DEF Shape
    <3> QED BY <3>1, <3>2, FS_Subset
  <2>3. /\ DOMAIN status' = {"before", "normal", "after"}
        /\ status'["before"] = Cardinality(ended' \cap Firsts)
        /\ status'["normal"] = Cardinality(ended' \cap Normal)
    <3>1. CASE w \in Firsts
      <4>1. Kind(w) = "before" /\ w \notin Normal /\ w \notin Lasts
        BY <3>1, Kinds3 DEF Shape
      <4>2. ended' \cap Firsts = (ended \cap Firsts) \cup {w} /\ ended' \cap Normal = ended \cap Normal
        BY <1>1, <3>1, <4>1
      <4>3. Cardinality((ended \cap Firsts) \cup {w}) = Cardinality(ended \cap Firsts) + 1
        <5>1. w \notin ended \cap Firsts
          BY <2>1, <4>1
        <5> QED BY <2>2, <5>1, FS_AddElement
      <4> QED BY <1>1, <4>1, <4>2, <4>3 DEF Counts
    <3>2. CASE w \in Normal
      <4>1. Kind(w) = "normal" /\ w \notin Firsts /\ w \notin Lasts
        BY <3>2, Kinds3 DEF Shape
      <4>2. ended' \cap Normal = (ended \cap Normal) \cup {w} /\ ended' \cap Firsts = ended \cap Firsts
        BY <1>1, <3>2, <4>1
      <4>3. Cardinality((ended \cap Normal) \cup {w}) = Cardinality(ended \cap Normal) + 1
        <5>1. w \notin ended \cap Normal
          BY <2>1, <4>1
        <5> QED BY <2>2, <5>1, FS_AddElement
      <4> QED BY <1>1, <4>1, <4>2, <4>3 DEF Counts
    <3>3. CASE w \in Lasts
      <4>1. Kind(w) = "after" /\ w \notin Firsts /\ w \notin Normal
        BY <3>3, Kinds3 DEF Shape
      <4>2. ended' \cap Normal = ended \cap Normal /\ ended' \cap Firsts = ended \cap Firsts
        BY <1>1, <4>1
      <4> QED BY <1>1, <4>1, <4>2 DEF Counts
    <3> QED BY <1>3, <3>1, <3>2, <3>3
  <2>4. \A u \in Threads : u # t /\ w \in todo[u] => w \in Lasts
    <3>1. ASSUME NEW u \in Threads, u # t, w \in todo[u], w \notin Lasts
          PROVE  FALSE
      <4>1. w \in Home(t) /\ w \in Home(u)
        BY <1>3, <3>1 DEF Shape
      <4>2. Firsts \cap Normal = {}
        BY Kinds3 DEF Shape
      <4> QED BY <3>1, <4>1, <4>2, GroupsApart DEF Home, Shape
    <3> QED BY <3>1
  <2> QED BY <1>0, <1>1, <1>2, <1>4, <2>3, <2>4 DEF Counts
<1>8. Resting' <=> Resting
  BY <1>1, <1>4 DEF Resting, Others
<1>9. t # 0 => ~Resting
  BY <1>1 DEF Resting, Others
<1>10. Phases'
  <2>1. t = 0 => w \notin Normal
    BY <1>3, Kinds3 DEF Shape
  <2> QED BY <1>0, <1>1, <1>3, <1>4, <1>5, <1>8, <1>9, <2>1 DEF Phases
<1>11. Passed'
  BY <1>0, <1>1, <1>4 DEF Passed
<1> QED BY <1>6, <1>7, <1>10, <1>11

(* The threads of the groups begin.                                         *)
LEMMA RunGroups ==
  ASSUME OrderInv, Resting, Firsts \subseteq ended, NormalRun(0, {}),
         groups' = groups, ended' = ended, status' = status, stopped' = stopped
  PROVE  OrderInv'
<1> USE DEF OrderInv
<1>0. /\ Workers' = Workers /\ Firsts' = Firsts /\ Lasts' = Lasts /\ Normal' = Normal
      /\ \A v : Kind(v)' = Kind(v) /\ Group(v)' = Group(v) /\ Home(v)' = Home(v)
  BY Rigid
<1>1. /\ 0 \in Threads /\ 0 \notin Workers /\ Normal \subseteq Workers /\ Workers \subseteq Others
      /\ Normal \cap Lasts = {}
      /\ \A u : Group(u) \subseteq Normal /\ (Group(u) # {} => u \in Normal)
  BY Kinds3, GroupsApart DEF Shape, Threads
<1>2. /\ pc'[0] = "next" /\ todo'[0] = {} /\ DOMAIN todo' = Threads
      /\ \A u \in Others : Group(u) # {} => pc'[u] = "next" /\ todo'[u] = Group(u)
      /\ \A u \in Others : Group(u) = {} => pc'[u] = "idle" /\ todo'[u] = {}
      /\ pc' \in [Threads -> InCall \cup {"start", "idle", "next", "stop", "ended", "dead"}]
  BY <1>1 DEF NormalRun, Shape, Others, Resting
<1>3. \A u \in Threads : u = 0 \/ u \in Others
  BY DEF Others
<1>4. Shape'
  BY <1>0, <1>1, <1>2, <1>3 DEF Shape, Home, Others, InCall
<1>5. Counts'
  BY <1>0, <1>1, <1>2, <1>3 DEF Counts, Phases
<1>6. Phases'
  BY <1>0, <1>1, <1>2, <1>3 DEF Phases
<1>7. Passed'
  BY <1>0, <1>1, <1>2, <1>3 DEF Passed, Home
<1> QED BY <1>4, <1>5, <1>6, <1>7

(* start().                                                                 *)
LEMMA StartStep ==
  ASSUME OrderInv, Start
  PROVE  OrderInv'
<1> USE DEF OrderInv
<1>1. /\ pc[0] = "start" /\ groups' = groups /\ ended' = ended /\ status' = status
      /\ stopped' = stopped /\ 0 \in Threads
  BY DEF Start, Threads
<1>2. Firsts = LastRun(BEFORE_ALL)
  BY DEF Firsts, Members
<1>3. CASE Firsts = {}
  <2>1. NormalRun(0, {})
    BY <1>2, <1>3 DEF Start
  <2> QED BY <1>1, <1>3, <2>1, RunGroups DEF Phases
<1>4. CASE Firsts # {}
  <2>0. /\ Workers' = Workers /\ Firsts' = Firsts /\ Lasts' = Lasts /\ Normal' = Normal
        /\ \A v : Kind(v)' = Kind(v) /\ Group(v)' = Group(v) /\ Home(v)' = Home(v)
    BY <1>1, Rigid
  <2>1. pc' = [pc EXCEPT ![0] = "next"] /\ todo' = [todo EXCEPT ![0] = Firsts]
    BY <1>2, <1>4 DEF Start, Goto
  <2>2. \A u \in Threads : u # 0 => pc'[u] = pc[u] /\ todo'[u] = todo[u]
    BY <2>1 DEF Shape
  <2>3. pc'[0] = "next" /\ todo'[0] = Firsts /\ DOMAIN todo' = Threads
    BY <1>1, <2>1 DEF Shape
  <2>4. Firsts \cap Lasts = {}
    BY Kinds3 DEF Shape
  <2>5. Resting' /\ Resting /\ ended = {}
    BY <1>1, <2>2 DEF Phases, Resting, Others
  <2>6. Shape'
    BY <1>1, <2>0, <2>1, <2>2, <2>3 DEF Shape, Home, Others, InCall
  <2>7. Counts'
    BY <1>1, <2>0, <2>2, <2>3, <2>5 DEF Counts, Resting, Others
  <2>8. Phases'
    BY <1>1, <2>0, <2>2, <2>3, <2>4, <2>5 DEF Phases
  <2>9. Passed'
    BY <1>1, <2>0, <2>2, <2>3, <2>4 DEF Passed, Home
  <2> QED BY <2>6, <2>7, <2>8, <2>9
<1> QED BY <1>3, <1>4

(* All of a list have finished when it is as long as their number.          *)
LEMMA AllOf ==
  ASSUME Shape, NEW S, S \subseteq Workers, Cardinality(ended \cap S) = Cardinality(S)
  PROVE  S \subseteq ended
<1>1. IsFiniteSet(S)
  BY Kinds3, FS_Subset DEF Shape
<1>2. ended \cap S \in SUBSET S
  OBVIOUS
<1>3. S = ended \cap S
  BY <1>1, <1>2, FS_Subset
<1> QED BY <1>3

(* The last one of a list starts what comes next.                           *)
LEMMA TestStep ==
  ASSUME OrderInv, NEW t \in Threads, DoneTest(t)
  PROVE  OrderInv'
<1> USE DEF OrderInv
<1> DEFINE w    == Executor(t)
           all  == status[Kind(w)] = Cardinality(Members(Kind(w)))
           rest == todo[t] \ {w}
<1>1. /\ pc[t] = "test" /\ groups' = groups /\ ended' = ended /\ status' = status
      /\ stopped' = stopped
  BY DEF DoneTest
<1>2. /\ todo[t] # {} /\ w \in todo[t] /\ w \in Workers /\ w \in Firsts \cup Normal \cup Lasts
      /\ w \in Firsts <=> t = 0
  BY <1>1, InTurn DEF Shape, InCall
<1>3. w \in ended /\ \A v \in rest : v \in ended => v \in Lasts
  BY <1>1 DEF Counts
<1>4. /\ w \in Firsts => Kind(w) = "before"
      /\ w \in Normal => Kind(w) = "normal" /\ Members(Kind(w)) = Normal
      /\ w \in Lasts => Kind(w) = "after"
      /\ Firsts \subseteq Workers /\ Normal \subseteq Workers
      /\ Firsts \cap Lasts = {} /\ Firsts \cap Normal = {} /\ Lasts \cap Normal = {}
  BY Kinds3 DEF Shape
<1>5. CASE all /\ Kind(w) = "before"
  <2>1. t = 0 /\ w \in Firsts
    BY <1>2, <1>4, <1>5
  <2>2. Firsts \subseteq ended
    BY <1>4, <1>5, <2>1, AllOf DEF Counts, Firsts
  <2>3. rest = {}
    BY <1>3, <1>4, <2>1, <2>2 DEF Shape, Home
  <2>4. Resting
    BY <1>2, <2>1 DEF Phases
  <2>5. NormalRun(0, {})
    BY <1>5, <2>1, <2>3 DEF DoneTest
  <2> QED BY <1>1, <2>2, <2>4, <2>5, RunGroups
<1>6. CASE ~(all /\ Kind(w) = "before")
  <2> DEFINE new == IF all /\ Kind(w) = "normal" THEN rest \cup Lasts ELSE rest
  <2>0. /\ Workers' = Workers /\ Firsts' = Firsts /\ Lasts' = Lasts /\ Normal' = Normal
        /\ \A v : Kind(v)' = Kind(v) /\ Group(v)' = Group(v) /\ Home(v)' = Home(v)
    BY <1>1, Rigid
  <2>1. pc' = [pc EXCEPT ![t] = "next"] /\ todo' = [todo EXCEPT ![t] = new]
    BY <1>6 DEF DoneTest, Goto, Lasts
  <2>2. /\ \A u \in Threads : u # t => pc'[u] = pc[u] /\ todo'[u] = todo[u] /\ Executor(u)' = Executor(u)
        /\ pc'[t] = "next" /\ todo'[t] = new /\ DOMAIN todo' = Threads
    BY <2>1 DEF Shape, Executor
  <2>3. all /\ Kind(w) = "normal" => w \in Normal /\ t # 0 /\ Normal \subseteq ended
    <3>1. SUFFICES ASSUME all, Kind(w) = "normal"
                   PROVE  w \in Normal /\ t # 0 /\ Normal \subseteq ended
      OBVIOUS
    <3>2. w \in Normal /\ t # 0
      BY <1>2, <1>4, <3>1
    <3>3. Cardinality(ended \cap Normal) = Cardinality(Normal)
      BY <1>4, <3>1, <3>2 DEF Counts
    <3> QED BY <1>4, <3>2, <3>3, AllOf
  <2>4. rest \subseteq new /\ new \subseteq rest \cup Lasts /\ (new # rest => new = rest \cup Lasts)
    OBVIOUS
  <2>5. new = rest \/ (new = rest \cup Lasts /\ Normal \subseteq ended /\ t # 0)
    BY <2>3
  <2> HIDE DEF new
  <2>6. 0 \in Threads
    BY DEF Threads
  <2>7. Shape'
    BY <1>1, <2>0, <2>1, <2>2, <2>5, <2>6 DEF Shape, Others, InCall
  <2>8. Counts'
    BY <1>1, <1>3, <2>0, <2>2, <2>4 DEF Counts
  <2>9. t # 0 => ~Resting /\ ~Resting'
    BY <1>1, <2>2 DEF Resting, Others
  <2>10. t = 0 => (Resting' <=> Resting)
    BY <2>2 DEF Resting, Others
  <2>11. Phases'
    BY <1>1, <1>2, <1>3, <1>4, <2>0, <2>2, <2>5, <2>6, <2>9, <2>10 DEF Phases
  <2>12. Passed'
    BY <1>1, <1>3, <2>0, <2>2, <2>5 DEF Passed
  <2> QED BY <2>7, <2>8, <2>11, <2>12
<1> QED BY <1>5, <1>6

(* Every step is one of these.                                              *)
LEMMA StepKinds ==
  ASSUME OrderInv, [Next]_vars
  PROVE  \/ Start
         \/ \E t \in Threads : \/ \E l : Still(t, l)
                              \/ Drop(t) \/ DoneAppend(t) \/ DoneTest(t)
<1>0. Shape
  BY DEF OrderInv
<1>1. 0 \in Threads
  BY DEF Threads
<1>2. CASE UNCHANGED vars \/ PrepareError
  <2>1. Still(0, "ended")
    BY <1>0, <1>2 DEF PrepareError, vars, Still, Shape
  <2> QED BY <1>1, <2>1
<1>3. ASSUME NEW t \in Threads, ThreadStep(t)
      PROVE  \/ \E l : Still(t, l)
             \/ Drop(t) \/ DoneAppend(t) \/ DoneTest(t)
  <2> USE <1>0 DEF Goto, Shape, InCall
  <2>1. CASE Work(t)
    <3>1. CASE Executor(t) \in stopped
      <4>1. pc' = [pc EXCEPT ![t] = "next"]
        BY <2>1, <3>1 DEF Work
      <4>2. Drop(t)
        BY <2>1, <3>1, <4>1 DEF Work, Drop
      <4> QED BY <4>2
    <3>2. CASE Executor(t) \notin stopped
      <4>1. Still(t, "working")
        BY <2>1, <3>2 DEF Work, Still
      <4> QED BY <4>1
    <3> QED BY <3>1, <3>2
  <2>2. CASE ThreadEnds(t)
    <3>1. Still(t, "ended")
      BY <2>2 DEF ThreadEnds, Still
    <3> QED BY <3>1
  <2>3. CASE Write(t)
    <3>1. Still(t, "report")
      BY <2>3 DEF Write, Still
    <3> QED BY <3>1
  <2>4. CASE ProgressBegin(t)
    <3>1. Still(t, "sum")
      BY <2>4 DEF ProgressBegin, Still
    <3> QED BY <3>1
  <2>5. CASE ProgressSum(t)
    <3>1. Still(t, "step")
      BY <2>5 DEF ProgressSum, Still
    <3> QED BY <3>1
  <2>6. CASE ProgressStep(t)
    <3>1. Still(t, "working")
      BY <2>6 DEF ProgressStep, Still
    <3> QED BY <3>1
  <2>7. CASE Finish(t)
    <3>1. Still(t, "append")
      BY <2>7 DEF Finish, Still
    <3> QED BY <3>1
  <2>8. CASE Fail(t)
    <3>1. Still(t, "stop")
      BY <2>8 DEF Fail, Still
    <3> QED BY <3>1
  <2>9. CASE Raise(t)
    <3>1. Still(t, "dead")
      BY <2>9 DEF Raise, Still
    <3> QED BY <3>1
  <2>10. CASE Exit(t)
    <3>1. Still(t, "stop")
      BY <2>10 DEF Exit, Still
    <3> QED BY <3>1
  <2>11. CASE StopWorkers(t)
    <3>1. Workers \ stopped # {} => Min(Workers \ stopped) \in Workers
      BY Kinds3, MinIsLeast
    <3>2. Still(t, "stop")
      BY <2>11, <3>1 DEF StopWorkers, Still
    <3> QED BY <3>2
  <2>12. CASE Return(t)
    <3>1. Drop(t)
      BY <2>12 DEF Return, Drop
    <3> QED BY <3>1
  <2> QED BY <1>3, <2>1, <2>2, <2>3, <2>4, <2>5, <2>6, <2>7, <2>8, <2>9, <2>10, <2>11, <2>12
          DEF ThreadStep, CenterStep, WorkerStep
<1> QED BY <1>2, <1>3 DEF Next

LEMMA OrderStep ==
  ASSUME OrderInv, [Next]_vars
  PROVE  OrderInv'
BY StepKinds, StartStep, StillStep, DropStep, AppendStep, TestStep

-----------------------------------------------------------------------------
(* The order of the calls.                                                  *)

LEMMA OrderIsTurn == ASSUME OrderInv PROVE CalledInTurn
<1> USE DEF OrderInv
<1>1. SUFFICES ASSUME NEW t \in Threads, pc[t] = "working"
               PROVE  LET w == Executor(t)
                      IN  /\ Kind(w) = "normal" => Members("before") \subseteq ended
                          /\ Kind(w) = "after" => Normal \subseteq ended
                          /\ groups[w] # None =>
                               \A v \in Workers : v < w /\ SameRun(v, w) => v \in ended \cup stopped
  BY DEF CalledInTurn
<1> DEFINE w == Executor(t)
<1>2. /\ w \in todo[t] /\ w \in Workers /\ w \in Firsts \cup Normal \cup Lasts
      /\ w \in Firsts <=> t = 0
      /\ \A v \in todo[t] : w <= v
  BY <1>1, InTurn DEF Shape, InCall
<1>3. /\ w \in Firsts => Kind(w) = "before"
      /\ w \in Normal => Kind(w) = "normal"
      /\ w \in Lasts => Kind(w) = "after"
      /\ Workers \subseteq Nat /\ Firsts \cap Lasts = {} /\ Firsts \cap Normal = {}
      /\ Normal \cap Lasts = {}
  BY Kinds3 DEF Shape
<1>4. Kind(w) = "normal" => Firsts \subseteq ended
  BY <1>1, <1>2, <1>3 DEF Phases, Resting, Others
<1>5. Kind(w) = "after" => Normal \subseteq ended
  BY <1>2, <1>3 DEF Phases
<1>6. ASSUME NEW v \in Workers, v < w, SameRun(v, w), groups[w] # None
      PROVE  v \in ended \cup stopped
  <2>n. v \in Nat /\ w \in Nat /\ v < w
    BY <1>2, <1>3, <1>6
  <2>0. v \notin todo[t]
    BY <1>2, <2>n
  <2>1. groups[v] = groups[w] /\ SameRun(w, v)
    BY <1>2, <1>6, Runs DEF Shape
  <2>2. \A u \in Workers : SameRun(u, w) <=> SameRun(u, v)
    BY <1>2, <1>6, <2>1, Runs DEF Shape
  <2>3. CASE w \in Firsts
    <3>1. v \in Firsts
      <4>1. w \in LastRun(BEFORE_ALL)
        BY <2>3 DEF Firsts, Members
      <4>2. ASSUME NEW u \in Workers, u > v, groups[u] = BEFORE_ALL PROVE SameRun(u, v)
        <5>1. CASE u > w
          BY <2>2, <4>1, <4>2, <5>1 DEF LastRun
        <5>2. CASE ~(u > w)
          <6>1. Between(u, v, w)
            BY <1>3, <2>n, <4>2, <5>2 DEF Between
          <6>2. \A x \in Workers : Between(x, u, w) => Between(x, v, w)
            BY <1>3, <2>n, <4>2, <5>2 DEF Between
          <6>3. SameRun(u, w)
            BY <1>6, <6>2 DEF SameRun
          <6> QED BY <2>2, <6>3
        <5> QED BY <5>1, <5>2
      <4> QED BY <2>1, <4>1, <4>2 DEF Firsts, Members, LastRun
    <3> QED BY <1>1, <1>2, <2>0, <2>3, <3>1 DEF Passed, Home
  <2>4. CASE w \in Normal
    <3>1. t # 0 /\ w \in Group(t)
      BY <1>2, <1>3, <2>4 DEF Shape, Home
    <3>2. v \in Group(t)
      <4>1. groups[t] # None /\ t \in Workers
        BY <1>6, <3>1, GroupsApart, Kinds3 DEF Shape, Group
      <4>2. SameRun(w, t)
        BY <3>1, <4>1 DEF Group
      <4>3. SameRun(v, t)
        BY <1>2, <1>6, <4>1, <4>2, Runs DEF Shape
      <4> QED BY <3>1, <4>1, <4>3 DEF Group
    <3> QED BY <1>1, <2>0, <3>1, <3>2 DEF Passed, Home
  <2>5. CASE w \in Lasts
    <3>1. v \in Lasts
      <4>1. w \in LastRun(AFTER_ALL)
        BY <2>5 DEF Lasts, Members
      <4>2. ASSUME NEW u \in Workers, u > v, groups[u] = AFTER_ALL PROVE SameRun(u, v)
        <5>1. CASE u > w
          BY <2>2, <4>1, <4>2, <5>1 DEF LastRun
        <5>2. CASE ~(u > w)
          <6>1. \A x \in Workers : Between(x, u, w) => Between(x, v, w)
            BY <1>3, <2>n, <4>2, <5>2 DEF Between
          <6>2. SameRun(u, w)
            BY <1>3, <1>6, <2>1, <4>1, <4>2, <6>1 DEF SameRun
          <6> QED BY <2>2, <6>2
        <5> QED BY <5>1, <5>2
      <4> QED BY <2>1, <4>1, <4>2 DEF Lasts, Members, LastRun
    <3> QED BY <1>1, <1>2, <2>0, <2>5, <3>1 DEF Passed
  <2> QED BY <1>2, <2>3, <2>4, <2>5
<1> QED BY <1>4, <1>5, <1>6 DEF Firsts

(* Whatever the grouping and whatever fails: no worker is called before its *)
(* turn.                                                                    *)
THEOREM CalledInOrder == Spec => []CalledInTurn
<1>1. Init => OrderInv
  BY OrderInit
<1>2. OrderInv /\ [Next]_vars => OrderInv'
  BY OrderStep
<1>3. OrderInv => CalledInTurn
  BY OrderIsTurn
<1> QED BY <1>1, <1>2, <1>3, PTL DEF Spec

-----------------------------------------------------------------------------
(* What FINISH means.                                                       *)

(* One thread counts its AFTER_ALL workers once each, and has nothing left  *)
(* to call when it emits FINISH.                                            *)
Singly ==
  /\ status["after"] = Cardinality(ended \cap Lasts)
  /\ \A t \in Threads : \A w \in todo[t] : w \in ended => pc[t] = "test" /\ w = Executor(t)
  /\ ended \cap Lasts # {} => \A t \in Threads : todo[t] \cap Normal = {}
  /\ finishes = 0 \/ (finishes = 1 /\ Lasts \subseteq ended /\ \A t \in Threads : todo[t] = {})

FinishInv ==
  /\ finishes \in Nat
  /\ pc[0] = "start" => finishes = 0
  /\ Resting => ended \cap Lasts = {}
  /\ finishes > 0 => Normal \subseteq ended
  /\ finishes > 0 /\ Cardinality(Lasts) <= 1 => Lasts \subseteq ended
  /\ OneThread => Singly

LEMMA OnlyOne ==
  ASSUME Shape, OneThread, NEW t \in Others, NEW u \in Others, pc[t] # "idle", pc[u] # "idle"
  PROVE  t = u
<1> DEFINE S == {w \in Workers : Group(w) # {}}
<1>1. t \in S /\ u \in S
  BY GroupsApart, Kinds3 DEF Shape
<1>2. IsFiniteSet(S) /\ Cardinality(S) <= 1
  <2>1. S \in SUBSET Workers
    OBVIOUS
  <2> QED BY <2>1, Kinds3, FS_Subset DEF Shape, OneThread
<1> QED BY <1>1, <1>2, AtMostOne

LEMMA FinishInit == ASSUME Init PROVE FinishInv
<1>1. Singly
  BY FS_EmptySet DEF Init, Singly
<1> QED BY <1>1 DEF Init, FinishInv

LEMMA RigidOne == ASSUME groups' = groups PROVE OneThread' <=> OneThread
BY Rigid DEF OneThread

LEMMA FinishStart ==
  ASSUME OrderInv, FinishInv, Start
  PROVE  FinishInv'
<1> USE DEF OrderInv
<1>1. /\ pc[0] = "start" /\ groups' = groups /\ ended' = ended /\ status' = status
      /\ finishes' = finishes /\ ended = {} /\ finishes = 0 /\ 0 \in Threads
  BY DEF Start, Threads, Phases, FinishInv
<1>2. Lasts' = Lasts /\ Normal' = Normal
  BY <1>1, Rigid
<1>3. Singly => Singly'
  BY <1>1, <1>2 DEF Singly
<1> QED BY <1>1, <1>2, <1>3, RigidOne DEF FinishInv

LEMMA FinishStill ==
  ASSUME OrderInv, FinishInv, NEW t \in Threads, NEW l, Still(t, l)
  PROVE  FinishInv'
<1> USE DEF OrderInv
<1>1. /\ groups' = groups /\ ended' = ended /\ status' = status /\ todo' = todo
      /\ finishes' = finishes
  BY DEF Still
<1>2. Lasts' = Lasts /\ Normal' = Normal
  BY <1>1, Rigid
<1>3. /\ \A u \in Threads : Executor(u)' = Executor(u)
      /\ \A u \in Threads : pc[u] = "test" => pc'[u] = "test"
      /\ \A u \in Threads : pc'[u] = "start" => pc[u] = "start"
      /\ \A u \in Threads : pc'[u] = "idle" => pc[u] = "idle"
  BY <1>1 DEF Executor, Shape, Still, InCall
<1>4. Resting' => Resting
  BY <1>1, <1>3 DEF Resting, Others
<1>5. Singly => Singly'
  BY <1>1, <1>2, <1>3 DEF Singly
<1>6. 0 \in Threads
  BY DEF Threads
<1> QED BY <1>1, <1>2, <1>3, <1>4, <1>5, <1>6, RigidOne DEF FinishInv

LEMMA FinishDrop ==
  ASSUME OrderInv, FinishInv, NEW t \in Threads, Drop(t)
  PROVE  FinishInv'
<1> USE DEF OrderInv
<1>1. /\ groups' = groups /\ ended' = ended /\ status' = status /\ finishes' = finishes
      /\ todo[t] # {} /\ pc[t] \in {"next", "working"}
  BY DEF Drop
<1>2. Lasts' = Lasts /\ Normal' = Normal
  BY <1>1, Rigid
<1>3. /\ \A u \in Threads : u # t => Executor(u)' = Executor(u) /\ pc'[u] = pc[u] /\ todo'[u] = todo[u]
      /\ pc'[t] = "next" /\ todo'[t] = todo[t] \ {Executor(t)}
  BY DEF Executor, Shape, Drop
<1>4. Resting' => Resting
  BY <1>1, <1>3 DEF Resting, Others
<1>5. Singly => Singly'
  BY <1>1, <1>2, <1>3 DEF Singly
<1>6. 0 \in Threads
  BY DEF Threads
<1> QED BY <1>1, <1>2, <1>3, <1>4, <1>5, <1>6, RigidOne DEF FinishInv

(* Who has a normal or AFTER_ALL worker to call is the one thread.          *)
LEMMA TheOne ==
  ASSUME OrderInv, OneThread, NEW t \in Threads, todo[t] \ Firsts # {},
         NEW u \in Threads, u # t
  PROVE  todo[u] \subseteq Firsts
<1> USE DEF OrderInv
<1>1. t \in Others /\ pc[t] # "idle"
  BY DEF Shape, Home, Others
<1>2. CASE u = 0
  BY <1>2 DEF Shape, Home
<1>3. CASE u # 0
  BY <1>1, <1>3, OnlyOne DEF Shape, Others
<1> QED BY <1>2, <1>3

LEMMA FinishAppend ==
  ASSUME OrderInv, FinishInv, NEW t \in Threads, DoneAppend(t)
  PROVE  FinishInv'
<1> USE DEF OrderInv
<1> DEFINE w == Executor(t)
<1>1. /\ pc[t] = "append" /\ pc' = [pc EXCEPT ![t] = "test"] /\ todo' = todo
      /\ ended' = ended \cup {w} /\ status' = [status EXCEPT ![Kind(w)] = @ + 1]
      /\ groups' = groups /\ finishes' = finishes
  BY DEF DoneAppend, Goto
<1>2. /\ todo[t] # {} /\ w \in todo[t] /\ w \in Firsts \cup Normal \cup Lasts
      /\ w \in Firsts <=> t = 0
  BY <1>1, InTurn DEF Shape, InCall
<1>3. Lasts' = Lasts /\ Normal' = Normal
  BY <1>1, Rigid
<1>4. /\ \A u \in Threads : u # t => pc'[u] = pc[u]
      /\ \A u \in Threads : Executor(u)' = Executor(u)
      /\ pc'[t] = "test" /\ 0 \in Threads
  BY <1>1 DEF Shape, Executor, Threads
<1>5. Firsts \cap Lasts = {} /\ Firsts \cap Normal = {} /\ Lasts \cap Normal = {}
  BY Kinds3 DEF Shape
<1>6. Resting' => ended' \cap Lasts = {}
  <2>1. Resting' => Resting /\ t = 0
    BY <1>1, <1>4 DEF Resting, Others
  <2> QED BY <1>1, <1>2, <1>5, <2>1 DEF FinishInv
<1>7. ASSUME OneThread, Singly PROVE Singly'
  <2>1. w \notin ended
    BY <1>1, <1>2, <1>7 DEF Singly
  <2>2. status'["after"] = Cardinality(ended' \cap Lasts)
    <3>1. CASE w \in Lasts
      <4>1. Kind(w) = "after"
        BY <3>1, Kinds3 DEF Shape
      <4>2. ended' \cap Lasts = (ended \cap Lasts) \cup {w} /\ w \notin ended \cap Lasts
        BY <1>1, <2>1, <3>1
      <4>3. IsFiniteSet(ended \cap Lasts)
        <5>1. ended \cap Lasts \in SUBSET Workers /\ IsFiniteSet(Workers)
          BY Kinds3 DEF Shape
        <5> QED BY <5>1, FS_Subset
      <4>4. Cardinality((ended \cap Lasts) \cup {w}) = Cardinality(ended \cap Lasts) + 1
        BY <4>2, <4>3, FS_AddElement
      <4> QED BY <1>1, <1>7, <4>1, <4>2, <4>4 DEF Counts, Singly
    <3>2. CASE w \notin Lasts
      <4>1. Kind(w) # "after"
        BY <1>2, <3>2, Kinds3 DEF Shape
      <4>2. ended' \cap Lasts = ended \cap Lasts
        BY <1>1, <3>2
      <4> QED BY <1>1, <1>7, <4>1, <4>2 DEF Counts, Singly
    <3> QED BY <3>1, <3>2
  <2>3. \A u \in Threads : u # t => w \notin todo[u]
    <3>1. CASE w \in Firsts
      BY <1>2, <1>5, <3>1, GroupsApart DEF Shape, Home
    <3>2. CASE w \notin Firsts
      BY <1>2, <1>7, <3>2, TheOne
    <3> QED BY <3>1, <3>2
  <2>4. \A u \in Threads : \A v \in todo'[u] : v \in ended' => pc'[u] = "test" /\ v = Executor(u)'
    BY <1>1, <1>4, <1>7, <2>3 DEF Singly
  <2>5. w \in Lasts => \A u \in Threads : todo[u] \cap Normal = {}
    BY <1>2, <1>5, <1>7, TheOne DEF Phases
  <2>6. ended' \cap Lasts # {} => \A u \in Threads : todo'[u] \cap Normal = {}
    BY <1>1, <1>7, <2>5 DEF Singly
  <2>7. finishes = 0
    BY <1>2, <1>7 DEF Singly
  <2> QED BY <1>1, <1>3, <2>2, <2>4, <2>6, <2>7 DEF Singly
<1> QED BY <1>1, <1>3, <1>4, <1>6, <1>7, RigidOne DEF FinishInv

LEMMA FinishTest ==
  ASSUME OrderInv, FinishInv, NEW t \in Threads, DoneTest(t)
  PROVE  FinishInv'
<1> USE DEF OrderInv
<1> DEFINE w    == Executor(t)
           all  == status[Kind(w)] = Cardinality(Members(Kind(w)))
           rest == todo[t] \ {w}
           over == all /\ (Kind(w) = "after" \/ (Kind(w) = "normal" /\ Members("after") = {}))
<1>1. /\ pc[t] = "test" /\ groups' = groups /\ ended' = ended /\ status' = status
      /\ finishes' = IF over THEN finishes + 1 ELSE finishes
      /\ 0 \in Threads
  BY DEF DoneTest, Threads
<1>2. /\ todo[t] # {} /\ w \in todo[t] /\ w \in Workers /\ w \in Firsts \cup Normal \cup Lasts
      /\ w \in Firsts <=> t = 0
  BY <1>1, InTurn DEF Shape, InCall
<1>3. w \in ended
  BY <1>1 DEF Counts
<1>4. /\ w \in Firsts => Kind(w) = "before"
      /\ w \in Normal => Kind(w) = "normal" /\ Members(Kind(w)) = Normal
      /\ w \in Lasts => Kind(w) = "after" /\ Members(Kind(w)) = Lasts
      /\ Normal \subseteq Workers /\ Lasts \subseteq Workers
      /\ Firsts \cap Lasts = {} /\ Firsts \cap Normal = {} /\ Lasts \cap Normal = {}
      /\ Lasts = Members("after")
  BY Kinds3 DEF Shape, Lasts
<1>5. Lasts' = Lasts /\ Normal' = Normal
  BY <1>1, Rigid
<1>6. all /\ w \in Normal => Normal \subseteq ended
  BY <1>4, AllOf DEF Counts
<1>7. over => Normal \subseteq ended
  BY <1>2, <1>4, <1>6 DEF Phases
<1>8. over /\ Cardinality(Lasts) <= 1 => Lasts \subseteq ended
  <2>1. SUFFICES ASSUME over, Cardinality(Lasts) <= 1, NEW v \in Lasts PROVE v \in ended
    OBVIOUS
  <2>2. w \in Lasts
    BY <1>2, <1>4, <2>1
  <2>3. IsFiniteSet(Lasts)
    BY Kinds3, FS_Subset DEF Shape
  <2>4. v = w
    BY <2>1, <2>2, <2>3, AtMostOne
  <2> QED BY <1>3, <2>4
<1>9. /\ pc'[0] # "start"
      /\ Resting' => ended' \cap Lasts = {}
  <2>1. pc'[t] # "start" /\ pc'[t] # "idle" /\ (t # 0 => pc'[0] = pc[0] \/ pc'[0] = "next")
    BY <1>1, <1>2, <1>4 DEF DoneTest, NormalRun, Goto, Shape
  <2>2. CASE t = 0
    <3>1. Resting
      BY <1>2, <2>2 DEF Phases
    <3> QED BY <1>1, <2>1, <2>2, <3>1 DEF FinishInv
  <2>3. CASE t # 0
    <3>1. ~Resting /\ ~Resting'
      BY <1>1, <2>1, <2>3 DEF Resting, Others
    <3> QED BY <1>1, <2>1, <2>3, <3>1 DEF Phases
  <2> QED BY <2>2, <2>3
<1>10. ASSUME OneThread, Singly PROVE Singly'
  <2>1. finishes = 0
    BY <1>2, <1>10 DEF Singly
  <2>2. \A v \in rest : v \notin ended
    BY <1>10 DEF Singly
  <2>3. status'["after"] = Cardinality(ended' \cap Lasts')
    BY <1>1, <1>5, <1>10 DEF Singly
  <2>4. CASE all /\ Kind(w) = "before"
    <3>1. t = 0 /\ w \in Firsts /\ ~over
      BY <1>2, <1>4, <2>4
    <3>2. Resting
      BY <1>2, <3>1 DEF Phases
    <3>3. ended \cap Lasts = {} /\ ended \cap Normal = {}
      BY <3>2 DEF FinishInv, Phases
    <3>4. /\ todo'[0] = rest
          /\ \A u \in Threads : u # 0 => todo'[u] = Group(u) \/ todo'[u] = todo[u]
      BY <1>1, <2>4, <3>1 DEF DoneTest, NormalRun
    <3>5. \A u \in Threads : u # 0 => todo'[u] \subseteq Normal
      BY <3>2, <3>4, GroupsApart DEF Resting, Others, Shape
    <3>6. \A u \in Threads : \A v \in todo'[u] : v \notin ended
      BY <2>2, <3>3, <3>4, <3>5
    <3> QED BY <1>1, <1>5, <2>1, <2>3, <3>1, <3>3, <3>6 DEF Singly
  <2>5. CASE ~(all /\ Kind(w) = "before")
    <3> DEFINE new == IF all /\ Kind(w) = "normal" THEN rest \cup Lasts ELSE rest
    <3>1. pc' = [pc EXCEPT ![t] = "next"] /\ todo' = [todo EXCEPT ![t] = new]
      BY <2>5 DEF DoneTest, Goto, Lasts
    <3>2. /\ \A u \in Threads : u # t => pc'[u] = pc[u] /\ todo'[u] = todo[u] /\ Executor(u)' = Executor(u)
          /\ todo'[t] = new
      BY <3>1 DEF Shape, Executor
    <3>3. new # rest => new = rest \cup Lasts /\ w \in Normal /\ Normal \subseteq ended
      BY <1>2, <1>4, <1>6
    <3>4. w \in Normal => ended \cap Lasts = {}
      BY <1>2, <1>10 DEF Singly
    <3>5. \A v \in new : v \notin ended
      BY <2>2, <3>3, <3>4
    <3>6. \A u \in Threads : \A v \in todo'[u] : v \in ended => pc'[u] = "test" /\ v = Executor(u)'
      BY <1>10, <3>2, <3>5 DEF Singly
    <3>7. ended \cap Lasts # {} => \A u \in Threads : todo'[u] \cap Normal = {}
      BY <1>4, <1>10, <3>2, <3>3, <3>4 DEF Singly
    <3>8. CASE ~over
      BY <1>1, <1>5, <2>1, <2>3, <3>6, <3>7, <3>8 DEF Singly
    <3>9. CASE over
      <4>1. Lasts \subseteq ended
        <5>1. CASE w \in Lasts
          BY <1>4, <1>10, <3>9, <5>1, AllOf DEF Singly
        <5>2. CASE w \notin Lasts
          BY <1>2, <1>4, <3>9, <5>2
        <5> QED BY <5>1, <5>2
      <4>2. t # 0
        BY <1>2, <1>4, <3>9
      <4>3. new = {}
        <5>1. new \subseteq Normal \cup Lasts
          BY <1>2, <1>4, <4>2, GroupsApart DEF Shape, Home
        <5> QED BY <1>7, <3>5, <3>9, <4>1, <5>1
      <4>4. todo[0] = {}
        BY <1>1, <4>2 DEF Phases, Resting, Others
      <4>5. \A u \in Threads : u # t => todo'[u] = {}
        <5>1. ASSUME NEW u \in Threads, u # t, u # 0 PROVE todo[u] = {}
          <6>1. pc[u] = "idle"
            BY <1>1, <1>10, <4>2, <5>1, OnlyOne DEF Others
          <6> QED BY <5>1, <6>1 DEF Shape, Others
        <5> QED BY <3>2, <4>4, <5>1
      <4> QED BY <1>1, <1>5, <2>1, <2>3, <3>2, <3>6, <3>7, <3>9, <4>1, <4>3, <4>5 DEF Singly
    <3> QED BY <3>8, <3>9
  <2> QED BY <2>4, <2>5
<1>11. finishes' \in Nat /\ (finishes' > 0 => finishes > 0 \/ over)
  BY <1>1 DEF FinishInv
<1>12. finishes' > 0 => Normal \subseteq ended
  BY <1>7, <1>11 DEF FinishInv
<1>13. finishes' > 0 /\ Cardinality(Lasts) <= 1 => Lasts \subseteq ended
  BY <1>8, <1>11 DEF FinishInv
<1> QED BY <1>1, <1>5, <1>9, <1>10, <1>11, <1>12, <1>13, RigidOne DEF FinishInv

LEMMA FinishStep ==
  ASSUME OrderInv, FinishInv, [Next]_vars
  PROVE  FinishInv'
BY StepKinds, FinishStart, FinishStill, FinishDrop, FinishAppend, FinishTest

(* FINISH restarts the device when every worker has done its part: for any  *)
(* grouping of the normal workers, and whoever fails, raises or is stopped. *)
THEOREM FinishIsComplete == Spec => []FinishMeansAll
<1>1. Init => OrderInv /\ FinishInv
  BY OrderInit, FinishInit
<1>2. (OrderInv /\ FinishInv) /\ [Next]_vars => (OrderInv /\ FinishInv)'
  BY OrderStep, FinishStep
<1>3. OrderInv /\ FinishInv => FinishMeansAll
  BY DEF FinishInv, FinishMeansAll, Singly, Lasts
<1> QED BY <1>1, <1>2, <1>3, PTL DEF Spec

(* The one thread of the providers emits FINISH once.                       *)
THEOREM FinishIsUnique == Spec => []FinishOnce
<1>1. Init => OrderInv /\ FinishInv
  BY OrderInit, FinishInit
<1>2. (OrderInv /\ FinishInv) /\ [Next]_vars => (OrderInv /\ FinishInv)'
  BY OrderStep, FinishStep
<1>3. OrderInv /\ FinishInv => FinishOnce
  BY DEF FinishInv, FinishOnce, Singly
<1> QED BY <1>1, <1>2, <1>3, PTL DEF Spec

-----------------------------------------------------------------------------
(* Types.                                                                   *)

Amounts == written \in [Workers -> 0..Size] /\ reported \in [Workers -> 0..Size]

LEMMA AmountsStep ==
  ASSUME OrderInv, Amounts, [Next]_vars
  PROVE  Amounts'
<1> USE DEF Amounts
<1>1. groups' = groups /\ Workers' = Workers
  <2>1. groups' = groups
    BY DEF Next, vars, Start, PrepareError, ThreadStep, CenterStep, WorkerStep, StopWorkers, Work,
           ThreadEnds, ProgressBegin, ProgressSum, ProgressStep, DoneAppend, DoneTest, Write,
           Finish, Return, Fail, Raise, Exit
  <2> QED BY <2>1, Rigid
<1>2. CASE written' = written /\ reported' = reported
  BY <1>1, <1>2
<1>3. ASSUME NEW t \in Threads, Write(t) PROVE Amounts'
  <2>1. Executor(t) \in Workers
    BY <1>3, InTurn DEF Write, OrderInv, Shape, InCall
  <2>2. written[Executor(t)] + 1 \in 0..Size
    BY <1>3, <2>1, UpgradeCenterAssumption DEF Write
  <2> QED BY <1>1, <1>3, <2>1, <2>2 DEF Write
<1>4. ASSUME NEW t \in Threads, ProgressSum(t) PROVE Amounts'
  <2>1. Executor(t) \in Workers
    BY <1>4, InTurn DEF ProgressSum, OrderInv, Shape, InCall
  <2> QED BY <1>1, <1>4, <2>1 DEF ProgressSum
<1>5. \/ written' = written /\ reported' = reported
      \/ \E t \in Threads : Write(t) \/ ProgressSum(t)
  BY DEF Next, vars, progressVars, Start, PrepareError, ThreadStep, CenterStep, WorkerStep,
         StopWorkers, Work, ThreadEnds, ProgressBegin, ProgressStep, DoneAppend, DoneTest,
         Finish, Return, Fail, Raise, Exit
<1> QED BY <1>2, <1>3, <1>4, <1>5

(* The types of the center, for all groupings and sizes.                    *)
THEOREM TypeCorrect == Spec => []TypeOK
<1>1. Init => OrderInv /\ FinishInv /\ Amounts
  <2>1. 0 \in 0..Size
    BY UpgradeCenterAssumption
  <2>2. Init => Amounts
    BY <2>1 DEF Init, Amounts
  <2> QED BY <2>2, OrderInit, FinishInit
<1>2. OrderInv /\ FinishInv /\ Amounts /\ [Next]_vars => (OrderInv /\ FinishInv /\ Amounts)'
  BY OrderStep, FinishStep, AmountsStep
<1>3. OrderInv /\ FinishInv /\ Amounts => TypeOK
  <2> SUFFICES ASSUME OrderInv, FinishInv, Amounts PROVE TypeOK
    OBVIOUS
  <2>1. IsFiniteSet(Firsts) /\ IsFiniteSet(Normal)
    BY Kinds3, FS_Subset DEF OrderInv, Shape
  <2>2. Cardinality(ended \cap Firsts) <= Cardinality(Firsts)
    BY <2>1, FS_Intersection
  <2>3. Cardinality(ended \cap Normal) <= Cardinality(Normal)
    BY <2>1, FS_Intersection
  <2>4. \A t \in Threads : todo[t] \subseteq Workers
    BY Kinds3, GroupsApart DEF OrderInv, Shape, Home
  <2> QED BY <2>2, <2>3, <2>4
          DEF TypeOK, OrderInv, Shape, InCall, Counts, FinishInv, Amounts, Firsts
<1> QED BY <1>1, <1>2, <1>3, PTL DEF Spec

-----------------------------------------------------------------------------
(* Sums.                                                                    *)

(* SumFunction takes one element at a time.                                 *)
One(s) == CHOOSE x \in s : TRUE
SumsTo(f, S, g) ==
  g = [s \in SUBSET S |-> IF s = {} THEN 0 ELSE f[One(s)] + g[s \ {One(s)}]]

(* A nonempty subset of a finite set, and what is left without one element. *)
LEMMA OneLess ==
  ASSUME NEW S, IsFiniteSet(S), NEW s \in SUBSET S
  PROVE  /\ Cardinality(s) \in Nat /\ (Cardinality(s) = 0 <=> s = {})
         /\ s # {} => /\ One(s) \in s /\ s \ {One(s)} \in SUBSET S
                      /\ Cardinality(s \ {One(s)}) = Cardinality(s) - 1
<1>1. IsFiniteSet(s) /\ Cardinality(s) \in Nat
  BY FS_Subset, FS_CardinalityType
<1>2. Cardinality(s) = 0 <=> s = {}
  BY <1>1, FS_EmptySet
<1>3. ASSUME s # {}
      PROVE  /\ One(s) \in s /\ s \ {One(s)} \in SUBSET S
             /\ Cardinality(s \ {One(s)}) = Cardinality(s) - 1
  <2>1. One(s) \in s
    BY <1>3 DEF One
  <2> QED BY <1>1, <2>1, FS_RemoveElement
<1> QED BY <1>1, <1>2, <1>3

LEMMA SumExists ==
  ASSUME NEW S, IsFiniteSet(S), NEW f
  PROVE  \E g : SumsTo(f, S, g)
<1> DEFINE Sum(s, g)  == IF s = {} THEN 0 ELSE f[One(s)] + g[s \ {One(s)}]
           Fits(n, g) == \A s \in SUBSET S : Cardinality(s) <= n => g[s] = Sum(s, g)
           Bad == {n \in Nat : ~\E g : Fits(n, g)}
<1>1. Bad = {}
  <2> SUFFICES ASSUME Bad # {} PROVE FALSE
    OBVIOUS
  <2>1. Bad \subseteq Nat
    OBVIOUS
  <2>2. PICK n \in Bad : \A m \in Bad : n <= m
    BY <2>1, MinIsLeast
  <2>3. n # 0
    <3>1. ASSUME NEW s \in SUBSET S, Cardinality(s) <= 0 PROVE s = {}
      <4>1. Cardinality(s) \in Nat /\ (Cardinality(s) = 0 <=> s = {})
        BY OneLess
      <4> QED BY <3>1, <4>1
    <3>2. Fits(0, [s \in {{}} |-> 0])
      BY <3>1
    <3> QED BY <3>2
  <2>4. n \in Nat /\ n - 1 \in Nat /\ n - 1 \notin Bad
    <3> HIDE DEF Fits
    <3>1. n \in Nat
      OBVIOUS
    <3> HIDE DEF Bad
    <3> QED BY <2>2, <2>3, <3>1
  <2>5. PICK g : Fits(n - 1, g)
    BY <2>4
  <2> DEFINE h == [s \in SUBSET S |-> IF Cardinality(s) < n THEN g[s] ELSE Sum(s, g)]
  <2>6. Fits(n, h)
    <3> SUFFICES ASSUME NEW s \in SUBSET S, Cardinality(s) <= n PROVE h[s] = Sum(s, h)
      OBVIOUS
    <3>1. h[s] = Sum(s, g)
      <4>1. CASE Cardinality(s) < n
        <5>0. Cardinality(s) \in Nat
          BY OneLess
        <5>1. Cardinality(s) <= n - 1
          BY <2>4, <4>1, <5>0
        <5> QED BY <2>5, <4>1, <5>1
      <4>2. CASE ~(Cardinality(s) < n)
        BY <4>2
      <4> QED BY <4>1, <4>2
    <3>2. s # {} => h[s \ {One(s)}] = g[s \ {One(s)}]
      <4> SUFFICES ASSUME s # {} PROVE h[s \ {One(s)}] = g[s \ {One(s)}]
        OBVIOUS
      <4>1. s \ {One(s)} \in SUBSET S /\ Cardinality(s \ {One(s)}) < n
        BY <2>4, OneLess
      <4> QED BY <4>1
    <3> QED BY <3>1, <3>2
  <2> QED BY <2>2, <2>6
<1>2. Cardinality(S) \in Nat
  BY FS_CardinalityType
<1>3. PICK g : Fits(Cardinality(S), g)
  BY <1>1, <1>2
<1> DEFINE h == [s \in SUBSET S |-> g[s]]
<1>4. ASSUME NEW s \in SUBSET S PROVE h[s] = Sum(s, h)
  <2>1. g[s] = Sum(s, g)
    BY <1>3, FS_Subset
  <2>2. s # {} => h[s \ {One(s)}] = g[s \ {One(s)}]
    BY OneLess
  <2> QED BY <2>1, <2>2
<1>5. h = [s \in SUBSET S |-> Sum(s, h)]
  BY <1>4
<1> QED BY <1>5 DEF SumsTo

LEMMA SumIs ==
  ASSUME NEW f, IsFiniteSet(DOMAIN f)
  PROVE  \E g : SumsTo(f, DOMAIN f, g) /\ SumFunction(f) = g[DOMAIN f]
<1> DEFINE g == CHOOSE g : g = [s \in SUBSET DOMAIN f |->
                  IF s = {} THEN 0 ELSE f[CHOOSE x \in s : TRUE] + g[s \ {CHOOSE x \in s : TRUE}]]
<1>1. SumsTo(f, DOMAIN f, g)
  <2>1. PICK h : SumsTo(f, DOMAIN f, h)
    BY SumExists
  <2>2. h = [s \in SUBSET DOMAIN f |->
          IF s = {} THEN 0 ELSE f[CHOOSE x \in s : TRUE] + h[s \ {CHOOSE x \in s : TRUE}]]
    BY <2>1 DEF SumsTo, One
  <2> QED BY <2>2 DEF SumsTo, One
<1>2. SumFunction(f) = g[DOMAIN f]
  BY DEF SumFunction, SumFunctionOnSet, FoldFunctionOnSet, MapThenFoldSet
<1> HIDE DEF g
<1> QED BY <1>1, <1>2

(* The sum of numbers of a kind that is closed under addition is of it.     *)
LEMMA SumStays ==
  ASSUME NEW T, 0 \in T, \A a, b \in T : a + b \in T,
         NEW S, IsFiniteSet(S), NEW f \in [S -> T]
  PROVE  SumFunction(f) \in T
<1>1. PICK g : SumsTo(f, S, g) /\ SumFunction(f) = g[S]
  BY SumIs
<1> DEFINE Bad == {n \in Nat : \E s \in SUBSET S : Cardinality(s) = n /\ g[s] \notin T}
<1>2. Bad = {}
  <2> SUFFICES ASSUME Bad # {} PROVE FALSE
    OBVIOUS
  <2>1. Bad \subseteq Nat
    OBVIOUS
  <2>2. PICK n \in Bad : \A m \in Bad : n <= m
    BY <2>1, MinIsLeast
  <2>3. PICK s \in SUBSET S : Cardinality(s) = n /\ g[s] \notin T
    OBVIOUS
  <2>4. g[s] = IF s = {} THEN 0 ELSE f[One(s)] + g[s \ {One(s)}]
    BY <1>1 DEF SumsTo
  <2>5. s # {}
    BY <2>3, <2>4
  <2>6. /\ One(s) \in S /\ s \ {One(s)} \in SUBSET S /\ Cardinality(s \ {One(s)}) = n - 1
        /\ n - 1 \in Nat /\ n \in Nat
    <3>1. n \in Nat /\ n # 0
      BY <2>3, <2>5, OneLess
    <3> QED BY <2>3, <2>5, <3>1, OneLess
  <2>7. g[s \ {One(s)}] \in T
    BY <2>2, <2>6
  <2> QED BY <2>3, <2>4, <2>5, <2>6, <2>7
<1>3. Cardinality(S) \in Nat
  BY FS_CardinalityType
<1> QED BY <1>1, <1>2, <1>3

-----------------------------------------------------------------------------
(* The progress bar.                                                        *)

(* While the one thread is in handle_worker_progress, self.current is 0, or *)
(* already what is to be shown, and last_current is where the bar stands.   *)
Adding == {"sum", "step"}
Total  == SumFunction(reported)

BarInv ==
  /\ DOMAIN last = Threads
  /\ \A t \in Threads : pc[t] \in Adding \cup {"report"} => t # 0
  /\ OneThread =>
       /\ bar \in Nat
       /\ (\A t \in Threads : pc[t] \notin Adding) => bar = Total /\ current = bar
       /\ \A t \in Threads :
            /\ pc[t] = "sum" => current = 0 /\ last[t] = bar /\ bar = Total
            /\ pc[t] = "step" => current = Total /\ last[t] = bar

LEMMA TotalIsNat ==
  ASSUME Shape, NEW f \in [Workers -> 0..Size]
  PROVE  SumFunction(f) \in Nat
<1>1. IsFiniteSet(Workers)
  BY Kinds3 DEF Shape
<1>2. f \in [Workers -> Nat]
  BY UpgradeCenterAssumption
<1>3. 0 \in Nat /\ \A a, b \in Nat : a + b \in Nat
  OBVIOUS
<1> QED BY <1>1, <1>2, <1>3, SumStays

LEMMA BarInit == ASSUME Init PROVE BarInv
<1>1. IsFiniteSet(Workers)
  BY OrderInit, Kinds3 DEF OrderInv, Shape
<1>2. reported \in [Workers -> {0}]
  BY DEF Init
<1>3. 0 \in {0} /\ \A a, b \in {0} : a + b \in {0}
  OBVIOUS
<1>4. Total \in {0}
  BY <1>1, <1>2, <1>3, SumStays DEF Total
<1> QED BY <1>4 DEF Init, BarInv, Adding

(* A step that has nothing to do with the bar, but for a worker's report.   *)
Apart ==
  /\ UNCHANGED <<groups, reported, current, bar, last>>
  /\ \A u \in Threads :
       /\ pc[u] \in Adding => pc'[u] = pc[u]
       /\ pc'[u] \in Adding \cup {"report"} => pc'[u] = pc[u] \/ (pc'[u] = "report" /\ u # 0)

LEMMA SameThreads == Threads' = Threads
BY DEF Threads

LEMMA BarApart ==
  ASSUME BarInv, Apart
  PROVE  BarInv'
<1>1. Total' = Total /\ (OneThread' <=> OneThread)
  BY RigidOne DEF Apart, Total
<1>2. \A u \in Threads : pc'[u] \in Adding => pc'[u] = pc[u]
  BY DEF Apart, Adding
<1> QED BY <1>1, <1>2, SameThreads DEF BarInv, Apart, Adding

(* normal_run finds nobody at work on the bar.                              *)
LEMMA BarRuns ==
  ASSUME OrderInv, NEW ws, NormalRun(0, ws), Resting, pc[0] \in {"start", "test"},
         UNCHANGED <<groups, reported, current, bar, last>>
  PROVE  Apart
<1>1. \A u \in Threads : pc[u] \notin Adding
  BY DEF Resting, Others, Adding
<1>2. \A u \in Threads : pc'[u] = "next" \/ pc'[u] = pc[u]
  BY DEF NormalRun
<1> QED BY <1>1, <1>2 DEF Apart, Adding

LEMMA BarCalls ==
  ASSUME OrderInv, NEW t \in Threads,
         \/ Work(t) \/ ThreadEnds(t) \/ DoneAppend(t) \/ DoneTest(t) \/ Write(t) \/ Finish(t)
         \/ Return(t) \/ Fail(t) \/ Raise(t) \/ Exit(t) \/ StopWorkers(t)
  PROVE  Apart
<1>1. DOMAIN pc = Threads
  BY DEF OrderInv, Shape
<1>2. UNCHANGED <<groups, reported, current, bar, last>>
  BY DEF progressVars, Work, ThreadEnds, DoneAppend, DoneTest, Write, Finish, Return, Fail, Raise, Exit,
         StopWorkers
<1>3. CASE Write(t)
  <2>1. Executor(t) \in Normal => t # 0
    BY <1>3, InTurn, Kinds3 DEF Write, OrderInv, Shape, InCall
  <2> QED BY <1>1, <1>2, <1>3, <2>1 DEF Write, Goto, Apart, Adding
<1>4. CASE DoneTest(t)
  <2> DEFINE w == Executor(t)
  <2>1. CASE Kind(w) = "before" /\ status[Kind(w)] = Cardinality(Members(Kind(w)))
    <3>1. todo[t] # {} /\ pc[t] = "test"
      BY <1>4 DEF DoneTest, OrderInv, Shape, InCall
    <3>2. t = 0
      <4>1. w \in Firsts \cup Normal \cup Lasts /\ (w \in Firsts <=> t = 0)
        BY <3>1, InTurn DEF OrderInv
      <4>2. (w \in Normal => Kind(w) = "normal") /\ (w \in Lasts => Kind(w) = "after")
        BY Kinds3 DEF OrderInv, Shape
      <4> QED BY <2>1, <4>1, <4>2
    <3>3. Resting
      BY <3>1, <3>2 DEF OrderInv, Phases
    <3>4. NormalRun(0, todo[t] \ {w})
      BY <1>4, <2>1, <3>2 DEF DoneTest
    <3> QED BY <1>2, <3>1, <3>2, <3>3, <3>4, BarRuns
  <2>2. CASE ~(Kind(w) = "before" /\ status[Kind(w)] = Cardinality(Members(Kind(w))))
    <3>1. pc[t] = "test" /\ pc' = [pc EXCEPT ![t] = "next"]
      BY <1>4, <2>2 DEF DoneTest, Goto
    <3> QED BY <1>1, <1>2, <3>1 DEF Apart, Adding
  <2> QED BY <2>1, <2>2
<1>5. CASE ~Write(t) /\ ~DoneTest(t)
  <2>1. \/ pc' = pc
        \/ \E l \in {"working", "next", "ended", "append", "test", "stop", "dead"} :
             pc[t] \notin Adding /\ pc' = [pc EXCEPT ![t] = l]
    BY <1>5 DEF Adding, Goto, Work, ThreadEnds, DoneAppend, Finish, Return, Fail, Raise, Exit, StopWorkers
  <2> QED BY <1>1, <1>2, <2>1 DEF Apart, Adding
<1> QED BY <1>3, <1>4, <1>5

(* handle_worker_progress, step by step; the one thread is alone in it.     *)
LEMMA BarAdds ==
  ASSUME OrderInv, Amounts, Amounts', OrderInv', BarInv, NEW t \in Threads,
         ProgressBegin(t) \/ ProgressSum(t) \/ ProgressStep(t)
  PROVE  BarInv'
<1>1. DOMAIN pc = Threads /\ groups' = groups /\ (OneThread' <=> OneThread)
  BY RigidOne DEF OrderInv, Shape, ProgressBegin, ProgressSum, ProgressStep
<1>2. pc[t] \in Adding \cup {"report"} /\ t # 0
  BY DEF BarInv, Adding, ProgressBegin, ProgressSum, ProgressStep
<1>3. \A u \in Threads : u # t => pc'[u] = pc[u]
  BY <1>1 DEF Goto, ProgressBegin, ProgressSum, ProgressStep
<1>4. pc'[t] \in Adding \cup {"working"}
  BY <1>1 DEF Goto, Adding, ProgressBegin, ProgressSum, ProgressStep
<1>5. \A u \in Threads : pc'[u] \in Adding \cup {"report"} => u # 0
  BY <1>2, <1>3, <1>4 DEF BarInv
<1>6. ASSUME OneThread
      PROVE  /\ bar' \in Nat
             /\ (\A u \in Threads : pc'[u] \notin Adding) => bar' = Total' /\ current' = bar'
             /\ \A u \in Threads :
                  /\ pc'[u] = "sum" => current' = 0 /\ last'[u] = bar' /\ bar' = Total'
                  /\ pc'[u] = "step" => current' = Total' /\ last'[u] = bar'
  <2>1. \A u \in Threads : u # t => pc[u] \notin Adding /\ pc'[u] \notin Adding
    <3> SUFFICES ASSUME NEW u \in Threads, u # t, pc[u] \in Adding PROVE FALSE
      BY <1>3
    <3>1. u # 0
      BY DEF BarInv
    <3>2. t \in Others /\ u \in Others /\ pc[t] # "idle" /\ pc[u] # "idle"
      BY <1>2, <3>1 DEF Others, Adding
    <3> QED BY <1>6, <3>2, OnlyOne DEF OrderInv
  <2>0. bar \in Nat
    BY <1>6 DEF BarInv
  <2>2. Total \in Nat /\ Total' \in Nat
    <3>1. Workers' = Workers
      BY <1>1 DEF Workers
    <3> QED BY <3>1, TotalIsNat DEF Total, Amounts, OrderInv
  <2>3. CASE ProgressBegin(t)
    <3>1. \A u \in Threads : pc[u] \notin Adding
      BY <2>1, <2>3 DEF ProgressBegin, Adding
    <3>2. bar = Total /\ current = bar
      BY <1>6, <3>1 DEF BarInv
    <3>3. /\ pc'[t] = "sum" /\ current' = 0 /\ bar' = bar
          /\ Total' = Total /\ last'[t] = current
      BY <1>1, <2>3 DEF ProgressBegin, Goto, Total, BarInv
    <3> QED BY <2>0, <2>1, <3>2, <3>3 DEF Adding
  <2>4. CASE ProgressSum(t)
    <3>1. current = 0 /\ last[t] = bar
      BY <1>6, <2>4 DEF BarInv, ProgressSum
    <3>2. pc'[t] = "step" /\ current' = current + Total' /\ last' = last /\ bar' = bar
      BY <1>1, <2>4 DEF ProgressSum, Goto, Total
    <3>3. current' = Total'
      <4>1. \A n \in Nat : 0 + n = n
        OBVIOUS
      <4> QED BY <2>2, <3>1, <3>2, <4>1
    <3> QED BY <2>0, <2>1, <3>1, <3>2, <3>3 DEF Adding
  <2>5. CASE ProgressStep(t)
    <3>1. current = Total /\ last[t] = bar
      BY <1>6, <2>5 DEF BarInv, ProgressStep
    <3>2. pc'[t] = "working" /\ current' = current /\ bar' = (bar + current) - last[t] /\ Total' = Total
      BY <1>1, <2>5 DEF ProgressStep, Goto, Total
    <3>3. bar' = Total
      BY <2>0, <2>2, <3>1, <3>2
    <3> QED BY <2>1, <2>2, <3>1, <3>2, <3>3 DEF Adding
  <2> QED BY <2>3, <2>4, <2>5
<1>7. DOMAIN last' = Threads
  BY DEF BarInv, ProgressBegin, ProgressSum, ProgressStep
<1> QED BY <1>1, <1>5, <1>6, <1>7, SameThreads DEF BarInv

LEMMA BarStep ==
  ASSUME OrderInv, Amounts, BarInv, [Next]_vars
  PROVE  BarInv'
<1>1. OrderInv' /\ Amounts'
  BY OrderStep, AmountsStep
<1>2. CASE Start
  <2>1. UNCHANGED <<groups, reported, current, bar, last>> /\ pc[0] = "start" /\ 0 \in Threads
    BY <1>2 DEF Start, progressVars, Threads
  <2>2. CASE NormalRun(0, {})
    BY <2>1, <2>2, BarRuns, BarApart DEF OrderInv, Phases
  <2>3. CASE pc' = [pc EXCEPT ![0] = "next"]
    BY <2>1, <2>3, BarApart DEF OrderInv, Shape, Apart, Adding
  <2> QED BY <1>2, <2>2, <2>3 DEF Start, Goto
<1>3. CASE PrepareError \/ UNCHANGED vars
  BY <1>3, BarApart DEF PrepareError, vars, progressVars, Apart, Adding
<1>4. ASSUME NEW t \in Threads, ThreadStep(t) PROVE BarInv'
  BY <1>1, <1>4, BarAdds, BarCalls, BarApart DEF ThreadStep, CenterStep, WorkerStep
<1> QED BY <1>2, <1>3, <1>4 DEF Next

(* What one thread hands to the progress bar adds up to what its workers    *)
(* have reported, however often self.current is reset and computed again,   *)
(* for any number of workers and any sizes.                                 *)
THEOREM BarIsTotal == Spec => []BarAddsUp
<1>1. Init => OrderInv /\ Amounts /\ BarInv
  <2>1. 0 \in 0..Size
    BY UpgradeCenterAssumption
  <2>2. Init => Amounts
    BY <2>1 DEF Init, Amounts
  <2> QED BY <2>2, OrderInit, BarInit
<1>2. OrderInv /\ Amounts /\ BarInv /\ [Next]_vars => (OrderInv /\ Amounts /\ BarInv)'
  BY OrderStep, AmountsStep, BarStep
<1>3. BarInv => BarAddsUp
  BY DEF BarInv, BarAddsUp, Adding, Total
<1> QED BY <1>1, <1>2, <1>3, PTL DEF Spec
=============================================================================
