-------------------------- MODULE CanFdDriverProofs --------------------------
(***************************************************************************)
(* The rows of the CAN logs, for any number of kinds, losses and epochs,   *)
(* and that they are the same in the whole of canfd_app_driver; what is    *)
(* forwarded of the corrections, for any packets and any cuts of them; and *)
(* how many packets a parser out of step may lose until it is in step.     *)
(***************************************************************************)
EXTENDS CanFdDriver, Integers, FiniteSetTheorems, SequenceTheorems, TLAPS

(* While messages are collected they are of one epoch, dict[0], and since   *)
(* the last of them the unit has sent only what was lost, and INS_ACC.      *)
(* Hence the messages that are missing are counted by lost, and a whole     *)
(* epoch cannot be missing.                                                 *)
Missing ==
  \A k \in 0..Kinds - 1 : k < flag => dict[k] = dict[0]

Counted ==
  flag > 0 =>
    /\ dict[0] \in Nat /\ dict[0] <= epoch
    /\ epoch = dict[0] => kind >= flag /\ lost >= kind - flag
    /\ epoch = dict[0] + 1 =>
         lost >= Kinds - flag + (IF kind = 0 THEN 0 ELSE kind - 1)
    /\ epoch > dict[0] + 1 => lost >= Kinds - 1

(* Rows are written when every kind has been seen.                          *)
SeenFirst ==
  /\ \A k \in 0..Kinds - 1 : k < flag => k \in opened
  /\ written > 0 => opened = 0..Kinds - 1

LInv == LogTypeOK /\ Missing /\ Counted /\ lost <= MaxLost
RInv == LogTypeOK /\ SeenFirst /\ rows = written

LEMMA TypeInit == ASSUME LogInit PROVE LogTypeOK
  BY CanLogAssumption DEF LogInit, LogTypeOK, NoValues

(* The types hold initially, and every step keeps them.                     *)
LEMMA TypeStep ==
  ASSUME LogTypeOK, [LogNext]_logVars
  PROVE  LogTypeOK'
<1> USE CanLogAssumption DEF LogTypeOK
<1>1. CASE Log
  <2> USE <1>1 DEF Log, Advance
  <2>1. epoch' \in Nat /\ kind' \in 0..Kinds - 1 /\ lost' \in Nat
    OBVIOUS
  <2>2. Collected \in [0..Kinds - 1 -> Nat \cup {None}]
    BY DEF Collected
  <2>3. NewFlag \in 0..Kinds /\ RowsBefore \in Nat
    BY DEF NewFlag, RowsBefore
  <2>4. CASE NewFlag = Kinds
    BY <2>1, <2>2, <2>3, <2>4 DEF NoValues, WriteRow
  <2>5. CASE NewFlag # Kinds
    BY <2>1, <2>2, <2>3, <2>5 DEF WriteRow
  <2> QED BY <2>4, <2>5
<1>2. CASE Lose
  BY <1>2 DEF Lose, Advance, rowVars
<1>3. CASE UNCHANGED logVars
  BY <1>3 DEF logVars, unitVars, rowVars
<1> QED BY <1>1, <1>2, <1>3 DEF LogNext

(* What is collected stays of one epoch, and what is missing is counted.    *)
LEMMA CollectStep ==
  ASSUME LInv, MaxLost < Kinds - 1, [LogNext]_logVars
  PROVE  LInv' /\ (RowOfOneEpoch => RowOfOneEpoch')
<1> USE CanLogAssumption DEF LInv
<1>t. LogTypeOK'
  BY TypeStep
<1>1. CASE Log
  <2> USE <1>1 DEF Log, Advance, LogTypeOK
  <2>1. lost' <= MaxLost
    OBVIOUS
  <2>2. CASE flag = kind
    <3>1. NewFlag = flag + 1 /\ Collected = [dict EXCEPT ![kind] = epoch]
      BY <2>2 DEF NewFlag, Collected, InTurn
    <3>2. kind > 0 => epoch = dict[0]
      BY <2>2 DEF Counted
    <3>3. Collected[0] = epoch
      BY <3>1, <3>2
    <3>4. \A k \in 0..Kinds - 1 : k <= kind => Collected[k] = epoch
      BY <2>2, <3>1, <3>2 DEF Missing
    <3>5. CASE NewFlag = Kinds
      <4>1. flag' = 0 /\ row' = Collected
        BY <3>5 DEF WriteRow
      <4>2. RowOfOneEpoch'
        BY <3>1, <3>3, <3>4, <3>5, <4>1, <2>2 DEF RowOfOneEpoch
      <4> QED BY <1>t, <2>1, <4>1, <4>2 DEF Missing, Counted
    <3>6. CASE NewFlag # Kinds
      <4>1. flag' = flag + 1 /\ row' = row /\ dict' = Collected
        BY <3>1, <3>6 DEF WriteRow
      <4>2. kind # Kinds - 1
        BY <2>2, <3>1, <3>6
      <4>3. Missing'
        BY <2>2, <3>3, <3>4, <4>1 DEF Missing
      <4>4. Counted'
        BY <2>2, <3>3, <4>1, <4>2 DEF Counted
      <4> QED BY <1>t, <2>1, <4>1, <4>3, <4>4 DEF RowOfOneEpoch
    <3> QED BY <3>5, <3>6
  <2>3. CASE flag # kind /\ kind = 0
    <3>1. NewFlag = flag /\ Collected = dict /\ NewFlag # Kinds
      BY <2>3 DEF NewFlag, Collected, InTurn
    <3>2. flag' = flag /\ row' = row /\ dict' = dict
      BY <3>1 DEF WriteRow
    <3>3. Missing'
      BY <3>2 DEF Missing
    <3>4. Counted'
      BY <2>3, <3>2 DEF Counted
    <3> QED BY <1>t, <2>1, <3>2, <3>3, <3>4 DEF RowOfOneEpoch
  <2>4. CASE flag # kind /\ kind # 0
    <3>1. NewFlag = 0 /\ NewFlag # Kinds
      BY <2>4 DEF NewFlag
    <3>2. flag' = 0 /\ row' = row
      BY <3>1 DEF WriteRow
    <3> QED BY <1>t, <2>1, <3>2 DEF RowOfOneEpoch, Missing, Counted
  <2> QED BY <2>2, <2>3, <2>4
<1>2. CASE Lose
  <2> USE <1>2 DEF Lose, Advance, LogTypeOK
  <2>1. lost' <= MaxLost /\ flag' = flag /\ dict' = dict /\ row' = row
    BY DEF rowVars
  <2>2. Counted'
    BY <2>1 DEF Counted
  <2> QED BY <1>t, <2>1, <2>2 DEF Missing, RowOfOneEpoch
<1>3. CASE UNCHANGED logVars
  BY <1>t, <1>3 DEF Missing, Counted, RowOfOneEpoch, logVars, unitVars, rowVars
<1> QED BY <1>1, <1>2, <1>3 DEF LogNext

(* Every kind is seen before a row is written: no log is opened afterwards. *)
LEMMA RowsStep ==
  ASSUME RInv, [LogNext]_logVars
  PROVE  RInv'
<1> USE CanLogAssumption DEF RInv
<1>t. LogTypeOK'
  BY TypeStep
<1>1. CASE Log
  <2> USE <1>1 DEF Log, LogTypeOK
  <2>1. RowsBefore = rows
    BY DEF RowsBefore, SeenFirst
  <2>2. opened' = opened \cup {kind}
    OBVIOUS
  <2>3. NewFlag \in {0, flag} \/ (NewFlag = flag + 1 /\ flag = kind)
    BY DEF NewFlag
  <2>4. CASE NewFlag = Kinds
    <3>1. flag = kind /\ kind = Kinds - 1
      BY <2>3, <2>4
    <3>2. opened' = 0..Kinds - 1
      <4>1. \A k \in 0..Kinds - 1 : k < flag \/ k = kind
        BY <3>1
      <4>2. 0..Kinds - 1 \subseteq opened'
        BY <2>2, <4>1 DEF SeenFirst
      <4>3. opened' \subseteq 0..Kinds - 1
        BY <2>2
      <4> QED BY <4>2, <4>3
    <3>3. flag' = 0 /\ rows' = rows + 1 /\ written' = written + 1
      BY <2>1, <2>4 DEF WriteRow
    <3> QED BY <1>t, <3>2, <3>3 DEF SeenFirst
  <2>5. CASE NewFlag # Kinds
    <3>1. flag' = NewFlag /\ rows' = rows /\ written' = written
      BY <2>1, <2>5 DEF WriteRow
    <3>2. \A k \in 0..Kinds - 1 : k < flag' => k \in opened'
      BY <2>2, <2>3, <3>1 DEF SeenFirst
    <3>3. written' > 0 => opened' = 0..Kinds - 1
      <4>1. kind \in 0..Kinds - 1
        OBVIOUS
      <4>2. opened = 0..Kinds - 1 => opened' = opened
        BY <2>2, <4>1
      <4> QED BY <3>1, <4>2 DEF SeenFirst
    <3> QED BY <1>t, <3>1, <3>2, <3>3 DEF SeenFirst
  <2> QED BY <2>4, <2>5
<1>2. CASE Lose
  BY <1>t, <1>2 DEF Lose, SeenFirst, rowVars
<1>3. CASE UNCHANGED logVars
  BY <1>t, <1>3 DEF SeenFirst, logVars, unitVars, rowVars
<1> QED BY <1>1, <1>2, <1>3 DEF LogNext

(* With fewer than Kinds - 1 messages lost, every row of the IMU and INS    *)
(* logs is complete and of one epoch, for any number of kinds and epochs.   *)
THEOREM RowsOfOneEpoch == LogSpec => []RowOfOneEpoch
<1>1. CASE MaxLost < Kinds - 1
  <2>1. LogInit => LInv /\ RowOfOneEpoch
    BY TypeInit, CanLogAssumption DEF LogInit, LInv, Missing, Counted, RowOfOneEpoch
  <2>2. (LInv /\ RowOfOneEpoch) /\ [LogNext]_logVars => (LInv /\ RowOfOneEpoch)'
    BY <1>1, CollectStep
  <2> QED BY <2>1, <2>2, PTL DEF LogSpec
<1>2. CASE ~(MaxLost < Kinds - 1)
  <2>1. RowOfOneEpoch
    BY <1>2 DEF RowOfOneEpoch
  <2> QED BY <2>1, PTL
<1> QED BY <1>1, <1>2

(* The logs of rows are opened with every kind that is seen for the first   *)
(* time, and never lose a row by it, whatever is lost on the bus.           *)
THEOREM NoRowLost == LogSpec => []RowsKept
<1>1. LogInit => RInv
  BY TypeInit DEF LogInit, RInv, SeenFirst, LogTypeOK
<1>2. RInv /\ [LogNext]_logVars => RInv'
  BY RowsStep
<1>3. RInv => RowsKept
  BY DEF RInv, RowsKept
<1> QED BY <1>1, <1>2, <1>3, PTL DEF LogSpec

-----------------------------------------------------------------------------
(* Opening the bus, asking the unit and forwarding corrections leave the    *)
(* logs alone.                                                              *)
LEMMA DriverLogs == Spec => LogSpec
<1>1. Init => LogInit
  BY DEF Init
<1>2. [Next]_driverVars => [LogNext]_logVars
  <2>1. CASE Listen
    BY <2>1 DEF Listen, OpenBus, Answered, TimedOut, EndTry
  <2>2. CASE Corrections
    BY <2>2 DEF Corrections
  <2>3. CASE LogMessages
    BY <2>3 DEF LogMessages
  <2>4. CASE UNCHANGED driverVars
    BY <2>4 DEF driverVars
  <2> QED BY <2>1, <2>2, <2>3, <2>4 DEF Next
<1> QED BY <1>1, <1>2, PTL DEF Spec, LogSpec

(* Whatever else the driver does: rows are of one epoch, as long as fewer   *)
(* than Kinds - 1 messages are lost.                                        *)
THEOREM DriverRowsOfOneEpoch == Spec => []RowOfOneEpoch
BY DriverLogs, RowsOfOneEpoch, PTL

(* And no row is lost when logs are opened again.                           *)
THEOREM DriverNoRowLost == Spec => []RowsKept
BY DriverLogs, NoRowLost, PTL

-----------------------------------------------------------------------------
(* Corrections: what FoldLeft does with a chunk of bytes.                   *)

(* A nonempty set of naturals has a least element.                          *)
LEMMA LeastOf ==
  ASSUME NEW S, S \subseteq Nat, S # {}
  PROVE  \E x \in S : \A y \in S : x <= y
<1> DEFINE T == {0..x : x \in S}
<1>1. T \subseteq FiniteSubsetsOf(Nat) /\ T # {}
  <2>1. ASSUME NEW x \in S PROVE 0..x \in SUBSET Nat /\ IsFiniteSet(0..x)
    <3>1. x \in Int /\ 0 \in Int
      OBVIOUS
    <3> QED BY <3>1, FS_Interval
  <2> QED BY <2>1 DEF FiniteSubsetsOf
<1>2. PICK X \in T : \A Y \in T : ~(<<Y, X>> \in StrictSubsetOrdering(Nat))
  BY <1>1, FS_StrictSubsetOrderingWellFounded, WFMin, Zenon
<1>3. PICK x \in S : X = 0..x
  OBVIOUS
<1>4. ASSUME NEW y \in S, y < x PROVE FALSE
  <2>1. 0..y \subseteq 0..x /\ x \in 0..x /\ x \notin 0..y /\ 0..y \in SUBSET Nat /\ 0..x \in SUBSET Nat
    BY <1>4
  <2>2. <<0..y, X>> \in StrictSubsetOrdering(Nat)
    BY <1>3, <2>1 DEF StrictSubsetOrdering
  <2> QED BY <1>2, <2>2
<1> QED BY <1>4

-----------------------------------------------------------------------------
(* Analysis takes one byte after the other: g is what it has after each.    *)
Parses(packet, buffer, g) ==
  /\ g[0] = [raw |-> packet, packets |-> <<>>]
  /\ \A i \in 1..Len(buffer) : g[i] = Analyse(g[i - 1], buffer[i])

(* FoldLeft takes the sets of positions.                                    *)
FoldsTo(packet, buffer, S, it) ==
  it = [s \in SUBSET S |->
          IF s = {} THEN [raw |-> packet, packets |-> <<>>]
          ELSE Analyse(it[s \ {Max(s)}], buffer[Max(s)])]

LEMMA MaxIs ==
  ASSUME NEW n \in Nat, NEW s \in SUBSET (1..n), n \in s
  PROVE  Max(s) = n
<1>1. \A y \in s : n >= y
  OBVIOUS
<1>2. \A x \in s : (\A y \in s : x >= y) => x = n
  OBVIOUS
<1> QED BY <1>1, <1>2 DEF Max

LEMMA FoldExists ==
  ASSUME NEW packet, NEW buffer, NEW n \in Nat
  PROVE  \E it : FoldsTo(packet, buffer, 1..n, it)
<1> DEFINE Part(s, it) == IF s = {} THEN [raw |-> packet, packets |-> <<>>]
                          ELSE Analyse(it[s \ {Max(s)}], buffer[Max(s)])
           Fits(m, it) == \A s \in SUBSET (1..m) : it[s] = Part(s, it)
           Bad == {m \in 0..n : ~\E it : Fits(m, it)}
<1>1. Bad = {}
  <2> SUFFICES ASSUME Bad # {} PROVE FALSE
    OBVIOUS
  <2>1. Bad \subseteq Nat
    OBVIOUS
  <2>2. PICK m \in Bad : \A k \in Bad : m <= k
    BY <2>1, LeastOf
  <2>3. m # 0
    <3>1. \A s \in SUBSET (1..0) : s = {}
      OBVIOUS
    <3>2. Fits(0, [s \in {{}} |-> [raw |-> packet, packets |-> <<>>]])
      BY <3>1
    <3> QED BY <3>2
  <2>4. m \in Nat /\ m - 1 \in 0..n /\ m - 1 \notin Bad
    <3> HIDE DEF Fits
    <3>1. m \in 0..n
      OBVIOUS
    <3> HIDE DEF Bad
    <3> QED BY <2>2, <2>3, <3>1
  <2>5. PICK it : Fits(m - 1, it)
    BY <2>4
  <2> DEFINE new == [s \in SUBSET (1..m) |->
                       IF m \in s THEN Analyse(it[s \ {m}], buffer[m]) ELSE it[s]]
  <2>6. ASSUME NEW s \in SUBSET (1..m) PROVE new[s] = Part(s, new)
    <3>1. CASE m \in s
      <4>1. Max(s) = m
        BY <2>4, <3>1, MaxIs
      <4>2. s \ {m} \in SUBSET (1..m) /\ m \notin s \ {m}
        OBVIOUS
      <4>3. new[s \ {m}] = it[s \ {m}]
        BY <4>2
      <4>4. Part(s, new) = Analyse(new[s \ {m}], buffer[m])
        BY <3>1, <4>1
      <4> QED BY <3>1, <4>3, <4>4
    <3>2. CASE m \notin s
      <4>1. s \in SUBSET (1..m - 1) /\ s \ {Max(s)} \in SUBSET (1..m) /\ m \notin s \ {Max(s)}
        BY <2>4, <3>2
      <4>2. new[s] = it[s] /\ new[s \ {Max(s)}] = it[s \ {Max(s)}]
        BY <3>2, <4>1
      <4>3. it[s] = Part(s, it)
        BY <2>5, <4>1
      <4> QED BY <4>2, <4>3
    <3> QED BY <3>1, <3>2
  <2>7. Fits(m, new)
    BY <2>6
  <2> QED BY <2>2, <2>7
<1>2. PICK it : Fits(n, it)
  <2> HIDE DEF Fits
  <2> QED BY <1>1
<1> DEFINE all == [s \in SUBSET (1..n) |-> it[s]]
<1>3. ASSUME NEW s \in SUBSET (1..n) PROVE all[s] = Part(s, all)
  <2>1. s \ {Max(s)} \in SUBSET (1..n)
    OBVIOUS
  <2>2. it[s] = Part(s, it)
    BY <1>2
  <2> QED BY <2>1, <2>2
<1>4. all = [s \in SUBSET (1..n) |-> Part(s, all)]
  BY <1>3
<1> QED BY <1>4 DEF FoldsTo

LEMMA AnalysisIs ==
  ASSUME NEW packet, NEW buffer, Len(buffer) \in Nat, DOMAIN buffer = 1..Len(buffer)
  PROVE  \E g : Parses(packet, buffer, g) /\ Analysis(packet, buffer) = g[Len(buffer)]
<1> DEFINE n == Len(buffer)
           it == CHOOSE it : it = [s \in SUBSET (DOMAIN buffer) |->
                   IF s = {} THEN [raw |-> packet, packets |-> <<>>]
                   ELSE Analyse(it[s \ {Max(s)}], buffer[Max(s)])]
<1>1. FoldsTo(packet, buffer, 1..n, it)
  <2>1. \E h : FoldsTo(packet, buffer, 1..n, h)
    BY FoldExists
  <2>2. \E h : h = [s \in SUBSET (DOMAIN buffer) |->
                   IF s = {} THEN [raw |-> packet, packets |-> <<>>]
                   ELSE Analyse(h[s \ {Max(s)}], buffer[Max(s)])]
    BY <2>1 DEF FoldsTo
  <2>3. it = [s \in SUBSET (DOMAIN buffer) |->
                   IF s = {} THEN [raw |-> packet, packets |-> <<>>]
                   ELSE Analyse(it[s \ {Max(s)}], buffer[Max(s)])]
    BY <2>2
  <2> HIDE DEF it
  <2> QED BY <2>3 DEF FoldsTo
<1>2. Analysis(packet, buffer) = it[1..n]
  BY DEF Analysis, FoldLeft, MapThenFoldSet
<1> HIDE DEF it
<1> DEFINE g == [i \in 0..n |-> it[1..i]]
<1>3. g[0] = [raw |-> packet, packets |-> <<>>]
  <2>1. 1..0 = {} /\ 1..0 \in SUBSET (1..n) /\ g[0] = it[1..0]
    OBVIOUS
  <2> QED BY <1>1, <2>1 DEF FoldsTo
<1>4. ASSUME NEW i \in 1..n PROVE g[i] = Analyse(g[i - 1], buffer[i])
  <2>1. i \in 1..i /\ 1..i \in SUBSET (1..n) /\ 1..i # {} /\ i \in Nat
    OBVIOUS
  <2>2. Max(1..i) = i
    BY <2>1, MaxIs
  <2>3. (1..i) \ {i} = 1..i - 1
    OBVIOUS
  <2>4. it[1..i] = Analyse(it[1..i - 1], buffer[i])
    BY <1>1, <2>1, <2>2, <2>3 DEF FoldsTo
  <2> QED BY <2>4
<1>5. Analysis(packet, buffer) = g[n]
  BY <1>2
<1> HIDE DEF g
<1> QED BY <1>3, <1>4, <1>5 DEF Parses

-----------------------------------------------------------------------------
(* FlattenSeq takes one sequence after the other: f is what it has after    *)
(* each.                                                                    *)
FlatBy(seqs, f) ==
  \A i \in 1..Len(seqs) : f[i] = IF i = 1 THEN seqs[i] ELSE f[i - 1] \o seqs[i]

LEMMA FlatExists ==
  ASSUME NEW seqs, Len(seqs) \in Nat
  PROVE  \E f : f = [i \in 1..Len(seqs) |-> IF i = 1 THEN seqs[i] ELSE f[i - 1] \o seqs[i]]
<1> DEFINE Part(i, f) == IF i = 1 THEN seqs[i] ELSE f[i - 1] \o seqs[i]
           Fits(n, f) == \A i \in 1..n : f[i] = Part(i, f)
           Bad == {n \in Nat : ~\E f : Fits(n, f)}
<1>1. Bad = {}
  <2> SUFFICES ASSUME Bad # {} PROVE FALSE
    OBVIOUS
  <2>1. Bad \subseteq Nat
    OBVIOUS
  <2>2. PICK n \in Bad : \A m \in Bad : n <= m
    BY <2>1, LeastOf
  <2>3. n # 0
    <3>1. Fits(0, <<>>)
      OBVIOUS
    <3> QED BY <3>1
  <2>4. n \in Nat /\ n - 1 \in Nat /\ n - 1 \notin Bad
    <3> HIDE DEF Fits
    <3>1. n \in Nat
      OBVIOUS
    <3> HIDE DEF Bad
    <3> QED BY <2>2, <2>3, <3>1
  <2>5. PICK f : Fits(n - 1, f)
    BY <2>4
  <2> DEFINE h == [i \in 1..n |-> IF i < n THEN f[i] ELSE Part(n, f)]
  <2>6. ASSUME NEW i \in 1..n PROVE h[i] = Part(i, h)
    <3>1. i # 1 => h[i - 1] = f[i - 1]
      BY <2>4
    <3>2. CASE i < n
      <4>1. i \in 1..n - 1
        BY <2>4, <3>2
      <4>2. f[i] = Part(i, f)
        BY <2>5, <4>1
      <4>3. Part(i, h) = Part(i, f)
        BY <3>1
      <4> QED BY <3>2, <4>2, <4>3
    <3>3. CASE i = n
      BY <2>4, <3>1, <3>3
    <3> QED BY <2>4, <3>2, <3>3
  <2>7. Fits(n, h)
    BY <2>6
  <2> QED BY <2>2, <2>7
<1>2. PICK f : Fits(Len(seqs), f)
  <2> HIDE DEF Fits
  <2> QED BY <1>1
<1> DEFINE h == [i \in 1..Len(seqs) |-> f[i]]
<1>3. ASSUME NEW i \in 1..Len(seqs) PROVE h[i] = Part(i, h)
  <2>1. i # 1 => h[i - 1] = f[i - 1]
    OBVIOUS
  <2> QED BY <1>2, <2>1
<1>4. h = [i \in 1..Len(seqs) |-> Part(i, h)]
  BY <1>3
<1> QED BY <1>4

LEMMA FlatIs ==
  ASSUME NEW seqs, Len(seqs) \in Nat, Len(seqs) # 0
  PROVE  \E f : FlatBy(seqs, f) /\ FlattenSeq(seqs) = f[Len(seqs)]
<1> DEFINE f == CHOOSE f : f = [i \in 1..Len(seqs) |-> IF i = 1 THEN seqs[i] ELSE f[i - 1] \o seqs[i]]
<1>1. f = [i \in 1..Len(seqs) |-> IF i = 1 THEN seqs[i] ELSE f[i - 1] \o seqs[i]]
  BY FlatExists
<1>2. FlattenSeq(seqs) = f[Len(seqs)]
  BY DEF FlattenSeq
<1> HIDE DEF f
<1>3. FlatBy(seqs, f)
  BY <1>1 DEF FlatBy
<1> QED BY <1>2, <1>3

(* There is but one, and it grows with the sequence.                        *)
Extended(s, t) ==
  Len(s) \in Nat /\ Len(t) \in Nat /\ Len(t) <= Len(s) /\ \A i \in 1..Len(t) : t[i] = s[i]

LEMMA FlatUnique ==
  ASSUME NEW s, NEW t, Extended(s, t), NEW f, NEW g, FlatBy(s, f), FlatBy(t, g)
  PROVE  \A i \in 1..Len(t) : f[i] = g[i]
<1> DEFINE n == Len(t)
<1> USE DEF Extended
<1> DEFINE Bad == {i \in 1..n : f[i] # g[i]}
<1>1. Bad = {}
  <2> SUFFICES ASSUME Bad # {} PROVE FALSE
    OBVIOUS
  <2>1. Bad \subseteq Nat
    OBVIOUS
  <2>2. PICK i \in Bad : \A j \in Bad : i <= j
    BY <2>1, LeastOf
  <2>3. i \in 1..n /\ i \in 1..Len(s) /\ i \in 1..Len(t) /\ f[i] # g[i]
    OBVIOUS
  <2>4. i # 1 => i - 1 \in 1..n /\ i - 1 \notin Bad
    <3>1. i - 1 \notin Bad
      <4> HIDE DEF Bad
      <4> QED BY <2>2, <2>3
    <3> QED BY <2>3, <3>1
  <2>5. i # 1 => f[i - 1] = g[i - 1]
    BY <2>4
  <2>6. /\ f[i] = IF i = 1 THEN s[i] ELSE f[i - 1] \o s[i]
        /\ g[i] = IF i = 1 THEN t[i] ELSE g[i - 1] \o t[i]
        /\ s[i] = t[i]
    BY <2>3 DEF FlatBy
  <2> QED BY <2>3, <2>5, <2>6
<1> QED BY <1>1

LEMMA FlatNone == FlattenSeq(<<>>) = <<>>
BY DEF FlattenSeq

Upto(s, k) == FlattenSeq(SubSeq(s, 1, k))

(* All of the sequences, and one more.                                      *)
LEMMA FlatStep ==
  ASSUME NEW S, NEW s \in Seq(Seq(S))
  PROVE  /\ Upto(s, 0) = <<>> /\ Upto(s, Len(s)) = FlattenSeq(s)
         /\ \A k \in 1..Len(s) : /\ Upto(s, k) = Upto(s, k - 1) \o s[k]
                                 /\ Upto(s, k) \in Seq(S) /\ Upto(s, k - 1) \in Seq(S)
<1>1. Len(s) \in Nat /\ SubSeq(s, 1, 0) = <<>> /\ SubSeq(s, 1, Len(s)) = s
  OBVIOUS
<1>2. Upto(s, 0) = <<>> /\ Upto(s, Len(s)) = FlattenSeq(s)
  BY <1>1, FlatNone DEF Upto
<1>3. CASE Len(s) = 0
  BY <1>2, <1>3
<1>4. CASE Len(s) # 0
  <2>1. PICK f : FlatBy(s, f)
    BY <1>1, <1>4, FlatIs
  <2>2. ASSUME NEW k \in 1..Len(s) PROVE Upto(s, k) = f[k]
    <3> DEFINE t == SubSeq(s, 1, k)
    <3>1. Len(t) = k /\ k \in Nat /\ k # 0 /\ \A i \in 1..k : t[i] = s[i]
      OBVIOUS
    <3> HIDE DEF t
    <3>2. PICK g : FlatBy(t, g) /\ FlattenSeq(t) = g[k]
      BY <3>1, FlatIs
    <3>3. \A i \in 1..k : g[i] = f[i]
      <4>1. Extended(s, t)
        BY <1>1, <3>1 DEF Extended
      <4>2. \A i \in 1..Len(t) : f[i] = g[i]
        BY <2>1, <3>2, <4>1, FlatUnique
      <4> QED BY <3>1, <4>2
    <3> QED BY <3>1, <3>2, <3>3 DEF Upto, t
  <2>3. \A i \in 1..Len(s) : s[i] \in Seq(S)
    OBVIOUS
  <2>4. \A k \in 1..Len(s) : f[k] \in Seq(S)
    <3> DEFINE Bad == {k \in 1..Len(s) : f[k] \notin Seq(S)}
    <3>1. Bad = {}
      <4> SUFFICES ASSUME Bad # {} PROVE FALSE
        OBVIOUS
      <4>1. Bad \subseteq Nat
        OBVIOUS
      <4>2. PICK k \in Bad : \A j \in Bad : k <= j
        BY <4>1, LeastOf
      <4>3. k \in 1..Len(s) /\ f[k] \notin Seq(S)
        OBVIOUS
      <4>4. k # 1 => k - 1 \in 1..Len(s) /\ k - 1 \notin Bad
        <5>1. k - 1 \notin Bad
          <6> HIDE DEF Bad
          <6> QED BY <4>2, <4>3
        <5> QED BY <4>3, <5>1
      <4>5. k # 1 => f[k - 1] \in Seq(S)
        BY <4>4
      <4>6. f[k] = IF k = 1 THEN s[k] ELSE f[k - 1] \o s[k]
        BY <2>1, <4>3 DEF FlatBy
      <4> QED BY <2>3, <4>3, <4>5, <4>6
    <3> QED BY <3>1
  <2>5. ASSUME NEW k \in 1..Len(s)
        PROVE  /\ Upto(s, k) = Upto(s, k - 1) \o s[k]
               /\ Upto(s, k) \in Seq(S) /\ Upto(s, k - 1) \in Seq(S)
    <3>1. f[k] = IF k = 1 THEN s[k] ELSE f[k - 1] \o s[k]
      BY <2>1 DEF FlatBy
    <3>2. Upto(s, k) = f[k] /\ f[k] \in Seq(S) /\ s[k] \in Seq(S)
      BY <2>2, <2>3, <2>4
    <3>3. CASE k = 1
      <4>1. Upto(s, k - 1) = <<>> /\ <<>> \in Seq(S) /\ <<>> \o s[k] = s[k]
        BY <1>2, <3>2, <3>3
      <4> QED BY <3>1, <3>2, <3>3, <4>1
    <3>4. CASE k # 1
      <4>1. k - 1 \in 1..Len(s)
        BY <1>1, <3>4
      <4> QED BY <2>2, <2>4, <3>1, <3>2, <3>4, <4>1
    <3> QED BY <3>3, <3>4
  <2> QED BY <1>2, <2>5
<1> QED BY <1>3, <1>4

(* So the end of one sequence is where the next begins, and at each place   *)
(* is what was there.                                                       *)
End(s, k) == Len(Upto(s, k))

LEMMA Layout ==
  ASSUME NEW S, NEW s \in Seq(Seq(S))
  PROVE  /\ FlattenSeq(s) \in Seq(S) /\ Len(FlattenSeq(s)) = End(s, Len(s)) /\ End(s, 0) = 0
         /\ \A k \in 0..Len(s) : End(s, k) \in Nat
         /\ \A k \in 1..Len(s) : End(s, k) = End(s, k - 1) + Len(s[k])
         /\ \A j, k \in 0..Len(s) : j <= k => End(s, j) <= End(s, k)
         /\ \A k \in 1..Len(s) : \A j \in 1..Len(s[k]) : FlattenSeq(s)[End(s, k - 1) + j] = s[k][j]
<1>1. /\ Len(s) \in Nat /\ \A k \in 1..Len(s) : s[k] \in Seq(S) /\ Len(s[k]) \in Nat
  OBVIOUS
<1>2. \A k \in 0..Len(s) : Upto(s, k) \in Seq(S) /\ End(s, k) \in Nat
  <2> SUFFICES ASSUME NEW k \in 0..Len(s) PROVE Upto(s, k) \in Seq(S)
    BY DEF End
  <2>1. /\ Upto(s, 0) = <<>>
        /\ \A i \in 1..Len(s) : Upto(s, i) \in Seq(S)
    BY FlatStep
  <2>2. k = 0 \/ k \in 1..Len(s)
    BY <1>1
  <2>3. CASE k = 0
    <3>1. Upto(s, k) = <<>> /\ <<>> \in Seq(S)
      BY <2>1, <2>3
    <3> QED BY <3>1
  <2> QED BY <2>1, <2>2, <2>3
<1>3. ASSUME NEW k \in 1..Len(s)
      PROVE  /\ End(s, k) = End(s, k - 1) + Len(s[k])
             /\ \A p \in 1..End(s, k - 1) : Upto(s, k)[p] = Upto(s, k - 1)[p]
             /\ \A j \in 1..Len(s[k]) : Upto(s, k)[End(s, k - 1) + j] = s[k][j]
  <2>1. /\ Upto(s, k) = Upto(s, k - 1) \o s[k]
        /\ Upto(s, k - 1) \in Seq(S) /\ s[k] \in Seq(S)
    BY <1>1, FlatStep
  <2> DEFINE a == Upto(s, k - 1)
             b == s[k]
  <2>2. a \in Seq(S) /\ b \in Seq(S) /\ Upto(s, k) = a \o b
    BY <2>1
  <2> HIDE DEF a, b
  <2>3. /\ Len(a \o b) = Len(a) + Len(b)
        /\ \A p \in 1..Len(a) : (a \o b)[p] = a[p]
        /\ \A j \in 1..Len(b) : (a \o b)[Len(a) + j] = b[j]
    BY <2>2
  <2> QED BY <2>2, <2>3 DEF a, b, End
<1>4. \A j, k \in 0..Len(s) : j <= k => /\ End(s, j) <= End(s, k)
                                       /\ \A p \in 1..End(s, j) : Upto(s, k)[p] = Upto(s, j)[p]
  <2> SUFFICES ASSUME NEW j \in 0..Len(s)
               PROVE  \A k \in 0..Len(s) : j <= k => /\ End(s, j) <= End(s, k)
                                       /\ \A p \in 1..End(s, j) : Upto(s, k)[p] = Upto(s, j)[p]
    OBVIOUS
  <2> DEFINE Holds(k) == /\ End(s, j) <= End(s, k)
                         /\ \A p \in 1..End(s, j) : Upto(s, k)[p] = Upto(s, j)[p]
             Bad == {k \in j..Len(s) : ~Holds(k)}
  <2>1. Bad = {}
    <3> SUFFICES ASSUME Bad # {} PROVE FALSE
      OBVIOUS
    <3>1. Bad \subseteq Nat
      OBVIOUS
    <3>2. PICK k \in Bad : \A m \in Bad : k <= m
      BY <3>1, LeastOf
    <3>3. k \in j..Len(s) /\ ~Holds(k)
      OBVIOUS
    <3>4. k # j
      BY <1>2, <3>3
    <3>5. k - 1 \notin Bad
      <4> HIDE DEF Bad
      <4> QED BY <3>2, <3>3
    <3>6. Holds(k - 1) /\ k \in 1..Len(s) /\ k - 1 \in 0..Len(s)
      <4> HIDE DEF Holds
      <4> QED BY <1>1, <3>3, <3>4, <3>5
    <3>7. /\ End(s, k) = End(s, k - 1) + Len(s[k]) /\ Len(s[k]) \in Nat
          /\ End(s, k - 1) \in Nat /\ End(s, j) \in Nat
          /\ \A p \in 1..End(s, k - 1) : Upto(s, k)[p] = Upto(s, k - 1)[p]
      BY <1>1, <1>2, <1>3, <3>6
    <3> QED BY <3>3, <3>6, <3>7
  <2> QED BY <1>1, <2>1
<1>5. /\ FlattenSeq(s) = Upto(s, Len(s)) /\ Upto(s, 0) = <<>>
  BY FlatStep
<1>6. ASSUME NEW k \in 1..Len(s), NEW j \in 1..Len(s[k])
      PROVE  FlattenSeq(s)[End(s, k - 1) + j] = s[k][j]
  <2>1. End(s, k - 1) + j \in 1..End(s, k)
    <3>1. /\ End(s, k) = End(s, k - 1) + Len(s[k]) /\ End(s, k - 1) \in Nat /\ Len(s[k]) \in Nat
      BY <1>1, <1>2, <1>3
    <3> QED BY <3>1
  <2>2. FlattenSeq(s)[End(s, k - 1) + j] = Upto(s, k)[End(s, k - 1) + j]
    <3>1. k \in 0..Len(s) /\ Len(s) \in 0..Len(s) /\ k <= Len(s)
      BY <1>1
    <3> QED BY <1>4, <1>5, <2>1, <3>1
  <2> QED BY <1>3, <2>2
<1>7. FlattenSeq(s) \in Seq(S) /\ Len(FlattenSeq(s)) = End(s, Len(s)) /\ End(s, 0) = 0
  BY <1>1, <1>2, <1>5 DEF End
<1>8. \A j, k \in 0..Len(s) : j <= k => End(s, j) <= End(s, k)
  BY <1>4
<1>9. \A k \in 1..Len(s) : End(s, k) = End(s, k - 1) + Len(s[k])
  BY <1>3
<1>10. \A k \in 0..Len(s) : End(s, k) \in Nat
  BY <1>2
<1> QED BY <1>6, <1>7, <1>8, <1>9, <1>10

-----------------------------------------------------------------------------
(* The parser in step.                                                      *)

LEMMA PacketIs ==
  /\ \A m \in Packets : /\ m \in Seq(Nat) /\ Len(m) \in Nat /\ Len(m) >= 3 /\ m[1] = Header
                        /\ m[2] \in Nat /\ Len(m) = m[2] + 3
  /\ Seq(Packets) \subseteq Seq(Seq(Nat)) /\ Header \in Nat
<1>1. Header \in Nat
  BY RtcmAssumption
<1>2. ASSUME NEW m \in Packets
      PROVE  /\ m \in Seq(Nat) /\ Len(m) \in Nat /\ Len(m) >= 3 /\ m[1] = Header
             /\ m[2] \in Nat /\ Len(m) = m[2] + 3
  <2>1. m \in Seq(0..Header) /\ Len(m) >= 3 /\ m[1] = Header /\ Len(m) = m[2] + 3
    BY RtcmAssumption
  <2>2. m \in Seq(Nat) /\ Len(m) \in Nat
    BY <1>1, <2>1
  <2>3. m[2] \in 0..Header
    <3>1. 2 \in 1..Len(m)
      BY <2>1, <2>2
    <3>2. \A i \in 1..Len(m) : m[i] \in 0..Header
      BY <2>1, ElementOfSeq
    <3> QED BY <3>1, <3>2
  <2> QED BY <1>1, <2>1, <2>2, <2>3
<1>3. Seq(Packets) \subseteq Seq(Seq(Nat))
  <2> SUFFICES ASSUME NEW x \in Seq(Packets) PROVE x \in Seq(Seq(Nat))
    OBVIOUS
  <2>1. Len(x) \in Nat /\ \A i \in 1..Len(x) : x[i] \in Packets
    OBVIOUS
  <2>2. x = [i \in 1..Len(x) |-> x[i]]
    OBVIOUS
  <2>3. \A i \in 1..Len(x) : x[i] \in Seq(Nat)
    BY <1>2, <2>1
  <2> QED BY <2>1, <2>2, <2>3
<1> QED BY <1>1, <1>2, <1>3

(* One more byte of a packet m, of which q bytes were received.             *)
LEMMA ByteOfPacket ==
  ASSUME NEW m \in Packets, NEW q \in 0..Len(m) - 1, NEW ps
  PROVE  Analyse([raw |-> SubSeq(m, 1, q), packets |-> ps], m[q + 1]) =
           IF q + 1 = Len(m) THEN [raw |-> <<>>, packets |-> Append(ps, m)]
                             ELSE [raw |-> SubSeq(m, 1, q + 1), packets |-> ps]
<1> DEFINE p == [raw |-> SubSeq(m, 1, q), packets |-> ps]
<1>1. /\ m \in Seq(Nat) /\ Len(m) \in Nat /\ Len(m) >= 3 /\ m[1] = Header /\ Len(m) = m[2] + 3
      /\ q \in Nat /\ q < Len(m)
  BY PacketIs
<1>2. CASE q = 0
  <2>1. SubSeq(m, 1, q) = <<>> /\ SubSeq(m, 1, q + 1) = <<m[1]>>
    <3>1. SubSeq(m, 1, 0) = <<>>
      BY <1>1
    <3>2. SubSeq(m, 1, 1) = <<m[1]>>
      <4>1. SubSeq(m, 1, 1) = [i \in 1..1 |-> m[i]]
        BY <1>1
      <4>2. <<m[1]>> = [i \in 1..1 |-> m[1]]
        BY <1>1
      <4>3. \A i \in 1..1 : i = 1
        OBVIOUS
      <4>4. [i \in 1..1 |-> m[i]] = [i \in 1..1 |-> m[1]]
        BY <4>3
      <4> QED BY <4>1, <4>2, <4>4
    <3> QED BY <1>2, <3>1, <3>2
  <2>2. Analyse(p, m[q + 1]) = [p EXCEPT !.raw = <<m[1]>>]
    BY <1>1, <1>2, <2>1 DEF Analyse, FindHeader
  <2> QED BY <1>1, <1>2, <2>1, <2>2
<1>3. CASE q # 0
  <2> DEFINE packet == SubSeq(m, 1, q + 1)
  <2>1. SubSeq(m, 1, q) # <<>> /\ Append(SubSeq(m, 1, q), m[q + 1]) = packet
    <3>1. SubSeq(m, 1, q) \in Seq(Nat) /\ Len(SubSeq(m, 1, q)) = q
      BY <1>1, <1>3
    <3>2. Append(SubSeq(m, 1, q), m[q + 1]) = packet
      BY <1>1, <1>3
    <3> QED BY <1>3, <3>1, <3>2
  <2>2. Len(packet) = q + 1 /\ packet[2] = m[2] /\ (q + 1 = Len(m) => packet = m)
    BY <1>1, <1>3
  <2> HIDE DEF packet
  <2>3. Len(packet) > 1 /\ (Len(packet) = Size(packet) <=> q + 1 = Len(m))
    BY <1>1, <1>3, <2>2 DEF Size
  <2>4. Analyse(p, m[q + 1]) = Accept(p, m[q + 1])
    BY <2>1 DEF Analyse
  <2>5. Accept(p, m[q + 1]) = IF q + 1 = Len(m) THEN CheckPacket(p, packet) ELSE [p EXCEPT !.raw = packet]
    BY <2>1, <2>3 DEF Accept
  <2>6. q + 1 = Len(m) => CheckPacket(p, packet) = [raw |-> <<>>, packets |-> Append(ps, m)]
    BY <2>2 DEF CheckPacket, CheckCrc
  <2>7. [p EXCEPT !.raw = packet] = [raw |-> packet, packets |-> ps]
    OBVIOUS
  <2> QED BY <2>4, <2>5, <2>6, <2>7 DEF packet
<1> QED BY <1>2, <1>3

(* After so many bytes of the packets s, k of them are complete.            *)
Where(s, p, k) == k \in 0..Len(s) /\ End(s, k) <= p /\ (k < Len(s) => p < End(s, k + 1))

LEMMA WhereIs ==
  ASSUME NEW s \in Seq(Packets), NEW p \in 0..Len(FlattenSeq(s))
  PROVE  /\ \E k : Where(s, p, k)
         /\ \A j, k : Where(s, p, j) /\ Where(s, p, k) => j = k
<1>1. s \in Seq(Seq(Nat)) /\ Len(s) \in Nat
  BY PacketIs
<1>2. /\ Len(FlattenSeq(s)) = End(s, Len(s)) /\ End(s, 0) = 0
      /\ \A k \in 0..Len(s) : End(s, k) \in Nat
      /\ \A j, k \in 0..Len(s) : j <= k => End(s, j) <= End(s, k)
  BY <1>1, Layout
<1>3. p \in Nat
  BY <1>1, <1>2
<1>4. \E k : Where(s, p, k)
  <2> DEFINE After == {k \in 0..Len(s) : End(s, k) > p}
  <2>1. CASE After = {}
    <3>1. Where(s, p, Len(s))
      <4>1. Len(s) \in 0..Len(s) /\ ~(End(s, Len(s)) > p)
        BY <1>1, <2>1
      <4> QED BY <1>2, <1>3, <4>1 DEF Where
    <3> QED BY <3>1
  <2>2. CASE After # {}
    <3>1. After \subseteq Nat
      OBVIOUS
    <3>2. PICK k \in After : \A j \in After : k <= j
      BY <2>2, <3>1, LeastOf
    <3>3. k \in 0..Len(s) /\ End(s, k) > p
      OBVIOUS
    <3>4. k # 0
      BY <1>2, <1>3, <3>3
    <3>5. k - 1 \notin After /\ k - 1 \in 0..Len(s) /\ k - 1 < Len(s)
      <4>1. k - 1 \in 0..Len(s) /\ k - 1 < Len(s) /\ ~(k <= k - 1)
        BY <1>1, <3>3, <3>4
      <4> HIDE DEF After
      <4> QED BY <3>2, <4>1
    <3>6. End(s, k - 1) <= p
      BY <1>2, <1>3, <3>5
    <3>7. Where(s, p, k - 1)
      <4>1. k - 1 + 1 = k
        BY <3>3
      <4> QED BY <3>3, <3>5, <3>6, <4>1 DEF Where
    <3> QED BY <3>7
  <2> QED BY <2>1, <2>2
<1>5. ASSUME NEW j, NEW k, Where(s, p, j), Where(s, p, k), j < k PROVE FALSE
  <2>1. j \in 0..Len(s) /\ k \in 0..Len(s) /\ j + 1 \in 0..Len(s) /\ j + 1 <= k /\ j < Len(s)
    BY <1>1, <1>5 DEF Where
  <2>2. End(s, j + 1) <= End(s, k) /\ p < End(s, j + 1) /\ End(s, k) <= p
    BY <1>2, <1>5, <2>1 DEF Where
  <2> QED BY <1>2, <1>3, <2>1, <2>2
<1>6. ASSUME NEW j, NEW k, Where(s, p, j), Where(s, p, k) PROVE j = k
  <2>1. j \in Nat /\ k \in Nat
    BY <1>1, <1>6 DEF Where
  <2>2. ~(j < k) /\ ~(k < j)
    BY <1>5, <1>6
  <2> QED BY <2>1, <2>2
<1> QED BY <1>4, <1>6

(* What has been received of the packet that is under way.                  *)
Under(s, p, k) == IF k = Len(s) THEN <<>> ELSE SubSeq(s[k + 1], 1, p - End(s, k))

(* And what the parser holds by then.                                       *)
Held(s, p, k) == [raw |-> Under(s, p, k), packets |-> SubSeq(s, 1, k)]

(* The next byte is one of the packet under way, or its last.               *)
LEMMA NextPlace ==
  ASSUME NEW s \in Seq(Packets), NEW p \in Nat, p < Len(FlattenSeq(s)), NEW k, Where(s, p, k)
  PROVE  /\ k \in 0..Len(s) - 1 /\ s[k + 1] \in Packets
         /\ p - End(s, k) \in 0..Len(s[k + 1]) - 1
         /\ FlattenSeq(s)[p + 1] = s[k + 1][p - End(s, k) + 1]
         /\ Under(s, p, k) = SubSeq(s[k + 1], 1, p - End(s, k))
         /\ p - End(s, k) + 1 = Len(s[k + 1]) =>
              Where(s, p + 1, k + 1) /\ Under(s, p + 1, k + 1) = <<>> /\ End(s, k + 1) = p + 1
         /\ p - End(s, k) + 1 # Len(s[k + 1]) =>
              Where(s, p + 1, k) /\ Under(s, p + 1, k) = SubSeq(s[k + 1], 1, p - End(s, k) + 1)
<1>1. s \in Seq(Seq(Nat)) /\ Len(s) \in Nat
  BY PacketIs
<1>2. /\ Len(FlattenSeq(s)) = End(s, Len(s)) /\ End(s, 0) = 0
      /\ \A i \in 0..Len(s) : End(s, i) \in Nat
  BY <1>1, Layout
<1>a. ASSUME NEW i \in 0..Len(s) - 1
      PROVE  /\ End(s, i + 1) = End(s, i) + Len(s[i + 1])
             /\ \A j \in 1..Len(s[i + 1]) : FlattenSeq(s)[End(s, i) + j] = s[i + 1][j]
  <2>1. i + 1 \in 1..Len(s) /\ (i + 1) - 1 = i
    BY <1>1
  <2> DEFINE h == i + 1
  <2>2. h \in 1..Len(s) /\ h - 1 = i
    BY <2>1
  <2> HIDE DEF h
  <2>3. /\ End(s, h) = End(s, h - 1) + Len(s[h])
        /\ \A j \in 1..Len(s[h]) : FlattenSeq(s)[End(s, h - 1) + j] = s[h][j]
    BY <1>1, <2>2, Layout
  <2> QED BY <2>2, <2>3 DEF h
<1>3. k \in 0..Len(s) /\ End(s, k) \in Nat /\ End(s, k) <= p
  BY <1>2 DEF Where
<1>4. k < Len(s) /\ k + 1 \in 1..Len(s) /\ k \in 0..Len(s) - 1 /\ p < End(s, k + 1)
  <2>1. k # Len(s)
    BY <1>1, <1>2, <1>3
  <2> QED BY <1>1, <1>3, <2>1 DEF Where
<1> DEFINE m == s[k + 1]
           q == p - End(s, k)
<1>5. m \in Packets /\ Len(m) \in Nat /\ Len(m) >= 3
  BY <1>4, PacketIs
<1>6. End(s, k + 1) = End(s, k) + Len(m)
  BY <1>4, <1>a
<1>7. q \in 0..Len(m) - 1 /\ p = End(s, k) + q /\ q + 1 \in 1..Len(m)
  <2> HIDE DEF m
  <2> QED BY <1>3, <1>4, <1>5, <1>6
<1>8. FlattenSeq(s)[p + 1] = m[q + 1]
  <2>1. p + 1 = End(s, k) + (q + 1)
    BY <1>3, <1>7
  <2>2. FlattenSeq(s)[End(s, k) + (q + 1)] = s[k + 1][q + 1]
    <3>1. \A j \in 1..Len(s[k + 1]) : FlattenSeq(s)[End(s, k) + j] = s[k + 1][j]
      BY <1>4, <1>a
    <3> QED BY <1>7, <3>1
  <2> QED BY <2>1, <2>2
<1>9. Under(s, p, k) = SubSeq(m, 1, q)
  BY <1>1, <1>3, <1>4 DEF Under
<1> HIDE DEF m, q
<1>10. ASSUME q + 1 = Len(m)
       PROVE  Where(s, p + 1, k + 1) /\ Under(s, p + 1, k + 1) = <<>> /\ End(s, k + 1) = p + 1
  <2>1. p + 1 = End(s, k + 1)
    <3>1. p + 1 = End(s, k) + (q + 1)
      BY <1>3, <1>7
    <3> QED BY <1>6, <1>10, <3>1
  <2>2. Where(s, p + 1, k + 1)
    <3>1. k + 1 < Len(s) => p + 1 < End(s, k + 1 + 1)
      <4> SUFFICES ASSUME k + 1 < Len(s) PROVE p + 1 < End(s, k + 1 + 1)
        OBVIOUS
      <4>1. k + 1 \in 0..Len(s) - 1 /\ k + 1 + 1 \in 1..Len(s)
        BY <1>1, <1>3
      <4>2. s[k + 1 + 1] \in Packets /\ Len(s[k + 1 + 1]) \in Nat /\ Len(s[k + 1 + 1]) >= 3
        BY <4>1, PacketIs
      <4>3. End(s, k + 1 + 1) = End(s, k + 1) + Len(s[k + 1 + 1])
        BY <4>1, <1>a
      <4>4. End(s, k + 1) \in Nat
        BY <1>1, <1>2, <4>1
      <4> QED BY <2>1, <4>2, <4>3, <4>4
    <3> QED BY <1>1, <1>4, <2>1, <3>1 DEF Where
  <2>3. Under(s, p + 1, k + 1) = <<>>
    <3>1. (p + 1) - End(s, k + 1) = 0
      BY <2>1
    <3>2. CASE k + 1 = Len(s)
      BY <3>2 DEF Under
    <3>3. CASE k + 1 # Len(s)
      <4>1. k + 1 + 1 \in 1..Len(s)
        BY <1>1, <1>3, <1>4, <3>3
      <4>2. s[k + 1 + 1] \in Seq(Nat)
        BY <4>1, PacketIs
      <4>3. SubSeq(s[k + 1 + 1], 1, 0) = <<>>
        BY <4>2
      <4>4. Under(s, p + 1, k + 1) = SubSeq(s[k + 1 + 1], 1, (p + 1) - End(s, k + 1))
        BY <3>3 DEF Under
      <4> QED BY <3>1, <4>3, <4>4
    <3> QED BY <3>2, <3>3
  <2> QED BY <2>1, <2>2, <2>3
<1>11. ASSUME q + 1 # Len(m)
       PROVE  Where(s, p + 1, k) /\ Under(s, p + 1, k) = SubSeq(m, 1, q + 1)
  <2>1. p + 1 < End(s, k + 1)
    BY <1>3, <1>5, <1>6, <1>7, <1>11
  <2>2. Where(s, p + 1, k)
    BY <1>3, <2>1 DEF Where
  <2>3. Under(s, p + 1, k) = SubSeq(m, 1, q + 1)
    <3>1. (p + 1) - End(s, k) = q + 1
      BY <1>3, <1>7
    <3> QED BY <1>1, <1>3, <1>4, <3>1 DEF Under, m
  <2> QED BY <2>2, <2>3
<1> QED BY <1>4, <1>5, <1>7, <1>8, <1>9, <1>10, <1>11 DEF m, q

LEMMA NextByte ==
  ASSUME NEW s \in Seq(Packets), NEW p \in Nat, p < Len(FlattenSeq(s)), NEW k, Where(s, p, k)
  PROVE  \E j : Where(s, p + 1, j) /\ Analyse(Held(s, p, k), FlattenSeq(s)[p + 1]) = Held(s, p + 1, j)
<1> DEFINE packets == SubSeq(s, 1, k)
           m == s[k + 1]
           q == p - End(s, k)
<1>1. /\ k \in 0..Len(s) - 1 /\ m \in Packets /\ q \in 0..Len(m) - 1
      /\ FlattenSeq(s)[p + 1] = m[q + 1] /\ Under(s, p, k) = SubSeq(m, 1, q)
      /\ q + 1 = Len(m) => Where(s, p + 1, k + 1) /\ Under(s, p + 1, k + 1) = <<>>
      /\ q + 1 # Len(m) => Where(s, p + 1, k) /\ Under(s, p + 1, k) = SubSeq(m, 1, q + 1)
  BY NextPlace
<1>2. Append(packets, m) = SubSeq(s, 1, k + 1)
  <2>1. Len(s) \in Nat /\ k \in 0..Len(s) - 1
    BY <1>1
  <2> QED BY <2>1
<1> HIDE DEF m, q, packets
<1>3. Analyse(Held(s, p, k), FlattenSeq(s)[p + 1]) =
        IF q + 1 = Len(m) THEN [raw |-> <<>>, packets |-> Append(packets, m)]
                          ELSE [raw |-> SubSeq(m, 1, q + 1), packets |-> packets]
  <2>1. Held(s, p, k) = [raw |-> SubSeq(m, 1, q), packets |-> packets]
    BY <1>1 DEF Held, packets
  <2> QED BY <1>1, <2>1, ByteOfPacket
<1>4. CASE q + 1 = Len(m)
  <2>1. Held(s, p + 1, k + 1) = [raw |-> <<>>, packets |-> Append(packets, m)]
    BY <1>1, <1>2, <1>4 DEF Held
  <2> QED BY <1>1, <1>3, <1>4, <2>1
<1>5. CASE q + 1 # Len(m)
  <2>1. Held(s, p + 1, k) = [raw |-> SubSeq(m, 1, q + 1), packets |-> packets]
    BY <1>1, <1>5 DEF Held, packets
  <2> QED BY <1>1, <1>3, <1>5, <2>1
<1> QED BY <1>4, <1>5

(* A run of bytes of the packets s leaves the parser with the packets that  *)
(* end in it, and with what it has of the next.                             *)
LEMMA StepByStep ==
  ASSUME NEW s \in Seq(Packets), NEW p \in Nat, NEW n \in Nat, p + n <= Len(FlattenSeq(s)),
         Where(s, p, 0)
  PROVE  \E k : /\ Where(s, p + n, k)
                /\ Analysis(Under(s, p, 0), SubSeq(FlattenSeq(s), p + 1, p + n)) = Held(s, p + n, k)
<1> DEFINE packet == Under(s, p, 0)
           all == FlattenSeq(s)
           buffer == SubSeq(all, p + 1, p + n)
<1>1. all \in Seq(Nat) /\ Len(all) \in Nat /\ s \in Seq(Seq(Nat))
  BY PacketIs, Layout
<1>2. /\ Len(buffer) = n /\ DOMAIN buffer = 1..n
      /\ \A i \in 1..n : buffer[i] = all[p + i]
  <2> HIDE DEF all
  <2>1. p + n <= Len(all)
    BY DEF all
  <2>2. Len(buffer) = n /\ DOMAIN buffer = 1..n
    BY <1>1, <2>1
  <2>3. ASSUME NEW i \in 1..n PROVE buffer[i] = all[p + i]
    BY <1>1, <2>1
  <2> QED BY <2>2, <2>3
<1>3. Analysis(Under(s, p, 0), SubSeq(FlattenSeq(s), p + 1, p + n)) = Analysis(packet, buffer)
  OBVIOUS
<1> HIDE DEF buffer, packet
<1>4. PICK g : Parses(packet, buffer, g) /\ Analysis(packet, buffer) = g[n]
  BY <1>2, AnalysisIs
<1> DEFINE Holds(i) == \E k : Where(s, p + i, k) /\ g[i] = Held(s, p + i, k)
           Bad == {i \in 0..n : ~Holds(i)}
<1>5. Bad = {}
  <2> SUFFICES ASSUME Bad # {} PROVE FALSE
    OBVIOUS
  <2>1. Bad \subseteq Nat
    OBVIOUS
  <2>2. PICK i \in Bad : \A j \in Bad : i <= j
    BY <2>1, LeastOf
  <2>3. i \in 0..n /\ ~Holds(i)
    OBVIOUS
  <2>4. i # 0
    <3>1. Holds(0)
      <4>1. SubSeq(s, 1, 0) = <<>> /\ p + 0 = p
        OBVIOUS
      <4>2. g[0] = Held(s, p + 0, 0)
        BY <1>4, <4>1 DEF Parses, Held, packet
      <4> QED BY <4>1, <4>2
    <3> QED BY <2>3, <3>1
  <2>5. i - 1 \in 0..n /\ i - 1 \notin Bad
    <3> HIDE DEF Bad
    <3> QED BY <2>2, <2>3, <2>4
  <2>6. Holds(i - 1)
    <3> HIDE DEF Holds
    <3> QED BY <2>5
  <2>7. PICK k : Where(s, p + (i - 1), k) /\ g[i - 1] = Held(s, p + (i - 1), k)
    BY <2>6
  <2> DEFINE at == p + (i - 1)
  <2>8. at \in Nat /\ at < Len(all) /\ at + 1 = p + i /\ i \in 1..n
    BY <1>1, <2>3, <2>4
  <2> HIDE DEF at
  <2>9. Where(s, at, k) /\ g[i - 1] = Held(s, at, k)
    BY <2>7 DEF at
  <2>10. g[i] = Analyse(g[i - 1], all[at + 1])
    BY <1>2, <1>4, <2>8 DEF Parses
  <2>11. \E j : Where(s, at + 1, j) /\ Analyse(Held(s, at, k), all[at + 1]) = Held(s, at + 1, j)
    BY <2>8, <2>9, NextByte
  <2>12. Holds(i)
    BY <2>8, <2>9, <2>10, <2>11
  <2> QED BY <2>3, <2>12
<1>6. Holds(n)
  <2> HIDE DEF Holds
  <2>1. n \in 0..n
    OBVIOUS
  <2> QED BY <1>5, <2>1
<1> QED BY <1>3, <1>4, <1>6

(* Whatever it is given, it emits packets.                                  *)
LEMMA EmitsPackets ==
  ASSUME NEW packet, NEW buffer, Len(buffer) \in Nat, DOMAIN buffer = 1..Len(buffer)
  PROVE  Analysis(packet, buffer).packets \in Seq(Packets)
<1> DEFINE n == Len(buffer)
           Fits(p) == p = [raw |-> p.raw, packets |-> p.packets] /\ p.packets \in Seq(Packets)
<1>1. PICK g : Parses(packet, buffer, g) /\ Analysis(packet, buffer) = g[n]
  BY AnalysisIs
<1>2. ASSUME NEW p, NEW byte, Fits(p) PROVE Fits(Analyse(p, byte))
  <2>1. ASSUME NEW r PROVE Fits([p EXCEPT !.raw = r])
    BY <1>2
  <2>2. Fits(FindHeader(p, byte))
    BY <1>2, <2>1 DEF FindHeader
  <2>3. ASSUME NEW m PROVE Fits(CheckPacket(p, m))
    BY <1>2 DEF CheckPacket, CheckCrc
  <2> HIDE DEF Fits
  <2>4. Fits(Accept(p, byte))
    BY <2>1, <2>3 DEF Accept
  <2> QED BY <2>2, <2>4 DEF Analyse
<1>3. Fits([raw |-> packet, packets |-> <<>>])
  OBVIOUS
<1> DEFINE Bad == {i \in 0..n : ~Fits(g[i])}
<1>4. Bad = {}
  <2> SUFFICES ASSUME Bad # {} PROVE FALSE
    OBVIOUS
  <2>1. Bad \subseteq Nat
    OBVIOUS
  <2>2. PICK i \in Bad : \A j \in Bad : i <= j
    BY <2>1, LeastOf
  <2> HIDE DEF Fits
  <2>3. i \in 0..n /\ ~Fits(g[i])
    OBVIOUS
  <2>4. i # 0
    BY <1>1, <1>3, <2>3 DEF Parses
  <2>5. i - 1 \in 0..n /\ i - 1 \notin Bad /\ i \in 1..n
    <3> HIDE DEF Bad
    <3> QED BY <2>2, <2>3, <2>4
  <2>6. Fits(g[i - 1]) /\ g[i] = Analyse(g[i - 1], buffer[i])
    BY <1>1, <2>5 DEF Parses
  <2> QED BY <1>2, <2>3, <2>6
<1>5. Fits(g[n])
  <2> HIDE DEF Fits
  <2>1. n \in 0..n
    OBVIOUS
  <2> QED BY <1>4, <2>1
<1> QED BY <1>1, <1>5

-----------------------------------------------------------------------------
(* What is on the way, the first packet received in part.                   *)
PipeInv ==
  /\ pipe \in Seq(Packets) /\ taken \in Nat
  /\ IF pipe = <<>> THEN taken = 0 ELSE taken < Len(pipe[1])

LEMMA CompleteIs ==
  ASSUME pipe \in Seq(Packets), NEW p \in 0..Len(Coming)
  PROVE  Where(pipe, p, Complete(p)) /\ \A k : Where(pipe, p, k) => k = Complete(p)
<1> DEFINE Fits(k) == /\ Len(FlattenSeq(SubSeq(pipe, 1, k))) <= p
                      /\ k < Len(pipe) => Len(FlattenSeq(SubSeq(pipe, 1, k + 1))) > p
<1>1. p \in Nat /\ Len(pipe) \in Nat /\ \A i \in 0..Len(pipe) : End(pipe, i) \in Nat
  BY PacketIs, Layout DEF Coming
<1>2. \A k \in 0..Len(pipe) : Fits(k) <=> Where(pipe, p, k)
  <2> SUFFICES ASSUME NEW k \in 0..Len(pipe) PROVE Fits(k) <=> Where(pipe, p, k)
    OBVIOUS
  <2>1. k < Len(pipe) => End(pipe, k + 1) \in Nat
    BY <1>1
  <2> QED BY <1>1, <2>1 DEF Where, End, Upto
<1>3. PICK k : Where(pipe, p, k)
  BY WhereIs DEF Coming
<1>4. k \in 0..Len(pipe) /\ Fits(k)
  BY <1>2, <1>3 DEF Where
<1>5. Complete(p) = CHOOSE i \in 0..Len(pipe) : Fits(i)
  BY DEF Complete
<1> HIDE DEF Fits
<1>6. Complete(p) \in 0..Len(pipe) /\ Fits(Complete(p))
  BY <1>4, <1>5
<1>7. Where(pipe, p, Complete(p))
  BY <1>2, <1>6
<1> QED BY <1>7, WhereIs DEF Coming

LEMMA FromTheFirst ==
  ASSUME PipeInv
  PROVE  /\ Where(pipe, taken, 0) /\ taken <= Len(Coming) /\ Len(Coming) \in Nat
         /\ Under(pipe, taken, 0) = IF pipe = <<>> THEN <<>> ELSE SubSeq(pipe[1], 1, taken)
<1>1. pipe \in Seq(Seq(Nat)) /\ Len(pipe) \in Nat /\ taken \in Nat
  BY PacketIs DEF PipeInv
<1>2. /\ Len(Coming) = End(pipe, Len(pipe)) /\ End(pipe, 0) = 0
      /\ \A k \in 0..Len(pipe) : End(pipe, k) \in Nat
      /\ \A k \in 1..Len(pipe) : End(pipe, k) = End(pipe, k - 1) + Len(pipe[k])
      /\ \A j, k \in 0..Len(pipe) : j <= k => End(pipe, j) <= End(pipe, k)
  BY <1>1, Layout DEF Coming
<1>3. CASE pipe = <<>>
  BY <1>1, <1>2, <1>3 DEF PipeInv, Where, Under
<1>4. CASE pipe # <<>>
  <2>1. Len(pipe) > 0 /\ 1 \in 1..Len(pipe) /\ taken < Len(pipe[1])
    BY <1>1, <1>4 DEF PipeInv
  <2>2. End(pipe, 1) = Len(pipe[1]) /\ End(pipe, 1) <= End(pipe, Len(pipe))
    <3>1. End(pipe, 1) = End(pipe, 1 - 1) + Len(pipe[1]) /\ 1 - 1 = 0
      BY <1>2, <2>1
    <3>2. Len(pipe[1]) \in Nat
      BY <1>1, <2>1
    <3> QED BY <1>1, <1>2, <2>1, <3>1, <3>2
  <2>3. Where(pipe, taken, 0)
    <3>1. 0 + 1 = 1
      OBVIOUS
    <3> QED BY <1>1, <1>2, <2>1, <2>2, <3>1 DEF Where
  <2>4. Under(pipe, taken, 0) = SubSeq(pipe[1], 1, taken)
    <3>1. 0 + 1 = 1 /\ taken - 0 = taken /\ 0 # Len(pipe)
      BY <1>1, <2>1
    <3> QED BY <1>2, <3>1 DEF Under
  <2> QED BY <1>1, <1>2, <1>4, <2>1, <2>2, <2>3, <2>4
<1> QED BY <1>3, <1>4

(* What is left on the way when n bytes have been taken off it.             *)
LEMMA TakesBytes ==
  ASSUME PipeInv, NEW n \in Nat, taken + n <= Len(Coming), TakeBytes(n)
  PROVE  /\ PipeInv' /\ Where(pipe, taken + n, Complete(taken + n))
         /\ Under(pipe, taken + n, Complete(taken + n)) =
              IF pipe' = <<>> THEN <<>> ELSE SubSeq(pipe'[1], 1, taken')
         /\ taken' = (taken + n) - End(pipe, Complete(taken + n))
<1> DEFINE p == taken + n
           k == Complete(p)
<1>1. pipe \in Seq(Seq(Nat)) /\ Len(pipe) \in Nat /\ taken \in Nat /\ p \in 0..Len(Coming) /\ p \in Nat
  BY PacketIs, FromTheFirst DEF PipeInv
<1>2. Where(pipe, p, k)
  BY <1>1, CompleteIs DEF PipeInv
<1>3. pipe' = SubSeq(pipe, k + 1, Len(pipe)) /\ taken' = p - End(pipe, k)
  <2>1. End(pipe, k) \in Nat
    BY <1>1, <1>2, Layout DEF Where
  <2>2. taken' = taken + (n - End(pipe, k))
    BY DEF TakeBytes, End, Upto
  <2> QED BY <1>1, <2>1, <2>2 DEF TakeBytes
<1> HIDE DEF p, k
<1>4. /\ k \in 0..Len(pipe) /\ End(pipe, k) \in Nat /\ End(pipe, k) <= p
      /\ Len(Coming) = End(pipe, Len(pipe))
  BY <1>1, <1>2, Layout DEF Where, Coming
<1>5. taken' \in Nat
  BY <1>1, <1>3, <1>4
<1>6. CASE k = Len(pipe)
  <2>1. taken' = 0 /\ pipe' = <<>>
    BY <1>1, <1>3, <1>4, <1>6
  <2>2. pipe' \in Seq(Packets)
    BY <2>1
  <2>3. Under(pipe, p, k) = <<>>
    BY <1>6 DEF Under
  <2> QED BY <1>2, <1>3, <1>5, <2>1, <2>2, <2>3 DEF PipeInv, p, k
<1>7. CASE k # Len(pipe)
  <2>1. k < Len(pipe) /\ p < End(pipe, k + 1) /\ k + 1 \in 1..Len(pipe)
    BY <1>1, <1>2, <1>4, <1>7 DEF Where
  <2>2. pipe' \in Seq(Packets) /\ pipe'[1] = pipe[k + 1] /\ pipe' # <<>>
    <3>1. pipe \in Seq(Packets)
      BY DEF PipeInv
    <3>2. /\ SubSeq(pipe, k + 1, Len(pipe)) \in Seq(Packets)
          /\ Len(SubSeq(pipe, k + 1, Len(pipe))) = Len(pipe) - k
      BY <1>1, <1>4, <2>1, <3>1
    <3>3. SubSeq(pipe, k + 1, Len(pipe))[1] = pipe[k + 1]
      BY <1>1, <1>4, <2>1, <3>1
    <3>4. SubSeq(pipe, k + 1, Len(pipe)) # <<>>
      <4>1. Len(pipe) - k # 0
        BY <1>1, <1>4, <2>1
      <4>2. \A x : x = <<>> => Len(x) = 0
        OBVIOUS
      <4> QED BY <3>2, <4>1, <4>2
    <3> QED BY <1>3, <3>2, <3>3, <3>4
  <2>3. End(pipe, k + 1) = End(pipe, k) + Len(pipe[k + 1])
    <3> DEFINE h == k + 1
    <3>1. h \in 1..Len(pipe) /\ h - 1 = k
      BY <1>1, <1>4, <2>1
    <3> HIDE DEF h
    <3>2. End(pipe, h) = End(pipe, h - 1) + Len(pipe[h])
      BY <1>1, <3>1, Layout
    <3> QED BY <3>1, <3>2 DEF h
  <2>4. taken' < Len(pipe'[1])
    <3>1. Len(pipe[k + 1]) \in Nat
      BY <1>1, <2>1
    <3> QED BY <1>1, <1>3, <1>4, <2>1, <2>2, <2>3, <3>1
  <2>5. Under(pipe, p, k) = SubSeq(pipe'[1], 1, taken')
    BY <1>3, <1>7, <2>2 DEF Under
  <2> QED BY <1>2, <1>3, <1>5, <2>2, <2>4, <2>5 DEF PipeInv, p, k
<1> QED BY <1>6, <1>7

-----------------------------------------------------------------------------
(* The messages of the bus.                                                 *)

LEMMA Whole ==
  ASSUME NEW L \in Nat, NEW v \in Nat \ {0}
  PROVE  LET c == (L + v - 1) \div v
         IN  /\ c \in Nat /\ L <= c * v /\ c * v < L + v
<1> DEFINE x == L + v - 1
           c == x \div v
<1>1. x \in Nat
  OBVIOUS
<1>2. c \in Nat /\ c * v <= x /\ x < (c + 1) * v
  BY <1>1
<1>3. (c + 1) * v = c * v + v /\ c * v \in Nat
  BY <1>2
<1> HIDE DEF c
<1>4. L <= c * v /\ c * v < L + v
  BY <1>2, <1>3
<1> QED BY <1>2, <1>4 DEF c

LEMMA Multiples ==
  ASSUME NEW v \in Nat, NEW a \in Nat, NEW b \in Nat, a <= b
  PROVE  a * v \in Nat /\ b * v \in Nat /\ a * v <= b * v /\ (a + 1) * v = a * v + v
<1>1. (b - a) * v \in Nat /\ b - a \in Nat
  OBVIOUS
<1>2. b * v = a * v + (b - a) * v
  OBVIOUS
<1>3. a * v \in Nat /\ b * v \in Nat /\ (a + 1) * v = a * v + v
  OBVIOUS
<1> QED BY <1>1, <1>2, <1>3

(* Two parts of a sequence, one behind the other.                           *)
LEMMA PartsMeet ==
  ASSUME NEW S, NEW s \in Seq(S), NEW a \in Nat, NEW b \in Nat, a <= b, b <= Len(s)
  PROVE  SubSeq(s, 1, a) \o SubSeq(s, a + 1, b) = SubSeq(s, 1, b)
<1>1. Len(s) \in Nat
  OBVIOUS
<1> DEFINE x == SubSeq(s, 1, a)
           y == SubSeq(s, a + 1, b)
           z == SubSeq(s, 1, b)
<1>2. x \in Seq(S) /\ Len(x) = a /\ \A i \in 1..a : x[i] = s[i]
  BY <1>1
<1>3. y \in Seq(S) /\ Len(y) = b - a /\ \A i \in 1..b - a : y[i] = s[a + i]
  BY <1>1
<1>4. z \in Seq(S) /\ Len(z) = b /\ \A i \in 1..b : z[i] = s[i]
  BY <1>1
<1> HIDE DEF x, y, z
<1> DEFINE w == x \o y
<1>5. /\ w \in Seq(S) /\ Len(w) = Len(x) + Len(y)
      /\ \A i \in 1..Len(x) + Len(y) : w[i] = IF i <= Len(x) THEN x[i] ELSE y[i - Len(x)]
  BY <1>2, <1>3, ConcatProperties
<1> HIDE DEF w
<1>6. Len(w) = b
  BY <1>2, <1>3, <1>5
<1>7. ASSUME NEW i \in 1..b PROVE w[i] = z[i]
  <2>1. w[i] = IF i <= a THEN x[i] ELSE y[i - a]
    BY <1>2, <1>3, <1>5
  <2>2. CASE i <= a
    BY <1>2, <1>4, <2>1, <2>2
  <2>3. CASE i > a
    <3>1. i - a \in 1..b - a /\ a + (i - a) = i
      BY <2>3
    <3>2. y[i - a] = s[i]
      BY <1>3, <3>1
    <3> QED BY <1>4, <2>1, <2>3, <3>2
  <2> QED BY <2>2, <2>3
<1>8. w = z
  BY <1>4, <1>5, <1>6, <1>7, SeqEqual
<1> QED BY <1>8 DEF w, x, y, z

LEMMA ChunksMakeUp ==
  ASSUME NEW data \in Seq(Nat)
  PROVE  FlattenSeq(Chunks(data)) = data
<1> DEFINE L == Len(data)
           v == valid_base_len
           c == (L + v - 1) \div v
           ch == Chunks(data)
           To(i) == IF i * v < L THEN i * v ELSE L
<1>1. L \in Nat /\ v \in Nat \ {0}
  BY RtcmAssumption
<1>2. c \in Nat /\ L <= c * v /\ c * v < L + v
  BY <1>1, Whole
<1>3. ch = [i \in 1..c |-> SubSeq(data, (i - 1) * v + 1, To(i))]
  BY DEF Chunks
<1> HIDE DEF L, v, c, ch
<1>4. ASSUME NEW i \in 1..c
      PROVE  To(i - 1) \in Nat /\ To(i - 1) = (i - 1) * v /\ To(i) \in Nat /\ To(i - 1) <= To(i) /\ To(i) <= L
  <2> DEFINE h == i - 1
             b == c - 1
  <2>1. h \in Nat /\ b \in Nat /\ h <= b /\ h + 1 = i /\ b + 1 = c
    BY <1>2
  <2> HIDE DEF h, b
  <2>2. h * v \in Nat /\ b * v \in Nat /\ h * v <= b * v /\ (h + 1) * v = h * v + v /\ (b + 1) * v = b * v + v
    BY <1>1, <2>1, Multiples
  <2>3. b * v < L /\ i * v = h * v + v
    BY <1>1, <1>2, <2>1, <2>2
  <2>4. To(h) \in Nat /\ To(h) = h * v /\ To(i) \in Nat /\ To(h) <= To(i) /\ To(i) <= L
    BY <1>1, <2>2, <2>3
  <2> QED BY <2>4 DEF h
<1>5. ch \in Seq(Seq(Nat)) /\ Len(ch) = c
  <2>1. ASSUME NEW i \in 1..c PROVE SubSeq(data, (i - 1) * v + 1, To(i)) \in Seq(Nat)
    <3>1. (i - 1) * v \in Nat /\ To(i) \in Nat /\ To(i) <= L
      BY <1>4
    <3> QED BY <3>1 DEF L
  <2> DEFINE part(i) == SubSeq(data, (i - 1) * v + 1, To(i))
  <2>2. \A i \in 1..c : part(i) \in Seq(Nat)
    BY <2>1
  <2>3. ch = [i \in 1..c |-> part(i)]
    BY <1>3
  <2> HIDE DEF part
  <2>4. ch \in [1..c -> Seq(Nat)]
    BY <2>2, <2>3
  <2> QED BY <1>2, <2>4
<1>6. /\ Upto(ch, 0) = <<>> /\ Upto(ch, c) = FlattenSeq(ch)
      /\ \A k \in 1..c : Upto(ch, k) = Upto(ch, k - 1) \o ch[k]
  BY <1>5, FlatStep
<1> DEFINE Bad == {k \in 0..c : Upto(ch, k) # SubSeq(data, 1, To(k))}
<1>7. Bad = {}
  <2> SUFFICES ASSUME Bad # {} PROVE FALSE
    OBVIOUS
  <2>1. Bad \subseteq Nat
    OBVIOUS
  <2>2. PICK k \in Bad : \A j \in Bad : k <= j
    BY <2>1, LeastOf
  <2>3. k \in 0..c /\ Upto(ch, k) # SubSeq(data, 1, To(k))
    OBVIOUS
  <2>4. k # 0
    <3>1. To(0) = 0
      BY <1>1
    <3>2. SubSeq(data, 1, 0) = <<>>
      OBVIOUS
    <3> QED BY <1>6, <2>3, <3>1, <3>2
  <2>5. k - 1 \in 0..c /\ k - 1 \notin Bad /\ k \in 1..c
    <3> HIDE DEF Bad
    <3> QED BY <1>2, <2>2, <2>3, <2>4
  <2> HIDE DEF To
  <2>6. Upto(ch, k - 1) = SubSeq(data, 1, To(k - 1))
    BY <2>5
  <2>7. ch[k] = SubSeq(data, To(k - 1) + 1, To(k))
    BY <1>3, <1>4, <2>5
  <2>8. SubSeq(data, 1, To(k - 1)) \o SubSeq(data, To(k - 1) + 1, To(k)) = SubSeq(data, 1, To(k))
    BY <1>4, <2>5, PartsMeet DEF L
  <2> QED BY <1>6, <2>3, <2>5, <2>6, <2>7, <2>8
<1>8. Upto(ch, c) = SubSeq(data, 1, To(c)) /\ To(c) = L
  <2>1. To(c) = L
    BY <1>1, <1>2
  <2> HIDE DEF To
  <2>2. c \in 0..c
    BY <1>2
  <2> QED BY <1>7, <2>1, <2>2
<1>9. SubSeq(data, 1, L) = data
  BY DEF L
<1> QED BY <1>6, <1>8, <1>9 DEF ch

(* What is to be forwarded is what the parser has emitted, and a parser is  *)
(* in step only while the client streams.                                   *)
Forwarding ==
  /\ conn = "streaming" => delivered = FlattenSeq(due)
  /\ conn \in {"parsed", "writing"} => delivered = <<>> /\ due = frames
  /\ conn \notin {"streaming", "parsed", "writing"} => delivered = <<>> /\ due = <<>> /\ ~intact

StreamInv ==
  /\ PipeInv /\ traffic \in Traffics /\ frames \in Seq(Packets)
  /\ (intact => InStepNow) /\ Forwarding

(* recv(): a parser that is in step finds just what was completed.          *)
LEMMA RecvStep ==
  ASSUME StreamInv, NEW n \in Nat, taken + n <= Len(Coming), Recv(n), delivered' = <<>>, traffic' = traffic
  PROVE  StreamInv'
<1> DEFINE p == taken + n
           buffer == SubSeq(Coming, taken + 1, taken + n)
           result == Analysis(raw, buffer)
           complete == Complete(taken + n)
<1>1. /\ Len(buffer) \in Nat /\ DOMAIN buffer = 1..Len(buffer)
  <2>1. Coming \in Seq(Nat) /\ taken \in Nat /\ Len(Coming) \in Nat
    BY PacketIs, Layout DEF StreamInv, PipeInv, Coming
  <2> QED BY <2>1
<1>2. result.packets \in Seq(Packets)
  <2> HIDE DEF buffer
  <2> QED BY <1>1, EmitsPackets
<1>3. /\ PipeInv' /\ Where(pipe, p, complete)
      /\ Under(pipe, p, complete) = IF pipe' = <<>> THEN <<>> ELSE SubSeq(pipe'[1], 1, taken')
  BY TakesBytes DEF StreamInv, Recv
<1>4. intact => result = Held(pipe, p, complete)
  <2> SUFFICES ASSUME intact PROVE result = Held(pipe, p, complete)
    OBVIOUS
  <2>1. pipe \in Seq(Packets) /\ taken \in Nat /\ Where(pipe, taken, 0) /\ raw = Under(pipe, taken, 0)
    BY FromTheFirst DEF StreamInv, PipeInv, InStepNow
  <2>2. \E k : Where(pipe, p, k) /\ result = Held(pipe, p, k)
    <3>1. taken + n <= Len(FlattenSeq(pipe))
      BY DEF Coming
    <3>2. \E k : /\ Where(pipe, taken + n, k)
                 /\ Analysis(Under(pipe, taken, 0), SubSeq(FlattenSeq(pipe), taken + 1, taken + n)) =
                      Held(pipe, taken + n, k)
      BY <2>1, <3>1, StepByStep
    <3> QED BY <2>1, <3>2 DEF Coming
  <2>3. p \in 0..Len(Coming)
    BY <2>1, FromTheFirst DEF StreamInv
  <2>4. \A k : Where(pipe, p, k) => k = complete
    BY <2>1, <2>3, CompleteIs
  <2> HIDE DEF p, result, complete
  <2> QED BY <2>2, <2>4
<1>5. /\ raw' = result.raw /\ frames' = result.packets
      /\ conn' = IF result.packets = <<>> THEN "streaming" ELSE "parsed"
      /\ intact' = (intact \/ InStepNow')
      /\ due' = IF intact THEN SubSeq(pipe, 1, complete) ELSE result.packets
  BY DEF Recv
<1> HIDE DEF p, buffer, result, complete
<1>6. intact => raw' = Under(pipe, p, complete) /\ due' = result.packets
  BY <1>4, <1>5 DEF Held
<1>7. intact' => InStepNow'
  BY <1>3, <1>5, <1>6 DEF InStepNow
<1>8. due' = frames'
  BY <1>5, <1>6
<1>9. Forwarding'
  <2>1. CASE result.packets = <<>>
    <3>1. conn' = "streaming" /\ due' = <<>> /\ delivered' = <<>>
      BY <1>5, <1>8, <2>1
    <3> QED BY <3>1, FlatNone DEF Forwarding
  <2>2. CASE result.packets # <<>>
    BY <1>5, <1>8, <2>2 DEF Forwarding
  <2> QED BY <2>1, <2>2
<1> QED BY <1>2, <1>3, <1>5, <1>7, <1>9 DEF StreamInv

(* Nothing is on the way, and nothing is due.                               *)
LEMMA Disconnected ==
  ASSUME StreamInv, Disconnect, frames' \in Seq(Packets), traffic' = traffic
  PROVE  StreamInv'
<1>1. PipeInv'
  BY DEF Disconnect, PipeInv
<1> QED BY <1>1 DEF StreamInv, Disconnect, Forwarding

(* The caster sends one of its packets.                                     *)
LEMMA SendStep ==
  ASSUME StreamInv, CasterSends
  PROVE  StreamInv'
<1>1. PICK m \in traffic : pipe' = Append(pipe, m)
  BY DEF CasterSends
<1>2. m \in Packets
  BY DEF StreamInv, Packets
<1>3. UNCHANGED <<conn, raw, frames, taken, traffic, intact, due, delivered>>
  BY DEF CasterSends, parserVars, setting, ledger
<1>4. pipe \in Seq(Packets) /\ pipe' \in Seq(Packets) /\ pipe' # <<>> /\ Len(m) \in Nat /\ Len(m) >= 3
  BY <1>1, <1>2, PacketIs DEF StreamInv, PipeInv
<1>5. CASE pipe = <<>>
  <2>1. pipe'[1] = m /\ taken' = 0
    BY <1>1, <1>3, <1>5 DEF StreamInv, PipeInv
  <2>2. PipeInv'
    BY <1>4, <2>1 DEF PipeInv
  <2>3. SubSeq(m, 1, 0) = <<>>
    BY <1>2, PacketIs
  <2>4. intact' => InStepNow'
    BY <1>3, <1>4, <1>5, <2>1, <2>3 DEF StreamInv, InStepNow
  <2> QED BY <1>3, <2>2, <2>4 DEF StreamInv, Forwarding
<1>6. CASE pipe # <<>>
  <2>1. pipe'[1] = pipe[1]
    BY <1>1, <1>4, <1>6
  <2>2. PipeInv'
    BY <1>3, <1>4, <1>6, <2>1 DEF StreamInv, PipeInv
  <2>3. intact' => InStepNow'
    BY <1>3, <1>4, <1>6, <2>1 DEF StreamInv, InStepNow
  <2> QED BY <1>3, <2>2, <2>3 DEF StreamInv, Forwarding
<1> QED BY <1>5, <1>6

(* The answer, and what came behind it, are taken off the connection.       *)
LEMMA AnswerStep ==
  ASSUME StreamInv, ResponseOk
  PROVE  StreamInv'
<1>1. PICK n \in 0..MaxChunk : taken + n <= Len(Coming) /\ TakeBytes(n)
  BY DEF ResponseOk
<1>2. n \in Nat
  BY RtcmAssumption
<1>3. PipeInv'
  BY <1>1, <1>2, TakesBytes DEF StreamInv
<1>4. /\ conn' = "streaming" /\ intact' = InStepNow'
      /\ UNCHANGED <<traffic, frames, due, delivered>>
      /\ conn = "asked"
  BY DEF ResponseOk, parserVars, setting
<1>5. due = <<>> /\ delivered = <<>>
  BY <1>4 DEF StreamInv, Forwarding
<1>6. Forwarding'
  BY <1>4, <1>5, FlatNone DEF Forwarding
<1> QED BY <1>3, <1>4, <1>6 DEF StreamInv

(* What has been emitted is forwarded as a whole, or dropped.               *)
LEMMA ForwardStep ==
  ASSUME StreamInv,
         SendBaseData \/ SendBaseDataLost \/ HandleParsed \/ WriteFrames
  PROVE  StreamInv'
<1>1. UNCHANGED <<raw, pipe, taken, traffic, intact>>
  BY DEF SendBaseData, SendBaseDataLost, HandleParsed, WriteFrames, tcpVars, setting
<1>2. conn \in {"parsed", "writing"} /\ delivered = <<>> /\ due = frames /\ <<>> \in Seq(Packets)
  BY DEF StreamInv, Forwarding, SendBaseData, SendBaseDataLost, HandleParsed, WriteFrames
<1>3. PipeInv' /\ (intact' => InStepNow')
  BY <1>1 DEF StreamInv, PipeInv, InStepNow
<1>4. CASE SendBaseData
  <2>1. FlattenSeq(frames) \in Seq(Nat)
    BY PacketIs, Layout DEF StreamInv
  <2>2. delivered' = FlattenSeq(due) /\ due' = due /\ conn' = "streaming" /\ frames' = <<>>
    BY <1>2, <1>4, <2>1, ChunksMakeUp DEF SendBaseData
  <2> QED BY <1>1, <1>2, <1>3, <2>2 DEF StreamInv, Forwarding
<1>5. CASE SendBaseDataLost
  <2>1. delivered' = FlattenSeq(due') /\ conn' = "streaming" /\ frames' = <<>>
    BY <1>5 DEF SendBaseDataLost
  <2> QED BY <1>1, <1>2, <1>3, <2>1 DEF StreamInv, Forwarding
<1>6. CASE HandleParsed
  BY <1>1, <1>2, <1>3, <1>6, FlatNone DEF StreamInv, Forwarding, HandleParsed
<1>7. CASE WriteFrames
  BY <1>1, <1>2, <1>3, <1>7 DEF StreamInv, Forwarding, WriteFrames
<1> QED BY <1>4, <1>5, <1>6, <1>7

(* What the invariant speaks of is left alone.                              *)
streamed == <<raw, frames, pipe, taken, traffic, intact, due, delivered>>

LEMMA SameStream ==
  ASSUME StreamInv, UNCHANGED streamed,
         \/ conn' = conn
         \/ /\ conn \notin {"streaming", "parsed", "writing"}
            /\ conn' \notin {"streaming", "parsed", "writing"}
  PROVE  StreamInv'
BY DEF StreamInv, PipeInv, InStepNow, Forwarding, streamed

LEMMA StreamStep ==
  ASSUME StreamInv, RtcmNext
  PROVE  StreamInv'
<1>1. CASE Connect \/ SendRequest
  <2>1. UNCHANGED streamed
    BY <1>1 DEF Connect, SendRequest, streamed, parserVars, tcpVars, setting, ledger
  <2>2. conn \in {"closed", "connected"} /\ conn' \in {"connected", "asked"}
    BY <1>1 DEF Connect, SendRequest
  <2> QED BY <2>1, <2>2, SameStream
<1>2. CASE SendGga \/ CasterAnswers \/ Upgrade
  BY <1>2, SameStream DEF SendGga, CasterAnswers, Upgrade, streamed, parserVars, tcpVars, setting, ledger
<1>3. CASE ResponseOk
  BY <1>3, AnswerStep
<1>4. CASE ResponseFail \/ Cut \/ WriteRaises
  <2>1. Disconnect /\ traffic' = traffic
    BY <1>4 DEF ResponseFail, Cut, WriteRaises, setting
  <2>2. frames' \in Seq(Packets)
    <3>1. frames' = frames \/ frames' = <<>>
      BY <1>4 DEF ResponseFail, Cut, WriteRaises, parserVars
    <3>2. frames \in Seq(Packets) /\ <<>> \in Seq(Packets)
      BY DEF StreamInv
    <3> QED BY <3>1, <3>2
  <2> QED BY <2>1, <2>2, Disconnected
<1>5. CASE Receive
  <2>1. PICK n \in 1..MaxChunk : taken + n <= Len(Coming) /\ Recv(n)
    BY <1>5 DEF Receive
  <2>2. n \in Nat /\ delivered' = <<>> /\ traffic' = traffic
    BY <1>5, RtcmAssumption DEF Receive, setting
  <2> QED BY <2>1, <2>2, RecvStep
<1>6. CASE SendBaseData \/ SendBaseDataLost \/ HandleParsed \/ WriteFrames
  BY <1>6, ForwardStep
<1>7. CASE CasterSends
  BY <1>7, SendStep
<1> QED BY <1>1, <1>2, <1>3, <1>4, <1>5, <1>6, <1>7 DEF RtcmNext, ClientStep

(* Until the unit has been asked, the client does not run.                  *)
Waiting == phase \in {"opening", "asking"} => conn = "off"

LEMMA WaitingStep ==
  ASSUME Waiting, [Next]_driverVars
  PROVE  Waiting'
<1>1. CASE Listen
  BY <1>1 DEF Listen, OpenBus, Answered, TimedOut, EndTry, Waiting, rtcmVars
<1>2. CASE Corrections
  <2>1. phase' = phase
    BY <1>2 DEF Corrections, listenVars
  <2>2. RtcmNext => (conn = "off" => conn' = "off")
    BY DEF RtcmNext, ClientStep, Connect, SendRequest, ResponseOk, ResponseFail, Receive, SendBaseData,
           HandleParsed, WriteFrames, SendGga, CasterAnswers, CasterSends, Cut, SendBaseDataLost,
           WriteRaises, Upgrade
  <2> QED BY <1>2, <2>1, <2>2 DEF Corrections, Waiting
<1>3. CASE LogMessages \/ UNCHANGED driverVars
  BY <1>3 DEF LogMessages, driverVars, listenVars, rtcmVars, Waiting
<1> QED BY <1>1, <1>2, <1>3 DEF Next

LEMMA DriverStep ==
  ASSUME StreamInv, Waiting, [Next]_driverVars
  PROVE  StreamInv'
<1>1. CASE Listen
  <2>1. UNCHANGED streamed
    BY <1>1 DEF Listen, OpenBus, Answered, TimedOut, EndTry, streamed, rtcmVars, parserVars, tcpVars, setting, ledger
  <2>2. conn' = conn \/ (conn = "off" /\ conn' = "closed")
    BY <1>1 DEF Listen, OpenBus, Answered, TimedOut, EndTry, rtcmVars, Waiting
  <2> QED BY <2>1, <2>2, SameStream
<1>2. CASE Corrections
  BY <1>2, StreamStep DEF Corrections
<1>3. CASE LogMessages \/ UNCHANGED driverVars
  BY <1>3, SameStream DEF LogMessages, driverVars, streamed, rtcmVars, parserVars, tcpVars, setting, ledger
<1> QED BY <1>1, <1>2, <1>3 DEF Next

LEMMA StreamInit ==
  ASSUME Init PROVE StreamInv /\ Waiting
<1>1. /\ pipe = <<>> /\ taken = 0 /\ frames = <<>> /\ intact = FALSE
      /\ due = <<>> /\ delivered = <<>> /\ traffic \in Traffics
      /\ conn \in {"off", "closed"} /\ (phase # "none" => conn = "off")
  BY DEF Init, RtcmInit
<1>2. PipeInv /\ frames \in Seq(Packets)
  BY <1>1 DEF PipeInv
<1> QED BY <1>1, <1>2 DEF StreamInv, Waiting, Forwarding

(* However TCP cuts the stream into chunks, and whatever the payloads hold, *)
(* a parser that is in step with the packets stays in step, and each recv() *)
(* forwards just the packets that it completes, for any packets of any      *)
(* length, any chunks and any size of the CAN messages.                     *)
THEOREM PacketsInStep == Spec => []FramesInStep
<1>1. Init => StreamInv /\ Waiting
  BY StreamInit
<1>2. StreamInv /\ Waiting /\ [Next]_driverVars => (StreamInv /\ Waiting)'
  BY DriverStep, WaitingStep
<1>3. StreamInv => FramesInStep
  BY DEF StreamInv, Forwarding, FramesInStep
<1> QED BY <1>1, <1>2, <1>3, PTL DEF Spec
-----------------------------------------------------------------------------
(* A parser out of step: how many packets pass until it is in step again.   *)

(* A product by a natural number keeps the order.                           *)
LEMMA Products ==
  ASSUME NEW v \in Nat, NEW a \in Int, NEW b \in Int, a <= b
  PROVE  /\ a * v \in Int /\ b * v \in Int /\ a * v <= b * v
         /\ (a + 1) * v = a * v + v /\ 0 * v = 0
<1>1. a * v \in Int /\ b * v \in Int /\ b * v = a * v + (b - a) * v /\ (a + 1) * v = a * v + v /\ 0 * v = 0
  OBVIOUS
<1>2. b - a \in Nat
  OBVIOUS
<1>3. (b - a) * v \in Nat
  BY <1>2
<1> QED BY <1>1, <1>3

(* The shortest packet of the caster has its header, its length byte and at *)
(* least one byte of trailer.                                               *)
LEMMA ShortestIs ==
  ASSUME traffic \in Traffics
  PROVE  /\ Shortest \in Nat /\ Shortest >= 3
         /\ \A m \in traffic : m \in Packets /\ Shortest <= Len(m)
<1>1. \A m \in traffic : m \in Packets /\ Len(m) \in Nat /\ Len(m) >= 3
  BY PacketIs DEF Packets
<1> DEFINE S == {Len(m) : m \in traffic}
<1>2. S \subseteq Nat /\ S # {}
  BY <1>1, RtcmAssumption
<1>3. \E n \in S : \A i \in S : n <= i
  <2> HIDE DEF S
  <2> QED BY <1>2, LeastOf
<1>4. \E n \in S : \A m \in traffic : n <= Len(m)
  BY <1>3
<1>5. Shortest \in S /\ \A m \in traffic : Shortest <= Len(m)
  <2>1. Shortest = CHOOSE n \in S : \A m \in traffic : n <= Len(m)
    BY DEF Shortest
  <2> HIDE DEF S
  <2> QED BY <1>4, <2>1
<1> QED BY <1>1, <1>2, <1>5

(* What the parser keeps is no packet yet: so many bytes are left to come,  *)
(* or fewer when the length is not known.                                   *)
RawOk(r) == r \in Seq(0..Header) /\ (Len(r) > 1 => Len(r) < r[2] + 3)
Left(r)  == IF Len(r) = 1 THEN Header + 2 ELSE r[2] + 3 - Len(r)

LEMMA RawIs ==
  ASSUME NEW r, RawOk(r), r # <<>>
  PROVE  /\ Len(r) \in Nat /\ Len(r) >= 1 /\ (Len(r) > 1 => r[2] \in 0..Header)
         /\ Left(r) \in 1..Header + 2
<1>1. Len(r) \in Nat /\ Len(r) >= 1 /\ Header \in Nat
  BY RtcmAssumption DEF RawOk
<1>2. Len(r) > 1 => r[2] \in 0..Header
  BY <1>1, ElementOfSeq DEF RawOk
<1>3. Left(r) \in 1..Header + 2
  <2>1. CASE Len(r) = 1
    BY <1>1, <2>1 DEF Left
  <2>2. CASE Len(r) # 1
    <3> DEFINE n == Len(r)
    <3>0. n > 1
      <4>1. n \in Nat /\ n >= 1 /\ n # 1
        BY <1>1, <2>2
      <4> HIDE DEF n
      <4> QED BY <4>1
    <3>1. r[2] \in Nat /\ r[2] <= Header /\ Len(r) < r[2] + 3 /\ Len(r) > 1
      BY <1>1, <1>2, <3>0 DEF RawOk
    <3>2. Left(r) = r[2] + 3 - Len(r)
      BY <2>2 DEF Left
    <3> QED BY <1>1, <3>1, <3>2
  <2> QED BY <2>1, <2>2
<1> QED BY <1>1, <1>2, <1>3

(* One byte more: a header is found, or what is left gets less.             *)
LEMMA OneByte ==
  ASSUME NEW r, RawOk(r), NEW e \in Seq(Packets), NEW byte \in 0..Header
  PROVE  \E q, d : /\ Analyse([raw |-> r, packets |-> e], byte) = [raw |-> q, packets |-> d]
                   /\ RawOk(q) /\ d \in Seq(Packets) /\ Len(d) >= Len(e)
                   /\ r = <<>> => d = e /\ q = IF byte = Header THEN <<Header>> ELSE <<>>
                   /\ r # <<>> => IF Left(r) = 1 THEN q = <<>>
                                  ELSE q # <<>> /\ Left(q) < Left(r)
<1> DEFINE p == [raw |-> r, packets |-> e]
<1>1. Header \in Nat /\ byte \in Nat /\ Len(e) \in Nat /\ RawOk(<<>>)
  <2>1. Header \in Nat
    BY RtcmAssumption
  <2> QED BY <2>1 DEF RawOk
<1>2. CASE r = <<>>
  <2>1. Analyse(p, byte) = IF byte = Header THEN [raw |-> <<Header>>, packets |-> e] ELSE p
    BY <1>2 DEF Analyse, FindHeader
  <2>2. RawOk(<<Header>>)
    <3>1. <<Header>> \in Seq(0..Header) /\ Len(<<Header>>) = 1
      BY <1>1
    <3> QED BY <3>1 DEF RawOk
  <2>3. CASE byte = Header
    <3> DEFINE q == <<Header>>
    <3>1. /\ Analyse(p, byte) = [raw |-> q, packets |-> e] /\ RawOk(q) /\ Len(e) >= Len(e)
          /\ q = IF byte = Header THEN <<Header>> ELSE <<>>
      BY <1>1, <2>1, <2>2, <2>3
    <3> HIDE DEF q
    <3> QED BY <1>2, <3>1
  <2>4. CASE byte # Header
    <3>1. Analyse(p, byte) = [raw |-> <<>>, packets |-> e]
      BY <1>2, <2>1, <2>4
    <3> QED BY <1>1, <1>2, <2>4, <3>1
  <2> QED BY <2>3, <2>4
<1>3. CASE r # <<>>
  <2> DEFINE packet == Append(r, byte)
  <2>1. /\ Len(r) \in Nat /\ Len(r) >= 1 /\ Left(r) \in 1..Header + 2
        /\ Len(r) > 1 => r[2] \in 0..Header
    BY <1>3, RawIs
  <2>2. /\ packet \in Seq(0..Header) /\ Len(packet) = Len(r) + 1
        /\ packet[2] = IF Len(r) = 1 THEN byte ELSE r[2]
    <3>1. r \in Seq(0..Header) /\ 2 \in 1..Len(r) + 1
      BY <2>1 DEF RawOk
    <3>2. packet \in Seq(0..Header) /\ Len(packet) = Len(r) + 1
      BY <3>1
    <3>3. \A i \in 1..Len(r) + 1 : packet[i] = IF i = Len(r) + 1 THEN byte ELSE r[i]
      BY <2>1, <3>1
    <3>4. packet[2] = IF 2 = Len(r) + 1 THEN byte ELSE r[2]
      BY <3>1, <3>3
    <3>5. 2 = Len(r) + 1 <=> Len(r) = 1
      <4> DEFINE n == Len(r)
      <4>1. n \in Nat
        BY <2>1
      <4> HIDE DEF n
      <4>2. 2 = n + 1 <=> n = 1
        BY <4>1
      <4> QED BY <4>2 DEF n
    <3> HIDE DEF packet
    <3> QED BY <3>2, <3>4, <3>5
  <2>3. packet[2] \in 0..Header
    BY <2>1, <2>2
  <2> HIDE DEF packet
  <2>4. Len(packet) > 1 /\ packet # <<>>
    <3>1. Len(packet) > 1
      BY <2>1, <2>2
    <3> QED BY <3>1
  <2>5. Len(packet) = Size(packet) <=> Left(r) = 1
    <3>1. CASE Len(r) = 1
      BY <1>1, <2>2, <3>1 DEF Size, Left
    <3>2. CASE Len(r) # 1
      <4>1. Left(r) = r[2] + 3 - Len(r) /\ packet[2] = r[2] /\ r[2] \in Nat
        BY <1>1, <2>1, <2>2, <3>2 DEF Left
      <4> QED BY <2>1, <2>2, <4>1 DEF Size
    <3> QED BY <3>1, <3>2
  <2>6. Analyse(p, byte) = IF Left(r) = 1 THEN CheckPacket(p, packet) ELSE [raw |-> packet, packets |-> e]
    <3>1. Analyse(p, byte) = Accept(p, byte)
      BY <1>3 DEF Analyse
    <3>2. Accept(p, byte) = IF Left(r) = 1 THEN CheckPacket(p, packet) ELSE [p EXCEPT !.raw = packet]
      BY <2>4, <2>5 DEF Accept, packet
    <3> QED BY <3>1, <3>2
  <2>7. CASE Left(r) = 1
    <3>1. CheckPacket(p, packet) =
            [raw |-> <<>>, packets |-> IF CheckCrc(packet) THEN Append(e, packet) ELSE e]
      BY DEF CheckPacket
    <3>2. CheckCrc(packet) => Append(e, packet) \in Seq(Packets) /\ Len(Append(e, packet)) = Len(e) + 1
      BY DEF CheckCrc
    <3>3. CASE CheckCrc(packet)
      <4> DEFINE d == Append(e, packet)
      <4>1. Analyse(p, byte) = [raw |-> <<>>, packets |-> d] /\ d \in Seq(Packets) /\ Len(d) >= Len(e)
        BY <1>1, <2>6, <2>7, <3>1, <3>2, <3>3
      <4> HIDE DEF d
      <4> QED BY <1>1, <1>3, <2>7, <4>1
    <3>4. CASE ~CheckCrc(packet)
      <4>1. Analyse(p, byte) = [raw |-> <<>>, packets |-> e]
        BY <2>6, <2>7, <3>1, <3>4
      <4> QED BY <1>1, <1>3, <2>7, <4>1
    <3> QED BY <3>3, <3>4
  <2>8. CASE Left(r) # 1
    <3>1. Left(packet) = packet[2] + 3 - Len(packet)
      BY <2>1, <2>2 DEF Left
    <3>2. Left(packet) < Left(r) /\ Len(packet) < packet[2] + 3
      <4>1. CASE Len(r) = 1
        BY <1>1, <2>2, <2>3, <3>1, <4>1 DEF Left
      <4>2. CASE Len(r) # 1
        <5>1. Left(r) = r[2] + 3 - Len(r) /\ packet[2] = r[2] /\ r[2] \in Nat
          BY <1>1, <2>1, <2>2, <4>2 DEF Left
        <5> QED BY <2>1, <2>2, <2>8, <3>1, <5>1
      <4> QED BY <4>1, <4>2
    <3>3. RawOk(packet)
      BY <2>2, <3>2 DEF RawOk
    <3> QED BY <1>1, <1>3, <2>4, <2>6, <2>8, <3>2, <3>3
  <2> QED BY <2>7, <2>8
<1> QED BY <1>2, <1>3

(* So many packets have been skipped when the parser is in step again; when *)
(* it looks for a header, within the last of them; and when it swallows     *)
(* what it takes for one, of the packet under way having come off bytes.    *)
Mended(n)  == (n - 2) * Shortest < Header + 2
Seeking(n) == (n - 1) * Shortest < Header + 2
Swallowing(n, off, r) == n >= 1 => (n - 1) * Shortest + 1 + off + Left(r) <= Header + 2
Astray(n, off, r) == IF r = <<>> THEN Seeking(n) ELSE Swallowing(n, off, r)

(* Who is out of step but not in a false packet has lost less than he may   *)
(* in the end, and one packet less than the most.                           *)
LEMMA SkipFacts ==
  ASSUME traffic \in Traffics, NEW n \in Int, NEW m \in Int, m <= n, NEW off \in Nat,
         NEW r, RawOk(r)
  PROVE  /\ Seeking(n) => Seeking(m) /\ Mended(m) /\ Mended(m + 1)
         /\ Mended(n) => Mended(m)
         /\ n <= 0 => Seeking(n)
         /\ r # <<>> /\ Swallowing(n, off, r) => Seeking(n)
<1>1. Shortest \in Nat /\ Header \in Nat
  BY ShortestIs, RtcmAssumption
<1>2. (m - 1) * Shortest <= (n - 1) * Shortest /\ (m - 2) * Shortest <= (n - 2) * Shortest
      /\ (n - 2) * Shortest <= (n - 1) * Shortest
      /\ (n - 2) * Shortest \in Int /\ (n - 1) * Shortest \in Int
      /\ (m - 2) * Shortest \in Int /\ (m - 1) * Shortest \in Int
  BY <1>1, Products
<1>3. (m + 1) - 2 = m - 1
  OBVIOUS
<1>4. ASSUME n <= 0 PROVE Seeking(n)
  <2>1. (n - 1) * Shortest <= 0 * Shortest /\ 0 * Shortest = 0
    BY <1>1, <1>4, Products
  <2> QED BY <1>1, <1>2, <2>1 DEF Seeking
<1>5. ASSUME r # <<>>, Swallowing(n, off, r), n >= 1 PROVE Seeking(n)
  <2>1. Left(r) \in Nat
    BY <1>5, RawIs, <1>1
  <2> QED BY <1>1, <1>2, <1>5, <2>1 DEF Swallowing, Seeking
<1> QED BY <1>1, <1>2, <1>3, <1>4, <1>5 DEF Seeking, Mended

(* While a false packet is swallowed, each byte is one less of it, and one  *)
(* more of the packet under way.                                            *)
LEMMA SwallowFacts ==
  ASSUME traffic \in Traffics, NEW n \in Int, NEW m \in Int, NEW off \in Nat, NEW len \in Nat,
         NEW r, NEW q, RawOk(r), RawOk(q), r # <<>>, q # <<>>,
         Left(q) < Left(r), Swallowing(n, off, r)
  PROVE  /\ m <= n => Swallowing(m, off + 1, q)
         /\ m <= n + 1 /\ off + 1 = len /\ Shortest <= len => Swallowing(m, 0, q)
<1>1. Shortest \in Nat /\ Header \in Nat /\ Left(r) \in 1..Header + 2 /\ Left(q) \in 1..Header + 2
  BY ShortestIs, RawIs, RtcmAssumption
<1>2. Left(r) \in Int /\ Left(q) \in Int /\ Left(q) + 1 <= Left(r) /\ Left(r) <= Header + 2
  BY <1>1
<1> DEFINE a == (n - 1) * Shortest
           b == (m - 1) * Shortest
<1>3. /\ a \in Int /\ b \in Int
      /\ m <= n => b <= a
      /\ m <= n + 1 => b <= a + Shortest
      /\ m = 1 => b = 0
  <2>1. a \in Int /\ b \in Int
    BY <1>1, Products
  <2>2. m <= n => b <= a
    BY <1>1, Products
  <2>3. n * Shortest = a + Shortest
    <3>1. ((n - 1) + 1) * Shortest = a + Shortest
      BY <1>1, Products
    <3>2. (n - 1) + 1 = n
      OBVIOUS
    <3> QED BY <3>1, <3>2
  <2>4. m <= n + 1 => b <= n * Shortest
    BY <1>1, Products
  <2>5. m = 1 => b = 0
    <3>1. 0 * Shortest = 0
      BY <1>1
    <3> QED BY <3>1
  <2> HIDE DEF a, b
  <2> QED BY <2>1, <2>2, <2>3, <2>4, <2>5
<1>4. n >= 1 => a + 1 + off + Left(r) <= Header + 2
  BY DEF Swallowing
<1> HIDE DEF a, b
<1>5. ASSUME m <= n, m >= 1 PROVE b + 1 + (off + 1) + Left(q) <= Header + 2
  BY <1>1, <1>2, <1>3, <1>4, <1>5
<1>6. ASSUME m <= n + 1, m >= 1, off + 1 = len, Shortest <= len PROVE b + 1 + 0 + Left(q) <= Header + 2
  <2>1. CASE n >= 1
    BY <1>1, <1>2, <1>3, <1>4, <1>6, <2>1
  <2>2. CASE ~(n >= 1)
    BY <1>1, <1>2, <1>3, <1>6, <2>2
  <2> QED BY <2>1, <2>2
<1> QED BY <1>5, <1>6 DEF Swallowing, b

(* Of the packets s, p bytes were received, and k packets are complete; the *)
(* parser keeps r and has emitted e.                                        *)
Account(s, p, k, r, e, z) ==
  \/ r = Under(s, p, k) /\ Mended(z + k - Len(e))
  \/ Astray(z + k - Len(e), p - End(s, k), r)

(* The parser may be in the state g after p bytes of the packets s.         *)
MayBe(s, p, g, z) ==
  \E k, r, e : /\ Where(s, p, k) /\ RawOk(r) /\ e \in Seq(Packets)
               /\ g = [raw |-> r, packets |-> e] /\ Account(s, p, k, r, e, z)

(* Each byte is accounted for: of a false packet one byte less is left, and *)
(* at most one packet more begins or ends.                                  *)
LEMMA StrayByte ==
  ASSUME traffic \in Traffics, HeaderFree, NEW s \in Seq(traffic),
         NEW p \in Nat, p < Len(FlattenSeq(s)), NEW z \in Int, NEW g, MayBe(s, p, g, z)
  PROVE  MayBe(s, p + 1, Analyse(g, FlattenSeq(s)[p + 1]), z)
<1> SUFFICES ASSUME NEW k, NEW r, NEW e \in Seq(Packets), Where(s, p, k), RawOk(r),
                    Account(s, p, k, r, e, z), g = [raw |-> r, packets |-> e]
             PROVE  \E j, q, d : /\ Where(s, p + 1, j) /\ RawOk(q) /\ d \in Seq(Packets)
                                 /\ Analyse([raw |-> r, packets |-> e], FlattenSeq(s)[p + 1]) =
                                      [raw |-> q, packets |-> d]
                                 /\ Account(s, p + 1, j, q, d, z)
  BY DEF MayBe
<1> DEFINE m == s[k + 1]
           x == p - End(s, k)
           byte == FlattenSeq(s)[p + 1]
           n == z + k - Len(e)
<1>0. s \in Seq(Packets)
  <2>1. \A i \in traffic : i \in Packets
    BY DEF Packets
  <2> QED BY <2>1
<1>1. /\ k \in 0..Len(s) - 1 /\ m \in Packets /\ x \in 0..Len(m) - 1
      /\ byte = m[x + 1] /\ Under(s, p, k) = SubSeq(m, 1, x)
      /\ x + 1 = Len(m) => Where(s, p + 1, k + 1) /\ Under(s, p + 1, k + 1) = <<>> /\ End(s, k + 1) = p + 1
      /\ x + 1 # Len(m) => Where(s, p + 1, k) /\ Under(s, p + 1, k) = SubSeq(m, 1, x + 1)
  BY <1>0, NextPlace
<1>2. m \in traffic
  <2>1. Len(s) \in Nat /\ k + 1 \in 1..Len(s)
    BY <1>1
  <2> QED BY <2>1
<1>3. /\ m \in Seq(0..Header) /\ Len(m) \in Nat /\ Len(m) >= 3 /\ m[1] = Header /\ Len(m) = m[2] + 3
      /\ Shortest <= Len(m) /\ \A i \in 2..Len(m) : m[i] # Header
  BY <1>2, PacketIs, RtcmAssumption, ShortestIs DEF HeaderFree, Packets
<1>4. n \in Int /\ k \in Nat /\ Len(e) \in Nat
  BY <1>1
<1>5. /\ (p + 1) - End(s, k) = x + 1 /\ x \in Nat
      /\ x + 1 = Len(m) => (p + 1) - End(s, k + 1) = 0
  <2>1. End(s, k) \in Nat
    <3>1. s \in Seq(Seq(Nat)) /\ k \in 0..Len(s)
      BY <1>0, <1>1, PacketIs
    <3> QED BY <3>1, Layout
  <2> HIDE DEF m
  <2> QED BY <1>1, <2>1
<1> HIDE DEF m, x, byte
<1>6. byte \in 0..Header /\ (byte = Header <=> x = 0)
  <2>1. x + 1 \in 1..Len(m)
    BY <1>1, <1>3
  <2>2. x # 0 => x + 1 \in 2..Len(m)
    BY <1>1, <1>3
  <2>3. m[x + 1] \in 0..Header
    BY <1>3, <2>1, ElementOfSeq
  <2>4. x = 0 => m[x + 1] = Header
    BY <1>3
  <2> QED BY <1>1, <1>3, <2>2, <2>3, <2>4
<1>7. CASE r = Under(s, p, k) /\ Mended(n)
  <2>1. Analyse([raw |-> r, packets |-> e], byte) =
           IF x + 1 = Len(m) THEN [raw |-> <<>>, packets |-> Append(e, m)]
                             ELSE [raw |-> SubSeq(m, 1, x + 1), packets |-> e]
    BY <1>1, <1>7, ByteOfPacket
  <2>2. CASE x + 1 = Len(m)
    <3> DEFINE d == Append(e, m)
    <3>1. d \in Seq(Packets) /\ z + (k + 1) - Len(d) = n
      BY <1>1, <1>4
    <3>2. Account(s, p + 1, k + 1, <<>>, d, z)
      <4> HIDE DEF d, n
      <4> QED BY <1>1, <1>7, <2>2, <3>1 DEF Account
    <3>3. RawOk(<<>>)
      BY DEF RawOk
    <3> HIDE DEF d
    <3> QED BY <1>1, <2>1, <2>2, <3>1, <3>2, <3>3 DEF d, byte
  <2>3. CASE x + 1 # Len(m)
    <3> DEFINE q == SubSeq(m, 1, x + 1)
    <3>1. x + 1 \in 1..Len(m) - 1
      BY <1>1, <1>3, <2>3
    <3>2. q \in Seq(0..Header) /\ Len(q) = x + 1 /\ (x + 1 > 1 => q[2] = m[2])
      <4>1. x + 1 \in 1..Len(m)
        BY <1>3, <3>1
      <4>2. q \in Seq(0..Header)
        <5>1. ASSUME NEW i \in 1..x + 1 PROVE m[i] \in 0..Header
          <6>1. i \in 1..Len(m)
            BY <1>3, <4>1
          <6> QED BY <1>3, <6>1, ElementOfSeq
        <5>2. 1 \in Int /\ x + 1 \in Int
          BY <1>5
        <5> QED BY <5>1, <5>2, SubSeqProperties
      <4>3. Len(q) = x + 1
        BY <1>3, <4>1
      <4>4. \A i \in 1..x + 1 : q[i] = m[i]
        BY <1>3, <4>1
      <4>5. x + 1 > 1 => 2 \in 1..x + 1
        BY <1>5
      <4> HIDE DEF q
      <4> QED BY <4>2, <4>3, <4>4, <4>5
    <3>3. RawOk(q)
      BY <1>3, <3>1, <3>2 DEF RawOk
    <3>4. Account(s, p + 1, k, q, e, z)
      <4> HIDE DEF q
      <4> QED BY <1>1, <1>7, <2>3 DEF Account, q
    <3> HIDE DEF q
    <3> QED BY <1>1, <2>1, <2>3, <3>3, <3>4 DEF q, byte
  <2> QED BY <2>2, <2>3
<1>8. CASE Astray(n, x, r)
  <2>1. PICK q, d : /\ Analyse([raw |-> r, packets |-> e], byte) = [raw |-> q, packets |-> d]
                    /\ RawOk(q) /\ d \in Seq(Packets) /\ Len(d) >= Len(e)
                    /\ r = <<>> => d = e /\ q = IF byte = Header THEN <<Header>> ELSE <<>>
                    /\ r # <<>> => IF Left(r) = 1 THEN q = <<>>
                                   ELSE q # <<>> /\ Left(q) < Left(r)
    BY <1>6, OneByte
  <2> SUFFICES \E j : Where(s, p + 1, j) /\ Account(s, p + 1, j, q, d, z)
    BY <2>1 DEF byte
  <2> DEFINE c == z + k - Len(d)
             f == z + (k + 1) - Len(d)
  <2>2. c \in Int /\ f \in Int /\ c <= n /\ f <= n + 1 /\ f = c + 1 /\ (d = e => c = n)
    <3>1. Len(d) \in Nat /\ Len(d) >= Len(e)
      BY <2>1
    <3> QED BY <1>4, <3>1
  <2>3. /\ x + 1 = Len(m) => Where(s, p + 1, k + 1)
        /\ x + 1 = Len(m) /\ ((q = <<>> /\ Mended(f)) \/ Astray(f, 0, q)) => Account(s, p + 1, k + 1, q, d, z)
        /\ x + 1 # Len(m) => Where(s, p + 1, k)
        /\ x + 1 # Len(m) /\ ((q = SubSeq(m, 1, x + 1) /\ Mended(c)) \/ Astray(c, x + 1, q))
             => Account(s, p + 1, k, q, d, z)
    BY <1>1, <1>5 DEF Account
  <2> HIDE DEF c, f, n
  <2>4. CASE r = <<>>
    <3>1. Seeking(n) /\ d = e /\ c = n
      BY <1>8, <2>1, <2>2, <2>4 DEF Astray
    <3>2. Mended(c) /\ Mended(f)
      BY <1>4, <1>5, <2>2, <2>4, <3>1, SkipFacts
    <3>3. CASE x = 0
      <4>1. q = <<Header>> /\ x + 1 # Len(m) /\ x + 1 = 1
        BY <1>3, <1>6, <2>1, <2>4, <3>3
      <4>2. SubSeq(m, 1, 1) = <<Header>>
        <5>1. SubSeq(m, 1, 1) = [i \in 1..1 |-> m[i]]
          BY <1>3
        <5>2. <<Header>> = [i \in 1..1 |-> m[1]]
          BY <1>3
        <5>3. \A i \in 1..1 : i = 1
          OBVIOUS
        <5>4. [i \in 1..1 |-> m[i]] = [i \in 1..1 |-> m[1]]
          BY <5>3
        <5> QED BY <5>1, <5>2, <5>4
      <4> QED BY <2>3, <3>2, <4>1, <4>2
    <3>4. CASE x # 0
      <4>1. q = <<>>
        BY <1>6, <2>1, <2>4, <3>4
      <4>2. Astray(c, x + 1, q)
        BY <3>1, <4>1 DEF Astray
      <4> QED BY <2>3, <3>2, <4>1, <4>2
    <3> QED BY <3>3, <3>4
  <2>5. CASE r # <<>> /\ Left(r) = 1
    <3>1. q = <<>> /\ Seeking(n)
      BY <1>4, <1>5, <1>8, <2>1, <2>5, SkipFacts DEF Astray
    <3>2. Seeking(c) /\ Mended(f)
      BY <1>4, <1>5, <2>2, <3>1, SkipFacts
    <3>3. Astray(c, x + 1, q)
      BY <3>1, <3>2 DEF Astray
    <3> QED BY <2>3, <3>1, <3>2, <3>3
  <2>6. CASE r # <<>> /\ Left(r) # 1
    <3>1. q # <<>> /\ Left(q) < Left(r) /\ Swallowing(n, x, r)
      BY <1>8, <2>1, <2>6 DEF Astray
    <3>2. /\ c <= n => Swallowing(c, x + 1, q)
          /\ f <= n + 1 /\ x + 1 = Len(m) /\ Shortest <= Len(m) => Swallowing(f, 0, q)
      BY <1>3, <1>4, <1>5, <2>1, <2>2, <2>6, <3>1, SwallowFacts
    <3>3. CASE x + 1 = Len(m)
      BY <1>3, <2>2, <2>3, <3>1, <3>2, <3>3 DEF Astray
    <3>4. CASE x + 1 # Len(m)
      BY <2>2, <2>3, <3>1, <3>2, <3>4 DEF Astray
    <3> QED BY <3>3, <3>4
  <2> QED BY <2>4, <2>5, <2>6
<1> QED BY <1>7, <1>8 DEF Account, n, x

(* The bytes of a chunk, one after the other.                               *)
LEMMA Cutting ==
  ASSUME NEW all \in Seq(Nat), NEW p \in Nat, NEW n \in Nat, p + n <= Len(all), NEW b,
         b = SubSeq(all, p + 1, p + n)
  PROVE  /\ Len(b) = n /\ DOMAIN b = 1..n
         /\ \A i \in 1..n : b[i] = all[p + i]
<1>1. Len(b) = n /\ DOMAIN b = 1..n
  OBVIOUS
<1>2. ASSUME NEW i \in 1..n PROVE b[i] = all[p + i]
  OBVIOUS
<1> QED BY <1>1, <1>2

(* A chunk of bytes, as long as it is.                                      *)
LEMMA StrayChunk ==
  ASSUME traffic \in Traffics, HeaderFree, NEW s \in Seq(traffic), NEW p \in Nat, NEW n \in Nat,
         p + n <= Len(FlattenSeq(s)), NEW z \in Int, NEW r, MayBe(s, p, [raw |-> r, packets |-> <<>>], z)
  PROVE  MayBe(s, p + n, Analysis(r, SubSeq(FlattenSeq(s), p + 1, p + n)), z)
<1> DEFINE all == FlattenSeq(s)
           buffer == SubSeq(all, p + 1, p + n)
<1>1. all \in Seq(Nat) /\ Len(all) \in Nat
  <2>1. \A i \in traffic : i \in Packets
    BY DEF Packets
  <2>2. s \in Seq(Packets)
    BY <2>1
  <2> QED BY <2>2, PacketIs, Layout
<1>2. /\ Len(buffer) = n /\ DOMAIN buffer = 1..n
      /\ \A i \in 1..n : buffer[i] = all[p + i]
  <2>1. p + n <= Len(all) /\ buffer = SubSeq(all, p + 1, p + n)
    OBVIOUS
  <2> HIDE DEF all, buffer
  <2> QED BY <1>1, <2>1, Cutting
<1>3. p + n <= Len(all)
  OBVIOUS
<1> HIDE DEF buffer
<1>4. PICK g : Parses(r, buffer, g) /\ Analysis(r, buffer) = g[n]
  BY <1>2, AnalysisIs
<1> DEFINE Bad == {i \in 0..n : ~MayBe(s, p + i, g[i], z)}
<1>5. Bad = {}
  <2> SUFFICES ASSUME Bad # {} PROVE FALSE
    OBVIOUS
  <2>1. Bad \subseteq Nat
    OBVIOUS
  <2>2. PICK i \in Bad : \A j \in Bad : i <= j
    BY <2>1, LeastOf
  <2>3. i \in 0..n /\ ~MayBe(s, p + i, g[i], z)
    OBVIOUS
  <2>4. i # 0
    <3>1. p + 0 = p /\ g[0] = [raw |-> r, packets |-> <<>>]
      BY <1>4 DEF Parses
    <3> QED BY <2>3, <3>1
  <2>5. i - 1 \in 0..n /\ i - 1 \notin Bad
    <3> HIDE DEF Bad
    <3> QED BY <2>2, <2>3, <2>4
  <2> DEFINE at == p + (i - 1)
  <2>6. MayBe(s, at, g[i - 1], z)
    BY <2>5
  <2>7. at \in Nat /\ at < Len(all) /\ at + 1 = p + i /\ i \in 1..n
    BY <1>1, <1>3, <2>3, <2>4
  <2> HIDE DEF at
  <2>8. g[i] = Analyse(g[i - 1], all[at + 1])
    BY <1>2, <1>4, <2>7 DEF Parses
  <2>9. MayBe(s, at + 1, Analyse(g[i - 1], FlattenSeq(s)[at + 1]), z)
    BY <2>6, <2>7, StrayByte
  <2> QED BY <2>3, <2>7, <2>8, <2>9
<1>6. MayBe(s, p + n, g[n], z)
  <2>1. n \in 0..n
    OBVIOUS
  <2> QED BY <1>5, <2>1
<1> QED BY <1>4, <1>6 DEF buffer

(* What a parser may have lost since the connection was made.               *)
SkipInv ==
  /\ pipe \in Seq(traffic)
  /\ conn \in {"connected", "asked"} => skipped = 0
  /\ HeaderFree => /\ RawOk(raw) /\ skipped \in Int /\ Mended(skipped)
                   /\ conn \in {"streaming", "parsed", "writing"} /\ ~intact =>
                        Astray(skipped, taken, raw)

(* On a new connection nothing is lost yet, whatever the parser keeps.      *)
LEMMA NoneSkipped ==
  ASSUME traffic \in Traffics, NEW off \in Nat, NEW r, RawOk(r)
  PROVE  Mended(0) /\ Astray(0, off, r)
<1>1. Seeking(0) /\ Mended(0)
  BY SkipFacts
<1> QED BY <1>1 DEF Astray, Swallowing

(* What the client takes off the connection leaves packets of the caster.   *)
LEMMA LeavesTraffic ==
  ASSUME PipeInv, pipe \in Seq(traffic), NEW n \in Nat, taken + n <= Len(Coming), TakeBytes(n)
  PROVE  pipe' \in Seq(traffic)
<1> DEFINE k == Complete(taken + n)
<1>1. pipe' = SubSeq(pipe, k + 1, Len(pipe)) /\ k \in 0..Len(pipe)
  BY TakesBytes DEF TakeBytes, Where
<1> HIDE DEF k
<1>2. Len(pipe) \in Nat /\ \A i \in 1..Len(pipe) : pipe[i] \in traffic
  OBVIOUS
<1>3. k + 1 \in Int /\ Len(pipe) \in Int /\ \A i \in k + 1..Len(pipe) : pipe[i] \in traffic
  BY <1>1, <1>2
<1> QED BY <1>1, <1>3, SubSeqProperties

(* What is read of the stream leaves a parser out of step within its        *)
(* bounds.                                                                  *)
LEMMA SkipRecv ==
  ASSUME StreamInv, SkipInv, conn = "streaming", NEW n \in Nat, taken + n <= Len(Coming), Recv(n), traffic' = traffic
  PROVE  SkipInv'
<1> DEFINE p == taken + n
           result == Analysis(raw, SubSeq(Coming, taken + 1, taken + n))
           complete == Complete(taken + n)
<1>1. /\ pipe \in Seq(Packets) /\ taken \in Nat /\ Where(pipe, taken, 0) /\ Len(Coming) \in Nat
      /\ traffic \in Traffics /\ p \in 0..Len(Coming)
  BY FromTheFirst DEF StreamInv, PipeInv
<1>2. /\ PipeInv' /\ Where(pipe, p, complete) /\ taken' = p - End(pipe, complete)
      /\ Under(pipe, p, complete) = IF pipe' = <<>> THEN <<>> ELSE SubSeq(pipe'[1], 1, taken')
  BY TakesBytes DEF StreamInv, Recv
<1>3. complete \in 0..Len(pipe)
  BY <1>2 DEF Where
<1>4. pipe' \in Seq(traffic)
  BY LeavesTraffic DEF StreamInv, SkipInv, Recv
<1>5. /\ raw' = result.raw /\ conn' \in {"streaming", "parsed"}
      /\ intact' = (intact \/ InStepNow')
      /\ skipped' = IF intact THEN skipped ELSE skipped + complete - Len(result.packets)
  BY DEF Recv
<1>6. HeaderFree' = HeaderFree /\ Shortest' = Shortest
  BY DEF HeaderFree, Shortest
<1>7. ASSUME HeaderFree
      PROVE  /\ RawOk(raw') /\ skipped' \in Int /\ Mended(skipped')
             /\ ~intact' => Astray(skipped', taken', raw')
  <2>1. Account(pipe, taken, 0, raw, <<>>, skipped) /\ RawOk(raw) /\ skipped \in Int /\ Mended(skipped)
    <3>1. Under(pipe, taken, 0) = IF pipe = <<>> THEN <<>> ELSE SubSeq(pipe[1], 1, taken)
      BY FromTheFirst DEF StreamInv
    <3>2. skipped + 0 - Len(<<>>) = skipped /\ taken - End(pipe, 0) = taken
      <4>1. End(pipe, 0) = 0
        BY <1>1, PacketIs, Layout
      <4> QED BY <1>1, <1>7, <4>1 DEF SkipInv
    <3>3. intact => InStepNow
      BY DEF StreamInv
    <3>4. RawOk(raw) /\ skipped \in Int /\ Mended(skipped) /\ (~intact => Astray(skipped, taken, raw))
      BY <1>7 DEF SkipInv
    <3>5. Account(pipe, taken, 0, raw, <<>>, skipped) <=>
            (raw = Under(pipe, taken, 0) /\ Mended(skipped)) \/ Astray(skipped, taken, raw)
      BY <3>2 DEF Account
    <3>6. InStepNow => raw = Under(pipe, taken, 0)
      <4>1. CASE pipe = <<>>
        BY <3>1, <4>1 DEF InStepNow
      <4>2. CASE pipe # <<>>
        BY <3>1, <4>2 DEF InStepNow
      <4> QED BY <4>1, <4>2
    <3> QED BY <3>3, <3>4, <3>5, <3>6
  <2>2. PICK k, q, e : /\ Where(pipe, p, k) /\ RawOk(q) /\ e \in Seq(Packets)
                       /\ result = [raw |-> q, packets |-> e]
                       /\ Account(pipe, p, k, q, e, skipped)
    <3>1. pipe \in Seq(traffic) /\ taken + n <= Len(FlattenSeq(pipe))
      BY DEF SkipInv, Coming
    <3>2. MayBe(pipe, taken, [raw |-> raw, packets |-> <<>>], skipped)
      <4>1. <<>> \in Seq(Packets)
        OBVIOUS
      <4> QED BY <1>1, <2>1, <4>1 DEF MayBe
    <3>3. MayBe(pipe, taken + n, Analysis(raw, SubSeq(FlattenSeq(pipe), taken + 1, taken + n)), skipped)
      BY <1>1, <1>7, <2>1, <3>1, <3>2, StrayChunk
    <3> QED BY <3>3 DEF MayBe, Coming
  <2>3. k = complete
    BY <1>1, <2>2, CompleteIs
  <2> DEFINE z == skipped + complete - Len(e)
  <2>4. z \in Int
    <3>1. complete \in Int /\ Len(e) \in Int
      BY <1>3, <2>2, <1>1
    <3> QED BY <2>1, <3>1
  <2>5. raw' = q /\ skipped' = IF intact THEN skipped ELSE z
    BY <1>5, <2>2
  <2>6. (q = Under(pipe, p, complete) /\ Mended(z)) \/ Astray(z, taken', q)
    BY <1>2, <2>2, <2>3 DEF Account
  <2>7. q = Under(pipe, p, complete) <=> InStepNow'
    <3>1. InStepNow' <=> raw' = IF pipe' = <<>> THEN <<>> ELSE SubSeq(pipe'[1], 1, taken')
      BY DEF InStepNow
    <3> HIDE DEF p, complete, result
    <3> QED BY <1>2, <2>5, <3>1
  <2> HIDE DEF z, p, complete, result
  <2>8. Mended(z)
    <3>1. ASSUME Astray(z, taken', q) PROVE Seeking(z)
      BY <1>1, <1>2, <2>2, <2>4, <3>1, SkipFacts DEF Astray, PipeInv
    <3> QED BY <1>1, <2>2, <2>4, <2>6, <3>1, SkipFacts
  <2>9. CASE intact
    BY <1>5, <2>1, <2>2, <2>5, <2>9
  <2>10. CASE ~intact
    BY <1>5, <2>2, <2>4, <2>5, <2>6, <2>7, <2>8, <2>10
  <2> QED BY <2>9, <2>10
<1>8. /\ Mended(skipped)' <=> Mended(skipped')
      /\ Astray(skipped, taken, raw)' <=> Astray(skipped', taken', raw')
      /\ RawOk(raw)' <=> RawOk(raw')
  BY <1>6 DEF Mended, Astray, Seeking, Swallowing, RawOk, Left
<1> QED BY <1>4, <1>5, <1>6, <1>7, <1>8 DEF SkipInv

(* A step that loses nothing and leaves the parser where it was.           *)
Same ==
  /\ UNCHANGED <<raw, taken, traffic, intact, skipped>> /\ pipe' \in Seq(traffic)
  /\ \/ conn' = conn \/ conn' = "closed" \/ (conn = "connected" /\ conn' = "asked")
     \/ {conn, conn'} \subseteq {"streaming", "parsed", "writing"}

(* It keeps what is known of the losses.                                    *)
LEMMA SameSkips == SkipInv /\ Same => SkipInv'
<1> SUFFICES ASSUME SkipInv, Same PROVE SkipInv'
  OBVIOUS
<1> USE DEF Same
<1>1. HeaderFree' = HeaderFree /\ Shortest' = Shortest
  BY DEF HeaderFree, Shortest
<1>2. Mended(skipped)' = Mended(skipped) /\ Astray(skipped, taken, raw)' = Astray(skipped, taken, raw)
      /\ RawOk(raw)' = RawOk(raw)
  BY <1>1 DEF Mended, Astray, Seeking, Swallowing, RawOk, Left
<1> QED BY <1>1, <1>2 DEF SkipInv

(* So does every step of the client and of the caster.                      *)
LEMMA SkipStep ==
  ASSUME StreamInv, SkipInv, RtcmNext
  PROVE  SkipInv'
<1>1. pipe \in Seq(traffic) /\ traffic \in Traffics /\ PipeInv /\ taken \in Nat
  BY DEF SkipInv, StreamInv, PipeInv
<1>2. CASE SendGga \/ CasterAnswers \/ Upgrade \/ SendRequest
  <2>1. UNCHANGED <<raw, taken, traffic, intact, skipped>> /\ pipe' = pipe
    BY <1>2 DEF SendGga, CasterAnswers, Upgrade, SendRequest, parserVars, tcpVars, setting, ledger
  <2>2. conn' = conn \/ (conn = "connected" /\ conn' = "asked")
    BY <1>2 DEF SendGga, CasterAnswers, Upgrade, SendRequest
  <2>3. Same
    BY <1>1, <2>1, <2>2 DEF Same
  <2> QED BY <2>3, SameSkips
<1>3. CASE CasterSends
  <2>1. PICK m \in traffic : pipe' = Append(pipe, m)
    BY <1>3 DEF CasterSends
  <2>2. pipe' \in Seq(traffic)
    BY <1>1, <2>1
  <2>3. UNCHANGED <<raw, taken, traffic, intact, skipped>> /\ conn' = conn
    BY <1>3 DEF CasterSends, parserVars, setting, ledger
  <2>4. Same
    BY <2>2, <2>3 DEF Same
  <2> QED BY <2>4, SameSkips
<1>4. CASE SendBaseData \/ SendBaseDataLost \/ HandleParsed \/ WriteFrames
  <2>1. UNCHANGED <<raw, taken, traffic, intact, skipped>> /\ pipe' = pipe
    BY <1>4 DEF SendBaseData, SendBaseDataLost, HandleParsed, WriteFrames, tcpVars, setting
  <2>2. {conn, conn'} \subseteq {"streaming", "parsed", "writing"}
    BY <1>4 DEF SendBaseData, SendBaseDataLost, HandleParsed, WriteFrames
  <2>3. Same
    BY <1>1, <2>1, <2>2 DEF Same
  <2> QED BY <2>3, SameSkips
<1>5. HeaderFree' = HeaderFree /\ Shortest' = Shortest /\ traffic' = traffic
  <2>1. traffic' = traffic
    BY <1>2, <1>3, <1>4 DEF RtcmNext, ClientStep, Connect, SendRequest, ResponseOk, ResponseFail, Receive, SendBaseData,
           HandleParsed, WriteFrames, SendGga, CasterAnswers, CasterSends, Cut, SendBaseDataLost,
           WriteRaises, Upgrade, setting
  <2> QED BY <2>1 DEF HeaderFree, Shortest
<1>6. CASE ResponseFail \/ Cut \/ WriteRaises
  <2>1. /\ raw' = raw /\ skipped' = skipped /\ conn' = "closed" /\ pipe' = <<>>
    BY <1>6 DEF ResponseFail, Cut, WriteRaises, Disconnect, parserVars
  <2>2. pipe' \in Seq(traffic')
    BY <2>1
  <2>3. Mended(skipped)' = Mended(skipped) /\ RawOk(raw)' = RawOk(raw)
    BY <1>5, <2>1 DEF Mended, RawOk
  <2> QED BY <1>5, <2>1, <2>2, <2>3 DEF SkipInv
<1>7. CASE Connect
  <2>1. raw' = raw /\ skipped' = 0 /\ conn' = "connected" /\ pipe' = pipe
    BY <1>7 DEF Connect, parserVars, tcpVars
  <2>2. RawOk(raw) => Mended(0)
    BY <1>1, NoneSkipped
  <2>3. Mended(skipped)' = Mended(0) /\ RawOk(raw)' = RawOk(raw)
    BY <1>5, <2>1 DEF Mended, RawOk
  <2> QED BY <1>1, <1>5, <2>1, <2>2, <2>3 DEF SkipInv
<1>8. CASE ResponseOk
  <2>1. PICK n \in 0..MaxChunk : taken + n <= Len(Coming) /\ TakeBytes(n)
    BY <1>8 DEF ResponseOk
  <2>2. n \in Nat
    BY RtcmAssumption
  <2>3. PipeInv' /\ pipe' \in Seq(traffic)
    BY <1>1, <2>1, <2>2, TakesBytes, LeavesTraffic
  <2>4. raw' = raw /\ skipped' = 0 /\ conn' = "streaming" /\ taken' \in Nat
    BY <1>8, <2>3 DEF ResponseOk, parserVars, SkipInv, PipeInv
  <2>5. RawOk(raw) => Mended(0) /\ Astray(0, taken', raw)
    BY <1>1, <2>4, NoneSkipped
  <2>6. Mended(skipped)' = Mended(0) /\ Astray(skipped, taken, raw)' = Astray(0, taken', raw)
        /\ RawOk(raw)' = RawOk(raw)
    BY <1>5, <2>4 DEF Mended, Astray, Seeking, Swallowing, RawOk, Left
  <2> QED BY <1>5, <2>3, <2>4, <2>5, <2>6 DEF SkipInv
<1>9. CASE Receive
  <2>1. PICK n \in 1..MaxChunk : taken + n <= Len(Coming) /\ Recv(n)
    BY <1>9 DEF Receive
  <2>2. n \in Nat /\ conn = "streaming"
    BY <1>9, RtcmAssumption DEF Receive
  <2> QED BY <1>5, <2>1, <2>2, SkipRecv
<1> QED BY <1>2, <1>3, <1>4, <1>6, <1>7, <1>8, <1>9 DEF RtcmNext, ClientStep

(* So does every step of the driver.                                        *)
LEMMA SkipNext ==
  ASSUME StreamInv, Waiting, SkipInv, [Next]_driverVars
  PROVE  SkipInv'
<1>1. pipe \in Seq(traffic)
  BY DEF SkipInv
<1>2. CASE Listen \/ LogMessages \/ UNCHANGED driverVars
  <2>1. UNCHANGED <<raw, taken, traffic, intact, skipped>> /\ pipe' = pipe
    BY <1>2 DEF Listen, OpenBus, Answered, TimedOut, EndTry, LogMessages, driverVars, rtcmVars,
       parserVars, tcpVars, setting, ledger
  <2>2. conn' = conn \/ conn' = "closed"
    BY <1>2 DEF Listen, OpenBus, Answered, TimedOut, EndTry, LogMessages, driverVars, rtcmVars
  <2>3. Same
    BY <1>1, <2>1, <2>2 DEF Same
  <2> QED BY <2>3, SameSkips
<1>3. CASE Corrections
  BY <1>3, SkipStep DEF Corrections
<1> QED BY <1>2, <1>3 DEF Next

(* If headers occur only where packets begin, no more packets are lost on a *)
(* connection than those that the longest false packet may swallow, the one *)
(* under way when it ends and the one whose beginning went with the answer, *)
(* for any such packets and any chunks, and whatever the connection before  *)
(* has left in the parser.                                                  *)
THEOREM SkipsAreBounded == Spec => []SkipsBounded
<1>1. Init => StreamInv /\ Waiting /\ SkipInv
  <2> SUFFICES ASSUME Init PROVE StreamInv /\ Waiting /\ SkipInv
    OBVIOUS
  <2>1. StreamInv /\ Waiting
    BY StreamInit
  <2>2. raw = <<>> /\ pipe = <<>> /\ skipped = 0 /\ conn \in {"off", "closed"}
    BY DEF Init, RtcmInit
  <2>3. RawOk(raw) /\ pipe \in Seq(traffic)
    BY <2>2 DEF RawOk
  <2>4. Mended(0)
    BY <2>1, <2>3, NoneSkipped DEF StreamInv
  <2> QED BY <2>1, <2>2, <2>3, <2>4 DEF SkipInv
<1>2. StreamInv /\ Waiting /\ SkipInv /\ [Next]_driverVars => (StreamInv /\ Waiting /\ SkipInv)'
  BY DriverStep, WaitingStep, SkipNext
<1>3. StreamInv /\ SkipInv => SkipsBounded
  <2> SUFFICES ASSUME StreamInv, SkipInv, HeaderFree PROVE skipped * Shortest < Header + 2 + 2 * Shortest
    BY DEF SkipsBounded
  <2>1. skipped \in Int /\ (skipped - 2) * Shortest < Header + 2
    BY DEF SkipInv, Mended
  <2>2. Shortest \in Nat /\ Header \in Nat
    BY ShortestIs, RtcmAssumption DEF StreamInv
  <2>3. skipped * Shortest = (skipped - 2) * Shortest + 2 * Shortest
    BY <2>1, <2>2
  <2> QED BY <2>1, <2>2, <2>3
<1> QED BY <1>1, <1>2, <1>3, PTL DEF Spec
=============================================================================
