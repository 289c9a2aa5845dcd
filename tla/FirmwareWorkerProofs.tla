----------------------- MODULE FirmwareWorkerProofs -----------------------
(***************************************************************************)
(* Proofs about FirmwareWorker, for every file length, every block size    *)
(* and every set of faults; that FINISH means a complete image is proved   *)
(* for a link on which no acknowledgement comes late.                      *)
(***************************************************************************)
EXTENDS FirmwareWorker, FiniteSetTheorems, TLAPS

(* A block is written only where there is one left to write.                *)
BlockLeft == pc \in {"write", "read", "progress"} => current < total

TypeInv == TypeOK /\ BlockLeft

(* The offset grows by the length of the block, up to the file's.           *)
LEMMA DataLenFits ==
  ASSUME NEW o \in 0..total
  PROVE  DataLen(o) \in Nat /\ o + DataLen(o) \in 0..total
BY FirmwareWorkerAssumption DEF DataLen

(* A block is part of the file.                                             *)
LEMMA BlockInFile ==
  ASSUME NEW o
  PROVE  Block(o) \subseteq Offsets
BY DEF Block

LEMMA AgainLabel ==
  ASSUME NEW t
  PROVE  Again(t) \in {"write", "exited", "progress"}
BY DEF Again

LEMMA TypeInit == Init => TypeInv
<1> SUFFICES ASSUME Init PROVE TypeInv
  OBVIOUS
<1>1. wire \in Seq(Offsets)
  BY DEF Init
<1>2. current \in 0..total /\ reported \in 0..total /\ trial \in Nat
  BY FirmwareWorkerAssumption DEF Init
<1>3. acks \in Nat /\ losses \in Nat /\ flash \subseteq Offsets
  BY DEF Init
<1>4. pc = "work" /\ ack_enable \in BOOLEAN /\ isStopped \in BOOLEAN
  BY DEF Init
<1>5. QED
  BY <1>1, <1>2, <1>3, <1>4 DEF TypeInv, TypeOK, BlockLeft, Running, Ended

LEMMA TypeStep == TypeInv /\ [Next]_vars => TypeInv'
<1> SUFFICES ASSUME TypeInv, [Next]_vars PROVE TypeInv'
  OBVIOUS
<1> USE FirmwareWorkerAssumption DEF TypeInv, TypeOK, BlockLeft, Running, Ended
<1>1. CASE Work
  BY <1>1 DEF Work, deviceVars
<1>2. CASE BeforeWrite
  BY <1>2 DEF BeforeWrite
<1>3. CASE HookFails
  <2>1. wire' \in Seq(Offsets)
    <3>1. CASE pc = "write" /\ wire' = Append(wire, current)
      BY <3>1 DEF Offsets
    <3>2. CASE UNCHANGED wire
      BY <3>2
    <3>3. QED
      BY <1>3, <3>1, <3>2 DEF HookFails
  <2>2. QED
    BY <1>3, <2>1 DEF HookFails
<1>4. CASE NextBlock
  BY <1>4 DEF NextBlock, deviceVars
<1>5. CASE WriteBlock
  <2>1. wire' \in Seq(Offsets)
    BY <1>5 DEF WriteBlock, Offsets
  <2>2. pc' \in {"read", "write", "exited", "progress"}
    BY <1>5, AgainLabel DEF WriteBlock
  <2>3. QED
    BY <1>5, <2>1, <2>2 DEF WriteBlock
<1>6. CASE WriteRaises
  BY <1>6, AgainLabel DEF WriteRaises
<1>7. CASE ReadAck
  BY <1>7 DEF ReadAck
<1>8. CASE ReadGivesUp
  BY <1>8, AgainLabel DEF ReadGivesUp, deviceVars
<1>9. CASE Progress
  BY <1>9, DataLenFits DEF Progress, deviceVars
<1>10. CASE Finish
  BY <1>10 DEF Finish, deviceVars
<1>11. CASE Stop
  BY <1>11 DEF Stop, deviceVars
<1>12. CASE Receive
  <2>1. wire' \in Seq(Offsets)
    BY <1>12 DEF Receive
  <2>2. flash' \subseteq Offsets
    BY <1>12, BlockInFile DEF Receive
  <2>3. QED
    BY <1>12, <2>1, <2>2 DEF Receive, workerVars
<1>13. CASE LoseBlock
  BY <1>13 DEF LoseBlock, workerVars
<1>14. CASE UNCHANGED vars
  BY <1>14 DEF vars, workerVars, deviceVars
<1>15. QED
  BY <1>1, <1>2, <1>3, <1>4, <1>5, <1>6, <1>7, <1>8, <1>9, <1>10, <1>11, <1>12,
     <1>13, <1>14 DEF Next, WorkerStep, LinkStep

(* Every attribute of the worker keeps its type under all faults; the       *)
(* offset and the progress reported stay within the file, although the      *)
(* last block is shorter than the others.                                   *)
THEOREM TypeCorrect == Spec => []TypeOK
<1>1. TypeInv => TypeOK
  BY DEF TypeInv
<1>2. QED
  BY TypeInit, TypeStep, <1>1, PTL DEF Spec

-----------------------------------------------------------------------------
(***************************************************************************)
(* What an acknowledged upgrade relies on: between two blocks nothing is   *)
(* on the link, so what is acknowledged while the worker waits is the      *)
(* block it has just written.  reset_buffer() brings this about before the *)
(* first block, the wait for the acknowledgement keeps it.                 *)
(***************************************************************************)
QuietBefore == pc \in {"work", "before"} => wire = <<>> /\ current = 0

QuietBetween ==
  pc \in {"next", "write", "progress", "after"} => wire = <<>> /\ acks = 0

OneOnTheLink ==
  pc = "read" =>
    \/ wire = <<>> /\ acks = 0
    \/ wire = <<>> /\ acks = 1 /\ Block(current) \subseteq flash
    \/ wire = <<current>> /\ acks = 0

WrittenAtProgress == pc = "progress" => Block(current) \subseteq flash

AllAtTheEnd == pc \in {"after", "finished"} => current >= total

LinkInv ==
  ack_enable =>
    QuietBefore /\ QuietBetween /\ OneOnTheLink /\ WrittenAtProgress /\ AllAtTheEnd

IInv == TypeInv /\ LinkInv /\ NoHole

LEMMA LinkInit == Init => LinkInv /\ NoHole
BY FirmwareWorkerAssumption
DEF Init, LinkInv, QuietBefore, QuietBetween, OneOnTheLink, WrittenAtProgress, AllAtTheEnd,
    NoHole, Offsets

LEMMA LinkStepKeeps ==
  ASSUME "late" \notin Faults, IInv, [Next]_vars
  PROVE  LinkInv'
<1> SUFFICES ASSUME ack_enable' PROVE
      (QuietBefore /\ QuietBetween /\ OneOnTheLink /\ WrittenAtProgress /\ AllAtTheEnd)'
  BY DEF LinkInv
<1> USE DEF QuietBefore, QuietBetween, OneOnTheLink, WrittenAtProgress, AllAtTheEnd
<1>1. ack_enable
  BY DEF Next, WorkerStep, LinkStep, Work, BeforeWrite, HookFails, NextBlock, WriteBlock,
     WriteRaises, ReadAck, ReadGivesUp, Progress, Finish, Stop, Receive, LoseBlock,
     vars, workerVars
<1>2. /\ QuietBefore /\ QuietBetween /\ OneOnTheLink
      /\ WrittenAtProgress /\ AllAtTheEnd
  BY <1>1 DEF IInv, LinkInv
<1>3. current \in Nat /\ acks \in Nat /\ total \in Nat
  BY FirmwareWorkerAssumption DEF IInv, TypeInv, TypeOK
<1> USE <1>2, <1>3
<1>4. CASE Work
  BY <1>4 DEF Work, deviceVars
<1>5. CASE BeforeWrite
  BY <1>5 DEF BeforeWrite
<1>6. CASE HookFails
  BY <1>6 DEF HookFails
<1>7. CASE NextBlock
  BY <1>7 DEF NextBlock, deviceVars
<1>8. CASE WriteBlock
  <2>1. wire' = <<current>> /\ acks' = 0 /\ current' = current /\ pc' = "read"
    BY <1>8, <1>1 DEF WriteBlock
  <2>2. QED
    BY <2>1
<1>9. CASE WriteRaises
  <2>1. pc' \in {"write", "exited"} /\ UNCHANGED <<wire, acks>> /\ pc = "write"
    BY <1>9, <1>1 DEF WriteRaises, Again
  <2>2. QED
    BY <2>1
<1>10. CASE ReadAck
  BY <1>10 DEF ReadAck, Block, DataLen
<1>11. CASE ReadGivesUp
  <2>1. pc' \in {"write", "exited"} /\ wire' = <<>> /\ acks' = 0
    BY <1>11, <1>1 DEF ReadGivesUp, Again, deviceVars
  <2>2. QED
    BY <2>1
<1>12. CASE Progress
  BY <1>12 DEF Progress, deviceVars
<1>13. CASE Finish
  BY <1>13 DEF Finish, deviceVars
<1>14. CASE Stop
  BY <1>14 DEF Stop, deviceVars, Block, DataLen
<1>15. CASE Receive
  <2>1. /\ wire # <<>> /\ wire' = Tail(wire)
        /\ flash' = flash \cup Block(Head(wire))
        /\ acks' \in {acks, acks + 1}
        /\ UNCHANGED <<pc, current>>
    BY <1>15 DEF Receive, workerVars
  <2>2. CASE pc = "read"
    <3>1. wire = <<current>> /\ acks = 0
      BY <2>1, <2>2
    <3>2. wire' = <<>> /\ Block(current)' \subseteq flash' /\ acks' \in {0, 1}
      BY <2>1, <3>1 DEF Block, DataLen
    <3>3. QED
      BY <2>1, <2>2, <3>2
  <2>3. CASE pc # "read"
    BY <2>1, <2>3
  <2>4. QED
    BY <2>2, <2>3
<1>16. CASE LoseBlock
  <2>1. /\ wire # <<>> /\ wire' = Tail(wire)
        /\ UNCHANGED <<pc, current, acks, flash>>
    BY <1>16 DEF LoseBlock, workerVars
  <2>2. CASE pc = "read"
    <3>1. wire = <<current>> /\ acks = 0
      BY <2>1, <2>2
    <3>2. wire' = <<>>
      BY <2>1, <3>1
    <3>3. QED
      BY <2>1, <2>2, <3>1, <3>2
  <2>3. CASE pc # "read"
    BY <2>1, <2>3
  <2>4. QED
    BY <2>2, <2>3
<1>17. CASE UNCHANGED vars
  BY <1>17 DEF vars, workerVars, deviceVars, Block, DataLen
<1>18. QED
  BY <1>4, <1>5, <1>6, <1>7, <1>8, <1>9, <1>10, <1>11, <1>12, <1>13, <1>14, <1>15,
     <1>16, <1>17 DEF Next, WorkerStep, LinkStep

(* Only Progress moves the offset, by the block that is in the flash.       *)
LEMMA NoHoleStep ==
  ASSUME IInv, [Next]_vars
  PROVE  NoHole'
<1> SUFFICES ASSUME ack_enable', NEW o \in Offsets, o < current'
             PROVE  o \in flash'
  BY DEF NoHole
<1>1. ack_enable /\ flash \subseteq flash'
  BY DEF Next, WorkerStep, LinkStep, Work, BeforeWrite, HookFails, NextBlock, WriteBlock,
     WriteRaises, ReadAck, ReadGivesUp, Progress, Finish, Stop, Receive, LoseBlock,
     vars, workerVars, deviceVars
<1>2. CASE o < current
  BY <1>1, <1>2 DEF IInv, NoHole
<1>3. CASE ~(o < current)
  <2>1. current' # current
    BY <1>3
  <2>2. Progress
    BY <2>1 DEF Next, WorkerStep, LinkStep, Work, BeforeWrite, HookFails, NextBlock,
       WriteBlock, WriteRaises, ReadAck, ReadGivesUp, Finish, Stop, Receive, LoseBlock,
       vars, workerVars
  <2>3. Block(current) \subseteq flash /\ current' = current + DataLen(current)
    BY <1>1, <2>2 DEF IInv, LinkInv, WrittenAtProgress, Progress
  <2>4. current \in Nat /\ o \in Nat
    BY FirmwareWorkerAssumption DEF IInv, TypeInv, TypeOK, Offsets
  <2>5. o \in Block(current)
    BY <1>3, <2>3, <2>4 DEF Block
  <2>6. QED
    BY <1>1, <2>3, <2>5
<1>4. QED
  BY <1>2, <1>3

LEMMA InvariantHolds ==
  ASSUME "late" \notin Faults
  PROVE  Spec => []IInv
<1>1. Init => IInv
  BY TypeInit, LinkInit DEF IInv
<1>2. IInv /\ [Next]_vars => IInv'
  BY TypeStep, LinkStepKeeps, NoHoleStep DEF IInv
<1>3. QED
  BY <1>1, <1>2, PTL DEF Spec

(* With acknowledgements, whatever is lost, stopped or raises, no block is  *)
(* skipped.                                                                 *)
THEOREM NoBlockSkipped ==
  ASSUME "late" \notin Faults
  PROVE  Spec => []NoHole
<1>1. IInv => NoHole
  BY DEF IInv
<1>2. QED
  BY <1>1, InvariantHolds, PTL

(* With acknowledgements FINISH is emitted only when the whole file is in   *)
(* the flash, the last, shorter block included.                             *)
THEOREM FinishMeansComplete ==
  ASSUME "late" \notin Faults
  PROVE  Spec => []ImageComplete
<1>1. IInv => ImageComplete
  <2> SUFFICES ASSUME IInv, ack_enable, pc = "finished" PROVE flash = Offsets
    BY DEF ImageComplete
  <2>1. current >= total /\ current \in Nat
    BY FirmwareWorkerAssumption DEF IInv, LinkInv, AllAtTheEnd, TypeInv, TypeOK
  <2>2. \A o \in Offsets : o < current
    BY <2>1, FirmwareWorkerAssumption DEF Offsets
  <2>3. QED
    BY <2>2 DEF IInv, NoHole, TypeInv, TypeOK
<1>2. QED
  BY <1>1, InvariantHolds, PTL

-----------------------------------------------------------------------------
(***************************************************************************)
(* What an upgrade without acknowledgements relies on: each copy of a      *)
(* block is in the flash, lost or still on the link.                       *)
(***************************************************************************)
Times(q, o) == Cardinality({i \in DOMAIN q : q[i] = o})
Copies(o)  == Times(wire, o)
Sure(o, n) == Block(o) \subseteq flash \/ losses + Copies(o) >= n

CopiesInv ==
  ~ack_enable =>
    /\ pc # "read"
    /\ current > 0 /\ pc = "write" => Sure(current, trial)
    /\ current > 0 /\ pc = "progress" => Sure(current, 3)
    /\ pc \in {"after", "finished"} => current >= total
    /\ \A b \in Offsets : b < current /\ b \notin Block(0) =>
         b \in flash \/ \E o \in Offsets : b \in Block(o) /\ Sure(o, 3)

(* The copies on a link are finitely many; one is sent and one taken off.   *)
LEMMA CopiesCount ==
  ASSUME NEW q \in Seq(Offsets), NEW o
  PROVE  /\ Times(q, o) \in Nat
         /\ \A x \in Offsets : Times(Append(q, x), o) = Times(q, o) + (IF x = o THEN 1 ELSE 0)
         /\ q # <<>> => Times(q, o) = Times(Tail(q), o) + (IF Head(q) = o THEN 1 ELSE 0)
<1> DEFINE S(s) == {i \in DOMAIN s : s[i] = o}
<1>1. \A s \in Seq(Offsets) : IsFiniteSet(S(s)) /\ Cardinality(S(s)) \in Nat
  <2> TAKE s \in Seq(Offsets)
  <2>1. IsFiniteSet(1..Len(s))
    BY FS_Interval
  <2>2. S(s) \subseteq 1..Len(s)
    OBVIOUS
  <2>3. IsFiniteSet(S(s))
    BY <2>1, <2>2, FS_Subset
  <2> QED BY <2>3, FS_CardinalityType
<1>2. ASSUME NEW x \in Offsets
      PROVE  Cardinality(S(Append(q, x))) = Cardinality(S(q)) + (IF x = o THEN 1 ELSE 0)
  <2> DEFINE a == Append(q, x)
             n == Len(q) + 1
  <2>1. /\ a \in Seq(Offsets) /\ DOMAIN a = 1..n /\ DOMAIN q = 1..Len(q) /\ Len(q) \in Nat
        /\ a[n] = x /\ \A i \in 1..Len(q) : a[i] = q[i]
    OBVIOUS
  <2> HIDE DEF a
  <2>2. n \notin S(q)
    BY <2>1
  <2>3. CASE x = o
    <3>1. S(a) = S(q) \cup {n}
      BY <2>1, <2>3
    <3>2. Cardinality(S(q) \cup {n}) = Cardinality(S(q)) + 1
      BY <1>1, <2>2, FS_AddElement
    <3> QED BY <2>3, <3>1, <3>2 DEF a
  <2>4. CASE x # o
    <3>1. S(a) = S(q)
      BY <2>1, <2>4
    <3>2. \A k \in Nat : k + 0 = k
      OBVIOUS
    <3>3. Cardinality(S(q)) + 0 = Cardinality(S(q))
      BY <1>1, <3>2
    <3>4. (IF x = o THEN 1 ELSE 0) = 0
      BY <2>4
    <3> HIDE DEF S
    <3> QED BY <3>1, <3>3, <3>4 DEF a
  <2> QED BY <2>3, <2>4
<1>3. ASSUME q # <<>>
      PROVE  Cardinality(S(q)) = Cardinality(S(Tail(q))) + (IF Head(q) = o THEN 1 ELSE 0)
  <2> DEFINE r == Tail(q)
             T == {i \in 2..Len(q) : q[i] = o}
             f == [i \in S(r) |-> i + 1]
  <2>1. /\ r \in Seq(Offsets) /\ Len(q) \in Nat \ {0} /\ DOMAIN q = 1..Len(q)
        /\ DOMAIN r = 1..Len(q) - 1 /\ \A i \in 1..Len(q) - 1 : r[i] = q[i + 1]
        /\ Head(q) = q[1]
    BY <1>3
  <2> HIDE DEF r
  <2>2. Cardinality(T) = Cardinality(S(r)) /\ IsFiniteSet(T)
    <3>1. f \in Bijection(S(r), T)
      <4>1. f \in Injection(S(r), T)
        <5>1. \A i \in S(r) : i \in Nat /\ i + 1 \in T
          BY <2>1
        <5> QED BY <5>1 DEF Injection, IsInjective
      <4>2. f \in Surjection(S(r), T)
        <5>1. \A j \in T : j - 1 \in S(r) /\ f[j - 1] = j
          BY <2>1
        <5> QED BY <4>1, <5>1 DEF Surjection, Injection
      <4> QED BY <4>1, <4>2 DEF Bijection
    <3>2. ExistsBijection(S(r), T)
      BY <3>1 DEF ExistsBijection
    <3> QED BY <1>1, <2>1, <3>2, FS_Bijection, FS_CountingElements
  <2>3. 1 \notin T
    OBVIOUS
  <2>4. CASE Head(q) = o
    <3>1. S(q) = T \cup {1}
      BY <2>1, <2>4
    <3>2. Cardinality(T \cup {1}) = Cardinality(T) + 1
      BY <2>2, <2>3, FS_AddElement
    <3> QED BY <2>2, <2>4, <3>1, <3>2 DEF r
  <2>5. CASE Head(q) # o
    <3>1. S(q) = T
      BY <2>1, <2>5
    <3>2. \A k \in Nat : k + 0 = k
      OBVIOUS
    <3>3. Cardinality(S(r)) + 0 = Cardinality(S(r))
      BY <1>1, <2>1, <3>2
    <3>4. (IF Head(q) = o THEN 1 ELSE 0) = 0
      BY <2>5
    <3> HIDE DEF S
    <3> QED BY <2>2, <3>1, <3>3, <3>4 DEF r
  <2> QED BY <2>4, <2>5
<1> QED BY <1>1, <1>2, <1>3 DEF Times

LEMMA CopiesOn ==
  ASSUME TypeInv, TypeInv', NEW o
  PROVE  /\ Copies(o) \in Nat /\ losses \in Nat /\ losses' \in Nat /\ Copies(o)' \in Nat
         /\ \A x \in Offsets : wire' = Append(wire, x) =>
              Copies(o)' = Copies(o) + (IF x = o THEN 1 ELSE 0)
         /\ wire # <<>> /\ wire' = Tail(wire) =>
              Copies(o) = Copies(o)' + (IF Head(wire) = o THEN 1 ELSE 0)
         /\ wire' = wire => Copies(o)' = Copies(o)
<1>1. wire \in Seq(Offsets) /\ wire' \in Seq(Offsets) /\ losses \in Nat /\ losses' \in Nat
  BY DEF TypeInv, TypeOK
<1>2. Copies(o) \in Nat /\ Copies(o)' \in Nat
  BY <1>1, CopiesCount DEF Copies
<1>3. ASSUME NEW x \in Offsets, wire' = Append(wire, x)
      PROVE  Copies(o)' = Copies(o) + (IF x = o THEN 1 ELSE 0)
  BY <1>1, <1>3, CopiesCount DEF Copies
<1>4. ASSUME wire # <<>>, wire' = Tail(wire)
      PROVE  Copies(o) = Copies(o)' + (IF Head(wire) = o THEN 1 ELSE 0)
  BY <1>1, <1>4, CopiesCount DEF Copies
<1>5. ASSUME wire' = wire PROVE Copies(o)' = Copies(o)
  BY <1>5 DEF Copies
<1> QED BY <1>1, <1>2, <1>3, <1>4, <1>5

(* No step makes a copy disappear.                                          *)
LEMMA SureStays ==
  ASSUME TypeInv, TypeInv', [Next]_vars, NEW o, NEW n \in Nat, Sure(o, n)
  PROVE  Sure(o, n)'
<1>0. /\ Copies(o) \in Nat /\ losses \in Nat /\ losses' \in Nat /\ Copies(o)' \in Nat
      /\ Block(o)' = Block(o)
  BY CopiesOn DEF Block, DataLen
<1>1. CASE Receive
  <2>1. wire # <<>> /\ wire' = Tail(wire) /\ flash' = flash \cup Block(Head(wire)) /\ losses' = losses
    BY <1>1 DEF Receive
  <2>2. CASE Head(wire) = o
    BY <1>0, <2>1, <2>2 DEF Sure
  <2>3. CASE Head(wire) # o
    <3>1. Copies(o) = Copies(o)' + 0
      BY <2>1, <2>3, CopiesOn
    <3>2. Copies(o) = Copies(o)'
      BY <3>1, <1>0
    <3> QED BY <1>0, <2>1, <3>2 DEF Sure
  <2> QED BY <2>2, <2>3
<1>2. CASE LoseBlock
  <2>1. wire # <<>> /\ wire' = Tail(wire) /\ flash' = flash /\ losses' = losses + 1
    BY <1>2 DEF LoseBlock
  <2>2. Copies(o) = Copies(o)' + 1 \/ Copies(o) = Copies(o)' + 0
    BY <2>1, CopiesOn
  <2>3. losses + Copies(o) <= losses' + Copies(o)'
    BY <1>0, <2>1, <2>2
  <2> QED BY <1>0, <2>1, <2>3 DEF Sure
<1>3. CASE wire' = wire /\ flash' = flash /\ losses' >= losses
  <2>1. Copies(o)' = Copies(o)
    BY <1>3, CopiesOn
  <2>2. losses + Copies(o) <= losses' + Copies(o)'
    BY <1>0, <1>3, <2>1
  <2> QED BY <1>0, <1>3, <2>2 DEF Sure
<1>4. CASE wire' = Append(wire, current) /\ current \in Offsets /\ flash' = flash /\ losses' = losses
  <2>1. Copies(o)' = Copies(o) + 1 \/ Copies(o)' = Copies(o) + 0
    BY <1>4, CopiesOn
  <2>2. losses + Copies(o) <= losses' + Copies(o)'
    BY <1>0, <1>4, <2>1
  <2> QED BY <1>0, <1>4, <2>2 DEF Sure
<1>5. current \in 0..total /\ (pc = "write" => current \in Offsets)
  BY FirmwareWorkerAssumption DEF TypeInv, TypeOK, BlockLeft, Offsets
<1>6. losses + 1 >= losses /\ losses >= losses
  BY <1>0
<1> QED BY <1>1, <1>2, <1>3, <1>4, <1>5, <1>6
        DEF Next, WorkerStep, LinkStep, Work, BeforeWrite, HookFails, NextBlock, WriteBlock,
            WriteRaises, ReadAck, ReadGivesUp, Progress, Finish, Stop, vars, workerVars, deviceVars

LEMMA CopiesInit == Init => CopiesInv
<1> SUFFICES ASSUME Init PROVE CopiesInv
  OBVIOUS
<1>1. pc = "work" /\ current = 0 /\ \A b \in Offsets : ~(b < current)
  BY FirmwareWorkerAssumption DEF Init, Offsets
<1> QED BY <1>1 DEF CopiesInv

LEMMA CopiesStep ==
  ASSUME TypeInv, CopiesInv, [Next]_vars
  PROVE  CopiesInv'
<1> SUFFICES ASSUME ~ack_enable'
             PROVE  /\ pc' # "read"
                    /\ current' > 0 /\ pc' = "write" => Sure(current, trial)'
                    /\ current' > 0 /\ pc' = "progress" => Sure(current, 3)'
                    /\ pc' \in {"after", "finished"} => current' >= total
                    /\ \A b \in Offsets : b < current' /\ b \notin Block(0) =>
                         b \in flash' \/ \E o \in Offsets : b \in Block(o) /\ Sure(o, 3)'
  BY DEF CopiesInv, Offsets, Block, DataLen
<1>0. TypeInv'
  BY TypeStep
<1>1. ~ack_enable
  BY DEF Next, WorkerStep, LinkStep, Work, BeforeWrite, HookFails, NextBlock, WriteBlock,
     WriteRaises, ReadAck, ReadGivesUp, Progress, Finish, Stop, Receive, LoseBlock,
     vars, workerVars
<1>2. /\ pc # "read"
      /\ current > 0 /\ pc = "write" => Sure(current, trial)
      /\ current > 0 /\ pc = "progress" => Sure(current, 3)
      /\ pc \in {"after", "finished"} => current >= total
      /\ \A b \in Offsets : b < current /\ b \notin Block(0) =>
           b \in flash \/ \E o \in Offsets : b \in Block(o) /\ Sure(o, 3)
  BY <1>1 DEF CopiesInv
<1>3. /\ current \in Nat /\ trial \in Nat /\ total \in Nat
      /\ \A n \in Nat : Sure(current, n) => \A x : x = current => Sure(x, n)'
      /\ \A o : Sure(o, 3) => Sure(o, 3)'
      /\ flash \subseteq flash'
  <2>1. current \in Nat /\ trial \in Nat /\ total \in Nat
    BY FirmwareWorkerAssumption DEF TypeInv, TypeOK
  <2>2. \A n \in Nat : \A o : Sure(o, n) => Sure(o, n)'
    BY <1>0, SureStays
  <2>3. flash \subseteq flash'
    BY DEF Next, WorkerStep, LinkStep, Work, BeforeWrite, HookFails, NextBlock, WriteBlock,
       WriteRaises, ReadAck, ReadGivesUp, Progress, Finish, Stop, Receive, LoseBlock,
       vars, workerVars, deviceVars
  <2> QED BY <2>1, <2>2, <2>3
<1>4. ASSUME current' = current
      PROVE  \A b \in Offsets : b < current' /\ b \notin Block(0) =>
               b \in flash' \/ \E o \in Offsets : b \in Block(o) /\ Sure(o, 3)'
  BY <1>2, <1>3, <1>4
(* The writing of a copy, to the link or to nowhere.                        *)
<1>5. CASE WriteBlock \/ WriteRaises
  <2>1. /\ pc = "write" /\ trial' = trial + 1 /\ current' = current
        /\ pc' = Again(trial + 1)
    BY <1>1, <1>5 DEF WriteBlock, WriteRaises
  <2>2. current \in Offsets
    BY <2>1, <1>3 DEF TypeInv, BlockLeft, Offsets
  <2>3. current > 0 => Sure(current, trial)'
    <3>1. /\ Copies(current) \in Nat /\ losses \in Nat /\ losses' \in Nat
          /\ Block(current)' = Block(current)
      BY <1>0, <2>1, CopiesOn DEF Block, DataLen
    <3>2. \/ Copies(current)' = Copies(current) + 1 /\ losses' = losses
          \/ Copies(current)' = Copies(current) /\ losses' = losses + 1
      <4>1. CASE WriteBlock
        <5>1. Times(Append(wire, current), current) = Times(wire, current) + 1
          BY <2>2, CopiesCount DEF TypeInv, TypeOK
        <5> QED BY <4>1, <5>1, <2>1 DEF Copies, WriteBlock
      <4>2. CASE WriteRaises
        BY <4>2, <2>1 DEF Copies, WriteRaises
      <4> QED BY <1>5, <4>1, <4>2
    <3>3. flash' = flash
      BY <1>5 DEF WriteBlock, WriteRaises
    <3>4. losses + Copies(current) >= trial => losses' + Copies(current)' >= trial + 1
      BY <1>3, <3>1, <3>2
    <3>5. Sure(current, trial)' <=> losses' + Copies(current)' >= trial + 1 \/ Block(current) \subseteq flash
      BY <2>1, <3>1, <3>3 DEF Sure
    <3> QED BY <1>2, <2>1, <3>4, <3>5 DEF Sure
  <2>4. /\ pc' \in {"write", "progress"}
        /\ current > 0 /\ pc' = "progress" => trial + 1 >= 3
    BY <1>1, <1>3, <2>1 DEF Again, Tries
  <2>5. current > 0 /\ pc' = "progress" => Sure(current, 3)'
    <3>1. SUFFICES ASSUME current > 0, pc' = "progress" PROVE Sure(current, 3)'
      OBVIOUS
    <3>2. trial' >= 3 /\ trial' \in Nat
      BY <1>3, <2>1, <2>4, <3>1
    <3>3. Copies(current)' \in Nat /\ losses' \in Nat
      <4>1. wire' \in Seq(Offsets) /\ losses' \in Nat
        BY <1>0 DEF TypeInv, TypeOK
      <4> QED BY <4>1, CopiesCount DEF Copies
    <3>4. losses' + Copies(current)' >= trial' => losses' + Copies(current)' >= 3
      BY <3>2, <3>3
    <3> QED BY <2>3, <3>1, <3>4 DEF Sure
  <2> QED BY <1>4, <2>1, <2>3, <2>4, <2>5
<1>6. CASE Progress
  <2>1. pc = "progress" /\ current' = current + DataLen(current) /\ pc' = "next"
    BY <1>6 DEF Progress
  <2>2. ASSUME NEW b \in Offsets, b < current', b \notin Block(0)
        PROVE  b \in flash' \/ \E o \in Offsets : b \in Block(o) /\ Sure(o, 3)'
    <3>1. CASE b < current
      BY <1>2, <1>3, <2>2, <3>1
    <3>2. CASE ~(b < current)
      <4>1. b \in Nat /\ b \in Block(current)
        BY <1>3, <2>1, <2>2, <3>2 DEF Block, Offsets
      <4>2. current > 0 /\ current \in Offsets
        <5>1. current # 0
          BY <2>2, <4>1
        <5> QED BY <1>3, <2>1, <5>1 DEF TypeInv, BlockLeft, Offsets
      <4>3. Sure(current, 3)
        BY <1>2, <2>1, <4>2
      <4> QED BY <1>3, <4>1, <4>2, <4>3
    <3> QED BY <3>1, <3>2
  <2> QED BY <2>1, <2>2
<1>7. CASE NextBlock
  <2>1. /\ current' = current /\ trial' = 0
        /\ pc' \in {"after", "returned", "write"} /\ (pc' = "after" => current >= total)
    BY <1>7 DEF NextBlock
  <2>2. Copies(current)' \in Nat /\ losses' \in Nat
    BY <1>0, <2>1, CopiesOn DEF Copies
  <2>3. Sure(current, trial)'
    BY <2>1, <2>2 DEF Sure
  <2> QED BY <1>4, <2>1, <2>3
<1>8. CASE Work \/ BeforeWrite \/ HookFails \/ ReadAck \/ ReadGivesUp \/ Finish
  <2>1. current' = current /\ pc' \in {"returned", "exited", "before", "next", "finished"}
        /\ (pc' = "finished" => pc = "after")
    BY <1>2, <1>8 DEF Work, BeforeWrite, HookFails, ReadAck, ReadGivesUp, Finish
  <2> QED BY <1>2, <1>4, <2>1
<1>9. CASE Stop \/ Receive \/ LoseBlock \/ UNCHANGED vars
  <2>1. current' = current /\ pc' = pc /\ trial' = trial
    BY <1>9 DEF Stop, Receive, LoseBlock, vars, workerVars
  <2>2. /\ Sure(current, trial) => Sure(current, trial)'
        /\ Sure(current, 3) => Sure(current, 3)'
    <3>1. Sure(current, trial)' <=> losses' + Copies(current)' >= trial \/ Block(current) \subseteq flash'
      BY <2>1 DEF Sure, Block, DataLen
    <3>2. Sure(current, 3)' <=> losses' + Copies(current)' >= 3 \/ Block(current) \subseteq flash'
      BY <2>1 DEF Sure, Block, DataLen
    <3> QED BY <1>3, <2>1, <3>1, <3>2
  <2> QED BY <1>2, <1>4, <2>1, <2>2
<1> QED BY <1>5, <1>6, <1>7, <1>8, <1>9 DEF Next, WorkerStep, LinkStep

(* Without acknowledgements, two losses cost nothing but the first block,   *)
(* whatever the lengths and wherever the losses are.                        *)
THEOREM ThreeCopiesSuffice == Spec => []CopiesSuffice
<1> DEFINE Inv == TypeInv /\ CopiesInv
<1>1. Init => Inv
  BY TypeInit, CopiesInit
<1>2. Inv /\ [Next]_vars => Inv'
  BY TypeStep, CopiesStep
<1>3. Inv => CopiesSuffice
  <2> SUFFICES ASSUME Inv, ~ack_enable, pc = "finished", wire = <<>>, losses <= 2,
                      NEW b \in Offsets, b \notin flash
               PROVE  b \in Block(0)
    BY DEF CopiesSuffice
  <2>1. b < current
    BY FirmwareWorkerAssumption DEF CopiesInv, TypeInv, TypeOK, Offsets
  <2>2. \A o : ~Sure(o, 3) \/ Block(o) \subseteq flash
    <3>1. \A o : {i \in DOMAIN wire : wire[i] = o} = {}
      OBVIOUS
    <3>2. \A o : Copies(o) = 0
      BY <3>1, FS_EmptySet DEF Copies, Times
    <3>3. losses \in Nat
      BY DEF TypeInv, TypeOK
    <3> QED BY <3>2, <3>3 DEF Sure
  <2> QED BY <2>1, <2>2 DEF CopiesInv
<1> QED BY <1>1, <1>2, <1>3, PTL DEF Spec
=============================================================================
